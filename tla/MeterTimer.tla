------------------------------ MODULE MeterTimer ------------------------------
(***************************************************************************)
(* The millisecond counters of rtl/meter_timer.v: the age of the last      *)
(* valid measurement and the age of the last received byte.  Each has its  *)
(* own divider; a word write clears the selected one.  An event is a clock *)
(* edge, with or without a write of the firmware.                          *)
(***************************************************************************)
EXTENDS Integers

CONSTANTS
    TicksPerMs,     \* clock edges per millisecond, CLK_HZ / 1000
    AgeCap,         \* where a counter stops, 2^32 - 1
    Counters,       \* "age" at offset 0 and "rx" at offset 4
    MaxEdges        \* bound: edges of a counter's life the model counts

ASSUME MeterTimerAssumption == /\ TicksPerMs \in Nat \ {0}
                               /\ AgeCap \in Nat /\ MaxEdges \in Nat

VARIABLES
    ticks, age,     \* divider and counter
    edges           \* edges since the counter was last cleared (history)

timerVars == <<ticks, age, edges>>

TimerInit == /\ ticks = [k \in Counters |-> 0]
             /\ age = [k \in Counters |-> 0]
             /\ edges = [k \in Counters |-> 0]

\* Mutant of NextAge: the counter wraps.
NextAgeWraps(k) == IF ticks[k] = TicksPerMs - 1 THEN (age[k] + 1) % (AgeCap + 1)
                   ELSE age[k]

NextAge(k) == IF ticks[k] = TicksPerMs - 1 /\ age[k] # AgeCap THEN age[k] + 1
              ELSE age[k]

NextTicks(k) == IF ticks[k] = TicksPerMs - 1 THEN 0 ELSE ticks[k] + 1

\* Mutant of Edge: a write clears the counter and not its divider.
EdgeKeepsDivider(written) ==
    /\ ticks' = [k \in Counters |-> NextTicks(k)]
    /\ age'   = [k \in Counters |-> IF k \in written THEN 0 ELSE NextAge(k)]
    /\ edges' = [k \in Counters |-> IF k \in written THEN 0 ELSE edges[k] + 1]

\* One clock edge; `written` holds the counter the bus writes, if any.
Edge(written) ==
    /\ ticks' = [k \in Counters |-> IF k \in written THEN 0 ELSE NextTicks(k)]
    /\ age'   = [k \in Counters |-> IF k \in written THEN 0 ELSE NextAge(k)]
    /\ edges' = [k \in Counters |-> IF k \in written THEN 0 ELSE edges[k] + 1]

Runs == (\A k \in Counters : edges[k] < MaxEdges) /\ Edge({})
Writes == \E k \in Counters : /\ \A j \in Counters \ {k} : edges[j] < MaxEdges
                              /\ Edge({k})
Resets == Edge(Counters)

TimerNext == Runs \/ Writes \/ Resets

TimerSpec == TimerInit /\ [][TimerNext]_timerVars

-----------------------------------------------------------------------------
(* Correctness.                                                            *)

\* Counters and dividers keep their ranges.
TypeOK == /\ ticks \in [Counters -> 0..(TicksPerMs - 1)]
          /\ age \in [Counters -> 0..AgeCap]
          /\ edges \in [Counters -> Nat]

\* A counter says how many whole milliseconds have passed since it was last
\* cleared, whatever was done to the other one, and once it stops it stays at
\* the cap: data that has expired never looks young again.
AgeIsElapsed ==
    \A k \in Counters :
        IF age[k] < AgeCap THEN edges[k] = age[k] * TicksPerMs + ticks[k]
        ELSE edges[k] >= AgeCap * TicksPerMs
=============================================================================
