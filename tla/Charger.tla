------------------------------ MODULE Charger ------------------------------
(***************************************************************************)
(* The charging-station controller as its golden model defines it: class   *)
(* Charger of testbench/app/golden.py, the "single source of truth" that   *)
(* the firmware (Firmware.tla) and the web visualiser must agree with.     *)
(* The visualiser holds a method-by-method port of it, class Charger of    *)
(* frontend/src/data/charger.ts; the two agree on everything below.        *)
(*                                                                         *)
(* The object is one record `c`, its methods are operators from a record   *)
(* to a record, and an event is one call from outside: new inputs, elapsed *)
(* time, one byte from the meter.  Cause flags are a set.  A measurement   *)
(* is abstracted to what the rules compare: over-current, grid sag, the    *)
(* billed power V*I and the restart hash.  A body is abstracted to its     *)
(* length; the marker that closes it brings the frame the body decodes to  *)
(* (MeterLine.tla checks that decoding byte by byte).                      *)
(***************************************************************************)
EXTENDS Integers, Sequences

CONSTANTS
    MeterTimeout,   \* METER_TIMEOUT_MS, 4000 in the code
    RxTimeout,      \* RX_TIMEOUT_MS, 400 in the code
    AgeCap,         \* where the millisecond counters saturate, 2^32 - 1
    BodyLen,        \* decoded body length, 9
    SequenceMod,    \* sequence numbers are modulo 256
    SeqHalf,        \* a step of 128 or more is a step backward
    EnergyMod,      \* the energy register is modulo 2^32
    FrameCap,       \* FRAMES saturates at 255
    HoldBase,       \* HOLD_BASE, 2
    HashMax,        \* restart hash is 0..7
    PilotCodes,     \* the control-pilot codes on DATAIN, 0..7
    Power,          \* the values of V*I a frame may carry
    MaxStep         \* longest time step, in ticks

ASSUME TimerAssumption == /\ MeterTimeout \in Nat \ {0}
                          /\ RxTimeout \in Nat \ {0}
                          /\ AgeCap \in Nat
                          /\ MeterTimeout <= AgeCap /\ RxTimeout <= AgeCap
                          /\ MaxStep \in Nat \ {0}
ASSUME FrameAssumption == /\ BodyLen \in Nat \ {0}
                          /\ SequenceMod \in Nat \ {0} /\ SeqHalf \in 0..SequenceMod
                          /\ EnergyMod \in Nat \ {0}
                          /\ FrameCap \in Nat
                          /\ HoldBase \in Nat \ {0}
                          /\ HashMax \in Nat
                          /\ Power \subseteq Nat
                          /\ {0} \subseteq PilotCodes /\ PilotCodes \subseteq 0..7

Session == {"CONNECTED", "CHARGING", "GRID_HOLD"}
Latched == {"FAULT", "METER_TIMEOUT"}
States  == {"IDLE"} \cup Session \cup Latched
Causes  == {"ESTOP", "CP_ERROR", "OVERCURRENT", "CRC_LOST", "GRID_HOLD"}

NoSequence == -1                \* last_sequence is None
BadLimit   == 2                 \* the second consecutive bad frame faults

\* DATAIN: the control-pilot code (0 = A, 1 = B, 2 = C, 3 = D, 4.. = error
\* or invalid) and the safety-trip bit.
Pins == [cp : PilotCodes, safety : BOOLEAN]

\* A body that reached its closing marker; ok is "its CRC matches", and
\* nothing else is read of a body whose CRC does not.
Corrupt == [ok |-> FALSE, seq |-> 0, over |-> FALSE, sag |-> FALSE,
            power |-> 0, hash |-> 0]

Frames == [ok : {TRUE}, seq : 0..(SequenceMod - 1), over : BOOLEAN,
           sag : BOOLEAN, power : Power, hash : 0..HashMax] \cup {Corrupt}

\* One byte of the line, by what the parser compares it with: the escape
\* 0x7D, one of the two values that may follow it, or any other byte.
BodyBytes == {"escape", "stuffed", "plain"}

Records == [energy : 0..(EnergyMod - 1), status : {"IDLE"} \cup Latched,
            flags : SUBSET Causes, frames : 0..FrameCap]

VARIABLE c

NewCharger == [state |-> "IDLE", energy |-> 0, frames |-> 0, flags |-> {},
               bad |-> 0, hold |-> 0, delay |-> 0, lastSeq |-> NoSequence,
               pins |-> [cp |-> 0, safety |-> FALSE], tx |-> <<>>,
               len |-> 0, active |-> FALSE, escape |-> FALSE,
               rxAge |-> 0, age |-> 0, healthy |-> FALSE]

Init == c = NewCharger

-----------------------------------------------------------------------------
(* Reports and latched faults.                                             *)

Record(s, status) ==
    [s EXCEPT !.tx = Append(@, [energy |-> s.energy, status |-> status,
                                flags |-> s.flags, frames |-> s.frames])]

EnterFault(s, cause) ==
    [Record([s EXCEPT !.flags = @ \cup {cause}], "FAULT")
        EXCEPT !.state = "FAULT"]

Expired(s) == s.state \in Session /\ s.age >= MeterTimeout

\* Mutant of CheckTimeout: a session waiting for its first frame is not watched.
CheckTimeoutConnectedExempt(s) ==
    IF Expired(s) /\ s.state # "CONNECTED"
    THEN [Record(s, "METER_TIMEOUT") EXCEPT !.healthy = FALSE,
                                            !.state = "METER_TIMEOUT"]
    ELSE s

CheckTimeout(s) ==
    IF Expired(s)
    THEN [Record(s, "METER_TIMEOUT") EXCEPT !.healthy = FALSE,
                                            !.state = "METER_TIMEOUT"]
    ELSE s

-----------------------------------------------------------------------------
(* Pilot and safety rules.                                                 *)

\* Mutant of StartSession: health and totals of the last session are kept.
StartSessionStale(s) ==
    [s EXCEPT !.flags = {}, !.age = 0, !.lastSeq = NoSequence, !.len = 0,
              !.active = FALSE, !.escape = FALSE, !.state = "CONNECTED"]

StartSession(s) ==
    [s EXCEPT !.energy = 0, !.frames = 0, !.flags = {}, !.age = 0,
              !.healthy = FALSE, !.lastSeq = NoSequence, !.len = 0,
              !.active = FALSE, !.escape = FALSE, !.state = "CONNECTED"]

Unplug(s) == [Record(s, "IDLE") EXCEPT !.state = "IDLE"]

\* Mutant of Released: the safety trip is not looked at.
ReleasedByPilot(s) == s.pins.cp = 0

Released(s) == ~s.pins.safety /\ s.pins.cp = 0

MayCharge(s) == s.pins.cp = 2 /\ s.healthy /\ s.age < MeterTimeout

\* One pass of _step_pins.
StepPins(s) ==
    LET cp == s.pins.cp
        safety == s.pins.safety
    IN  CASE s.state \in Latched ->
               IF Released(s) THEN [s EXCEPT !.state = "IDLE"] ELSE s
          [] s.state \notin Latched /\ safety -> EnterFault(s, "ESTOP")
          [] s.state \notin Latched /\ ~safety /\ cp >= 4 ->
               EnterFault(s, "CP_ERROR")
          [] s.state = "IDLE" /\ ~safety /\ cp \in 1..3 -> StartSession(s)
          [] s.state \in Session /\ ~safety /\ cp = 0 -> Unplug(s)
          [] s.state = "CONNECTED" /\ ~safety /\ MayCharge(s) ->
               [s EXCEPT !.state = "CHARGING"]
          [] s.state \in {"CHARGING", "GRID_HOLD"} /\ ~safety
                                                   /\ cp \in {1, 3} ->
               [s EXCEPT !.state = "CONNECTED"]
          [] OTHER -> s

\* set_inputs repeats the pass until the state stays.  Two passes are enough
\* (PassesSettle), so the loop is its first two iterations.
ApplyInputs(s, pins) ==
    LET first  == StepPins([s EXCEPT !.pins = pins])
        second == IF first.state = s.state THEN first ELSE StepPins(first)
    IN  CheckTimeout(second)

-----------------------------------------------------------------------------
(* The meter: bad frames, partial frames, bytes and complete frames.       *)

\* Mutant of BadFrame: a latched fault is entered, and reported, again.
BadFrameAlwaysFaults(s) ==
    LET n == IF s.bad < BadLimit THEN s.bad + 1 ELSE BadLimit
        t == [s EXCEPT !.bad = n]
    IN  IF n >= BadLimit THEN EnterFault(t, "CRC_LOST") ELSE t

\* Mutant of BadFrame: a bad frame, too, shows that the meter is alive.
BadFrameRefreshes(s) ==
    LET n == IF s.bad < BadLimit THEN s.bad + 1 ELSE BadLimit
        t == [s EXCEPT !.bad = n, !.age = 0]
    IN  IF n >= BadLimit /\ s.state \notin Latched
        THEN EnterFault(t, "CRC_LOST") ELSE t

BadFrame(s) ==
    LET n == IF s.bad < BadLimit THEN s.bad + 1 ELSE BadLimit
        t == [s EXCEPT !.bad = n]
    IN  IF n >= BadLimit /\ s.state \notin Latched
        THEN EnterFault(t, "CRC_LOST") ELSE t

Discard(s) == [s EXCEPT !.active = FALSE, !.escape = FALSE, !.len = 0]

Partial(s) == s.active /\ (s.len > 0 \/ s.escape)

\* Mutant of CheckPartialTimeout: a body stopped at an escape is kept.
CheckPartialTimeoutByLength(s) ==
    IF s.active /\ s.rxAge >= RxTimeout /\ s.len > 0
    THEN BadFrame(Discard(s)) ELSE s

CheckPartialTimeout(s) ==
    CASE ~(s.active /\ s.rxAge >= RxTimeout) -> s
      [] s.active /\ s.rxAge >= RxTimeout /\ Partial(s) -> BadFrame(Discard(s))
      [] s.active /\ s.rxAge >= RxTimeout /\ ~Partial(s) -> Discard(s)

\* Mutant of EnterHold: the count of the last hold is kept.
EnterHoldKeepsCount(s, f) ==
    [s EXCEPT !.flags = @ \cup {"GRID_HOLD"}, !.delay = HoldBase + f.hash,
              !.state = "GRID_HOLD"]

EnterHold(s, f) ==
    [s EXCEPT !.flags = @ \cup {"GRID_HOLD"}, !.delay = HoldBase + f.hash,
              !.hold = 0, !.state = "GRID_HOLD"]

Bill(s, f) ==
    [s EXCEPT !.energy = (@ + f.power) % EnergyMod,
              !.frames = IF @ < FrameCap THEN @ + 1 ELSE FrameCap,
              !.state = "CHARGING"]

\* The contactor is closed, or may close on this frame: judge it first.
MeasureCharging(s, f) ==
    IF f.over THEN EnterFault(s, "OVERCURRENT")
    ELSE IF f.sag THEN EnterHold(s, f) ELSE Bill(s, f)

\* Mutant of MeasureHold: a sag during the hold does not restart the count.
MeasureHoldCountsOn(s, f) ==
    IF f.sag THEN s
    ELSE [s EXCEPT !.hold = @ + 1,
                   !.state = IF s.hold + 1 >= s.delay THEN "CHARGING" ELSE @]

\* Over-current is not looked at here: the contactor is open.
MeasureHold(s, f) ==
    IF f.sag THEN [s EXCEPT !.hold = 0]
    ELSE [s EXCEPT !.hold = @ + 1,
                   !.state = IF s.hold + 1 >= s.delay THEN "CHARGING" ELSE @]

\* Mutants of MayMeasure: the pins are not looked at; only a closed contactor
\* is served, so that a healthy frame never closes it.
MayMeasureAnyPins(s) == s.state \in {"CONNECTED", "CHARGING"}
MayMeasureOnlyClosed(s) == s.state = "CHARGING"

MayMeasure(s) ==
    \/ s.state = "CHARGING"
    \/ s.state = "CONNECTED" /\ s.pins.cp = 2 /\ ~s.pins.safety

\* Mutant of Measure: the frame that closes the contactor is not judged.
MeasureClosesFirst(s, f) ==
    CASE s.state = "CONNECTED" /\ MayMeasure(s) -> Bill(s, f)
      [] s.state = "CHARGING" -> MeasureCharging(s, f)
      [] s.state = "GRID_HOLD" -> MeasureHold(s, f)
      [] OTHER -> s

\* A CRC-valid frame in sequence, by the state it finds.
Measure(s, f) ==
    CASE MayMeasure(s) -> MeasureCharging(s, f)
      [] s.state = "GRID_HOLD" -> MeasureHold(s, f)
      [] OTHER -> s

SequenceDelta(s, f) == (f.seq - s.lastSeq) % SequenceMod

\* Mutant of Accepted: a valid CRC is enough.
AcceptedInAnyOrder(s, f) == f.ok

Accepted(s, f) ==
    /\ f.ok
    /\ s.lastSeq # NoSequence =>
         SequenceDelta(s, f) > 0 /\ SequenceDelta(s, f) < SeqHalf

\* Mutant of Accept: a gap in the sequence is not noticed.
AcceptSilently(s, f) ==
    [s EXCEPT !.lastSeq = f.seq, !.bad = 0, !.age = 0,
              !.healthy = ~f.over /\ ~f.sag]

Accept(s, f) ==
    [s EXCEPT !.flags = IF s.lastSeq # NoSequence /\ SequenceDelta(s, f) # 1
                        THEN @ \cup {"CRC_LOST"} ELSE @,
              !.lastSeq = f.seq, !.bad = 0, !.age = 0,
              !.healthy = ~f.over /\ ~f.sag]

OnFrame(s, f) ==
    LET t == CheckTimeout(s)
    IN  IF Accepted(t, f) THEN Measure(Accept(t, f), f) ELSE BadFrame(t)

\* A marker closes the body before it, if there is one, and opens the next.
CloseBody(s, f) ==
    CASE ~Partial(s) -> s
      [] Partial(s) /\ ~s.escape /\ s.len = BodyLen -> OnFrame(s, f)
      [] Partial(s) /\ (s.escape \/ s.len # BodyLen) -> BadFrame(s)

RxMarker(s, f) ==
    [CloseBody(CheckPartialTimeout(s), f)
        EXCEPT !.len = 0, !.active = TRUE, !.escape = FALSE, !.rxAge = 0]

RxBody(s, b) ==
    CASE s.escape /\ b # "stuffed" -> BadFrame(Discard(s))
      [] ~s.escape /\ b = "escape" -> [s EXCEPT !.escape = TRUE]
      [] (s.escape /\ b = "stuffed") \/ (~s.escape /\ b # "escape") ->
           IF s.len >= BodyLen THEN BadFrame(Discard(s))
           ELSE [s EXCEPT !.escape = FALSE, !.len = @ + 1]

RxBodyByte(s, b) ==
    LET t == CheckPartialTimeout(s)
    IN  IF t.active THEN RxBody([t EXCEPT !.rxAge = 0], b) ELSE t

\* A whole frame on the line: a marker, a body, a marker.
RxFrame(s, f) == RxMarker([RxMarker(s, Corrupt) EXCEPT !.len = BodyLen], f)

-----------------------------------------------------------------------------
(* Elapsed time.  A long step must act on the deadline that falls first.   *)

Saturate(n) == IF n > AgeCap THEN AgeCap ELSE n

PartialDueFirst(s) ==
    s.active /\ (s.state \in Session =>
                    RxTimeout - s.rxAge < MeterTimeout - s.age)

Elapse(s, n) ==
    LET t == [s EXCEPT !.age = Saturate(@ + n), !.rxAge = Saturate(@ + n)]
    IN  IF PartialDueFirst(s) THEN CheckTimeout(CheckPartialTimeout(t))
                              ELSE CheckPartialTimeout(CheckTimeout(t))

-----------------------------------------------------------------------------
(* Events.  tx holds the records the event itself appends: the reader of   *)
(* the serial line has taken the earlier ones.                             *)

Fresh == [c EXCEPT !.tx = <<>>]

SetInputs(pins) == c' = ApplyInputs(Fresh, pins)
AdvanceMs(n)    == c' = Elapse(Fresh, n)
RxFrameByte(b)  == c' = RxBodyByte(Fresh, b)
RxMarkerByte(f) == c' = RxMarker(Fresh, f)

Next == \/ \E pins \in Pins : SetInputs(pins)
        \/ \E n \in 1..MaxStep : AdvanceMs(n)
        \/ \E b \in BodyBytes : RxFrameByte(b)
        \/ \E f \in Frames : RxMarkerByte(f)

Spec == Init /\ [][Next]_c

\* The millisecond timer is hardware: time never stops.
FairSpec == Spec /\ WF_c(\E n \in 1..MaxStep : AdvanceMs(n))
-----------------------------------------------------------------------------
(* Correctness.                                                            *)

ChargerRecords ==
    [state : States, energy : 0..(EnergyMod - 1), frames : 0..FrameCap,
     flags : SUBSET Causes, bad : 0..BadLimit, hold : Nat, delay : Nat,
     lastSeq : NoSequence..(SequenceMod - 1), pins : Pins, tx : Seq(Records),
     len : 0..BodyLen, active : BOOLEAN, escape : BOOLEAN,
     rxAge : 0..AgeCap, age : 0..AgeCap, healthy : BOOLEAN]

\* Every attribute keeps its type, whatever handler ran.
TypeOK == c \in ChargerRecords

\* The state always agrees with the inputs last applied, also after meter
\* frames and timeouts: power (CHARGING) and a pending restart (GRID_HOLD)
\* only with the vehicle asking for it (CP = C), a session only with a
\* vehicle present, and never under a safety trip or an invalid pilot.
Agrees(s) ==
    /\ s.state \in {"CHARGING", "GRID_HOLD"} => s.pins.cp = 2
    /\ s.state = "CONNECTED" => s.pins.cp \in 1..3
    /\ s.state = "IDLE" => s.pins.cp = 0
    /\ s.state \notin Latched => ~s.pins.safety
PinsAgree == Agrees(c)

\* No session outlives its measurements: in every session state the last
\* valid frame (or the plug-in) is younger than the meter timeout.
SessionIsFresh == c.state \in Session => c.age < MeterTimeout

\* The contactor is never closed on a link that has just failed: a bad count
\* left over from an earlier fault may survive into CONNECTED, but power is
\* given only after a valid frame has cleared it.
LinkGood(s) ==
    /\ s.state \in {"CHARGING", "GRID_HOLD"} => s.bad < BadLimit
    /\ s.state = "CONNECTED" /\ s.healthy => s.bad < BadLimit
ChargingLinkGood == LinkGood(c)

\* Re-evaluating the pilot and safety rules changes nothing between inputs:
\* no frame, timeout or time step leaves a state the rules would still move.
\* A fault is the exception: see Firmware.tla, where the rules run forever.
Settled(s) == s.state \in Latched \/ StepPins(s).state = s.state
PinRulesSettled == Settled(c)

\* A restart in progress counts below its delay, which is at least HOLD_BASE.
CountsBelowDelay(s) ==
    s.state = "GRID_HOLD" => s.hold < s.delay /\ s.delay >= HoldBase
HoldBelowDelay == CountsBelowDelay(c)

\* An event reports at most once, and exactly when it ends a session or
\* latches a fault; the report shows the state entered and the totals as they
\* were before the event.  (No frame, byte, timeout or input reports twice.)
ReportsAreExact ==
    [][ LET latches == c.state \notin Latched /\ c'.state \in Latched
            unplugs == c.state \in Session /\ c'.state = "IDLE"
        IN  IF latches \/ unplugs
            THEN /\ Len(c'.tx) = 1
                 /\ c'.tx[1].status = c'.state
                 /\ c'.tx[1].energy = c.energy
                 /\ c'.tx[1].frames = c.frames
                 /\ c'.tx[1].flags = c'.flags
            ELSE c'.tx = <<>> ]_c

\* A latched fault survives every frame, timeout and time step: only inputs
\* with the safety trip clear and the vehicle gone release it, to IDLE, and
\* the totals it reported stay readable until the next session.
LatchHolds ==
    [][ c.state \in Latched =>
          /\ c'.state # c.state => /\ c'.state = "IDLE"
                                   /\ c'.pins = [cp |-> 0, safety |-> FALSE]
          /\ c'.energy = c.energy /\ c'.frames = c.frames ]_c

\* Silence ends a session: once time has passed since the last valid frame,
\* either another valid frame comes or the session stops.
SilenceEnds ==
    (c.state \in Session /\ c.age > 0) ~> (c.state \notin Session \/ c.age = 0)

\* A body that stops half way is dropped: the parser does not wait forever.
PartialBodyEnds == [](Partial(c) => <>(~Partial(c) \/ c.rxAge = 0))
=============================================================================
