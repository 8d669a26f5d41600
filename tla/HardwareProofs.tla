--------------------------- MODULE HardwareProofs ---------------------------
(***************************************************************************)
(* What holds of the clocked parts for every value of their parameters:    *)
(* the timer of MeterTimer is exact at any clock rate, and the line of     *)
(* SerialLink delivers every byte whole, in order and once, for bytes of   *)
(* any length and any two clocks that are near enough for one byte.        *)
(*                                                                         *)
(* The argument about the line follows two clocks.  Elapsed counts the     *)
(* clocks of a frame from where the sender is in it, RxElapsed from where  *)
(* the receiver is; while both are in a frame they are equal, which gives  *)
(* every sample the bit it was meant for.  Waited counts how long the last *)
(* byte has lain in the receiver's register: three accesses of the         *)
(* program, each within MaxPause of the one before, end before the next    *)
(* byte comes.                                                             *)
(***************************************************************************)
EXTENDS SerialLink, MeterTimer, TLAPS

-----------------------------------------------------------------------------
(* The timer: the ranges, and the time that each counter shows.            *)

\* An edge keeps the ranges, whichever counters it clears.
LEMMA TypeStep ==
    ASSUME TypeOK, NEW written, Edge(written)
    PROVE  TypeOK'
<1>1. ASSUME NEW k \in Counters
      PROVE  NextTicks(k) \in 0..(TicksPerMs - 1) /\ NextAge(k) \in 0..AgeCap
  BY MeterTimerAssumption DEF TypeOK, NextTicks, NextAge
<1>2. ticks' \in [Counters -> 0..(TicksPerMs - 1)]
  BY <1>1, MeterTimerAssumption DEF Edge
<1>3. age' \in [Counters -> 0..AgeCap]
  BY <1>1, MeterTimerAssumption DEF Edge
<1>4. edges' \in [Counters -> Nat]
  BY DEF Edge, TypeOK
<1> QED BY <1>2, <1>3, <1>4 DEF TypeOK

\* An edge keeps the counters equal to the elapsed time.
LEMMA AgeStep ==
    ASSUME TypeOK, AgeIsElapsed, NEW written, Edge(written)
    PROVE  AgeIsElapsed'
<1> SUFFICES ASSUME NEW k \in Counters
             PROVE  IF age'[k] < AgeCap
                    THEN edges'[k] = age'[k] * TicksPerMs + ticks'[k]
                    ELSE edges'[k] >= AgeCap * TicksPerMs
  BY DEF AgeIsElapsed
<1> USE MeterTimerAssumption
<1>1. ticks[k] \in 0..(TicksPerMs - 1) /\ age[k] \in 0..AgeCap /\ edges[k] \in Nat
  BY DEF TypeOK
<1>2. IF age[k] < AgeCap THEN edges[k] = age[k] * TicksPerMs + ticks[k]
      ELSE edges[k] >= AgeCap * TicksPerMs
  BY DEF AgeIsElapsed
<1>3. CASE k \in written
  <2>1. age'[k] = 0 /\ ticks'[k] = 0 /\ edges'[k] = 0
    BY <1>3 DEF Edge
  <2>2. 0 * TicksPerMs = 0
    OBVIOUS
  <2>3. AgeCap = 0 => AgeCap * TicksPerMs = 0
    OBVIOUS
  <2> QED BY <2>1, <2>2, <2>3
<1>4. CASE k \notin written /\ ticks[k] # TicksPerMs - 1
  <2>1. age'[k] = age[k] /\ ticks'[k] = ticks[k] + 1 /\ edges'[k] = edges[k] + 1
    BY <1>4 DEF Edge, NextAge, NextTicks
  <2> DEFINE whole == age[k] * TicksPerMs
             cap == AgeCap * TicksPerMs
  <2>2. whole \in Nat /\ cap \in Nat
    BY <1>1
  <2>3. IF age[k] < AgeCap THEN edges[k] = whole + ticks[k] ELSE edges[k] >= cap
    BY <1>2
  <2>4. age'[k] * TicksPerMs = whole
    BY <2>1
  <2> HIDE DEF whole, cap
  <2>5. IF age'[k] < AgeCap THEN edges'[k] = whole + ticks'[k] ELSE edges'[k] >= cap
    BY <1>1, <2>1, <2>2, <2>3
  <2> QED BY <2>4, <2>5 DEF cap
<1>5. CASE k \notin written /\ ticks[k] = TicksPerMs - 1
  <2>1. ticks'[k] = 0 /\ edges'[k] = edges[k] + 1
        /\ age'[k] = IF age[k] # AgeCap THEN age[k] + 1 ELSE age[k]
    BY <1>5 DEF Edge, NextAge, NextTicks
  <2>2. CASE age[k] = AgeCap
    BY <1>1, <1>2, <2>1, <2>2
  <2>3. CASE age[k] # AgeCap
    <3>1. age[k] < AgeCap /\ age'[k] = age[k] + 1
      BY <1>1, <2>1, <2>3
    <3>2. (age[k] + 1) * TicksPerMs = age[k] * TicksPerMs + TicksPerMs
      BY <1>1
    <3>3. edges'[k] = age[k] * TicksPerMs + TicksPerMs
      BY <1>1, <1>2, <1>5, <2>1, <3>1
    <3>4. edges'[k] = age'[k] * TicksPerMs
      BY <3>1, <3>2, <3>3
    <3>5. CASE age'[k] < AgeCap
      BY <2>1, <3>4, <3>5, <1>1
    <3>6. CASE age'[k] = AgeCap
      BY <3>4, <3>6, <1>1
    <3> QED BY <1>1, <3>1, <3>5, <3>6
  <2> QED BY <2>2, <2>3
<1> QED BY <1>3, <1>4, <1>5

\* Every counter is the elapsed time since it was cleared, at any clock rate.
THEOREM TimerIsExact == TimerSpec => [](TypeOK /\ AgeIsElapsed)
<1>1. TimerInit => TypeOK /\ AgeIsElapsed
  BY MeterTimerAssumption DEF TimerInit, TypeOK, AgeIsElapsed
<1>2. TypeOK /\ AgeIsElapsed /\ [TimerNext]_timerVars => (TypeOK /\ AgeIsElapsed)'
  <2> SUFFICES ASSUME TypeOK, AgeIsElapsed, [TimerNext]_timerVars
               PROVE  (TypeOK /\ AgeIsElapsed)'
    OBVIOUS
  <2>1. CASE Runs
    BY <2>1, TypeStep, AgeStep DEF Runs
  <2>2. CASE Writes
    BY <2>2, TypeStep, AgeStep DEF Writes
  <2>3. CASE Resets
    BY <2>3, TypeStep, AgeStep DEF Resets
  <2>4. CASE UNCHANGED timerVars
    BY <2>4 DEF timerVars, TypeOK, AgeIsElapsed
  <2> QED BY <2>1, <2>2, <2>3, <2>4 DEF TimerNext
<1> QED BY <1>1, <1>2, PTL DEF TimerSpec

-----------------------------------------------------------------------------
(* The line: what holds of it in every state.                              *)

\* When the last frame has left the sender, and when the receiver hands it over.
FrameEnd == (DataBits + 2) * txClks
HandOver == Half + (DataBits + 1) * RxClks + 3

\* Clocks since the frame began: as the sender counts them, and as the receiver.
Elapsed == txBit * txClks + txCount
RxElapsed ==
    CASE rxState = "START" -> 3 + rxCount
      [] rxState = "DATA"  -> 3 + Half + rxBit * RxClks + rxCount
      [] rxState = "STOP"  -> 3 + Half + DataBits * RxClks + rxCount

Current == sent[Len(sent)]

\* The line during each bit of a frame: start bit, data, stop bit.
Level(byte, k) == IF k = 0 THEN 0 ELSE IF k \in 1..DataBits THEN byte[k - 1] ELSE 1

LinkTypeOK ==
    /\ txClks \in TxRates
    /\ txdata \in LinkBytes /\ txShift \in LinkBytes /\ rxShift \in LinkBytes
    /\ received \in LinkBytes /\ rxdata \in LinkBytes
    /\ transmit \in BOOLEAN /\ busy \in BOOLEAN /\ done \in BOOLEAN
    /\ rxValid \in BOOLEAN /\ rxdone \in BOOLEAN
    /\ txo \in {0, 1} /\ rxMeta \in {0, 1} /\ rxSync \in {0, 1}
    /\ txCount \in 0..(txClks - 1) /\ txBit \in 0..(DataBits + 1)
    /\ rxState \in {"IDLE", "START", "DATA", "STOP"}
    /\ rxCount \in 0..(RxClks - 1) /\ rxBit \in 0..(DataBits - 1)
    /\ rxState = "START" => rxCount <= Middle
    /\ writer \in {"poll", "data", "start"} /\ reader \in {"poll", "clear", "data"}
    /\ pause \in 0..MaxPause
    /\ sent \in Seq(LinkBytes) /\ got \in Seq(LinkBytes)

\* The sender: what is on the line and in the synchronizer, and what is still to come.
Sending ==
    /\ done = ~busy
    /\ writer # "poll" => ~busy /\ ~transmit
    /\ transmit => ~busy /\ sent # <<>> /\ txdata = Current
    /\ ~busy => txo = 1 /\ rxMeta = 1 /\ rxSync = 1
    /\ busy =>
         /\ sent # <<>> /\ txo = Level(Current, txBit)
         /\ rxMeta = Level(Current, IF txCount >= 1 THEN txBit ELSE txBit - 1)
         /\ rxSync = Level(Current, IF txCount >= 2 THEN txBit ELSE txBit - 1)
         /\ \A k \in 0..(DataBits - 1) : k + txBit < DataBits => txShift[k] = Current[k + txBit]

\* Where the receiver is.
Quiet == ~busy /\ rxState = "IDLE"
Unseen == busy /\ rxState = "IDLE" /\ Elapsed <= 2
Receiving == busy /\ rxState # "IDLE" /\ RxElapsed = Elapsed
Trailing ==
    /\ ~busy /\ ~transmit /\ rxState = "STOP" /\ RxElapsed >= FrameEnd
    /\ writer = "data" => RxElapsed >= FrameEnd + 1
    /\ writer = "start" => RxElapsed >= FrameEnd + 2
Over == busy /\ rxState = "IDLE" /\ txBit = DataBits + 1 /\ Elapsed >= HandOver

InStep ==
    /\ Quiet \/ Unseen \/ Receiving \/ Trailing \/ Over
    /\ rxState # "IDLE" => sent # <<>>
    /\ rxState = "DATA" => \A k \in 0..(rxBit - 1) : rxShift[k] = Current[k]
    /\ rxState = "STOP" => rxShift = Current

\* Bytes on the way: one on the line, and one in the registers.
InFlight == transmit \/ rxState # "IDLE" \/ Unseen
Pending == rxValid \/ rxdone \/ reader = "data"
OneIf(P) == IF P THEN 1 ELSE 0

Accounted ==
    /\ Len(sent) = Len(got) + OneIf(Pending) + OneIf(InFlight)
    /\ \A k \in 1..Len(got) : got[k] = sent[k]
    /\ Pending => sent[Len(got) + 1] = IF rxValid THEN received ELSE rxdata

\* At least as many clocks have passed since the last byte was handed over.
Waited ==
    IF rxState # "IDLE" THEN RxElapsed + FrameEnd + 4 - HandOver
    ELSE IF Unseen THEN Elapsed + FrameEnd + 4 - HandOver
    ELSE IF busy THEN Elapsed - HandOver
    ELSE FrameEnd - HandOver + IF transmit THEN 3 ELSE IF writer = "start" THEN 2
                               ELSE IF writer = "data" THEN 1 ELSE 0

InTime ==
    /\ rxValid => reader = "poll" /\ ~rxdone /\ rxState = "IDLE" /\ Waited <= 0
    /\ rxdone /\ reader = "poll" => Waited <= 1 + pause
    /\ reader = "clear" => rxdone /\ Waited <= MaxPause + 2 + pause
    /\ reader = "data" => ~rxdone /\ Waited <= 2 * MaxPause + 3 + pause

LinkInv == LinkTypeOK /\ Sending /\ InStep /\ Accounted /\ InTime

-----------------------------------------------------------------------------
(* Products.                                                               *)

\* One more, and no fewer.
LEMMA Products ==
    ASSUME NEW m \in Nat, NEW t \in Nat
    PROVE  /\ m * t \in Nat /\ (m + 1) * t = m * t + t /\ 0 * t = 0
           /\ \A n \in Nat : m <= n => m * t <= n * t
<1>1. m * t \in Nat /\ (m + 1) * t = m * t + t /\ 0 * t = 0
  OBVIOUS
<1>2. ASSUME NEW n \in Nat, m <= n PROVE m * t <= n * t
  <2>1. n - m \in Nat /\ n = m + (n - m)
    BY <1>2
  <2>2. (n - m) * t \in Nat
    BY <2>1
  <2>3. (m + (n - m)) * t = m * t + (n - m) * t
    BY <2>1
  <2>4. n * t = m * t + (n - m) * t
    BY <2>1, <2>3
  <2> QED BY <1>1, <2>2, <2>4
<1> QED BY <1>1, <1>2

\* What the assumptions say of the rate in use.
LEMMA TheRates ==
    ASSUME txClks \in TxRates
    PROVE  /\ txClks \in Nat /\ txClks >= 4 /\ RxClks \in Nat /\ RxClks >= 4
           /\ DataBits \in Nat \ {0} /\ MaxPause \in Nat
           /\ Half \in Nat /\ Half >= 2 /\ Half < RxClks /\ Middle = Half - 1
           /\ FrameEnd \in Nat /\ HandOver \in Nat /\ 3 * MaxPause < FrameEnd
           /\ DataBits * RxClks \in Nat
           /\ HandOver = Half + DataBits * RxClks + RxClks + 3
           /\ (DataBits + 1) * txClks \in Nat
           /\ FrameEnd = (DataBits + 1) * txClks + txClks
           /\ (DataBits + 1) * txClks + 3 <= HandOver /\ HandOver <= FrameEnd + 3
<1>1. /\ DataBits \in Nat \ {0} /\ MaxPause \in Nat /\ RxClks \in Nat /\ RxClks >= 4
      /\ txClks \in Nat /\ txClks >= 4 /\ 3 * MaxPause < (DataBits + 2) * txClks
      /\ (DataBits + 1) * txClks <= Half + (DataBits + 1) * RxClks
      /\ Half + (DataBits + 1) * RxClks <= (DataBits + 2) * txClks
  BY LinkAssumption
<1>2. Half \in Nat /\ Half >= 2 /\ Half < RxClks
  BY <1>1 DEF Half
<1>3. DataBits + 1 \in Nat /\ DataBits \in Nat /\ (DataBits + 1) + 1 = DataBits + 2
  BY <1>1
<1>4. /\ DataBits * RxClks \in Nat /\ (DataBits + 1) * RxClks = DataBits * RxClks + RxClks
  BY <1>1, <1>3, Products
<1>5. /\ (DataBits + 1) * txClks \in Nat
      /\ (DataBits + 2) * txClks = (DataBits + 1) * txClks + txClks
  BY <1>1, <1>3, Products
<1>6. FrameEnd = (DataBits + 1) * txClks + txClks
  BY <1>5 DEF FrameEnd
<1>7. HandOver = Half + DataBits * RxClks + RxClks + 3
  BY <1>1, <1>2, <1>4 DEF HandOver
<1>8. 3 * MaxPause < FrameEnd
  BY <1>1 DEF FrameEnd
<1>9. HandOver <= FrameEnd + 3
  <2>1. (DataBits + 1) * RxClks \in Nat
    BY <1>1, <1>4
  <2> QED BY <1>1, <1>2, <1>5, <2>1 DEF HandOver, FrameEnd
<1>10. (DataBits + 1) * txClks + 3 <= HandOver
  <2>1. (DataBits + 1) * RxClks \in Nat
    BY <1>1, <1>4
  <2> QED BY <1>1, <1>2, <1>5, <2>1 DEF HandOver
<1>11. FrameEnd \in Nat /\ HandOver \in Nat
  BY <1>1, <1>2, <1>4, <1>5, <1>6, <1>7
<1> QED BY <1>1, <1>2, <1>4, <1>5, <1>6, <1>7, <1>8, <1>9, <1>10, <1>11 DEF Middle

\* Two clocks after a clock of bit j, the sender is in that bit or has just left it.
LEMMA BitOf ==
    ASSUME NEW t \in Nat, t >= 4, NEW k \in Nat, NEW j \in Nat, NEW c \in 0..(t - 1),
           j * t + 2 <= k * t + c, k * t + c < (j + 1) * t + 2
    PROVE  (k = j /\ c >= 2) \/ (k = j + 1 /\ c < 2)
<1>1. (j + 1) * t = j * t + t /\ j * t \in Nat /\ k * t \in Nat
  BY Products
<1>2. ~(k + 1 <= j)
  <2> SUFFICES ASSUME k + 1 <= j PROVE FALSE
    OBVIOUS
  <2>1. (k + 1) * t <= j * t /\ (k + 1) * t = k * t + t
    BY Products
  <2> QED BY <1>1, <2>1
<1>3. ~(j + 2 <= k)
  <2> SUFFICES ASSUME j + 2 <= k PROVE FALSE
    OBVIOUS
  <2>1. j + 2 \in Nat /\ j + 1 \in Nat /\ (j + 1) + 1 = j + 2
    OBVIOUS
  <2>2. (j + 2) * t <= k * t
    BY <2>1, Products
  <2>3. (j + 2) * t = (j + 1) * t + t
    BY <2>1, Products
  <2> QED BY <1>1, <2>2, <2>3
<1>4. k = j \/ k = j + 1
  BY <1>2, <1>3
<1>5. k = j => c >= 2
  BY <1>1
<1>6. k = j + 1 => c < 2
  BY <1>1
<1> QED BY <1>4, <1>5, <1>6

-----------------------------------------------------------------------------
(* Types.                                                                  *)

\* Shifting a byte down gives a byte: bit k is the bit above it.
LEMMA ShiftIsByte ==
    ASSUME NEW byte \in LinkBytes, DataBits \in Nat \ {0}
    PROVE  /\ ShiftedDown(byte) \in LinkBytes /\ byte[0] \in {0, 1}
           /\ \A k \in 0..(DataBits - 1) : k + 1 < DataBits => ShiftedDown(byte)[k] = byte[k + 1]
<1>1. \A k \in 0..(DataBits - 1) : k # DataBits - 1 => k + 1 \in 0..(DataBits - 1)
  OBVIOUS
<1> QED BY <1>1 DEF ShiftedDown, LinkBytes

\* The transmitter keeps its types: its counters stay within a bit and within a frame.
LEMMA TxTypes ==
    ASSUME LinkTypeOK, TxEdge, txClks' = txClks
    PROVE  /\ txShift' \in LinkBytes /\ txo' \in {0, 1} /\ busy' \in BOOLEAN /\ done' \in BOOLEAN
           /\ txCount' \in 0..(txClks' - 1) /\ txBit' \in 0..(DataBits + 1)
<1>0. /\ txShift \in LinkBytes /\ txdata \in LinkBytes /\ txo \in {0, 1} /\ txClks \in TxRates
      /\ txCount \in 0..(txClks - 1) /\ txBit \in 0..(DataBits + 1)
  BY DEF LinkTypeOK
<1>1. txClks \in Nat /\ txClks >= 4 /\ DataBits \in Nat \ {0}
  BY <1>0, TheRates
<1>2. busy \in BOOLEAN /\ done \in BOOLEAN
  BY DEF LinkTypeOK
<1>3. busy' \in BOOLEAN /\ done' \in BOOLEAN
  BY <1>2, Zenon DEF TxEdge
<1>4. ShiftedDown(txShift) \in LinkBytes /\ txShift[0] \in {0, 1}
  BY <1>0, <1>1, ShiftIsByte
<1>5. txShift' \in {txShift, txdata, ShiftedDown(txShift)}
  BY Zenon DEF TxEdge
<1>6. txo' \in {0, 1, txo, txShift[0]}
  BY Zenon DEF TxEdge
<1>7. txBit' \in {0, txBit, DataBits + 1} \/ (txBit < DataBits /\ txBit' = txBit + 1)
  BY Zenon DEF TxEdge
<1>8. txCount' \in {0, txCount} \/ (txCount # txClks - 1 /\ txCount' = txCount + 1)
  BY Zenon DEF TxEdge
<1>9. txCount' \in 0..(txClks' - 1)
  BY <1>0, <1>1, <1>8
<1>10. txBit' \in 0..(DataBits + 1)
  BY <1>0, <1>1, <1>7
<1> QED BY <1>0, <1>3, <1>4, <1>5, <1>6, <1>9, <1>10

\* Zeros is a byte.
LEMMA ZerosIsByte == Zeros \in LinkBytes
BY DEF Zeros, LinkBytes

\* The receiver, state by state.
RxIdle ==
    /\ rxState = "IDLE"
    /\ IF rxSync = 0 THEN rxCount' = 0 /\ rxState' = "START"
       ELSE UNCHANGED <<rxCount, rxState>>
    /\ rxValid' = FALSE /\ UNCHANGED <<rxBit, rxShift, received>>
RxStart ==
    /\ rxState = "START"
    /\ IF rxCount = Middle
       THEN /\ rxCount' = 0
            /\ IF rxSync = 0 THEN rxBit' = 0 /\ rxState' = "DATA"
               ELSE rxState' = "IDLE" /\ UNCHANGED rxBit
       ELSE rxCount' = rxCount + 1 /\ UNCHANGED <<rxBit, rxState>>
    /\ rxValid' = FALSE /\ UNCHANGED <<rxShift, received>>
RxData ==
    /\ rxState = "DATA"
    /\ IF rxCount = RxClks - 1
       THEN /\ rxCount' = 0 /\ rxShift' = [rxShift EXCEPT ![rxBit] = rxSync]
            /\ IF rxBit = DataBits - 1
               THEN rxState' = "STOP" /\ UNCHANGED rxBit
               ELSE rxBit' = rxBit + 1 /\ UNCHANGED rxState
       ELSE rxCount' = rxCount + 1 /\ UNCHANGED <<rxShift, rxBit, rxState>>
    /\ rxValid' = FALSE /\ UNCHANGED received
RxStop ==
    /\ rxState = "STOP"
    /\ IF rxCount = RxClks - 1
       THEN /\ rxCount' = 0 /\ rxState' = "IDLE" /\ rxShift' = Zeros
            /\ rxValid' = (rxSync = 1)
            /\ received' = IF rxSync = 1 THEN rxShift ELSE received
       ELSE /\ rxCount' = rxCount + 1 /\ rxValid' = FALSE
            /\ UNCHANGED <<rxState, rxShift, received>>
    /\ UNCHANGED rxBit

\* RxEdge is one of these, by the state of the receiver.
LEMMA RxByState ==
    ASSUME RxEdge
    PROVE  rxMeta' = txo /\ rxSync' = rxMeta /\ (RxIdle \/ RxStart \/ RxData \/ RxStop)
BY DEF RxEdge, RxIdle, RxStart, RxData, RxStop

\* The receiver keeps its types: it never shifts a bit in past the end of a byte.
LEMMA RxTypes ==
    ASSUME LinkTypeOK, RxEdge
    PROVE  /\ rxMeta' \in {0, 1} /\ rxSync' \in {0, 1}
           /\ rxState' \in {"IDLE", "START", "DATA", "STOP"}
           /\ rxCount' \in 0..(RxClks - 1) /\ rxBit' \in 0..(DataBits - 1)
           /\ rxState' = "START" => rxCount' <= Middle
           /\ rxShift' \in LinkBytes /\ received' \in LinkBytes /\ rxValid' \in BOOLEAN
<1>1. /\ rxMeta \in {0, 1} /\ rxSync \in {0, 1} /\ txo \in {0, 1} /\ txClks \in TxRates
      /\ rxState \in {"IDLE", "START", "DATA", "STOP"}
      /\ rxCount \in 0..(RxClks - 1) /\ rxBit \in 0..(DataBits - 1)
      /\ rxState = "START" => rxCount <= Middle
      /\ rxShift \in LinkBytes /\ received \in LinkBytes
  BY DEF LinkTypeOK
<1>2. /\ RxClks \in Nat /\ RxClks >= 4 /\ DataBits \in Nat \ {0} /\ Middle \in Nat
      /\ Middle < RxClks - 1
  BY <1>1, TheRates
<1>3. rxMeta' \in {0, 1} /\ rxSync' \in {0, 1}
  BY <1>1, RxByState
<1>4. CASE RxIdle
  <2>1. /\ rxValid' = FALSE /\ rxShift' = rxShift /\ received' = received /\ rxBit' = rxBit
        /\ (rxCount' = 0 /\ rxState' = "START") \/ (rxCount' = rxCount /\ rxState' = "IDLE")
    BY <1>4, Zenon DEF RxIdle
  <2>2. rxCount' \in 0..(RxClks - 1) /\ rxBit' \in 0..(DataBits - 1)
    BY <1>1, <1>2, <2>1
  <2>3. rxState' \in {"IDLE", "START"} /\ (rxState' = "START" => rxCount' <= Middle)
    BY <1>2, <2>1
  <2>4. rxShift' \in LinkBytes /\ received' \in LinkBytes
    BY <1>1, <2>1
  <2>5. rxValid' \in BOOLEAN
    BY <2>1
  <2> QED BY <1>3, <2>2, <2>3, <2>4, <2>5
<1>5. CASE RxStart
  <2>1. rxValid' = FALSE /\ rxShift' = rxShift /\ received' = received
    BY <1>5 DEF RxStart
  <2>2. /\ rxState' \in {"IDLE", "START", "DATA", "STOP"}
        /\ rxState' = "START" => rxCount' = rxCount + 1 /\ rxCount # Middle
    BY <1>1, <1>5 DEF RxStart
  <2>3. rxCount' \in 0..(RxClks - 1) /\ rxBit' \in 0..(DataBits - 1)
    BY <1>1, <1>2, <1>5 DEF RxStart
  <2>4. rxState' = "START" => rxCount' <= Middle
    BY <1>1, <1>2, <1>5, <2>2 DEF RxStart
  <2> QED BY <1>1, <1>3, <2>1, <2>2, <2>3, <2>4
<1>6. CASE RxData
  <2>1. [rxShift EXCEPT ![rxBit] = rxSync] \in LinkBytes
    BY <1>1 DEF LinkBytes
  <2>2. received' \in LinkBytes /\ rxShift' \in LinkBytes
    BY <1>1, <1>6, <2>1 DEF RxData
  <2>2a. rxValid' \in BOOLEAN
    BY <1>6 DEF RxData
  <2>3. rxState' \in {"DATA", "STOP"}
    BY <1>6 DEF RxData
  <2>4. /\ rxCount' = 0 \/ (rxCount # RxClks - 1 /\ rxCount' = rxCount + 1)
        /\ rxBit' = rxBit \/ (rxBit # DataBits - 1 /\ rxBit' = rxBit + 1)
    BY <1>6, Zenon DEF RxData
  <2>5. rxCount' \in 0..(RxClks - 1) /\ rxBit' \in 0..(DataBits - 1)
    BY <1>1, <1>2, <2>4
  <2> QED BY <1>3, <2>2, <2>2a, <2>3, <2>5
<1>7. CASE RxStop
  <2>1. rxShift' \in LinkBytes /\ received' \in LinkBytes
    BY <1>1, <1>7, ZerosIsByte DEF RxStop
  <2>2. rxValid' \in BOOLEAN
    BY <1>7 DEF RxStop
  <2>3. rxState' \in {"IDLE", "STOP"}
    BY <1>7 DEF RxStop
  <2>4. rxCount' \in 0..(RxClks - 1) /\ rxBit' \in 0..(DataBits - 1)
    BY <1>1, <1>2, <1>7 DEF RxStop
  <2> QED BY <1>3, <2>1, <2>2, <2>3, <2>4
<1> QED BY <1>4, <1>5, <1>6, <1>7, RxByState

\* Both programs, and the registers they use, keep their types.
LEMMA ProgramTypes ==
    ASSUME LinkTypeOK, Writer, Reader
    PROVE  /\ writer' \in {"poll", "data", "start"} /\ reader' \in {"poll", "clear", "data"}
           /\ txdata' \in LinkBytes /\ transmit' \in BOOLEAN /\ sent' \in Seq(LinkBytes)
           /\ rxdata' \in LinkBytes /\ rxdone' \in BOOLEAN /\ got' \in Seq(LinkBytes)
           /\ pause' \in 0..MaxPause
<1>0. /\ writer \in {"poll", "data", "start"} /\ txdata \in LinkBytes
      /\ sent \in Seq(LinkBytes) /\ got \in Seq(LinkBytes) /\ pause \in 0..MaxPause
      /\ reader \in {"poll", "clear", "data"} /\ rxdata \in LinkBytes
  BY DEF LinkTypeOK
<1>1. /\ writer' \in {"poll", "data", "start"} /\ txdata' \in LinkBytes
      /\ sent' \in Seq(LinkBytes)
  BY <1>0 DEF Writer, WriterIdles, WriterPolls, WriterLoads, WriterStarts
<1>1a. transmit' \in BOOLEAN
  BY DEF Writer, WriterIdles, WriterPolls, WriterLoads, WriterStarts
<1>2. MaxPause \in Nat
  BY LinkAssumption
<1>3. reader' \in {"poll", "clear", "data"}
  BY <1>0, Zenon DEF Reader, ReaderIdles, ReaderPolls, ReaderClears, ReaderTakes
<1>3b. pause' = 0 \/ (pause < MaxPause /\ pause' = pause + 1)
  BY Zenon DEF Reader, ReaderIdles, ReaderPolls, ReaderClears, ReaderTakes
<1>3c. pause' \in 0..MaxPause
  BY <1>0, <1>2, <1>3b
<1>3d. got' = got \/ got' = Append(got, rxdata)
  BY Zenon DEF Reader, ReaderIdles, ReaderPolls, ReaderClears, ReaderTakes
<1>3a. got' \in Seq(LinkBytes)
  BY <1>0, <1>3d
<1>4. \A cleared \in BOOLEAN : RxRegisters(cleared) => rxdata' \in LinkBytes /\ rxdone' \in BOOLEAN
  BY DEF LinkTypeOK, RxRegisters
<1>5. rxdata' \in LinkBytes /\ rxdone' \in BOOLEAN
  BY <1>4 DEF Reader, ReaderIdles, ReaderPolls, ReaderClears, ReaderTakes
<1> QED BY <1>1, <1>1a, <1>3, <1>3a, <1>3c, <1>5

\* A clock edge keeps the types.
LEMMA TypesKept ==
    ASSUME LinkTypeOK, LinkNext
    PROVE  LinkTypeOK'
<1>1. TxEdge /\ RxEdge /\ Writer /\ Reader /\ txClks' = txClks
  BY DEF LinkNext
<1>2. txClks' \in TxRates
  BY <1>1 DEF LinkTypeOK
<1>3. Middle' = Middle
  BY DEF Middle, Half
<1> QED BY <1>1, <1>2, <1>3, TxTypes, RxTypes, ProgramTypes DEF LinkTypeOK

-----------------------------------------------------------------------------
(* The sender.                                                             *)

\* What an edge does to uart_tx.
TxRests == /\ ~busy /\ ~transmit
           /\ UNCHANGED <<txShift, txo, busy, done, txCount, txBit>>
TxBegins == /\ ~busy /\ transmit
            /\ txShift' = txdata /\ txo' = 0 /\ busy' = TRUE /\ done' = FALSE
            /\ txCount' = 0 /\ txBit' = 0
SameBit == /\ busy /\ txCount # txClks - 1
           /\ txCount' = txCount + 1 /\ UNCHANGED <<txShift, txo, busy, done, txBit>>
NextData == /\ busy /\ txCount = txClks - 1 /\ txCount' = 0 /\ txBit < DataBits
            /\ txo' = txShift[0] /\ txShift' = ShiftedDown(txShift) /\ txBit' = txBit + 1
            /\ UNCHANGED <<busy, done>>
NextStop == /\ busy /\ txCount = txClks - 1 /\ txCount' = 0 /\ txBit = DataBits
            /\ txo' = 1 /\ txBit' = DataBits + 1 /\ UNCHANGED <<txShift, busy, done>>
TxEnds == /\ busy /\ txCount = txClks - 1 /\ txCount' = 0 /\ txBit = DataBits + 1
          /\ busy' = FALSE /\ done' = TRUE /\ UNCHANGED <<txShift, txo, txBit>>

\* TxEdge is one of these.
LEMMA TxByCase ==
    ASSUME TxEdge
    PROVE  TxRests \/ TxBegins \/ SameBit \/ NextData \/ NextStop \/ TxEnds
BY Zenon DEF TxEdge, TxRests, TxBegins, SameBit, NextData, NextStop, TxEnds

\* The clock of a frame, as the sender counts it.
LEMMA ClockOfTx ==
    ASSUME LinkTypeOK, txClks' = txClks
    PROVE  /\ Elapsed \in Nat /\ Elapsed < FrameEnd /\ FrameEnd' = FrameEnd
           /\ SameBit \/ NextData \/ NextStop => Elapsed' = Elapsed + 1 /\ Elapsed + 1 < FrameEnd
           /\ TxEnds => Elapsed = FrameEnd - 1
           /\ TxBegins => Elapsed' = 0
           /\ Elapsed >= (DataBits + 1) * txClks =>
                txBit = DataBits + 1 /\ Elapsed = (DataBits + 1) * txClks + txCount
           /\ txBit = DataBits + 1 => Elapsed = (DataBits + 1) * txClks + txCount
<1> DEFINE T == txClks
<1>1. /\ T \in Nat /\ T >= 4 /\ DataBits \in Nat \ {0} /\ txBit \in 0..(DataBits + 1)
      /\ txCount \in 0..(T - 1) /\ txBit \in Nat /\ DataBits + 1 \in Nat
      /\ FrameEnd = (DataBits + 1) * T + T /\ (DataBits + 1) * T \in Nat
  <2>1. txClks \in TxRates /\ txBit \in 0..(DataBits + 1) /\ txCount \in 0..(T - 1)
    BY DEF LinkTypeOK
  <2>2. DataBits \in Nat \ {0}
    BY <2>1, TheRates
  <2> QED BY <2>1, <2>2, TheRates
<1>2. txBit * T \in Nat /\ (txBit + 1) * T = txBit * T + T /\ 0 * T = 0
  BY <1>1, Products
<1>3. txBit * T <= (DataBits + 1) * T
  BY <1>1, Products
<1>4. Elapsed = txBit * T + txCount
  BY DEF Elapsed
<1>5. Elapsed \in Nat /\ Elapsed < FrameEnd
  BY <1>1, <1>2, <1>3, <1>4
<1>6. FrameEnd' = FrameEnd
  BY DEF FrameEnd
<1>7. Elapsed' = txBit' * T + txCount'
  BY DEF Elapsed
<1>8. ASSUME SameBit PROVE Elapsed' = Elapsed + 1 /\ Elapsed + 1 < FrameEnd
  <2>1. txBit' = txBit /\ txCount' = txCount + 1 /\ txCount + 1 < T
    BY <1>1, <1>8 DEF SameBit
  <2>2. Elapsed' = txBit * T + txCount + 1
    BY <1>1, <1>2, <1>7, <2>1
  <2> QED BY <1>1, <1>2, <1>3, <1>4, <2>1, <2>2
<1>9. ASSUME NextData \/ NextStop PROVE Elapsed' = Elapsed + 1 /\ Elapsed + 1 < FrameEnd
  <2>1. txBit' = txBit + 1 /\ txCount' = 0 /\ txCount = T - 1 /\ txBit + 1 <= DataBits + 1
    BY <1>1, <1>9 DEF NextData, NextStop
  <2>2. Elapsed' = (txBit + 1) * T + 0
    BY <1>7, <2>1
  <2>3. (txBit + 1) * T <= (DataBits + 1) * T
    BY <1>1, <2>1, Products
  <2> QED BY <1>1, <1>2, <1>4, <2>1, <2>2, <2>3
<1>10. ASSUME TxEnds PROVE Elapsed = FrameEnd - 1
  <2>1. txBit = DataBits + 1 /\ txCount = T - 1
    BY <1>10 DEF TxEnds
  <2>2. Elapsed = (DataBits + 1) * T + (T - 1)
    BY <1>4, <2>1
  <2> QED BY <1>1, <2>2
<1>11. TxBegins => Elapsed' = 0
  <2> SUFFICES ASSUME TxBegins PROVE Elapsed' = 0
    OBVIOUS
  <2>1. txBit' = 0 /\ txCount' = 0
    BY DEF TxBegins
  <2> QED BY <1>2, <1>7, <2>1
<1>12. txBit = DataBits + 1 => Elapsed = (DataBits + 1) * txClks + txCount
  BY <1>4
<1>13. Elapsed >= (DataBits + 1) * T => txBit = DataBits + 1
  <2> SUFFICES ASSUME txBit # DataBits + 1 PROVE Elapsed < (DataBits + 1) * T
    BY <1>1, <1>2, <1>4, <1>5
  <2>1. txBit + 1 \in Nat /\ txBit + 1 <= DataBits + 1
    BY <1>1
  <2>2. (txBit + 1) * T <= (DataBits + 1) * T
    BY <1>1, <2>1, Products
  <2> QED BY <1>1, <1>2, <1>4, <2>2
<1> HIDE DEF T
<1>14. Elapsed >= (DataBits + 1) * txClks =>
                txBit = DataBits + 1 /\ Elapsed = (DataBits + 1) * txClks + txCount
  BY <1>12, <1>13 DEF T
<1> QED BY <1>5, <1>6, <1>8, <1>9, <1>10, <1>11, <1>12, <1>14

\* What the program does to uart_tx: it starts a byte, or goes a step on the way.
WriterGoesOn ==
    /\ transmit' = FALSE /\ sent' = sent
    /\ \/ writer' = writer
       \/ writer = "poll" /\ writer' = "data" /\ done /\ ~transmit
       \/ writer = "data" /\ writer' = "start"

\* Writer is one of these.
LEMMA WriterByCase ==
    ASSUME LinkTypeOK, Writer
    PROVE  WriterStarts \/ WriterGoesOn
<1>1. CASE WriterIdles
  BY <1>1 DEF WriterIdles, WriterGoesOn
<1>2. CASE WriterPolls
  BY <1>2 DEF WriterPolls, WriterGoesOn, TxDone
<1>3. CASE WriterLoads
  BY <1>3 DEF WriterLoads, WriterGoesOn
<1> QED BY <1>1, <1>2, <1>3 DEF Writer

\* The levels of a frame.
LEMMA Levels ==
    ASSUME NEW byte, DataBits \in Nat \ {0}
    PROVE  /\ Level(byte, 0) = 0 /\ Level(byte, -1) = 1 /\ Level(byte, DataBits + 1) = 1
           /\ \A k \in 1..DataBits : Level(byte, k) = byte[k - 1]
BY DEF Level

\* A clock edge keeps what holds of the sender and the line: no start is ignored, because
\* the program polls TXDONE, which a start that is still to be taken holds down.
LEMMA SendingKept ==
    ASSUME LinkTypeOK, Sending, TxEdge, Writer, rxMeta' = txo, rxSync' = rxMeta, txClks' = txClks
    PROVE  Sending'
<1>1. /\ txClks \in Nat /\ txClks >= 4 /\ DataBits \in Nat \ {0} /\ txBit \in 0..(DataBits + 1)
      /\ txCount \in 0..(txClks - 1) /\ txShift \in LinkBytes /\ sent \in Seq(LinkBytes)
      /\ txdata \in LinkBytes
  <2>1. /\ txClks \in TxRates /\ txBit \in 0..(DataBits + 1) /\ txCount \in 0..(txClks - 1)
        /\ txShift \in LinkBytes /\ sent \in Seq(LinkBytes) /\ txdata \in LinkBytes
    BY DEF LinkTypeOK
  <2> QED BY <2>1, TheRates
<1>2. /\ done = ~busy /\ (writer # "poll" => ~busy /\ ~transmit)
      /\ transmit => ~busy /\ sent # <<>> /\ txdata = Current
      /\ ~busy => txo = 1 /\ rxMeta = 1 /\ rxSync = 1
  BY DEF Sending
<1>3. WriterStarts \/ WriterGoesOn
  BY WriterByCase
<1>4. WriterStarts => TxRests
  BY <1>2, TxByCase DEF WriterStarts, TxBegins, SameBit, NextData, NextStop, TxEnds
<1>5. /\ WriterStarts => transmit' /\ writer' = "poll"
      /\ WriterGoesOn => ~transmit' /\ sent' = sent
  BY <1>2 DEF WriterStarts, WriterGoesOn
<1>6. done' = ~busy'
  <2>1. TxRests \/ SameBit \/ NextData \/ NextStop => done' = done /\ busy' = busy
    BY DEF TxRests, SameBit, NextData, NextStop
  <2>2. TxBegins => busy' = TRUE /\ done' = FALSE
    BY DEF TxBegins
  <2>3. TxEnds => busy' = FALSE /\ done' = TRUE
    BY DEF TxEnds
  <2>4. CASE TxBegins
    BY <2>2, <2>4, Zenon
  <2>5. CASE TxEnds
    BY <2>3, <2>5, Zenon
  <2>6. CASE TxRests \/ SameBit \/ NextData \/ NextStop
    <3>1. done' = done /\ busy' = busy /\ busy \in BOOLEAN /\ done = ~busy
      BY <1>2, <2>1, <2>6 DEF LinkTypeOK
    <3>2. (~busy') = ~busy
      BY <3>1
    <3> QED BY <3>1, <3>2
  <2> QED BY <2>4, <2>5, <2>6, TxByCase, Zenon
<1>7. writer' # "poll" => ~busy' /\ ~transmit'
  <2> SUFFICES ASSUME writer' # "poll" PROVE ~busy' /\ ~transmit'
    OBVIOUS
  <2>1. WriterGoesOn
    BY <1>3, <1>5
  <2>2. ~busy /\ ~transmit
    BY <1>2, <2>1 DEF WriterGoesOn
  <2>3. TxRests
    BY <2>2, TxByCase DEF TxBegins, SameBit, NextData, NextStop, TxEnds
  <2> QED BY <1>5, <2>1, <2>2, <2>3 DEF TxRests
<1>8. transmit' => ~busy' /\ sent' # <<>> /\ txdata' = Current'
  <2> SUFFICES ASSUME transmit' PROVE ~busy' /\ sent' # <<>> /\ txdata' = Current'
    OBVIOUS
  <2>1. WriterStarts /\ TxRests
    BY <1>3, <1>4, <1>5
  <2>2. sent' = Append(sent, txdata) /\ txdata' = txdata /\ ~busy'
    BY <2>1 DEF WriterStarts, TxRests
  <2>3. sent' # <<>> /\ sent'[Len(sent')] = txdata
    BY <1>1, <2>2
  <2> QED BY <2>2, <2>3 DEF Current
<1>9. ~busy' => txo' = 1 /\ rxMeta' = 1 /\ rxSync' = 1
  <2>1. CASE TxRests
    BY <1>2, <2>1 DEF TxRests
  <2>2. CASE TxEnds
    <3>1. /\ txo = Level(Current, txBit)
          /\ rxMeta = Level(Current, IF txCount >= 1 THEN txBit ELSE txBit - 1)
      BY <2>2 DEF Sending, TxEnds
    <3>2. txBit = DataBits + 1 /\ txCount >= 1 /\ txo' = txo
      BY <1>1, <2>2 DEF TxEnds
    <3> QED BY <1>1, <3>1, <3>2, Levels
  <2>3. TxBegins \/ SameBit \/ NextData \/ NextStop => busy'
    <3>1. TxBegins => busy'
      BY DEF TxBegins
    <3>2. SameBit \/ NextData \/ NextStop => busy /\ busy' = busy
      BY DEF SameBit, NextData, NextStop
    <3> QED BY <3>1, <3>2
  <2> QED BY <2>1, <2>2, <2>3, TxByCase, Zenon
<1>10. ASSUME busy'
       PROVE  /\ sent' # <<>> /\ txo' = Level(Current', txBit')
              /\ rxMeta' = Level(Current', IF txCount' >= 1 THEN txBit' ELSE txBit' - 1)
              /\ rxSync' = Level(Current', IF txCount' >= 2 THEN txBit' ELSE txBit' - 1)
              /\ \A k \in 0..(DataBits - 1) :
                   k + txBit' < DataBits => txShift'[k] = Current'[k + txBit']
  <2>1. WriterGoesOn /\ sent' = sent /\ Current' = Current
    <3>1. ~TxRests
      BY <1>10 DEF TxRests
    <3>2. WriterGoesOn /\ sent' = sent
      BY <1>3, <1>4, <1>5, <3>1
    <3> QED BY <3>2 DEF Current
  <2>2. CASE TxBegins
    <3>1. /\ txShift' = txdata /\ txo' = 0 /\ txCount' = 0 /\ txBit' = 0 /\ transmit /\ ~busy
      BY <2>2 DEF TxBegins
    <3>2. 0 - 1 = -1
      OBVIOUS
    <3>3. /\ sent # <<>> /\ txdata = Current /\ txo = 1 /\ rxMeta = 1
      BY <1>2, <3>1
    <3> QED BY <1>1, <2>1, <3>1, <3>2, <3>3, Levels
  <2>3. ASSUME busy
        PROVE  /\ sent # <<>> /\ txo = Level(Current, txBit)
               /\ rxMeta = Level(Current, IF txCount >= 1 THEN txBit ELSE txBit - 1)
               /\ \A k \in 0..(DataBits - 1) :
                    k + txBit < DataBits => txShift[k] = Current[k + txBit]
    BY <2>3 DEF Sending
  <2>4. CASE SameBit
    <3>1. busy /\ txCount' = txCount + 1 /\ txBit' = txBit /\ txo' = txo /\ txShift' = txShift
      BY <2>4 DEF SameBit
    <3>2. txCount' >= 1 /\ (txCount' >= 2 <=> txCount >= 1)
      BY <1>1, <3>1
    <3> QED BY <2>1, <2>3, <3>1, <3>2
  <2>5. ASSUME NextData \/ NextStop
        PROVE  /\ txo' = Level(Current, txBit') /\ sent' # <<>>
               /\ rxMeta' = Level(Current, txBit' - 1) /\ rxSync' = Level(Current, txBit' - 1)
               /\ txCount' = 0
               /\ \A k \in 0..(DataBits - 1) :
                    k + txBit' < DataBits => txShift'[k] = Current[k + txBit']
    <3>1. /\ busy /\ txCount' = 0 /\ txBit' = txBit + 1 /\ txBit' - 1 = txBit /\ txCount >= 1
          /\ (txCount >= 1 <=> TRUE) /\ txBit \in Nat
      BY <1>1, <2>5 DEF NextData, NextStop
    <3>2. rxMeta' = Level(Current, txBit' - 1) /\ rxSync' = Level(Current, txBit' - 1)
      BY <2>3, <3>1
    <3>3. CASE NextData
      <4>1. /\ txBit < DataBits /\ txo' = txShift[0] /\ txShift' = ShiftedDown(txShift)
            /\ 0 \in 0..(DataBits - 1) /\ 0 + txBit = txBit /\ txBit' \in 1..DataBits
        BY <1>1, <3>1, <3>3 DEF NextData
      <4>2. txo' = Current[txBit]
        BY <2>3, <3>1, <4>1
      <4>3. txo' = Level(Current, txBit')
        BY <1>1, <3>1, <4>1, <4>2, Levels
      <4>4. ASSUME NEW k \in 0..(DataBits - 1), k + txBit' < DataBits
            PROVE  txShift'[k] = Current[k + txBit']
        <5>1. /\ k + 1 \in 0..(DataBits - 1) /\ (k + 1) + txBit < DataBits
              /\ k + txBit' = (k + 1) + txBit /\ k + 1 < DataBits
          BY <1>1, <3>1, <4>4
        <5>2. txShift'[k] = txShift[k + 1]
          BY <1>1, <4>1, <5>1, ShiftIsByte
        <5> QED BY <2>3, <3>1, <5>1, <5>2
      <4> QED BY <2>1, <2>3, <3>1, <3>2, <4>3, <4>4
    <3>4. CASE NextStop
      <4>1. txo' = 1 /\ txBit' = DataBits + 1
        BY <3>4 DEF NextStop
      <4>2. txo' = Level(Current, txBit')
        BY <1>1, <4>1, Levels
      <4>3. \A k \in 0..(DataBits - 1) : ~(k + txBit' < DataBits)
        BY <1>1, <4>1
      <4> QED BY <2>1, <2>3, <3>1, <3>2, <4>2, <4>3
    <3> QED BY <2>5, <3>3, <3>4
  <2>6. CASE NextData \/ NextStop
    <3>1. ~(txCount' >= 1) /\ ~(txCount' >= 2)
      BY <2>5, <2>6
    <3> QED BY <2>1, <2>5, <2>6, <3>1
  <2> QED BY <1>10, <2>2, <2>4, <2>6, TxByCase DEF TxRests, TxEnds
<1> QED BY <1>6, <1>7, <1>8, <1>9, <1>10 DEF Sending

-----------------------------------------------------------------------------
(* The receiver.                                                           *)

\* The clock of a frame, as the receiver counts it.
LEMMA ClockOfRx ==
    ASSUME LinkTypeOK, rxState # "IDLE"
    PROVE  /\ RxElapsed \in Nat /\ 3 <= RxElapsed /\ RxElapsed <= HandOver - 1
           /\ rxState = "START" => RxElapsed = 3 + rxCount
           /\ rxState = "DATA" =>
                /\ RxElapsed = 3 + Half + rxBit * RxClks + rxCount
                /\ rxBit * RxClks \in Nat /\ (rxBit + 1) * RxClks = rxBit * RxClks + RxClks
           /\ rxState = "STOP" => RxElapsed = HandOver - RxClks + rxCount
           /\ rxState # "STOP" => RxElapsed < FrameEnd - 1
<1>1. /\ RxClks \in Nat /\ RxClks >= 4 /\ DataBits \in Nat \ {0}
      /\ Half \in Nat /\ Half >= 2 /\ Half < RxClks /\ Middle = Half - 1
      /\ FrameEnd \in Nat /\ HandOver \in Nat /\ DataBits * RxClks \in Nat
      /\ HandOver = Half + DataBits * RxClks + RxClks + 3 /\ HandOver <= FrameEnd + 3
  BY TheRates DEF LinkTypeOK
<1>2. /\ rxState \in {"START", "DATA", "STOP"} /\ rxCount \in 0..(RxClks - 1)
      /\ rxBit \in 0..(DataBits - 1) /\ (rxState = "START" => rxCount <= Middle)
  BY DEF LinkTypeOK
<1>3. CASE rxState = "START"
  <2>1. RxElapsed = 3 + rxCount
    BY <1>3 DEF RxElapsed
  <2> QED BY <1>1, <1>2, <1>3, <2>1
<1>4. CASE rxState = "DATA"
  <2>1. RxElapsed = 3 + Half + rxBit * RxClks + rxCount
    BY <1>4 DEF RxElapsed
  <2>2. /\ rxBit \in Nat /\ rxBit + 1 \in Nat /\ DataBits \in Nat /\ rxBit + 1 <= DataBits
    BY <1>1, <1>2
  <2>3. rxBit * RxClks \in Nat /\ (rxBit + 1) * RxClks = rxBit * RxClks + RxClks
    BY <1>1, <2>2, Products
  <2>4. (rxBit + 1) * RxClks <= DataBits * RxClks
    BY <1>1, <2>2, Products
  <2> QED BY <1>1, <1>2, <1>4, <2>1, <2>3, <2>4
<1>5. CASE rxState = "STOP"
  <2>1. RxElapsed = 3 + Half + DataBits * RxClks + rxCount
    BY <1>5 DEF RxElapsed
  <2> QED BY <1>1, <1>2, <1>5, <2>1
<1> QED BY <1>2, <1>3, <1>4, <1>5

\* The synchronizer shows the line as it was two clocks ago.
LEMMA Sampled ==
    ASSUME LinkTypeOK, Sending, busy, NEW j \in Nat,
           j * txClks + 2 <= Elapsed, Elapsed < (j + 1) * txClks + 2
    PROVE  rxSync = Level(Current, j)
<1>1. /\ txClks \in Nat /\ txClks >= 4 /\ DataBits \in Nat \ {0} /\ txBit \in 0..(DataBits + 1)
      /\ txCount \in 0..(txClks - 1)
  BY TheRates DEF LinkTypeOK
<1>2. txBit \in Nat
  BY <1>1
<1>3. (txBit = j /\ txCount >= 2) \/ (txBit = j + 1 /\ txCount < 2)
  BY <1>1, <1>2, BitOf DEF Elapsed
<1>4. rxSync = Level(Current, IF txCount >= 2 THEN txBit ELSE txBit - 1)
  BY DEF Sending
<1>5. (IF txCount >= 2 THEN txBit ELSE txBit - 1) = j
  BY <1>1, <1>2, <1>3
<1> QED BY <1>4, <1>5

\* What the receiver samples: the start bit, each data bit, and the stop bit.
LEMMA Samples ==
    ASSUME LinkTypeOK, Sending, InStep
    PROVE  /\ rxState = "START" /\ rxCount = Middle => rxSync = 0
           /\ rxState = "DATA" /\ rxCount = RxClks - 1 => rxSync = Current[rxBit]
           /\ rxState = "STOP" /\ rxCount = RxClks - 1 => rxSync = 1 /\ RxElapsed = HandOver - 1
<1>1. /\ txClks \in Nat /\ txClks >= 4 /\ RxClks \in Nat /\ RxClks >= 4 /\ DataBits \in Nat \ {0}
      /\ Half \in Nat /\ Half >= 2 /\ Half < RxClks /\ Middle = Half - 1
      /\ FrameEnd \in Nat /\ HandOver \in Nat
      /\ FrameEnd = (DataBits + 1) * txClks + txClks /\ (DataBits + 1) * txClks \in Nat
      /\ (DataBits + 1) * txClks + 3 <= HandOver /\ HandOver <= FrameEnd + 3
      /\ rxCount \in 0..(RxClks - 1) /\ rxBit \in 0..(DataBits - 1) /\ txClks \in TxRates
  <2>1. rxCount \in 0..(RxClks - 1) /\ rxBit \in 0..(DataBits - 1) /\ txClks \in TxRates
    BY DEF LinkTypeOK
  <2> QED BY <2>1, TheRates
<1>2. \A k \in 0..DataBits :
         k * txClks <= Half + k * RxClks /\ Half + k * RxClks < (k + 1) * txClks
  BY <1>1, LinkAssumption
<1>3. rxState # "IDLE" => Receiving \/ Trailing
  BY DEF InStep, Quiet, Unseen, Over
<1>4. Receiving => busy /\ Elapsed = RxElapsed
  BY DEF Receiving
<1>5. ASSUME rxState = "START", rxCount = Middle PROVE rxSync = 0
  <2>1. busy /\ Elapsed = RxElapsed
    BY <1>3, <1>4, <1>5 DEF Trailing
  <2>2. RxElapsed = 3 + rxCount
    BY <1>5, ClockOfRx
  <2>3. Half < 1 * txClks /\ 0 + 1 = 1 /\ 0 * txClks = 0 /\ 0 * RxClks = 0 /\ 0 \in 0..DataBits
    <3>1. 0 \in 0..DataBits /\ 0 + 1 = 1 /\ 0 * txClks = 0 /\ 0 * RxClks = 0
      BY <1>1
    <3>2. Half + 0 * RxClks < (0 + 1) * txClks
      BY <1>2, <3>1
    <3> QED BY <1>1, <3>1, <3>2
  <2>4. Elapsed = Half + 2
    BY <1>1, <1>5, <2>1, <2>2
  <2>5. 0 * txClks + 2 <= Elapsed /\ Elapsed < (0 + 1) * txClks + 2
    BY <1>1, <2>3, <2>4
  <2>6. rxSync = Level(Current, 0)
    BY <2>1, <2>5, Sampled
  <2> QED BY <1>1, <2>6, Levels
<1>6. ASSUME rxState = "DATA", rxCount = RxClks - 1 PROVE rxSync = Current[rxBit]
  <2>1. busy /\ Elapsed = RxElapsed
    BY <1>3, <1>4, <1>6 DEF Trailing
  <2>2. /\ RxElapsed = 3 + Half + rxBit * RxClks + rxCount
        /\ rxBit * RxClks \in Nat /\ (rxBit + 1) * RxClks = rxBit * RxClks + RxClks
    BY <1>6, ClockOfRx
  <2> DEFINE j == rxBit + 1
  <2>3. j \in Nat /\ j \in 0..DataBits /\ j \in 1..DataBits /\ j - 1 = rxBit
    BY <1>1
  <2>4. j * txClks \in Nat /\ (j + 1) * txClks \in Nat
    <3>1. j + 1 \in Nat
      BY <2>3
    <3> QED BY <1>1, <2>3, <3>1, Products
  <2>5. j * txClks <= Half + j * RxClks /\ Half + j * RxClks < (j + 1) * txClks
    BY <1>2, <2>3
  <2>6. Elapsed = Half + 2 + j * RxClks /\ j * RxClks \in Nat
    BY <1>1, <1>6, <2>1, <2>2
  <2> HIDE DEF j
  <2>7. j * txClks + 2 <= Elapsed /\ Elapsed < (j + 1) * txClks + 2
    BY <1>1, <2>4, <2>5, <2>6
  <2>8. rxSync = Level(Current, j)
    BY <2>1, <2>3, <2>7, Sampled
  <2>9. rxSync = Current[j - 1]
    BY <1>1, <2>3, <2>8, Levels
  <2> QED BY <2>3, <2>9
<1>7. ASSUME rxState = "STOP", rxCount = RxClks - 1 PROVE rxSync = 1 /\ RxElapsed = HandOver - 1
  <2>1. RxElapsed = HandOver - 1
    BY <1>1, <1>7, ClockOfRx
  <2>2. CASE Receiving
    <3>1. busy /\ Elapsed = HandOver - 1
      BY <1>4, <2>1, <2>2
    <3>2. Elapsed < FrameEnd
      <4>1. txBit \in 0..(DataBits + 1) /\ txCount \in 0..(txClks - 1) /\ txBit \in Nat
        BY <1>1 DEF LinkTypeOK
      <4>2. txBit * txClks <= (DataBits + 1) * txClks /\ txBit * txClks \in Nat
        <5>1. DataBits + 1 \in Nat /\ txBit <= DataBits + 1
          BY <1>1, <4>1
        <5> QED BY <1>1, <4>1, <5>1, Products
      <4> QED BY <1>1, <4>1, <4>2 DEF Elapsed
    <3>3. ((DataBits + 1) + 1) * txClks = FrameEnd /\ DataBits + 1 \in Nat
      BY <1>1, Products
    <3>4. /\ (DataBits + 1) * txClks + 2 <= Elapsed
          /\ Elapsed < ((DataBits + 1) + 1) * txClks + 2
      BY <1>1, <3>1, <3>2, <3>3
    <3>5. rxSync = Level(Current, DataBits + 1)
      BY <3>1, <3>3, <3>4, Sampled
    <3> QED BY <1>1, <2>1, <3>5, Levels
  <2>3. CASE Trailing
    BY <2>1, <2>3 DEF Trailing, Sending
  <2> QED BY <1>3, <1>7, <2>2, <2>3
<1> QED BY <1>5, <1>6, <1>7

\* What an edge does to uart_rx.
RxStays == /\ rxState # "IDLE" /\ rxState' # "IDLE" /\ RxElapsed' = RxElapsed + 1
           /\ RxElapsed < HandOver - 1 /\ (rxState = "STOP" => rxState' = "STOP")
           /\ rxValid' = FALSE /\ received' = received
RxHands == /\ rxState = "STOP" /\ RxElapsed = HandOver - 1 /\ rxState' = "IDLE"
           /\ rxValid' = TRUE /\ received' = rxShift
RxWakes == /\ rxState = "IDLE" /\ Unseen /\ Elapsed = 2
           /\ rxState' = "START" /\ RxElapsed' = 3
           /\ rxValid' = FALSE /\ received' = received
RxRests == /\ rxState = "IDLE" /\ (Unseen => Elapsed < 2) /\ rxState' = "IDLE"
           /\ rxValid' = FALSE /\ received' = received

\* While no frame is seen the line is high; the start bit is seen at once.
LEMMA IdleLine ==
    ASSUME LinkTypeOK, Sending, InStep, rxState = "IDLE"
    PROVE  IF Unseen /\ Elapsed = 2 THEN rxSync = 0 ELSE rxSync = 1
<1>1. /\ txClks \in Nat /\ txClks >= 4 /\ DataBits \in Nat \ {0} /\ txBit \in 0..(DataBits + 1)
      /\ txCount \in 0..(txClks - 1) /\ HandOver \in Nat
      /\ (DataBits + 1) * txClks \in Nat /\ (DataBits + 1) * txClks + 3 <= HandOver
  <2>1. txClks \in TxRates /\ txBit \in 0..(DataBits + 1) /\ txCount \in 0..(txClks - 1)
    BY DEF LinkTypeOK
  <2> QED BY <2>1, TheRates
<1>2. Quiet \/ Unseen \/ Over
  BY DEF InStep, Receiving, Trailing
<1>3. busy => rxSync = Level(Current, IF txCount >= 2 THEN txBit ELSE txBit - 1)
  BY DEF Sending
<1>4. CASE Quiet
  BY <1>4 DEF Quiet, Sending, Unseen
<1>5. CASE Unseen
  <2>1. busy /\ Elapsed <= 2
    BY <1>5 DEF Unseen
  <2>2. txBit = 0
    <3> SUFFICES ASSUME txBit # 0 PROVE FALSE
      OBVIOUS
    <3>1. 1 \in Nat /\ txBit \in Nat /\ 1 <= txBit
      BY <1>1
    <3>2. 1 * txClks <= txBit * txClks /\ txBit * txClks \in Nat
      BY <1>1, <3>1, Products
    <3> QED BY <1>1, <2>1, <3>2 DEF Elapsed
  <2>3. Elapsed = txCount
    BY <1>1, <2>2 DEF Elapsed
  <2>4. 0 - 1 = -1
    OBVIOUS
  <2>5. CASE Elapsed = 2
    BY <1>1, <1>3, <1>5, <2>1, <2>2, <2>3, <2>5, Levels
  <2>6. CASE Elapsed # 2
    <3>1. ~(txCount >= 2)
      BY <1>1, <2>1, <2>3, <2>6
    <3>2. rxSync = Level(Current, -1)
      BY <1>3, <2>1, <2>2, <2>4, <3>1
    <3> QED BY <1>1, <2>6, <3>2, Levels
  <2> QED BY <2>5, <2>6
<1>6. CASE Over
  <2>1. busy /\ txBit = DataBits + 1 /\ Elapsed >= HandOver
    BY <1>6 DEF Over
  <2>2. Elapsed = (DataBits + 1) * txClks + txCount
    BY <2>1 DEF Elapsed
  <2>3. txCount >= 2
    BY <1>1, <2>1, <2>2
  <2>4. rxSync = Level(Current, DataBits + 1)
    BY <1>3, <2>1, <2>3
  <2>5. ~(Elapsed = 2)
    BY <1>1, <2>1
  <2> QED BY <1>1, <2>4, <2>5, Levels
<1> QED BY <1>2, <1>4, <1>5, <1>6

\* Every edge of the receiver is one of these, and what it has shifted in is right.
LEMMA ReceiverByCase ==
    ASSUME LinkTypeOK, Sending, InStep, RxEdge
    PROVE  /\ RxStays \/ RxHands \/ RxWakes \/ RxRests
           /\ rxState' = "DATA" => \A k \in 0..(rxBit' - 1) : rxShift'[k] = Current[k]
           /\ rxState' = "STOP" => rxShift' = Current
<1>1. /\ RxClks \in Nat /\ RxClks >= 4 /\ DataBits \in Nat \ {0}
      /\ Half \in Nat /\ Half >= 2 /\ Half < RxClks /\ Middle = Half - 1
      /\ HandOver \in Nat /\ HandOver = Half + DataBits * RxClks + RxClks + 3
      /\ DataBits * RxClks \in Nat
      /\ rxCount \in 0..(RxClks - 1) /\ rxBit \in 0..(DataBits - 1) /\ rxShift \in LinkBytes
      /\ rxSync \in {0, 1} /\ Half' = Half /\ sent \in Seq(LinkBytes)
      /\ (rxState = "START" => rxCount <= Middle)
  <2>1. /\ rxCount \in 0..(RxClks - 1) /\ rxBit \in 0..(DataBits - 1) /\ txClks \in TxRates
        /\ rxShift \in LinkBytes /\ rxSync \in {0, 1} /\ sent \in Seq(LinkBytes)
        /\ (rxState = "START" => rxCount <= Middle)
    BY DEF LinkTypeOK
  <2>2. Half' = Half
    BY DEF Half
  <2> QED BY <2>1, <2>2, TheRates
<1>2. CASE RxIdle
  <2>1. /\ rxState = "IDLE" /\ rxValid' = FALSE /\ received' = received
        /\ IF rxSync = 0 THEN rxCount' = 0 /\ rxState' = "START" ELSE rxState' = "IDLE"
    BY <1>2, Zenon DEF RxIdle
  <2>2. CASE rxSync = 0
    <3>1. Unseen /\ Elapsed = 2
      BY <2>1, <2>2, IdleLine
    <3>2. rxState' = "START" /\ rxCount' = 0
      BY <2>1, <2>2
    <3>3. RxElapsed' = 3 + 0
      BY <3>2 DEF RxElapsed
    <3> QED BY <2>1, <3>1, <3>2, <3>3 DEF RxWakes
  <2>3. CASE rxSync # 0
    <3>1. Unseen => Elapsed < 2
      <4>1. ~(Unseen /\ Elapsed = 2)
        BY <2>1, <2>3, IdleLine
      <4>2. Elapsed \in Nat
        <5>1. txBit \in Nat /\ txCount \in Nat /\ txClks \in Nat
          <6>1. txClks \in TxRates /\ txBit \in 0..(DataBits + 1) /\ txCount \in 0..(txClks - 1)
            BY DEF LinkTypeOK
          <6> QED BY <6>1, TheRates
        <5>2. txBit * txClks \in Nat
          BY <5>1, Products
        <5> QED BY <5>1, <5>2 DEF Elapsed
      <4> QED BY <4>1, <4>2 DEF Unseen
    <3>2. rxState' = "IDLE"
      BY <2>1, <2>3
    <3> QED BY <2>1, <3>1, <3>2 DEF RxRests
  <2> QED BY <2>2, <2>3
<1>3. CASE RxStart
  <2>1. rxState = "START" /\ rxValid' = FALSE /\ received' = received
    BY <1>3 DEF RxStart
  <2>2. RxElapsed = 3 + rxCount
    BY <2>1, ClockOfRx
  <2>3. CASE rxCount = Middle
    <3>1. rxSync = 0
      BY <2>1, <2>3, Samples
    <3>2. rxCount' = 0 /\ rxBit' = 0 /\ rxState' = "DATA"
      BY <1>3, <2>3, <3>1 DEF RxStart
    <3>3. RxElapsed' = 3 + Half + 0 * RxClks + 0
      BY <1>1, <3>2 DEF RxElapsed
    <3>4. RxElapsed' = RxElapsed + 1 /\ RxElapsed < HandOver - 1
      BY <1>1, <2>2, <2>3, <3>3
    <3> QED BY <2>1, <3>2, <3>4 DEF RxStays
  <2>4. CASE rxCount # Middle
    <3>1. rxCount' = rxCount + 1 /\ rxState' = "START"
      BY <1>3, <2>1, <2>4 DEF RxStart
    <3>2. RxElapsed' = 3 + rxCount + 1
      BY <1>1, <3>1 DEF RxElapsed
    <3>3. RxElapsed' = RxElapsed + 1 /\ RxElapsed < HandOver - 1
      BY <1>1, <2>1, <2>2, <2>4, <3>2
    <3> QED BY <2>1, <3>1, <3>3 DEF RxStays
  <2> QED BY <2>3, <2>4
<1>4. CASE RxData
  <2>1. rxState = "DATA" /\ rxValid' = FALSE /\ received' = received
    BY <1>4 DEF RxData
  <2>2. /\ RxElapsed = 3 + Half + rxBit * RxClks + rxCount
        /\ rxBit * RxClks \in Nat /\ (rxBit + 1) * RxClks = rxBit * RxClks + RxClks
    BY <2>1, ClockOfRx
  <2>3. \A k \in 0..(rxBit - 1) : rxShift[k] = Current[k]
    BY <2>1 DEF InStep
  <2>4. RxElapsed < HandOver - 1
    <3>1. rxBit + 1 \in Nat /\ rxBit + 1 <= DataBits /\ DataBits \in Nat
      BY <1>1
    <3>2. (rxBit + 1) * RxClks <= DataBits * RxClks
      BY <1>1, <3>1, Products
    <3> QED BY <1>1, <2>2, <3>2
  <2>5. CASE rxCount = RxClks - 1
    <3>1. rxSync = Current[rxBit]
      BY <2>1, <2>5, Samples
    <3>2. rxCount' = 0 /\ rxShift' = [rxShift EXCEPT ![rxBit] = rxSync]
      BY <1>4, <2>5 DEF RxData
    <3>3. \A k \in 0..rxBit : rxShift'[k] = Current[k]
      BY <1>1, <2>3, <3>1, <3>2 DEF LinkBytes
    <3>4. CASE rxBit = DataBits - 1
      <4>1. rxState' = "STOP"
        BY <1>4, <2>5, <3>4 DEF RxData
      <4>2. RxElapsed' = 3 + Half + DataBits * RxClks + 0
        BY <1>1, <3>2, <4>1 DEF RxElapsed
      <4>3. rxBit + 1 = DataBits
        BY <1>1, <3>4
      <4>4. RxElapsed' = RxElapsed + 1
        BY <1>1, <2>2, <2>5, <4>2, <4>3
      <4>5. Current \in LinkBytes /\ rxShift' \in LinkBytes
        <5>1. sent # <<>>
          BY <2>1 DEF InStep
        <5>2. Current \in LinkBytes
          BY <1>1, <5>1 DEF Current
        <5> QED BY <1>1, <3>2, <5>2 DEF LinkBytes
      <4>6. rxShift' = Current
        BY <3>3, <3>4, <4>5 DEF LinkBytes
      <4> QED BY <2>1, <2>4, <4>1, <4>4, <4>6 DEF RxStays
    <3>5. CASE rxBit # DataBits - 1
      <4>1. rxBit' = rxBit + 1 /\ rxState' = "DATA"
        BY <1>4, <2>1, <2>5, <3>5 DEF RxData
      <4>2. RxElapsed' = 3 + Half + (rxBit + 1) * RxClks + 0
        BY <1>1, <3>2, <4>1 DEF RxElapsed
      <4>3. RxElapsed' = RxElapsed + 1
        BY <1>1, <2>2, <2>5, <4>2
      <4>4. rxBit' - 1 = rxBit
        BY <1>1, <4>1
      <4> QED BY <2>1, <2>4, <3>3, <4>1, <4>3, <4>4 DEF RxStays
    <3> QED BY <3>4, <3>5
  <2>6. CASE rxCount # RxClks - 1
    <3>1. rxCount' = rxCount + 1 /\ rxShift' = rxShift /\ rxBit' = rxBit /\ rxState' = "DATA"
      BY <1>4, <2>1, <2>6 DEF RxData
    <3>2. RxElapsed' = 3 + Half + rxBit * RxClks + (rxCount + 1)
      BY <1>1, <3>1 DEF RxElapsed
    <3>3. RxElapsed' = RxElapsed + 1
      BY <1>1, <2>2, <3>2
    <3> QED BY <2>1, <2>3, <2>4, <3>1, <3>3 DEF RxStays
  <2> QED BY <2>5, <2>6
<1>5. CASE RxStop
  <2>1. rxState = "STOP" /\ rxShift = Current
    BY <1>5 DEF RxStop, InStep
  <2>2. RxElapsed = HandOver - RxClks + rxCount
    BY <2>1, ClockOfRx
  <2>3. CASE rxCount = RxClks - 1
    <3>1. rxSync = 1 /\ RxElapsed = HandOver - 1
      BY <2>1, <2>3, Samples
    <3>2. rxState' = "IDLE" /\ received' = rxShift
      BY <1>5, <2>3, <3>1 DEF RxStop
    <3>3. rxValid' = TRUE
      BY <1>5, <2>3, <3>1 DEF RxStop
    <3> QED BY <2>1, <3>1, <3>2, <3>3 DEF RxHands
  <2>4. CASE rxCount # RxClks - 1
    <3>1. rxState' = "STOP" /\ rxShift' = rxShift /\ rxCount' = rxCount + 1 /\ received' = received
      BY <1>5, <2>1, <2>4 DEF RxStop
    <3>2. rxValid' = FALSE
      BY <1>5, <2>4 DEF RxStop
    <3>3. RxElapsed' = 3 + Half + DataBits * RxClks + (rxCount + 1)
      BY <1>1, <3>1 DEF RxElapsed
    <3>4. RxElapsed' = RxElapsed + 1 /\ RxElapsed < HandOver - 1
      BY <1>1, <2>2, <2>4, <3>3
    <3> QED BY <2>1, <3>1, <3>2, <3>4 DEF RxStays
  <2> QED BY <2>3, <2>4
<1> QED BY <1>2, <1>3, <1>4, <1>5, RxByState

-----------------------------------------------------------------------------
(* The two clocks together.                                                *)

\* What an edge does to the sender: it rests, begins a frame, goes on with it or ends it.
WriterWaits ==
    /\ writer = "poll" /\ writer' = "poll" /\ transmit' = FALSE
    /\ sent' = sent /\ WriterGoesOn
Resting == ~busy /\ ~transmit /\ ~busy' /\ (WriterStarts \/ WriterGoesOn)
Beginning == ~busy /\ transmit /\ busy' /\ Elapsed' = 0 /\ WriterWaits
GoingOn ==
    /\ busy /\ ~transmit /\ busy' /\ Elapsed' = Elapsed + 1 /\ Elapsed + 1 < FrameEnd
    /\ Elapsed >= HandOver - 1 => txBit' = DataBits + 1
    /\ WriterWaits
Ending == busy /\ ~transmit /\ ~busy' /\ Elapsed = FrameEnd - 1 /\ WriterWaits

\* The transmitter and its program together do one of these.
LEMMA SenderByCase ==
    ASSUME LinkTypeOK, Sending, TxEdge, Writer, txClks' = txClks
    PROVE  Resting \/ Beginning \/ GoingOn \/ Ending
<1>1. /\ done = ~busy /\ (writer # "poll" => ~busy /\ ~transmit) /\ (transmit => ~busy)
      /\ busy \in BOOLEAN /\ done \in BOOLEAN
  BY DEF Sending, LinkTypeOK
<1>2. WriterStarts \/ WriterGoesOn
  BY WriterByCase
<1>3. busy \/ transmit => WriterWaits
  <2> SUFFICES ASSUME busy \/ transmit PROVE WriterWaits
    OBVIOUS
  <2>1. writer = "poll"
    BY <1>1
  <2>2. WriterGoesOn
    BY <1>2, <2>1 DEF WriterStarts
  <2>3. ~(done /\ ~transmit)
    BY <1>1
  <2>4. writer' = "poll" /\ sent' = sent
    BY <2>1, <2>2, <2>3 DEF WriterGoesOn
  <2>5. transmit' = FALSE
    BY <2>2 DEF WriterGoesOn
  <2> QED BY <2>1, <2>2, <2>4, <2>5 DEF WriterWaits
<1>4. CASE TxRests
  <2>1. ~busy /\ ~transmit /\ busy' = busy
    BY <1>4 DEF TxRests
  <2> QED BY <1>2, <2>1 DEF Resting
<1>5. CASE TxBegins
  <2>1. ~busy /\ transmit /\ busy' = TRUE
    BY <1>5 DEF TxBegins
  <2>2. Elapsed' = 0
    BY <1>5, ClockOfTx
  <2> QED BY <1>3, <2>1, <2>2 DEF Beginning
<1>6. CASE SameBit \/ NextData \/ NextStop
  <2>1. busy /\ busy' = busy
    BY <1>6 DEF SameBit, NextData, NextStop
  <2>2. Elapsed' = Elapsed + 1 /\ Elapsed + 1 < FrameEnd
    BY <1>6, ClockOfTx
  <2>3. Elapsed >= HandOver - 1 => txBit' = DataBits + 1
    <3> SUFFICES ASSUME Elapsed >= HandOver - 1 PROVE txBit' = DataBits + 1
      OBVIOUS
    <3>0. Elapsed >= (DataBits + 1) * txClks
      <4>1. /\ Elapsed \in Nat /\ HandOver \in Nat /\ (DataBits + 1) * txClks \in Nat
            /\ (DataBits + 1) * txClks + 3 <= HandOver
        BY ClockOfTx, TheRates DEF LinkTypeOK
      <4> QED BY <4>1
    <3>1. txBit = DataBits + 1 /\ DataBits \in Nat
      BY <3>0, ClockOfTx, LinkAssumption
    <3>2. SameBit
      BY <1>6, <3>1 DEF NextData, NextStop
    <3> QED BY <3>1, <3>2 DEF SameBit
  <2> QED BY <1>1, <1>3, <2>1, <2>2, <2>3 DEF GoingOn
<1>7. CASE TxEnds
  <2>1. busy /\ busy' = FALSE
    BY <1>7 DEF TxEnds
  <2>2. Elapsed = FrameEnd - 1
    BY <1>7, ClockOfTx
  <2> QED BY <1>1, <1>3, <2>1, <2>2 DEF Ending
<1> QED BY <1>4, <1>5, <1>6, <1>7, TxByCase

\* Where the receiver can be.
Placed == Quiet \/ Unseen \/ Receiving \/ Trailing \/ Over

\* An edge leaves the receiver in one of the places, at the right moment of the frame.
LEMMA PlacesKept ==
    ASSUME LinkTypeOK, Sending, InStep, LinkNext
    PROVE  /\ Placed'
           /\ RxHands => /\ InFlight /\ (WriterGoesOn => ~InFlight')
                         /\ Waited = FrameEnd + 3 /\ Waited' <= 0
           /\ ~RxHands => Waited' <= Waited + 1 /\ (WriterGoesOn => (InFlight' <=> InFlight))
           /\ WriterStarts => InFlight' /\ (InFlight => RxHands)
<1>1. TxEdge /\ RxEdge /\ Writer /\ txClks' = txClks
  BY DEF LinkNext
<1>2. Resting \/ Beginning \/ GoingOn \/ Ending
  BY <1>1, SenderByCase
<1>3. RxStays \/ RxHands \/ RxWakes \/ RxRests
  BY <1>1, ReceiverByCase
<1>4. /\ FrameEnd \in Nat /\ HandOver \in Nat /\ FrameEnd >= 4 /\ HandOver >= 3
      /\ HandOver <= FrameEnd + 3
      /\ FrameEnd' = FrameEnd /\ HandOver' = HandOver /\ Elapsed \in Nat
  <2>1. HandOver' = HandOver
    BY DEF HandOver, Half
  <2>2. txClks \in TxRates
    BY DEF LinkTypeOK
  <2>3. /\ FrameEnd \in Nat /\ HandOver \in Nat /\ txClks \in Nat /\ txClks >= 4
        /\ (DataBits + 1) * txClks \in Nat /\ FrameEnd = (DataBits + 1) * txClks + txClks
        /\ (DataBits + 1) * txClks + 3 <= HandOver /\ HandOver <= FrameEnd + 3
    BY <2>2, TheRates
  <2>4. FrameEnd' = FrameEnd /\ Elapsed \in Nat
    BY <1>1, ClockOfTx
  <2> QED BY <2>1, <2>3, <2>4
<1>5. rxState # "IDLE" => /\ RxElapsed \in Nat /\ 3 <= RxElapsed /\ RxElapsed <= HandOver - 1
                          /\ rxState # "STOP" => RxElapsed < FrameEnd - 1
  BY ClockOfRx
<1>6. /\ writer # "poll" => ~busy /\ ~transmit
      /\ writer \in {"poll", "data", "start"}
      /\ WriterStarts => writer = "start" /\ writer' = "poll" /\ (~busy /\ ~transmit => transmit')
      /\ WriterGoesOn => ~transmit'
      /\ WriterGoesOn => \/ writer' = writer
                         \/ writer = "poll" /\ writer' = "data"
                         \/ writer = "data" /\ writer' = "start"
      /\ ~(WriterStarts /\ WriterGoesOn)
      /\ ~RxHands \/ (rxState = "STOP" /\ RxElapsed = HandOver - 1 /\ rxState' = "IDLE")
  <2>1. writer \in {"poll", "data", "start"} /\ (writer # "poll" => ~busy /\ ~transmit)
    BY DEF LinkTypeOK, Sending
  <2>2. WriterStarts => writer = "start" /\ writer' = "poll" /\ (~busy /\ ~transmit => transmit')
    BY DEF WriterStarts
  <2>3. WriterGoesOn => ~transmit'
    BY DEF WriterGoesOn
  <2>4. WriterGoesOn => \/ writer' = writer
                        \/ writer = "poll" /\ writer' = "data"
                        \/ writer = "data" /\ writer' = "start"
    BY Zenon DEF WriterGoesOn
  <2>5. ~(WriterStarts /\ WriterGoesOn)
    BY <2>2, <2>4
  <2> QED BY <2>1, <2>2, <2>3, <2>4, <2>5 DEF RxHands
<1>7. CASE Quiet
  <2>0. ~busy /\ rxState = "IDLE"
    BY <1>7 DEF Quiet
  <2>1. RxRests /\ ~RxHands
    BY <1>3, <2>0 DEF RxRests, RxHands, RxStays, RxWakes, Unseen
  <2>2. rxState' = "IDLE"
    BY <2>1 DEF RxRests
  <2>3. CASE Resting
    <3>1. ~transmit /\ ~busy' /\ (WriterStarts \/ WriterGoesOn)
      BY <2>3 DEF Resting
    <3>2. Placed'
      BY <2>2, <3>1 DEF Placed, Quiet
    <3>3. WriterStarts => InFlight' /\ ~InFlight
      BY <1>6, <2>0, <3>1 DEF InFlight, Unseen
    <3>4. WriterGoesOn => ~InFlight' /\ ~InFlight
      BY <1>6, <2>0, <2>2, <3>1 DEF InFlight, Unseen
    <3>5. Waited' <= Waited + 1
      BY <1>4, <1>6, <2>0, <2>2, <3>1 DEF Waited, Unseen
    <3> QED BY <2>1, <3>2, <3>3, <3>4, <3>5
  <2>4. CASE Beginning
    <3>1. transmit /\ busy' /\ Elapsed' = 0 /\ WriterGoesOn
      BY <2>4 DEF Beginning, WriterWaits
    <3>2. Unseen'
      BY <2>2, <3>1 DEF Unseen
    <3>3. InFlight /\ InFlight' /\ ~Unseen /\ Placed'
      BY <2>0, <3>1, <3>2 DEF InFlight, Unseen, Placed
    <3>4. Waited = FrameEnd - HandOver + 3
      BY <2>0, <3>1, <3>3 DEF Waited
    <3>5. Waited' = 0 + FrameEnd + 4 - HandOver
      BY <1>4, <2>2, <3>1, <3>2 DEF Waited
    <3> QED BY <1>4, <1>6, <2>1, <3>1, <3>3, <3>4, <3>5
  <2> QED BY <1>2, <2>0, <2>3, <2>4 DEF GoingOn, Ending
<1>8. CASE Unseen
  <2>0. busy /\ rxState = "IDLE" /\ Elapsed <= 2
    BY <1>8 DEF Unseen
  <2>1. GoingOn
    BY <1>2, <1>4, <2>0 DEF Resting, Beginning, Ending
  <2>2. ~transmit /\ busy' /\ Elapsed' = Elapsed + 1 /\ WriterGoesOn /\ ~WriterStarts
    BY <1>6, <2>1 DEF GoingOn, WriterWaits
  <2>3. Waited = Elapsed + FrameEnd + 4 - HandOver /\ InFlight
    BY <1>8, <2>0 DEF Waited, InFlight
  <2>4. CASE RxRests
    <3>1. rxState' = "IDLE" /\ Elapsed < 2
      BY <1>8, <2>4 DEF RxRests
    <3>2. Unseen'
      BY <1>4, <2>2, <3>1 DEF Unseen
    <3>3. Placed' /\ InFlight'
      BY <3>2 DEF Placed, InFlight
    <3>4. Waited' = Elapsed' + FrameEnd' + 4 - HandOver'
      BY <3>1, <3>2 DEF Waited
    <3> QED BY <1>4, <2>0, <2>2, <2>3, <3>3, <3>4 DEF RxHands
  <2>5. CASE RxWakes
    <3>1. rxState' = "START" /\ RxElapsed' = 3 /\ Elapsed = 2
      BY <2>5 DEF RxWakes
    <3>2. Receiving'
      BY <1>4, <2>2, <3>1 DEF Receiving
    <3>3. Placed' /\ InFlight'
      BY <3>1, <3>2 DEF Placed, InFlight
    <3>4. Waited' = RxElapsed' + FrameEnd' + 4 - HandOver'
      BY <3>1 DEF Waited
    <3> QED BY <1>4, <2>0, <2>2, <2>3, <3>1, <3>3, <3>4 DEF RxHands
  <2> QED BY <1>3, <2>0, <2>4, <2>5 DEF RxStays, RxHands
<1>9. CASE Receiving
  <2>0. busy /\ rxState # "IDLE" /\ RxElapsed = Elapsed
    BY <1>9 DEF Receiving
  <2>1. Waited = RxElapsed + FrameEnd + 4 - HandOver /\ InFlight
    BY <2>0 DEF Waited, InFlight
  <2>2. RxStays \/ RxHands
    BY <1>3, <2>0 DEF RxWakes, RxRests
  <2>3. WriterGoesOn /\ ~WriterStarts /\ ~transmit' /\ writer' = "poll"
    BY <1>2, <1>6, <2>0 DEF Resting, Beginning, GoingOn, Ending, WriterWaits
  <2>4. CASE RxStays
    <3>1. /\ rxState' # "IDLE" /\ RxElapsed' = RxElapsed + 1 /\ RxElapsed < HandOver - 1
          /\ (rxState = "STOP" => rxState' = "STOP")
      BY <2>4 DEF RxStays
    <3>2. Waited' = RxElapsed' + FrameEnd' + 4 - HandOver' /\ InFlight' /\ ~RxHands
      BY <3>1 DEF Waited, InFlight, RxHands
    <3>3. ASSUME GoingOn PROVE Placed'
      <4>1. busy' /\ Elapsed' = Elapsed + 1
        BY <3>3 DEF GoingOn
      <4>2. Receiving'
        BY <2>0, <3>1, <4>1 DEF Receiving
      <4> QED BY <4>2 DEF Placed
    <3>4. ASSUME Ending PROVE Placed'
      <4>1. ~busy' /\ RxElapsed = FrameEnd - 1
        BY <2>0, <3>4 DEF Ending
      <4>2. rxState' = "STOP" /\ RxElapsed' = FrameEnd
        BY <1>4, <1>5, <2>0, <3>1, <4>1
      <4>3. Trailing'
        BY <1>4, <2>3, <4>1, <4>2 DEF Trailing
      <4> QED BY <4>3 DEF Placed
    <3>5. Placed'
      BY <1>2, <2>0, <3>3, <3>4 DEF Resting, Beginning
    <3>6. Waited' <= Waited + 1
      BY <1>4, <1>5, <2>0, <2>1, <3>1, <3>2
    <3> QED BY <2>1, <2>3, <3>2, <3>5, <3>6
  <2>5. CASE RxHands
    <3>1. RxElapsed = HandOver - 1 /\ rxState' = "IDLE"
      BY <2>5 DEF RxHands
    <3>2. Waited = FrameEnd + 3
      BY <1>4, <2>1, <3>1
    <3>2a. Elapsed = HandOver - 1
      BY <2>0, <3>1
    <3>3. CASE GoingOn
      <4>0. /\ busy' /\ Elapsed' = Elapsed + 1
            /\ Elapsed >= HandOver - 1 => txBit' = DataBits + 1
        BY <3>3 DEF GoingOn
      <4>1. busy' /\ Elapsed' = HandOver /\ txBit' = DataBits + 1
        BY <1>4, <3>2a, <4>0
      <4>2. Over' /\ ~Unseen'
        BY <1>4, <3>1, <4>1 DEF Over, Unseen
      <4>3. Waited' = Elapsed' - HandOver'
        BY <3>1, <4>1, <4>2 DEF Waited
      <4>4. Waited' <= 0
        BY <1>4, <4>1, <4>3
      <4> QED BY <2>1, <2>3, <2>5, <3>1, <3>2, <4>2, <4>4 DEF Placed, InFlight
    <3>4. CASE Ending
      <4>0. ~busy' /\ Elapsed = FrameEnd - 1
        BY <3>4 DEF Ending
      <4>1. HandOver = FrameEnd
        BY <1>4, <3>2a, <4>0
      <4>2. Quiet' /\ ~Unseen'
        BY <3>1, <4>0 DEF Quiet, Unseen
      <4>3. Waited' = FrameEnd' - HandOver' + 0
        BY <2>3, <3>1, <4>0, <4>2 DEF Waited
      <4>4. Waited' <= 0
        BY <1>4, <4>1, <4>3
      <4> QED BY <2>1, <2>3, <2>5, <3>1, <3>2, <4>2, <4>4 DEF Placed, InFlight
    <3> QED BY <1>2, <2>0, <3>3, <3>4 DEF Resting, Beginning
  <2> QED BY <2>2, <2>4, <2>5
<1>10. CASE Trailing
  <2>0. /\ ~busy /\ ~transmit /\ rxState = "STOP" /\ RxElapsed >= FrameEnd
        /\ (writer = "data" => RxElapsed >= FrameEnd + 1)
        /\ (writer = "start" => RxElapsed >= FrameEnd + 2)
    BY <1>10 DEF Trailing
  <2>1. Waited = RxElapsed + FrameEnd + 4 - HandOver /\ InFlight
    BY <2>0 DEF Waited, InFlight
  <2>2. RxStays \/ RxHands
    BY <1>3, <2>0 DEF RxWakes, RxRests
  <2>3. ~busy' /\ (WriterStarts \/ WriterGoesOn)
    BY <1>2, <2>0 DEF Resting, Beginning, GoingOn, Ending
  <2>4. CASE RxStays
    <3>1. /\ rxState' = "STOP" /\ RxElapsed' = RxElapsed + 1 /\ RxElapsed < HandOver - 1
      BY <2>0, <2>4 DEF RxStays
    <3>2. Waited' = RxElapsed' + FrameEnd' + 4 - HandOver' /\ InFlight' /\ ~RxHands
      BY <3>1 DEF Waited, InFlight, RxHands
    <3>3. WriterGoesOn /\ ~WriterStarts
      BY <1>4, <1>5, <1>6, <2>0, <2>3, <3>1
    <3>4. Trailing'
      BY <1>4, <1>5, <1>6, <2>0, <2>3, <3>1, <3>3 DEF Trailing
    <3>5. Waited' <= Waited + 1
      BY <1>4, <1>5, <2>0, <2>1, <3>1, <3>2
    <3> QED BY <2>1, <3>2, <3>3, <3>4, <3>5 DEF Placed
  <2>5. CASE RxHands
    <3>1. RxElapsed = HandOver - 1 /\ rxState' = "IDLE"
      BY <2>5 DEF RxHands
    <3>2. Waited = FrameEnd + 3
      BY <1>4, <2>1, <3>1
    <3>3. Quiet' /\ ~Unseen'
      BY <2>3, <3>1 DEF Quiet, Unseen
    <3>4. Waited' <= 0
      <4>1. CASE WriterStarts
        <5>1. writer = "start" /\ transmit'
          BY <1>6, <2>0, <4>1
        <5>2. Waited' = FrameEnd' - HandOver' + 3
          BY <2>3, <3>1, <3>3, <5>1 DEF Waited
        <5> QED BY <1>4, <2>0, <3>1, <5>1, <5>2
      <4>2. CASE WriterGoesOn
        <5>1. ~transmit'
          BY <1>6, <4>2
        <5>2. Waited' = FrameEnd' - HandOver' + IF writer' = "start" THEN 2
                                                ELSE IF writer' = "data" THEN 1 ELSE 0
          BY <2>3, <3>1, <3>3, <5>1 DEF Waited
        <5> QED BY <1>4, <1>6, <2>0, <3>1, <4>2, <5>2
      <4> QED BY <2>3, <4>1, <4>2
    <3>5. WriterStarts => InFlight'
      BY <1>6, <2>0 DEF InFlight
    <3>6. WriterGoesOn => ~InFlight'
      BY <1>6, <3>1, <3>3 DEF InFlight
    <3> QED BY <2>1, <2>5, <3>2, <3>3, <3>4, <3>5, <3>6 DEF Placed
  <2> QED BY <2>2, <2>4, <2>5
<1>11. CASE Over
  <2>0. busy /\ rxState = "IDLE" /\ txBit = DataBits + 1 /\ Elapsed >= HandOver
    BY <1>11 DEF Over
  <2>1. ~Unseen
    BY <1>4, <2>0 DEF Unseen
  <2>2. RxRests /\ ~RxHands
    BY <1>3, <2>0, <2>1 DEF RxStays, RxHands, RxWakes
  <2>3. rxState' = "IDLE" /\ Waited = Elapsed - HandOver
    BY <2>0, <2>1, <2>2 DEF RxRests, Waited
  <2>4. WriterGoesOn /\ ~WriterStarts /\ ~transmit' /\ writer' = "poll" /\ ~transmit
    BY <1>2, <1>6, <2>0 DEF Resting, Beginning, GoingOn, Ending, WriterWaits
  <2>5. ~InFlight
    BY <2>0, <2>1, <2>4 DEF InFlight
  <2>6. CASE GoingOn
    <3>1. busy' /\ Elapsed' = Elapsed + 1 /\ txBit' = DataBits + 1
      BY <1>4, <2>0, <2>6 DEF GoingOn
    <3>2. Over' /\ ~Unseen'
      BY <1>4, <2>0, <2>3, <3>1 DEF Over, Unseen
    <3>3. Waited' = Elapsed' - HandOver'
      BY <2>3, <3>1, <3>2 DEF Waited
    <3>4. Waited' <= Waited + 1
      BY <1>4, <2>3, <3>1, <3>3
    <3> QED BY <2>2, <2>3, <2>4, <2>5, <3>2, <3>4 DEF Placed, InFlight
  <2>7. CASE Ending
    <3>1. ~busy' /\ Elapsed = FrameEnd - 1
      BY <2>7 DEF Ending
    <3>2. Quiet' /\ ~Unseen'
      BY <2>3, <3>1 DEF Quiet, Unseen
    <3>3. Waited' = FrameEnd' - HandOver' + 0
      BY <2>3, <2>4, <3>1, <3>2 DEF Waited
    <3>4. Waited' <= Waited + 1
      BY <1>4, <2>3, <3>1, <3>3
    <3> QED BY <2>2, <2>3, <2>4, <2>5, <3>2, <3>4 DEF Placed, InFlight
  <2> QED BY <1>2, <2>0, <2>6, <2>7 DEF Resting, Beginning
<1> QED BY <1>7, <1>8, <1>9, <1>10, <1>11 DEF InStep

\* A start never falls into a frame that is still being shifted in.
LEMMA InStepKept ==
    ASSUME LinkTypeOK, Sending, InStep, LinkNext
    PROVE  InStep'
<1>1. TxEdge /\ RxEdge /\ Writer /\ txClks' = txClks
  BY DEF LinkNext
<1>2. Placed'
  BY PlacesKept
<1>3. /\ rxState' = "DATA" => \A k \in 0..(rxBit' - 1) : rxShift'[k] = Current[k]
      /\ rxState' = "STOP" => rxShift' = Current
      /\ RxStays \/ RxHands \/ RxWakes \/ RxRests
  BY <1>1, ReceiverByCase
<1>4. ASSUME rxState' # "IDLE" PROVE sent' # <<>> /\ Current' = Current
  <2>1. RxStays \/ RxWakes
    BY <1>3, <1>4 DEF RxHands, RxRests
  <2>2. InFlight /\ ~RxHands
    <3>1. RxStays => rxState # "IDLE" /\ RxElapsed < HandOver - 1
      BY DEF RxStays
    <3>2. RxWakes => Unseen /\ rxState = "IDLE"
      BY DEF RxWakes
    <3>3. rxState # "IDLE" => RxElapsed \in Nat /\ HandOver \in Nat
      BY ClockOfRx, TheRates DEF LinkTypeOK
    <3> QED BY <2>1, <3>1, <3>2, <3>3 DEF InFlight, RxHands
  <2>3. ~WriterStarts
    BY <2>2, PlacesKept
  <2>4. WriterGoesOn
    BY <1>1, <2>3, WriterByCase
  <2>5. sent' = sent
    BY <2>4 DEF WriterGoesOn
  <2>6. sent # <<>>
    <3>1. rxState # "IDLE" \/ busy
      BY <2>1 DEF RxStays, RxWakes, Unseen
    <3> QED BY <3>1 DEF InStep, Sending
  <2> QED BY <2>5, <2>6 DEF Current
<1>5. rxState' = "DATA" => \A k \in 0..(rxBit' - 1) : rxShift'[k] = Current'[k]
  BY <1>3, <1>4
<1>6. rxState' = "STOP" => rxShift' = Current'
  BY <1>3, <1>4
<1> QED BY <1>2, <1>4, <1>5, <1>6 DEF Placed, InStep

-----------------------------------------------------------------------------
(* The byte that waits for the program.                                    *)

\* The registers of uart.v at an edge.
LEMMA RegisterStep ==
    ASSUME NEW cleared \in BOOLEAN, RxRegisters(cleared), LinkTypeOK
    PROVE  /\ rxValid => rxdone' /\ rxdata' = received
           /\ ~rxValid => rxdata' = rxdata /\ (rxdone' <=> rxdone /\ ~cleared)
<1>1. rxdone' <=> (rxValid \/ (rxdone /\ ~cleared))
  BY DEF RxRegisters
<1>2. rxdata' = IF rxValid THEN received ELSE rxdata
  BY DEF RxRegisters
<1> QED BY <1>1, <1>2

\* What an edge does to the receiving program and its registers.
Held == IF rxValid THEN received ELSE rxdata
Lingers == reader' = reader /\ pause' = pause + 1 /\ got' = got
Looks == /\ reader = "poll" /\ reader' = (IF rxdone THEN "clear" ELSE "poll")
         /\ pause' = 0 /\ got' = got
Clears == reader = "clear" /\ reader' = "data" /\ pause' = 0 /\ got' = got
Takes == reader = "data" /\ reader' = "poll" /\ pause' = 0 /\ got' = Append(got, rxdata)

\* Reader is one of these, and a byte that is handed over stays in its register.
LEMMA ReaderByCase ==
    ASSUME LinkTypeOK, Reader
    PROVE  /\ Lingers \/ Looks \/ Clears \/ Takes
           /\ rxValid => rxdone' /\ rxdata' = received
           /\ ~rxValid => rxdata' = rxdata /\ (rxdone' <=> rxdone /\ ~Clears)
<1>1. CASE ReaderIdles
  <2>1. Lingers /\ RxRegisters(FALSE)
    BY <1>1 DEF ReaderIdles, Lingers
  <2>2. ~Clears
    BY <2>1 DEF Lingers, Clears
  <2> QED BY <2>1, <2>2, RegisterStep
<1>2. CASE ReaderPolls
  <2>1. Looks /\ RxRegisters(FALSE)
    BY <1>2 DEF ReaderPolls, Looks
  <2>2. ~Clears
    BY <2>1 DEF Looks, Clears
  <2> QED BY <2>1, <2>2, RegisterStep
<1>3. CASE ReaderClears
  <2>1. Clears /\ RxRegisters(TRUE)
    BY <1>3 DEF ReaderClears, Clears
  <2> QED BY <2>1, RegisterStep
<1>4. CASE ReaderTakes
  <2>1. Takes /\ RxRegisters(FALSE)
    BY <1>4 DEF ReaderTakes, Takes
  <2>2. ~Clears
    BY <2>1 DEF Takes, Clears
  <2> QED BY <2>1, <2>2, RegisterStep
<1> QED BY <1>1, <1>2, <1>3, <1>4 DEF Reader

\* When a byte is handed over, the last one has been taken: a whole frame has passed.
LEMMA TakenInTime ==
    ASSUME LinkTypeOK, InTime, Waited = FrameEnd + 3
    PROVE  ~rxValid /\ ~rxdone /\ reader = "poll"
<1>1. /\ FrameEnd \in Nat /\ MaxPause \in Nat /\ 3 * MaxPause < FrameEnd /\ pause \in 0..MaxPause
      /\ reader \in {"poll", "clear", "data"}
  <2>1. txClks \in TxRates /\ pause \in 0..MaxPause /\ reader \in {"poll", "clear", "data"}
    BY DEF LinkTypeOK
  <2> QED BY <2>1, TheRates
<1>2. /\ rxValid => Waited <= 0
      /\ rxdone /\ reader = "poll" => Waited <= 1 + pause
      /\ reader = "clear" => Waited <= MaxPause + 2 + pause
      /\ reader = "data" => Waited <= 2 * MaxPause + 3 + pause
  BY DEF InTime
<1>3. ~rxValid
  BY <1>1, <1>2
<1>4. reader # "clear"
  BY <1>1, <1>2
<1>5. reader # "data"
  BY <1>1, <1>2
<1>6. ~(rxdone /\ reader = "poll")
  BY <1>1, <1>2
<1> QED BY <1>1, <1>3, <1>4, <1>5, <1>6

\* The wait is a number of clocks.
LEMMA WaitedIsInt ==
    ASSUME LinkTypeOK
    PROVE  Waited \in Int
<1>1. FrameEnd \in Nat /\ HandOver \in Nat
  BY TheRates DEF LinkTypeOK
<1>2. Elapsed \in Nat
  <2>1. txBit \in Nat /\ txCount \in Nat /\ txClks \in Nat
    <3>1. txClks \in TxRates /\ txBit \in 0..(DataBits + 1) /\ txCount \in 0..(txClks - 1)
      BY DEF LinkTypeOK
    <3> QED BY <3>1, TheRates
  <2>2. txBit * txClks \in Nat
    BY <2>1, Products
  <2> QED BY <2>1, <2>2 DEF Elapsed
<1>3. rxState # "IDLE" => RxElapsed \in Nat
  BY ClockOfRx
<1> QED BY <1>1, <1>2, <1>3 DEF Waited

\* The same, after a step.
LEMMA WaitedIsIntNext == (LinkTypeOK => Waited \in Int)'
<1>1. LinkTypeOK => Waited \in Int
  BY WaitedIsInt
<1> QED BY <1>1, PTL

\* A clock edge keeps the program in time.
LEMMA InTimeKept ==
    ASSUME LinkTypeOK, LinkTypeOK', Sending, InStep, InTime, LinkNext
    PROVE  InTime'
<1>1. RxEdge /\ Reader
  BY DEF LinkNext
<1>2. /\ Lingers \/ Looks \/ Clears \/ Takes
      /\ rxValid => rxdone'
      /\ ~rxValid => (rxdone' <=> rxdone /\ ~Clears)
  BY <1>1, ReaderByCase
<1>3. /\ RxHands => Waited = FrameEnd + 3 /\ Waited' <= 0
      /\ ~RxHands => Waited' <= Waited + 1
  BY PlacesKept
<1>4. RxHands => rxValid' /\ rxState' = "IDLE"
  BY DEF RxHands
<1>5. ~RxHands => ~rxValid'
  BY <1>1, ReceiverByCase DEF RxStays, RxWakes, RxRests
<1>6. Waited \in Int /\ Waited' \in Int /\ MaxPause \in Nat /\ pause \in 0..MaxPause
  <2>1. Waited \in Int
    BY WaitedIsInt
  <2>2. Waited' \in Int
    BY WaitedIsIntNext
  <2> QED BY <2>1, <2>2, LinkAssumption DEF LinkTypeOK
<1>7. /\ rxValid => reader = "poll" /\ ~rxdone /\ Waited <= 0
      /\ rxdone /\ reader = "poll" => Waited <= 1 + pause
      /\ reader = "clear" => rxdone /\ Waited <= MaxPause + 2 + pause
      /\ reader = "data" => ~rxdone /\ Waited <= 2 * MaxPause + 3 + pause
      /\ reader \in {"poll", "clear", "data"}
  BY DEF InTime, LinkTypeOK
<1>8. /\ Lingers => reader' = reader /\ pause' = pause + 1 /\ ~Clears
      /\ Looks => /\ reader = "poll" /\ reader' = (IF rxdone THEN "clear" ELSE "poll")
                  /\ pause' = 0 /\ ~Clears
      /\ Clears => reader = "clear" /\ reader' = "data" /\ pause' = 0
      /\ Takes => reader = "data" /\ reader' = "poll" /\ pause' = 0 /\ ~Clears
  BY DEF Lingers, Looks, Clears, Takes
<1>9. CASE RxHands
  <2>1. ~rxValid /\ ~rxdone /\ reader = "poll"
    BY <1>3, <1>9, TakenInTime
  <2>2. reader' = "poll" /\ ~rxdone'
    BY <1>2, <1>8, <2>1
  <2>3. Waited' <= 0 /\ rxValid' /\ rxState' = "IDLE"
    BY <1>3, <1>4, <1>9
  <2> QED BY <2>2, <2>3 DEF InTime
<1>10. CASE ~RxHands
  <2>1. ~rxValid' /\ Waited' <= Waited + 1
    BY <1>3, <1>5, <1>10
  <2>2. CASE rxValid
    <3>1. reader' = "poll"
      BY <1>2, <1>7, <1>8, <2>2
    <3>2. pause' \in Nat
      BY <1>2, <1>6, <1>8
    <3>3. Waited' <= 1 + pause'
      <4>1. Waited <= 0 /\ Waited \in Int /\ Waited' \in Int /\ Waited' <= Waited + 1
        <5>1. Waited <= 0
          BY <1>7, <2>2
        <5> QED BY <1>6, <2>1, <5>1
      <4>2. Waited' <= 1 /\ Waited' \in Int
        BY <4>1
      <4>3. pause' \in Int /\ 0 <= pause'
        BY <3>2
      <4>4. \A w, p \in Int : w <= 1 /\ 0 <= p => w <= 1 + p
        OBVIOUS
      <4> QED BY <4>2, <4>3, <4>4
    <3> QED BY <2>1, <3>1, <3>3 DEF InTime
  <2>3. CASE ~rxValid
    <3>1. ASSUME Lingers PROVE InTime'
      <4>1. reader' = reader /\ pause' = pause + 1 /\ (rxdone' <=> rxdone)
        BY <1>2, <1>8, <2>3, <3>1
      <4>2. rxdone' /\ reader' = "poll" => Waited' <= 1 + pause'
        BY <1>6, <1>7, <2>1, <4>1
      <4>3. reader' = "clear" => rxdone' /\ Waited' <= MaxPause + 2 + pause'
        BY <1>6, <1>7, <2>1, <4>1
      <4>4. reader' = "data" => ~rxdone' /\ Waited' <= 2 * MaxPause + 3 + pause'
        BY <1>6, <1>7, <2>1, <4>1
      <4> QED BY <2>1, <4>2, <4>3, <4>4 DEF InTime
    <3>2. ASSUME Looks PROVE InTime'
      <4>1. reader = "poll" /\ pause' = 0 /\ (rxdone' <=> rxdone)
        BY <1>2, <1>8, <2>3, <3>2
      <4>2. reader' = IF rxdone THEN "clear" ELSE "poll"
        BY <1>8, <3>2
      <4>3. CASE rxdone
        <5>1. reader' = "clear" /\ rxdone'
          BY <4>1, <4>2, <4>3
        <5>2. Waited' <= MaxPause + 2 + pause'
          BY <1>6, <1>7, <2>1, <4>1, <4>3
        <5> QED BY <2>1, <5>1, <5>2 DEF InTime
      <4>4. CASE ~rxdone
        <5>1. reader' = "poll" /\ ~rxdone'
          BY <4>1, <4>2, <4>4
        <5> QED BY <2>1, <5>1 DEF InTime
      <4> QED BY <4>3, <4>4
    <3>3. ASSUME Clears PROVE InTime'
      <4>1. reader = "clear" /\ reader' = "data" /\ pause' = 0 /\ ~rxdone'
        BY <1>2, <1>8, <2>3, <3>3
      <4>2. Waited' <= 2 * MaxPause + 3 + pause'
        BY <1>6, <1>7, <2>1, <4>1
      <4> QED BY <2>1, <4>1, <4>2 DEF InTime
    <3>4. ASSUME Takes PROVE InTime'
      <4>1. reader' = "poll" /\ ~rxdone'
        BY <1>2, <1>7, <1>8, <2>3, <3>4
      <4> QED BY <2>1, <4>1 DEF InTime
    <3> QED BY <1>2, <3>1, <3>2, <3>3, <3>4
  <2> QED BY <2>2, <2>3
<1> QED BY <1>9, <1>10

-----------------------------------------------------------------------------
(* No byte is lost, and none comes twice.                                  *)

\* A clock edge keeps the account: what has been sent is what has been taken, what waits in
\* the register and what is on the line.
LEMMA AccountedKept ==
    ASSUME LinkTypeOK, LinkTypeOK', Sending, InStep, InTime, Accounted, LinkNext
    PROVE  Accounted'
<1>1. RxEdge /\ Reader /\ Writer
  BY DEF LinkNext
<1>2. /\ Lingers \/ Looks \/ Clears \/ Takes
      /\ rxValid => rxdone' /\ rxdata' = received
      /\ ~rxValid => rxdata' = rxdata /\ (rxdone' <=> rxdone /\ ~Clears)
  BY <1>1, ReaderByCase
<1>3. /\ RxHands => Waited = FrameEnd + 3 /\ InFlight /\ (WriterGoesOn => ~InFlight')
      /\ ~RxHands => (WriterGoesOn => (InFlight' <=> InFlight))
      /\ WriterStarts => InFlight' /\ (InFlight => RxHands)
  BY PlacesKept
<1>4. ~RxHands => ~rxValid'
  BY <1>1, ReceiverByCase DEF RxStays, RxWakes, RxRests
<1>5. /\ sent \in Seq(LinkBytes) /\ got \in Seq(LinkBytes) /\ txdata \in LinkBytes
      /\ rxdata \in LinkBytes /\ Len(sent) \in Nat /\ Len(got) \in Nat
      /\ reader \in {"poll", "clear", "data"}
  BY DEF LinkTypeOK
<1>6. /\ rxValid => reader = "poll" /\ ~rxdone
      /\ reader = "clear" => rxdone
      /\ reader = "data" => ~rxdone
  BY DEF InTime
<1>7. /\ Len(sent) = Len(got) + OneIf(Pending) + OneIf(InFlight)
      /\ \A k \in 1..Len(got) : got[k] = sent[k]
      /\ Pending => sent[Len(got) + 1] = Held
  BY DEF Accounted, Held
<1>8. /\ Lingers => reader' = reader /\ got' = got /\ ~Clears
      /\ Looks => /\ reader = "poll" /\ reader' = (IF rxdone THEN "clear" ELSE "poll")
                  /\ got' = got /\ ~Clears
      /\ Clears => reader = "clear" /\ reader' = "data" /\ got' = got
      /\ Takes => reader = "data" /\ reader' = "poll" /\ got' = Append(got, rxdata) /\ ~Clears
  BY DEF Lingers, Looks, Clears, Takes
<1>7a. /\ (Pending => OneIf(Pending) = 1) /\ (~Pending => OneIf(Pending) = 0)
       /\ (InFlight => OneIf(InFlight) = 1) /\ (~InFlight => OneIf(InFlight) = 0)
       /\ (Pending' => OneIf(Pending') = 1) /\ (~Pending' => OneIf(Pending') = 0)
       /\ (InFlight' => OneIf(InFlight') = 1) /\ (~InFlight' => OneIf(InFlight') = 0)
  BY DEF OneIf
<1>9. WriterStarts \/ (WriterGoesOn /\ sent' = sent)
  BY <1>1, WriterByCase DEF WriterGoesOn
<1>10. WriterStarts => sent' = Append(sent, txdata)
  BY DEF WriterStarts
<1>11. \A k \in 1..Len(sent) : sent'[k] = sent[k]
  BY <1>5, <1>9, <1>10
<1>12. WriterStarts => Len(sent') = Len(sent) + 1
  BY <1>5, <1>10
<1>13. Len(sent') = Len(got) + OneIf(Pending) + OneIf(InFlight') + IF RxHands THEN 1 ELSE 0
  <2>1. CASE WriterStarts
    <3>1. Len(sent') = Len(got) + OneIf(Pending) + OneIf(InFlight) + 1 /\ OneIf(InFlight') = 1
      BY <1>3, <1>7, <1>7a, <1>12, <2>1
    <3>2. OneIf(Pending) \in {0, 1} /\ OneIf(InFlight) = IF RxHands THEN 1 ELSE 0
      BY <1>3, <1>7a, <2>1
    <3> QED BY <1>5, <3>1, <3>2
  <2>2. CASE WriterGoesOn /\ sent' = sent
    BY <1>3, <1>5, <1>7, <1>7a, <2>2
  <2> QED BY <1>9, <2>1, <2>2
<1>14. CASE RxHands
  <2>1. ~rxValid /\ ~rxdone /\ reader = "poll"
    BY <1>3, <1>14, TakenInTime
  <2>2. reader' = "poll" /\ ~rxdone' /\ got' = got
    BY <1>2, <1>8, <2>1
  <2>3. rxValid' /\ received' = rxShift /\ rxState = "STOP"
    BY <1>14 DEF RxHands
  <2>4. rxShift = Current
    BY <2>3 DEF InStep
  <2>5. ~Pending /\ Pending'
    BY <2>1, <2>3 DEF Pending
  <2>6. Len(sent) = Len(got) + 1
    BY <1>3, <1>5, <1>7, <1>14, <2>5 DEF OneIf
  <2>7. sent'[Len(got') + 1] = received'
    <3>1. sent[Len(sent)] = rxShift
      BY <2>4 DEF Current
    <3>2. Len(got) + 1 \in 1..Len(sent)
      BY <1>5, <2>6
    <3> QED BY <1>11, <2>2, <2>3, <2>6, <3>1, <3>2
  <2>8. Len(sent') = Len(got') + OneIf(Pending') + OneIf(InFlight')
    BY <1>5, <1>13, <1>14, <2>2, <2>5 DEF OneIf
  <2>9. \A k \in 1..Len(got') : got'[k] = sent'[k]
    <3>1. \A k \in 1..Len(got) : k \in 1..Len(sent)
      BY <1>5, <2>6
    <3> QED BY <1>7, <1>11, <2>2, <3>1
  <2> QED BY <2>3, <2>7, <2>8, <2>9 DEF Accounted
<1>15. CASE ~RxHands
  <2>1. ~rxValid'
    BY <1>4, <1>15
  <2>2. Len(got) + OneIf(Pending) <= Len(sent)
    BY <1>5, <1>7, <1>7a
  <2>3. \A k \in 1..Len(got) : got[k] = sent'[k]
    <3>1. \A k \in 1..Len(got) : k \in 1..Len(sent)
      BY <1>5, <2>2 DEF OneIf
    <3> QED BY <1>7, <1>11, <3>1
  <2>4. Pending => sent'[Len(got) + 1] = Held
    <3>1. Pending => Len(got) + 1 \in 1..Len(sent)
      BY <1>5, <2>2 DEF OneIf
    <3> QED BY <1>7, <1>11, <3>1
  <2>5. CASE Takes
    <3>1. /\ reader = "data" /\ reader' = "poll" /\ got' = Append(got, rxdata) /\ ~Clears
      BY <1>8, <2>5
    <3>2. ~rxValid /\ ~rxdone /\ Pending
      BY <1>6, <3>1 DEF Pending
    <3>3. ~Pending'
      BY <1>2, <2>1, <3>1, <3>2 DEF Pending
    <3>4. /\ Len(got') = Len(got) + 1 /\ got'[Len(got) + 1] = rxdata
          /\ \A k \in 1..Len(got) : got'[k] = got[k]
      BY <1>5, <3>1
    <3>5. sent'[Len(got) + 1] = rxdata
      BY <2>4, <3>2 DEF Held
    <3>6. \A k \in 1..Len(got') : got'[k] = sent'[k]
      <4>1. \A k \in 1..Len(got') : k \in 1..Len(got) \/ k = Len(got) + 1
        BY <1>5, <3>4
      <4> QED BY <2>3, <3>4, <3>5, <4>1
    <3>7. Len(sent') = Len(got') + OneIf(Pending') + OneIf(InFlight')
      BY <1>5, <1>13, <1>15, <3>2, <3>3, <3>4 DEF OneIf
    <3> QED BY <3>3, <3>6, <3>7 DEF Accounted
  <2>6. CASE ~Takes
    <3>1. got' = got
      BY <1>2, <1>8, <2>6
    <3>2. Pending' <=> Pending
      <4>1. CASE rxValid
        BY <1>2, <4>1 DEF Pending
      <4>2. CASE ~rxValid
        BY <1>2, <1>5, <1>6, <1>8, <2>1, <2>6, <4>2 DEF Pending
      <4> QED BY <4>1, <4>2
    <3>3. rxdata' = Held
      BY <1>2 DEF Held
    <3>4. Len(sent') = Len(got') + OneIf(Pending') + OneIf(InFlight')
      BY <1>5, <1>7a, <1>13, <1>15, <3>1, <3>2
    <3>5. \A k \in 1..Len(got') : got'[k] = sent'[k]
      BY <2>3, <3>1
    <3>6. Pending' => sent'[Len(got') + 1] = IF rxValid' THEN received' ELSE rxdata'
      BY <2>1, <2>4, <3>1, <3>2, <3>3
    <3> QED BY <3>4, <3>5, <3>6 DEF Accounted
  <2> QED BY <2>5, <2>6
<1> QED BY <1>14, <1>15

-----------------------------------------------------------------------------
(* The invariant, and what it says of the bytes.                           *)

\* The invariant holds at reset.
LEMMA LinkInvInit ==
    ASSUME LinkInit
    PROVE  LinkInv
<1>1. txClks \in TxRates
  BY DEF LinkInit
<1>2. /\ txClks \in Nat /\ txClks >= 4 /\ RxClks \in Nat /\ RxClks >= 4
      /\ DataBits \in Nat \ {0} /\ MaxPause \in Nat
  BY <1>1, TheRates
<1>3. LinkTypeOK
  <2>1. /\ txdata \in LinkBytes /\ txShift \in LinkBytes /\ rxShift \in LinkBytes
        /\ received \in LinkBytes /\ rxdata \in LinkBytes
    BY ZerosIsByte DEF LinkInit
  <2>2. /\ transmit \in BOOLEAN /\ busy \in BOOLEAN /\ done \in BOOLEAN
        /\ rxValid \in BOOLEAN /\ rxdone \in BOOLEAN
    BY DEF LinkInit
  <2>3. txCount \in 0..(txClks - 1) /\ txBit \in 0..(DataBits + 1)
    BY <1>2 DEF LinkInit
  <2>4. rxCount \in 0..(RxClks - 1) /\ rxBit \in 0..(DataBits - 1) /\ pause \in 0..MaxPause
    BY <1>2 DEF LinkInit
  <2>5. sent \in Seq(LinkBytes) /\ got \in Seq(LinkBytes)
    BY DEF LinkInit
  <2>6. /\ txo \in {0, 1} /\ rxMeta \in {0, 1} /\ rxSync \in {0, 1} /\ rxState = "IDLE"
        /\ writer \in {"poll", "data", "start"} /\ reader \in {"poll", "clear", "data"}
    BY DEF LinkInit
  <2> QED BY <1>1, <2>1, <2>2, <2>3, <2>4, <2>5, <2>6 DEF LinkTypeOK
<1>4. /\ ~busy /\ done = TRUE /\ ~transmit /\ txo = 1 /\ rxMeta = 1 /\ rxSync = 1 /\ writer = "poll"
      /\ busy = FALSE
  BY DEF LinkInit
<1>5. rxState = "IDLE" /\ sent = <<>> /\ got = <<>> /\ ~rxValid /\ ~rxdone /\ reader = "poll"
  BY DEF LinkInit
<1>6. Sending
  <2>1. done = ~busy
    BY <1>4, Zenon
  <2> QED BY <1>4, <2>1 DEF Sending
<1>7. InStep
  BY <1>4, <1>5 DEF InStep, Quiet
<1>8. Accounted
  BY <1>4, <1>5 DEF Accounted, Pending, InFlight, Unseen, OneIf
<1>9. InTime
  BY <1>5 DEF InTime
<1> QED BY <1>3, <1>6, <1>7, <1>8, <1>9 DEF LinkInv

\* Every step keeps the invariant.
LEMMA LinkInvStep ==
    ASSUME LinkInv, [LinkNext]_linkVars
    PROVE  LinkInv'
<1>0. LinkTypeOK /\ Sending /\ InStep /\ Accounted /\ InTime
  BY DEF LinkInv
<1>1. CASE LinkNext
  <2>1. LinkTypeOK'
    BY <1>0, <1>1, TypesKept
  <2>2. Sending'
    BY <1>0, <1>1, SendingKept, RxByState DEF LinkNext
  <2>3. InStep'
    BY <1>0, <1>1, InStepKept
  <2>4. InTime'
    BY <1>0, <1>1, <2>1, InTimeKept
  <2>5. Accounted'
    BY <1>0, <1>1, <2>1, AccountedKept
  <2> QED BY <2>1, <2>2, <2>3, <2>4, <2>5 DEF LinkInv
<1>2. CASE UNCHANGED linkVars
  <2>1. /\ UNCHANGED <<txClks, txdata, transmit, txo, busy, done, txCount, txBit, txShift>>
        /\ UNCHANGED <<rxMeta, rxSync, rxState, rxCount, rxBit, rxShift, received, rxValid>>
        /\ UNCHANGED <<rxdata, rxdone, writer, reader, pause, sent, got>>
    BY <1>2 DEF linkVars, sender, receiver
  <2>2. LinkTypeOK'
    BY <1>0, <2>1 DEF LinkTypeOK, Middle, Half
  <2>3. /\ Current' = Current /\ Elapsed' = Elapsed /\ RxElapsed' = RxElapsed
        /\ FrameEnd' = FrameEnd /\ HandOver' = HandOver
    BY <2>1 DEF Current, Elapsed, RxElapsed, FrameEnd, HandOver, Half
  <2>4. Sending'
    BY <1>0, <2>1, <2>3 DEF Sending
  <2>5. InStep'
    BY <1>0, <2>1, <2>3 DEF InStep, Quiet, Unseen, Receiving, Trailing, Over
  <2>6. Accounted'
    BY <1>0, <2>1, <2>3 DEF Accounted, Pending, InFlight, Unseen
  <2>7. Waited' = Waited
    BY <2>1, <2>3 DEF Waited, Unseen
  <2>8. InTime'
    BY <1>0, <2>1, <2>7 DEF InTime
  <2> QED BY <2>2, <2>4, <2>5, <2>6, <2>8 DEF LinkInv
<1> QED BY <1>1, <1>2

\* The bytes taken are a prefix of the bytes sent, for bytes of any length, any rates that
\* LinkAssumption allows, and any number of bytes.
THEOREM BytesArriveInOrder == LinkSpec => []GotIsPrefixOfSent
<1>1. LinkInit => LinkInv
  BY LinkInvInit
<1>2. LinkInv /\ [LinkNext]_linkVars => LinkInv'
  BY LinkInvStep
<1>3. LinkInv => GotIsPrefixOfSent
  <2> SUFFICES ASSUME LinkInv PROVE IsPrefix(got, sent)
    BY DEF GotIsPrefixOfSent
  <2>1. /\ Len(sent) = Len(got) + OneIf(Pending) + OneIf(InFlight)
        /\ \A k \in 1..Len(got) : got[k] = sent[k]
        /\ sent \in Seq(LinkBytes) /\ got \in Seq(LinkBytes)
    BY DEF LinkInv, Accounted, LinkTypeOK
  <2>2. Len(got) <= Len(sent)
    <3>1. OneIf(Pending) \in {0, 1} /\ OneIf(InFlight) \in {0, 1}
      BY DEF OneIf
    <3> QED BY <2>1, <3>1
  <2>3. SubSeq(got, 1, Len(got)) = SubSeq(sent, 1, Len(got))
    BY <2>1, <2>2
  <2> QED BY <2>2, <2>3 DEF IsPrefix
<1> QED BY <1>1, <1>2, <1>3, PTL DEF LinkSpec
=============================================================================
