-------------------------- MODULE MeterSessionProofs --------------------------
(***************************************************************************)
(* The ledger of a charging session, whatever the line loses, repeats,     *)
(* delays or corrupts: samples are accepted in the order they were taken,  *)
(* a loss shows, nothing unhealthy is billed, the totals are the bill, a   *)
(* grid hold lasts, and the contactor closes on a good sample only.        *)
(***************************************************************************)
EXTENDS MeterSession, FiniteSetTheorems, WellFoundedInduction, TLAPS

Attributes == {"state", "energy", "frames", "flags", "bad", "hold", "delay", "lastSeq", "pins",
               "tx", "len", "active", "escape", "rxAge", "age", "healthy"}

IsCharger(s) == s = [a \in Attributes |-> s[a]]

\* t is an object that differs from s in the attributes A at most.
Differs(t, s, A) == IsCharger(t) /\ \A a \in Attributes \ A : t[a] = s[a]

\* What the charger does when no frame is accepted and no pin is looked at:
\* the sequence, the hold and the totals stay, no cause is forgotten, and the
\* state stays unless a fault latches.
Keeps(t, s) ==
    /\ IsCharger(t)
    /\ t.lastSeq = s.lastSeq /\ t.hold = s.hold /\ t.delay = s.delay
    /\ t.energy = s.energy /\ t.frames = s.frames
    /\ t.age = s.age /\ t.healthy \in {s.healthy, FALSE}
    /\ s.flags \subseteq t.flags
    /\ t.state \in {s.state, "FAULT", "METER_TIMEOUT"}

\* The same while time may pass: s with the age it reached.
Ages(t, s) == Keeps(t, [s EXCEPT !.age = t.age])

-----------------------------------------------------------------------------
(* Sequence numbers.                                                       *)

\* Division with remainder.
LEMMA Division ==
    ASSUME NEW m \in Nat \ {0}, NEW x \in Int
    PROVE  x % m \in 0..(m - 1) /\ x = m * (x \div m) + (x % m) /\ x \div m \in Int
OBVIOUS

\* The remainder does not depend on the quotient.
LEMMA Remainder ==
    ASSUME NEW m \in Nat \ {0}, NEW q \in Int, NEW y \in 0..(m - 1)
    PROVE  (m * q + y) % m = y
OBVIOUS

\* The difference of two sequence numbers is that of the samples.
LEMMA SequenceNumbers ==
    ASSUME NEW m \in Nat \ {0}, NEW k \in Nat, NEW a \in Nat
    PROVE  ((k % m) - (a % m)) % m = (k - a) % m
<1> DEFINE d == (k % m) - (a % m)
           q == (k \div m) - (a \div m) + (d \div m)
<1>1. /\ k % m \in Int /\ a % m \in Int
      /\ k = m * (k \div m) + (k % m) /\ a = m * (a \div m) + (a % m)
      /\ k \div m \in Int /\ a \div m \in Int
  BY Division
<1>2. d \in Int
  BY <1>1
<1>3. d = m * (d \div m) + (d % m) /\ d \div m \in Int /\ d % m \in 0..(m - 1)
  BY <1>2, Division
<1>4. k - a = m * ((k \div m) - (a \div m)) + d
  BY <1>1
<1>5. k - a = m * q + (d % m) /\ q \in Int
  BY <1>1, <1>2, <1>3, <1>4
<1> HIDE DEF q, d
<1>6. (m * q + (d % m)) % m = d % m
  BY <1>3, <1>5, Remainder
<1> QED BY <1>5, <1>6 DEF d

\* A frame at most as late as the sequence rule allows for is taken for what it
\* is: a step forward is one, and a step that looks like the next sample is it.
LEMMA StepsForward ==
    ASSUME NEW k \in Nat, NEW a \in Nat, a - k <= MaxDelay,
           (k - a) % SequenceMod \in 1..(SeqHalf - 1)
    PROVE  /\ a < k
           /\ k - a \in 2..SequenceMod => (k - a) % SequenceMod # 1
<1> DEFINE d == k - a
<1>1. /\ SequenceMod \in Nat \ {0} /\ SeqHalf \in 0..SequenceMod /\ MaxDelay \in Nat
      /\ MaxDelay <= SequenceMod - SeqHalf
  BY FrameAssumption, LineAssumption
<1>2. ASSUME ~(a < k) PROVE FALSE
  <2>1. d \in Int /\ -SequenceMod <= d /\ d <= 0 /\ d >= SeqHalf - SequenceMod
    BY <1>1, <1>2
  <2>2. CASE d = 0
    BY <1>1, <2>2
  <2>3. CASE d = -SequenceMod
    <3>1. (SequenceMod * (-1) + 0) % SequenceMod = 0
      BY <1>1, Remainder
    <3> QED BY <1>1, <2>3, <3>1
  <2>4. CASE d < 0 /\ d > -SequenceMod
    <3>1. d + SequenceMod \in 0..(SequenceMod - 1) /\ SequenceMod * (-1) + (d + SequenceMod) = d
      BY <1>1, <2>1, <2>4
    <3>2. d % SequenceMod = d + SequenceMod
      BY <1>1, <3>1, Remainder
    <3> QED BY <1>1, <2>1, <3>2
  <2> QED BY <1>1, <2>1, <2>2, <2>3, <2>4
<1>3. ASSUME d \in 2..SequenceMod PROVE d % SequenceMod # 1
  <2>1. CASE d < SequenceMod
    <3>1. d % SequenceMod = d
      BY <1>1, <1>3, <2>1
    <3> QED BY <1>3, <3>1
  <2>2. CASE d = SequenceMod
    <3>1. d % SequenceMod = 0
      BY <1>1, <2>2
    <3> QED BY <3>1
  <2> QED BY <1>1, <1>3, <2>1, <2>2
<1> QED BY <1>2, <1>3

-----------------------------------------------------------------------------
(* What the handlers keep.                                                 *)

\* Two handlers one after the other.
LEMMA KeepsTwice ==
    ASSUME NEW s, NEW t, NEW u, Keeps(t, s), Keeps(u, t)
    PROVE  Keeps(u, s)
BY DEF Keeps

\* A handler that does nothing.
LEMMA KeepsNothing == ASSUME NEW s, IsCharger(s) PROVE Keeps(s, s)
BY DEF Keeps

\* A report.
LEMMA RecordFields ==
    ASSUME NEW s, IsCharger(s), NEW x
    PROVE  Differs(Record(s, x), s, {"tx"})
BY DEF Differs, IsCharger, Attributes, Record

\* Entering a fault.
LEMMA FaultKeeps ==
    ASSUME NEW s, IsCharger(s), NEW cause
    PROVE  Keeps(EnterFault(s, cause), s) /\ EnterFault(s, cause).state = "FAULT"
<1> DEFINE u == [s EXCEPT !.flags = s.flags \cup {cause}]
           v == Record(u, "FAULT")
           t == [v EXCEPT !.state = "FAULT"]
<1>1. EnterFault(s, cause) = t
  BY DEF EnterFault
<1>2. Differs(u, s, {"flags"}) /\ u.flags = s.flags \cup {cause}
  BY DEF Differs, IsCharger, Attributes
<1> HIDE DEF u
<1>3. Differs(v, u, {"tx"})
  BY <1>2, RecordFields DEF Differs
<1> HIDE DEF v
<1>4. Differs(t, v, {"state"}) /\ t.state = "FAULT"
  BY <1>3 DEF Differs, IsCharger, Attributes
<1> HIDE DEF t
<1> QED BY <1>1, <1>2, <1>3, <1>4 DEF Keeps, Differs, Attributes

\* The silence of the meter.
LEMMA TimeoutKeeps == ASSUME NEW s, IsCharger(s) PROVE Keeps(CheckTimeout(s), s)
<1> DEFINE v == Record(s, "METER_TIMEOUT")
           t == [v EXCEPT !.healthy = FALSE, !.state = "METER_TIMEOUT"]
<1>1. CheckTimeout(s) = t \/ CheckTimeout(s) = s
  BY DEF CheckTimeout
<1>2. Differs(v, s, {"tx"})
  BY RecordFields
<1> HIDE DEF v
<1>3. Differs(t, v, {"healthy", "state"}) /\ t.state = "METER_TIMEOUT" /\ t.healthy = FALSE
  BY <1>2 DEF Differs, IsCharger, Attributes
<1> HIDE DEF t
<1>4. Keeps(t, s)
  BY <1>2, <1>3 DEF Keeps, Differs, Attributes
<1> QED BY <1>1, <1>4, KeepsNothing

\* A bad frame, whether it is the first or the second.
LEMMA BadFrameKeeps == ASSUME NEW s, IsCharger(s) PROVE Keeps(BadFrame(s), s)
<1> DEFINE n == IF s.bad < BadLimit THEN s.bad + 1 ELSE BadLimit
           u == [s EXCEPT !.bad = n]
<1>1. BadFrame(s) = EnterFault(u, "CRC_LOST") \/ BadFrame(s) = u
  BY DEF BadFrame
<1>2. Keeps(u, s)
  BY DEF Keeps, IsCharger, Attributes
<1> HIDE DEF u
<1>3. Keeps(EnterFault(u, "CRC_LOST"), u)
  BY <1>2, FaultKeeps DEF Keeps
<1> QED BY <1>1, <1>2, <1>3, KeepsTwice

\* A body that stops half way.
LEMMA PartialKeeps == ASSUME NEW s, IsCharger(s) PROVE Keeps(CheckPartialTimeout(s), s)
<1>1. \/ CheckPartialTimeout(s) = s
      \/ CheckPartialTimeout(s) = BadFrame(Discard(s))
      \/ CheckPartialTimeout(s) = Discard(s)
  BY DEF CheckPartialTimeout
<1>2. Keeps(Discard(s), s)
  BY DEF Keeps, IsCharger, Attributes, Discard
<1>3. Keeps(BadFrame(Discard(s)), Discard(s))
  BY <1>2, BadFrameKeeps DEF Keeps
<1> QED BY <1>1, <1>2, <1>3, KeepsNothing, KeepsTwice

\* The attributes kept while time passes.
LEMMA AgesFields ==
    ASSUME NEW s, IsCharger(s), NEW t, Ages(t, s)
    PROVE  /\ IsCharger(t)
           /\ t.lastSeq = s.lastSeq /\ t.hold = s.hold /\ t.delay = s.delay
           /\ t.energy = s.energy /\ t.frames = s.frames
           /\ t.healthy \in {s.healthy, FALSE}
           /\ s.flags \subseteq t.flags
           /\ t.state \in {s.state, "FAULT", "METER_TIMEOUT"}
<1> DEFINE u == [s EXCEPT !.age = t.age]
<1>1. Differs(u, s, {"age"})
  BY DEF Differs, IsCharger, Attributes
<1>2. Keeps(t, u)
  BY DEF Ages
<1> HIDE DEF u
<1> QED BY <1>1, <1>2 DEF Keeps, Differs, Attributes

\* An object that keeps its age keeps it with any age.
LEMMA KeepsAges ==
    ASSUME NEW s, IsCharger(s), NEW t, Keeps(t, s)
    PROVE  Ages(t, s)
<1> DEFINE u == [s EXCEPT !.age = t.age]
<1>1. Differs(u, s, {"age"}) /\ u.age = t.age
  BY DEF Differs, IsCharger, Attributes
<1> HIDE DEF u
<1>2. Keeps(t, u)
  BY <1>1 DEF Keeps, Differs, Attributes
<1> QED BY <1>2 DEF Ages, u

\* Elapsed time, in either order of the deadlines.
LEMMA ElapseAges ==
    ASSUME NEW s, IsCharger(s), NEW n
    PROVE  Ages(Elapse(s, n), s) /\ Elapse(s, n).age = Saturate(s.age + n)
<1> DEFINE t == [s EXCEPT !.age = Saturate(s.age + n), !.rxAge = Saturate(s.rxAge + n)]
           e == Elapse(s, n)
           u == [s EXCEPT !.age = e.age]
<1>1. \/ e = CheckTimeout(CheckPartialTimeout(t))
      \/ e = CheckPartialTimeout(CheckTimeout(t))
  BY DEF Elapse
<1>2. Differs(t, s, {"age", "rxAge"}) /\ t.age = Saturate(s.age + n)
  BY DEF Differs, IsCharger, Attributes
<1> HIDE DEF t
<1>3. Keeps(CheckPartialTimeout(t), t) /\ Keeps(CheckTimeout(t), t)
  BY <1>2, PartialKeeps, TimeoutKeeps DEF Differs
<1>4. /\ Keeps(CheckTimeout(CheckPartialTimeout(t)), CheckPartialTimeout(t))
      /\ Keeps(CheckPartialTimeout(CheckTimeout(t)), CheckTimeout(t))
  BY <1>3, PartialKeeps, TimeoutKeeps DEF Keeps
<1>5. Keeps(e, t)
  BY <1>1, <1>3, <1>4, KeepsTwice
<1> HIDE DEF e
<1>6. e.age = Saturate(s.age + n)
  BY <1>2, <1>5 DEF Keeps
<1>7. Differs(u, s, {"age"}) /\ u.age = e.age
  BY DEF Differs, IsCharger, Attributes
<1> HIDE DEF u
<1>8. Keeps(e, u)
  BY <1>2, <1>5, <1>7 DEF Keeps, Differs, Attributes
<1> QED BY <1>6, <1>8 DEF Ages, u, e

\* A frame that is not accepted.
LEMMA RejectKeeps ==
    ASSUME NEW s, IsCharger(s), NEW f, ~Accepted(CheckTimeout(s), f)
    PROVE  Keeps(OnFrame(s, f), s)
<1>1. OnFrame(s, f) = BadFrame(CheckTimeout(s))
  BY DEF OnFrame
<1>2. Keeps(CheckTimeout(s), s)
  BY TimeoutKeeps
<1>3. Keeps(BadFrame(CheckTimeout(s)), CheckTimeout(s))
  BY <1>2, BadFrameKeeps DEF Keeps
<1> QED BY <1>1, <1>2, <1>3, KeepsTwice

\* The marker of the next body.
LEMMA OpenKeeps ==
    ASSUME NEW s, IsCharger(s)
    PROVE  LET t == [s EXCEPT !.len = 0, !.active = TRUE, !.escape = FALSE, !.rxAge = 0]
           IN  /\ Keeps(t, s) /\ Keeps(s, t)
               /\ t.len = 0 /\ t.active = TRUE /\ t.escape = FALSE /\ t.rxAge = 0
BY DEF Keeps, IsCharger, Attributes

\* The marker after a body whose CRC does not match, or after none.
LEMMA CorruptKeeps ==
    ASSUME NEW s, IsCharger(s)
    PROVE  LET t == RxMarker(s, Corrupt)
           IN  Keeps(t, s) /\ t.active = TRUE /\ t.escape = FALSE /\ t.rxAge = 0
<1> DEFINE u == CheckPartialTimeout(s)
           v == CloseBody(u, Corrupt)
           t == [v EXCEPT !.len = 0, !.active = TRUE, !.escape = FALSE, !.rxAge = 0]
<1>1. RxMarker(s, Corrupt) = t
  BY DEF RxMarker
<1>2. Keeps(u, s)
  BY PartialKeeps
<1> HIDE DEF u
<1>3. v = u \/ v = OnFrame(u, Corrupt) \/ v = BadFrame(u)
  BY DEF CloseBody
<1>4. ~Accepted(CheckTimeout(u), Corrupt)
  BY DEF Accepted, Corrupt
<1>5. Keeps(v, u)
  <2>1. IsCharger(u)
    BY <1>2 DEF Keeps
  <2> QED BY <1>3, <1>4, <2>1, RejectKeeps, BadFrameKeeps, KeepsNothing
<1> HIDE DEF v
<1>6. Keeps(t, v) /\ t.active = TRUE /\ t.escape = FALSE /\ t.rxAge = 0
  BY <1>5, OpenKeeps DEF Keeps
<1> HIDE DEF t
<1> QED BY <1>1, <1>2, <1>5, <1>6, KeepsTwice

-----------------------------------------------------------------------------
(* An accepted frame.                                                      *)

\* A frame f that finds or gives power is added to the totals; no other is.
Bills(t, s, f) ==
    IF t.state = "CHARGING" /\ s.state # "GRID_HOLD"
    THEN /\ t.energy = (s.energy + f.power) % EnergyMod
         /\ t.frames = IF s.frames < FrameCap THEN s.frames + 1 ELSE FrameCap
    ELSE t.energy = s.energy /\ t.frames = s.frames

\* What a frame f accepted in sequence does to an object s: the sequence moves
\* to f, a gap is flagged, power is given on a healthy frame only, and a hold
\* that starts, goes on or ends is counted.
Takes(t, s, f) ==
    /\ IsCharger(t)
    /\ t.lastSeq = f.seq /\ t.age = 0
    /\ t.healthy => ~f.over /\ ~f.sag
    /\ s.flags \subseteq t.flags
    /\ s.lastSeq # NoSequence /\ SequenceDelta(s, f) # 1 => "CRC_LOST" \in t.flags
    /\ Bills(t, s, f)
    /\ t.state = "CHARGING" /\ s.state # "GRID_HOLD" => ~f.over /\ ~f.sag
    /\ t.state = "CHARGING" /\ s.state = "GRID_HOLD" => ~f.sag /\ s.hold + 1 >= s.delay
    /\ t.state = "GRID_HOLD" =>
         IF f.sag
         THEN /\ t.hold = 0
              /\ t.delay = IF s.state = "GRID_HOLD" THEN s.delay ELSE HoldBase + f.hash
         ELSE s.state = "GRID_HOLD" /\ t.hold = s.hold + 1 /\ t.delay = s.delay

\* The sequence and the link, before the measurement is looked at.
LEMMA AcceptFields ==
    ASSUME NEW s, IsCharger(s), NEW f
    PROVE  /\ IsCharger(Accept(s, f))
           /\ Accept(s, f).state = s.state
           /\ Accept(s, f).hold = s.hold /\ Accept(s, f).delay = s.delay
           /\ Accept(s, f).energy = s.energy /\ Accept(s, f).frames = s.frames
           /\ Accept(s, f).lastSeq = f.seq /\ Accept(s, f).age = 0
           /\ Accept(s, f).healthy = (~f.over /\ ~f.sag)
           /\ s.flags \subseteq Accept(s, f).flags
           /\ s.lastSeq # NoSequence /\ SequenceDelta(s, f) # 1 =>
                "CRC_LOST" \in Accept(s, f).flags
BY DEF IsCharger, Attributes, Accept

\* The measurement of an object that has the frame's sequence number.
LEMMA MeasureTakes ==
    ASSUME NEW s, IsCharger(s), NEW f
    PROVE  LET t == Measure(s, f)
           IN  /\ IsCharger(t)
               /\ t.lastSeq = s.lastSeq /\ s.flags \subseteq t.flags
               /\ t.age = s.age /\ t.healthy \in {s.healthy, FALSE}
               /\ Bills(t, s, f)
               /\ t.state \in {"CHARGING", "GRID_HOLD"} =>
                    s.state \notin {"FAULT", "METER_TIMEOUT"}
               /\ t.state = "CHARGING" /\ s.state # "GRID_HOLD" => ~f.over /\ ~f.sag
               /\ t.state = "CHARGING" /\ s.state = "GRID_HOLD" =>
                    ~f.sag /\ s.hold + 1 >= s.delay
               /\ t.state = "GRID_HOLD" =>
                    IF f.sag
                    THEN /\ t.hold = 0
                         /\ t.delay = IF s.state = "GRID_HOLD" THEN s.delay
                                                               ELSE HoldBase + f.hash
                    ELSE s.state = "GRID_HOLD" /\ t.hold = s.hold + 1 /\ t.delay = s.delay
<1> DEFINE t == Measure(s, f)
<1>1. CASE MayMeasure(s)
  <2>1. s.state \in {"CONNECTED", "CHARGING"} /\ t = MeasureCharging(s, f)
    BY <1>1 DEF Measure, MayMeasure
  <2>2. CASE f.over
    <3>1. t = EnterFault(s, "OVERCURRENT")
      BY <2>1, <2>2 DEF MeasureCharging
    <3>2. Keeps(t, s) /\ t.state = "FAULT"
      BY <3>1, FaultKeeps
    <3> QED BY <2>1, <3>2 DEF Keeps, Bills
  <2>3. CASE ~f.over /\ f.sag
    <3>1. t = EnterHold(s, f)
      BY <2>1, <2>3 DEF MeasureCharging
    <3>2. /\ IsCharger(EnterHold(s, f)) /\ EnterHold(s, f).lastSeq = s.lastSeq
          /\ s.flags \subseteq EnterHold(s, f).flags
          /\ EnterHold(s, f).age = s.age /\ EnterHold(s, f).healthy = s.healthy
          /\ EnterHold(s, f).state = "GRID_HOLD" /\ EnterHold(s, f).hold = 0
          /\ EnterHold(s, f).delay = HoldBase + f.hash
          /\ EnterHold(s, f).energy = s.energy /\ EnterHold(s, f).frames = s.frames
      BY DEF EnterHold, IsCharger, Attributes
    <3> QED BY <2>1, <2>3, <3>1, <3>2 DEF Bills
  <2>4. CASE ~f.over /\ ~f.sag
    <3>1. t = Bill(s, f)
      BY <2>1, <2>4 DEF MeasureCharging
    <3>2. /\ IsCharger(Bill(s, f)) /\ Bill(s, f).lastSeq = s.lastSeq
          /\ Bill(s, f).age = s.age /\ Bill(s, f).healthy = s.healthy
          /\ s.flags \subseteq Bill(s, f).flags /\ Bill(s, f).state = "CHARGING"
          /\ Bill(s, f).energy = (s.energy + f.power) % EnergyMod
          /\ Bill(s, f).frames = IF s.frames < FrameCap THEN s.frames + 1 ELSE FrameCap
      BY DEF Bill, IsCharger, Attributes
    <3> QED BY <2>1, <2>4, <3>1, <3>2 DEF Bills
  <2> QED BY <2>2, <2>3, <2>4
<1>2. CASE s.state = "GRID_HOLD"
  <2>1. t = MeasureHold(s, f)
    BY <1>2 DEF Measure, MayMeasure
  <2>2. CASE f.sag
    <3>1. t = [s EXCEPT !.hold = 0]
      BY <2>1, <2>2 DEF MeasureHold
    <3> QED BY <1>2, <2>2, <3>1 DEF IsCharger, Attributes, Bills
  <2>3. CASE ~f.sag
    <3>1. t = [s EXCEPT !.hold = s.hold + 1,
                        !.state = IF s.hold + 1 >= s.delay THEN "CHARGING" ELSE s.state]
      BY <2>1, <2>3 DEF MeasureHold
    <3>2. /\ IsCharger(t) /\ t.lastSeq = s.lastSeq /\ t.flags = s.flags
          /\ t.age = s.age /\ t.healthy = s.healthy
          /\ t.hold = s.hold + 1 /\ t.delay = s.delay
          /\ t.energy = s.energy /\ t.frames = s.frames
          /\ t.state = IF s.hold + 1 >= s.delay THEN "CHARGING" ELSE "GRID_HOLD"
      BY <1>2, <3>1 DEF IsCharger, Attributes
    <3> QED BY <1>2, <2>3, <3>2 DEF Bills
  <2> QED BY <2>2, <2>3
<1>3. CASE ~MayMeasure(s) /\ s.state # "GRID_HOLD"
  <2>1. t = s /\ s.state # "CHARGING"
    BY <1>3 DEF Measure, MayMeasure
  <2> QED BY <1>3, <2>1 DEF Bills
<1> QED BY <1>1, <1>2, <1>3

\* The whole frame, from its first marker to its last.
LEMMA FrameTakesOrKeeps ==
    ASSUME NEW s, IsCharger(s), NEW f
    PROVE  LET took == Accepted(CheckTimeout(RxMarker(s, Corrupt)), f)
           IN  /\ took => /\ Takes(RxFrame(s, f), s, f)
                          /\ s.lastSeq # NoSequence =>
                               SequenceDelta(s, f) > 0 /\ SequenceDelta(s, f) < SeqHalf
               /\ ~took => Keeps(RxFrame(s, f), s)
<1> DEFINE m == RxMarker(s, Corrupt)
           u == [m EXCEPT !.len = BodyLen]
           v == CheckTimeout(u)
           w == OnFrame(u, f)
           t == [w EXCEPT !.len = 0, !.active = TRUE, !.escape = FALSE, !.rxAge = 0]
           took == Accepted(CheckTimeout(m), f)
<1>1. Keeps(m, s) /\ m.active = TRUE /\ m.escape = FALSE /\ m.rxAge = 0
  BY CorruptKeeps
<1>2. Keeps(u, m) /\ u.active = TRUE /\ u.escape = FALSE /\ u.rxAge = 0 /\ u.len = BodyLen
  <2> HIDE DEF m
  <2> QED BY <1>1 DEF Keeps, IsCharger, Attributes
<1>3. Keeps(v, u) /\ Keeps(CheckTimeout(m), m)
  BY <1>1, <1>2, TimeoutKeeps DEF Keeps
<1>4. took <=> Accepted(v, f)
  <2>1. v.lastSeq = CheckTimeout(m).lastSeq
    BY <1>2, <1>3 DEF Keeps
  <2> QED BY <2>1 DEF Accepted, SequenceDelta
<1>5. RxFrame(s, f) = t
  <2>1. RxFrame(s, f) = RxMarker(u, f)
    BY DEF RxFrame
  <2> HIDE DEF m, u
  <2>2. CheckPartialTimeout(u) = u
    BY <1>2, TimerAssumption DEF CheckPartialTimeout
  <2>3. CloseBody(u, f) = w
    BY <1>2, FrameAssumption DEF CloseBody, Partial
  <2> QED BY <2>1, <2>2, <2>3 DEF RxMarker
<1>6. Keeps(v, s)
  BY <1>1, <1>2, <1>3, KeepsTwice
<1>7. ASSUME took PROVE /\ Takes(t, s, f)
                        /\ s.lastSeq # NoSequence =>
                             SequenceDelta(s, f) > 0 /\ SequenceDelta(s, f) < SeqHalf
  <2> HIDE DEF m
  <2> DEFINE a == Accept(v, f)
  <2>1. w = Measure(a, f)
    BY <1>4, <1>7 DEF OnFrame
  <2> HIDE DEF u, v, w
  <2>2. /\ IsCharger(a) /\ a.state = v.state /\ a.hold = v.hold /\ a.delay = v.delay
        /\ a.lastSeq = f.seq /\ v.flags \subseteq a.flags
        /\ a.age = 0 /\ a.healthy = (~f.over /\ ~f.sag)
        /\ a.energy = v.energy /\ a.frames = v.frames
        /\ v.lastSeq # NoSequence /\ SequenceDelta(v, f) # 1 => "CRC_LOST" \in a.flags
    BY <1>6, AcceptFields DEF Keeps
  <2> HIDE DEF a
  <2>3. /\ IsCharger(w) /\ w.lastSeq = a.lastSeq /\ a.flags \subseteq w.flags
        /\ w.age = a.age /\ w.healthy \in {a.healthy, FALSE}
        /\ Bills(w, a, f)
        /\ w.state \in {"CHARGING", "GRID_HOLD"} => a.state \notin {"FAULT", "METER_TIMEOUT"}
        /\ w.state = "CHARGING" /\ a.state # "GRID_HOLD" => ~f.over /\ ~f.sag
        /\ w.state = "CHARGING" /\ a.state = "GRID_HOLD" => ~f.sag /\ a.hold + 1 >= a.delay
        /\ w.state = "GRID_HOLD" =>
             IF f.sag
             THEN /\ w.hold = 0
                  /\ w.delay = IF a.state = "GRID_HOLD" THEN a.delay ELSE HoldBase + f.hash
             ELSE a.state = "GRID_HOLD" /\ w.hold = a.hold + 1 /\ w.delay = a.delay
    BY <2>1, <2>2, MeasureTakes
  <2>4. /\ IsCharger(t) /\ t.lastSeq = w.lastSeq /\ t.flags = w.flags
        /\ t.state = w.state /\ t.hold = w.hold /\ t.delay = w.delay
        /\ t.age = w.age /\ t.healthy = w.healthy
        /\ t.energy = w.energy /\ t.frames = w.frames
    BY <2>3 DEF IsCharger, Attributes
  <2> HIDE DEF t
  <2>5. /\ v.lastSeq = s.lastSeq /\ v.hold = s.hold /\ v.delay = s.delay
        /\ v.energy = s.energy /\ v.frames = s.frames
        /\ s.flags \subseteq v.flags /\ v.state \in {s.state, "FAULT", "METER_TIMEOUT"}
    BY <1>6 DEF Keeps
  <2>6. SequenceDelta(v, f) = SequenceDelta(s, f)
    BY <2>5 DEF SequenceDelta
  <2>7. Bills(t, s, f)
    BY <2>2, <2>3, <2>4, <2>5 DEF Bills
  <2> QED BY <1>4, <1>7, <2>2, <2>3, <2>4, <2>5, <2>6, <2>7 DEF Takes, Accepted
<1>8. ASSUME ~took PROVE Keeps(t, s)
  <2> HIDE DEF m
  <2>1. Keeps(w, u)
    BY <1>2, <1>4, <1>8, RejectKeeps DEF Keeps
  <2> HIDE DEF u, w
  <2>2. Keeps(t, w)
    BY <2>1, OpenKeeps DEF Keeps
  <2> HIDE DEF t
  <2> QED BY <1>1, <1>2, <2>1, <2>2, KeepsTwice
<1> QED BY <1>5, <1>7, <1>8

-----------------------------------------------------------------------------
(* New inputs.                                                             *)

\* What the pilot and safety rules do to an object s short of starting a
\* session: the sequence, the hold and the totals stay, no cause is forgotten,
\* no hold is entered, none ends in charging, and charging begins only on the
\* health remembered, before the timeout.
Moves(t, s) ==
    /\ IsCharger(t)
    /\ t.lastSeq = s.lastSeq /\ t.hold = s.hold /\ t.delay = s.delay
    /\ t.energy = s.energy /\ t.frames = s.frames
    /\ t.age = s.age /\ t.healthy \in {s.healthy, FALSE}
    /\ s.flags \subseteq t.flags
    /\ t.state = "GRID_HOLD" => s.state = "GRID_HOLD"
    /\ t.state = "CHARGING" => s.state \notin {"GRID_HOLD", "IDLE"}
    /\ t.state = "CHARGING" /\ s.state # "CHARGING" => s.healthy /\ s.age < MeterTimeout
    /\ t.state = "CONNECTED" => s.state # "IDLE"

\* One pass of the rules starts a session, or moves; a second changes nothing.
LEMMA PassMoves ==
    ASSUME NEW s, IsCharger(s), s.pins.cp \in 0..7, s.pins.safety \in BOOLEAN
    PROVE  LET t == StepPins(s)
           IN  /\ \/ s.state = "IDLE" /\ t = StartSession(s)
                  \/ Moves(t, s)
               /\ StepPins(t) = t
<1> DEFINE t == StepPins(s)
<1> SUFFICES /\ \/ s.state = "IDLE" /\ t = StartSession(s)
                \/ Moves(t, s)
             /\ StepPins(t) = t
  OBVIOUS
<1>1. CASE s.state \in Latched
  <2>1. CASE Released(s)
    <3>1. t = [s EXCEPT !.state = "IDLE"]
      BY <1>1, <2>1 DEF StepPins, Latched, Session, Released, MayCharge
    <3>2. IsCharger(t) /\ t.state = "IDLE" /\ Differs(t, s, {"state"})
      BY <3>1 DEF Differs, IsCharger, Attributes
    <3>3. StepPins(t) = t
      <4>1. t.pins.cp = 0 /\ ~t.pins.safety
        BY <2>1, <3>2 DEF Differs, Attributes, Released
      <4> HIDE DEF t
      <4> QED BY <3>2, <4>1 DEF StepPins, Latched, Session, Released, MayCharge
    <3> HIDE DEF t
    <3> QED BY <3>2, <3>3 DEF Moves, Differs, Attributes
  <2>2. CASE ~Released(s)
    <3>1. t = s
      BY <1>1, <2>2 DEF StepPins, Latched, Session, Released, MayCharge
    <3>2. Moves(t, s)
      BY <1>1, <3>1 DEF Moves, Latched
    <3> QED BY <3>1, <3>2
  <2> QED BY <2>1, <2>2
<1>2. ASSUME s.state \notin Latched, NEW cause, t = EnterFault(s, cause),
             s.pins.safety \/ s.pins.cp >= 4
      PROVE  Moves(t, s) /\ StepPins(t) = t
  <2>1. Keeps(t, s) /\ t.state = "FAULT"
    BY <1>2, FaultKeeps
  <2>2. t.pins = s.pins
    <3> DEFINE u == [s EXCEPT !.flags = s.flags \cup {cause}]
               v == Record(u, "FAULT")
    <3>1. Differs(u, s, {"flags"})
      BY DEF Differs, IsCharger, Attributes
    <3>2. EnterFault(s, cause) = [v EXCEPT !.state = "FAULT"]
      BY DEF EnterFault
    <3> HIDE DEF u
    <3>3. Differs(v, u, {"tx"})
      BY <3>1, RecordFields DEF Differs
    <3> HIDE DEF v
    <3>4. v.pins = s.pins
      BY <3>1, <3>3 DEF Differs, Attributes
    <3>5. [v EXCEPT !.state = "FAULT"].pins = v.pins
      BY <3>3 DEF Differs, IsCharger, Attributes
    <3> QED BY <1>2, <3>2, <3>4, <3>5
  <2> HIDE DEF t
  <2>3. ~Released(t)
    BY <1>2, <2>2 DEF Released
  <2> QED BY <1>2, <2>1, <2>3 DEF Keeps, Moves, StepPins, Latched, Session
<1>3. CASE s.state \notin Latched /\ s.pins.safety
  <2>1. t = EnterFault(s, "ESTOP")
    BY <1>3 DEF StepPins, Latched, Session, Released, MayCharge
  <2> QED BY <1>2, <1>3, <2>1
<1>4. CASE s.state \notin Latched /\ ~s.pins.safety /\ s.pins.cp >= 4
  <2>1. t = EnterFault(s, "CP_ERROR")
    BY <1>4 DEF StepPins, Latched, Session, Released, MayCharge
  <2> QED BY <1>2, <1>4, <2>1
<1>5. CASE s.state = "IDLE" /\ ~s.pins.safety /\ s.pins.cp \in 1..3
  <2>1. t = StartSession(s)
    BY <1>5 DEF StepPins, Latched, Session, Released, MayCharge
  <2>2. t.state = "CONNECTED" /\ t.healthy = FALSE /\ t.pins = s.pins
    BY <2>1 DEF StartSession, IsCharger, Attributes
  <2>3. StepPins(t) = t
    <3> HIDE DEF t
    <3> QED BY <1>5, <2>2 DEF StepPins, Latched, Session, Released, MayCharge
  <2> QED BY <1>5, <2>1, <2>3
<1>6. CASE s.state \in Session /\ ~s.pins.safety /\ s.pins.cp = 0
  <2>1. t = Unplug(s)
    BY <1>6 DEF StepPins, Latched, Session, Released, MayCharge
  <2> DEFINE v == Record(s, "IDLE")
  <2>2. Differs(v, s, {"tx"}) /\ t = [v EXCEPT !.state = "IDLE"]
    BY <2>1, RecordFields DEF Unplug
  <2> HIDE DEF v
  <2>3. Differs(t, s, {"tx", "state"}) /\ t.state = "IDLE"
    BY <2>2 DEF Differs, IsCharger, Attributes
  <2> HIDE DEF t
  <2>4. StepPins(t) = t
    BY <1>6, <2>3 DEF StepPins, Latched, Session, Released, Differs, Attributes
  <2> QED BY <2>3, <2>4 DEF Moves, Differs, Attributes
<1>7. CASE s.state = "CONNECTED" /\ ~s.pins.safety /\ MayCharge(s)
  <2>1. t = [s EXCEPT !.state = "CHARGING"]
    BY <1>7 DEF StepPins, Latched, Session, Released, MayCharge
  <2>2. Differs(t, s, {"state"}) /\ t.state = "CHARGING"
    BY <2>1 DEF Differs, IsCharger, Attributes
  <2> HIDE DEF t
  <2>3. StepPins(t) = t
    BY <1>7, <2>2 DEF StepPins, Latched, Session, Released, Differs, Attributes, MayCharge
  <2> QED BY <1>7, <2>2, <2>3 DEF Moves, Differs, Attributes, MayCharge
<1>8. CASE s.state \in {"CHARGING", "GRID_HOLD"} /\ ~s.pins.safety /\ s.pins.cp \in {1, 3}
  <2>1. t = [s EXCEPT !.state = "CONNECTED"]
    BY <1>8 DEF StepPins, Latched, Session, Released, MayCharge
  <2>2. Differs(t, s, {"state"}) /\ t.state = "CONNECTED"
    BY <2>1 DEF Differs, IsCharger, Attributes
  <2> HIDE DEF t
  <2>3. StepPins(t) = t
    BY <1>8, <2>2 DEF StepPins, Latched, Session, Released, Differs, Attributes, MayCharge
  <2> QED BY <1>8, <2>2, <2>3 DEF Moves, Differs, Attributes
<1>9. CASE /\ s.state \notin Latched /\ ~s.pins.safety /\ ~(s.pins.cp >= 4)
           /\ ~(s.state = "IDLE" /\ s.pins.cp \in 1..3)
           /\ ~(s.state \in Session /\ s.pins.cp = 0)
           /\ ~(s.state = "CONNECTED" /\ MayCharge(s))
           /\ ~(s.state \in {"CHARGING", "GRID_HOLD"} /\ s.pins.cp \in {1, 3})
  <2>1. t = s
    BY <1>9 DEF StepPins, Latched, Session, Released, MayCharge
  <2>2. Moves(t, s)
    BY <2>1 DEF Moves
  <2> QED BY <2>1, <2>2
<1> QED
  <2> HIDE DEF t
  <2> QED BY <1>1, <1>3, <1>4, <1>5, <1>6, <1>7, <1>8, <1>9

\* All of set_inputs: it starts a session exactly when it leaves IDLE for
\* CONNECTED.
LEMMA InputsMove ==
    ASSUME NEW s, IsCharger(s), NEW pins \in Pins
    PROVE  LET t == ApplyInputs(s, pins)
           IN  \/ /\ s.state = "IDLE" /\ t.state = "CONNECTED"
                  /\ IsCharger(t) /\ t.lastSeq = NoSequence
                  /\ t.energy = 0 /\ t.frames = 0
                  /\ t.age = 0 /\ t.healthy = FALSE
               \/ Moves(t, s)
<1> DEFINE u == [s EXCEPT !.pins = pins]
           v == StepPins(u)
           t == CheckTimeout(v)
<1>1. /\ Keeps(u, s) /\ u.state = s.state
      /\ u.pins.cp \in 0..7 /\ u.pins.safety \in BOOLEAN
  BY FrameAssumption DEF Keeps, IsCharger, Attributes, Pins
<1>2. ApplyInputs(s, pins) = t
  <2> HIDE DEF u
  <2>1. StepPins(v) = v
    BY <1>1, PassMoves DEF Keeps
  <2> QED BY <2>1 DEF ApplyInputs, u
<1> HIDE DEF u
<1>3. CASE u.state = "IDLE" /\ v = StartSession(u)
  <2>1. /\ IsCharger(v) /\ v.state = "CONNECTED" /\ v.lastSeq = NoSequence
        /\ v.energy = 0 /\ v.frames = 0 /\ v.age = 0 /\ v.healthy = FALSE
    BY <1>1, <1>3 DEF Keeps, IsCharger, Attributes, StartSession
  <2> HIDE DEF v
  <2>2. t = v
    BY <2>1, TimerAssumption DEF CheckTimeout, Expired
  <2> QED BY <1>1, <1>2, <1>3, <2>1, <2>2
<1>4. CASE Moves(v, u)
  <2> HIDE DEF v
  <2>1. Keeps(t, v)
    BY <1>4, TimeoutKeeps DEF Moves
  <2> HIDE DEF t
  <2>2. Moves(t, s)
    BY <1>1, <1>4, <2>1 DEF Moves, Keeps
  <2> QED BY <1>2, <2>2
<1> QED BY <1>1, <1>3, <1>4, PassMoves DEF Keeps

-----------------------------------------------------------------------------
(* The sum of a function.  SumFunction takes the values in an order of its *)
(* own; what is needed of it is that one value more is added to the sum.   *)
(* The proofs are by induction on the size of the domain.                  *)

\* A set of numbers that holds 0, and with each number the next, holds them all.
LEMMA Induction ==
    ASSUME NEW S, 0 \in S, \A n \in Nat : n \in S => n + 1 \in S
    PROVE  Nat \subseteq S
<1> DEFINE R == OpToRel(<, Nat)
           T == Nat \ S
<1>1. SUFFICES ASSUME T # {} PROVE FALSE
  OBVIOUS
<1>2. \A x, y \in Nat : x < y => <<x, y>> \in R
  BY DEF OpToRel
<1>3. IsWellFoundedOn(R, Nat)
  BY NatLessThanWellFounded, Zenon
<1> HIDE DEF R
<1>4. PICK n \in T : \A m \in T : <<m, n>> \notin R
  BY <1>1, <1>3, WFMin
<1>5. n - 1 \in Nat /\ n - 1 < n /\ (n - 1) + 1 = n
  OBVIOUS
<1>6. n - 1 \in S
  BY <1>2, <1>4, <1>5
<1> QED BY <1>5, <1>6

Some(s) == CHOOSE i \in s : TRUE

\* The size of a subset.
LEMMA SubsetSize ==
    ASSUME NEW D, IsFiniteSet(D)
    PROVE  /\ Cardinality(D) \in Nat
           /\ \A s \in SUBSET D : /\ Cardinality(s) \in Nat /\ Cardinality(s) <= Cardinality(D)
                                  /\ Cardinality(s) = 0 => s = {}
<1> SUFFICES ASSUME NEW s \in SUBSET D
             PROVE  /\ Cardinality(s) \in Nat /\ Cardinality(s) <= Cardinality(D)
                    /\ Cardinality(s) = 0 => s = {}
  BY FS_CardinalityType
<1>1. IsFiniteSet(s) /\ Cardinality(s) <= Cardinality(D)
  BY FS_Subset
<1> QED BY <1>1, FS_CardinalityType, FS_EmptySet

\* The size of a subset less one element.
LEMMA SizeWithout ==
    ASSUME NEW D, IsFiniteSet(D), NEW s \in SUBSET D, NEW x \in s
    PROVE  Cardinality(s \ {x}) = Cardinality(s) - 1
<1>1. IsFiniteSet(s)
  BY FS_Subset
<1> QED BY <1>1, FS_RemoveElement

\* The element taken first is an element.
LEMMA SomeOf == ASSUME NEW s, s # {} PROVE Some(s) \in s
BY DEF Some

\* The sum over s, from the sums g over smaller sets.
SumStep(fun, g, s) == IF s = {} THEN 0 ELSE fun[Some(s)] + g[s \ {Some(s)}]

Sums(fun) == CHOOSE g : g = [s \in SUBSET DOMAIN fun |-> SumStep(fun, g, s)]

\* SumFunction is that recursion.
LEMMA SumIsSums ==
    ASSUME NEW fun
    PROVE  SumFunction(fun) = Sums(fun)[DOMAIN fun]
BY DEF SumFunction, SumFunctionOnSet, FoldFunctionOnSet, MapThenFoldSet, Sums, SumStep, Some

\* The recursion over the subsets of a finite domain has a solution.
LEMMA SumsExist ==
    ASSUME NEW fun, IsFiniteSet(DOMAIN fun)
    PROVE  Sums(fun) = [s \in SUBSET DOMAIN fun |-> SumStep(fun, Sums(fun), s)]
<1> DEFINE D == DOMAIN fun
           Upto(n) == {s \in SUBSET D : Cardinality(s) <= n}
           S == {n \in Nat : \E g : g = [s \in Upto(n) |-> SumStep(fun, g, s)]}
<1>1. /\ Cardinality(D) \in Nat
      /\ \A s \in SUBSET D : /\ Cardinality(s) \in Nat /\ Cardinality(s) <= Cardinality(D)
                             /\ Cardinality(s) = 0 => s = {}
  BY SubsetSize
<1>2. 0 \in S
  <2> DEFINE g == [s \in Upto(0) |-> 0]
  <2>1. g = [s \in Upto(0) |-> SumStep(fun, g, s)]
    <3>1. \A s \in Upto(0) : s = {}
      <4> TAKE s \in Upto(0)
      <4>1. s \in SUBSET D /\ Cardinality(s) <= 0
        OBVIOUS
      <4>2. Cardinality(s) = 0
        BY <1>1, <4>1
      <4> QED BY <1>1, <4>1, <4>2
    <3> QED BY <3>1 DEF SumStep
  <2> QED BY <2>1
<1>3. ASSUME NEW n \in Nat, n \in S PROVE n + 1 \in S
  <2>1. PICK g : g = [s \in Upto(n) |-> SumStep(fun, g, s)]
    BY <1>3
  <2> DEFINE h == [s \in Upto(n + 1) |-> SumStep(fun, g, s)]
  <2>2. \A s \in Upto(n) : s \in Upto(n + 1) /\ h[s] = g[s]
    <3> TAKE s \in Upto(n)
    <3>1. Cardinality(s) \in Nat /\ Cardinality(s) <= n /\ s \in SUBSET D
      BY <1>1
    <3>2. s \in Upto(n + 1)
      BY <3>1
    <3>3. g[s] = SumStep(fun, g, s) /\ h[s] = SumStep(fun, g, s)
      BY <2>1, <3>2
    <3> QED BY <3>2, <3>3
  <2>3. \A s \in Upto(n + 1) : SumStep(fun, g, s) = SumStep(fun, h, s)
    <3> TAKE s \in Upto(n + 1)
    <3>1. CASE s = {}
      BY <3>1 DEF SumStep
    <3>2. CASE s # {}
      <4>1. s \in SUBSET D /\ Cardinality(s) <= n + 1 /\ Cardinality(s) \in Nat
        BY <1>1
      <4>2. s \ {Some(s)} \in SUBSET D /\ Cardinality(s \ {Some(s)}) = Cardinality(s) - 1
        BY <3>2, <4>1, SomeOf, SizeWithout
      <4>3. s \ {Some(s)} \in Upto(n)
        BY <4>1, <4>2
      <4> HIDE DEF h
      <4> QED BY <2>2, <3>2, <4>3 DEF SumStep
    <3> QED BY <3>1, <3>2
  <2>4. h = [s \in Upto(n + 1) |-> SumStep(fun, h, s)]
    BY <2>3
  <2> HIDE DEF h
  <2>5. \E f : f = [s \in Upto(n + 1) |-> SumStep(fun, f, s)]
    BY <2>4
  <2> QED BY <2>5
<1>4. Cardinality(D) \in S
  <2> HIDE DEF S
  <2> QED BY <1>1, <1>2, <1>3, Induction
<1>5. Upto(Cardinality(D)) = SUBSET D
  BY <1>1
<1>6. \E g : g = [s \in SUBSET D |-> SumStep(fun, g, s)]
  BY <1>4, <1>5
<1> QED BY <1>6 DEF Sums

\* Any element may be taken first.
LEMMA SumOfRest ==
    ASSUME NEW D, IsFiniteSet(D), NEW fun \in [D -> Nat], NEW s \in SUBSET D
    PROVE  /\ Sums(fun)[s] \in Nat
           /\ \A x \in s : Sums(fun)[s] = fun[x] + Sums(fun)[s \ {x}]
<1> DEFINE g == Sums(fun)
           Good(t) == g[t] \in Nat /\ \A x \in t : g[t] = fun[x] + g[t \ {x}]
           S == {n \in Nat : \A t \in SUBSET D : Cardinality(t) <= n => Good(t)}
<1>1. \A t \in SUBSET D : Cardinality(t) \in Nat /\ (Cardinality(t) = 0 => t = {})
  BY SubsetSize
<1>2. \A t \in SUBSET D : g[t] = SumStep(fun, g, t)
  <2>1. DOMAIN fun = D
    OBVIOUS
  <2> DEFINE h == [t \in SUBSET D |-> SumStep(fun, g, t)]
  <2>2. g = h
    BY <2>1, SumsExist
  <2>3. \A t \in SUBSET D : h[t] = SumStep(fun, g, t)
    OBVIOUS
  <2> HIDE DEF g, h
  <2> QED BY <2>2, <2>3
<1> HIDE DEF g
<1>3. g[{}] = 0
  BY <1>2 DEF SumStep
<1>4. 0 \in S
  <2>1. ASSUME NEW t \in SUBSET D, Cardinality(t) <= 0 PROVE t = {}
    BY <1>1, <2>1
  <2>2. Good({})
    BY <1>3
  <2> HIDE DEF Good
  <2> QED BY <2>1, <2>2
<1>5. ASSUME NEW n \in Nat, n \in S PROVE n + 1 \in S
  <2> SUFFICES ASSUME NEW t \in SUBSET D, Cardinality(t) <= n + 1, t # {} PROVE Good(t)
    <3>1. Good({})
      BY <1>3
    <3> HIDE DEF Good
    <3> QED BY <3>1
  <2> DEFINE d == Some(t)
  <2>1. d \in t
    BY DEF Some
  <2>2. g[t] = fun[d] + g[t \ {d}]
    BY <1>2 DEF SumStep
  <2> HIDE DEF d
  <2>3. ASSUME NEW x \in t
        PROVE  t \ {x} \in SUBSET D /\ Cardinality(t \ {x}) <= n /\ fun[x] \in Nat
    <3>1. Cardinality(t \ {x}) = Cardinality(t) - 1 /\ Cardinality(t) \in Nat
      BY <1>1, SizeWithout
    <3> QED BY <3>1
  <2>4. \A x \in t : Good(t \ {x})
    BY <1>5, <2>3
  <2>5. g[t] \in Nat
    <3>1. fun[d] \in Nat
      BY <2>1, <2>3
    <3>2. g[t \ {d}] \in Nat
      BY <2>1, <2>4
    <3> QED BY <2>2, <3>1, <3>2
  <2>6. ASSUME NEW x \in t, x # d PROVE g[t] = fun[x] + g[t \ {x}]
    <3>1. g[t \ {d}] = fun[x] + g[(t \ {d}) \ {x}]
      BY <2>1, <2>4, <2>6
    <3>2. g[t \ {x}] = fun[d] + g[(t \ {x}) \ {d}]
      BY <2>1, <2>4, <2>6
    <3>3. (t \ {d}) \ {x} = (t \ {x}) \ {d}
      OBVIOUS
    <3>4. g[(t \ {x}) \ {d}] \in Nat
      <4> DEFINE u == t \ {x}
      <4>1. u \in SUBSET D /\ Cardinality(u) <= n /\ d \in u
        BY <2>1, <2>3, <2>6
      <4>2. u \ {d} \in SUBSET D /\ Cardinality(u \ {d}) <= n
        <5>1. Cardinality(u \ {d}) = Cardinality(u) - 1 /\ Cardinality(u) \in Nat
          BY <1>1, <4>1, SizeWithout
        <5> QED BY <4>1, <5>1
      <4> HIDE DEF u
      <4>3. Good(u \ {d})
        BY <1>5, <4>2
      <4> QED BY <4>3 DEF u
    <3>5. fun[d] \in Nat /\ fun[x] \in Nat
      BY <2>1, <2>3
    <3> DEFINE a == fun[d]
               b == fun[x]
               r == g[(t \ {x}) \ {d}]
    <3>6. g[t] = a + (b + r) /\ g[t \ {x}] = a + r
      BY <2>2, <3>1, <3>2, <3>3, Zenon
    <3>7. a \in Nat /\ b \in Nat /\ r \in Nat
      BY <3>4, <3>5
    <3> HIDE DEF a, b, r
    <3>8. g[t] = b + g[t \ {x}]
      BY <3>6, <3>7
    <3> QED BY <3>8 DEF b
  <2> QED BY <2>2, <2>5, <2>6
<1>6. Cardinality(s) \in S
  <2> HIDE DEF S
  <2> QED BY <1>1, <1>4, <1>5, Induction
<1> QED BY <1>1, <1>6 DEF g

\* The sum over a set does not depend on values elsewhere.
LEMMA SumsAgree ==
    ASSUME NEW D, IsFiniteSet(D), NEW fun, NEW more, IsFiniteSet(DOMAIN more),
           D = DOMAIN fun, D \subseteq DOMAIN more, \A i \in D : more[i] = fun[i]
    PROVE  Sums(more)[D] = Sums(fun)[D]
<1> DEFINE g == Sums(fun)
           h == Sums(more)
           S == {n \in Nat : \A t \in SUBSET D : Cardinality(t) <= n => h[t] = g[t]}
<1>1. /\ Cardinality(D) \in Nat
      /\ \A t \in SUBSET D : Cardinality(t) \in Nat /\ (Cardinality(t) = 0 => t = {})
  BY SubsetSize
<1>2. \A t \in SUBSET D : g[t] = SumStep(fun, g, t) /\ h[t] = SumStep(more, h, t)
  <2> DEFINE gg == [t \in SUBSET DOMAIN fun |-> SumStep(fun, g, t)]
             hh == [t \in SUBSET DOMAIN more |-> SumStep(more, h, t)]
  <2>1. g = gg /\ h = hh
    BY SumsExist
  <2>2. \A t \in SUBSET D : gg[t] = SumStep(fun, g, t) /\ hh[t] = SumStep(more, h, t)
    OBVIOUS
  <2> HIDE DEF g, h, gg, hh
  <2> QED BY <2>1, <2>2
<1> HIDE DEF g, h
<1>3. g[{}] = h[{}]
  BY <1>2 DEF SumStep
<1>4. 0 \in S
  <2>1. ASSUME NEW t \in SUBSET D, Cardinality(t) <= 0 PROVE t = {}
    BY <1>1, <2>1
  <2> QED BY <1>3, <2>1
<1>5. ASSUME NEW n \in Nat, n \in S PROVE n + 1 \in S
  <2> SUFFICES ASSUME NEW t \in SUBSET D, Cardinality(t) <= n + 1, t # {} PROVE h[t] = g[t]
    <3>1. n + 1 \in Nat
      OBVIOUS
    <3> QED BY <1>3, <3>1
  <2>1. Some(t) \in t /\ Cardinality(t \ {Some(t)}) = Cardinality(t) - 1 /\ Cardinality(t) \in Nat
    BY <1>1, SomeOf, SizeWithout
  <2>2. h[t \ {Some(t)}] = g[t \ {Some(t)}] /\ more[Some(t)] = fun[Some(t)]
    BY <1>5, <2>1
  <2> QED BY <1>2, <2>2 DEF SumStep
<1>6. Cardinality(D) \in S
  <2> HIDE DEF S
  <2> QED BY <1>1, <1>4, <1>5, Induction
<1> QED BY <1>6 DEF g, h

\* One more value is added to the sum.
LEMMA SumOfMore ==
    ASSUME NEW D, IsFiniteSet(D), NEW k, k \notin D, NEW fun \in [D -> Nat],
           NEW more \in [D \cup {k} -> Nat], \A i \in D : more[i] = fun[i]
    PROVE  /\ SumFunction(fun) \in Nat
           /\ SumFunction(more) = SumFunction(fun) + more[k]
<1>1. IsFiniteSet(D \cup {k})
  BY FS_AddElement
<1>2. DOMAIN fun = D /\ DOMAIN more = D \cup {k} /\ (D \cup {k}) \ {k} = D
  OBVIOUS
<1>3. Sums(more)[D \cup {k}] = more[k] + Sums(more)[D]
  BY <1>1, <1>2, SumOfRest
<1>4. Sums(more)[D] = Sums(fun)[D]
  BY <1>1, <1>2, SumsAgree
<1>5. Sums(fun)[D] \in Nat
  BY SumOfRest
<1>6. SumFunction(fun) = Sums(fun)[D] /\ SumFunction(more) = Sums(more)[D \cup {k}]
  BY <1>2, SumIsSums
<1>7. more[k] \in Nat
  OBVIOUS
<1> QED BY <1>3, <1>4, <1>5, <1>6, <1>7

\* The sum of nothing.
LEMMA SumOfNone == ASSUME NEW fun, DOMAIN fun = {} PROVE SumFunction(fun) = 0
<1>1. IsFiniteSet(DOMAIN fun)
  BY FS_EmptySet
<1>2. Sums(fun)[{}] = SumStep(fun, Sums(fun), {})
  BY <1>1, SumsExist
<1> QED BY <1>2, SumIsSums DEF SumStep

-----------------------------------------------------------------------------
(* The ledger.                                                             *)

Indexes == 1..Len(samples)

LastSequence == IF accepted = <<>> THEN NoSequence
                                   ELSE accepted[Len(accepted)] % SequenceMod

\* The sample accepted last in this session.
LastSample == samples[accepted[Len(accepted)]]

\* The health remembered is that of a sample of this session.
HealthIsOfTheLast == c.healthy => accepted # <<>> /\ ~LastSample.sag /\ ~LastSample.over

\* The ledger is about samples that exist, and the charger knows of it the last
\* sequence number, health and age, the count of a hold that is on, and every gap.
SessionInv ==
    /\ IsCharger(c)
    /\ samples \in Seq(Measurements)
    /\ accepted \in Seq(Indexes) /\ billed \in Seq(Indexes)
    /\ streak \in Nat
    /\ c.lastSeq = LastSequence
    /\ c.state = "GRID_HOLD" => /\ c.hold \in 0..streak
                                /\ c.delay \in Nat /\ c.delay >= HoldBase
    /\ c.age \in Nat /\ waited \in 0..MeterTimeout /\ waited <= c.age
    /\ HealthIsOfTheLast
    /\ NoSampleBilledTwice
    /\ LossIsFlagged
    /\ BilledSamplesAreHealthy
    /\ TotalsAreTheBill

\* The object an event starts from.
LEMMA FreshFields ==
    ASSUME IsCharger(c)
    PROVE  /\ IsCharger(Fresh)
           /\ Fresh.state = c.state /\ Fresh.flags = c.flags /\ Fresh.lastSeq = c.lastSeq
           /\ Fresh.hold = c.hold /\ Fresh.delay = c.delay
           /\ Fresh.energy = c.energy /\ Fresh.frames = c.frames
           /\ Fresh.age = c.age /\ Fresh.healthy = c.healthy
BY DEF IsCharger, Attributes, Fresh

\* A bill begins.
LEMMA NewBill ==
    ASSUME c'.energy = 0, c'.frames = 0, billed' = <<>>
    PROVE  TotalsAreTheBill'
<1>1. TotalPower' = 0
  BY SumOfNone DEF TotalPower
<1>2. 0 % EnergyMod = 0
  BY FrameAssumption, Remainder
<1> QED BY <1>1, <1>2, FrameAssumption DEF TotalsAreTheBill

\* Nothing is billed, and the samples billed before stay what they are.
LEMMA SameBill ==
    ASSUME TotalsAreTheBill, c'.energy = c.energy, c'.frames = c.frames, billed' = billed,
           \A i \in DOMAIN billed : samples'[billed[i]] = samples[billed[i]]
    PROVE  TotalsAreTheBill'
<1>1. [i \in DOMAIN billed |-> samples'[billed[i]].power]
          = [i \in DOMAIN billed |-> samples[billed[i]].power]
  OBVIOUS
<1>2. TotalPower' = TotalPower
  BY <1>1 DEF TotalPower
<1> QED BY <1>2 DEF TotalsAreTheBill

\* Remainders may be taken on the way.
LEMMA RemainderOfSum ==
    ASSUME NEW m \in Nat \ {0}, NEW x \in Nat, NEW y \in Nat
    PROVE  ((x % m) + y) % m = (x + y) % m
<1> DEFINE u == (x % m) + y
           q == (x \div m) + (u \div m)
<1>1. x % m \in Int /\ x = m * (x \div m) + (x % m) /\ x \div m \in Int
  BY Division
<1>2. u \in Int
  BY <1>1
<1>3. u = m * (u \div m) + (u % m) /\ u \div m \in Int /\ u % m \in 0..(m - 1)
  BY <1>2, Division
<1>4. x + y = m * (x \div m) + u
  BY <1>1
<1>5. x + y = m * q + (u % m) /\ q \in Int
  BY <1>1, <1>2, <1>3, <1>4
<1> HIDE DEF q, u
<1>6. (m * q + (u % m)) % m = u % m
  BY <1>3, <1>5, Remainder
<1> QED BY <1>5, <1>6 DEF u

\* One more sample is billed.
LEMMA LongerBill ==
    ASSUME NEW k \in Indexes
    PROVE  /\ TotalsAreTheBill /\ samples \in Seq(Measurements) /\ billed \in Seq(Indexes)
           /\ samples' = samples /\ billed' = Append(billed, k)
           /\ c'.energy = (c.energy + samples[k].power) % EnergyMod
           /\ c'.frames = IF c.frames < FrameCap THEN c.frames + 1 ELSE FrameCap
           => TotalsAreTheBill'
<1>0. SUFFICES ASSUME TotalsAreTheBill, samples \in Seq(Measurements), billed \in Seq(Indexes),
                      samples' = samples, billed' = Append(billed, k),
                      c'.energy = (c.energy + samples[k].power) % EnergyMod,
                      c'.frames = IF c.frames < FrameCap THEN c.frames + 1 ELSE FrameCap
               PROVE  TotalsAreTheBill'
  OBVIOUS
<1> DEFINE Old == DOMAIN billed
           next == Len(billed) + 1
           values == [i \in Old |-> samples[billed[i]].power]
           longer == [i \in DOMAIN billed' |-> samples[billed'[i]].power]
<1>1. /\ Len(billed) \in Nat /\ Old = 1..Len(billed)
      /\ DOMAIN billed' = Old \cup {next} /\ Len(billed') = next
      /\ \A i \in Old : billed'[i] = billed[i] /\ billed[i] \in Indexes
      /\ billed'[next] = k
  BY <1>0
<1>2. \A i \in Indexes : samples[i].power \in Nat
  <2> TAKE i \in Indexes
  <2>1. samples[i] \in Measurements
    BY <1>0 DEF Indexes
  <2> QED BY <2>1, LineAssumption, FrameAssumption
<1>3. values \in [Old -> Nat]
  BY <1>1, <1>2
<1>4. longer \in [Old \cup {next} -> Nat] /\ longer[next] = samples[k].power
  BY <1>0, <1>1, <1>2
<1>5. \A i \in Old : longer[i] = values[i]
  BY <1>0, <1>1
<1>6. IsFiniteSet(Old) /\ next \notin Old
  BY <1>1, FS_Interval
<1>7. TotalPower = SumFunction(values) /\ TotalPower' = SumFunction(longer)
  BY <1>0 DEF TotalPower
<1> HIDE DEF Old, next, values, longer
<1>8. TotalPower \in Nat /\ TotalPower' = TotalPower + samples[k].power
  <2>1. SumFunction(values) \in Nat /\ SumFunction(longer) = SumFunction(values) + longer[next]
    BY <1>3, <1>4, <1>5, <1>6, SumOfMore
  <2> QED BY <1>4, <1>7, <2>1
<1>9. c'.energy = TotalPower' % EnergyMod
  <2> DEFINE power == samples[k].power
  <2>1. power \in Nat
    BY <1>2
  <2>2. c'.energy = ((TotalPower % EnergyMod) + power) % EnergyMod /\ TotalPower' = TotalPower + power
    BY <1>0, <1>8 DEF TotalsAreTheBill
  <2> HIDE DEF power
  <2>3. EnergyMod \in Nat \ {0}
    BY FrameAssumption
  <2>4. ((TotalPower % EnergyMod) + power) % EnergyMod = (TotalPower + power) % EnergyMod
    BY <1>8, <2>1, <2>3, RemainderOfSum
  <2> QED BY <2>2, <2>4
<1>10. c'.frames = IF Len(billed') < FrameCap THEN Len(billed') ELSE FrameCap
  BY <1>0, <1>1, FrameAssumption DEF TotalsAreTheBill, next
<1> QED BY <1>9, <1>10 DEF TotalsAreTheBill

\* Nothing is accepted: the ledger stays true of the object.
LEMMA KeepsLedger ==
    ASSUME SessionInv, Ages(c', c), UNCHANGED <<samples, accepted, billed, streak>>,
           c'.age \in Nat, waited' \in 0..MeterTimeout, waited' <= c'.age
    PROVE  SessionInv'
<1>1. /\ c'.lastSeq = c.lastSeq /\ c'.hold = c.hold /\ c'.delay = c.delay
      /\ IsCharger(c') /\ c.flags \subseteq c'.flags
      /\ c'.energy = c.energy /\ c'.frames = c.frames
      /\ c'.healthy \in {c.healthy, FALSE}
      /\ c'.state \in {c.state, "FAULT", "METER_TIMEOUT"}
  BY AgesFields DEF SessionInv
<1>2. c'.state = "GRID_HOLD" => c.state = "GRID_HOLD"
  BY <1>1
<1>3. LossIsFlagged'
  BY <1>1 DEF SessionInv, LossIsFlagged
<1>4. TotalsAreTheBill'
  BY <1>1, SameBill DEF SessionInv
<1>5. HealthIsOfTheLast'
  BY <1>1 DEF SessionInv, HealthIsOfTheLast, LastSample
<1> QED
  BY <1>1, <1>2, <1>3, <1>4, <1>5
  DEF SessionInv, IsCharger, Indexes, LastSequence, NoSampleBilledTwice, BilledSamplesAreHealthy

\* Nor does any time pass.
LEMMA StillLedger ==
    ASSUME SessionInv, Keeps(c', c), UNCHANGED history
    PROVE  SessionInv'
<1>1. Ages(c', c)
  BY KeepsAges DEF SessionInv
<1>2. c'.age = c.age
  BY DEF Keeps
<1> QED BY <1>1, <1>2, KeepsLedger DEF SessionInv, history

\* The frame of sample k, accepted after that of sample a, is of a later sample,
\* and one that skips samples shows.
LEMMA InOrder ==
    ASSUME NEW a \in Indexes, NEW k \in Indexes, samples \in Seq(Measurements),
           k >= Len(samples) - MaxDelay, NEW s, s.lastSeq = a % SequenceMod,
           SequenceDelta(s, FrameOf(k)) > 0, SequenceDelta(s, FrameOf(k)) < SeqHalf
    PROVE  /\ a < k
           /\ k - a \in 2..SequenceMod => SequenceDelta(s, FrameOf(k)) # 1
<1>1. a \in Nat /\ k \in Nat /\ a - k <= MaxDelay
  BY LineAssumption DEF Indexes
<1>2. SequenceDelta(s, FrameOf(k)) = (k - a) % SequenceMod
  <2>1. SequenceDelta(s, FrameOf(k)) = ((k % SequenceMod) - (a % SequenceMod)) % SequenceMod
    BY DEF SequenceDelta, FrameOf
  <2> QED BY <1>1, <2>1, SequenceNumbers, FrameAssumption
<1>3. (k - a) % SequenceMod \in 1..(SeqHalf - 1)
  BY <1>1, <1>2, FrameAssumption
<1> QED BY <1>1, <1>2, <1>3, StepsForward

\* New inputs.
LEMMA PlugLedger == ASSUME SessionInv, NEW pins \in Pins, Plug(pins) PROVE SessionInv'
<1>1. c' = ApplyInputs(Fresh, pins) /\ samples' = samples
  BY DEF Plug, SetInputs
<1>2. IsCharger(c)
  BY DEF SessionInv
<1>3. CASE /\ c.state = "IDLE" /\ c'.state = "CONNECTED" /\ IsCharger(c')
           /\ c'.lastSeq = NoSequence /\ c'.energy = 0 /\ c'.frames = 0
           /\ c'.age = 0 /\ c'.healthy = FALSE
  <2>1. accepted' = <<>> /\ billed' = <<>> /\ streak' = 0 /\ waited' = 0
    BY <1>3 DEF Plug, Begins, Session
  <2>2. TotalsAreTheBill'
    BY <1>3, <2>1, NewBill
  <2> QED BY <1>1, <1>3, <2>1, <2>2, TimerAssumption
       DEF SessionInv, Indexes, LastSequence, NoSampleBilledTwice, LossIsFlagged,
           BilledSamplesAreHealthy, HealthIsOfTheLast
<1>4. CASE Moves(c', c)
  <2>1. UNCHANGED <<accepted, billed, streak, waited>>
    BY <1>4 DEF Plug, Begins, Moves, Session
  <2>2. /\ c'.lastSeq = c.lastSeq /\ c'.hold = c.hold /\ c'.delay = c.delay
        /\ IsCharger(c') /\ c.flags \subseteq c'.flags
        /\ c'.energy = c.energy /\ c'.frames = c.frames
        /\ c'.age = c.age /\ c'.healthy \in {c.healthy, FALSE}
        /\ c'.state = "GRID_HOLD" => c.state = "GRID_HOLD"
    BY <1>4 DEF Moves
  <2>3. LossIsFlagged'
    BY <2>1, <2>2 DEF SessionInv, LossIsFlagged
  <2>4. TotalsAreTheBill'
    BY <1>1, <2>1, <2>2, SameBill DEF SessionInv
  <2>5. HealthIsOfTheLast'
    BY <1>1, <2>1, <2>2 DEF SessionInv, HealthIsOfTheLast, LastSample
  <2> QED BY <1>1, <2>1, <2>2, <2>3, <2>4, <2>5
       DEF SessionInv, IsCharger, Indexes, LastSequence, NoSampleBilledTwice,
           BilledSamplesAreHealthy
<1>5. Moves(c', Fresh) => Moves(c', c)
  BY <1>2, FreshFields DEF Moves
<1> QED BY <1>1, <1>2, <1>3, <1>4, <1>5, FreshFields, InputsMove

\* A new sample: the indexes of the others stay.
LEMMA ProduceLedger == ASSUME SessionInv, Produce PROVE SessionInv'
<1>1. PICK m \in Measurements : samples' = Append(samples, m)
  BY DEF Produce
<1>2. UNCHANGED <<c, accepted, billed, streak, waited>>
  BY DEF Produce
<1>3. /\ samples' \in Seq(Measurements)
      /\ Len(samples') = Len(samples) + 1 /\ Len(samples) \in Nat
      /\ \A i \in Indexes : i \in Indexes' /\ samples'[i] = samples[i]
  BY <1>1 DEF SessionInv, Indexes
<1>4. accepted' \in Seq(Indexes') /\ billed' \in Seq(Indexes')
  BY <1>2, <1>3 DEF SessionInv
<1>5. BilledSamplesAreHealthy'
  BY <1>2, <1>3 DEF SessionInv, BilledSamplesAreHealthy
<1>6. TotalsAreTheBill'
  <2>1. \A i \in DOMAIN billed : billed[i] \in Indexes
    BY DEF SessionInv
  <2> QED BY <1>2, <1>3, <2>1, SameBill DEF SessionInv
<1>7. HealthIsOfTheLast'
  <2>1. ASSUME accepted # <<>> PROVE accepted[Len(accepted)] \in Indexes
    BY <2>1 DEF SessionInv
  <2> QED BY <1>2, <1>3, <2>1 DEF SessionInv, HealthIsOfTheLast, LastSample
<1> QED BY <1>2, <1>3, <1>4, <1>5, <1>6, <1>7
     DEF SessionInv, IsCharger, LastSequence, NoSampleBilledTwice, LossIsFlagged

\* What a delivery does: the frame is not accepted, or it takes effect.
LEMMA DeliveryEffect ==
    ASSUME SessionInv, NEW k \in DOMAIN samples, Deliver(k)
    PROVE  \/ Keeps(c', c) /\ UNCHANGED history
           \/ /\ Takes(c', c, FrameOf(k))
              /\ c.lastSeq # NoSequence => /\ SequenceDelta(c, FrameOf(k)) > 0
                                           /\ SequenceDelta(c, FrameOf(k)) < SeqHalf
              /\ accepted' = Append(accepted, k)
              /\ billed' = IF c'.state = "CHARGING" /\ c.state # "GRID_HOLD"
                           THEN Append(billed, k) ELSE billed
              /\ streak' = IF samples[k].sag THEN 0 ELSE streak + 1
              /\ samples' = samples /\ waited' = 0
<1> DEFINE f == FrameOf(k)
           took == Accepted(CheckTimeout(RxMarker(Fresh, Corrupt)), f)
<1>1. IsCharger(c) /\ IsCharger(Fresh)
  BY FreshFields DEF SessionInv
<1>2. /\ c' = RxFrame(Fresh, f)
      /\ accepted' = IF took THEN Append(accepted, k) ELSE accepted
      /\ billed' = IF took /\ c'.state = "CHARGING" /\ c.state # "GRID_HOLD"
                   THEN Append(billed, k) ELSE billed
      /\ streak' = IF ~took THEN streak ELSE IF f.sag THEN 0 ELSE streak + 1
      /\ samples' = samples /\ waited' = IF took THEN 0 ELSE waited
  BY DEF Deliver
<1>3. f.sag = samples[k].sag
  BY DEF FrameOf
<1>4. SequenceDelta(Fresh, f) = SequenceDelta(c, f)
  BY <1>1, FreshFields DEF SequenceDelta
<1>5. /\ took => /\ Takes(c', Fresh, f)
                 /\ Fresh.lastSeq # NoSequence =>
                      SequenceDelta(Fresh, f) > 0 /\ SequenceDelta(Fresh, f) < SeqHalf
      /\ ~took => Keeps(c', Fresh)
  BY <1>1, <1>2, FrameTakesOrKeeps
<1> HIDE DEF took, f
<1>6. Takes(c', Fresh, f) => Takes(c', c, f)
  BY <1>1, <1>4, FreshFields DEF Takes, Bills
<1>7. Keeps(c', Fresh) => Keeps(c', c)
  BY <1>1, FreshFields DEF Keeps
<1>8. CASE took
  BY <1>1, <1>2, <1>3, <1>4, <1>5, <1>6, <1>8, FreshFields DEF f
<1>9. CASE ~took
  BY <1>2, <1>5, <1>7, <1>9 DEF history
<1> QED BY <1>8, <1>9

\* A delivery, early or late.
LEMMA DeliverLedger ==
    ASSUME SessionInv, NEW k \in DOMAIN samples, k >= Len(samples) - MaxDelay, Deliver(k)
    PROVE  SessionInv'
<1> DEFINE f == FrameOf(k)
<1> SUFFICES ASSUME Takes(c', c, f),
                    c.lastSeq # NoSequence => /\ SequenceDelta(c, f) > 0
                                              /\ SequenceDelta(c, f) < SeqHalf,
                    accepted' = Append(accepted, k),
                    billed' = IF c'.state = "CHARGING" /\ c.state # "GRID_HOLD"
                              THEN Append(billed, k) ELSE billed,
                    streak' = IF samples[k].sag THEN 0 ELSE streak + 1,
                    samples' = samples, waited' = 0
             PROVE  SessionInv'
  <2>1. ASSUME Keeps(c', c), UNCHANGED history PROVE SessionInv'
    BY <2>1, StillLedger
  <2> QED BY <2>1, DeliveryEffect
<1>1. /\ k \in Indexes /\ samples[k] \in Measurements
      /\ accepted \in Seq(Indexes) /\ billed \in Seq(Indexes)
      /\ Indexes' = Indexes /\ Indexes \subseteq Nat
  BY DEF SessionInv, Indexes
<1>2. /\ f.sag = samples[k].sag /\ f.over = samples[k].over
      /\ f.seq = k % SequenceMod /\ f.power = samples[k].power /\ f.hash \in 0..HashMax
  BY <1>1, LineAssumption DEF FrameOf
<1> HIDE DEF f
<1>3. /\ Len(accepted) \in Nat /\ Len(accepted') = Len(accepted) + 1
      /\ accepted' \in Seq(Indexes)
      /\ accepted'[Len(accepted) + 1] = k
      /\ \A i \in 1..Len(accepted) : accepted'[i] = accepted[i]
      /\ accepted' # <<>>
  BY <1>1
<1>4. /\ Len(billed) \in Nat /\ billed' \in Seq(Indexes)
      /\ \A i \in DOMAIN billed' : \/ i \in DOMAIN billed /\ billed'[i] = billed[i]
                                   \/ billed'[i] = k /\ c'.state = "CHARGING"
                                                     /\ c.state # "GRID_HOLD"
  BY <1>1
<1>5. IsCharger(c') /\ streak' \in Nat
  BY DEF Takes, SessionInv
<1>6. c'.lastSeq = LastSequence'
  BY <1>2, <1>3 DEF Takes, LastSequence
<1>7. ASSUME accepted # <<>>
      PROVE  /\ accepted[Len(accepted)] < k
             /\ k - accepted[Len(accepted)] \in 2..SequenceMod => "CRC_LOST" \in c'.flags
  <2> DEFINE a == accepted[Len(accepted)]
  <2>1. a \in Indexes /\ c.lastSeq = a % SequenceMod
    BY <1>1, <1>7 DEF SessionInv, LastSequence
  <2>2. c.lastSeq # NoSequence
    <3> HIDE DEF a
    <3> QED BY <1>1, <2>1, FrameAssumption DEF NoSequence
  <2>3. /\ a < k
        /\ k - a \in 2..SequenceMod => SequenceDelta(c, f) # 1
    <3> HIDE DEF a
    <3> QED BY <1>1, <2>1, <2>2, InOrder DEF SessionInv, f
  <2> QED BY <2>2, <2>3 DEF Takes
<1>8. NoSampleBilledTwice'
  <2> SUFFICES ASSUME NEW i \in 1..(Len(accepted) + 1), NEW j \in 1..(Len(accepted) + 1), i < j
               PROVE  accepted'[i] < accepted'[j]
    BY <1>3 DEF NoSampleBilledTwice
  <2>1. CASE j <= Len(accepted)
    BY <1>1, <1>3, <2>1 DEF SessionInv, NoSampleBilledTwice
  <2>2. CASE j = Len(accepted) + 1
    <3>1. i \in 1..Len(accepted) /\ accepted # <<>> /\ accepted'[j] = k
      BY <1>1, <1>3, <2>2
    <3>2. accepted[i] \in Nat /\ accepted[Len(accepted)] \in Nat
      BY <1>1, <1>3, <3>1
    <3>3. accepted[i] <= accepted[Len(accepted)]
      <4>1. CASE i = Len(accepted)
        BY <3>2, <4>1
      <4>2. CASE i < Len(accepted)
        <5>1. i \in DOMAIN accepted /\ Len(accepted) \in DOMAIN accepted
          BY <1>1, <1>3, <3>1
        <5>2. accepted[i] < accepted[Len(accepted)]
          BY <4>2, <5>1 DEF SessionInv, NoSampleBilledTwice
        <5> QED BY <3>2, <5>2
      <4> QED BY <1>3, <3>1, <4>1, <4>2
    <3> QED BY <1>1, <1>3, <1>7, <3>1, <3>2, <3>3
  <2> QED BY <1>3, <2>1, <2>2
<1>9. LossIsFlagged'
  <2> SUFFICES ASSUME NEW i \in 1..Len(accepted),
                      accepted'[i + 1] - accepted'[i] \in 2..SequenceMod
               PROVE  "CRC_LOST" \in c'.flags
    BY <1>3 DEF LossIsFlagged
  <2>1. CASE i < Len(accepted)
    <3>1. "CRC_LOST" \in c.flags
      BY <1>3, <2>1 DEF SessionInv, LossIsFlagged
    <3> QED BY <3>1 DEF Takes
  <2>2. CASE i = Len(accepted)
    <3>1. accepted # <<>>
      BY <1>1, <1>3, <2>2
    <3> QED BY <1>3, <1>7, <2>2, <3>1
  <2> QED BY <1>3, <2>1, <2>2
<1>10. BilledSamplesAreHealthy'
  BY <1>2, <1>4 DEF SessionInv, BilledSamplesAreHealthy, Takes
<1>11. ASSUME c'.state = "GRID_HOLD"
       PROVE  c'.hold \in 0..streak' /\ c'.delay \in Nat /\ c'.delay >= HoldBase
  <2>1. CASE f.sag
    <3>1. c'.hold = 0 /\ streak' = 0
      BY <1>2, <1>11, <2>1 DEF Takes
    <3>2. \/ c.state = "GRID_HOLD" /\ c'.delay = c.delay
          \/ c'.delay = HoldBase + f.hash
      BY <1>11, <2>1 DEF Takes
    <3>3. c'.delay \in Nat /\ c'.delay >= HoldBase
      BY <1>2, <3>2, FrameAssumption DEF SessionInv
    <3> QED BY <3>1, <3>3
  <2>2. CASE ~f.sag
    <3>1. /\ c.state = "GRID_HOLD" /\ c'.hold = c.hold + 1 /\ c'.delay = c.delay
          /\ streak' = streak + 1
      BY <1>2, <1>11, <2>2 DEF Takes
    <3> QED BY <3>1 DEF SessionInv
  <2> QED BY <2>1, <2>2
<1>12. TotalsAreTheBill'
  <2>1. Bills(c', c, f)
    BY DEF Takes
  <2>2. CASE c'.state = "CHARGING" /\ c.state # "GRID_HOLD"
    BY <1>1, <1>2, <2>1, <2>2, LongerBill DEF SessionInv, Bills
  <2>3. CASE ~(c'.state = "CHARGING" /\ c.state # "GRID_HOLD")
    BY <2>1, <2>3, SameBill DEF SessionInv, Bills
  <2> QED BY <2>2, <2>3
<1>13. HealthIsOfTheLast'
  BY <1>2, <1>3 DEF HealthIsOfTheLast, LastSample, Takes
<1>14. c'.age = 0
  BY DEF Takes
<1> QED BY <1>1, <1>3, <1>4, <1>5, <1>6, <1>8, <1>9, <1>10, <1>11, <1>12, <1>13, <1>14,
           TimerAssumption
        DEF SessionInv

\* A corrupted frame is never accepted.
LEMMA CorruptFrameKeeps ==
    ASSUME SessionInv, DeliverCorrupt
    PROVE  Keeps(c', c)
<1>1. IsCharger(c) /\ IsCharger(Fresh)
  BY FreshFields DEF SessionInv
<1>2. ~Accepted(CheckTimeout(RxMarker(Fresh, Corrupt)), Corrupt)
  BY DEF Accepted, Corrupt
<1>3. Keeps(RxFrame(Fresh, Corrupt), Fresh)
  BY <1>1, <1>2, FrameTakesOrKeeps
<1> QED BY <1>1, <1>3, FreshFields DEF DeliverCorrupt, Keeps

\* Time that passes accepts nothing.
LEMMA TimeAges ==
    ASSUME SessionInv, NEW n, Elapses(n)
    PROVE  Ages(c', c) /\ c'.age = Saturate(c.age + n)
<1>1. IsCharger(c) /\ IsCharger(Fresh) /\ Fresh.age = c.age
  BY FreshFields DEF SessionInv
<1>2. Ages(c', Fresh) /\ c'.age = Saturate(c.age + n)
  BY <1>1, ElapseAges DEF Elapses, AdvanceMs
<1>3. /\ IsCharger(c')
      /\ c'.lastSeq = Fresh.lastSeq /\ c'.hold = Fresh.hold /\ c'.delay = Fresh.delay
      /\ c'.energy = Fresh.energy /\ c'.frames = Fresh.frames
      /\ c'.healthy \in {Fresh.healthy, FALSE}
      /\ Fresh.flags \subseteq c'.flags
      /\ c'.state \in {Fresh.state, "FAULT", "METER_TIMEOUT"}
  BY <1>1, <1>2, AgesFields
<1> DEFINE u == [c EXCEPT !.age = c'.age]
<1>4. Differs(u, c, {"age"}) /\ u.age = c'.age
  BY <1>1 DEF Differs, IsCharger, Attributes
<1> HIDE DEF u
<1>5. Keeps(c', u)
  BY <1>1, <1>3, <1>4, FreshFields DEF Keeps, Differs, Attributes
<1> QED BY <1>2, <1>5 DEF Ages, u

\* Time that passes: the age and the wait go up together, each to its cap.
LEMMA ElapsesLedger ==
    ASSUME SessionInv, NEW n \in 1..MaxStep, Elapses(n)
    PROVE  SessionInv'
<1>1. Ages(c', c) /\ c'.age = Saturate(c.age + n)
  BY TimeAges
<1>2. /\ UNCHANGED <<samples, accepted, billed, streak>>
      /\ waited' = IF waited + n < MeterTimeout THEN waited + n ELSE MeterTimeout
  BY DEF Elapses
<1>3. c'.age \in Nat /\ waited' \in 0..MeterTimeout /\ waited' <= c'.age
  BY <1>1, <1>2, TimerAssumption DEF SessionInv, Saturate
<1> QED BY <1>1, <1>2, <1>3, KeepsLedger

\* The ledger of a session is true of the charger in every reachable state.
THEOREM SessionInvariant == MSpec => []SessionInv
<1>1. MInit => SessionInv
  <2> SUFFICES ASSUME MInit PROVE SessionInv
    OBVIOUS
  <2>1. /\ IsCharger(c) /\ c.state = "IDLE" /\ c.lastSeq = NoSequence
        /\ c.age = 0 /\ c.healthy = FALSE
    BY DEF MInit, Init, NewCharger, IsCharger, Attributes
  <2>2. c.energy = 0 /\ c.frames = 0
    BY DEF MInit, Init, NewCharger
  <2>3. TotalsAreTheBill
    <3>1. TotalPower = 0
      BY SumOfNone DEF TotalPower, MInit
    <3>2. 0 % EnergyMod = 0
      BY FrameAssumption, Remainder
    <3> QED BY <2>2, <3>1, <3>2, FrameAssumption DEF TotalsAreTheBill, MInit
  <2> QED BY <2>1, <2>3, TimerAssumption
       DEF MInit, SessionInv, Indexes, LastSequence, NoSampleBilledTwice, LossIsFlagged,
           BilledSamplesAreHealthy, HealthIsOfTheLast
<1>2. SessionInv /\ [MNext]_mvars => SessionInv'
  <2> SUFFICES ASSUME SessionInv, [MNext]_mvars PROVE SessionInv'
    OBVIOUS
  <2>1. CASE \E pins \in Pins : Plug(pins)
    BY <2>1, PlugLedger
  <2>2. CASE \E n \in 1..MaxStep : Elapses(n)
    BY <2>2, ElapsesLedger
  <2>3. CASE Produce
    BY <2>3, ProduceLedger
  <2>4. CASE \E k \in DOMAIN samples : k >= Len(samples) - MaxDelay /\ Deliver(k)
    BY <2>4, DeliverLedger
  <2>5. CASE DeliverCorrupt
    BY <2>5, CorruptFrameKeeps, StillLedger DEF DeliverCorrupt
  <2>6. CASE UNCHANGED mvars
    <3>1. TotalsAreTheBill'
      BY <2>6, SameBill DEF mvars, SessionInv
    <3> QED BY <2>6, <3>1
    DEF mvars, SessionInv, IsCharger, Indexes, LastSequence, NoSampleBilledTwice,
        LossIsFlagged, BilledSamplesAreHealthy, HealthIsOfTheLast, LastSample
  <2> QED BY <2>1, <2>2, <2>3, <2>4, <2>5, <2>6 DEF MNext
<1> QED BY <1>1, <1>2, PTL DEF MSpec

\* The registers hold the bill of the session, for a session of any length and
\* registers of any width.
THEOREM TotalsAreExact == MSpec => []TotalsAreTheBill
<1>1. SessionInv => TotalsAreTheBill
  BY DEF SessionInv
<1> QED BY <1>1, SessionInvariant, PTL

\* Whatever the line repeats or delays, samples are accepted, hence billed, in
\* the order the meter took them and at most once a session.
THEOREM NothingBilledTwice == MSpec => []NoSampleBilledTwice
<1>1. SessionInv => NoSampleBilledTwice
  BY DEF SessionInv
<1> QED BY <1>1, SessionInvariant, PTL

\* A gap between two samples accepted one after the other sets the link cause,
\* and it stays set for the rest of the session.
THEOREM LossShows == MSpec => []LossIsFlagged
<1>1. SessionInv => LossIsFlagged
  BY DEF SessionInv
<1> QED BY <1>1, SessionInvariant, PTL

\* No sample taken with a sag or too much current is ever billed.
THEOREM OnlyHealthyBilled == MSpec => []BilledSamplesAreHealthy
<1>1. SessionInv => BilledSamplesAreHealthy
  BY DEF SessionInv
<1> QED BY <1>1, SessionInvariant, PTL

\* A grid hold ends in charging only after the whole delay of the event that
\* started it, in accepted frames without sag one after the other.
THEOREM HoldLasts == MSpec => ResumeAfterFullDelay
<1> DEFINE Resumes == c.state = "GRID_HOLD" /\ c'.state = "CHARGING" =>
                        streak' >= c.delay /\ c.delay >= HoldBase
<1>1. SessionInv /\ [MNext]_mvars => Resumes
  <2> SUFFICES ASSUME SessionInv, [MNext]_mvars, c.state = "GRID_HOLD", c'.state = "CHARGING"
               PROVE  streak' >= c.delay /\ c.delay >= HoldBase
    OBVIOUS
  <2>1. IsCharger(c) /\ ~Keeps(c', c) /\ ~Ages(c', c) /\ ~Moves(c', c)
    BY AgesFields DEF SessionInv, Keeps, Moves
  <2>2. ASSUME NEW pins \in Pins, Plug(pins) PROVE FALSE
    <3>1. c' = ApplyInputs(Fresh, pins)
      BY <2>2 DEF Plug, SetInputs
    <3>2. Moves(c', Fresh)
      BY <2>1, <3>1, FreshFields, InputsMove
    <3> QED BY <2>1, <3>2, FreshFields DEF Moves
  <2>3. CASE \E n \in 1..MaxStep : Elapses(n)
    BY <2>1, <2>3, TimeAges
  <2>4. CASE Produce \/ UNCHANGED mvars
    BY <2>4 DEF Produce, mvars
  <2>5. ASSUME NEW k \in DOMAIN samples, Deliver(k)
        PROVE  streak' >= c.delay /\ c.delay >= HoldBase
    <3>1. /\ Takes(c', c, FrameOf(k))
          /\ streak' = IF samples[k].sag THEN 0 ELSE streak + 1
      BY <2>1, <2>5, DeliveryEffect
    <3>2. ~samples[k].sag /\ c.hold + 1 >= c.delay
      BY <3>1 DEF Takes, FrameOf
    <3> QED BY <3>1, <3>2, FrameAssumption DEF SessionInv
  <2>6. CASE DeliverCorrupt
    BY <2>1, <2>6, CorruptFrameKeeps
  <2> QED BY <2>2, <2>3, <2>4, <2>5, <2>6 DEF MNext
<1>2. SessionInv /\ [MNext]_mvars => [Resumes]_mvars
  BY <1>1
<1> QED BY <1>2, SessionInvariant, PTL DEF MSpec, ResumeAfterFullDelay

\* The contactor closes only on a sample of this session that is young and good,
\* for every timeout and however frames, pins and time take turns.
THEOREM ContactorCloses == MSpec => ClosesOnGoodSample
<1> DEFINE last == samples[accepted'[Len(accepted')]]
           Good == /\ accepted' # <<>> /\ waited' < MeterTimeout
                   /\ ~last.sag /\ (last.over => c.state = "GRID_HOLD")
           Closes == c.state # "CHARGING" /\ c'.state = "CHARGING" => Good
<1>1. SessionInv /\ [MNext]_mvars => Closes
  <2> SUFFICES ASSUME SessionInv, [MNext]_mvars, c.state # "CHARGING", c'.state = "CHARGING"
               PROVE  Good
    OBVIOUS
  <2>1. IsCharger(c) /\ ~Keeps(c', c) /\ ~Ages(c', c)
    BY AgesFields DEF SessionInv, Keeps
  <2>2. ASSUME NEW pins \in Pins, Plug(pins) PROVE Good
    <3>1. c' = ApplyInputs(Fresh, pins)
      BY <2>2 DEF Plug, SetInputs
    <3>2. Moves(c', Fresh)
      BY <2>1, <3>1, FreshFields, InputsMove
    <3>3. c.healthy /\ c.age < MeterTimeout /\ c.state # "IDLE"
      BY <2>1, <3>2, FreshFields DEF Moves
    <3>4. UNCHANGED <<accepted, waited>>
      BY <2>2, <3>3 DEF Plug, Begins
    <3> QED BY <3>3, <3>4, TimerAssumption DEF SessionInv, HealthIsOfTheLast, LastSample
  <2>3. CASE \E n \in 1..MaxStep : Elapses(n)
    BY <2>1, <2>3, TimeAges
  <2>4. CASE Produce \/ UNCHANGED mvars
    BY <2>4 DEF Produce, mvars
  <2>5. ASSUME NEW k \in DOMAIN samples, Deliver(k) PROVE Good
    <3>1. Takes(c', c, FrameOf(k)) /\ accepted' = Append(accepted, k) /\ waited' = 0
      BY <2>1, <2>5, DeliveryEffect
    <3>2. accepted' # <<>> /\ accepted'[Len(accepted')] = k
      BY <3>1 DEF SessionInv
    <3>3. ~samples[k].sag /\ (samples[k].over => c.state = "GRID_HOLD")
      BY <3>1 DEF Takes, FrameOf
    <3> QED BY <3>1, <3>2, <3>3, TimerAssumption
  <2>6. CASE DeliverCorrupt
    BY <2>1, <2>6, CorruptFrameKeeps
  <2> QED BY <2>2, <2>3, <2>4, <2>5, <2>6 DEF MNext
<1>2. SessionInv /\ [MNext]_mvars => [Closes]_mvars
  BY <1>1
<1> QED BY <1>2, SessionInvariant, PTL DEF MSpec, ClosesOnGoodSample

=============================================================================
