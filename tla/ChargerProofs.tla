--------------------------- MODULE ChargerProofs ---------------------------
(***************************************************************************)
(* The controller keeps its type and its safety invariants for every value *)
(* of the constants.  Each handler of Charger gets a typing lemma and a    *)
(* lemma that it keeps the parts of the invariant; an event is a           *)
(* composition of handlers, so its proof is a composition of lemmas.       *)
(***************************************************************************)
EXTENDS Charger, TLAPS

-----------------------------------------------------------------------------
(* Typing.                                                                 *)

\* Appending a report keeps the type (_record).
LEMMA RecordType ==
    ASSUME NEW s \in ChargerRecords, NEW st \in {"IDLE"} \cup Latched
    PROVE  Record(s, st) \in ChargerRecords
<1> DEFINE r == [energy |-> s.energy, status |-> st,
                 flags |-> s.flags, frames |-> s.frames]
<1>1. r \in Records
  BY DEF ChargerRecords, Records
<1>2. s.tx \in Seq(Records)
  BY DEF ChargerRecords
<1>3. Append(s.tx, r) \in Seq(Records)
  BY <1>1, <1>2
<1> HIDE DEF r
<1>4. [s EXCEPT !.tx = Append(s.tx, r)] \in ChargerRecords
  BY <1>3 DEF ChargerRecords
<1> QED
  BY <1>4 DEF Record, r

\* Entering a fault keeps the type (_enter_fault).
LEMMA EnterFaultType ==
    ASSUME NEW s \in ChargerRecords, NEW cause \in Causes
    PROVE  EnterFault(s, cause) \in ChargerRecords
<1> DEFINE t == [s EXCEPT !.flags = @ \cup {cause}]
<1>1. t \in ChargerRecords
  BY DEF ChargerRecords
<1> HIDE DEF t
<1>2. Record(t, "FAULT") \in ChargerRecords
  BY <1>1, RecordType DEF Latched
<1>3. [Record(t, "FAULT") EXCEPT !.state = "FAULT"] \in ChargerRecords
  BY <1>2 DEF ChargerRecords, States, Latched
<1> QED
  BY <1>3 DEF EnterFault, t

\* The watchdog keeps the type (check_timeout).
LEMMA CheckTimeoutType ==
    ASSUME NEW s \in ChargerRecords
    PROVE  CheckTimeout(s) \in ChargerRecords
<1>1. Record(s, "METER_TIMEOUT") \in ChargerRecords
  BY RecordType DEF Latched
<1>2. [Record(s, "METER_TIMEOUT") EXCEPT !.healthy = FALSE,
                                         !.state = "METER_TIMEOUT"]
        \in ChargerRecords
  BY <1>1 DEF ChargerRecords, States, Latched
<1> QED
  BY <1>2 DEF CheckTimeout

\* A rejected frame keeps the type (_bad_frame).
LEMMA BadFrameType ==
    ASSUME NEW s \in ChargerRecords
    PROVE  BadFrame(s) \in ChargerRecords
<1> DEFINE n == IF s.bad < BadLimit THEN s.bad + 1 ELSE BadLimit
           t == [s EXCEPT !.bad = n]
<1>1. t \in ChargerRecords
  BY DEF ChargerRecords, BadLimit
<1>2. EnterFault(t, "CRC_LOST") \in ChargerRecords
  BY <1>1, EnterFaultType DEF Causes
<1> QED
  BY <1>1, <1>2 DEF BadFrame

\* Plugging in keeps the type.
LEMMA StartSessionType ==
    ASSUME NEW s \in ChargerRecords
    PROVE  StartSession(s) \in ChargerRecords
<1>1. /\ 0 \in 0..(EnergyMod - 1) /\ 0 \in 0..FrameCap /\ 0 \in 0..AgeCap
      /\ NoSequence \in NoSequence..(SequenceMod - 1) /\ 0 \in 0..BodyLen
  BY FrameAssumption, TimerAssumption DEF NoSequence
<1>2. "CONNECTED" \in States /\ {} \in SUBSET Causes
  BY DEF States, Session
<1> QED
  BY <1>1, <1>2 DEF StartSession, ChargerRecords

\* One pass of the pin rules keeps the type (_step_pins).
LEMMA StepPinsType ==
    ASSUME NEW s \in ChargerRecords
    PROVE  StepPins(s) \in ChargerRecords
<1>1. /\ EnterFault(s, "ESTOP") \in ChargerRecords
      /\ EnterFault(s, "CP_ERROR") \in ChargerRecords
  BY EnterFaultType DEF Causes
<1>2. Record(s, "IDLE") \in ChargerRecords
  BY RecordType
<1>3. Unplug(s) \in ChargerRecords
  BY <1>2 DEF Unplug, ChargerRecords, States
<1>4. StartSession(s) \in ChargerRecords
  BY StartSessionType
<1>5. \A st \in States : [s EXCEPT !.state = st] \in ChargerRecords
  BY DEF ChargerRecords
<1> QED
  BY <1>1, <1>3, <1>4, <1>5 DEF StepPins, States, Session

\* The fields of a received body.
LEMMA FrameFields ==
    ASSUME NEW f \in Frames
    PROVE  /\ f.ok \in BOOLEAN /\ f.over \in BOOLEAN /\ f.sag \in BOOLEAN
           /\ f.seq \in 0..(SequenceMod - 1) /\ f.power \in Nat /\ f.hash \in Nat
<1>0. 0 \in 0..(SequenceMod - 1)
  BY FrameAssumption
<1>1. CASE f = Corrupt
  BY <1>0, <1>1 DEF Corrupt
<1>2. CASE f \in [ok : {TRUE}, seq : 0..(SequenceMod - 1), over : BOOLEAN,
                  sag : BOOLEAN, power : Power, hash : 0..HashMax]
  <2>1. /\ f.ok \in {TRUE} /\ f.over \in BOOLEAN /\ f.sag \in BOOLEAN
        /\ f.seq \in 0..(SequenceMod - 1) /\ f.power \in Power
        /\ f.hash \in 0..HashMax
    BY <1>2
  <2>2. f.power \in Nat
    BY <2>1, FrameAssumption
  <2>3. f.hash \in Nat
    BY <2>1
  <2>4. f.ok \in BOOLEAN
    BY <2>1
  <2> QED
    BY <2>1, <2>2, <2>3, <2>4
<1> QED
  BY <1>1, <1>2 DEF Frames

\* A remainder is below its modulus.
LEMMA RemainderBelow ==
    ASSUME NEW a \in Nat, NEW m \in Nat \ {0}
    PROVE  a % m \in 0..(m - 1)
OBVIOUS

\* Billing, holding and accepting a frame keep the type.
LEMMA MeasureType ==
    ASSUME NEW s \in ChargerRecords, NEW f \in Frames
    PROVE  Measure(s, f) \in ChargerRecords /\ Accept(s, f) \in ChargerRecords
<1>1. Bill(s, f) \in ChargerRecords
  <2>1. (s.energy + f.power) % EnergyMod \in 0..(EnergyMod - 1)
    <3>1. s.energy + f.power \in Nat
      BY FrameFields, FrameAssumption DEF ChargerRecords
    <3> QED
      BY <3>1, RemainderBelow, FrameAssumption
  <2>2. (IF s.frames < FrameCap THEN s.frames + 1 ELSE FrameCap) \in 0..FrameCap
    BY FrameAssumption DEF ChargerRecords
  <2> QED
    BY <2>1, <2>2 DEF Bill, ChargerRecords, States, Session
<1>2. EnterHold(s, f) \in ChargerRecords
  <2>1. HoldBase + f.hash \in Nat
    BY FrameFields, FrameAssumption
  <2> QED
    BY <2>1 DEF EnterHold, ChargerRecords, States, Session, Causes
<1>3. EnterFault(s, "OVERCURRENT") \in ChargerRecords
  BY EnterFaultType DEF Causes
<1>4. /\ [s EXCEPT !.hold = 0] \in ChargerRecords
      /\ [s EXCEPT !.hold = @ + 1,
                   !.state = IF s.hold + 1 >= s.delay THEN "CHARGING" ELSE @]
            \in ChargerRecords
  <2>1. /\ s.hold \in Nat /\ s.delay \in Nat /\ s.state \in States
        /\ "CHARGING" \in States
    BY DEF ChargerRecords, States, Session
  <2>2. s.hold + 1 \in Nat /\ 0 \in Nat
    BY <2>1
  <2>3. (IF s.hold + 1 >= s.delay THEN "CHARGING" ELSE s.state) \in States
    BY <2>1
  <2>4. \A h \in Nat, st \in States :
          /\ [s EXCEPT !.hold = h] \in ChargerRecords
          /\ [s EXCEPT !.hold = h, !.state = st] \in ChargerRecords
    BY DEF ChargerRecords
  <2> QED
    BY <2>2, <2>3, <2>4
<1>5. Accept(s, f) \in ChargerRecords
  <2>1. f.seq \in NoSequence..(SequenceMod - 1) /\ 0 \in 0..BadLimit /\ 0 \in 0..AgeCap
    BY FrameFields, FrameAssumption, TimerAssumption DEF NoSequence, BadLimit
  <2>2. (IF s.lastSeq # NoSequence /\ SequenceDelta(s, f) # 1
         THEN s.flags \cup {"CRC_LOST"} ELSE s.flags) \in SUBSET Causes
    BY DEF ChargerRecords, Causes
  <2>3. (~f.over /\ ~f.sag) \in BOOLEAN
    OBVIOUS
  <2> QED
    BY <2>1, <2>2, <2>3 DEF Accept, ChargerRecords
<1> QED
  BY <1>1, <1>2, <1>3, <1>4, <1>5 DEF Measure, MeasureCharging, MeasureHold, MayMeasure

\* A complete frame keeps the type (_on_frame).
LEMMA OnFrameType ==
    ASSUME NEW s \in ChargerRecords, NEW f \in Frames
    PROVE  OnFrame(s, f) \in ChargerRecords
BY CheckTimeoutType, BadFrameType, MeasureType DEF OnFrame

\* Opening a body and restarting the byte timer keep the type.
LEMMA FramingType ==
    ASSUME NEW s \in ChargerRecords
    PROVE  /\ [s EXCEPT !.len = 0, !.active = TRUE, !.escape = FALSE,
                        !.rxAge = 0] \in ChargerRecords
           /\ [s EXCEPT !.rxAge = 0] \in ChargerRecords
<1>1. 0 \in 0..BodyLen /\ 0 \in 0..AgeCap
  BY FrameAssumption, TimerAssumption
<1> QED
  BY <1>1 DEF ChargerRecords

\* Dropping a partial body keeps the type.
LEMMA PartialType ==
    ASSUME NEW s \in ChargerRecords
    PROVE  Discard(s) \in ChargerRecords /\ CheckPartialTimeout(s) \in ChargerRecords
<1>0. 0 \in 0..BodyLen
  BY FrameAssumption
<1>1. Discard(s) \in ChargerRecords
  BY <1>0 DEF Discard, ChargerRecords
<1>2. BadFrame(Discard(s)) \in ChargerRecords
  BY <1>1, BadFrameType
<1> QED
  BY <1>1, <1>2 DEF CheckPartialTimeout

\* A byte of the meter keeps the type (rx_byte).
LEMMA RxType ==
    ASSUME NEW s \in ChargerRecords, NEW f \in Frames, NEW b \in BodyBytes
    PROVE  RxMarker(s, f) \in ChargerRecords /\ RxBodyByte(s, b) \in ChargerRecords
<1> DEFINE t == CheckPartialTimeout(s)
<1>1. t \in ChargerRecords
  BY PartialType
<1> HIDE DEF t
<1>2. CloseBody(t, f) \in ChargerRecords
  BY <1>1, OnFrameType, BadFrameType DEF CloseBody
<1>3. RxMarker(s, f) \in ChargerRecords
  <2> DEFINE u == CloseBody(t, f)
  <2>1. u \in ChargerRecords
    BY <1>2
  <2> HIDE DEF u
  <2> QED
    BY <2>1, FramingType DEF RxMarker, u, t
<1>4. RxBodyByte(s, b) \in ChargerRecords
  <2> DEFINE u == [t EXCEPT !.rxAge = 0]
  <2>1. u \in ChargerRecords
    BY <1>1, FramingType
  <2> HIDE DEF u
  <2>2. BadFrame(Discard(u)) \in ChargerRecords
    BY <2>1, PartialType, BadFrameType
  <2>6. u.len \in 0..BodyLen /\ BodyLen \in Nat /\ u.escape \in BOOLEAN
    BY <2>1, FrameAssumption DEF ChargerRecords
  <2>3. u.len < BodyLen => u.len + 1 \in 0..BodyLen
    BY <2>6
  <2>4. u.len < BodyLen =>
          [u EXCEPT !.escape = FALSE, !.len = u.len + 1] \in ChargerRecords
    BY <2>1, <2>3 DEF ChargerRecords
  <2>5. [u EXCEPT !.escape = TRUE] \in ChargerRecords
    BY <2>1 DEF ChargerRecords
  <2>7. RxBody(u, b) \in ChargerRecords
    BY <2>2, <2>4, <2>5, <2>6 DEF RxBody, BodyBytes
  <2> QED
    BY <1>1, <2>7 DEF RxBodyByte, u, t
<1> QED
  BY <1>3, <1>4

\* Time and new inputs keep the type (advance_ms, set_inputs).
LEMMA InputsType ==
    ASSUME NEW s \in ChargerRecords, NEW n \in 1..MaxStep, NEW p \in Pins
    PROVE  Elapse(s, n) \in ChargerRecords /\ ApplyInputs(s, p) \in ChargerRecords
<1>1. Elapse(s, n) \in ChargerRecords
  <2> DEFINE t == [s EXCEPT !.age = Saturate(@ + n), !.rxAge = Saturate(@ + n)]
  <2>1. /\ Saturate(s.age + n) \in 0..AgeCap
        /\ Saturate(s.rxAge + n) \in 0..AgeCap
    BY TimerAssumption DEF ChargerRecords, Saturate
  <2>2. t \in ChargerRecords
    BY <2>1 DEF ChargerRecords
  <2> HIDE DEF t
  <2> QED
    BY <2>2, CheckTimeoutType, PartialType DEF Elapse, t
<1>2. ApplyInputs(s, p) \in ChargerRecords
  <2>1. [s EXCEPT !.pins = p] \in ChargerRecords
    BY DEF ChargerRecords
  <2> QED
    BY <2>1, StepPinsType, CheckTimeoutType DEF ApplyInputs
<1> QED
  BY <1>1, <1>2

\* Taking the reports away keeps the type.
LEMMA FreshType ==
    ASSUME c \in ChargerRecords
    PROVE  Fresh \in ChargerRecords
<1>1. <<>> \in Seq(Records)
  OBVIOUS
<1> QED
  BY <1>1 DEF Fresh, ChargerRecords

\* The initial charger is well typed.
LEMMA InitType == ASSUME Init PROVE TypeOK
<1>1. /\ 0 \in 0..(EnergyMod - 1) /\ 0 \in 0..FrameCap /\ 0 \in 0..AgeCap
      /\ NoSequence \in NoSequence..(SequenceMod - 1) /\ 0 \in 0..BodyLen
      /\ 0 \in 0..BadLimit
  BY FrameAssumption, TimerAssumption DEF NoSequence, BadLimit
<1>2. "IDLE" \in States /\ {} \in SUBSET Causes
  BY DEF States
<1>3. [cp |-> 0, safety |-> FALSE] \in Pins
  BY FrameAssumption DEF Pins
<1>4. <<>> \in Seq(Records)
  OBVIOUS
<1> QED
  BY <1>1, <1>2, <1>3, <1>4 DEF Init, NewCharger, TypeOK, ChargerRecords

\* Every event keeps the charger well typed.
LEMMA NextType == ASSUME TypeOK, [Next]_c PROVE TypeOK'
<1>0. Fresh \in ChargerRecords
  BY FreshType DEF TypeOK
<1>1. ASSUME NEW p \in Pins, SetInputs(p) PROVE TypeOK'
  <2>1. 1 \in 1..MaxStep
    BY TimerAssumption
  <2> QED
    BY <1>0, <1>1, <2>1, InputsType DEF SetInputs, TypeOK
<1>2. ASSUME NEW n \in 1..MaxStep, AdvanceMs(n) PROVE TypeOK'
  <2>1. [cp |-> 0, safety |-> FALSE] \in Pins
    BY FrameAssumption DEF Pins
  <2> QED
    BY <1>0, <1>2, <2>1, InputsType DEF AdvanceMs, TypeOK
<1>3. ASSUME NEW b \in BodyBytes, RxFrameByte(b) PROVE TypeOK'
  BY <1>0, <1>3, RxType DEF RxFrameByte, TypeOK, Frames
<1>4. ASSUME NEW f \in Frames, RxMarkerByte(f) PROVE TypeOK'
  BY <1>0, <1>4, RxType DEF RxMarkerByte, TypeOK, BodyBytes
<1>5. CASE UNCHANGED c
  BY <1>5 DEF TypeOK
<1> QED
  BY <1>1, <1>2, <1>3, <1>4, <1>5 DEF Next

\* Every attribute of the controller keeps its type.
THEOREM TypeCorrect == Spec => []TypeOK
<1>1. Init => TypeOK
  BY InitType
<1>2. TypeOK /\ [Next]_c => TypeOK'
  BY NextType
<1> QED
  BY <1>1, <1>2, PTL DEF Spec

-----------------------------------------------------------------------------
(* Safety.  Sound is what every handler keeps; it holds of every latched   *)
(* state, so only the handlers that stay in a session need an argument.    *)

NotWaiting(s) == s.state = "CONNECTED" => ~MayCharge(s)

Sound(s) == /\ Agrees(s) /\ LinkGood(s)
            /\ CountsBelowDelay(s) /\ NotWaiting(s)

\* The attributes Sound and Expired look at.
SameRules(s, t) ==
    /\ t.state = s.state /\ t.pins = s.pins /\ t.bad = s.bad
    /\ t.healthy = s.healthy /\ t.age = s.age
    /\ t.hold = s.hold /\ t.delay = s.delay

\* A latched state satisfies the session invariants whatever else it holds.
LEMMA LatchedSound ==
    ASSUME NEW s, s.state \in Latched
    PROVE  Sound(s) /\ ~Expired(s)
BY DEF Latched, Sound, Agrees, LinkGood, CountsBelowDelay, NotWaiting,
       Expired, Session

\* The session invariants read seven attributes: a change of the others keeps them.
LEMMA SameSound ==
    ASSUME NEW s, NEW t, SameRules(s, t)
    PROVE  (Sound(s) <=> Sound(t)) /\ (Expired(s) <=> Expired(t))
BY DEF SameRules, Sound, Agrees, LinkGood, CountsBelowDelay, NotWaiting,
       MayCharge, Expired

\* A report changes only the report list.
LEMMA RecordSame ==
    ASSUME NEW s \in ChargerRecords, NEW st \in {"IDLE"} \cup Latched
    PROVE  SameRules(s, Record(s, st))
BY DEF Record, SameRules, ChargerRecords

\* Entering a fault latches it.
LEMMA FaultLatches ==
    ASSUME NEW s \in ChargerRecords, NEW cause \in Causes
    PROVE  EnterFault(s, cause).state = "FAULT"
<1> DEFINE t == [s EXCEPT !.flags = @ \cup {cause}]
<1>1. t \in ChargerRecords
  BY DEF ChargerRecords
<1> HIDE DEF t
<1>2. Record(t, "FAULT") \in ChargerRecords
  BY <1>1, RecordType DEF Latched
<1>3. [Record(t, "FAULT") EXCEPT !.state = "FAULT"].state = "FAULT"
  BY <1>2 DEF ChargerRecords
<1> QED
  BY <1>3 DEF EnterFault, t

\* The watchdog turns a sound state into a sound one that has not expired.
LEMMA CheckTimeoutSound ==
    ASSUME NEW s \in ChargerRecords, Sound(s)
    PROVE  Sound(CheckTimeout(s)) /\ ~Expired(CheckTimeout(s))
<1>1. CASE Expired(s)
  <2> DEFINE r == Record(s, "METER_TIMEOUT")
  <2>1. r \in ChargerRecords
    BY RecordType DEF Latched
  <2> HIDE DEF r
  <2>2. [r EXCEPT !.healthy = FALSE, !.state = "METER_TIMEOUT"].state \in Latched
    BY <2>1 DEF ChargerRecords, Latched
  <2> QED
    BY <1>1, <2>2, LatchedSound DEF CheckTimeout, r
<1>2. CASE ~Expired(s)
  BY <1>2 DEF CheckTimeout
<1> QED
  BY <1>1, <1>2

\* A rejected frame latches a fault or leaves a count below the limit.
LEMMA BadFrameSound ==
    ASSUME NEW s \in ChargerRecords, Sound(s)
    PROVE  Sound(BadFrame(s)) /\ (~Expired(s) => ~Expired(BadFrame(s)))
<1> DEFINE n == IF s.bad < BadLimit THEN s.bad + 1 ELSE BadLimit
           t == [s EXCEPT !.bad = n]
<1>1. t \in ChargerRecords /\ n \in Nat /\ t.bad = n /\ t.state = s.state
  BY DEF ChargerRecords, BadLimit
<1>2. CASE n >= BadLimit /\ s.state \notin Latched
  BY <1>1, <1>2, FaultLatches, LatchedSound DEF BadFrame, Latched, Causes
<1>3. CASE s.state \in Latched
  BY <1>1, <1>3, LatchedSound DEF BadFrame
<1>4. CASE n < BadLimit /\ s.state \notin Latched
  <2>1. BadFrame(s) = t
    BY <1>1, <1>4 DEF BadFrame, BadLimit
  <2>2. /\ t.pins = s.pins /\ t.healthy = s.healthy /\ t.age = s.age
        /\ t.hold = s.hold /\ t.delay = s.delay
    BY DEF ChargerRecords
  <2> HIDE DEF t
  <2> QED
    BY <1>1, <1>4, <2>1, <2>2 DEF Sound, Agrees, LinkGood, CountsBelowDelay,
       NotWaiting, MayCharge, Expired
<1> QED
  BY <1>1, <1>2, <1>3, <1>4 DEF BadLimit

\* Dropping a partial body, with the bad frame it may count, keeps the invariants.
LEMMA PartialSound ==
    ASSUME NEW s \in ChargerRecords, Sound(s)
    PROVE  /\ Sound(Discard(s)) /\ Sound(CheckPartialTimeout(s))
           /\ ~Expired(s) => /\ ~Expired(Discard(s))
                             /\ ~Expired(CheckPartialTimeout(s))
<1>1. SameRules(s, Discard(s))
  BY DEF SameRules, Discard, ChargerRecords
<1>2. Discard(s) \in ChargerRecords
  BY PartialType
<1>3. Sound(Discard(s)) /\ (~Expired(s) => ~Expired(Discard(s)))
  BY <1>1, SameSound
<1> QED
  BY <1>2, <1>3, BadFrameSound DEF CheckPartialTimeout

\* One pass of the pin rules establishes agreement with whatever pins it sees.
LEMMA StepPinsSound ==
    ASSUME NEW s \in ChargerRecords,
           LinkGood(s), CountsBelowDelay(s), ~Expired(s)
    PROVE  Sound(StepPins(s)) /\ ~Expired(StepPins(s))
<1>0. s.pins.cp \in 0..7 /\ s.pins.safety \in BOOLEAN /\ s.state \in States
  BY FrameAssumption DEF ChargerRecords, Pins
<1>1. CASE s.state \in Latched
  <2>1. CASE ~s.pins.safety /\ s.pins.cp = 0
    <3> DEFINE t == [s EXCEPT !.state = "IDLE"]
    <3>1. StepPins(s) = t
      BY <1>0, <1>1, <2>1 DEF StepPins, Latched, Session, MayCharge, Released
    <3>2. t.state = "IDLE" /\ t.pins = s.pins
      BY DEF ChargerRecords
    <3> HIDE DEF t
    <3> QED
      BY <2>1, <3>1, <3>2 DEF Sound, Agrees, LinkGood, CountsBelowDelay,
         NotWaiting, Expired, Session, Latched
  <2>2. CASE ~(~s.pins.safety /\ s.pins.cp = 0)
    <3>1. StepPins(s) = s
      BY <1>0, <1>1, <2>2 DEF StepPins, Latched, Session, MayCharge, Released
    <3> QED
      BY <1>1, <3>1, LatchedSound
  <2> QED
    BY <2>1, <2>2
<1>2. CASE s.state \notin Latched /\ s.pins.safety
  BY <1>2, FaultLatches, LatchedSound DEF StepPins, Latched, Causes
<1>3. CASE s.state \notin Latched /\ ~s.pins.safety /\ s.pins.cp >= 4
  <2>1. StepPins(s) = EnterFault(s, "CP_ERROR")
    BY <1>3, <1>0 DEF StepPins, MayCharge, Latched, Session, Released
  <2> QED
    BY <2>1, FaultLatches, LatchedSound DEF Latched, Causes
<1>4. CASE s.state = "IDLE" /\ ~s.pins.safety /\ s.pins.cp \in 1..3
  <2> DEFINE t == StartSession(s)
  <2>1. StepPins(s) = t
    BY <1>4, <1>0 DEF StepPins, Latched, Session, MayCharge, Released
  <2>2. /\ t.state = "CONNECTED" /\ t.pins = s.pins /\ t.age = 0
        /\ t.healthy = FALSE
    BY DEF StartSession, ChargerRecords
  <2> HIDE DEF t
  <2> QED
    BY <1>4, <2>1, <2>2, TimerAssumption DEF Sound, Agrees, LinkGood,
       CountsBelowDelay, NotWaiting, MayCharge, Expired, Session, Latched
<1>5. CASE s.state \in Session /\ ~s.pins.safety /\ s.pins.cp = 0
  <2> DEFINE r == Record(s, "IDLE")
             t == [r EXCEPT !.state = "IDLE"]
  <2>1. StepPins(s) = Unplug(s)
    BY <1>5, <1>0 DEF StepPins, Latched, Session, MayCharge, Released
  <2>2. r \in ChargerRecords /\ r.pins = s.pins
    BY RecordType, RecordSame DEF SameRules
  <2>3. t.state = "IDLE" /\ t.pins = s.pins
    BY <2>2 DEF ChargerRecords
  <2>4. StepPins(s) = t
    BY <2>1 DEF Unplug
  <2> HIDE DEF t
  <2> QED
    BY <1>5, <2>4, <2>3 DEF Sound, Agrees, LinkGood, CountsBelowDelay,
       NotWaiting, Expired, Session, Latched
<1>6. CASE s.state = "CONNECTED" /\ ~s.pins.safety /\ MayCharge(s)
  <2> DEFINE t == [s EXCEPT !.state = "CHARGING"]
  <2>1. StepPins(s) = t
    BY <1>6, <1>0 DEF StepPins, Latched, Session, MayCharge, Released
  <2>2. /\ t.state = "CHARGING" /\ t.pins = s.pins /\ t.bad = s.bad
        /\ t.age = s.age
    BY DEF ChargerRecords
  <2> HIDE DEF t
  <2> QED
    BY <1>6, <2>1, <2>2 DEF Sound, Agrees, LinkGood,
       CountsBelowDelay, NotWaiting, MayCharge, Expired, Session, Latched
<1>7. CASE s.state \in {"CHARGING", "GRID_HOLD"} /\ ~s.pins.safety
                                                 /\ s.pins.cp \in {1, 3}
  <2> DEFINE t == [s EXCEPT !.state = "CONNECTED"]
  <2>1. StepPins(s) = t
    BY <1>7, <1>0 DEF StepPins, Latched, Session, MayCharge, Released
  <2>2. /\ t.state = "CONNECTED" /\ t.pins = s.pins /\ t.bad = s.bad
        /\ t.age = s.age /\ t.healthy = s.healthy
    BY DEF ChargerRecords
  <2> HIDE DEF t
  <2> QED
    BY <1>7, <2>1, <2>2 DEF Sound, Agrees, LinkGood,
       CountsBelowDelay, NotWaiting, MayCharge, Expired, Session, Latched
<1>8. CASE /\ s.state \notin Latched /\ ~s.pins.safety /\ s.pins.cp < 4
           /\ s.state = "IDLE" => s.pins.cp = 0
           /\ s.state \in Session => s.pins.cp # 0
           /\ s.state = "CONNECTED" => ~MayCharge(s)
           /\ s.state \in {"CHARGING", "GRID_HOLD"} => s.pins.cp \notin {1, 3}
  <2>1. StepPins(s) = s
    BY <1>8, <1>0 DEF StepPins, Latched, Session, Released
  <2>2. s.state = "CONNECTED" => s.pins.cp \in 1..3
    BY <1>8, <1>0 DEF Session
  <2>3. s.state \in {"CHARGING", "GRID_HOLD"} => s.pins.cp = 2
    BY <1>8, <1>0 DEF Session
  <2> QED
    BY <1>8, <2>1, <2>2, <2>3 DEF Sound, Agrees, NotWaiting
<1> QED
  BY <1>0, <1>1, <1>2, <1>3, <1>4, <1>5, <1>6, <1>7, <1>8
     DEF States, Session, Latched

\* The pin rules leave a sound state that is not latched as it is.
LEMMA SoundSettles ==
    ASSUME NEW s \in ChargerRecords, Sound(s), s.state \notin Latched
    PROVE  StepPins(s) = s
<1>0. s.pins.cp \in 0..7 /\ s.pins.safety \in BOOLEAN /\ s.state \in States
  BY FrameAssumption DEF ChargerRecords, Pins
<1>1. /\ ~s.pins.safety
      /\ s.state = "IDLE" => s.pins.cp = 0
      /\ s.state = "CONNECTED" => s.pins.cp \in 1..3 /\ ~MayCharge(s)
      /\ s.state \in {"CHARGING", "GRID_HOLD"} => s.pins.cp = 2
  BY DEF Sound, Agrees, NotWaiting
<1> QED
  BY <1>0, <1>1 DEF StepPins, States, Latched, Session, Released

\* In a sound state the pin rules have nothing left to do.
LEMMA SoundSettled ==
    ASSUME NEW s \in ChargerRecords, Sound(s)
    PROVE  Settled(s)
BY SoundSettles DEF Settled

\* New inputs: two passes and the watchdog.
LEMMA InputsSound ==
    ASSUME NEW s \in ChargerRecords, NEW p \in Pins,
           Sound(s), ~Expired(s)
    PROVE  Sound(ApplyInputs(s, p)) /\ ~Expired(ApplyInputs(s, p))
<1> DEFINE t == [s EXCEPT !.pins = p]
           first == StepPins(t)
           second == IF first.state = s.state THEN first ELSE StepPins(first)
<1>1. t \in ChargerRecords
  BY DEF ChargerRecords
<1>2. LinkGood(t) /\ CountsBelowDelay(t) /\ ~Expired(t)
  <2>1. /\ t.state = s.state /\ t.bad = s.bad /\ t.healthy = s.healthy
        /\ t.age = s.age /\ t.hold = s.hold /\ t.delay = s.delay
    BY DEF ChargerRecords
  <2> HIDE DEF t
  <2> QED
    BY <2>1 DEF Sound, LinkGood, CountsBelowDelay, Expired
<1> HIDE DEF t
<1>3. first \in ChargerRecords /\ Sound(first) /\ ~Expired(first)
  BY <1>1, <1>2, StepPinsType, StepPinsSound
<1> HIDE DEF first
<1>4. /\ StepPins(first) \in ChargerRecords
      /\ Sound(StepPins(first)) /\ ~Expired(StepPins(first))
  BY <1>3, StepPinsType, StepPinsSound DEF Sound
<1>5. second \in ChargerRecords /\ Sound(second)
  BY <1>3, <1>4
<1> HIDE DEF second
<1>6. ApplyInputs(s, p) = CheckTimeout(second)
  BY DEF ApplyInputs, second, first, t
<1> QED
  BY <1>5, <1>6, CheckTimeoutSound

\* Two passes are the fixed point the code loops for.
LEMMA PassesSettle ==
    ASSUME NEW s \in ChargerRecords, LinkGood(s), CountsBelowDelay(s),
           ~Expired(s)
    PROVE  Settled(StepPins(s))
BY StepPinsType, StepPinsSound, SoundSettled

\* Time: whichever deadline falls first, the result is sound and fresh.
LEMMA ElapseSound ==
    ASSUME NEW s \in ChargerRecords, NEW n \in 1..MaxStep,
           Sound(s), ~Expired(s)
    PROVE  Sound(Elapse(s, n)) /\ ~Expired(Elapse(s, n))
<1> DEFINE t == [s EXCEPT !.age = Saturate(@ + n), !.rxAge = Saturate(@ + n)]
<1>1. /\ Saturate(s.age + n) \in 0..AgeCap /\ s.age <= Saturate(s.age + n)
      /\ Saturate(s.rxAge + n) \in 0..AgeCap
  BY TimerAssumption DEF ChargerRecords, Saturate
<1>2. t \in ChargerRecords
  BY <1>1 DEF ChargerRecords
<1>3. Sound(t)
  <2>1. /\ t.state = s.state /\ t.bad = s.bad /\ t.healthy = s.healthy
        /\ t.pins = s.pins /\ t.hold = s.hold /\ t.delay = s.delay
        /\ t.age = Saturate(s.age + n)
    BY DEF ChargerRecords
  <2>2. s.age <= t.age /\ s.age \in Nat /\ t.age \in Nat /\ MeterTimeout \in Nat
    BY <1>1, <2>1, TimerAssumption DEF ChargerRecords
  <2> HIDE DEF t
  <2> QED
    BY <2>1, <2>2 DEF Sound, Agrees, LinkGood, CountsBelowDelay,
       NotWaiting, MayCharge
<1> HIDE DEF t
<1>4. /\ Sound(CheckTimeout(t)) /\ ~Expired(CheckTimeout(t))
      /\ CheckTimeout(t) \in ChargerRecords
  BY <1>2, <1>3, CheckTimeoutSound, CheckTimeoutType
<1>5. Sound(CheckPartialTimeout(t)) /\ CheckPartialTimeout(t) \in ChargerRecords
  BY <1>2, <1>3, PartialSound, PartialType
<1>6. /\ Sound(CheckPartialTimeout(CheckTimeout(t)))
      /\ ~Expired(CheckPartialTimeout(CheckTimeout(t)))
  BY <1>4, PartialSound
<1>7. /\ Sound(CheckTimeout(CheckPartialTimeout(t)))
      /\ ~Expired(CheckTimeout(CheckPartialTimeout(t)))
  BY <1>5, CheckTimeoutSound
<1> QED
  BY <1>6, <1>7 DEF Elapse, t

\* A measurement: the contactor closes, stays closed or opens soundly.
LEMMA MeasureSound ==
    ASSUME NEW s \in ChargerRecords, NEW f \in Frames, Sound(s), ~Expired(s)
    PROVE  /\ Sound(Measure(Accept(s, f), f))
           /\ ~Expired(Measure(Accept(s, f), f))
<1> DEFINE a == Accept(s, f)
<1> SUFFICES Sound(Measure(a, f)) /\ ~Expired(Measure(a, f))
  OBVIOUS
<1>1. a \in ChargerRecords
  BY MeasureType
<1>2. /\ a.state = s.state /\ a.pins = s.pins /\ a.hold = s.hold
      /\ a.delay = s.delay /\ a.bad = 0 /\ a.age = 0
  BY DEF Accept, ChargerRecords
<1> HIDE DEF a
<1>3. /\ Agrees(a) /\ LinkGood(a) /\ CountsBelowDelay(a) /\ ~Expired(a)
  BY <1>2, TimerAssumption DEF Sound, Agrees, LinkGood, CountsBelowDelay,
     Expired, BadLimit
<1>4. /\ f.over \in BOOLEAN /\ f.sag \in BOOLEAN /\ f.hash \in Nat
      /\ HoldBase \in Nat /\ HoldBase > 0 /\ MeterTimeout \in Nat
      /\ MeterTimeout > 0
  BY FrameFields, FrameAssumption, TimerAssumption
<1>5. a.hold \in Nat /\ a.delay \in Nat /\ a.state \in States
  BY <1>1 DEF ChargerRecords
<1>6. CASE \/ a.state = "CHARGING"
           \/ a.state = "CONNECTED" /\ a.pins.cp = 2 /\ ~a.pins.safety
  <2>1. a.pins.cp = 2 /\ ~a.pins.safety
    BY <1>3, <1>6 DEF Agrees, Latched
  <2>2. CASE f.over
    <3>1. Measure(a, f) = EnterFault(a, "OVERCURRENT")
      BY <1>6, <2>2 DEF Measure, MeasureCharging, MeasureHold, MayMeasure
    <3> QED
      BY <1>1, <3>1, FaultLatches, LatchedSound DEF Latched, Causes
  <2>3. CASE ~f.over /\ f.sag
    <3> DEFINE t == EnterHold(a, f)
    <3>1. Measure(a, f) = t
      BY <1>6, <2>3 DEF Measure, MeasureCharging, MeasureHold, MayMeasure
    <3>2. /\ t.state = "GRID_HOLD" /\ t.pins = a.pins /\ t.bad = a.bad
          /\ t.age = a.age /\ t.hold = 0 /\ t.delay = HoldBase + f.hash
      BY <1>1 DEF EnterHold, ChargerRecords
    <3> HIDE DEF t
    <3> QED
      BY <1>2, <1>4, <2>1, <3>1, <3>2 DEF Sound, Agrees, LinkGood,
         CountsBelowDelay, NotWaiting, Expired, Latched, Session, BadLimit
  <2>4. CASE ~f.over /\ ~f.sag
    <3> DEFINE t == Bill(a, f)
    <3>1. Measure(a, f) = t
      BY <1>6, <2>4 DEF Measure, MeasureCharging, MeasureHold, MayMeasure
    <3>2. /\ t.state = "CHARGING" /\ t.pins = a.pins /\ t.bad = a.bad
          /\ t.age = a.age
      BY <1>1 DEF Bill, ChargerRecords
    <3> HIDE DEF t
    <3> QED
      BY <1>2, <1>4, <2>1, <3>1, <3>2 DEF Sound, Agrees, LinkGood,
         CountsBelowDelay, NotWaiting, Expired, Latched, Session, BadLimit
  <2> QED
    BY <1>4, <2>2, <2>3, <2>4
<1>7. CASE a.state = "GRID_HOLD"
  <2>1. a.pins.cp = 2 /\ ~a.pins.safety /\ a.delay >= HoldBase
    BY <1>3, <1>7 DEF Agrees, Latched, CountsBelowDelay
  <2>2. CASE f.sag
    <3> DEFINE t == [a EXCEPT !.hold = 0]
    <3>1. Measure(a, f) = t
      BY <1>7, <2>2 DEF Measure, MeasureCharging, MeasureHold, MayMeasure
    <3>2. /\ t.state = "GRID_HOLD" /\ t.pins = a.pins /\ t.bad = a.bad
          /\ t.age = a.age /\ t.hold = 0 /\ t.delay = a.delay
      BY <1>1, <1>7 DEF ChargerRecords
    <3> HIDE DEF t
    <3> QED
      BY <1>2, <1>4, <1>5, <2>1, <3>1, <3>2 DEF Sound, Agrees, LinkGood,
         CountsBelowDelay, NotWaiting, Expired, Latched, Session, BadLimit
  <2>3. CASE ~f.sag
    <3> DEFINE t == [a EXCEPT !.hold = @ + 1,
                              !.state = IF a.hold + 1 >= a.delay
                                        THEN "CHARGING" ELSE @]
    <3>1. Measure(a, f) = t
      BY <1>7, <2>3 DEF Measure, MeasureCharging, MeasureHold, MayMeasure
    <3>2. /\ t.state = IF a.hold + 1 >= a.delay THEN "CHARGING" ELSE "GRID_HOLD"
          /\ t.pins = a.pins /\ t.bad = a.bad /\ t.age = a.age
          /\ t.hold = a.hold + 1 /\ t.delay = a.delay
      BY <1>1, <1>7 DEF ChargerRecords
    <3> HIDE DEF t
    <3> QED
      BY <1>2, <1>4, <1>5, <2>1, <3>1, <3>2 DEF Sound, Agrees, LinkGood,
         CountsBelowDelay, NotWaiting, Expired, Latched, Session, BadLimit
  <2> QED
    BY <1>4, <2>2, <2>3
<1>8. CASE /\ a.state \notin {"CHARGING", "GRID_HOLD"}
           /\ ~(a.state = "CONNECTED" /\ a.pins.cp = 2 /\ ~a.pins.safety)
  <2>1. Measure(a, f) = a
    BY <1>8 DEF Measure, MeasureCharging, MeasureHold, MayMeasure
  <2>2. NotWaiting(a)
    BY <1>3, <1>8 DEF Agrees, NotWaiting, MayCharge, Latched
  <2> QED
    BY <1>3, <2>1, <2>2 DEF Sound
<1> QED
  BY <1>6, <1>7, <1>8

\* A complete frame keeps the invariants, accepted or not.
LEMMA OnFrameSound ==
    ASSUME NEW s \in ChargerRecords, NEW f \in Frames, Sound(s)
    PROVE  Sound(OnFrame(s, f)) /\ ~Expired(OnFrame(s, f))
<1> DEFINE t == CheckTimeout(s)
<1>1. t \in ChargerRecords /\ Sound(t) /\ ~Expired(t)
  BY CheckTimeoutType, CheckTimeoutSound
<1> HIDE DEF t
<1>2. Sound(BadFrame(t)) /\ ~Expired(BadFrame(t))
  BY <1>1, BadFrameSound
<1>3. Sound(Measure(Accept(t, f), f)) /\ ~Expired(Measure(Accept(t, f), f))
  BY <1>1, MeasureSound
<1> QED
  BY <1>2, <1>3 DEF OnFrame, t

\* Bytes of the meter.
LEMMA RxSound ==
    ASSUME NEW s \in ChargerRecords, NEW f \in Frames, NEW b \in BodyBytes,
           Sound(s), ~Expired(s)
    PROVE  /\ Sound(RxMarker(s, f)) /\ ~Expired(RxMarker(s, f))
           /\ Sound(RxBodyByte(s, b)) /\ ~Expired(RxBodyByte(s, b))
<1> DEFINE t == CheckPartialTimeout(s)
<1>1. t \in ChargerRecords /\ Sound(t) /\ ~Expired(t)
  BY PartialType, PartialSound
<1> HIDE DEF t
<1>2. Sound(RxMarker(s, f)) /\ ~Expired(RxMarker(s, f))
  <2> DEFINE u == CloseBody(t, f)
             v == [u EXCEPT !.len = 0, !.active = TRUE, !.escape = FALSE,
                            !.rxAge = 0]
  <2>1. u \in ChargerRecords /\ Sound(u) /\ ~Expired(u)
    BY <1>1, OnFrameType, BadFrameType, OnFrameSound, BadFrameSound
       DEF CloseBody
  <2> HIDE DEF u
  <2>2. SameRules(u, v)
    BY <2>1 DEF SameRules, ChargerRecords
  <2>3. RxMarker(s, f) = v
    BY DEF RxMarker, u, t
  <2> HIDE DEF v
  <2> QED
    BY <2>1, <2>2, <2>3, SameSound
<1>3. Sound(RxBodyByte(s, b)) /\ ~Expired(RxBodyByte(s, b))
  <2> DEFINE u == [t EXCEPT !.rxAge = 0]
  <2>1. u \in ChargerRecords /\ SameRules(t, u)
    BY <1>1, FramingType DEF SameRules, ChargerRecords
  <2>2. Sound(u) /\ ~Expired(u)
    BY <1>1, <2>1, SameSound
  <2> HIDE DEF u
  <2>3. Sound(BadFrame(Discard(u))) /\ ~Expired(BadFrame(Discard(u)))
    BY <2>1, <2>2, PartialType, PartialSound, BadFrameSound
  <2>4. /\ SameRules(u, [u EXCEPT !.escape = TRUE])
        /\ SameRules(u, [u EXCEPT !.escape = FALSE, !.len = @ + 1])
    BY <2>1 DEF SameRules, ChargerRecords
  <2>5. /\ Sound([u EXCEPT !.escape = TRUE])
        /\ ~Expired([u EXCEPT !.escape = TRUE])
        /\ Sound([u EXCEPT !.escape = FALSE, !.len = @ + 1])
        /\ ~Expired([u EXCEPT !.escape = FALSE, !.len = @ + 1])
    BY <2>2, <2>4, SameSound
  <2>6. u.escape \in BOOLEAN
    BY <2>1 DEF ChargerRecords
  <2>7. Sound(RxBody(u, b)) /\ ~Expired(RxBody(u, b))
    BY <2>3, <2>5, <2>6 DEF RxBody, BodyBytes
  <2> QED
    BY <1>1, <2>7 DEF RxBodyByte, u, t
<1> QED
  BY <1>2, <1>3

\* Forgetting the reports of the last event keeps the invariants.
LEMMA FreshSound ==
    ASSUME c \in ChargerRecords, Sound(c), ~Expired(c)
    PROVE  Fresh \in ChargerRecords /\ Sound(Fresh) /\ ~Expired(Fresh)
<1>1. SameRules(c, Fresh)
  BY DEF SameRules, Fresh, ChargerRecords
<1> QED
  BY <1>1, FreshType, SameSound

-----------------------------------------------------------------------------

\* The inductive invariant: an event starts from a sound controller whose
\* session has not expired, which is what each of its handlers needs.
IInv == TypeOK /\ Sound(c) /\ ~Expired(c)

\* Every reachable charger is sound, whichever events led to it.
THEOREM Inductive == Spec => []IInv
<1>1. Init => IInv
  <2> SUFFICES ASSUME Init PROVE IInv
    OBVIOUS
  <2>1. TypeOK
    BY InitType
  <2>2. /\ c.state = "IDLE" /\ c.pins.cp = 0 /\ ~c.pins.safety
    BY DEF Init, NewCharger
  <2> QED
    BY <2>1, <2>2 DEF IInv, Sound, Agrees, LinkGood, CountsBelowDelay,
       NotWaiting, Expired, Session, Latched
<1>2. IInv /\ [Next]_c => IInv'
  <2> SUFFICES ASSUME IInv, [Next]_c PROVE IInv'
    OBVIOUS
  <2>0. TypeOK'
    BY NextType DEF IInv
  <2>1. Fresh \in ChargerRecords /\ Sound(Fresh) /\ ~Expired(Fresh)
    BY FreshSound DEF IInv, TypeOK
  <2>2. CASE UNCHANGED c
    BY <2>0, <2>2 DEF IInv, Sound, Agrees, LinkGood, CountsBelowDelay,
       NotWaiting, MayCharge, Expired
  <2>3. ASSUME NEW t, c' = t, Sound(t), ~Expired(t) PROVE IInv'
    BY <2>0, <2>3 DEF IInv, Sound, Agrees, LinkGood, CountsBelowDelay,
       NotWaiting, MayCharge, Expired
  <2>4. ASSUME NEW p \in Pins, SetInputs(p) PROVE IInv'
    BY <2>1, <2>3, <2>4, InputsSound DEF SetInputs
  <2>5. ASSUME NEW n \in 1..MaxStep, AdvanceMs(n) PROVE IInv'
    BY <2>1, <2>3, <2>5, ElapseSound DEF AdvanceMs
  <2>6. ASSUME NEW b \in BodyBytes, RxFrameByte(b) PROVE IInv'
    BY <2>1, <2>3, <2>6, RxSound DEF RxFrameByte, Frames
  <2>7. ASSUME NEW f \in Frames, RxMarkerByte(f) PROVE IInv'
    BY <2>1, <2>3, <2>7, RxSound DEF RxMarkerByte, BodyBytes
  <2> QED
    BY <2>2, <2>4, <2>5, <2>6, <2>7 DEF Next
<1> QED
  BY <1>1, <1>2, PTL DEF Spec

\* The state agrees with the inputs last applied: power only while the
\* vehicle asks for it and no safety trip is present.
THEOREM PinsAgreement == Spec => []PinsAgree
<1>1. IInv => PinsAgree
  BY DEF IInv, Sound, PinsAgree
<1> QED
  BY <1>1, Inductive, PTL

\* No session state ever holds with measurements as old as the timeout.
THEOREM SessionFreshness == Spec => []SessionIsFresh
<1>1. IInv => SessionIsFresh
  BY TimerAssumption DEF IInv, TypeOK, ChargerRecords, Expired, SessionIsFresh
<1> QED
  BY <1>1, Inductive, PTL

\* Power and restarts only on a link whose bad count is below the limit.
THEOREM LinkSafety == Spec => []ChargingLinkGood
<1>1. IInv => ChargingLinkGood
  BY DEF IInv, Sound, ChargingLinkGood
<1> QED
  BY <1>1, Inductive, PTL

\* A restart counts below its delay.
THEOREM HoldSafety == Spec => []HoldBelowDelay
<1>1. IInv => HoldBelowDelay
  BY DEF IInv, Sound, HoldBelowDelay
<1> QED
  BY <1>1, Inductive, PTL

\* No event leaves the pin rules anything to do.
THEOREM RulesSettled == Spec => []PinRulesSettled
<1>1. IInv => PinRulesSettled
  BY SoundSettled DEF IInv, TypeOK, PinRulesSettled
<1> QED
  BY <1>1, Inductive, PTL

-----------------------------------------------------------------------------
(* Reports.  An event runs several handlers, and each might report; Exact  *)
(* says what the event as a whole must have done to the report list.       *)

Report(s, status, flags) == [energy |-> s.energy, status |-> status,
                             flags |-> flags, frames |-> s.frames]

Ends(s, t) == \/ s.state \notin Latched /\ t.state \in Latched
              \/ s.state \in Session /\ t.state = "IDLE"

Exact(s, t) ==
    /\ t.tx = IF Ends(s, t) THEN <<Report(s, t.state, t.flags)>> ELSE <<>>
    /\ s.state \in Latched =>
         /\ t.state # s.state => t.state = "IDLE" /\ Released(t)
         /\ t.energy = s.energy /\ t.frames = s.frames

\* The attributes Exact looks at.
SameReport(s, t) == /\ t.state = s.state /\ t.pins = s.pins /\ t.tx = s.tx
                    /\ t.energy = s.energy /\ t.frames = s.frames /\ t.flags = s.flags

\* A handler that changes no attribute of a report may come before or after.
LEMMA SameExact ==
    ASSUME NEW s, NEW t, NEW u, NEW v, Exact(t, u), SameReport(s, t), SameReport(u, v)
    PROVE  Exact(s, v)
BY DEF Exact, Ends, Report, SameReport, Released

\* Doing nothing reports nothing.
LEMMA NothingExact ==
    ASSUME NEW s, NEW t, s.tx = <<>>, SameReport(s, t)
    PROVE  Exact(s, t)
BY DEF Exact, Ends, SameReport, Latched, Session

\* A fault of a running charger is reported once, with its cause.
LEMMA FaultExact ==
    ASSUME NEW s \in ChargerRecords, NEW cause \in Causes, s.tx = <<>>,
           s.state \notin Latched
    PROVE  /\ Exact(s, EnterFault(s, cause))
           /\ EnterFault(s, cause).pins = s.pins
<1> DEFINE t == [s EXCEPT !.flags = @ \cup {cause}]
           r == Record(t, "FAULT")
           u == [r EXCEPT !.state = "FAULT"]
<1>1. /\ t \in ChargerRecords /\ t.tx = <<>> /\ t.energy = s.energy /\ t.frames = s.frames
      /\ t.pins = s.pins
  BY DEF ChargerRecords
<1> HIDE DEF t
<1>2. r \in ChargerRecords
  BY <1>1, RecordType DEF Latched
<1>3. /\ r.tx = <<Report(s, "FAULT", t.flags)>> /\ r.flags = t.flags /\ r.pins = s.pins
  BY <1>1 DEF Record, Report, ChargerRecords
<1> HIDE DEF r
<1>4. /\ u.tx = <<Report(s, "FAULT", u.flags)>> /\ u.state = "FAULT" /\ u.pins = s.pins
  BY <1>2, <1>3 DEF ChargerRecords
<1>5. EnterFault(s, cause) = u
  BY DEF EnterFault, r, t
<1> HIDE DEF u
<1> QED BY <1>4, <1>5 DEF Exact, Ends, Latched

\* A rejected frame reports the fault it latches, and nothing otherwise.
LEMMA BadFrameExact ==
    ASSUME NEW s \in ChargerRecords, s.tx = <<>>
    PROVE  Exact(s, BadFrame(s))
<1> DEFINE n == IF s.bad < BadLimit THEN s.bad + 1 ELSE BadLimit
           t == [s EXCEPT !.bad = n]
<1>1. t \in ChargerRecords /\ SameReport(s, t)
  BY DEF ChargerRecords, BadLimit, SameReport
<1> HIDE DEF n, t
<1>2. CASE n >= BadLimit /\ s.state \notin Latched
  <2>1. Exact(t, EnterFault(t, "CRC_LOST"))
    BY <1>1, <1>2, FaultExact DEF SameReport, Causes
  <2>2. BadFrame(s) = EnterFault(t, "CRC_LOST")
    BY <1>2 DEF BadFrame, n, t
  <2>3. Exact(s, EnterFault(t, "CRC_LOST"))
    BY <1>1, <2>1 DEF Exact, Ends, Report, SameReport, Released
  <2> QED BY <2>2, <2>3
<1>3. CASE ~(n >= BadLimit /\ s.state \notin Latched)
  <2>1. BadFrame(s) = t
    BY <1>3 DEF BadFrame, n, t
  <2> QED BY <1>1, <2>1, NothingExact
<1> QED BY <1>2, <1>3

\* An expired session is reported as such.
LEMMA CheckTimeoutExact ==
    ASSUME NEW s \in ChargerRecords, s.tx = <<>>
    PROVE  Exact(s, CheckTimeout(s))
<1>1. CASE Expired(s)
  <2> DEFINE r == Record(s, "METER_TIMEOUT")
             u == [r EXCEPT !.healthy = FALSE, !.state = "METER_TIMEOUT"]
  <2>1. r \in ChargerRecords
    BY RecordType DEF Latched
  <2>2. r.tx = <<Report(s, "METER_TIMEOUT", r.flags)>>
    BY DEF Record, Report, ChargerRecords
  <2> HIDE DEF r
  <2>3. u.tx = <<Report(s, "METER_TIMEOUT", u.flags)>> /\ u.state = "METER_TIMEOUT"
    BY <2>1, <2>2 DEF ChargerRecords
  <2>4. CheckTimeout(s) = u
    BY <1>1 DEF CheckTimeout, r
  <2> HIDE DEF u
  <2>5. s.state \notin Latched
    BY <1>1 DEF Expired, Session, Latched
  <2> QED BY <2>3, <2>4, <2>5 DEF Exact, Ends, Latched
<1>2. CASE ~Expired(s)
  BY <1>2, NothingExact DEF CheckTimeout, SameReport
<1> QED BY <1>1, <1>2
\* The rule that applies, by state and pins.
LEMMA PinRules ==
    ASSUME NEW s \in ChargerRecords
    PROVE  /\ s.state \in Latched =>
                StepPins(s) = IF Released(s) THEN [s EXCEPT !.state = "IDLE"] ELSE s
           /\ s.state \notin Latched /\ s.pins.safety => StepPins(s) = EnterFault(s, "ESTOP")
           /\ s.state \notin Latched /\ ~s.pins.safety /\ s.pins.cp >= 4 =>
                StepPins(s) = EnterFault(s, "CP_ERROR")
           /\ s.state \in Session /\ ~s.pins.safety /\ s.pins.cp = 0 =>
                StepPins(s) = Unplug(s)
           /\ s.state = "IDLE" /\ ~s.pins.safety /\ s.pins.cp < 4 =>
                StepPins(s) = IF s.pins.cp = 0 THEN s ELSE StartSession(s)
           /\ s.state \in Session /\ ~s.pins.safety /\ s.pins.cp \in 1..3 =>
                \E st \in Session : StepPins(s) = [s EXCEPT !.state = st]
<1>0. s.pins.cp \in 0..7 /\ s.pins.safety \in BOOLEAN /\ s.state \in States
  BY FrameAssumption DEF ChargerRecords, Pins
<1>1. CASE s.state \in Latched
  BY <1>0, <1>1 DEF StepPins, Latched, Session
<1>2. CASE s.state \notin Latched /\ (s.pins.safety \/ s.pins.cp >= 4)
  BY <1>0, <1>2 DEF StepPins, MayCharge, Session
<1>3. CASE s.state \in Session /\ ~s.pins.safety /\ s.pins.cp = 0
  BY <1>0, <1>3 DEF StepPins, MayCharge, Latched, Session
<1>4. CASE s.state = "IDLE" /\ ~s.pins.safety /\ s.pins.cp < 4
  BY <1>0, <1>4 DEF StepPins, Latched, Session
<1>5. CASE s.state \in Session /\ ~s.pins.safety /\ s.pins.cp \in 1..3
  <2>1. s = [s EXCEPT !.state = s.state]
    BY DEF ChargerRecords
  <2>2. \/ StepPins(s) = s
        \/ StepPins(s) = [s EXCEPT !.state = "CHARGING"]
        \/ StepPins(s) = [s EXCEPT !.state = "CONNECTED"]
    BY <1>0, <1>5 DEF StepPins, MayCharge, Latched, Session
  <2> QED BY <1>5, <2>1, <2>2 DEF Session, Latched
<1> QED BY <1>0, <1>1, <1>2, <1>3, <1>4, <1>5 DEF States, Latched, Session

\* One pass of the pin rules, and what a second pass would do: nothing.
LEMMA StepPinsExact ==
    ASSUME NEW s \in ChargerRecords, s.tx = <<>>
    PROVE  Exact(s, StepPins(s)) /\ StepPins(s).pins = s.pins
<1>0. s.pins.cp \in 0..7 /\ s.pins.safety \in BOOLEAN /\ s.state \in States
  BY FrameAssumption DEF ChargerRecords, Pins
<1>1. CASE s.state \in Latched /\ Released(s)
  <2> DEFINE t == [s EXCEPT !.state = "IDLE"]
  <2>1. StepPins(s) = t
    BY <1>1, PinRules
  <2>2. /\ t.state = "IDLE" /\ t.tx = <<>> /\ t.pins = s.pins /\ t.energy = s.energy
        /\ t.frames = s.frames
    BY DEF ChargerRecords
  <2> HIDE DEF t
  <2> QED BY <1>1, <2>1, <2>2 DEF Exact, Ends, Released, Latched, Session
<1>2. CASE s.state \notin Latched /\ (s.pins.safety \/ s.pins.cp >= 4)
  <2>1. \/ StepPins(s) = EnterFault(s, "ESTOP") \/ StepPins(s) = EnterFault(s, "CP_ERROR")
    BY <1>0, <1>2, PinRules
  <2> QED BY <1>2, <2>1, FaultExact DEF Causes
<1>3. CASE s.state \in Session /\ ~s.pins.safety /\ s.pins.cp = 0
  <2> DEFINE r == Record(s, "IDLE")
             t == [r EXCEPT !.state = "IDLE"]
  <2>1. StepPins(s) = t
    BY <1>3, PinRules DEF Unplug
  <2>2. r \in ChargerRecords
    BY RecordType
  <2>4. r.tx = <<Report(s, "IDLE", r.flags)>> /\ r.pins = s.pins
    BY DEF Record, Report, ChargerRecords
  <2> HIDE DEF r
  <2>3. t.tx = <<Report(s, "IDLE", t.flags)>> /\ t.state = "IDLE" /\ t.pins = s.pins
    BY <2>2, <2>4 DEF ChargerRecords
  <2> HIDE DEF t
  <2> QED BY <1>3, <2>1, <2>3 DEF Exact, Ends, Latched, Session
<1>4. CASE \/ s.state \in Latched /\ ~Released(s)
           \/ s.state = "IDLE" /\ ~s.pins.safety /\ s.pins.cp < 4
           \/ s.state \in Session /\ ~s.pins.safety /\ s.pins.cp \in 1..3
  <2> DEFINE t == StepPins(s)
  <2>1. \/ t = s \/ (s.state = "IDLE" /\ t = StartSession(s))
        \/ s.state \in Session /\ \E st \in Session : t = [s EXCEPT !.state = st]
    BY <1>4, PinRules
  <2>2. t.tx = <<>> /\ t.pins = s.pins
    BY <2>1 DEF StartSession, ChargerRecords
  <2>3. t = s \/ (s.state \in {"IDLE"} \cup Session /\ t.state \in Session)
    BY <2>1 DEF StartSession, ChargerRecords, Session
  <2> HIDE DEF t
  <2>4. Exact(s, t)
    BY <2>2, <2>3 DEF Exact, Ends, Latched, Session
  <2> QED BY <2>2, <2>4 DEF t
<1> QED BY <1>0, <1>1, <1>2, <1>3, <1>4 DEF States, Session

\* What the first pass leaves, the second one leaves as it is.
LEMMA SecondPass ==
    ASSUME NEW s \in ChargerRecords, s.tx = <<>>,
           LinkGood(s), CountsBelowDelay(s), ~Expired(s)
    PROVE  StepPins(StepPins(s)) = StepPins(s)
<1> DEFINE t == StepPins(s)
<1>1. t \in ChargerRecords /\ Sound(t) /\ t.pins = s.pins
  BY StepPinsType, StepPinsSound, StepPinsExact
<1>2. t.state \in Latched => ~Released(t) \/ t = [s EXCEPT !.state = "IDLE"]
  <2>0. s.pins.cp \in 0..7 /\ s.pins.safety \in BOOLEAN /\ s.state \in States
    BY FrameAssumption DEF ChargerRecords, Pins
  <2>1. CASE s.state \in Latched
    BY <2>1, PinRules
  <2>2. CASE s.state \notin Latched /\ (s.pins.safety \/ s.pins.cp # 0)
    BY <1>1, <2>2 DEF Released
  <2>3. CASE s.state \notin Latched /\ ~s.pins.safety /\ s.pins.cp = 0
    <3>1. t = s \/ t = Unplug(s)
      BY <2>0, <2>3, PinRules DEF States
    <3>2. Record(s, "IDLE") \in ChargerRecords
      BY RecordType
    <3>3. Unplug(s).state = "IDLE"
      BY <3>2 DEF Unplug, ChargerRecords
    <3> QED BY <2>3, <3>1, <3>3 DEF Latched
  <2> QED BY <2>1, <2>2, <2>3
<1>3. [s EXCEPT !.state = "IDLE"].state = "IDLE"
  BY DEF ChargerRecords
<1> HIDE DEF t
<1>4. CASE t.state \in Latched
  <2>1. ~Released(t)
    BY <1>2, <1>3, <1>4 DEF Latched
  <2> QED BY <1>1, <1>4, <2>1, PinRules DEF t
<1>5. CASE t.state \notin Latched
  <2>1. StepPins(t) = t
    BY <1>1, <1>5, SoundSettles
  <2> QED BY <2>1 DEF t
<1> QED BY <1>4, <1>5
\* New inputs: the first pass decides, and the watchdog finds nothing.
LEMMA InputsExact ==
    ASSUME NEW s \in ChargerRecords, NEW p \in Pins, s.tx = <<>>, Sound(s), ~Expired(s)
    PROVE  Exact(s, ApplyInputs(s, p))
<1> DEFINE t == [s EXCEPT !.pins = p]
           first == StepPins(t)
<1>1. /\ t \in ChargerRecords /\ t.tx = <<>> /\ t.state = s.state
      /\ t.energy = s.energy /\ t.frames = s.frames
      /\ t.bad = s.bad /\ t.healthy = s.healthy /\ t.age = s.age
      /\ t.hold = s.hold /\ t.delay = s.delay
  BY DEF ChargerRecords
<1> HIDE DEF t
<1>2. LinkGood(t) /\ CountsBelowDelay(t) /\ ~Expired(t)
  BY <1>1 DEF Sound, LinkGood, CountsBelowDelay, Expired
<1>3. Exact(t, first) /\ ~Expired(first) /\ StepPins(first) = first
  BY <1>1, <1>2, StepPinsExact, StepPinsSound, SecondPass
<1> HIDE DEF first
<1>4. ApplyInputs(s, p) = first
  BY <1>3 DEF ApplyInputs, CheckTimeout, first, t
<1> QED BY <1>1, <1>3, <1>4 DEF Exact, Ends, Report

\* A dropped body reports the fault it latches, and nothing otherwise.
LEMMA PartialExact ==
    ASSUME NEW s \in ChargerRecords
    PROVE  /\ s.tx = <<>> => Exact(s, BadFrame(Discard(s))) /\ Exact(s, CheckPartialTimeout(s))
           /\ \/ SameReport(s, CheckPartialTimeout(s))
              \/ s.state \notin Latched /\ CheckPartialTimeout(s).state \in Latched
<1>1. Discard(s) \in ChargerRecords
  BY PartialType
<1>2. SameReport(s, Discard(s))
  BY DEF Discard, SameReport, ChargerRecords
<1> DEFINE d == Discard(s)
           n == IF d.bad < BadLimit THEN d.bad + 1 ELSE BadLimit
           e == [d EXCEPT !.bad = n]
<1> HIDE DEF d
<1>3. d \in ChargerRecords /\ SameReport(s, d)
  BY <1>1, <1>2 DEF d
<1>9. n \in 0..BadLimit
  BY <1>3 DEF ChargerRecords, BadLimit
<1> HIDE DEF n
<1>4. e \in ChargerRecords /\ SameReport(s, e)
  BY <1>3, <1>9 DEF SameReport, ChargerRecords
<1>5. \/ BadFrame(d) = e
      \/ d.state \notin Latched /\ BadFrame(d) = EnterFault(e, "CRC_LOST")
  BY DEF BadFrame, n
<1> HIDE DEF e
<1>6. \/ SameReport(s, BadFrame(d))
      \/ s.state \notin Latched /\ BadFrame(d).state \in Latched
  BY <1>3, <1>4, <1>5, FaultLatches DEF SameReport, Causes, Latched
<1>7. s.tx = <<>> => Exact(s, BadFrame(d))
  <2>1. SameReport(BadFrame(d), BadFrame(d))
    BY DEF SameReport
  <2>2. s.tx = <<>> => Exact(d, BadFrame(d))
    BY <1>3, BadFrameExact DEF SameReport
  <2> QED BY <1>3, <2>1, <2>2, SameExact
<1>8. s.tx = <<>> => Exact(s, s) /\ Exact(s, d)
  BY <1>3, NothingExact DEF SameReport
<1> QED BY <1>3, <1>6, <1>7, <1>8 DEF CheckPartialTimeout, d, SameReport

\* Time: whichever deadline falls first, at most one of them is reported.
LEMMA ElapseExact ==
    ASSUME NEW s \in ChargerRecords, NEW n \in 1..MaxStep, s.tx = <<>>
    PROVE  Exact(s, Elapse(s, n))
<1> DEFINE t == [s EXCEPT !.age = Saturate(@ + n), !.rxAge = Saturate(@ + n)]
           p == CheckPartialTimeout(t)
           w == CheckTimeout(t)
<1>1. t \in ChargerRecords /\ SameReport(s, t)
  <2>1. Saturate(s.age + n) \in 0..AgeCap /\ Saturate(s.rxAge + n) \in 0..AgeCap
    BY TimerAssumption DEF ChargerRecords, Saturate
  <2> QED BY <2>1 DEF ChargerRecords, SameReport
<1>2. Elapse(s, n) = IF PartialDueFirst(s) THEN CheckTimeout(p) ELSE CheckPartialTimeout(w)
  BY DEF Elapse
<1> HIDE DEF t
<1>3. /\ p \in ChargerRecords /\ w \in ChargerRecords /\ t.tx = <<>>
      /\ Exact(t, p) /\ Exact(t, w)
      /\ SameReport(t, p) \/ (t.state \notin Latched /\ p.state \in Latched)
      /\ w = t \/ w.state \in Latched
  <2>1. Record(t, "METER_TIMEOUT") \in ChargerRecords
    BY <1>1, RecordType DEF Latched
  <2>2. [Record(t, "METER_TIMEOUT") EXCEPT !.healthy = FALSE,
           !.state = "METER_TIMEOUT"].state = "METER_TIMEOUT"
    BY <2>1 DEF ChargerRecords
  <2>3. w = t \/ w.state \in Latched
    BY <2>2 DEF CheckTimeout, Latched
  <2> QED BY <1>1, <2>3, PartialExact, PartialType, CheckTimeoutExact, CheckTimeoutType
          DEF SameReport
<1> HIDE DEF p, w
<1>4. Exact(t, CheckTimeout(p))
  <2>1. CASE p.state \in Latched
    BY <1>3, <2>1 DEF CheckTimeout, Expired, Session, Latched
  <2>2. CASE SameReport(t, p)
    <3>1. Exact(p, CheckTimeout(p))
      BY <1>3, <2>2, CheckTimeoutExact DEF SameReport
    <3> QED BY <2>2, <3>1, SameExact DEF SameReport
  <2> QED BY <1>3, <2>1, <2>2
<1>5. Exact(t, CheckPartialTimeout(w))
  <2>1. CASE w.state \in Latched
    <3>1. SameReport(w, CheckPartialTimeout(w))
      BY <1>3, <2>1, PartialExact
    <3> QED BY <1>3, <3>1, SameExact DEF SameReport
  <2>2. CASE w = t
    BY <1>3, <2>2, PartialExact
  <2> QED BY <1>3, <2>1, <2>2
<1> QED BY <1>1, <1>2, <1>4, <1>5, SameExact DEF SameReport

\* A measurement reports the fault it latches; the bill comes after the report.
LEMMA MeasureExact ==
    ASSUME NEW s \in ChargerRecords, NEW f \in Frames, s.tx = <<>>
    PROVE  Exact(s, Measure(Accept(s, f), f))
<1> DEFINE a == Accept(s, f)
<1>1. a \in ChargerRecords
  BY MeasureType
<1>2. /\ a.state = s.state /\ a.tx = <<>> /\ a.energy = s.energy /\ a.frames = s.frames
  BY DEF Accept, ChargerRecords
<1> HIDE DEF a
<1>3. f.over \in BOOLEAN /\ f.sag \in BOOLEAN
  BY FrameFields
<1>4. CASE Measure(a, f) = EnterFault(a, "OVERCURRENT") /\ a.state \notin Latched
  <2>1. Exact(a, EnterFault(a, "OVERCURRENT"))
    BY <1>1, <1>2, <1>4, FaultExact DEF Causes
  <2> QED BY <1>2, <1>4, <2>1 DEF Exact, Ends, Report, a
<1>5. CASE Measure(a, f) = a
  BY <1>2, <1>5 DEF Exact, Ends, a, Latched, Session
<1>6. CASE /\ a.state \in Session
           /\ \/ Measure(a, f) = EnterHold(a, f) \/ Measure(a, f) = Bill(a, f)
              \/ Measure(a, f) = MeasureHold(a, f)
  <2>1. EnterHold(a, f).state \in Session /\ EnterHold(a, f).tx = a.tx
    BY <1>1 DEF EnterHold, ChargerRecords, Session
  <2>2. Bill(a, f).state \in Session /\ Bill(a, f).tx = a.tx
    BY <1>1 DEF Bill, ChargerRecords, Session
  <2>3. MeasureHold(a, f).state \in Session /\ MeasureHold(a, f).tx = a.tx
    BY <1>1, <1>6 DEF MeasureHold, ChargerRecords, Session
  <2>4. Measure(a, f).state \in Session /\ Measure(a, f).tx = <<>>
    BY <1>2, <1>6, <2>1, <2>2, <2>3
  <2> QED BY <1>2, <1>6, <2>4 DEF Exact, Ends, a, Latched, Session
<1>7. \/ Measure(a, f) = a
      \/ /\ a.state \in Session
         /\ \/ Measure(a, f) = EnterFault(a, "OVERCURRENT")
            \/ Measure(a, f) = EnterHold(a, f) \/ Measure(a, f) = Bill(a, f)
            \/ Measure(a, f) = MeasureHold(a, f)
  BY <1>3 DEF Measure, MeasureCharging, MayMeasure, Session
<1> QED BY <1>4, <1>5, <1>6, <1>7 DEF a, Session, Latched

\* Bytes of the meter: the first fault is the only report, whichever check of
\* the byte finds it.
LEMMA RxExact ==
    ASSUME NEW s \in ChargerRecords, NEW f \in Frames, NEW b \in BodyBytes,
           s.tx = <<>>, ~Expired(s)
    PROVE  Exact(s, RxMarker(s, f)) /\ Exact(s, RxBodyByte(s, b))
<1> DEFINE t == CheckPartialTimeout(s)
           u == CloseBody(t, f)
           v == [u EXCEPT !.len = 0, !.active = TRUE, !.escape = FALSE, !.rxAge = 0]
           w == [t EXCEPT !.rxAge = 0]
<1>0. s.len \in 0..BodyLen /\ s.active \in BOOLEAN /\ s.escape \in BOOLEAN /\ BodyLen \in Nat
  BY FrameAssumption DEF ChargerRecords
<1>1. t \in ChargerRecords /\ Exact(s, t) /\ (t = s \/ (~Partial(t) /\ ~t.active))
  <2>1. ~Partial(Discard(s)) /\ ~Discard(s).active
    BY DEF Discard, Partial, ChargerRecords
  <2>2. Discard(s) \in ChargerRecords
    BY PartialType
  <2> DEFINE d == Discard(s)
  <2> HIDE DEF d
  <2>3. BadFrame(d).active = d.active
    <3> DEFINE n == IF d.bad < BadLimit THEN d.bad + 1 ELSE BadLimit
               e == [d EXCEPT !.bad = n]
               k == [e EXCEPT !.flags = @ \cup {"CRC_LOST"}]
               r == Record(k, "FAULT")
    <3>0. n \in 0..BadLimit
      BY <2>2 DEF d, ChargerRecords, BadLimit
    <3> HIDE DEF n
    <3>1. e \in ChargerRecords /\ e.active = d.active
      BY <2>2, <3>0 DEF d, ChargerRecords
    <3> HIDE DEF e
    <3>2. k \in ChargerRecords /\ k.active = d.active
      BY <3>1 DEF ChargerRecords, Causes
    <3> HIDE DEF k
    <3>3. r \in ChargerRecords /\ r.active = d.active
      BY <3>2, RecordType DEF Record, ChargerRecords, Latched
    <3> HIDE DEF r
    <3>4. [r EXCEPT !.state = "FAULT"].active = d.active
      BY <3>3 DEF ChargerRecords
    <3>5. BadFrame(d) = e \/ BadFrame(d) = [r EXCEPT !.state = "FAULT"]
      BY DEF BadFrame, EnterFault, r, k, e, n
    <3> QED BY <3>1, <3>4, <3>5
  <2>4. t = s \/ t = Discard(s) \/ t = BadFrame(Discard(s))
    BY DEF CheckPartialTimeout
  <2> QED BY <2>1, <2>3, <2>4, PartialExact, PartialType DEF Partial, d
<1>2. Exact(s, u) /\ u \in ChargerRecords
  <2>1. u \in ChargerRecords
    BY <1>1, OnFrameType, BadFrameType DEF CloseBody
  <2>2. CASE ~Partial(t)
    BY <1>1, <2>1, <2>2 DEF CloseBody
  <2>3. CASE Partial(t)
    <3>1. t = s
      BY <1>1, <2>3
    <3>2. u = BadFrame(s) \/ u = OnFrame(s, f)
      BY <1>0, <2>3, <3>1 DEF CloseBody
    <3>3. OnFrame(s, f) = BadFrame(s) \/ OnFrame(s, f) = Measure(Accept(s, f), f)
      BY DEF OnFrame, CheckTimeout
    <3> QED BY <2>1, <3>2, <3>3, BadFrameExact, MeasureExact
  <2> QED BY <2>2, <2>3
<1>3. Exact(s, RxMarker(s, f))
  <2>1. RxMarker(s, f) = v
    BY DEF RxMarker
  <2> HIDE DEF u
  <2>2. SameReport(u, v)
    BY <1>2 DEF SameReport, ChargerRecords
  <2> QED BY <1>2, <2>1, <2>2, SameExact DEF SameReport
<1>4. Exact(s, RxBodyByte(s, b))
  <2>1. CASE ~t.active
    BY <1>1, <2>1 DEF RxBodyByte
  <2>2. CASE t.active
    <3>1. t = s /\ RxBodyByte(s, b) = RxBody(w, b)
      BY <1>1, <2>2 DEF RxBodyByte
    <3> HIDE DEF t
    <3>2. w \in ChargerRecords /\ SameReport(s, w)
      BY <3>1, FramingType DEF SameReport, ChargerRecords
    <3> HIDE DEF w
    <3>3. \/ RxBody(w, b) = BadFrame(Discard(w))
          \/ RxBody(w, b) = [w EXCEPT !.escape = TRUE]
          \/ RxBody(w, b) = [w EXCEPT !.escape = FALSE, !.len = @ + 1]
      <4>1. w.escape \in BOOLEAN
        BY <3>2 DEF ChargerRecords
      <4> QED BY <4>1 DEF RxBody, BodyBytes
    <3>4. /\ SameReport(w, [w EXCEPT !.escape = TRUE])
          /\ SameReport(w, [w EXCEPT !.escape = FALSE, !.len = @ + 1])
      BY <3>2 DEF SameReport, ChargerRecords
    <3>5. Exact(w, BadFrame(Discard(w)))
      BY <3>2, PartialExact DEF SameReport
    <3>6. Exact(w, RxBody(w, b))
      BY <3>2, <3>3, <3>4, <3>5, NothingExact DEF SameReport
    <3> QED BY <3>1, <3>2, <3>6, SameExact DEF SameReport
  <2> QED BY <2>1, <2>2
<1> QED BY <1>3, <1>4

\* Every event is exact, from any state the charger reaches.
LEMMA EventExact ==
    ASSUME IInv, Next
    PROVE  Exact(c, c')
<1>1. /\ Fresh \in ChargerRecords /\ Sound(Fresh) /\ ~Expired(Fresh)
  BY FreshSound DEF IInv, TypeOK
<1>2. /\ Fresh.tx = <<>> /\ Fresh.state = c.state /\ Fresh.energy = c.energy
      /\ Fresh.frames = c.frames
  BY DEF Fresh, IInv, TypeOK, ChargerRecords
<1>3. Exact(Fresh, c')
  <2>1. ASSUME NEW p \in Pins, SetInputs(p) PROVE Exact(Fresh, c')
    BY <1>1, <1>2, <2>1, InputsExact DEF SetInputs
  <2>2. ASSUME NEW n \in 1..MaxStep, AdvanceMs(n) PROVE Exact(Fresh, c')
    BY <1>1, <1>2, <2>2, ElapseExact DEF AdvanceMs
  <2>3. ASSUME NEW b \in BodyBytes, RxFrameByte(b) PROVE Exact(Fresh, c')
    BY <1>1, <1>2, <2>3, RxExact DEF RxFrameByte, Frames
  <2>4. ASSUME NEW f \in Frames, RxMarkerByte(f) PROVE Exact(Fresh, c')
    BY <1>1, <1>2, <2>4, RxExact DEF RxMarkerByte, BodyBytes
  <2> QED BY <2>1, <2>2, <2>3, <2>4 DEF Next
<1> QED BY <1>2, <1>3 DEF Exact, Ends, Report

\* An event reports once if it ends a session or latches a fault, and not at
\* all otherwise; the report has the totals the event found.
THEOREM ReportExactness == Spec => ReportsAreExact
<1>1. ASSUME Exact(c, c')
      PROVE  LET latches == c.state \notin Latched /\ c'.state \in Latched
                 unplugs == c.state \in Session /\ c'.state = "IDLE"
             IN  IF latches \/ unplugs
                 THEN /\ Len(c'.tx) = 1
                      /\ c'.tx[1].status = c'.state
                      /\ c'.tx[1].energy = c.energy
                      /\ c'.tx[1].frames = c.frames
                      /\ c'.tx[1].flags = c'.flags
                 ELSE c'.tx = <<>>
  BY <1>1 DEF Exact, Ends, Report
<1> QED
  BY <1>1, EventExact, Inductive, PTL DEF Spec, ReportsAreExact

\* A latched fault is released by the pins alone, and its totals stay.
THEOREM FaultLatching == Spec => LatchHolds
<1>1. ASSUME IInv, Next
      PROVE  c.state \in Latched =>
               /\ c'.state # c.state => /\ c'.state = "IDLE"
                                        /\ c'.pins = [cp |-> 0, safety |-> FALSE]
               /\ c'.energy = c.energy /\ c'.frames = c.frames
  <2>1. Exact(c, c')
    BY <1>1, EventExact
  <2>2. TypeOK'
    BY <1>1, NextType DEF IInv
  <2>3. c'.pins.safety \in BOOLEAN /\ c'.pins = [cp |-> c'.pins.cp, safety |-> c'.pins.safety]
    BY <2>2 DEF TypeOK, ChargerRecords, Pins
  <2> QED BY <2>1, <2>3 DEF Exact, Released
<1> QED
  BY <1>1, Inductive, PTL DEF Spec, LatchHolds
=============================================================================
