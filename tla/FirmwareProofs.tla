---------------------------- MODULE FirmwareProofs ----------------------------
(***************************************************************************)
(* The firmware between any two accesses to its peripherals: the outputs   *)
(* show its state, a record is begun only when they do, and a byte of it   *)
(* only when the transmitter is free.  Then the lockstep: the firmware and *)
(* its golden model agree, for every timeout, body length and modulus, and *)
(* whatever the pins, the timers and the line do between two accesses.     *)
(***************************************************************************)
EXTENDS FirmwareLockstep, TLAPS

Returns == {"ap_check", "poll", "pu_read", "pu_start", "pu_done"}

Typed == /\ tp \in States /\ ret \in Returns
         /\ bad \in 0..BadLimit /\ frames \in 0..FrameCap /\ hold \in Nat /\ delay \in Nat
         /\ len \in Nat /\ age \in Nat /\ rxAge \in Nat
         /\ healthy \in BOOLEAN /\ escape \in BOOLEAN /\ active \in BOOLEAN
         /\ pins \in [cp : 0..7, safety : BOOLEAN]

\* The outputs are written with the state.
OutputsShow == dataout = OutOf(tp)

\* A parser that waits for a marker holds nothing.
ParserFits == ~active => len = 0 /\ ~escape

\* What led to an access still holds when it is made.
ControlFits ==
    /\ pc = "ap_timer" => tp = "CONNECTED" /\ healthy
    /\ pc = "wd" => tp \in Session
    /\ pc = "pu_age" => active
    /\ pc = "pu_touch" => active /\ byte.kind \in BodyKinds
    /\ pc \in {"of_fresh", "of_pins"} => /\ active /\ len = BodyLen /\ len > 0 /\ ~escape
                                         /\ byte.frame \in Frames
    /\ pc = "of_fresh" => Accepted(byte.frame)
    /\ pc = "of_pins" => tp = "CONNECTED"

\* The record shows the state the firmware is in, which is not a session.
ReportFits == Transmitting => tp = status /\ status \in {"IDLE"} \cup Latched

LineFree == pc \in {"tx_data", "tx_read", "tx_start"} => txDone

FirmwareInv ==
    Typed /\ OutputsShow /\ ParserFits /\ ControlFits /\ ReportFits /\ LineFree

-----------------------------------------------------------------------------
(* The invariant.                                                          *)

\* What a frame carries.
LEMMA FrameFields ==
    ASSUME NEW f \in Frames
    PROVE  /\ f.ok \in BOOLEAN /\ f.over \in BOOLEAN /\ f.sag \in BOOLEAN
           /\ f.hash \in Nat /\ f.power \in Nat
<1> DEFINE Readable(x) == /\ x.ok \in BOOLEAN /\ x.over \in BOOLEAN /\ x.sag \in BOOLEAN
                          /\ x.hash \in Nat /\ x.power \in Nat
<1>1. Readable(Corrupt)
  BY DEF Corrupt, Frame
<1>2. \A seq \in 0..(SequenceMod - 1), r \in Readings : Readable(Frame(TRUE, seq, r))
  <2> TAKE seq \in 0..(SequenceMod - 1), r \in Readings
  <2>1. r \in [over : BOOLEAN, sag : BOOLEAN, power : Nat, hash : Nat]
    BY FirmwareAssumption
  <2> QED BY <2>1 DEF Frame
<1> HIDE DEF Readable
<1>3. f = Corrupt \/ \E seq \in 0..(SequenceMod - 1), r \in Readings : f = Frame(TRUE, seq, r)
  BY DEF Frames, Frame, Corrupt
<1>4. Readable(f)
  BY <1>1, <1>2, <1>3, Zenon
<1> QED BY <1>4 DEF Readable

\* A body whose CRC does not match is a frame like any other.
LEMMA Corruptions == Corrupt \in Frames
BY DEF Frames

\* The reset values fit.
LEMMA StartInv == ASSUME Init PROVE FirmwareInv
<1>1. 0 \in 0..FrameCap /\ 0 \in 0..BadLimit /\ [cp |-> 0, safety |-> FALSE] \in [cp : 0..7, safety : BOOLEAN]
  BY FirmwareAssumption DEF BadLimit
<1>3. Typed
  BY <1>1 DEF Init, Typed, States, Returns
<1>4. OutputsShow
  BY DEF Init, OutputsShow, OutOf, Session, Latched
<1>2. ParserFits /\ ControlFits /\ ReportFits /\ LineFree
  BY DEF Init, ParserFits, ControlFits, ReportFits, LineFree, Transmitting
<1> QED BY <1>2, <1>3, <1>4 DEF FirmwareInv

\* apply_pins up to the decision: every branch goes where its handler begins.
LEMMA ApReadInv == ASSUME FirmwareInv, ApRead PROVE FirmwareInv'
<1> USE DEF FirmwareInv, bill, grid, parser, report, timers, uart
<1>1. /\ UNCHANGED <<tp, bad, hold, delay, age, rxAge, pins, dataout, status>>
      /\ healthy' \in {FALSE, healthy} /\ frames' \in {0, frames}
      /\ \/ UNCHANGED <<len, escape, active>>
         \/ len' = 0 /\ escape' = FALSE /\ active' = FALSE
  BY DEF ApRead
<1>2. /\ ret' \in {ret, "ap_check"}
      /\ \/ pc' \in {"ap_release", "fault", "ap_start", "ap_unplug", "ap_drop"}
         \/ pc' = "ap_timer" /\ tp = "CONNECTED" /\ healthy
         \/ pc' = AfterPins(tp)
  BY DEF ApRead, EnterFault
<1>3. pc' # "ap_start" => healthy' = healthy /\ active' = active
  BY DEF Typed, ApRead, EnterFault, Latched, Session
<1>4. Typed'
  <2>1. ret' \in Returns
    BY <1>2 DEF Typed, Returns
  <2>2. frames' \in 0..FrameCap /\ len' \in Nat
    BY <1>1, FirmwareAssumption DEF Typed
  <2>3. healthy' \in BOOLEAN /\ escape' \in BOOLEAN /\ active' \in BOOLEAN
    BY <1>1 DEF Typed
  <2> QED BY <1>1, <2>1, <2>2, <2>3 DEF Typed
<1>5. OutputsShow' /\ ParserFits'
  BY <1>1 DEF OutputsShow, ParserFits
<1>6. ControlFits' /\ ~Transmitting'
  BY <1>1, <1>2, <1>3 DEF ControlFits, Transmitting, AfterPins, PollEntry
<1> QED BY <1>4, <1>5, <1>6 DEF ReportFits, LineFree, Transmitting

\* apply_pins, carrying the decision out.
LEMMA ApInv ==
    ASSUME FirmwareInv, ApRelease \/ ApStart \/ ApConnect \/ ApTimer \/ ApCharge \/ ApDrop
    PROVE  FirmwareInv'
BY FirmwareAssumption
   DEF ApRelease, ApStart, ApConnect, ApTimer, ApCharge, ApDrop, SetState, ApCheck, AfterPins,
   PollEntry, bill, grid, parser, report, timers, uart, FirmwareInv, Typed, OutputsShow,
   ParserFits, ControlFits, ReportFits, LineFree, Transmitting, Returns, States, Session, Latched

\* The handlers that end in a record write the outputs before it is begun.
LEMMA LatchInv ==
    ASSUME FirmwareInv, ApUnplug \/ Fault \/ Wd \/ WdLatch
    PROVE  FirmwareInv'
<1> USE DEF FirmwareInv, bill, grid, parser, report, timers, uart
<1>1. CASE Wd
  <2>1. /\ UNCHANGED <<ret, tp, frames, bad, hold, delay, len, escape, active, pins, dataout,
                       age, rxAge, status>>
        /\ healthy' \in {FALSE, healthy}
        /\ pc' \in {PollEntry(active), "wd_latch"}
    BY <1>1 DEF Wd
  <2>2. Typed' /\ OutputsShow' /\ ParserFits'
    BY <2>1 DEF Typed, OutputsShow, ParserFits
  <2> QED BY <2>1, <2>2 DEF PollEntry, ControlFits, ReportFits, LineFree, Transmitting
<1>2. CASE ApUnplug \/ Fault \/ WdLatch
  <2>1. /\ UNCHANGED <<frames, bad, hold, delay, len, escape, active, pins, age, rxAge, healthy>>
        /\ pc' = "tx_wait" /\ ret' \in {ret, "ap_check", "poll"}
        /\ tp' \in {"IDLE"} \cup Latched /\ status' = tp' /\ dataout' = OutOf(tp')
    BY <1>2 DEF ApUnplug, Fault, WdLatch, SetState, SendRecord, Latched
  <2>2. Typed' /\ OutputsShow' /\ ParserFits'
    BY <2>1 DEF Typed, OutputsShow, ParserFits, Returns, States
  <2> QED BY <2>1, <2>2 DEF ControlFits, ReportFits, LineFree
<1> QED BY <1>1, <1>2

\* send_record and uart_tx_byte.
LEMMA SendInv ==
    ASSUME FirmwareInv, TxWait \/ TxData \/ TxRead \/ TxStart
    PROVE  FirmwareInv'
BY DEF TxWait, TxData, TxRead, TxStart, ReturnTo, ApCheck, AfterPins, PollEntry, bill, grid,
   parser, report, timers, uart, FirmwareInv, Typed, OutputsShow, ParserFits, ControlFits,
   ReportFits, LineFree, Transmitting, Returns

\* A rejected frame goes on where its caller says, or to the fault.
LEMMA BadFrameGoes ==
    ASSUME FirmwareInv, NEW r \in Returns \ {"ap_check", "poll"}, OnBadFrame(r)
    PROVE  /\ bad' \in 0..BadLimit /\ pc' \in {"fault", "pu_read", "pu_start", "ap_again"}
           /\ ret' \in Returns
BY DEF FirmwareInv, Typed, OnBadFrame, EnterFault, ReturnTo, Returns, BadLimit

\* poll_uart but for the byte itself.
LEMMA PollInv ==
    ASSUME FirmwareInv, PuAge \/ PuRead \/ PuClear \/ PuTouch \/ PuStart
    PROVE  FirmwareInv'
<1> USE DEF FirmwareInv, bill, grid, parser, report, timers, uart
<1>1. /\ UNCHANGED <<tp, frames, hold, delay, healthy, pins, dataout, status, age>>
      /\ rxAge' \in {0, rxAge}
  BY DEF PuAge, PuRead, PuClear, PuTouch, PuStart
<1>2. CASE PuAge \/ PuTouch
  <2>1. /\ bad' \in 0..BadLimit /\ ret' \in Returns
        /\ pc' \in {"fault", "pu_read", "pu_start", "ap_again"}
    BY <1>2, BadFrameGoes DEF PuAge, PuTouch, Returns, Typed
  <2>2. \/ len' = 0 /\ escape' = FALSE /\ active' = FALSE
        \/ UNCHANGED <<len, escape, active>>
        \/ active /\ active' /\ len' \in {len, len + 1} /\ escape' \in BOOLEAN
    <3>1. CASE PuAge
      BY <3>1 DEF PuAge, ClearParser
    <3>2. CASE PuTouch
      BY <3>2 DEF PuTouch, ClearParser, ControlFits, Typed
    <3> QED BY <1>2, <3>1, <3>2
  <2>3. Typed'
    <3>1. len' \in Nat /\ rxAge' \in Nat
      BY <1>1, <2>2 DEF Typed
    <3>2. escape' \in BOOLEAN /\ active' \in BOOLEAN
      BY <2>2 DEF Typed
    <3> QED BY <1>1, <2>1, <3>1, <3>2 DEF Typed
  <2>4. OutputsShow' /\ ParserFits'
    BY <1>1, <2>2 DEF OutputsShow, ParserFits
  <2> QED BY <2>1, <2>3, <2>4 DEF ControlFits, ReportFits, LineFree, Transmitting
<1>3. CASE PuRead \/ PuClear \/ PuStart
  <2>1. /\ UNCHANGED <<ret, bad>> /\ pc' \in {"pu_clear", "pu_data", "ap_again"}
        /\ \/ UNCHANGED <<len, escape, active>>
           \/ len' = 0 /\ escape' = FALSE /\ active' = TRUE
    BY <1>3 DEF PuRead, PuClear, PuStart
  <2>2. Typed'
    <3>1. len' \in Nat /\ rxAge' \in Nat
      BY <1>1, <2>1 DEF Typed
    <3>2. escape' \in BOOLEAN /\ active' \in BOOLEAN
      BY <2>1 DEF Typed
    <3> QED BY <1>1, <2>1, <3>1, <3>2 DEF Typed
  <2>3. OutputsShow' /\ ParserFits'
    BY <1>1, <2>1 DEF OutputsShow, ParserFits
  <2> QED BY <2>1, <2>2, <2>3 DEF ControlFits, ReportFits, LineFree, Transmitting
<1> QED BY <1>2, <1>3

\* A byte is sorted: a body to close, a byte of one, or nothing.
LEMMA DataInv ==
    ASSUME FirmwareInv, NEW b \in Bytes, PuData(b)
    PROVE  FirmwareInv'
<1> USE DEF FirmwareInv, bill, grid, parser, report, timers, uart
<1>1. UNCHANGED <<tp, lastSeq, frames, hold, delay, healthy, len, escape, active, pins, dataout,
                  status, age, rxAge>>
  BY DEF PuData
<1>2. /\ bad' \in 0..BadLimit /\ ret' \in Returns
      /\ \/ pc' \in {"fault", "pu_read", "pu_start", "ap_again"}
         \/ pc' = "pu_touch" /\ active /\ byte' = b /\ b.kind # "marker"
         \/ /\ pc' = "of_fresh" /\ byte' = b /\ Accepted(b.frame)
            /\ len = BodyLen /\ len > 0 /\ ~escape
  BY BadFrameGoes DEF PuData, Typed, Returns
<1>3. b.frame \in Frames /\ (b.kind # "marker" => b.kind \in BodyKinds)
  BY Corruptions DEF Bytes
<1>4. byte' = b => (Accepted(byte.frame)' <=> Accepted(b.frame))
  BY <1>1 DEF Accepted, SequenceDelta
<1>5. Typed' /\ OutputsShow' /\ ParserFits'
  BY <1>1, <1>2 DEF Typed, OutputsShow, ParserFits
<1>6. ControlFits'
  BY <1>1, <1>2, <1>3, <1>4 DEF ControlFits, ParserFits, Typed
<1> QED BY <1>2, <1>5, <1>6 DEF ReportFits, LineFree, Transmitting

\* on_frame up to the change of state, and the changes of state.
LEMMA FrameInv ==
    ASSUME FirmwareInv, OfFresh \/ OfPins \/ OfClose \/ OfHold \/ OfResume
    PROVE  FirmwareInv'
<1>1. CASE OfFresh \/ OfPins
  BY <1>1, FirmwareAssumption, FrameFields
     DEF OfFresh, OfPins, Judge, Bill, bill, grid, parser, report, timers, uart, FirmwareInv,
     Typed, OutputsShow, ParserFits, ControlFits, ReportFits, LineFree, Transmitting, Returns,
     BadLimit
<1>2. CASE OfClose \/ OfHold \/ OfResume
  BY <1>2 DEF OfClose, OfHold, OfResume, SetState, bill, grid, parser, report, timers, uart,
     FirmwareInv, Typed, OutputsShow, ParserFits, ControlFits, ReportFits, LineFree,
     Transmitting, States, Session
<1> QED BY <1>1, <1>2

\* The world moves its own registers only.
LEMMA WorldInv == ASSUME FirmwareInv, World PROVE FirmwareInv'
BY FirmwareAssumption
   DEF World, PinsChange, TickAge, TickRx, RxArrive, TxComplete, cpu, bill, grid, parser, report,
   timers, uart, FirmwareInv, Typed, OutputsShow, ParserFits, ControlFits, Accepted,
   SequenceDelta, ReportFits, LineFree, Transmitting

\* No access to a register, and nothing the world does, breaks the invariant.
LEMMA StepInv == ASSUME FirmwareInv, [Next]_vars PROVE FirmwareInv'
<1>1. CASE UNCHANGED vars
  BY <1>1 DEF vars, bill, grid, parser, report, timers, uart, FirmwareInv, Typed, OutputsShow,
     ParserFits, ControlFits, Accepted, SequenceDelta, ReportFits, LineFree, Transmitting
<1>2. CASE CPU
  BY <1>2, ApReadInv, ApInv, LatchInv, SendInv, PollInv, DataInv, FrameInv DEF CPU
<1> QED BY <1>1, <1>2, WorldInv DEF Next

\* What holds at every access.
THEOREM FirmwareInvariant == Spec => []FirmwareInv
BY StartInv, StepInv, PTL DEF Spec

-----------------------------------------------------------------------------
(* The theorems.                                                           *)

\* The contactor is open, and DATAOUT shows the reported state, from the first
\* byte of a record to the last.
THEOREM ReportsWithContactorOpen == Spec => []ContactorOpenWhileReporting
<1>1. FirmwareInv => ContactorOpenWhileReporting
  <2>1. \A state \in {"IDLE"} \cup Latched : "contactor" \notin OutOf(state)
    BY DEF OutOf, Latched
  <2> QED BY <2>1 DEF FirmwareInv, OutputsShow, ReportFits, ContactorOpenWhileReporting, Closed
<1> QED BY <1>1, FirmwareInvariant, PTL

\* No byte of a record is started while the transmitter is busy.
THEOREM NoByteIsLost == Spec => []EveryByteIsSent
<1>1. FirmwareInv => EveryByteIsSent
  BY DEF FirmwareInv, LineFree, EveryByteIsSent
<1> QED BY <1>1, FirmwareInvariant, PTL

-----------------------------------------------------------------------------
(* The lockstep.  View is the object of the golden model that the          *)
(* registers stand for, with what the handler under way is still to do     *)
(* done; the proof shows that g is that object at every access.            *)

\* The state the handler under way is to enter.
Target ==
    CASE pc \in {"ap_release", "ap_unplug"} -> "IDLE"
      [] pc \in {"ap_start", "ap_connect", "ap_drop"} -> "CONNECTED"
      [] pc \in {"ap_charge", "of_close", "of_resume"} -> "CHARGING"
      [] pc = "of_hold" -> "GRID_HOLD"
      [] pc = "fault" -> "FAULT"
      [] pc = "wd_latch" -> "METER_TIMEOUT"
      [] OTHER -> tp

\* The marker that is being handled is still to open the next body.
Reopens == \/ pc \in {"pu_start", "of_close", "of_hold", "of_resume"}
           \/ (pc = "fault" \/ Transmitting) /\ ret = "pu_start"

\* The record that is still to be sent, or is being sent.
Due == IF pc \in {"fault", "wd_latch", "ap_unplug"} \/ Transmitting
       THEN <<[energy |-> energy, status |-> Target, flags |-> flags, frames |-> frames]>>
       ELSE <<>>

Asking == [cp |-> 2, safety |-> FALSE]

\* The pins the golden model keeps.
Looked == IF Target \in {"CHARGING", "GRID_HOLD"} \/ pc = "ap_timer" THEN Asking
          ELSE [cp |-> 0, safety |-> FALSE]

View == [state |-> Target, energy |-> energy, frames |-> frames, flags |-> flags,
         bad |-> bad, hold |-> hold, delay |-> delay, lastSeq |-> lastSeq,
         pins |-> Looked, tx |-> Due,
         len |-> IF Reopens THEN 0 ELSE len,
         active |-> (Reopens \/ active), escape |-> (~Reopens /\ escape),
         rxAge |-> 0, age |-> 0, healthy |-> healthy]

\* An object has these attributes and no more.
Attributes == {"state", "energy", "frames", "flags", "bad", "hold", "delay", "lastSeq", "pins",
               "tx", "len", "active", "escape", "rxAge", "age", "healthy"}

IsCharger(s) == s = [a \in Attributes |-> s[a]]

\* A measurement is judged in one step by g, by the firmware in two or three:
\* g is ahead of on_frame, or waits for it to read the pins.
Follows ==
    CASE pc = "of_fresh" /\ tp # "CONNECTED" ->
           g = Kept(Golden!RxMarker(View, byte.frame))
      [] pc = "of_pins" -> /\ IsCharger(g) /\ g.age = 0
                           /\ Golden!Accepted(g, byte.frame)
                           /\ Golden!Accept(g, byte.frame) = View
      [] OTHER -> g = View

LockInv == FirmwareInv /\ Follows

-----------------------------------------------------------------------------
(* Objects of the golden model, attribute by attribute.                    *)

\* t is an object that differs from s in the attributes A at most.
Differs(t, s, A) == IsCharger(t) /\ \A a \in Attributes \ A : t[a] = s[a]

\* What the golden model reports when it enters a state that stops the session.
Reported(s, st) == [energy |-> s.energy, status |-> st, flags |-> s.flags, frames |-> s.frames]

\* An object is its attributes.
LEMMA SameObject ==
    ASSUME NEW s, NEW t, IsCharger(s), Differs(t, s, {})
    PROVE  t = s
BY DEF IsCharger, Differs

\* The registers stand for an object.
LEMMA ViewFields ==
    /\ IsCharger(View)
    /\ View.state = Target /\ View.energy = energy /\ View.frames = frames
    /\ View.flags = flags /\ View.bad = bad /\ View.hold = hold /\ View.delay = delay
    /\ View.lastSeq = lastSeq /\ View.pins = Looked /\ View.tx = Due
    /\ View.len = (IF Reopens THEN 0 ELSE len) /\ View.active = (Reopens \/ active)
    /\ View.escape = (~Reopens /\ escape)
    /\ View.rxAge = 0 /\ View.age = 0 /\ View.healthy = healthy
BY DEF View, IsCharger, Attributes

\* The next registers do too.
LEMMA NextViewFields ==
    (/\ IsCharger(View)
     /\ View.state = Target /\ View.energy = energy /\ View.frames = frames
     /\ View.flags = flags /\ View.bad = bad /\ View.hold = hold /\ View.delay = delay
     /\ View.lastSeq = lastSeq /\ View.pins = Looked /\ View.tx = Due
     /\ View.len = (IF Reopens THEN 0 ELSE len) /\ View.active = (Reopens \/ active)
     /\ View.escape = (~Reopens /\ escape)
     /\ View.rxAge = 0 /\ View.age = 0 /\ View.healthy = healthy)'
BY ViewFields, PTL

\* What lockstep keeps of an object.
LEMMA KeptFields ==
    ASSUME NEW s, IsCharger(s)
    PROVE  /\ Differs(Kept(s), s, {"age", "rxAge", "pins"})
           /\ Kept(s).age = 0 /\ Kept(s).rxAge = 0
           /\ Kept(s).pins = IF s.state \in {"CHARGING", "GRID_HOLD"} THEN s.pins
                             ELSE [cp |-> 0, safety |-> FALSE]
BY DEF IsCharger, Attributes, Differs, Kept, Golden!NewCharger

\* The first record since the last was sent.
LEMMA FirstRecord == ASSUME NEW e, NEW tx, tx = <<>> PROVE Append(tx, e) = <<e>>
OBVIOUS

\* A fault is entered and reported.
LEMMA FaultFields ==
    ASSUME NEW s, IsCharger(s), NEW cause, s.tx = <<>>
    PROVE  LET t == Golden!EnterFault(s, cause)
           IN  /\ Differs(t, s, {"state", "flags", "tx"})
               /\ t.state = "FAULT" /\ t.flags = s.flags \cup {cause}
               /\ t.tx = <<Reported(t, "FAULT")>>
<1> DEFINE u == [s EXCEPT !.flags = s.flags \cup {cause}]
           v == [u EXCEPT !.tx = Append(u.tx, Reported(u, "FAULT"))]
           t == [v EXCEPT !.state = "FAULT"]
<1>1. Golden!EnterFault(s, cause) = t
  BY DEF Golden!EnterFault, Golden!Record, Reported
<1>2. Differs(u, s, {"flags"}) /\ u.flags = s.flags \cup {cause}
  BY DEF IsCharger, Attributes, Differs
<1>3. u.tx = <<>>
  BY <1>2 DEF Differs, Attributes
<1> HIDE DEF u
<1>4. Append(u.tx, Reported(u, "FAULT")) = <<Reported(u, "FAULT")>>
  BY <1>3, FirstRecord
<1>5. Differs(v, u, {"tx"}) /\ v.tx = <<Reported(u, "FAULT")>>
  BY <1>2, <1>4 DEF IsCharger, Attributes, Differs
<1> HIDE DEF v
<1>6. Differs(t, v, {"state"}) /\ t.state = "FAULT"
  BY <1>5 DEF IsCharger, Attributes, Differs
<1> HIDE DEF t
<1>7. Reported(t, "FAULT") = Reported(u, "FAULT")
  BY <1>5, <1>6 DEF Reported, Differs, Attributes
<1> QED BY <1>1, <1>2, <1>5, <1>6, <1>7 DEF Differs, Attributes

\* A session is ended by the vehicle, or by the silence of its meter.
LEMMA UnplugFields ==
    ASSUME NEW s, IsCharger(s), s.tx = <<>>
    PROVE  LET t == Golden!Unplug(s)
           IN  /\ Differs(t, s, {"state", "tx"})
               /\ t.state = "IDLE" /\ t.tx = <<Reported(t, "IDLE")>>
<1> DEFINE v == [s EXCEPT !.tx = Append(s.tx, Reported(s, "IDLE"))]
           t == [v EXCEPT !.state = "IDLE"]
<1>1. Golden!Unplug(s) = t
  BY DEF Golden!Unplug, Golden!Record, Reported
<1>2. Append(s.tx, Reported(s, "IDLE")) = <<Reported(s, "IDLE")>>
  BY FirstRecord
<1>3. Differs(v, s, {"tx"}) /\ v.tx = <<Reported(s, "IDLE")>>
  BY <1>2 DEF IsCharger, Attributes, Differs
<1> HIDE DEF v
<1>4. Differs(t, v, {"state"}) /\ t.state = "IDLE"
  BY <1>3 DEF IsCharger, Attributes, Differs
<1> HIDE DEF t
<1>5. Reported(t, "IDLE") = Reported(s, "IDLE")
  BY <1>3, <1>4 DEF Reported, Differs, Attributes
<1> QED BY <1>1, <1>3, <1>4, <1>5 DEF Differs, Attributes

\* A new session starts from nothing.
LEMMA SessionFields ==
    ASSUME NEW s, IsCharger(s)
    PROVE  LET t == Golden!StartSession(s)
           IN  /\ Differs(t, s, {"state", "energy", "frames", "flags", "age", "healthy", "lastSeq",
                                 "len", "active", "escape"})
               /\ t.state = "CONNECTED" /\ t.energy = 0 /\ t.frames = 0 /\ t.flags = {}
               /\ t.healthy = FALSE /\ t.lastSeq = NoSequence
               /\ t.len = 0 /\ t.active = FALSE /\ t.escape = FALSE
BY DEF IsCharger, Attributes, Differs, Golden!StartSession, Golden!NoSequence, NoSequence

\* The silence of the meter is reported.
LEMMA ExpiryFields ==
    ASSUME NEW s, IsCharger(s), s.tx = <<>>, Golden!Expired(s)
    PROVE  LET t == Golden!CheckTimeout(s)
           IN  /\ Differs(t, s, {"state", "tx", "healthy"})
               /\ t.state = "METER_TIMEOUT" /\ t.healthy = FALSE
               /\ t.tx = <<Reported(t, "METER_TIMEOUT")>>
<1> DEFINE v == [s EXCEPT !.tx = Append(s.tx, Reported(s, "METER_TIMEOUT"))]
           t == [v EXCEPT !.healthy = FALSE, !.state = "METER_TIMEOUT"]
<1>1. Golden!CheckTimeout(s) = t
  BY DEF Golden!CheckTimeout, Golden!Record, Reported
<1>2. Append(s.tx, Reported(s, "METER_TIMEOUT")) = <<Reported(s, "METER_TIMEOUT")>>
  BY FirstRecord
<1>3. Differs(v, s, {"tx"}) /\ v.tx = <<Reported(s, "METER_TIMEOUT")>>
  BY <1>2 DEF IsCharger, Attributes, Differs
<1> HIDE DEF v
<1>4. Differs(t, v, {"state", "healthy"}) /\ t.state = "METER_TIMEOUT" /\ t.healthy = FALSE
  BY <1>3 DEF IsCharger, Attributes, Differs
<1> HIDE DEF t
<1>5. Reported(t, "METER_TIMEOUT") = Reported(s, "METER_TIMEOUT")
  BY <1>3, <1>4 DEF Reported, Differs, Attributes
<1> QED BY <1>1, <1>3, <1>4, <1>5 DEF Differs, Attributes

\* An accepted frame is noted.
LEMMA AcceptFields ==
    ASSUME NEW s, IsCharger(s), NEW f
    PROVE  LET t == Golden!Accept(s, f)
           IN  /\ Differs(t, s, {"flags", "lastSeq", "bad", "age", "healthy"})
               /\ t.flags = IF s.lastSeq # -1 /\ (f.seq - s.lastSeq) % SequenceMod # 1
                            THEN s.flags \cup {"CRC_LOST"} ELSE s.flags
               /\ t.lastSeq = f.seq /\ t.bad = 0 /\ t.age = 0
               /\ t.healthy = (~f.over /\ ~f.sag)
BY DEF IsCharger, Attributes, Differs, Golden!Accept, Golden!SequenceDelta, Golden!NoSequence

\* A sag stops the charge for a time.
LEMMA HoldFields ==
    ASSUME NEW s, IsCharger(s), NEW f
    PROVE  LET t == Golden!EnterHold(s, f)
           IN  /\ Differs(t, s, {"flags", "delay", "hold", "state"})
               /\ t.flags = s.flags \cup {"GRID_HOLD"} /\ t.delay = HoldBase + f.hash
               /\ t.hold = 0 /\ t.state = "GRID_HOLD"
BY DEF IsCharger, Attributes, Differs, Golden!EnterHold

\* A healthy measurement is billed.
LEMMA BillFields ==
    ASSUME NEW s, IsCharger(s), NEW f
    PROVE  LET t == Golden!Bill(s, f)
           IN  /\ Differs(t, s, {"energy", "frames", "state"})
               /\ t.energy = (s.energy + f.power) % EnergyMod
               /\ t.frames = IF s.frames < FrameCap THEN s.frames + 1 ELSE FrameCap
               /\ t.state = "CHARGING"
BY DEF IsCharger, Attributes, Differs, Golden!Bill

\* A hold is counted down, or starts again.
LEMMA RestartFields ==
    ASSUME NEW s, IsCharger(s), NEW f
    PROVE  LET t == Golden!MeasureHold(s, f)
           IN  IF f.sag THEN Differs(t, s, {"hold"}) /\ t.hold = 0
               ELSE /\ Differs(t, s, {"hold", "state"}) /\ t.hold = s.hold + 1
                    /\ t.state = IF s.hold + 1 >= s.delay THEN "CHARGING" ELSE s.state
BY DEF IsCharger, Attributes, Differs, Golden!MeasureHold

\* A partial body is dropped.
LEMMA DiscardFields ==
    ASSUME NEW s, IsCharger(s)
    PROVE  LET t == Golden!Discard(s)
           IN  /\ Differs(t, s, {"active", "escape", "len"})
               /\ t.active = FALSE /\ t.escape = FALSE /\ t.len = 0
BY DEF IsCharger, Attributes, Differs, Golden!Discard

\* A change of state alone.
LEMMA StateFields ==
    ASSUME NEW s, IsCharger(s), NEW x
    PROVE  Differs([s EXCEPT !.state = x], s, {"state"}) /\ [s EXCEPT !.state = x].state = x
BY DEF IsCharger, Attributes, Differs

\* A bad frame is counted up to two; the second one faults.
LEMMA BadFrameFields ==
    ASSUME NEW s, IsCharger(s), s.tx = <<>>, s.bad \in 0..2
    PROVE  LET t == Golden!BadFrame(s)
               n == IF s.bad < 2 THEN s.bad + 1 ELSE s.bad
           IN  /\ t.bad = n
               /\ IF n >= 2 /\ s.state \notin Latched
                  THEN /\ Differs(t, s, {"bad", "state", "flags", "tx"})
                       /\ t.state = "FAULT" /\ t.flags = s.flags \cup {"CRC_LOST"}
                       /\ t.tx = <<Reported(t, "FAULT")>>
                  ELSE Differs(t, s, {"bad"})
<1> DEFINE n == IF s.bad < 2 THEN s.bad + 1 ELSE s.bad
           u == [s EXCEPT !.bad = n]
<1>1. Differs(u, s, {"bad"}) /\ u.bad = n
  BY DEF IsCharger, Attributes, Differs
<1>2. Golden!BadFrame(s) = IF n >= 2 /\ s.state \notin Latched
                           THEN Golden!EnterFault(u, "CRC_LOST") ELSE u
  BY DEF Golden!BadFrame, Golden!BadLimit, Golden!Latched, Latched
<1> HIDE DEF u
<1>3. u.tx = <<>> /\ IsCharger(u) /\ u.flags = s.flags
  BY <1>1 DEF Differs, Attributes
<1> QED BY <1>1, <1>2, <1>3, FaultFields DEF Differs, Attributes

\* Nothing has expired on an object whose ages are below the timeouts.
LEMMA NothingExpired ==
    ASSUME NEW s
    PROVE  /\ s.age \in Nat /\ s.age < MeterTimeout => Golden!CheckTimeout(s) = s
           /\ s.rxAge \in Nat /\ s.rxAge < RxTimeout => Golden!CheckPartialTimeout(s) = s
BY FirmwareAssumption DEF Golden!CheckTimeout, Golden!Expired, Golden!CheckPartialTimeout

-----------------------------------------------------------------------------
(* An object beside the registers.                                         *)

\* g is the object the registers stand for.
Stands ==
    /\ IsCharger(g)
    /\ g.state = Target /\ g.energy = energy /\ g.frames = frames
    /\ g.flags = flags /\ g.bad = bad /\ g.hold = hold /\ g.delay = delay
    /\ g.lastSeq = lastSeq /\ g.pins = Looked /\ g.tx = Due
    /\ g.len = (IF Reopens THEN 0 ELSE len) /\ g.active = (Reopens \/ active)
    /\ g.escape = (~Reopens /\ escape)
    /\ g.rxAge = 0 /\ g.age = 0 /\ g.healthy = healthy

\* s has the registers as they are now, with no handler under way.
AsRegisters(s) ==
    /\ IsCharger(s)
    /\ s.state = tp /\ s.energy = energy /\ s.frames = frames
    /\ s.flags = flags /\ s.bad = bad /\ s.hold = hold /\ s.delay = delay
    /\ s.lastSeq = lastSeq /\ s.tx = <<>>
    /\ s.len = len /\ s.active = active /\ s.escape = escape /\ s.healthy = healthy

\* The next registers stand for t, but for the parser and what lockstep does
\* not keep.
BooksNext(t) ==
    /\ IsCharger(t)
    /\ t.state = Target' /\ t.energy = energy' /\ t.frames = frames'
    /\ t.flags = flags' /\ t.bad = bad' /\ t.hold = hold' /\ t.delay = delay'
    /\ t.lastSeq = lastSeq' /\ t.tx = Due' /\ t.healthy = healthy'
    /\ t.state \in {"CHARGING", "GRID_HOLD"} => t.pins = Asking

\* And the parser too.
ShownNext(t) ==
    /\ BooksNext(t)
    /\ t.len = (IF Reopens' THEN 0 ELSE len') /\ t.active = (Reopens' \/ active')
    /\ t.escape = (~Reopens' /\ escape')

\* The two ways to say it.
LEMMA Standing == Stands <=> g = View
<1>1. ASSUME g = View PROVE Stands
  BY <1>1, ViewFields DEF Stands
<1>2. ASSUME Stands PROVE g = View
  <2>1. Differs(g, View, {})
    BY <1>2, ViewFields DEF Stands, Differs, Attributes
  <2> QED BY <2>1, ViewFields, SameObject
<1> QED BY <1>1, <1>2

\* The same of the next state.
LEMMA NextStanding == Stands' => (g = View)'
BY Standing, PTL

\* What g keeps of an object that the next registers stand for.
LEMMA Moved ==
    ASSUME NEW t, ShownNext(t), g' = Kept(t), pc' # "ap_timer"
    PROVE  (g = View)'
<1>1. IsCharger(t)
  BY DEF ShownNext, BooksNext
<1>2. /\ Differs(g', t, {"age", "rxAge", "pins"})
      /\ g'.age = 0 /\ g'.rxAge = 0
      /\ g'.pins = IF t.state \in {"CHARGING", "GRID_HOLD"} THEN t.pins
                    ELSE [cp |-> 0, safety |-> FALSE]
  BY <1>1, KeptFields
<1>3. g'.pins = Looked'
  BY <1>2 DEF ShownNext, BooksNext, Looked
<1>4. Stands'
  BY <1>2, <1>3 DEF ShownNext, BooksNext, Stands, Differs, Attributes
<1> QED BY <1>4, NextStanding

\* Between two handlers the registers are the attributes.
LEMMA AtRest ==
    ASSUME Typed, g = View, Between
    PROVE  AsRegisters(g) /\ g.pins = Looked /\ g.age = 0 /\ g.rxAge = 0
<1>1. Stands
  BY Standing
<1>2. Target = tp /\ ~Reopens /\ Due = <<>>
  BY DEF Between, Target, Reopens, Due, Transmitting
<1> QED BY <1>1, <1>2 DEF Stands, Typed, AsRegisters

\* The handler has changed nothing.
LEMMA Unmoved ==
    ASSUME Typed, NEW s, AsRegisters(s), tp \in {"CHARGING", "GRID_HOLD"} => s.pins = Asking,
           UNCHANGED <<tp, energy, frames, flags, bad, hold, delay, lastSeq, len, escape,
                       active, healthy>>,
           pc' \in {"ap_again", "wd", "pu_age", "pu_read"}
    PROVE  ShownNext(s)
<1>1. Target' = tp /\ ~Reopens' /\ Due' = <<>>
  BY DEF Target, Reopens, Due, Transmitting
<1> QED BY <1>1 DEF ShownNext, BooksNext, AsRegisters, Typed

-----------------------------------------------------------------------------
(* apply_pins beside _step_pins.                                           *)

\* Asking is what both read of a vehicle that asks for power.
LEMMA AskingPins ==
    ASSUME NEW p \in [cp : 0..7, safety : BOOLEAN], p.cp = 2, ~p.safety
    PROVE  p = Asking
BY DEF Asking

\* One read of DATAIN is one pass of the rules on the same pins.
LEMMA ApReadFollows ==
    ASSUME FirmwareInv, g = View, ApRead, FollowPins
    PROVE  (g = View)'
<1> DEFINE s == [g EXCEPT !.pins = pins]
           t == Golden!StepPins(s)
<1> USE DEF bill, grid, parser, report, timers, uart
<1>1. Typed /\ pc = "ap_again" /\ Between
  BY DEF FirmwareInv, ApRead, Between
<1>2. AsRegisters(g) /\ g.pins = Looked /\ g.age = 0 /\ g.rxAge = 0
  BY <1>1, AtRest
<1>3. Differs(s, g, {"pins"}) /\ s.pins = pins
  BY <1>2 DEF AsRegisters, IsCharger, Attributes, Differs
<1>4. AsRegisters(s)
  BY <1>2, <1>3 DEF AsRegisters, Differs, Attributes
<1>13. /\ pc' = "ap_timer" => g' = s
       /\ pc' # "ap_timer" => g' = Kept(t)
  BY DEF FollowPins
<1> HIDE DEF s
<1>5. pins \in [cp : 0..7, safety : BOOLEAN] /\ pins.cp \in 0..7 /\ pins.safety \in BOOLEAN
      /\ tp \in States
  BY <1>1 DEF Typed
<1>6. UNCHANGED <<tp, bad, hold, delay, status>>
  BY DEF ApRead
<1>7. CASE pc' = "ap_timer"
  <2>1. /\ tp = "CONNECTED" /\ pins = Asking
        /\ UNCHANGED <<energy, frames, flags, lastSeq, len, escape, active, healthy>>
    BY <1>5, <1>7, AskingPins
       DEF ApRead, EnterFault, AfterPins, PollEntry, Session, Latched
  <2>2. g' = s
    BY <1>7, <1>13
  <2>3. Target' = "CONNECTED" /\ ~Reopens' /\ Due' = <<>> /\ Looked' = Asking
    BY <1>6, <1>7, <2>1 DEF Target, Reopens, Due, Looked, Transmitting
  <2>4. s.age = 0 /\ s.rxAge = 0
    BY <1>1, <1>3, AtRest DEF Differs, Attributes
  <2>5. Stands'
    BY <1>1, <1>3, <1>4, <1>6, <2>1, <2>2, <2>3, <2>4 DEF Stands, AsRegisters, Typed
  <2> QED BY <2>5, NextStanding
<1>8. CASE tp \notin Latched /\ (pins.safety \/ pins.cp >= 4)
  <2> DEFINE cause == IF pins.safety THEN "ESTOP" ELSE "CP_ERROR"
  <2>1. /\ pc' = "fault" /\ ret' = "ap_check" /\ flags' = flags \cup {cause}
        /\ UNCHANGED <<energy, frames, lastSeq, len, escape, active, healthy>>
    BY <1>5, <1>8 DEF ApRead, EnterFault, Session, Latched
  <2>2. t = Golden!EnterFault(s, cause)
    BY <1>3, <1>4, <1>5, <1>8
       DEF AsRegisters, Golden!StepPins, Golden!MayCharge, Golden!Latched, Latched
  <2>3. /\ Differs(t, s, {"state", "flags", "tx"})
        /\ t.state = "FAULT" /\ t.flags = s.flags \cup {cause}
        /\ t.tx = <<Reported(t, "FAULT")>>
    BY <1>4, <2>2, FaultFields DEF AsRegisters
  <2>4. Target' = "FAULT" /\ ~Reopens'
        /\ Due' = <<[energy |-> energy', status |-> "FAULT", flags |-> flags', frames |-> frames']>>
    BY <2>1 DEF Target, Reopens, Due, Transmitting
  <2> HIDE DEF t
  <2>5. ShownNext(t)
    BY <1>1, <1>4, <1>6, <2>1, <2>3, <2>4
       DEF ShownNext, BooksNext, AsRegisters, Reported, Typed, Differs, Attributes
  <2> QED BY <1>13, <2>1, <2>5, Moved
<1>9. CASE tp \in Latched
  <2>1. UNCHANGED <<ret, energy, frames, flags, lastSeq, len, escape, active, healthy>>
    BY <1>9 DEF ApRead, Latched
  <2>2. CASE ~pins.safety /\ pins.cp = 0
    <3>1. pc' = "ap_release"
      BY <1>9, <2>2 DEF ApRead, Session, Latched
    <3>2. t = [s EXCEPT !.state = "IDLE"]
      BY <1>3, <1>4, <1>9, <2>2
         DEF AsRegisters, Golden!StepPins, Golden!Released, Golden!Latched, Golden!Session, Latched
    <3>3. Differs(t, s, {"state"}) /\ t.state = "IDLE"
      BY <1>4, <3>2, StateFields DEF AsRegisters
    <3>4. Target' = "IDLE" /\ ~Reopens' /\ Due' = <<>>
      BY <3>1 DEF Target, Reopens, Due, Transmitting
    <3> HIDE DEF t
    <3>5. ShownNext(t)
      BY <1>1, <1>4, <1>6, <2>1, <3>3, <3>4
         DEF ShownNext, BooksNext, AsRegisters, Typed, Differs, Attributes
    <3> QED BY <1>13, <3>1, <3>5, Moved
  <2>3. CASE ~(~pins.safety /\ pins.cp = 0)
    <3>1. pc' \in {"pu_age", "pu_read"}
      BY <1>9, <2>3 DEF ApRead, AfterPins, PollEntry, Session, Latched
    <3>2. t = s
      BY <1>3, <1>4, <1>9, <2>3
         DEF AsRegisters, Golden!StepPins, Golden!Released, Golden!Latched, Golden!Session, Latched
    <3>3. ShownNext(s)
      BY <1>1, <1>4, <1>6, <1>9, <2>1, <3>1, Unmoved DEF Latched
    <3> QED BY <1>13, <3>1, <3>2, <3>3, Moved
  <2> QED BY <2>2, <2>3
<1>10. CASE tp = "IDLE" /\ ~pins.safety /\ pins.cp < 4
  <2>1. CASE pins.cp = 0
    <3>1. /\ pc' \in {"pu_age", "pu_read"}
          /\ UNCHANGED <<energy, frames, flags, lastSeq, len, escape, active, healthy>>
      BY <1>10, <2>1 DEF ApRead, AfterPins, PollEntry, Session, Latched
    <3>2. t = s
      BY <1>3, <1>4, <1>10, <2>1
         DEF AsRegisters, Golden!StepPins, Golden!MayCharge, Golden!Latched, Golden!Session
    <3>3. ShownNext(s)
      BY <1>1, <1>4, <1>6, <1>10, <3>1, Unmoved
    <3> QED BY <1>13, <3>1, <3>2, <3>3, Moved
  <2>2. CASE pins.cp \in 1..3
    <3>1. /\ pc' = "ap_start" /\ flags' = {} /\ energy' = 0 /\ frames' = 0 /\ healthy' = FALSE
          /\ lastSeq' = NoSequence /\ len' = 0 /\ escape' = FALSE /\ active' = FALSE
      BY <1>10, <2>2 DEF ApRead, EnterFault, Session, Latched
    <3>2. t = Golden!StartSession(s)
      BY <1>3, <1>4, <1>10, <2>2 DEF AsRegisters, Golden!StepPins, Golden!Latched, Golden!Session
    <3>3. /\ Differs(t, s, {"state", "energy", "frames", "flags", "age", "healthy", "lastSeq",
                            "len", "active", "escape"})
          /\ t.state = "CONNECTED" /\ t.energy = 0 /\ t.frames = 0 /\ t.flags = {}
          /\ t.healthy = FALSE /\ t.lastSeq = NoSequence
          /\ t.len = 0 /\ t.active = FALSE /\ t.escape = FALSE
      BY <1>4, <3>2, SessionFields DEF AsRegisters
    <3>4. Target' = "CONNECTED" /\ ~Reopens' /\ Due' = <<>>
      BY <3>1 DEF Target, Reopens, Due, Transmitting
    <3> HIDE DEF t
    <3>5. ShownNext(t)
      BY <1>4, <1>6, <3>1, <3>3, <3>4 DEF ShownNext, BooksNext, AsRegisters, Differs, Attributes
    <3> QED BY <1>13, <3>1, <3>5, Moved
  <2> QED BY <1>5, <1>10, <2>1, <2>2
<1>14. CASE tp \in Session /\ ~pins.safety /\ pins.cp = 0
  <2>1. /\ pc' = "ap_unplug"
        /\ UNCHANGED <<energy, frames, flags, lastSeq, len, escape, active, healthy>>
    BY <1>14 DEF ApRead, EnterFault, Session, Latched
  <2>2. t = Golden!Unplug(s)
    BY <1>3, <1>4, <1>14
       DEF AsRegisters, Golden!StepPins, Golden!MayCharge, Golden!Latched, Golden!Session, Session
  <2>3. /\ Differs(t, s, {"state", "tx"})
        /\ t.state = "IDLE" /\ t.tx = <<Reported(t, "IDLE")>>
    BY <1>4, <2>2, UnplugFields DEF AsRegisters
  <2>4. Target' = "IDLE" /\ ~Reopens'
        /\ Due' = <<[energy |-> energy', status |-> "IDLE", flags |-> flags', frames |-> frames']>>
    BY <2>1 DEF Target, Reopens, Due, Transmitting
  <2> HIDE DEF t
  <2>5. ShownNext(t)
    BY <1>1, <1>4, <1>6, <2>1, <2>3, <2>4
       DEF ShownNext, BooksNext, AsRegisters, Reported, Typed, Differs, Attributes
  <2> QED BY <1>13, <2>1, <2>5, Moved
<1>11. CASE tp = "CONNECTED" /\ ~pins.safety /\ pins.cp \in 1..3 /\ pc' # "ap_timer"
  <2>1. /\ pc' = "wd" /\ ~(pins.cp = 2 /\ healthy)
        /\ UNCHANGED <<energy, frames, flags, lastSeq, len, escape, active, healthy>>
    BY <1>11 DEF ApRead, EnterFault, AfterPins, Session, Latched
  <2>2. t = s
    BY <1>3, <1>4, <1>11, <2>1
       DEF AsRegisters, Golden!StepPins, Golden!MayCharge, Golden!Latched, Golden!Session
  <2>3. ShownNext(s)
    BY <1>1, <1>4, <1>6, <1>11, <2>1, Unmoved
  <2> QED BY <1>13, <2>1, <2>2, <2>3, Moved
<1>12. CASE tp \in {"CHARGING", "GRID_HOLD"} /\ ~pins.safety /\ pins.cp \in 1..3
  <2>1. /\ pc' = IF pins.cp = 2 THEN "wd" ELSE "ap_drop"
        /\ UNCHANGED <<energy, frames, flags, lastSeq, len, escape, active, healthy>>
    BY <1>12 DEF ApRead, EnterFault, AfterPins, Session, Latched
  <2>2. CASE pins.cp = 2
    <3>1. t = s
      BY <1>3, <1>4, <1>12, <2>2
         DEF AsRegisters, Golden!StepPins, Golden!MayCharge, Golden!Latched, Golden!Session
    <3>2. s.pins = Asking
      BY <1>3, <1>5, <1>12, <2>2, AskingPins
    <3>3. ShownNext(s)
      BY <1>1, <1>4, <1>6, <2>1, <2>2, <3>2, Unmoved
    <3> QED BY <1>13, <2>1, <2>2, <3>1, <3>3, Moved
  <2>3. CASE pins.cp \in {1, 3}
    <3>1. t = [s EXCEPT !.state = "CONNECTED"]
      BY <1>3, <1>4, <1>12, <2>3
         DEF AsRegisters, Golden!StepPins, Golden!MayCharge, Golden!Latched, Golden!Session
    <3>2. Differs(t, s, {"state"}) /\ t.state = "CONNECTED"
      BY <1>4, <3>1, StateFields DEF AsRegisters
    <3>3. Target' = "CONNECTED" /\ ~Reopens' /\ Due' = <<>>
      BY <2>1, <2>3 DEF Target, Reopens, Due, Transmitting
    <3> HIDE DEF t
    <3>4. ShownNext(t)
      BY <1>1, <1>4, <1>6, <2>1, <3>2, <3>3
         DEF ShownNext, BooksNext, AsRegisters, Typed, Differs, Attributes
    <3> QED BY <1>13, <2>1, <2>3, <3>4, Moved
  <2> QED BY <1>12, <2>2, <2>3
<1> QED BY <1>5, <1>7, <1>8, <1>9, <1>10, <1>11, <1>12, <1>14 DEF States, Session, Latched

\* The timer is read once, and both decide on what it showed.
LEMMA ApTimerFollows ==
    ASSUME FirmwareInv, g = View, ApTimer, FollowTimer
    PROVE  (g = View)'
<1> DEFINE s == [g EXCEPT !.age = age]
           t == Golden!StepPins(s)
<1> USE DEF bill, grid, parser, report, timers, uart
<1>1. Typed /\ Between /\ pc = "ap_timer" /\ tp = "CONNECTED" /\ healthy
  BY DEF FirmwareInv, ControlFits, ApTimer, Between
<1>2. AsRegisters(g) /\ g.pins = Asking
  BY <1>1, AtRest DEF Looked
<1>3. Differs(s, g, {"age"}) /\ s.age = age
  BY <1>2 DEF AsRegisters, IsCharger, Attributes, Differs
<1>4. AsRegisters(s) /\ s.pins = Asking
  BY <1>2, <1>3 DEF AsRegisters, Differs, Attributes
<1>5. g' = Kept(t)
  BY DEF FollowTimer
<1> HIDE DEF s
<1>6. UNCHANGED <<tp, energy, frames, flags, bad, hold, delay, lastSeq, len, escape, active, healthy>>
  BY DEF ApTimer
<1>7. CASE age < MeterTimeout
  <2>1. pc' = "ap_charge"
    BY <1>7 DEF ApTimer
  <2>2. t = [s EXCEPT !.state = "CHARGING"]
    BY <1>1, <1>3, <1>4, <1>7
       DEF AsRegisters, Golden!StepPins, Golden!MayCharge, Golden!Session, Golden!Latched, Asking
  <2>3. Differs(t, s, {"state"}) /\ t.state = "CHARGING"
    BY <1>4, <2>2, StateFields DEF AsRegisters
  <2>4. Target' = "CHARGING" /\ ~Reopens' /\ Due' = <<>>
    BY <2>1 DEF Target, Reopens, Due, Transmitting
  <2> HIDE DEF t
  <2>5. ShownNext(t)
    BY <1>1, <1>4, <1>6, <2>3, <2>4
       DEF ShownNext, BooksNext, AsRegisters, Typed, Differs, Attributes
  <2> QED BY <1>5, <2>1, <2>5, Moved
<1>8. CASE ~(age < MeterTimeout)
  <2>1. pc' = "wd"
    BY <1>1, <1>8 DEF ApTimer, AfterPins, Session
  <2>2. t = s
    BY <1>1, <1>3, <1>4, <1>8
       DEF AsRegisters, Golden!StepPins, Golden!MayCharge, Golden!Session, Golden!Latched, Asking
  <2>3. ShownNext(s)
    BY <1>1, <1>4, <1>6, <2>1, Unmoved
  <2> QED BY <1>5, <2>1, <2>2, <2>3, Moved
<1> QED BY <1>7, <1>8

-----------------------------------------------------------------------------
(* The timeouts.                                                           *)

\* check_meter_timeout beside _check_timeout.
LEMMA WdFollows ==
    ASSUME FirmwareInv, g = View, Wd, FollowWatchdog
    PROVE  (g = View)'
<1> DEFINE s == [g EXCEPT !.age = age]
           t == Golden!CheckTimeout(s)
<1> USE DEF bill, grid, parser, report, timers, uart
<1>1. Typed /\ Between /\ pc = "wd" /\ tp \in Session
  BY DEF FirmwareInv, ControlFits, Wd, Between
<1>2. AsRegisters(g) /\ (tp \in {"CHARGING", "GRID_HOLD"} => g.pins = Asking)
  BY <1>1, AtRest DEF Looked, Target
<1>3. Differs(s, g, {"age"}) /\ s.age = age
  BY <1>2 DEF AsRegisters, IsCharger, Attributes, Differs
<1>4. AsRegisters(s) /\ (tp \in {"CHARGING", "GRID_HOLD"} => s.pins = Asking)
  BY <1>2, <1>3 DEF AsRegisters, Differs, Attributes
<1>5. g' = Kept(t)
  BY DEF FollowWatchdog
<1> HIDE DEF s
<1>6. UNCHANGED <<ret, tp, energy, frames, flags, bad, hold, delay, lastSeq, len, escape, active>>
  BY DEF Wd
<1>7. CASE age < MeterTimeout
  <2>1. pc' \in {"pu_age", "pu_read"} /\ healthy' = healthy
    BY <1>7 DEF Wd, PollEntry
  <2>2. t = s
    BY <1>1, <1>3, <1>7, NothingExpired DEF Typed
  <2>3. ShownNext(s)
    BY <1>1, <1>4, <1>6, <2>1, Unmoved
  <2> QED BY <1>5, <2>1, <2>2, <2>3, Moved
<1>8. CASE ~(age < MeterTimeout)
  <2>1. pc' = "wd_latch" /\ healthy' = FALSE
    BY <1>8 DEF Wd
  <2>2. Golden!Expired(s)
    BY <1>1, <1>3, <1>4, <1>8, FirmwareAssumption
       DEF Golden!Expired, Golden!Session, Session, AsRegisters, Typed
  <2>3. /\ Differs(t, s, {"state", "tx", "healthy"})
        /\ t.state = "METER_TIMEOUT" /\ t.healthy = FALSE /\ t.tx = <<Reported(t, "METER_TIMEOUT")>>
    BY <1>4, <2>2, ExpiryFields DEF AsRegisters
  <2>4. Target' = "METER_TIMEOUT" /\ ~Reopens'
        /\ Due' = <<[energy |-> energy', status |-> "METER_TIMEOUT",
                     flags |-> flags', frames |-> frames']>>
    BY <2>1 DEF Target, Reopens, Due, Transmitting
  <2> HIDE DEF t
  <2>5. ShownNext(t)
    BY <1>1, <1>4, <1>6, <2>1, <2>3, <2>4
       DEF ShownNext, BooksNext, AsRegisters, Reported, Typed, Differs, Attributes
  <2> QED BY <1>5, <2>1, <2>5, Moved
<1> QED BY <1>7, <1>8

\* A rejected frame: counted or latched by both, wherever the handler goes on.
LEMMA BadFrameBooks ==
    ASSUME Typed, NEW r \in {"pu_read", "pu_start", "pu_done"}, OnBadFrame(r),
           UNCHANGED <<tp, energy, frames, hold, delay, lastSeq, healthy>>,
           NEW s, IsCharger(s), s.state = tp, s.energy = energy, s.frames = frames,
           s.flags = flags, s.bad = bad, s.hold = hold, s.delay = delay, s.lastSeq = lastSeq,
           s.tx = <<>>, s.healthy = healthy,
           tp \in {"CHARGING", "GRID_HOLD"} => s.pins = Asking
    PROVE  /\ BooksNext(Golden!BadFrame(s))
           /\ Differs(Golden!BadFrame(s), s, {"bad", "state", "flags", "tx"})
<1> DEFINE t == Golden!BadFrame(s)
           n == IF bad < 2 THEN bad + 1 ELSE bad
<1>1. bad \in 0..2
  BY DEF Typed, BadLimit
<1>2. CASE n >= 2 /\ tp \notin Latched
  <2>1. bad' = n /\ pc' = "fault" /\ flags' = flags \cup {"CRC_LOST"}
    BY <1>2 DEF OnBadFrame, EnterFault, BadLimit
  <2>2. Target' = "FAULT"
        /\ Due' = <<[energy |-> energy', status |-> "FAULT", flags |-> flags', frames |-> frames']>>
    BY <2>1 DEF Target, Due
  <2>3. /\ Differs(t, s, {"bad", "state", "flags", "tx"})
        /\ t.bad = n /\ t.state = "FAULT" /\ t.flags = s.flags \cup {"CRC_LOST"}
        /\ t.tx = <<Reported(t, "FAULT")>>
    BY <1>1, <1>2, BadFrameFields
  <2> HIDE DEF t
  <2>4. BooksNext(t)
    BY <2>1, <2>2, <2>3 DEF BooksNext, Reported, Differs, Attributes
  <2> QED BY <2>3, <2>4 DEF t
<1>3. CASE ~(n >= 2 /\ tp \notin Latched)
  <2>1. bad' = n /\ flags' = flags /\ pc' \in {"pu_read", "pu_start", "ap_again"}
    BY <1>3 DEF OnBadFrame, BadLimit, ReturnTo
  <2>2. Target' = tp /\ Due' = <<>>
    BY <2>1 DEF Target, Due, Transmitting
  <2>3. Differs(t, s, {"bad"}) /\ t.bad = n
    BY <1>1, <1>3, BadFrameFields
  <2> HIDE DEF t
  <2>4. BooksNext(t) /\ Differs(t, s, {"bad", "state", "flags", "tx"})
    BY <2>1, <2>2, <2>3 DEF BooksNext, Differs, Attributes
  <2> QED BY <2>4 DEF t
<1> QED BY <1>2, <1>3

\* The byte timer of an open body beside _check_partial_timeout.
LEMMA PuAgeFollows ==
    ASSUME FirmwareInv, g = View, PuAge, FollowByteTimer
    PROVE  (g = View)'
<1> DEFINE s == [g EXCEPT !.rxAge = rxAge]
           u == Golden!Discard(s)
<1> USE DEF bill, grid, parser, report, timers, uart
<1>1. Typed /\ Between /\ pc = "pu_age" /\ active
  BY DEF FirmwareInv, ControlFits, PuAge, Between
<1>2. AsRegisters(g) /\ (tp \in {"CHARGING", "GRID_HOLD"} => g.pins = Asking)
  BY <1>1, AtRest DEF Looked, Target
<1>3. Differs(s, g, {"rxAge"}) /\ s.rxAge = rxAge
  BY <1>2 DEF AsRegisters, IsCharger, Attributes, Differs
<1>4. AsRegisters(s) /\ (tp \in {"CHARGING", "GRID_HOLD"} => s.pins = Asking)
  BY <1>2, <1>3 DEF AsRegisters, Differs, Attributes
<1>5. g' = Kept(Golden!CheckPartialTimeout(s))
  BY DEF FollowByteTimer
<1> HIDE DEF s
<1>6. UNCHANGED <<tp, energy, frames, hold, delay, lastSeq, healthy>>
  BY DEF PuAge
<1>7. CASE rxAge < RxTimeout
  <2>1. pc' = "pu_read" /\ UNCHANGED <<flags, bad, len, escape, active>>
    BY <1>7 DEF PuAge
  <2>2. Golden!CheckPartialTimeout(s) = s
    BY <1>1, <1>3, <1>7, NothingExpired DEF Typed
  <2>3. ShownNext(s)
    BY <1>1, <1>4, <1>6, <2>1, Unmoved
  <2> QED BY <1>5, <2>1, <2>2, <2>3, Moved
<1>8. CASE ~(rxAge < RxTimeout)
  <2>1. len' = 0 /\ escape' = FALSE /\ active' = FALSE
    BY <1>8 DEF PuAge, ClearParser
  <2>2. Golden!CheckPartialTimeout(s) = IF len > 0 \/ escape THEN Golden!BadFrame(u) ELSE u
    BY <1>1, <1>3, <1>4, <1>8, FirmwareAssumption
       DEF AsRegisters, Typed, Golden!CheckPartialTimeout, Golden!Partial
  <2>3. /\ Differs(u, s, {"active", "escape", "len"})
        /\ u.active = FALSE /\ u.escape = FALSE /\ u.len = 0
    BY <1>4, DiscardFields DEF AsRegisters
  <2> HIDE DEF u
  <2>4. /\ IsCharger(u) /\ u.state = tp /\ u.energy = energy /\ u.frames = frames
        /\ u.flags = flags /\ u.bad = bad /\ u.hold = hold /\ u.delay = delay
        /\ u.lastSeq = lastSeq /\ u.tx = <<>> /\ u.healthy = healthy
        /\ tp \in {"CHARGING", "GRID_HOLD"} => u.pins = Asking
    BY <1>4, <2>3 DEF AsRegisters, Differs, Attributes
  <2>5. CASE len > 0 \/ escape
    <3>1. OnBadFrame("pu_read")
      BY <1>8, <2>5 DEF PuAge
    <3>2. pc' \in {"fault", "pu_read"} /\ (pc' = "fault" => ret' = "pu_read")
      BY <3>1 DEF OnBadFrame, EnterFault, ReturnTo
    <3>3. ~Reopens'
      BY <3>2 DEF Reopens, Transmitting
    <3>4. /\ BooksNext(Golden!BadFrame(u))
          /\ Differs(Golden!BadFrame(u), u, {"bad", "state", "flags", "tx"})
      BY <1>1, <1>6, <2>4, <3>1, BadFrameBooks
    <3>5. ShownNext(Golden!BadFrame(u))
      BY <2>1, <2>3, <3>3, <3>4 DEF ShownNext, Differs, Attributes
    <3> QED BY <1>5, <2>2, <2>5, <3>2, <3>5, Moved
  <2>6. CASE ~(len > 0 \/ escape)
    <3>1. pc' = "pu_read" /\ UNCHANGED <<flags, bad>>
      BY <1>8, <2>6 DEF PuAge
    <3>2. Target' = tp /\ ~Reopens' /\ Due' = <<>>
      BY <1>6, <3>1 DEF Target, Reopens, Due, Transmitting
    <3>3. ShownNext(u)
      BY <1>6, <2>1, <2>3, <2>4, <3>1, <3>2 DEF ShownNext, BooksNext
    <3> QED BY <1>5, <2>2, <2>6, <3>1, <3>3, Moved
  <2> QED BY <2>5, <2>6
<1> QED BY <1>7, <1>8

-----------------------------------------------------------------------------
(* Steps that only carry out what has been decided.                        *)

\* The object the registers stand for depends on them as a whole.
LEMMA SameView ==
    ASSUME UNCHANGED <<g, energy, frames, flags, bad, hold, delay, lastSeq, healthy>>,
           g = View, Target' = Target, Due' = Due, Looked' = Looked,
           (IF Reopens' THEN 0 ELSE len') = (IF Reopens THEN 0 ELSE len),
           (Reopens' \/ active') = (Reopens \/ active),
           (~Reopens' /\ escape') = (~Reopens /\ escape)
    PROVE  (g = View)'
<1>1. Stands
  BY Standing
<1>2. Stands'
  BY <1>1 DEF Stands
<1> QED BY <1>2, NextStanding

\* The outputs are written, or the timer is cleared, on the way.
LEMMA ApFollows ==
    ASSUME FirmwareInv, g = View, g' = g,
           ApRelease \/ ApStart \/ ApConnect \/ ApCharge \/ ApDrop
    PROVE  (g = View)'
<1> USE DEF bill, grid, parser, report, timers, uart
<1>1. UNCHANGED <<energy, frames, flags, bad, hold, delay, lastSeq, healthy, len, active, escape>>
  BY DEF ApRelease, ApStart, ApConnect, ApCharge, ApDrop
<1>2. pc \in {"ap_release", "ap_start", "ap_connect", "ap_charge", "ap_drop"}
  BY DEF ApRelease, ApStart, ApConnect, ApCharge, ApDrop
<1>3. /\ Target' = Target
      /\ pc' \in {"ap_connect", "ap_again", "wd", "pu_age", "pu_read"}
  BY DEF ApRelease, ApStart, ApConnect, ApCharge, ApDrop, SetState, ApCheck, AfterPins, PollEntry,
     Target
<1>4. Due' = Due /\ Looked' = Looked /\ ~Reopens /\ ~Reopens'
  BY <1>2, <1>3 DEF Due, Looked, Reopens, Transmitting
<1> QED BY <1>1, <1>3, <1>4, SameView

\* The record is begun with the state it reports.
LEMMA LatchFollows ==
    ASSUME FirmwareInv, g = View, g' = g, ApUnplug \/ Fault \/ WdLatch
    PROVE  (g = View)'
<1> USE DEF bill, grid, parser, report, timers, uart
<1>1. /\ UNCHANGED <<energy, frames, flags, bad, hold, delay, lastSeq, healthy, len, active, escape>>
      /\ pc' = "tx_wait" /\ tp' = Target
      /\ pc \in {"ap_unplug", "fault", "wd_latch"}
      /\ pc = "fault" => ret' = ret
      /\ pc # "fault" => ret' \in {"ap_check", "poll"}
  BY DEF ApUnplug, Fault, WdLatch, SetState, SendRecord, Target
<1>2. Target' = Target /\ Reopens' = Reopens
  BY <1>1 DEF Target, Reopens, Transmitting
<1>3. Due' = Due /\ Looked' = Looked
  BY <1>1, <1>2 DEF Due, Looked, Transmitting
<1> QED BY <1>1, <1>2, <1>3, SameView

\* Bytes are sent, and the line is polled, without a decision.
LEMMA SendFollows ==
    ASSUME FirmwareInv, g = View, g' = g,
           TxWait \/ TxData \/ TxRead \/ PuRead \/ PuClear \/ PuStart
    PROVE  (g = View)'
<1> USE DEF bill, grid, parser, report, timers, uart
<1>1. UNCHANGED <<energy, frames, flags, bad, hold, delay, lastSeq, healthy, tp, ret>>
  BY DEF TxWait, TxData, TxRead, PuRead, PuClear, PuStart
<1>2. CASE TxWait \/ TxData \/ TxRead
  <2>1. /\ UNCHANGED <<len, active, escape>>
        /\ {pc, pc'} \subseteq {"tx_wait", "tx_data", "tx_read", "tx_start"}
    BY <1>2 DEF TxWait, TxData, TxRead
  <2>2. Target' = Target /\ Reopens' = Reopens
    BY <1>1, <2>1 DEF Target, Reopens, Transmitting
  <2>3. Due' = Due /\ Looked' = Looked
    BY <1>1, <2>1, <2>2 DEF Due, Looked, Transmitting
  <2> QED BY <1>1, <2>1, <2>2, <2>3, SameView
<1>3. CASE PuRead \/ PuClear
  <2>1. /\ UNCHANGED <<len, active, escape>>
        /\ {pc, pc'} \subseteq {"pu_read", "pu_clear", "pu_data", "ap_again"}
    BY <1>3 DEF PuRead, PuClear
  <2>2. Target' = Target /\ ~Reopens /\ ~Reopens' /\ Due' = Due /\ Looked' = Looked
    BY <1>1, <2>1 DEF Target, Reopens, Transmitting, Due, Looked
  <2> QED BY <1>1, <2>1, <2>2, SameView
<1>4. CASE PuStart
  <2>1. /\ pc = "pu_start" /\ pc' = "ap_again"
        /\ len' = 0 /\ escape' = FALSE /\ active' = TRUE
    BY <1>4 DEF PuStart
  <2>2. Target' = Target /\ Reopens /\ ~Reopens' /\ Due' = Due /\ Looked' = Looked
    BY <1>1, <2>1 DEF Target, Reopens, Transmitting, Due, Looked
  <2> QED BY <1>1, <2>1, <2>2, SameView
<1> QED BY <1>2, <1>3, <1>4

\* The state that on_frame has decided on is entered.
LEMMA FrameEndFollows ==
    ASSUME FirmwareInv, g = View, g' = g, OfClose \/ OfHold \/ OfResume
    PROVE  (g = View)'
<1> USE DEF bill, grid, parser, report, timers, uart
<1>1. /\ UNCHANGED <<energy, frames, flags, bad, hold, delay, lastSeq, healthy, len, active, escape>>
      /\ pc \in {"of_close", "of_hold", "of_resume"} /\ pc' = "pu_start" /\ tp' = Target
  BY DEF OfClose, OfHold, OfResume, SetState, Target
<1>2. Target' = Target /\ Reopens /\ Reopens' /\ Due' = Due
  BY <1>1 DEF Target, Reopens, Due, Transmitting
<1>3. Looked' = Looked
  BY <1>1, <1>2 DEF Looked
<1> QED BY <1>1, <1>2, <1>3, SameView

\* The last byte of a record is started: g's reader has it.
LEMMA TxStartFollows ==
    ASSUME FirmwareInv, g = View, TxStart, FollowSent
    PROVE  (g = View)'
<1> USE DEF bill, grid, parser, report, timers, uart
<1>1. UNCHANGED <<energy, frames, flags, bad, hold, delay, lastSeq, healthy, tp, len, active, escape>>
      /\ pc = "tx_start" /\ tp = Target /\ Typed
  BY DEF TxStart, Target, FirmwareInv
<1>2. Stands
  BY Standing
<1>3. CASE pc' = "tx_wait"
  <2>1. ret' = ret
    BY <1>1, <1>3 DEF TxStart, ReturnTo, ApCheck, AfterPins, PollEntry, Typed, Returns
  <2>2. Target' = Target /\ Reopens' = Reopens
    BY <1>1, <1>3, <2>1 DEF Target, Reopens, Transmitting
  <2>3. Due' = Due /\ Looked' = Looked
    BY <1>1, <1>3, <2>2 DEF Due, Looked, Transmitting
  <2>4. g' = g
    BY <1>2, <1>3 DEF FollowSent, Stands, IsCharger, Attributes
  <2> QED BY <1>1, <2>2, <2>3, <2>4, SameView
<1>4. CASE pc' # "tx_wait"
  <2>1. pc' = ReturnTo(ret)
    BY <1>4 DEF TxStart
  <2>2. /\ pc' \in {"ap_again", "wd", "pu_age", "pu_read", "pu_start"}
        /\ pc' = "pu_start" <=> ret = "pu_start"
    BY <1>1, <2>1 DEF ReturnTo, ApCheck, AfterPins, PollEntry, Typed, Returns
  <2>3. Target' = Target /\ Reopens' = Reopens /\ Due' = <<>> /\ Looked' = Looked
    BY <1>1, <2>2 DEF Target, Reopens, Due, Looked, Transmitting
  <2>4. Differs(g', g, {"tx"}) /\ g'.tx = <<>>
    BY <1>2, <1>4 DEF FollowSent, Stands, IsCharger, Differs, Attributes
  <2>5. Stands'
    BY <1>1, <1>2, <2>3, <2>4 DEF Stands, Differs, Attributes
  <2> QED BY <2>5, NextStanding
<1> QED BY <1>3, <1>4

-----------------------------------------------------------------------------
(* The parser.                                                             *)

\* A marker opens the next body, whatever the one before it has come to.
LEMMA MarkerShown ==
    ASSUME NEW u, BooksNext(u), Reopens',
           NEW t, t = [u EXCEPT !.len = 0, !.active = TRUE, !.escape = FALSE, !.rxAge = 0]
    PROVE  ShownNext(t)
<1>1. Differs(t, u, {"len", "active", "escape", "rxAge"})
      /\ t.len = 0 /\ t.active = TRUE /\ t.escape = FALSE
  BY DEF BooksNext, IsCharger, Attributes, Differs
<1> QED BY <1>1 DEF ShownNext, BooksNext, Differs, Attributes

\* A body that is too short, too long, stopped at an escape or not acceptable.
LEMMA ClosedBody ==
    ASSUME NEW s, NEW f, s.age = 0, Golden!Partial(s),
           ~(s.len = BodyLen /\ ~s.escape /\ Golden!Accepted(s, f))
    PROVE  Golden!CloseBody(s, f) = Golden!BadFrame(s)
<1>1. Golden!CheckTimeout(s) = s
  BY NothingExpired, FirmwareAssumption
<1>2. CASE ~s.escape /\ s.len = BodyLen
  <2>1. Golden!CloseBody(s, f) = Golden!OnFrame(s, f)
    BY <1>2 DEF Golden!CloseBody
  <2> QED BY <1>1, <1>2, <2>1 DEF Golden!OnFrame
<1>3. CASE s.escape \/ s.len # BodyLen
  BY <1>3 DEF Golden!CloseBody
<1> QED BY <1>2, <1>3

\* The sequence rule is one rule.
LEMMA SameRule ==
    ASSUME NEW s, s.lastSeq = lastSeq, NEW f
    PROVE  Golden!Accepted(s, f) <=> Accepted(f)
BY DEF Golden!Accepted, Golden!SequenceDelta, Golden!NoSequence, Accepted, SequenceDelta, NoSequence

\* A byte is sorted as the golden model sorts it; a marker that must wait for
\* the meter timer, or for the pins, is the next step's.
LEMMA PuDataFollows ==
    ASSUME FirmwareInv, g = View, NEW b \in Bytes, PuData(b), FollowData(b)
    PROVE  Follows'
<1> USE DEF bill, grid, parser, report, timers, uart
<1>1. Typed /\ Between /\ pc = "pu_data" /\ ParserFits
  BY DEF FirmwareInv, PuData, Between
<1>2. AsRegisters(g) /\ (tp \in {"CHARGING", "GRID_HOLD"} => g.pins = Asking) /\ g.age = 0 /\ g.rxAge = 0
  BY <1>1, AtRest DEF Looked, Target
<1>3. UNCHANGED <<tp, energy, frames, hold, delay, lastSeq, healthy, len, escape, active>>
  BY DEF PuData
<1>4. Golden!CheckPartialTimeout(g) = g
  BY <1>2, NothingExpired, FirmwareAssumption
<1>5. Golden!Partial(g) <=> len > 0 \/ escape
  BY <1>1, <1>2 DEF AsRegisters, ParserFits, Typed, Golden!Partial
<1>6. CASE b.kind = "marker" /\ ~(len > 0 \/ escape)
  <2>1. pc' = "pu_start" /\ UNCHANGED <<bad, flags, ret>>
    BY <1>6 DEF PuData
  <2>2. g' = Kept([g EXCEPT !.len = 0, !.active = TRUE, !.escape = FALSE, !.rxAge = 0])
    BY <1>4, <1>5, <1>6, <2>1 DEF FollowData, Golden!RxMarker, Golden!CloseBody
  <2>3. Target' = tp /\ Reopens' /\ Due' = <<>>
    BY <1>3, <2>1 DEF Target, Reopens, Due, Transmitting
  <2>4. BooksNext(g)
    BY <1>2, <1>3, <2>1, <2>3 DEF BooksNext, AsRegisters
  <2> QED BY <2>1, <2>2, <2>3, <2>4, MarkerShown, Moved DEF Follows
<1>7. CASE /\ b.kind = "marker" /\ (len > 0 \/ escape)
           /\ ~(len = BodyLen /\ ~escape /\ Accepted(b.frame))
  <2> DEFINE t == Golden!BadFrame(g)
  <2>1. OnBadFrame("pu_start")
    BY <1>7 DEF PuData
  <2>2. pc' \in {"fault", "pu_start"} /\ (pc' = "fault" => ret' = "pu_start")
    BY <2>1 DEF OnBadFrame, EnterFault, ReturnTo
  <2>3. Golden!CloseBody(g, b.frame) = t
    BY <1>2, <1>5, <1>7, ClosedBody, SameRule DEF AsRegisters
  <2>4. g' = Kept([t EXCEPT !.len = 0, !.active = TRUE, !.escape = FALSE, !.rxAge = 0])
    BY <1>4, <1>7, <2>2, <2>3 DEF FollowData, Golden!RxMarker
  <2> HIDE DEF t
  <2>5. Reopens'
    BY <2>2 DEF Reopens
  <2>6. BooksNext(t)
    BY <1>1, <1>2, <1>3, <2>1, BadFrameBooks DEF AsRegisters, t
  <2> QED BY <2>2, <2>4, <2>5, <2>6, MarkerShown, Moved DEF Follows
<1>8. CASE b.kind = "marker" /\ len > 0 /\ len = BodyLen /\ ~escape /\ Accepted(b.frame)
  <2>1. pc' = "of_fresh" /\ byte' = b /\ UNCHANGED <<bad, flags, ret>>
    BY <1>8 DEF PuData
  <2>2. Target' = Target /\ ~Reopens /\ ~Reopens' /\ Due' = Due /\ Looked' = Looked
    BY <1>1, <1>3, <2>1 DEF Target, Reopens, Transmitting, Due, Looked
  <2>3. CASE tp = "CONNECTED"
    <3>1. g' = g
      BY <1>8, <2>1, <2>3 DEF FollowData
    <3>2. (g = View)'
      BY <1>3, <2>1, <2>2, <3>1, SameView
    <3> QED BY <1>3, <2>1, <2>3, <3>2 DEF Follows
  <2>4. CASE tp # "CONNECTED"
    <3>1. g' = Kept(Golden!RxMarker(g, b.frame))
      BY <1>8, <2>1, <2>4 DEF FollowData
    <3>2. View' = View
      BY <1>3, <2>1, <2>2 DEF View
    <3> QED BY <1>3, <2>1, <2>4, <3>1, <3>2 DEF Follows
  <2> QED BY <2>3, <2>4
<1>9. CASE b.kind # "marker" /\ ~active
  <2>1. pc' = "ap_again" /\ UNCHANGED <<bad, flags, ret>>
    BY <1>9 DEF PuData
  <2>2. g' = Kept(g)
    BY <1>2, <1>4, <1>9 DEF FollowData, AsRegisters, Golden!RxBodyByte
  <2>3. ShownNext(g)
    BY <1>1, <1>2, <1>3, <2>1, Unmoved
  <2> QED BY <2>1, <2>2, <2>3, Moved DEF Follows
<1>10. CASE b.kind # "marker" /\ active
  <2>1. pc' = "pu_touch" /\ UNCHANGED <<bad, flags, ret>>
    BY <1>10 DEF PuData
  <2>2. Target' = Target /\ ~Reopens /\ ~Reopens' /\ Due' = Due /\ Looked' = Looked
    BY <1>1, <1>3, <2>1 DEF Target, Reopens, Transmitting, Due, Looked
  <2>3. g' = g
    BY <1>10 DEF FollowData
  <2>4. (g = View)'
    BY <1>3, <2>1, <2>2, <2>3, SameView
  <2> QED BY <2>1, <2>4 DEF Follows
<1>11. Accepted(b.frame) \in BOOLEAN /\ escape \in BOOLEAN /\ active \in BOOLEAN
  BY <1>1 DEF Typed, Accepted
<1> QED BY <1>1, <1>6, <1>7, <1>8, <1>9, <1>10, <1>11 DEF Typed

\* A body byte restarts the byte timer and is unescaped, stored or rejected.
LEMMA PuTouchFollows ==
    ASSUME FirmwareInv, g = View, PuTouch, FollowTouch
    PROVE  (g = View)'
<1> DEFINE kind == byte.kind
           s == [g EXCEPT !.rxAge = 0]
           u == Golden!Discard(s)
           t == Golden!RxBody(s, kind)
<1> USE DEF bill, grid, parser, report, timers, uart
<1>1. Typed /\ Between /\ pc = "pu_touch" /\ active /\ active = TRUE
      /\ kind \in {"escape", "stuffed", "plain"}
  BY FirmwareAssumption DEF FirmwareInv, ControlFits, Typed, PuTouch, Between
<1>2. AsRegisters(g) /\ (tp \in {"CHARGING", "GRID_HOLD"} => g.pins = Asking) /\ g.rxAge = 0
  BY <1>1, AtRest DEF Looked, Target
<1>3. Differs(s, g, {"rxAge"})
  BY <1>2 DEF AsRegisters, IsCharger, Attributes, Differs
<1>4. AsRegisters(s) /\ (tp \in {"CHARGING", "GRID_HOLD"} => s.pins = Asking)
  BY <1>2, <1>3 DEF AsRegisters, Differs, Attributes
<1>5. Golden!CheckPartialTimeout(g) = g
  BY <1>2, NothingExpired, FirmwareAssumption
<1>6. g' = Kept(t)
  BY <1>1, <1>2, <1>5 DEF FollowTouch, AsRegisters, Golden!RxBodyByte
<1> HIDE DEF s
<1>7. UNCHANGED <<tp, energy, frames, hold, delay, lastSeq, healthy>>
  BY DEF PuTouch
<1>8. CASE (escape /\ kind # "stuffed") \/ (~(~escape /\ kind = "escape") /\ len >= BodyLen)
  <2>1. OnBadFrame("pu_done") /\ len' = 0 /\ escape' = FALSE /\ active' = FALSE
    <3>1. ~(~escape /\ kind = "escape")
      BY <1>8
    <3>2. (escape /\ kind # "stuffed") \/ ~(len < BodyLen)
      BY <1>1, <1>8, FirmwareAssumption DEF Typed
    <3> QED BY <1>8, <3>1, <3>2, Zenon DEF PuTouch, ClearParser
  <2>2. pc' \in {"fault", "ap_again"} /\ (pc' = "fault" => ret' = "pu_done")
    BY <2>1 DEF OnBadFrame, EnterFault, ReturnTo
  <2>3. t = Golden!BadFrame(u)
    BY <1>1, <1>4, <1>8 DEF AsRegisters, Typed, Golden!RxBody
  <2>4. /\ Differs(u, s, {"active", "escape", "len"})
        /\ u.active = FALSE /\ u.escape = FALSE /\ u.len = 0
    BY <1>4, DiscardFields DEF AsRegisters
  <2> HIDE DEF u
  <2>5. /\ IsCharger(u) /\ u.state = tp /\ u.energy = energy /\ u.frames = frames
        /\ u.flags = flags /\ u.bad = bad /\ u.hold = hold /\ u.delay = delay
        /\ u.lastSeq = lastSeq /\ u.tx = <<>> /\ u.healthy = healthy
        /\ tp \in {"CHARGING", "GRID_HOLD"} => u.pins = Asking
    BY <1>4, <2>4 DEF AsRegisters, Differs, Attributes
  <2>6. ~Reopens'
    BY <2>2 DEF Reopens, Transmitting
  <2>7. /\ BooksNext(Golden!BadFrame(u))
        /\ Differs(Golden!BadFrame(u), u, {"bad", "state", "flags", "tx"})
    BY <1>1, <1>7, <2>1, <2>5, BadFrameBooks
  <2>8. ShownNext(Golden!BadFrame(u))
    BY <2>1, <2>4, <2>6, <2>7 DEF ShownNext, Differs, Attributes
  <2> QED BY <1>6, <2>2, <2>3, <2>8, Moved
<1>9. CASE ~escape /\ kind = "escape"
  <2>1. escape' = TRUE /\ pc' = "ap_again" /\ UNCHANGED <<len, active, bad, flags, ret>>
    BY <1>9 DEF PuTouch
  <2>2. t = [s EXCEPT !.escape = TRUE]
    BY <1>4, <1>9 DEF AsRegisters, Golden!RxBody
  <2>3. Differs(t, s, {"escape"}) /\ t.escape = TRUE
    BY <1>4, <2>2 DEF AsRegisters, IsCharger, Differs, Attributes
  <2>4. Target' = tp /\ ~Reopens' /\ Due' = <<>>
    BY <1>7, <2>1 DEF Target, Reopens, Due, Transmitting
  <2> HIDE DEF t
  <2>5. ShownNext(t)
    BY <1>1, <1>4, <1>7, <2>1, <2>3, <2>4 DEF ShownNext, BooksNext, AsRegisters, Differs, Attributes
  <2> QED BY <1>6, <2>1, <2>5, Moved
<1>10. CASE /\ ~(escape /\ kind # "stuffed") /\ ~(~escape /\ kind = "escape")
            /\ ~(len >= BodyLen)
  <2>1. len' = len + 1 /\ escape' = FALSE /\ pc' = "ap_again" /\ UNCHANGED <<active, bad, flags, ret>>
    BY <1>10 DEF PuTouch
  <2>2. t = [s EXCEPT !.escape = FALSE, !.len = s.len + 1]
    BY <1>1, <1>4, <1>10 DEF AsRegisters, Typed, Golden!RxBody
  <2>3. Differs(t, s, {"escape", "len"}) /\ t.escape = FALSE /\ t.len = s.len + 1
    BY <1>4, <2>2 DEF AsRegisters, IsCharger, Differs, Attributes
  <2>4. Target' = tp /\ ~Reopens' /\ Due' = <<>>
    BY <1>7, <2>1 DEF Target, Reopens, Due, Transmitting
  <2> HIDE DEF t
  <2>5. ShownNext(t)
    BY <1>1, <1>4, <1>7, <2>1, <2>3, <2>4 DEF ShownNext, BooksNext, AsRegisters, Differs, Attributes
  <2> QED BY <1>6, <2>1, <2>5, Moved
<1> QED BY <1>1, <1>8, <1>9, <1>10 DEF Typed

-----------------------------------------------------------------------------
(* A measurement.                                                          *)

\* The frame of a complete body is judged by the rules.
LEMMA MarkerMeasures ==
    ASSUME NEW s, NEW f, s.age = 0, s.rxAge = 0, Golden!Partial(s), s.len = BodyLen, ~s.escape,
           Golden!Accepted(s, f)
    PROVE  Golden!RxMarker(s, f) =
             [Golden!Measure(Golden!Accept(s, f), f)
                EXCEPT !.len = 0, !.active = TRUE, !.escape = FALSE, !.rxAge = 0]
<1>1. Golden!CheckPartialTimeout(s) = s /\ Golden!CheckTimeout(s) = s
  BY NothingExpired, FirmwareAssumption
<1>2. Golden!CloseBody(s, f) = Golden!OnFrame(s, f)
  BY DEF Golden!CloseBody
<1>3. Golden!OnFrame(s, f) = Golden!Measure(Golden!Accept(s, f), f)
  BY <1>1 DEF Golden!OnFrame
<1> QED BY <1>1, <1>2, <1>3 DEF Golden!RxMarker

\* A judgement while the contactor is closed, or before it closes.
LEMMA JudgeBooks ==
    ASSUME Typed, NEW f \in Frames, NEW known, NEW goes,
           goes = "of_close" \/ (goes = "pu_start" /\ tp = "CHARGING"),
           Judge(f, known, goes), UNCHANGED tp,
           NEW a, IsCharger(a), a.energy = energy, a.frames = frames, a.flags = known,
           a.hold = hold, a.delay = delay, a.tx = <<>>, a.pins = Asking,
           a.lastSeq = lastSeq', a.bad = bad', a.healthy = healthy'
    PROVE  /\ BooksNext(Golden!MeasureCharging(a, f)) /\ Reopens'
           /\ pc' \notin {"ap_timer", "of_fresh", "of_pins"}
<1> DEFINE t == Golden!MeasureCharging(a, f)
<1> USE DEF bill, grid
<1>1. f.over \in BOOLEAN /\ f.sag \in BOOLEAN
  BY FrameFields
<1>2. CASE f.over
  <2>1. /\ flags' = known \cup {"OVERCURRENT"} /\ pc' = "fault" /\ ret' = "pu_start"
        /\ UNCHANGED <<hold, delay, energy, frames>>
    BY <1>2 DEF Judge
  <2>2. t = Golden!EnterFault(a, "OVERCURRENT")
    BY <1>2 DEF Golden!MeasureCharging
  <2>3. /\ Differs(t, a, {"state", "flags", "tx"})
        /\ t.state = "FAULT" /\ t.flags = a.flags \cup {"OVERCURRENT"}
        /\ t.tx = <<Reported(t, "FAULT")>>
    BY <2>2, FaultFields
  <2>4. Target' = "FAULT" /\ Reopens'
        /\ Due' = <<[energy |-> energy', status |-> "FAULT", flags |-> flags', frames |-> frames']>>
    BY <2>1 DEF Target, Reopens, Due
  <2> HIDE DEF t
  <2>5. BooksNext(t)
    BY <2>1, <2>3, <2>4 DEF BooksNext, Reported, Differs, Attributes
  <2> QED BY <2>1, <2>4, <2>5 DEF t
<1>3. CASE ~f.over /\ f.sag
  <2>1. /\ flags' = known \cup {"GRID_HOLD"} /\ pc' = "of_hold" /\ hold' = 0
        /\ delay' = HoldBase + f.hash /\ UNCHANGED <<energy, frames>>
    BY <1>3 DEF Judge
  <2>2. t = Golden!EnterHold(a, f)
    BY <1>3 DEF Golden!MeasureCharging
  <2>3. /\ Differs(t, a, {"flags", "delay", "hold", "state"})
        /\ t.flags = a.flags \cup {"GRID_HOLD"} /\ t.delay = HoldBase + f.hash
        /\ t.hold = 0 /\ t.state = "GRID_HOLD"
    BY <2>2, HoldFields
  <2>4. Target' = "GRID_HOLD" /\ Reopens' /\ Due' = <<>>
    BY <2>1 DEF Target, Reopens, Due, Transmitting
  <2> HIDE DEF t
  <2>5. BooksNext(t)
    BY <2>1, <2>3, <2>4 DEF BooksNext, Differs, Attributes
  <2> QED BY <2>1, <2>4, <2>5 DEF t
<1>4. CASE ~f.over /\ ~f.sag
  <2>1. /\ flags' = known /\ pc' = goes /\ UNCHANGED <<hold, delay>>
        /\ energy' = (energy + f.power) % EnergyMod
        /\ frames' = IF frames = FrameCap THEN frames ELSE frames + 1
    BY <1>4 DEF Judge, Bill
  <2>2. t = Golden!Bill(a, f)
    BY <1>4 DEF Golden!MeasureCharging
  <2>3. /\ Differs(t, a, {"energy", "frames", "state"})
        /\ t.energy = (a.energy + f.power) % EnergyMod
        /\ t.frames = IF a.frames < FrameCap THEN a.frames + 1 ELSE FrameCap
        /\ t.state = "CHARGING"
    BY <2>2, BillFields
  <2>4. t.frames = frames'
    BY <2>1, <2>3, FirmwareAssumption DEF Typed
  <2>5. Target' = "CHARGING" /\ Reopens' /\ Due' = <<>>
    BY <2>1 DEF Target, Reopens, Due, Transmitting
  <2> HIDE DEF t
  <2>6. BooksNext(t)
    BY <2>1, <2>3, <2>4, <2>5 DEF BooksNext, Differs, Attributes
  <2> QED BY <2>1, <2>5, <2>6 DEF t
<1> QED BY <1>1, <1>2, <1>3, <1>4

\* on_frame up to its decision: the golden model took it with the marker, unless
\* the contactor is still to close.
LEMMA OfFreshFollows ==
    ASSUME FirmwareInv, Follows, OfFresh, g' = g
    PROVE  Follows'
<1> DEFINE f == byte.frame
           known == IF lastSeq # NoSequence /\ SequenceDelta(f) # 1
                    THEN flags \cup {"CRC_LOST"} ELSE flags
           a == Golden!Accept(View, f)
           m == Golden!Measure(a, f)
<1> USE DEF bill, grid, parser, report, timers, uart
<1>1. /\ Typed /\ pc = "of_fresh" /\ active /\ len = BodyLen /\ len > 0 /\ ~escape
      /\ f \in Frames /\ Accepted(f)
  BY DEF FirmwareInv, ControlFits, OfFresh
<1>2. Target = tp /\ ~Reopens /\ Due = <<>>
  BY <1>1 DEF Target, Reopens, Due, Transmitting
<1>3. /\ UNCHANGED <<tp, len, escape, active>>
      /\ lastSeq' = f.seq /\ bad' = 0 /\ healthy' = (~f.over /\ ~f.sag)
  BY DEF OfFresh
<1>4. AsRegisters(View) /\ View.age = 0 /\ View.rxAge = 0
      /\ (tp \in {"CHARGING", "GRID_HOLD"} => View.pins = Asking)
  BY <1>1, <1>2, ViewFields DEF AsRegisters, Looked, Typed
<1>5. Golden!Accepted(View, f)
  BY <1>1, <1>4, SameRule DEF AsRegisters
<1>6. /\ Differs(a, View, {"flags", "lastSeq", "bad", "age", "healthy"})
      /\ a.flags = known /\ a.lastSeq = f.seq /\ a.bad = 0 /\ a.age = 0
      /\ a.healthy = (~f.over /\ ~f.sag)
  <2>1. IsCharger(View) /\ View.lastSeq = lastSeq /\ View.flags = flags
    BY <1>4 DEF AsRegisters
  <2>2. known = IF View.lastSeq # -1 /\ (f.seq - View.lastSeq) % SequenceMod # 1
                THEN View.flags \cup {"CRC_LOST"} ELSE View.flags
    BY <2>1 DEF SequenceDelta, NoSequence
  <2>3. /\ Differs(a, View, {"flags", "lastSeq", "bad", "age", "healthy"})
        /\ a.flags = IF View.lastSeq # -1 /\ (f.seq - View.lastSeq) % SequenceMod # 1
                     THEN View.flags \cup {"CRC_LOST"} ELSE View.flags
        /\ a.lastSeq = f.seq /\ a.bad = 0 /\ a.age = 0
        /\ a.healthy = (~f.over /\ ~f.sag)
    BY <2>1, AcceptFields
  <2> HIDE DEF known
  <2> QED BY <2>2, <2>3
<1>7. /\ IsCharger(a) /\ a.state = tp /\ a.energy = energy /\ a.frames = frames
      /\ a.flags = known /\ a.hold = hold /\ a.delay = delay /\ a.tx = <<>>
      /\ a.lastSeq = lastSeq' /\ a.bad = bad' /\ a.healthy = healthy'
      /\ (tp \in {"CHARGING", "GRID_HOLD"} => a.pins = Asking)
  BY <1>3, <1>4, <1>6 DEF AsRegisters, Differs, Attributes
<1>8. CASE tp = "CONNECTED"
  <2>1. g = View
    BY <1>1, <1>8 DEF Follows
  <2>2. /\ pc' = "of_pins" /\ byte' = byte /\ flags' = known
        /\ UNCHANGED <<energy, frames, hold, delay>>
    BY <1>8 DEF OfFresh, Session
  <2>3. Target' = tp /\ ~Reopens' /\ Due' = <<>> /\ Looked' = Looked
    BY <1>2, <1>1, <1>3, <1>8, <2>2 DEF Target, Reopens, Due, Looked, Transmitting
  <2> HIDE DEF a
  <2>4. Differs(a, View', {})
    BY <1>2, <1>3, <1>4, <1>6, <1>7, <2>2, <2>3, ViewFields, NextViewFields DEF Differs, Attributes
  <2>5. a = View'
    BY <2>4, NextViewFields, SameObject
  <2> QED BY <1>4, <1>5, <2>1, <2>2, <2>5 DEF Follows, AsRegisters, a
<1>9. CASE tp # "CONNECTED"
  <2>1. g = Kept(Golden!RxMarker(View, f))
    BY <1>1, <1>9 DEF Follows
  <2>2. Golden!Partial(View)
    BY <1>1, <1>4 DEF AsRegisters, Golden!Partial
  <2>3. g' = Kept([m EXCEPT !.len = 0, !.active = TRUE, !.escape = FALSE, !.rxAge = 0])
    <3>1. View.len = BodyLen /\ ~View.escape
      BY <1>1, <1>4 DEF AsRegisters
    <3>2. Golden!RxMarker(View, f) = [m EXCEPT !.len = 0, !.active = TRUE, !.escape = FALSE, !.rxAge = 0]
      BY <1>4, <1>5, <2>2, <3>1, MarkerMeasures
    <3> QED BY <2>1, <3>2
  <2>4. /\ BooksNext(m) /\ Reopens'
        /\ pc' \notin {"ap_timer", "of_fresh", "of_pins"}
    <3>1. CASE tp = "CHARGING"
      <4>1. Judge(f, known, "pu_start")
        BY <3>1 DEF OfFresh, Session
      <4>2. m = Golden!MeasureCharging(a, f)
        BY <1>7, <3>1 DEF Golden!Measure, Golden!MayMeasure
      <4> HIDE DEF a, m, known
      <4>3. /\ BooksNext(Golden!MeasureCharging(a, f)) /\ Reopens'
            /\ pc' \notin {"ap_timer", "of_fresh", "of_pins"}
        BY <1>1, <1>3, <1>7, <3>1, <4>1, JudgeBooks
      <4> QED BY <4>2, <4>3
    <3>2. CASE tp = "GRID_HOLD"
      <4>1. /\ flags' = known /\ UNCHANGED <<energy, frames, delay>>
            /\ hold' = IF f.sag THEN 0 ELSE hold + 1
            /\ pc' = IF f.sag \/ hold + 1 < delay THEN "pu_start" ELSE "of_resume"
        BY <3>2 DEF OfFresh, Session
      <4>2. m = Golden!MeasureHold(a, f)
        BY <1>7, <3>2 DEF Golden!Measure, Golden!MayMeasure
      <4> HIDE DEF a
      <4>3. /\ Differs(m, a, {"hold", "state"})
            /\ m.hold = IF f.sag THEN 0 ELSE a.hold + 1
            /\ m.state = IF ~f.sag /\ a.hold + 1 >= a.delay THEN "CHARGING" ELSE a.state
        BY <1>7, <4>2, RestartFields DEF Differs, Attributes
      <4>4. Target' = m.state /\ Reopens' /\ Due' = <<>>
        BY <1>1, <1>3, <1>7, <3>2, <4>1, <4>3 DEF Target, Reopens, Due, Transmitting, Typed
      <4> HIDE DEF m, known
      <4>5. BooksNext(m)
        BY <1>7, <3>2, <4>1, <4>3, <4>4 DEF BooksNext, Differs, Attributes
      <4> QED BY <4>1, <4>4, <4>5
    <3>3. CASE tp \notin Session
      <4>1. pc' = "pu_start" /\ flags' = known /\ UNCHANGED <<energy, frames, hold, delay>>
        BY <3>3 DEF OfFresh, Session
      <4>2. m = a
        BY <1>7, <3>3 DEF Golden!Measure, Golden!MayMeasure, Session
      <4> HIDE DEF a, m, known
      <4>3. Target' = tp /\ Reopens' /\ Due' = <<>>
        BY <1>3, <4>1 DEF Target, Reopens, Due, Transmitting
      <4>4. BooksNext(a)
        BY <1>3, <1>7, <3>3, <4>1, <4>3 DEF BooksNext, Session
      <4> QED BY <4>1, <4>2, <4>3, <4>4
    <3> QED BY <1>9, <3>1, <3>2, <3>3 DEF Session
  <2> QED BY <2>3, <2>4, MarkerShown, Moved DEF Follows
<1> QED BY <1>8, <1>9

\* The first frame of a session: the pins are read again, and both decide on
\* what they showed.
LEMMA OfPinsFollows ==
    ASSUME FirmwareInv, Follows, OfPins, FollowFrame
    PROVE  (g = View)'
<1> DEFINE f == byte.frame
           s == [g EXCEPT !.pins = pins]
           a == Golden!Accept(s, f)
           m == Golden!Measure(a, f)
<1> USE DEF bill, grid, parser, report, timers, uart
<1>1. /\ Typed /\ pc = "of_pins" /\ active /\ len = BodyLen /\ len > 0 /\ ~escape
      /\ f \in Frames /\ tp = "CONNECTED"
  BY DEF FirmwareInv, ControlFits, OfPins
<1>2. Target = tp /\ ~Reopens /\ Due = <<>>
  BY <1>1 DEF Target, Reopens, Due, Transmitting
<1>3. UNCHANGED <<tp, lastSeq, bad, healthy, len, escape, active>>
  BY DEF OfPins
<1>4. IsCharger(g) /\ g.age = 0 /\ Golden!Accepted(g, f)
  BY <1>1 DEF Follows
<1>16. Golden!Accept(g, f) = View
  BY <1>1 DEF Follows
<1>5. AsRegisters(View) /\ View.rxAge = 0
  BY <1>1, <1>2, ViewFields DEF AsRegisters, Typed
<1>6. Differs(s, g, {"pins"}) /\ s.pins = pins
  BY <1>4 DEF IsCharger, Attributes, Differs
<1>7. /\ Differs(View, g, {"flags", "lastSeq", "bad", "age", "healthy"})
      /\ View.flags = IF g.lastSeq # -1 /\ (f.seq - g.lastSeq) % SequenceMod # 1
                      THEN g.flags \cup {"CRC_LOST"} ELSE g.flags
      /\ View.lastSeq = f.seq /\ View.bad = 0
      /\ View.healthy = (~f.over /\ ~f.sag)
  <2> DEFINE v == Golden!Accept(g, f)
  <2>1. IsCharger(g)
    BY <1>4
  <2>2. /\ Differs(v, g, {"flags", "lastSeq", "bad", "age", "healthy"})
        /\ v.flags = IF g.lastSeq # -1 /\ (f.seq - g.lastSeq) % SequenceMod # 1
                     THEN g.flags \cup {"CRC_LOST"} ELSE g.flags
        /\ v.lastSeq = f.seq /\ v.bad = 0 /\ v.age = 0
        /\ v.healthy = (~f.over /\ ~f.sag)
    BY <2>1, AcceptFields
  <2>3. v = View
    BY <1>16
  <2> HIDE DEF v
  <2> QED BY <2>2, <2>3
<1>8. g' = Kept(Golden!RxMarker(s, f))
  BY DEF FollowFrame
<1> HIDE DEF s
<1>9. /\ IsCharger(s) /\ s.lastSeq = g.lastSeq /\ s.flags = g.flags
      /\ s.age = 0 /\ s.rxAge = 0 /\ s.len = len /\ s.escape = escape /\ s.active = active
      /\ s.state = tp /\ s.energy = energy /\ s.frames = frames /\ s.hold = hold
      /\ s.delay = delay /\ s.tx = <<>>
  BY <1>4, <1>5, <1>6, <1>7 DEF AsRegisters, Differs, Attributes
<1>10. /\ Differs(a, s, {"flags", "lastSeq", "bad", "age", "healthy"})
       /\ a.flags = IF s.lastSeq # -1 /\ (f.seq - s.lastSeq) % SequenceMod # 1
                    THEN s.flags \cup {"CRC_LOST"} ELSE s.flags
       /\ a.lastSeq = f.seq /\ a.bad = 0 /\ a.age = 0
       /\ a.healthy = (~f.over /\ ~f.sag)
  <2>1. IsCharger(s)
    BY <1>9
  <2> QED BY <2>1, AcceptFields
<1>11. /\ IsCharger(a) /\ a.state = "CONNECTED" /\ a.energy = energy /\ a.frames = frames
       /\ a.flags = flags /\ a.hold = hold /\ a.delay = delay /\ a.tx = <<>> /\ a.pins = pins
       /\ a.lastSeq = lastSeq' /\ a.bad = bad' /\ a.healthy = healthy'
  BY <1>1, <1>3, <1>5, <1>6, <1>7, <1>9, <1>10 DEF AsRegisters, Differs, Attributes
<1>12. g' = Kept([m EXCEPT !.len = 0, !.active = TRUE, !.escape = FALSE, !.rxAge = 0])
  <2>1. Golden!Partial(s) /\ s.len = BodyLen /\ ~s.escape
    BY <1>1, <1>9 DEF Golden!Partial
  <2>2. Golden!Accepted(s, f)
    BY <1>4, <1>9 DEF Golden!Accepted, Golden!SequenceDelta
  <2> QED BY <1>8, <1>9, <2>1, <2>2, MarkerMeasures
<1>13. pins \in [cp : 0..7, safety : BOOLEAN]
  BY <1>1 DEF Typed
<1> HIDE DEF a
<1>14. CASE pins.cp = 2 /\ ~pins.safety
  <2>1. pins = Asking
    BY <1>13, <1>14, AskingPins
  <2>2. Judge(f, flags, "of_close")
    BY <1>14 DEF OfPins
  <2>3. m = Golden!MeasureCharging(a, f)
    BY <1>11, <1>14 DEF Golden!Measure, Golden!MayMeasure
  <2> HIDE DEF m
  <2>4. /\ BooksNext(Golden!MeasureCharging(a, f)) /\ Reopens'
        /\ pc' \notin {"ap_timer", "of_fresh", "of_pins"}
    BY <1>1, <1>3, <1>11, <2>1, <2>2, JudgeBooks
  <2> QED BY <1>12, <2>3, <2>4, MarkerShown, Moved
<1>15. CASE ~(pins.cp = 2 /\ ~pins.safety)
  <2>1. pc' = "pu_start" /\ UNCHANGED <<flags, hold, delay, energy, frames>>
    BY <1>15 DEF OfPins
  <2>2. m = a
    BY <1>11, <1>15 DEF Golden!Measure, Golden!MayMeasure
  <2> HIDE DEF m
  <2>3. Target' = "CONNECTED" /\ Reopens' /\ Due' = <<>>
    BY <1>1, <1>3, <2>1 DEF Target, Reopens, Due, Transmitting
  <2>4. BooksNext(a)
    BY <1>11, <2>1, <2>3 DEF BooksNext
  <2> QED BY <1>12, <2>1, <2>2, <2>3, <2>4, MarkerShown, Moved
<1> QED BY <1>14, <1>15

-----------------------------------------------------------------------------
(* The invariant.                                                          *)

\* The pins, the timers and the line are not in it.
LEMMA SameFollows ==
    ASSUME Follows, UNCHANGED <<cpu, g>>
    PROVE  Follows'
<1>1. View' = View /\ byte' = byte /\ pc' = pc /\ tp' = tp
  BY DEF cpu, bill, grid, parser, report, View, Target, Reopens, Due, Looked, Transmitting
<1>2. CASE pc = "of_fresh" /\ tp # "CONNECTED"
  BY <1>1, <1>2 DEF Follows
<1>3. CASE pc = "of_pins"
  BY <1>1, <1>3 DEF Follows
<1>4. CASE ~(pc = "of_fresh" /\ tp # "CONNECTED") /\ pc # "of_pins"
  BY <1>1, <1>4 DEF Follows
<1> QED BY <1>2, <1>3, <1>4

\* Outside on_frame, g is what the registers stand for.
LEMMA Plainly ==
    /\ pc \notin {"of_fresh", "of_pins"} => (Follows <=> g = View)
    /\ pc' \notin {"of_fresh", "of_pins"} => (Follows' <=> (g = View)')
BY DEF Follows

\* The accesses that do not lead into on_frame, and are not the first of it.
OffFrame ==
    \/ ApRead \/ ApRelease \/ ApStart \/ ApConnect \/ ApTimer \/ ApCharge \/ ApDrop
    \/ ApUnplug \/ Fault \/ Wd \/ WdLatch \/ TxWait \/ TxData \/ TxRead \/ TxStart
    \/ PuAge \/ PuRead \/ PuClear \/ PuTouch \/ PuStart \/ OfClose \/ OfHold \/ OfResume

\* Where they are made and where they lead.
LEMMA OffFrameLabels ==
    ASSUME FirmwareInv, OffFrame
    PROVE  {pc, pc'} \cap {"of_fresh", "of_pins"} = {}
<1>1. CASE ApRead
  BY <1>1 DEF ApRead, EnterFault, AfterPins, PollEntry
<1>2. CASE \/ ApRelease \/ ApStart \/ ApConnect \/ ApTimer \/ ApCharge \/ ApDrop
           \/ ApUnplug \/ Fault \/ Wd \/ WdLatch
  BY <1>2 DEF ApRelease, ApStart, ApConnect, ApTimer, ApCharge, ApDrop, ApUnplug, Fault, Wd,
     WdLatch, SendRecord, ApCheck, AfterPins, PollEntry
<1>3. CASE TxWait \/ TxData \/ TxRead \/ TxStart
  BY <1>3 DEF TxWait, TxData, TxRead, TxStart, ReturnTo, ApCheck, AfterPins, PollEntry,
     FirmwareInv, Typed, Returns
<1>4. CASE PuAge \/ PuRead \/ PuClear \/ PuTouch \/ PuStart
  BY <1>4 DEF PuAge, PuRead, PuClear, PuTouch, PuStart, OnBadFrame, EnterFault, ReturnTo
<1>5. CASE OfClose \/ OfHold \/ OfResume
  BY <1>5 DEF OfClose, OfHold, OfResume
<1> QED BY <1>1, <1>2, <1>3, <1>4, <1>5 DEF OffFrame

\* A step of the lockstep is a step of the firmware, and g takes it too.
LEMMA LockStepInv == ASSUME LockInv, [LNext]_lvars PROVE LockInv'
<1>1. FirmwareInv /\ Follows
  BY DEF LockInv
<1>2. CASE UNCHANGED lvars
  <2>1. FirmwareInv'
    BY <1>1, <1>2, StepInv DEF lvars
  <2>2. UNCHANGED <<cpu, g>>
    BY <1>2 DEF lvars, vars, cpu, bill, grid, parser, report
  <2> QED BY <1>1, <2>1, <2>2, SameFollows DEF LockInv
<1>3. CASE LNext
  <2>1. Next
    BY <1>3 DEF LNext, Next, CPU
  <2>2. FirmwareInv'
    BY <1>1, <2>1, StepInv
  <2>3. Follows'
    <3>1. CASE \E b \in Bytes : PuData(b) /\ FollowData(b)
      <4>1. pc \notin {"of_fresh", "of_pins"}
        BY <3>1 DEF PuData
      <4> QED BY <1>1, <3>1, <4>1, Plainly, PuDataFollows
    <3>2. CASE OfFresh /\ g' = g
      BY <1>1, <3>2, OfFreshFollows
    <3>3. CASE World /\ g' = g
      <4>1. UNCHANGED <<cpu, g>>
        BY <3>3 DEF World, PinsChange, TickAge, TickRx, RxArrive, TxComplete
      <4> QED BY <1>1, <4>1, SameFollows
    <3>4. CASE OfPins /\ FollowFrame
      <4>1. pc' \notin {"of_fresh", "of_pins"}
        BY <3>4 DEF OfPins, Judge
      <4> QED BY <1>1, <3>4, <4>1, Plainly, OfPinsFollows
    <3>5. CASE \/ ApRead /\ FollowPins
               \/ ApTimer /\ FollowTimer
               \/ Wd /\ FollowWatchdog
               \/ PuAge /\ FollowByteTimer
               \/ PuTouch /\ FollowTouch
               \/ TxStart /\ FollowSent
               \/ /\ g' = g
                  /\ \/ ApRelease \/ ApStart \/ ApConnect \/ ApCharge \/ ApDrop
                     \/ ApUnplug \/ Fault \/ WdLatch \/ TxWait \/ TxData \/ TxRead
                     \/ PuRead \/ PuClear \/ PuStart \/ OfClose \/ OfHold \/ OfResume
      <4>1. pc \notin {"of_fresh", "of_pins"} /\ pc' \notin {"of_fresh", "of_pins"}
        <5>1. OffFrame
          BY <3>5 DEF OffFrame
        <5> QED BY <1>1, <5>1, OffFrameLabels
      <4>2. g = View
        BY <1>1, <4>1, Plainly
      <4>3. (g = View)'
        BY <1>1, <3>5, <4>2, ApReadFollows, ApTimerFollows, WdFollows, PuAgeFollows, PuTouchFollows,
           TxStartFollows, ApFollows, LatchFollows, SendFollows, FrameEndFollows
      <4> QED BY <4>1, <4>3, Plainly
    <3> QED BY <1>3, <3>1, <3>2, <3>3, <3>4, <3>5, Zenon DEF LNext
  <2> QED BY <2>2, <2>3 DEF LockInv
<1> QED BY <1>2, <1>3

\* Both start from the reset.
LEMMA StartLock == ASSUME LInit PROVE LockInv
<1>1. FirmwareInv
  BY StartInv DEF LInit
<1>2. g = View
  BY DEF LInit, Init, Golden!Init, Golden!NewCharger, Golden!NoSequence, NoSequence, View, Target,
     Reopens, Due, Looked, Transmitting
<1>3. pc = "ap_again"
  BY DEF LInit, Init
<1> QED BY <1>1, <1>2, <1>3, Plainly DEF LockInv

\* g is the object that the registers stand for, at every access.
THEOREM LockstepInvariant == LSpec => []LockInv
BY StartLock, LockStepInv, PTL DEF LSpec

-----------------------------------------------------------------------------
(* The theorems.                                                           *)

\* Between two handlers the firmware's registers are the golden model's
\* attributes, DATAOUT shows its state, and all it reported has been sent.
THEOREM FirmwareMatchesGolden == LSpec => []RegistersAgree
<1>1. LockInv => RegistersAgree
  <2> SUFFICES ASSUME LockInv, Between PROVE RegistersAgree
    BY DEF RegistersAgree
  <2>1. Typed /\ OutputsShow /\ Follows
    BY DEF LockInv, FirmwareInv
  <2>2. g = View
    BY <2>1, Plainly DEF Between
  <2>3. AsRegisters(g)
    BY <2>1, <2>2, AtRest
  <2> QED BY <2>1, <2>3 DEF RegistersAgree, AsRegisters, OutputsShow
<1> QED BY <1>1, LockstepInvariant, PTL

\* The record being sent is the one the golden model has reported, and the only
\* one.
THEOREM ReportsMatchGolden == LSpec => []ReportAgrees
<1>1. LockInv => ReportAgrees
  <2> SUFFICES ASSUME LockInv, Transmitting PROVE ReportAgrees
    BY DEF ReportAgrees
  <2>1. tp = status /\ Follows
    BY DEF LockInv, FirmwareInv, ReportFits
  <2>2. g = View
    BY <2>1, Plainly DEF Transmitting
  <2>3. g.tx = Due
    BY <2>2, ViewFields
  <2>4. Target = tp
    BY DEF Target, Transmitting
  <2>5. Due = <<[energy |-> energy, status |-> status, flags |-> flags, frames |-> frames]>>
    BY <2>1, <2>4 DEF Due
  <2> QED BY <2>3, <2>5 DEF ReportAgrees
<1> QED BY <1>1, LockstepInvariant, PTL

\* A closed contactor means a vehicle that was asking for power, without a
\* safety trip, at the last look.
THEOREM ClosedMeansAsking == LSpec => []ClosedAsLastSeen
<1>1. LockInv => ClosedAsLastSeen
  <2> SUFFICES ASSUME LockInv, Closed, Between PROVE g.pins = Asking
    BY DEF ClosedAsLastSeen, Asking
  <2>1. Typed /\ OutputsShow /\ Follows
    BY DEF LockInv, FirmwareInv
  <2>2. tp = "CHARGING"
    BY <2>1 DEF Typed, OutputsShow, OutOf, Closed, States, Session, Latched
  <2>3. g = View
    BY <2>1, Plainly DEF Between
  <2>4. g.pins = Looked
    BY <2>1, <2>3, AtRest
  <2>5. Target = "CHARGING"
    BY <2>2 DEF Target, Between
  <2> QED BY <2>4, <2>5 DEF Looked
<1> QED BY <1>1, LockstepInvariant, PTL
=============================================================================
