--------------------------- MODULE FirmwareLockstep ---------------------------
(***************************************************************************)
(* The firmware and its golden model in lockstep.  main.s:4 names          *)
(* golden.py and says "this firmware must match it exactly".  Here an      *)
(* object of the golden model, `g`, lives beside the firmware: each time   *)
(* the firmware commits to a decision, g is moved by the method of         *)
(* golden.py that decides the same thing, on the inputs and the ages the   *)
(* firmware has just read.  Whenever the firmware is between two handlers, *)
(* its registers must be the attributes of g; whatever it sends must be    *)
(* what g reported.                                                        *)
(***************************************************************************)
EXTENDS Firmware, Sequences

VARIABLE g

Golden == INSTANCE Charger WITH c <- g, HashMax <- 7, PilotCodes <- 0..7,
                                Power <- {0, 1}, MaxStep <- 1

LInit == Init /\ Golden!Init

\* The inputs are the hardware's: g is given those just read, and keeps the pins
\* while it charges or waits to.
Kept(s) == [s EXCEPT !.age = 0, !.rxAge = 0,
                     !.pins = IF s.state \in {"CHARGING", "GRID_HOLD"} THEN @ ELSE Golden!NewCharger.pins]

\* A pass of apply_pins is a pass of _step_pins.  If it reads the timer, it is
\* decided there.
FollowPins ==
    IF pc' = "ap_timer" THEN g' = [g EXCEPT !.pins = pins]
    ELSE g' = Kept(Golden!StepPins([g EXCEPT !.pins = pins]))

FollowTimer == g' = Kept(Golden!StepPins([g EXCEPT !.age = age]))

FollowWatchdog == g' = Kept(Golden!CheckTimeout([g EXCEPT !.age = age]))

FollowByteTimer == g' = Kept(Golden!CheckPartialTimeout([g EXCEPT !.rxAge = rxAge]))

\* A marker is decided at once, unless the pins are still to be read again.
FollowData(b) ==
    CASE b.kind = "marker" /\ ~(pc' = "of_fresh" /\ tp = "CONNECTED") ->
           g' = Kept(Golden!RxMarker(g, b.frame))
      [] b.kind # "marker" /\ ~active -> g' = Kept(Golden!RxBodyByte(g, b.kind))
      [] OTHER -> UNCHANGED g

FollowTouch == g' = Kept(Golden!RxBodyByte(g, byte.kind))

FollowFrame == g' = Kept(Golden!RxMarker([g EXCEPT !.pins = pins], byte.frame))

\* The reader of the line takes a record when its last byte is started.
FollowSent == g' = [g EXCEPT !.tx = IF pc' = "tx_wait" THEN @ ELSE <<>>]

LNext == \/ ApRead /\ FollowPins
         \/ ApTimer /\ FollowTimer
         \/ Wd /\ FollowWatchdog
         \/ PuAge /\ FollowByteTimer
         \/ \E b \in Bytes : PuData(b) /\ FollowData(b)
         \/ PuTouch /\ FollowTouch
         \/ OfPins /\ FollowFrame
         \/ TxStart /\ FollowSent
         \/ /\ UNCHANGED g
            /\ \/ ApRelease \/ ApStart \/ ApConnect \/ ApCharge \/ ApDrop
               \/ ApUnplug \/ Fault \/ WdLatch
               \/ TxWait \/ TxData \/ TxRead
               \/ PuRead \/ PuClear \/ PuStart
               \/ OfFresh \/ OfClose \/ OfHold \/ OfResume \/ World

lvars == <<vars, g>>

LSpec == LInit /\ [][LNext]_lvars

-----------------------------------------------------------------------------

\* Between two handlers: nothing decided is still to be carried out.
Between == pc \in {"ap_again", "ap_timer", "wd", "pu_age", "pu_read",
                   "pu_clear", "pu_data", "pu_touch"}

\* The registers are the attributes of the golden model, DATAOUT shows its
\* state, and every record it reported has been sent, whatever the pins, the
\* timers and the line did between the register accesses of the handlers.
RegistersAgree ==
    Between =>
      /\ tp = g.state /\ dataout = OutOf(g.state)
      /\ energy = g.energy /\ frames = g.frames /\ flags = g.flags
      /\ bad = g.bad /\ hold = g.hold /\ delay = g.delay
      /\ lastSeq = g.lastSeq /\ healthy = g.healthy
      /\ len = g.len /\ active = g.active /\ escape = g.escape
      /\ g.tx = <<>>

\* Every byte of a record is taken from the registers as the golden model
\* reported them: nothing moves them while the record is sent, and the
\* firmware sends a record only when the golden model does.
ReportAgrees ==
    Transmitting =>
      /\ Len(g.tx) = 1
      /\ g.tx[1] = [energy |-> energy, status |-> status,
                    flags |-> flags, frames |-> frames]

\* The contactor is closed only for a vehicle that was asking for power, with
\* no safety trip, when the firmware last looked; it may stay closed no longer
\* than the handler that has seen this change.
ClosedAsLastSeen ==
    Closed /\ Between => g.pins = [cp |-> 2, safety |-> FALSE]
=============================================================================
