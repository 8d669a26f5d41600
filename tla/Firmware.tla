------------------------------ MODULE Firmware ------------------------------
(***************************************************************************)
(* The firmware (firmware/src/main.s) on its peripherals.  A step of the   *)
(* CPU is one access to a peripheral register, together with the register  *)
(* computation that follows it: GPIO, UART and timer change between any    *)
(* two accesses, and private registers cannot be seen to change.  The      *)
(* program counter `pc` names the access to come by the label of main.s it *)
(* belongs to; `ret` is where the record being sent returns to.            *)
(*                                                                         *)
(* Registers: tp state, s2 lastSeq, s3 energy, s4 frames, s5 flags, s6     *)
(* bad, s7 hold, s8 delay, sp healthy, s9 len/escape/active, s10 before.   *)
(* Peripherals: DATAIN pins, DATAOUT dataout, the two ages of the meter    *)
(* timer, and RXDONE and TXDONE of the UART.  What RXDATA holds is chosen   *)
(* when it is read: the line may bring anything.                            *)
(***************************************************************************)
EXTENDS Integers

CONSTANTS
    MeterTimeout, RxTimeout, AgeCap, BodyLen, SequenceMod, SeqHalf, EnergyMod, FrameCap,
    HoldBase,       \* as in Charger.tla
    BodyKinds,      \* the body bytes the line brings
    Readings,       \* what a frame may say: over, sag, power, hash
    PinStates,      \* what DATAIN may show: cp, safety
    RecordLen       \* bytes of a record, 8

\* The timeouts are positive, and the constants that stand for registers and for
\* what the line and the pins may bring have the shape of their registers.
ASSUME FirmwareAssumption ==
    /\ MeterTimeout \in Nat \ {0} /\ RxTimeout \in Nat \ {0}
    /\ BodyLen \in Nat /\ FrameCap \in Nat /\ HoldBase \in Nat
    /\ BodyKinds \subseteq {"escape", "stuffed", "plain"}
    /\ Readings \subseteq [over : BOOLEAN, sag : BOOLEAN, power : Nat, hash : Nat]
    /\ PinStates \subseteq [cp : 0..7, safety : BOOLEAN]

Session == {"CONNECTED", "CHARGING", "GRID_HOLD"}
Latched == {"FAULT", "METER_TIMEOUT"}
States  == {"IDLE"} \cup Session \cup Latched
Causes  == {"ESTOP", "CP_ERROR", "OVERCURRENT", "CRC_LOST", "GRID_HOLD"}
NoSequence == -1
BadLimit   == 2

\* DATAOUT per state (set_state): the contactor and the other indicators.
OutOf(state) == CASE state = "IDLE"      -> {}
                  [] state = "CONNECTED" -> {"lock"}
                  [] state = "CHARGING"  -> {"lock", "contactor"}
                  [] state = "GRID_HOLD" -> {"lock", "hold"}
                  [] state \in Latched   -> {"fault"}

\* A byte of the meter, by what the parser compares it with.  The marker that
\* closes a body comes with the frame that the body holds.
Frame(ok, seq, r) == [ok |-> ok, seq |-> seq, over |-> r.over,
                      sag |-> r.sag, power |-> r.power, hash |-> r.hash]
Corrupt == Frame(FALSE, 0, [over |-> FALSE, sag |-> FALSE, power |-> 0, hash |-> 0])
Frames == {Frame(TRUE, seq, r) : seq \in 0..(SequenceMod - 1), r \in Readings}
          \cup {Corrupt}
Bytes == [kind : {"marker"}, frame : Frames]
         \cup [kind : BodyKinds, frame : {Corrupt}]
NoByte == [kind |-> "none", frame |-> Corrupt]

VARIABLES pc, ret, tp, before, lastSeq, energy, frames, flags, bad, hold,
          delay, healthy, len, escape, active,
          byte,             \* t1: the byte being parsed, while it is live
          status, sent,     \* the record being sent, and how much of it
          ctl,              \* t0: RXDONE as uart_tx_byte read it
          pins, dataout, age, rxAge, rxDone, txDone

bill   == <<energy, frames>>
grid   == <<hold, delay>>
parser == <<len, escape, active>>
report == <<status, sent, ctl>>
timers == <<age, rxAge>>
uart   == <<rxDone, txDone>>
vars == <<pc, ret, tp, before, lastSeq, energy, frames, flags, bad, hold,
          delay, healthy, len, escape, active, byte, status, sent, ctl,
          pins, dataout, age, rxAge, rxDone, txDone>>

\* _start, and the reset values of the peripherals.
Init ==
    /\ pc = "ap_again" /\ ret = "ap_check" /\ tp = "IDLE" /\ before = "IDLE"
    /\ lastSeq = NoSequence /\ energy = 0 /\ frames = 0 /\ flags = {}
    /\ bad = 0 /\ hold = 0 /\ delay = 0 /\ healthy = FALSE
    /\ len = 0 /\ escape = FALSE /\ active = FALSE
    /\ byte = NoByte /\ status = "IDLE" /\ sent = 0 /\ ctl = FALSE
    /\ pins = [cp |-> 0, safety |-> FALSE] /\ dataout = {}
    /\ age = 0 /\ rxAge = 0
    /\ rxDone = FALSE /\ txDone = TRUE

-----------------------------------------------------------------------------
(* Control flow: where the main loop, the calls and the returns lead.      *)

\* poll_uart reads the byte timer only if a body may be open.
PollEntry(a) == IF a THEN "pu_age" ELSE "pu_read"

\* Mutant of AfterPins: while the line is bringing a body, the meter counts
\* as alive.
AfterPinsTrustsLine(state) ==
    IF state \in Session /\ ~active THEN "wd" ELSE PollEntry(active)

\* check_meter_timeout reads the meter age only in a session.
AfterPins(state) == IF state \in Session THEN "wd" ELSE PollEntry(active)

\* ap_check: the rules are applied again if the state has moved.
ApCheck(state) == IF state # before THEN "ap_again" ELSE AfterPins(state)

ReturnTo(r) == CASE r = "ap_check" -> ApCheck(tp)
                 [] r = "poll"     -> PollEntry(active)
                 [] r = "pu_read"  -> "pu_read"
                 [] r = "pu_start" -> "pu_start"
                 [] r = "pu_done"  -> "ap_again"

\* set_state: tp and DATAOUT.
SetState(state) == tp' = state /\ dataout' = OutOf(state)

\* The call of send_record for the state just entered.
SendRecord(s, r) == /\ status' = s /\ sent' = 0 /\ ret' = r
                    /\ pc' = "tx_wait" /\ UNCHANGED ctl

EnterFault(cause, r) == flags' = flags \cup {cause} /\ pc' = "fault" /\ ret' = r

-----------------------------------------------------------------------------
(* apply_pins.                                                             *)

\* ap_again: DATAIN is read once per pass and decides the pass.  `before` is
\* forgotten when the pass ends without a move.
ApRead ==
    /\ pc = "ap_again"
    /\ LET cp == pins.cp
           safety == pins.safety
           go(label) == pc' = label /\ UNCHANGED <<flags, ret>>
           begins == tp = "IDLE" /\ ~safety /\ cp \in 1..3
       IN  /\ \/ /\ tp \in Latched
                 /\ go(IF ~safety /\ cp = 0 THEN "ap_release" ELSE AfterPins(tp))
              \/ tp \notin Latched /\ safety /\ EnterFault("ESTOP", "ap_check")
              \/ /\ tp \notin Latched /\ ~safety /\ cp >= 4
                 /\ EnterFault("CP_ERROR", "ap_check")
              \/ tp = "IDLE" /\ ~safety /\ cp = 0 /\ go(AfterPins(tp))
              \/ begins /\ pc' = "ap_start" /\ flags' = {} /\ UNCHANGED ret
              \/ tp \in Session /\ ~safety /\ cp = 0 /\ go("ap_unplug")
              \/ /\ tp = "CONNECTED" /\ ~safety /\ cp = 2
                 /\ go(IF healthy THEN "ap_timer" ELSE AfterPins(tp))
              \/ tp = "CONNECTED" /\ ~safety /\ cp \in {1, 3} /\ go(AfterPins(tp))
              \/ /\ tp \in {"CHARGING", "GRID_HOLD"} /\ ~safety /\ cp = 2
                 /\ go(AfterPins(tp))
              \/ /\ tp \in {"CHARGING", "GRID_HOLD"} /\ ~safety /\ cp \in {1, 3}
                 /\ go("ap_drop")
           /\ IF begins
              THEN /\ energy' = 0 /\ frames' = 0 /\ healthy' = FALSE
                   /\ lastSeq' = NoSequence
                   /\ len' = 0 /\ escape' = FALSE /\ active' = FALSE
              ELSE UNCHANGED <<bill, healthy, lastSeq, parser>>
    /\ before' = IF pc' = AfterPins(tp) THEN "IDLE" ELSE tp
    /\ UNCHANGED <<tp, bad, grid, byte, report, pins, dataout, timers, uart>>

ApRelease == /\ pc = "ap_release" /\ SetState("IDLE") /\ pc' = ApCheck("IDLE")
             /\ UNCHANGED <<ret, before, lastSeq, bill, flags, bad, grid,
                            healthy, parser, byte, report, pins, timers, uart>>

ApStart == /\ pc = "ap_start" /\ age' = 0 /\ pc' = "ap_connect"
           /\ UNCHANGED <<ret, tp, before, lastSeq, bill, flags, bad, grid, healthy,
                          parser, byte, report, pins, dataout, rxAge, uart>>

ApConnect == /\ pc = "ap_connect" /\ SetState("CONNECTED")
             /\ pc' = ApCheck("CONNECTED")
             /\ UNCHANGED <<ret, before, lastSeq, bill, flags, bad, grid,
                            healthy, parser, byte, report, pins, timers, uart>>

ApTimer == /\ pc = "ap_timer"
           /\ IF age < MeterTimeout THEN pc' = "ap_charge" /\ UNCHANGED before
              ELSE pc' = AfterPins(tp) /\ before' = "IDLE"
           /\ UNCHANGED <<ret, tp, lastSeq, bill, flags, bad, grid, healthy,
                          parser, byte, report, pins, dataout, timers, uart>>

ApCharge == /\ pc = "ap_charge" /\ SetState("CHARGING")
            /\ pc' = ApCheck("CHARGING")
            /\ UNCHANGED <<ret, before, lastSeq, bill, flags, bad, grid,
                           healthy, parser, byte, report, pins, timers, uart>>

ApDrop == /\ pc = "ap_drop" /\ SetState("CONNECTED")
          /\ pc' = ApCheck("CONNECTED")
          /\ UNCHANGED <<ret, before, lastSeq, bill, flags, bad, grid,
                         healthy, parser, byte, report, pins, timers, uart>>

ApUnplug == /\ pc = "ap_unplug" /\ SetState("IDLE")
            /\ SendRecord("IDLE", "ap_check")
            /\ UNCHANGED <<before, lastSeq, bill, flags, bad, grid,
                           healthy, parser, byte, pins, timers, uart>>

\* Mutant of Fault: the record is sent before the outputs are written.
FaultReportsFirst ==
    /\ pc = "fault" /\ tp' = "FAULT" /\ UNCHANGED dataout
    /\ SendRecord("FAULT", ret)
    /\ UNCHANGED <<before, lastSeq, bill, flags, bad, grid,
                   healthy, parser, byte, pins, timers, uart>>

\* enter_fault, whoever called it: outputs first, then the record.
Fault == /\ pc = "fault" /\ SetState("FAULT") /\ SendRecord("FAULT", ret)
         /\ UNCHANGED <<before, lastSeq, bill, flags, bad, grid,
                        healthy, parser, byte, pins, timers, uart>>

-----------------------------------------------------------------------------
(* check_meter_timeout.                                                    *)

\* Mutant of Wd: the expired measurement keeps counting as healthy.
WdKeepsHealthy ==
    /\ pc = "wd"
    /\ pc' = IF age < MeterTimeout THEN PollEntry(active) ELSE "wd_latch"
    /\ UNCHANGED <<ret, tp, before, lastSeq, bill, flags, bad, grid, healthy,
                   parser, byte, report, pins, dataout, timers, uart>>

Wd == /\ pc = "wd"
      /\ IF age < MeterTimeout
         THEN pc' = PollEntry(active) /\ UNCHANGED healthy
         ELSE pc' = "wd_latch" /\ healthy' = FALSE
      /\ UNCHANGED <<ret, tp, before, lastSeq, bill, flags, bad, grid, parser,
                     byte, report, pins, dataout, timers, uart>>

WdLatch == /\ pc = "wd_latch" /\ SetState("METER_TIMEOUT")
           /\ SendRecord("METER_TIMEOUT", "poll")
           /\ UNCHANGED <<before, lastSeq, bill, flags, bad, grid,
                          healthy, parser, byte, pins, timers, uart>>

-----------------------------------------------------------------------------
(* send_record and uart_tx_byte.                                           *)

\* Mutant of TxWait: TXDONE is read and not waited for.
TxWaitOnce ==
    /\ pc = "tx_wait" /\ pc' = "tx_data"
    /\ UNCHANGED <<ret, tp, before, lastSeq, bill, flags, bad, grid, healthy,
                   parser, byte, report, pins, dataout, timers, uart>>

\* Mutant of TxWait: a byte still being received is waited for first.
TxWaitForQuiet ==
    /\ pc = "tx_wait" /\ txDone /\ ~active /\ pc' = "tx_data"
    /\ UNCHANGED <<ret, tp, before, lastSeq, bill, flags, bad, grid, healthy,
                   parser, byte, report, pins, dataout, timers, uart>>

TxWait == /\ pc = "tx_wait" /\ txDone /\ pc' = "tx_data"
          /\ UNCHANGED <<ret, tp, before, lastSeq, bill, flags, bad, grid, healthy,
                         parser, byte, report, pins, dataout, timers, uart>>

TxData == /\ pc = "tx_data" /\ pc' = "tx_read"
          /\ UNCHANGED <<ret, tp, before, lastSeq, bill, flags, bad, grid, healthy,
                         parser, byte, report, pins, dataout, timers, uart>>

TxRead == /\ pc = "tx_read" /\ pc' = "tx_start" /\ ctl' = rxDone
          /\ UNCHANGED <<ret, tp, before, lastSeq, bill, flags, bad, grid, healthy,
                         parser, byte, status, sent, pins, dataout, timers, uart>>

\* The write of CONTROL starts the byte and puts RXDONE back as it was read.
\* What the record was sent from is forgotten with its last byte.
TxStart == /\ pc = "tx_start"
           /\ rxDone' = ctl /\ txDone' = FALSE /\ ctl' = FALSE
           /\ IF sent + 1 < RecordLen
              THEN sent' = sent + 1 /\ pc' = "tx_wait" /\ UNCHANGED <<status, ret>>
              ELSE /\ sent' = 0 /\ status' = "IDLE" /\ ret' = "ap_check"
                   /\ pc' = ReturnTo(ret)
           /\ UNCHANGED <<tp, before, lastSeq, bill, flags, bad, grid, healthy,
                          parser, byte, pins, dataout, timers>>

-----------------------------------------------------------------------------
(* poll_uart.  `byte` is forgotten when the handler is done with it.       *)

\* Mutant of OnBadFrame: a latched fault is entered, and reported, again.
OnBadFrameReportsAgain(r) ==
    LET n == IF bad < BadLimit THEN bad + 1 ELSE bad
    IN  /\ bad' = n
        /\ IF n >= BadLimit THEN EnterFault("CRC_LOST", r)
           ELSE pc' = ReturnTo(r) /\ UNCHANGED <<flags, ret>>

\* on_bad_frame; r is where its caller goes on.
OnBadFrame(r) ==
    LET n == IF bad < BadLimit THEN bad + 1 ELSE bad
    IN  /\ bad' = n
        /\ IF n >= BadLimit /\ tp \notin Latched
           THEN EnterFault("CRC_LOST", r)
           ELSE pc' = ReturnTo(r) /\ UNCHANGED <<flags, ret>>

ClearParser == len' = 0 /\ escape' = FALSE /\ active' = FALSE

PuAge ==
    /\ pc = "pu_age"
    /\ IF rxAge < RxTimeout
       THEN pc' = "pu_read" /\ UNCHANGED <<parser, bad, flags, ret>>
       ELSE /\ ClearParser
            /\ IF len > 0 \/ escape THEN OnBadFrame("pu_read")
               ELSE pc' = "pu_read" /\ UNCHANGED <<bad, flags, ret>>
    /\ UNCHANGED <<tp, before, lastSeq, bill, grid, healthy, byte, report,
                   pins, dataout, timers, uart>>

\* Mutant of PuRead: a byte is waited for, not polled.
PuReadBlocks ==
    /\ pc = "pu_read" /\ rxDone /\ pc' = "pu_clear"
    /\ UNCHANGED <<ret, tp, before, lastSeq, bill, flags, bad, grid, healthy,
                   parser, byte, report, pins, dataout, timers, uart>>

PuRead == /\ pc = "pu_read"
          /\ pc' = IF rxDone THEN "pu_clear" ELSE "ap_again"
          /\ UNCHANGED <<ret, tp, before, lastSeq, bill, flags, bad, grid, healthy,
                         parser, byte, report, pins, dataout, timers, uart>>

PuClear == /\ pc = "pu_clear" /\ rxDone' = FALSE /\ pc' = "pu_data"
           /\ UNCHANGED <<ret, tp, before, lastSeq, bill, flags, bad, grid, healthy,
                          parser, byte, report, pins, dataout, timers, txDone>>

SequenceDelta(f) == (f.seq - lastSeq) % SequenceMod

\* Mutant of Accepted: any other sequence number is a step forward.
AcceptedBackward(f) == f.ok /\ (lastSeq # NoSequence => SequenceDelta(f) > 0)

Accepted(f) == /\ f.ok
               /\ lastSeq # NoSequence =>
                    SequenceDelta(f) > 0 /\ SequenceDelta(f) < SeqHalf

\* RXDATA is read; a marker closes a body, any other byte belongs to one.
PuData(b) ==
    /\ pc = "pu_data"
    /\ LET f == b.frame
           partial == len > 0 \/ escape
           complete == len = BodyLen /\ ~escape
           go(label) == pc' = label /\ UNCHANGED <<bad, flags, ret>>
       IN  \/ /\ b.kind = "marker" /\ ~partial
              /\ byte' = NoByte /\ go("pu_start")
           \/ /\ b.kind = "marker" /\ partial /\ complete /\ Accepted(f)
              /\ byte' = b /\ go("of_fresh")
           \/ /\ b.kind = "marker" /\ partial /\ ~(complete /\ Accepted(f))
              /\ byte' = NoByte /\ OnBadFrame("pu_start")
           \/ /\ b.kind # "marker" /\ ~active
              /\ byte' = NoByte /\ go("ap_again")
           \/ /\ b.kind # "marker" /\ active
              /\ byte' = b /\ go("pu_touch")
    /\ UNCHANGED <<tp, before, lastSeq, bill, grid, healthy, parser, report,
                   pins, dataout, timers, uart>>

\* A body byte restarts the byte timer and is unescaped, stored or rejected.
PuTouch ==
    /\ pc = "pu_touch"
    /\ rxAge' = 0
    /\ byte' = NoByte
    /\ LET illegal == escape /\ byte.kind # "stuffed"
           escapes == ~escape /\ byte.kind = "escape"
           stored  == ~illegal /\ ~escapes
       IN  \/ /\ illegal \/ (stored /\ len >= BodyLen)
              /\ ClearParser /\ OnBadFrame("pu_done")
           \/ /\ escapes
              /\ escape' = TRUE /\ pc' = "ap_again"
              /\ UNCHANGED <<len, active, bad, flags, ret>>
           \/ /\ stored /\ len < BodyLen
              /\ len' = len + 1 /\ escape' = FALSE /\ pc' = "ap_again"
              /\ UNCHANGED <<active, bad, flags, ret>>
    /\ UNCHANGED <<tp, before, lastSeq, bill, grid, healthy, report,
                   pins, dataout, age, uart>>

PuStart == /\ pc = "pu_start" /\ rxAge' = 0 /\ pc' = "ap_again"
           /\ len' = 0 /\ escape' = FALSE /\ active' = TRUE
           /\ UNCHANGED <<ret, tp, before, lastSeq, bill, flags, bad, grid, healthy,
                          byte, report, pins, dataout, age, uart>>

-----------------------------------------------------------------------------
(* on_frame, from its first bus access on.                                 *)

Bill(f) == /\ energy' = (energy + f.power) % EnergyMod
           /\ frames' = IF frames = FrameCap THEN frames ELSE frames + 1

\* A frame is judged: over-current, then the grid; `closed` says how a healthy
\* one goes on.  known is flags with what the sequence check added.
Judge(f, known, healthyGoesTo) ==
    \/ /\ f.over
       /\ flags' = known \cup {"OVERCURRENT"} /\ pc' = "fault"
       /\ ret' = "pu_start" /\ UNCHANGED <<grid, bill>>
    \/ /\ ~f.over /\ f.sag
       /\ flags' = known \cup {"GRID_HOLD"} /\ pc' = "of_hold"
       /\ hold' = 0 /\ delay' = HoldBase + f.hash /\ UNCHANGED <<ret, bill>>
    \/ /\ ~f.over /\ ~f.sag
       /\ flags' = known /\ pc' = healthyGoesTo
       /\ Bill(f) /\ UNCHANGED <<ret, grid>>

\* The valid frame resets the meter age; then the state decides.
OfFresh ==
    /\ pc = "of_fresh"
    /\ LET f == byte.frame
           known == IF lastSeq # NoSequence /\ SequenceDelta(f) # 1
                    THEN flags \cup {"CRC_LOST"} ELSE flags
           keep == flags' = known /\ UNCHANGED <<ret, bill>>
       IN  /\ lastSeq' = f.seq /\ age' = 0 /\ bad' = 0
           /\ healthy' = (~f.over /\ ~f.sag)
           /\ \/ tp = "CHARGING" /\ Judge(f, known, "pu_start")
              \/ /\ tp = "GRID_HOLD" /\ keep /\ UNCHANGED delay
                 /\ \/ f.sag /\ hold' = 0 /\ pc' = "pu_start"
                    \/ /\ ~f.sag /\ hold' = hold + 1
                       /\ pc' = IF hold + 1 < delay THEN "pu_start"
                                ELSE "of_resume"
              \/ tp = "CONNECTED" /\ keep /\ pc' = "of_pins" /\ UNCHANGED grid
              \/ tp \notin Session /\ keep /\ pc' = "pu_start" /\ UNCHANGED grid
           /\ byte' = IF tp = "CONNECTED" THEN byte ELSE NoByte
    /\ UNCHANGED <<tp, before, parser, report, pins, dataout, rxAge, uart>>

\* Mutant of OfPins: DATAIN is taken to be as it was when the session began.
OfPinsTrusted ==
    /\ pc = "of_pins"
    /\ byte' = NoByte
    /\ Judge(byte.frame, flags, "of_close")
    /\ UNCHANGED <<tp, before, lastSeq, bad, healthy, parser, report, pins,
                   dataout, timers, uart>>

\* The first frame of a session: DATAIN is read again before it may close.
OfPins ==
    /\ pc = "of_pins"
    /\ byte' = NoByte
    /\ IF pins.cp = 2 /\ ~pins.safety THEN Judge(byte.frame, flags, "of_close")
       ELSE pc' = "pu_start" /\ UNCHANGED <<flags, ret, grid, bill>>
    /\ UNCHANGED <<tp, before, lastSeq, bad, healthy, parser, report, pins,
                   dataout, timers, uart>>

OfClose == /\ pc = "of_close" /\ SetState("CHARGING") /\ pc' = "pu_start"
           /\ UNCHANGED <<ret, before, lastSeq, bill, flags, bad, grid,
                          healthy, parser, byte, report, pins, timers, uart>>

OfHold == /\ pc = "of_hold" /\ SetState("GRID_HOLD") /\ pc' = "pu_start"
          /\ UNCHANGED <<ret, before, lastSeq, bill, flags, bad, grid,
                         healthy, parser, byte, report, pins, timers, uart>>

OfResume == /\ pc = "of_resume" /\ SetState("CHARGING") /\ pc' = "pu_start"
            /\ UNCHANGED <<ret, before, lastSeq, bill, flags, bad, grid,
                           healthy, parser, byte, report, pins, timers, uart>>

-----------------------------------------------------------------------------
(* The world: pins, the two millisecond counters, the serial line.         *)

cpu == <<pc, ret, tp, before, lastSeq, bill, flags, bad, grid, healthy,
         parser, byte, report>>

PinsChange == /\ \E p \in PinStates \ {pins} : pins' = p
              /\ UNCHANGED <<cpu, dataout, timers, uart>>

TickAge == /\ age < AgeCap /\ age' = age + 1
           /\ UNCHANGED <<cpu, pins, dataout, rxAge, uart>>

TickRx == /\ rxAge < AgeCap /\ rxAge' = rxAge + 1
          /\ UNCHANGED <<cpu, pins, dataout, age, uart>>

\* A byte is complete, at the moment of a clear too.  The newest wins: one more
\* while RXDONE is set changes nothing here.
RxArrive == /\ ~rxDone /\ rxDone' = TRUE
            /\ UNCHANGED <<cpu, pins, dataout, timers, txDone>>

TxComplete == /\ ~txDone /\ txDone' = TRUE
              /\ UNCHANGED <<cpu, pins, dataout, timers, rxDone>>

CPU == \/ ApRead \/ ApRelease \/ ApStart \/ ApConnect \/ ApTimer \/ ApCharge
       \/ ApDrop \/ ApUnplug \/ Fault \/ Wd \/ WdLatch
       \/ TxWait \/ TxData \/ TxRead \/ TxStart
       \/ PuAge \/ PuRead \/ PuClear \/ PuTouch \/ PuStart
       \/ \E b \in Bytes : PuData(b)
       \/ OfFresh \/ OfPins \/ OfClose \/ OfHold \/ OfResume

World == PinsChange \/ TickAge \/ TickRx \/ RxArrive \/ TxComplete

Next == CPU \/ World

Spec == Init /\ [][Next]_vars

\* The core executes (no instruction of main.s halts it) and the transmitter
\* finishes the byte it has started.  Nothing here waits for the counters.
FairSpec == Spec /\ WF_vars(CPU) /\ WF_vars(TxComplete)

-----------------------------------------------------------------------------
(* Correctness.                                                            *)

Transmitting == pc \in {"tx_wait", "tx_data", "tx_read", "tx_start"}
Closed == "contactor" \in dataout

\* While a record is being sent the core looks at neither the pins nor the
\* meter, for about a millisecond: it must have opened the contactor before.
ContactorOpenWhileReporting == Transmitting => ~Closed /\ tp = status

\* A byte is started only when the transmitter is idle: the UART ignores a
\* start while it is busy, and the record would lack that byte.
EveryByteIsSent == pc = "tx_start" => txDone

\* A safety trip that stays opens the contactor, whatever the line brings.
TripOpensContactor == (Closed /\ pins.safety) ~> (~Closed \/ ~pins.safety)

\* Silence opens the contactor: from data that has expired the core gets to an
\* open contactor or to a new valid frame.
SilenceOpensContactor ==
    (Closed /\ age >= MeterTimeout) ~> (~Closed \/ age < MeterTimeout)

\* A record that is begun ends, and the core looks at its inputs again.
ReportEnds == Transmitting ~> pc = "ap_again"

\* main.s:333 says of uart_tx_byte "Read-modify-write on CONTROL so RXDONE
\* survives": only poll_uart takes RXDONE away.
ReceivedByteSurvives == [][rxDone /\ ~rxDone' => pc = "pu_clear"]_vars
=============================================================================
