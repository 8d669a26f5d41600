------------------------------ MODULE Scenarios ------------------------------
(***************************************************************************)
(* The scenario library of the web visualiser (data/scenarios.ts): each    *)
(* scenario is a list of operations, run once through the charging model   *)
(* (Charger.tla, at the numbers of data/constants.ts) with a snapshot      *)
(* after each, and run again by the what-if view with some frames          *)
(* corrupted.                                                              *)
(***************************************************************************)
EXTENDS Crc, FiniteSets

METER_TIMEOUT_MS == 4000

\* The energy register is 2^32 wide; no scenario comes near this bound.
Model == INSTANCE Charger WITH
    MeterTimeout <- METER_TIMEOUT_MS, RxTimeout <- 400, AgeCap <- 2000000000,
    BodyLen <- 9, SequenceMod <- 256, SeqHalf <- 128, EnergyMod <- 1000000000,
    FrameCap <- 255, HoldBase <- HOLD_BASE, HashMax <- 7,
    PilotCodes <- 0..7, Power <- {}, MaxStep <- METER_TIMEOUT_MS, c <- {}

-----------------------------------------------------------------------------
(* Scripts.  A GPIO value is the pilot code in bits 0-2, SAFETY in 3; a    *)
(* frame is what the meter measured, and whether a bit was flipped on the  *)
(* way.                                                                    *)

Read       == [type |-> "gpio_out"]
Rx(sent)   == <<[type |-> "frame", sent |-> sent]>>
Tick(ms)   == <<[type |-> "tick", ms |-> ms]>>
SendRecord == <<[type |-> "record"]>>

Measured(sequence, voltage, current, frequency) ==
    [sequence |-> sequence, voltage |-> voltage, current |-> current,
     frequency |-> frequency, flipped |-> FALSE]
Nominal(sequence) == Measured(sequence, 2300, 160, 5000)
Flipped(sent) == [sent EXCEPT !.flipped = TRUE]

\* Every operation with an o() after it: i(v).o() and frame(b).o() for each.
Checked(ops) == [k \in 1..(2 * Len(ops)) |-> IF k % 2 = 1 THEN ops[(k + 1) \div 2] ELSE Read]
Drive(values) == Checked([k \in DOMAIN values |-> [type |-> "gpio_in", value |-> values[k]]])
Meter(frames) == Checked([k \in DOMAIN frames |-> [type |-> "frame", sent |-> frames[k]]])

\* A frame as the bytes that arrive.
OnWire(sent) ==
    LET Arriving(body) == IF sent.flipped THEN Corrupted(body) ELSE body
    IN  Arriving(FrameBody(sent.sequence, sent.voltage, sent.current, sent.frequency))

Compiled(script) ==
    [k \in DOMAIN script |-> IF script[k].type # "frame" THEN script[k]
                             ELSE [type |-> "frame", body |-> OnWire(script[k].sent)]]

\* S2: the frame that starts the hold, and what follows the restart delay
\* drawn from it.
S2Trigger == Measured(1, 2300, 160, 4920)
S2Delay == RestartDelay(CrcField(OnWire(S2Trigger)), CHARGER_ID)
S2Recovery(delay) ==
    Meter([k \in 1..delay |-> Measured(2 + k, 2070, 160, 4950)] \o <<Nominal(3 + delay)>>)

Scenario(preset, category, script) ==
    [preset |-> preset, category |-> category, script |-> script]

Library == [
    S1  |-> Scenario(0, "normal", Drive(<<0, 1, 2>>)
              \o Meter(<<Nominal(0), Nominal(1)>>) \o Drive(<<1, 0>>) \o SendRecord),
    S1X |-> Scenario(0, "normal", Drive(<<0, 1, 2>>)
              \o Rx(Nominal(0)) \o Meter(<<Nominal(1)>>) \o Drive(<<1, 0>>) \o SendRecord),
    S2  |-> Scenario(0, "grid", Drive(<<1, 2>>)
              \o Meter(<<Nominal(0), S2Trigger, Measured(2, 2300, 160, 4940)>>)
              \o S2Recovery(S2Delay) \o Drive(<<1, 0>>) \o SendRecord),
    S3  |-> Scenario(0, "integrity", Drive(<<1, 2>>)
              \o Meter(<<Nominal(0), Flipped(Nominal(1)), Nominal(2),
                         Nominal(4), Nominal(5)>>) \o Drive(<<0>>) \o SendRecord),
    S4  |-> Scenario(0, "fault", Drive(<<1, 2>>)
              \o Meter(<<Nominal(0), Flipped(Nominal(1)), Flipped(Nominal(2))>>)
              \o Drive(<<0>>) \o SendRecord),
    S5  |-> Scenario(0, "fault", Drive(<<1, 2>>)
              \o Meter(<<Nominal(0)>>) \o Drive(<<10, 2, 8, 0>>) \o SendRecord),
    S6  |-> Scenario(0, "normal", Drive(<<2>>) \o Meter(<<Nominal(0)>>)
              \o Drive(<<0>>) \o SendRecord),
    S7  |-> Scenario(0, "fault", Drive(<<1, 2>>)
              \o Meter(<<Measured(0, V_SAG, I_MAX, F_LOW),
                         Measured(1, 2300, I_MAX + 1, 5000)>>)
              \o Drive(<<0>>) \o SendRecord),
    S8  |-> Scenario(0, "fault", Drive(<<1, 3, 2, 3, 4, 0>>) \o SendRecord),
    S9  |-> Scenario(0, "fault", Drive(<<1, 7, 0>>) \o SendRecord),
    S10 |-> Scenario(0, "integrity", Drive(<<1, 2>>)
              \o Meter(<<Nominal(0), Nominal(1), Nominal(0), Nominal(0)>>)
              \o Drive(<<0>>) \o SendRecord),
    S11 |-> Scenario(2, "normal", <<Read>> \o Meter(<<Nominal(0)>>) \o Drive(<<0>>)
              \o SendRecord),
    S12 |-> Scenario(0, "timeout", Drive(<<1, 2>>)
              \o Checked(Tick(METER_TIMEOUT_MS - 1) \o Tick(1)) \o SendRecord)]

Ids == {"S1", "S1X", "S2", "S3", "S4", "S5", "S6", "S7", "S8", "S9", "S10", "S11", "S12"}

\* The operations a scenario is compiled to.
Ops == Tabled([id \in Ids |-> Compiled(Library[id].script)])

-----------------------------------------------------------------------------
(* Running a scenario.                                                     *)

PinsOf(value) == [cp |-> value % 8, safety |-> (value \div 8) % 2 = 1]

Volts(body) == U16(body, 2)
Amps(body)  == U16(body, 4)
Hertz(body) == U16(body, 6)
GridHealthy(body) == Hertz(body) >= F_LOW /\ Volts(body) >= V_SAG

\* What the model reads of a body.
Decoded(body) ==
    IF CrcOk(body)
    THEN [ok |-> TRUE, seq |-> body[1], over |-> Amps(body) > I_MAX,
          sag |-> ~GridHealthy(body), power |-> Volts(body) * Amps(body),
          hash |-> RestartDelay(CrcField(body), CHARGER_ID) - HOLD_BASE]
    ELSE Model!Corrupt

Booted(preset) == Model!ApplyInputs(Model!NewCharger, PinsOf(preset))

\* One operation: o() and record() only read.
Perform(s, op) ==
    CASE op.type = "gpio_in" -> Model!ApplyInputs(s, PinsOf(op.value))
      [] op.type = "frame"   -> Model!RxFrame(s, Decoded(op.body))
      [] op.type = "tick"    -> Model!Elapse(s, op.ms)
      [] op.type \in {"gpio_out", "record"} -> s

\* ScenarioBuilder: every operation with the model before and after it.
Added(run, op, next) ==
    [model |-> next,
     steps |-> Append(run.steps, [op |-> op, before |-> run.model.state, after |-> next])]
Build(preset, ops) ==
    Folded(LAMBDA run, op : Added(run, op, Perform(run.model, op)),
           [model |-> Booted(preset), steps |-> <<>>], ops).steps

Steps == Tabled([id \in Ids |-> Build(Library[id].preset, Ops[id])])

FrameOps(ops) == SelectSeq(ops, LAMBDA op : op.type = "frame")

\* replayScenario: the same operations, frames numbered from 0, those in
\* `corrupt` with one bit of their voltage changed on the way.  taken[k] is
\* "the model did not count frame k - 1 as bad".
OnLine(run, op, corrupt) ==
    IF op.type = "frame" /\ run.frame \in corrupt THEN [op EXCEPT !.body = Corrupted(@)] ELSE op
Fed(run, op, next) ==
    IF op.type # "frame" THEN [run EXCEPT !.model = next]
    ELSE [model |-> next, frame |-> run.frame + 1, taken |-> Append(run.taken, next.bad = 0)]
Replay(preset, ops, corrupt) ==
    Folded(LAMBDA run, op : Fed(run, op, Perform(run.model, OnLine(run, op, corrupt))),
           [model |-> Booted(preset), frame |-> 0, taken |-> <<>>], ops)
=============================================================================
