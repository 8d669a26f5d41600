---------------------------- MODULE StationPanels ----------------------------
(***************************************************************************)
(* The panels of the station page that show the step reached (PlaybackBar, *)
(* StateIndicator, ReadingsCard, MeterChart, ChipLog, CRCChainViz,         *)
(* FrameInspector, SessionRecord, EmuPanel), each with its own derivation  *)
(* from the playback, which it is given as in the code.  Steps are         *)
(* numbered from 0 as in the code: step k is steps[k + 1] here.            *)
(***************************************************************************)
EXTENDS StationStory

LastStep(steps) == Len(steps) - 1
At(steps, index) == steps[index + 1]

\* STATE_OUT.
StateOut(state) ==
    CASE state = "IDLE" -> {}
      [] state = "CONNECTED" -> {"lock"}
      [] state = "CHARGING" -> {"lock", "contactor"}
      [] state = "GRID_HOLD" -> {"lock", "hold"}
      [] state \in {"FAULT", "METER_TIMEOUT"} -> {"fault"}

-----------------------------------------------------------------------------
(* The player bar and the state machine.                                   *)

\* runsOf: one chapter per run of steps in the same state.
RunsOf(steps) ==
    LET Extend(runs, k) ==
            IF runs # <<>> /\ runs[Len(runs)].state = steps[k].after.state
            THEN [runs EXCEPT ![Len(runs)].end = k - 1]
            ELSE Append(runs, [state |-> steps[k].after.state, start |-> k - 1, end |-> k - 1])
    IN  Folded(Extend, <<>>, [k \in 1..Len(steps) |-> k])

Chapters == Tabled([id \in Ids |-> RunsOf(Playback[id])])

CurrentChapters(runs, index) ==
    {r \in DOMAIN runs : index \in runs[r].start..runs[r].end}

\* stepAt: the position in a chapter is below 1, in ten-thousandths here.
StepAt(chapter, position) ==
    chapter.start + (position * (chapter.end - chapter.start + 1)) \div 10000

\* edgeFor: the arrow of the state machine that is lit, or "none".
EdgeFor(from, to) ==
    CASE from = to -> "none"
      [] from # to /\ to = "FAULT" -> "toF"
      [] from # to /\ to = "METER_TIMEOUT" -> "toT"
      [] from # to /\ to = "IDLE" -> IF from \in {"FAULT", "METER_TIMEOUT"} THEN "release" ELSE "c-i"
      [] from = "IDLE" /\ to = "CONNECTED" -> "i-c"
      [] from = "CONNECTED" /\ to = "CHARGING" -> "c-ch"
      [] from # to /\ to = "GRID_HOLD" -> "ch-gh"
      [] from = "GRID_HOLD" /\ to = "CHARGING" -> "gh-ch"
      [] from \notin {"IDLE", "CONNECTED"} /\ to = "CONNECTED" -> "ch-c"
      [] OTHER -> "none"

LitEdge(steps, index) ==
    IF index = 0 THEN "none"
    ELSE EdgeFor(At(steps, index - 1).after.state, At(steps, index).after.state)

-----------------------------------------------------------------------------
(* Meter readings and the evidence panels.                                 *)

\* readingBars: a bar per frame, those up to the step shown have arrived; it
\* is billed when the frame count rose on its step.
BilledBar(steps, k) ==
    At(steps, k).after.frames > (IF k = 0 THEN 0 ELSE At(steps, k - 1).after.frames)

Bars(steps, index) ==
    LET Bar(k) == [step |-> k, rejected |-> Rejected(At(steps, k).verdict),
                   billed |-> BilledBar(steps, k),
                   watts |-> Volts(At(steps, k).op.body) * Amps(At(steps, k).op.body)]
        Add(bars, k) == IF At(steps, k).kind = "frame" THEN Append(bars, Bar(k)) ELSE bars
    IN  Folded(Add, <<>>, [n \in 1..(index + 1) |-> n - 1])

\* MeterChart: a point per frame received so far, a cross if its CRC is wrong.
MeterRows(steps, index) ==
    LET received == SelectSeq(SubSeq(steps, 1, index + 1), LAMBDA s : s.kind = "frame")
        Row(step) == [n |-> step.frame + 1, voltage |-> Volts(step.op.body),
                      current |-> Amps(step.op.body), frequency |-> Hertz(step.op.body),
                      valid |-> CrcOk(step.op.body)]
    IN  [k \in DOMAIN received |-> Row(received[k])]

\* ChipLog: a line per step so far, the last one with the change of state.
LogTag(step) ==
    CASE step.kind = "frame" -> "meter"
      [] step.kind = "time" -> "clock"
      [] step.kind = "record" -> "uart"
      [] step.kind = "pins" -> IF PinsOf(step.op.value).safety THEN "safety" ELSE "pilot"

ChipLog(steps, index) ==
    LET Line(step) == [tag |-> LogTag(step), bad |-> Tone(step.verdict) = "bad",
                       changed |-> step.before # step.after.state]
    IN  [lines |-> [k \in 1..(index + 1) |-> Line(steps[k])],
         done  |-> index >= LastStep(steps)]

\* The body on the line once the frames in `corrupt` have been clicked.
Body(frames, frame, corrupt) ==
    IF frame \in corrupt THEN Corrupted(frames[frame + 1].body) ELSE frames[frame + 1].body

\* CRCChainViz: the nodes are judged one after the other, on the CRC and on the
\* steps since the last number.
Node(valid, delta) == [valid |-> valid, sequenceOk |-> ~valid \/ (delta # 0 /\ delta < 128)]

\* Mutant of Chained: a frame with a wrong CRC moves the number too.
ChainedAll(chain, body, valid) ==
    [lastSeq |-> body[1], nodes |-> Append(chain.nodes, Node(valid, Delta(chain, body)))]

\* Unlike the model's, the last number moves on every frame with a matching CRC.
Chained(chain, body, valid) ==
    [lastSeq |-> IF valid THEN body[1] ELSE chain.lastSeq,
     nodes |-> Append(chain.nodes, Node(valid, Delta(chain, body)))]

ChainNodes(frames, corrupt) ==
    LET Add(chain, body) == Chained(chain, body, CrcOk(body))
    IN  Folded(Add, [lastSeq |-> NoFrame, nodes |-> <<>>],
               [k \in DOMAIN frames |-> Body(frames, k - 1, corrupt)]).nodes

\* FrameInspector: the fields of a body and its own check of the CRC.
Inspection(body) ==
    LET expected == Crc16(SubSeq(body, 1, 7))
    IN  [sequence |-> body[1], voltage |-> Volts(body), current |-> Amps(body),
         frequency |-> Hertz(body), expected |-> expected, valid |-> expected = CrcField(body)]

\* What SessionRecord reads from the eight bytes.
StateCode == [IDLE |-> 0, CONNECTED |-> 1, CHARGING |-> 2, GRID_HOLD |-> 3,
              FAULT |-> 4, METER_TIMEOUT |-> 5]
FlagBit == [ESTOP |-> 8, CP_ERROR |-> 16, OVERCURRENT |-> 32, CRC_LOST |-> 64, GRID_HOLD |-> 128]

SentBytes(record) ==
    RecordBytes(record.energy,
                StateCode[record.status] + FoldSet(LAMBDA f, n : n + FlagBit[f], 0, record.flags),
                record.frames)

ShownRecord(bytes) ==
    [energy |-> U16(bytes, 1) + 65536 * U16(bytes, 3),
     status |-> CHOOSE s \in DOMAIN StateCode : StateCode[s] = bytes[5] % 8,
     flags  |-> {f \in DOMAIN FlagBit : (bytes[5] \div FlagBit[f]) % 2 = 1},
     frames |-> bytes[6],
     sealed |-> Crc16(SubSeq(bytes, 1, 6)) = U16(bytes, 7)]

-----------------------------------------------------------------------------
(* The emulator panel: the options of the exported command line, each with *)
(* the playback step it belongs to (-1: before the first).                 *)

Lane == [d |-> "in", i |-> "in", t |-> "tx", r |-> "rx", o |-> "out"]

\* export_emu_preview: a step per -i, frame and record; -o belongs to the
\* step before it.  The pins read are those of the state the chip is in.
ExportOp(export, step) ==
    LET at == IF step.op.type = "gpio_out" THEN export.step ELSE export.step + 1
        Option(kind) == [kind |-> kind, step |-> at, pins |-> StateOut(step.after.state)]
    IN  [step |-> at, ops |-> export.ops \o
            CASE step.op.type = "gpio_in" -> <<Option("i")>>
              [] step.op.type = "gpio_out" -> <<Option("o")>>
              [] step.op.type = "frame" -> <<Option("t"), Option("t"), Option("t")>>
              [] step.op.type = "record" -> <<Option("r"), Option("r"), Option("r")>>
              [] OTHER -> <<>>]

Exported(steps) ==
    Folded(ExportOp, [step |-> -1, ops |-> <<[kind |-> "d", step |-> -1, pins |-> {}]>>], steps).ops

\* Scenarios that wait have no command line.
EmuOps == Tabled([id \in Ids |-> IF id = "S12" THEN <<>> ELSE Exported(Steps[id])])

EmuShown(ops, index) == SelectSeq(ops, LAMBDA op : op.step <= index)
EmuLanes(ops, index) == {Lane[ops[k].kind] : k \in {n \in DOMAIN ops : ops[n].step = index}}
\* The pins drawn are those last read.
EmuPins(ops, index) ==
    LET Pins(reads) == IF reads = <<>> THEN {} ELSE reads[Len(reads)].pins
    IN  Pins(SelectSeq(EmuShown(ops, index), LAMBDA op : op.kind = "o"))
=============================================================================
