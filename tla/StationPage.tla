----------------------------- MODULE StationPage -----------------------------
(***************************************************************************)
(* The station page (station/StationView.tsx): which scenario and which    *)
(* step it shows, whether it plays, and which frames the viewer has        *)
(* corrupted.                                                              *)
(*                                                                         *)
(* A React component is a record of its state.  A timer or a dragged       *)
(* pointer puts updates in `queue`, which a later task applies in order    *)
(* (RenderPage); the timer effect runs later still (RunPageEffects), when  *)
(* its dependencies differ from those it ran with last (`eff`).  A click   *)
(* or a key does all of it at once, the waiting updates first.             *)
(***************************************************************************)
EXTENDS StationPanels

CONSTANTS
    Opened,         \* the tabs the viewer opens: "meter", "integrity", "record"
    Clicked,        \* the frames the viewer corrupts or inspects in a session
    MostCorrupted,  \* frames corrupted at a time, for the evidence of a scenario
    Examined,       \* ... and which frames
    Positions,      \* where in a chapter a pointer hits the track, below 10000
    QueueCap        \* updates waiting for one render

ASSUME PositionsAssumption == \A position \in Positions : position \in Nat /\ position < 10000

VARIABLE page

NoStep == -1
NoPage == [id |-> "none"]

Lesser(a, b) == IF a < b THEN a ELSE b
Greater(a, b) == IF a > b THEN a ELSE b

FramesOf(ops) == 0..(Len(FrameOps(ops)) - 1)

\* The steps that a press on the track, a label or an option may jump to.
Targets(runs) ==
    {StepAt(runs[r], position) : r \in DOMAIN runs, position \in Positions}
OptionSteps(emu) == {emu[k].step : k \in DOMAIN emu} \ {-1}

\* What is worked out when the scenario changes (useMemo).
MemoOf(ops, steps, emu) ==
    [last |-> LastStep(steps), frames |-> FramesOf(ops),
     targets |-> Targets(RunsOf(steps)), options |-> OptionSteps(emu)]
Memo == Tabled([id \in Ids |-> MemoOf(Ops[id], Playback[id], EmuOps[id])])

\* What the code takes for granted of the library: a scenario has a step, and
\* the options of its command line belong to steps of it.
ASSUME LibraryAssumption ==
    \A id \in Ids : /\ Len(Playback[id]) \in Nat \ {0}
                    /\ OptionSteps(EmuOps[id]) \subseteq 0..LastStep(Playback[id])

IsPlaying(p) == p.playing /\ p.index < p.memo.last

\* What the timer effect and the key listener depend on.
Deps(p) == [isPlaying |-> IsPlaying(p), index |-> p.index, last |-> p.memo.last]

\* A mounted page: a link with a step opens paused at it.
OpenPage(id, step, reduced) ==
    LET Showing(memo) ==
            [id |-> id, memo |-> memo, playing |-> step = NoStep /\ ~reduced,
             index |-> Lesser(Greater(step, 0), memo.last),
             tab |-> "closed", corrupted |-> {}, inspected |-> NoFrame,
             held |-> FALSE, queue |-> <<>>, eff |-> "none", timer |-> FALSE]
        Mounted(p) == [p EXCEPT !.eff = Deps(p), !.timer = IsPlaying(p)]
    IN  Mounted(Showing(Memo[id]))

-----------------------------------------------------------------------------
(* Rendering and effects.                                                  *)

Applied(p, update) ==
    CASE update.do = "advance" -> [p EXCEPT !.index = Lesser(@ + 1, update.to)]
      [] update.do = "jump" -> [p EXCEPT !.playing = FALSE, !.index = update.to]

\* Mutant of WithEffects: the timer is not set again after its step.
WithEffectsOnPlayOnly(p) ==
    IF p.eff = Deps(p) THEN p
    ELSE [p EXCEPT !.eff = Deps(p), !.timer = IF p.eff.isPlaying = IsPlaying(p) THEN @ ELSE IsPlaying(p)]

WithEffects(p) ==
    IF p.eff = Deps(p) THEN p ELSE [p EXCEPT !.eff = Deps(p), !.timer = IsPlaying(p)]

Rendered(p) == [Folded(Applied, WithEffects(p), p.queue) EXCEPT !.queue = <<>>]

PageTimerFires ==
    /\ page.timer
    /\ page' = [page EXCEPT !.timer = FALSE,
                            !.queue = Append(@, [do |-> "advance", to |-> page.eff.last])]
RenderPage     == page.queue # <<>> /\ page' = Rendered(page)
RunPageEffects == page.eff # Deps(page) /\ page' = WithEffects(page)

\* Settled: nothing is left for the browser but the timer.
PageSettled == page.queue = <<>> /\ page.eff = Deps(page)

-----------------------------------------------------------------------------
(* Playback.                                                               *)

\* A discrete event with update Change.
Does(Change(_)) == page' = WithEffects(Change(Rendered(page)))

Jumped(p, index) == [p EXCEPT !.playing = FALSE, !.index = index]

\* togglePlay, with the values its closure saw.
Toggled(p, seen) ==
    IF seen.isPlaying THEN [p EXCEPT !.playing = FALSE]
    ELSE [p EXCEPT !.playing = TRUE, !.index = IF seen.index >= seen.last THEN 0 ELSE @]

ClickPlay == Does(LAMBDA p : Toggled(p, Deps(page)))
PressSpace == Does(LAMBDA p : Toggled(p, page.eff))
PressRight == Does(LAMBDA p : Jumped(p, Lesser(p.index + 1, page.eff.last)))
PressLeft == Does(LAMBDA p : Jumped(p, Greater(p.index - 1, 0)))

ClickPrevious == page.index # 0 /\ Does(LAMBDA p : Jumped(p, page.index - 1))
ClickNext == page.index < page.memo.last /\ Does(LAMBDA p : Jumped(p, page.index + 1))
ClickRestart == Does(LAMBDA p : Jumped(p, 0))

\* The labels of the track; the options of the emulator panel and the lines of
\* the log, which also pause at the step shown.
PickStep(to) == to # page.index /\ Does(LAMBDA p : Jumped(p, to))
ClickOption == \E to \in page.memo.options : Does(LAMBDA p : Jumped(p, to))
ClickLine   == \E to \in 0..page.index : Does(LAMBDA p : Jumped(p, to))

\* A pointer goes down on the track, drags over it, and is released.  The step
\* shown is no jump, and moving is no discrete event.
PressTrack(to) ==
    Does(LAMBDA p : [(IF to # page.index THEN Jumped(p, to) ELSE p) EXCEPT !.held = TRUE])
ReleaseTrack == page.held /\ page' = [page EXCEPT !.held = FALSE]
Scrub(to) ==
    /\ page.held /\ to # page.index /\ Len(page.queue) < QueueCap
    /\ page' = [page EXCEPT !.queue = Append(@, [do |-> "jump", to |-> to])]

\* A new speed is a dependency of the timer effect, whatever else is.
ChangeSpeed ==
    LET p == Rendered(page) IN page' = [p EXCEPT !.eff = Deps(p), !.timer = IsPlaying(p)]

-----------------------------------------------------------------------------
(* The scenario shown, and the evidence.                                   *)

\* Mutant of Selected: the step and the frames clicked are kept.
SelectedKeeping(p, id, reduced) == [p EXCEPT !.id = id, !.memo = Memo[id], !.playing = ~reduced]

Selected(p, id, reduced) ==
    [p EXCEPT !.id = id, !.memo = Memo[id], !.index = 0, !.corrupted = {}, !.inspected = NoFrame,
              !.playing = ~reduced]

SelectScenario(id, reduced) == Does(LAMBDA p : Selected(p, id, reduced))

GroupOrder == <<<<"S1", "S1X", "S6", "S11">>, <<"S2">>, <<"S3", "S4", "S10">>,
                <<"S5", "S7", "S8", "S9", "S12">>>>
Ordered == FlattenSeq(GroupOrder)
NextScenario(id) ==
    LET at == CHOOSE k \in DOMAIN Ordered : Ordered[k] = id
    IN  Ordered[(at % Len(Ordered)) + 1]

ClickTabButton(tab) == Does(LAMBDA p : [p EXCEPT !.tab = IF @ = tab THEN "closed" ELSE tab])

ToggleCorrupt(frame) ==
    /\ page.tab = "integrity" /\ frame \in page.memo.frames
    /\ Does(LAMBDA p : [p EXCEPT !.corrupted = IF frame \in @ THEN @ \ {frame}
                                                              ELSE @ \cup {frame}])
ResetCorrupt == page.corrupted # {} /\ page.tab = "integrity"
                /\ Does(LAMBDA p : [p EXCEPT !.corrupted = {}])
Inspect(frame) ==
    /\ page.tab = "integrity" /\ frame \in page.memo.frames
    /\ Does(LAMBDA p : [p EXCEPT !.inspected = IF @ = frame THEN NoFrame ELSE frame])

PageBrowser == PageTimerFires \/ RenderPage \/ RunPageEffects

PageViewer ==
    \/ ClickPlay \/ PressSpace \/ PressRight \/ PressLeft
    \/ ClickPrevious \/ ClickNext \/ ClickRestart \/ ChangeSpeed \/ ResetCorrupt
    \/ ReleaseTrack \/ ClickOption \/ ClickLine
    \/ \E to \in page.memo.targets : PickStep(to) \/ PressTrack(to) \/ Scrub(to)
    \/ \E tab \in Opened : ClickTabButton(tab)
    \/ \E frame \in Clicked : ToggleCorrupt(frame) \/ Inspect(frame)

-----------------------------------------------------------------------------
(* Correctness of what is shown.                                           *)

\* The verdict on a step is what the charging model did with it: rejected is
\* counted bad, billed is energy added, the numbers of a grid hold are the
\* model's own, a missed frame is the one that raised the flag.
NarratedTruly(step, was) ==
    LET now == step.after
        verdict == step.verdict
    IN  /\ step.kind = "frame" =>
             /\ Rejected(verdict) <=> now.bad > 0
             /\ verdict.text = "billed" <=> now.energy # was.energy
             /\ verdict.text = "limits" => "OVERCURRENT" \in now.flags \ was.flags
             /\ verdict.text = "restart" => was.state = "GRID_HOLD" /\ now.state = "CHARGING"
             /\ verdict.second <=> Rejected(verdict) /\ now.state # was.state
             /\ verdict.missed > 0 => "CRC_LOST" \in now.flags
             /\ ~Rejected(verdict) /\ "CRC_LOST" \in now.flags \ was.flags => verdict.missed > 0
        /\ now.state = "GRID_HOLD" => step.count = now.hold /\ step.delay = now.delay
        /\ (now.state = "METER_TIMEOUT" /\ was.state # "METER_TIMEOUT") <=> verdict.text = "watchdog"
        /\ step.before = was.state
        /\ step.ended => Len(now.tx) = 1

\* The panels around a step say the same of it: the chapter and the arrow of
\* its state, the pins the emulator read, and the totals are those of the
\* bars marked billed and of the record.  A point of the chart that is not
\* crossed was taken by the model or is a replay; the log has a bad line for
\* each cross and calls a trip only what the model faults on.
PanelsAgreeAt(steps, runs, emu, index) ==
    LET step == At(steps, index)
        bars   == Bars(steps, index)
        billed == SelectSeq(bars, LAMBDA bar : bar.billed)
        rows   == MeterRows(steps, index)
        log    == ChipLog(steps, index)
        line   == log.lines[index + 1]
        record == step.after.tx[1]
    IN  /\ \E r \in DOMAIN runs :
             /\ CurrentChapters(runs, index) = {r}
             /\ runs[r].state = step.after.state
        /\ \A r \in DOMAIN runs, position \in {0, 3333, 9999} :
             r \in CurrentChapters(runs, StepAt(runs[r], position))
        /\ index > 0 =>
             (LitEdge(steps, index) = "none" <=> step.after.state = At(steps, index - 1).after.state)
        /\ Len(billed) = step.after.frames
        /\ Folded(LAMBDA sum, bar : bar.watts + sum, 0, billed) = step.after.energy
        /\ \A k \in DOMAIN billed : ~billed[k].rejected
        /\ DOMAIN rows = DOMAIN bars
        /\ \A k \in DOMAIN bars :
             /\ rows[k].n = k /\ bars[k].watts = rows[k].voltage * rows[k].current
             /\ rows[k].valid => ~bars[k].rejected \/ At(steps, bars[k].step).verdict.text = "replay"
             /\ ~rows[k].valid => log.lines[bars[k].step + 1].bad
        /\ log.done <=> \A r \in DOMAIN runs : runs[r].end <= index
        /\ index > 0 => (line.changed <=> LitEdge(steps, index) # "none")
        /\ line.tag = "safety" => step.after.state = "FAULT"
        /\ emu # <<>> /\ step.checked => EmuPins(emu, index) = StateOut(step.after.state)
        /\ step.kind = "record" =>
             /\ ShownRecord(SentBytes(record)) =
                  [energy |-> step.after.energy, frames |-> step.after.frames,
                   flags |-> step.after.flags, status |-> record.status, sealed |-> TRUE]
             /\ emu # <<>> => EmuLanes(emu, index) = {"rx"} \cup (IF step.checked THEN {"out"} ELSE {})

\* The chain of frames and the what-if totals tell one story: a frame is
\* marked good exactly when the model took it, the inspector finds its CRC as
\* marked, no more frames are billed than are good, and with nothing corrupted
\* the outcome is the recorded one.
EvidenceAgreesFor(frames, corrupt, nodes, run, recorded) ==
    LET Good(k) == nodes[k].valid /\ nodes[k].sequenceOk
        Look(k) == Inspection(Body(frames, k - 1, corrupt))
    IN  /\ \A k \in DOMAIN nodes :
             /\ Good(k) <=> run.taken[k]
             /\ Look(k).valid <=> nodes[k].valid
             /\ Look(k).voltage # Volts(frames[k].body) <=> k - 1 \in corrupt
        /\ run.model.frames <= Cardinality({k \in DOMAIN nodes : Good(k)})
        /\ (\E k \in DOMAIN nodes : k > 1 /\ ~Good(k) /\ ~Good(k - 1)) =>
             run.model.flags # {}
        /\ corrupt = {} => run.model = recorded

\* The frames of a scenario that are corrupted together.
CorruptSets(frames) ==
    {s \in SUBSET (Examined \cap frames) : Cardinality(s) <= MostCorrupted}

NarrationHolds ==
    LET Of(booted, steps) ==
            Tabled([index \in 0..LastStep(steps) |->
                NarratedTruly(At(steps, index),
                              IF index = 0 THEN booted ELSE At(steps, index - 1).after)])
    IN  Tabled([id \in Ids |-> Of(Booted(Library[id].preset), Playback[id])])
PanelsHold ==
    LET Of(steps, runs, emu) ==
            Tabled([index \in 0..LastStep(steps) |-> PanelsAgreeAt(steps, runs, emu, index)])
    IN  Tabled([id \in Ids |-> Of(Playback[id], Chapters[id], EmuOps[id])])
EvidenceHolds ==
    LET Of(preset, ops, frames, recorded) ==
            Tabled([s \in CorruptSets(FramesOf(ops)) |->
                EvidenceAgreesFor(frames, s, ChainNodes(frames, s), Replay(preset, ops, s), recorded)])
        Outcome(steps) == steps[Len(steps)].after
    IN  Tabled([id \in Ids |-> Of(Library[id].preset, Ops[id], FrameOps(Ops[id]), Outcome(Steps[id]))])
=============================================================================
