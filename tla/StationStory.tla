----------------------------- MODULE StationStory -----------------------------
(***************************************************************************)
(* What the station page tells about a scenario: its playback steps with a *)
(* verdict on each (station/stationStory.ts).  A verdict is the sentence   *)
(* it is made of, with the numbers in it; wording and colours are left     *)
(* out.                                                                    *)
(***************************************************************************)
EXTENDS Scenarios

NoFrame == -1

Verdict(text, count, of, missed) ==
    [text |-> text, count |-> count, of |-> of, missed |-> missed, second |-> FALSE]

Tone(verdict) ==
    CASE verdict.text \in {"crc", "replay", "limits", "watchdog"} -> "bad"
      [] verdict.text \in {"pause", "unhealthy"} -> "warn"
      [] verdict.text \in {"restart", "billed"} -> "ok"
      [] verdict.text \in {"healthy", "unbilled"} -> "info"
      [] verdict.text = "none" -> "mute"

Rejected(verdict) == verdict.text \in {"crc", "replay"}

-----------------------------------------------------------------------------
(* buildPlayback: one pass over the operations, with counters of its own.  *)

\* Mutant of Delta: a step back is not taken modulo 256.
DeltaUnwrapped(run, body) == IF run.lastSeq = NoFrame THEN 1 ELSE body[1] - run.lastSeq

\* The steps the sequence number moved on.
Delta(run, body) ==
    IF run.lastSeq = NoFrame THEN 1 ELSE (body[1] - run.lastSeq) % 256

\* A frame that is not rejected.
Judged(run, step, body) ==
    LET from == step.before
        to == step.after.state
        missed == Delta(run, body) - 1
        seen == [run EXCEPT !.lastSeq = body[1], !.reading = body]
        Say(text, count, of) ==
            [seen EXCEPT !.count = count, !.delay = of,
                         !.verdict = Verdict(text, count, of, missed)]
    IN  CASE from # "GRID_HOLD" /\ to = "GRID_HOLD" ->
               Say("pause", 0, RestartDelay(CrcField(body), CHARGER_ID))
          [] from = "GRID_HOLD" /\ to = "CHARGING" -> Say("restart", run.delay, run.delay)
          [] from = "GRID_HOLD" /\ to = "GRID_HOLD" ->
               IF GridHealthy(body) THEN Say("healthy", run.count + 1, run.delay)
                                    ELSE Say("unhealthy", 0, run.delay)
          [] OTHER ->
               IF step.after.frames > run.frames THEN Say("billed", run.count, run.delay)
               ELSE IF to = "FAULT" THEN [seen EXCEPT !.verdict = Verdict("limits", 0, 0, 0)]
               ELSE Say("unbilled", run.count, run.delay)

\* A frame with the CRC right or wrong, `delta` steps on.
Received(run, step, ok, delta) ==
    LET rejected == ~ok \/ delta = 0 \/ delta >= 128
        told == IF rejected
                THEN [run EXCEPT !.verdict = Verdict(IF ok THEN "replay" ELSE "crc", 0, 0, 0)]
                ELSE Judged(run, step, step.op.body)
    IN  [told EXCEPT !.frame = run.frame + 1, !.frames = step.after.frames,
                     !.verdict.second = rejected /\ step.after.state = "FAULT"
                                                 /\ step.before # "FAULT"]

TimeStep(run, step) ==
    IF step.after.state = "METER_TIMEOUT" /\ step.before # "METER_TIMEOUT"
    THEN [run EXCEPT !.verdict = Verdict("watchdog", 0, 0, 0)] ELSE run

Told(run, step) ==
    CASE step.op.type = "frame" -> Received(run, step, CrcOk(step.op.body), Delta(run, step.op.body))
      [] step.op.type = "tick" -> TimeStep(run, step)
      [] OTHER -> run

KindOf == [gpio_in |-> "pins", frame |-> "frame", tick |-> "time", record |-> "record"]

\* The step shown, from the counters after it.
Shown(told, step, frame) ==
    LET active == told.active \/ step.after.state # "IDLE"
        shown == [kind |-> KindOf[step.op.type], op |-> step.op,
                  verdict |-> told.verdict, before |-> step.before,
                  after |-> step.after, reading |-> told.reading, checked |-> FALSE,
                  ended |-> active /\ step.after.state = "IDLE",
                  count |-> told.count, delay |-> told.delay,
                  frame |-> IF step.op.type = "frame" THEN frame ELSE NoFrame]
    IN  [told EXCEPT !.steps = Append(@, shown), !.active = active]

\* o() only marks the step before it as checked; every other operation is a
\* step of the playback.
AddStep(run, step) ==
    IF step.op.type = "gpio_out"
    THEN IF run.steps = <<>> THEN run
         ELSE [run EXCEPT !.steps[Len(run.steps)].checked = TRUE]
    ELSE Shown(Told([run EXCEPT !.verdict = Verdict("none", 0, 0, 0)], step), step, run.frame)

BuildPlayback(preset, steps) ==
    Folded(AddStep, [steps |-> <<>>, lastSeq |-> NoFrame, reading |-> <<>>, frames |-> 0,
                     active |-> preset # 0, frame |-> 0, delay |-> 0,
                     count |-> 0, verdict |-> Verdict("none", 0, 0, 0)], steps).steps

Playback == Tabled([id \in Ids |-> BuildPlayback(Library[id].preset, Steps[id])])

\* statusFor: the icon over the bay.
IconFor(step) ==
    CASE step.after.state = "CHARGING" -> "bolt"
      [] step.after.state = "CONNECTED" -> "sync"
      [] step.after.state = "GRID_HOLD" -> "pause"
      [] step.after.state = "FAULT" -> "alert"
      [] step.after.state = "METER_TIMEOUT" -> "syncBroken"
      [] step.after.state = "IDLE" -> IF step.ended THEN "check" ELSE "power"

\* What the bay is told of a step.
SceneFor(step) == [present |-> step.after.state # "IDLE", charging |-> step.after.state = "CHARGING",
                   icon |-> IconFor(step)]
=============================================================================
