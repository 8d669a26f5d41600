----------------------------- MODULE GridTimeline -----------------------------
(***************************************************************************)
(* The fleet page's player (grid/GridTimeline.tsx, GridView.tsx): two      *)
(* fleets take turns.  The one with a fixed delay fails MAX_ATTEMPTS       *)
(* reboots, a verdict card and a handoff card follow, then the other one   *)
(* recovers.  State, queue, timer and effect dependencies are kept as in   *)
(* StationPage; the two timer effects are never armed together, so there   *)
(* is one timer.                                                           *)
(***************************************************************************)
EXTENDS FleetStory

CONSTANT GridQueueCap   \* updates waiting for one render

VARIABLE fleet

NoFleet == [mode |-> "none"]
Interludes == {"none", "verdict", "handoff"}

GridDeps(g) == [mode |-> g.mode, phaseIndex |-> g.phaseIndex, wave |-> g.wave,
                attempt |-> g.attempt, failed |-> g.failed,
                interlude |-> g.interlude, playing |-> g.playing]

OpenFleet(reduced) ==
    LET g == [mode |-> "without", phaseIndex |-> 0, wave |-> 0, attempt |-> 1, failed |-> FALSE,
              interlude |-> "none", playing |-> ~reduced, ended |-> FALSE,
              held |-> FALSE, queue |-> <<>>, eff |-> "none", timer |-> FALSE]
    IN  [g EXCEPT !.eff = GridDeps(g), !.timer = ~reduced]

-----------------------------------------------------------------------------
(* What the timers do: a function of the state they were set in (`seen`)   *)
(* to an update.                                                           *)

StartWith(g) == [g EXCEPT !.mode = "with", !.phaseIndex = 0, !.wave = 0,
                          !.attempt = 1, !.failed = FALSE]

OtherFleet(g) ==
    [g EXCEPT !.wave = 0, !.attempt = 1, !.failed = FALSE, !.phaseIndex = 0,
              !.mode = IF @ = "without" THEN "with" ELSE "without"]

\* Which branch the timer takes.
Beat(seen) ==
    CASE seen.interlude = "verdict" -> "handoff"
      [] seen.interlude = "handoff" -> "reveal"
      [] seen.interlude = "none" ->
           CASE PhaseOf(seen) = "stagger" /\ seen.wave < STAGGER_WAVES - 1 -> "wave"
             [] Trying(seen) -> "fail"
             [] PhaseOf(seen) = "reboot" /\ seen.failed ->
                  IF seen.attempt < MAX_ATTEMPTS THEN "retry" ELSE "verdict"
             [] OTHER -> IF seen.phaseIndex = LastPhase(seen.mode) THEN "other" ELSE "next"

\* pickMode, jump: updates with the values their closures saw.
JumpTo(g, mode, index) ==
    [g EXCEPT !.playing = FALSE, !.interlude = "none", !.ended = TRUE, !.phaseIndex = index,
              !.wave = IF PhaseAt(mode, index) = "stagger" THEN STAGGER_WAVES - 1 ELSE 0,
              !.failed = PhaseAt(mode, index) = "reboot"]

Update(g, update) ==
    CASE update.do = "wave" -> [g EXCEPT !.wave = @ + 1]
      [] update.do = "fail" -> [g EXCEPT !.failed = TRUE]
      [] update.do = "retry" ->
           [g EXCEPT !.failed = FALSE, !.attempt = @ + 1, !.phaseIndex = HOLD_INDEX]
      [] update.do = "verdict" -> [g EXCEPT !.interlude = "verdict"]
      [] update.do = "handoff" -> [StartWith(g) EXCEPT !.interlude = "handoff"]
      [] update.do = "reveal" -> [g EXCEPT !.interlude = "none"]
      [] update.do = "other" -> OtherFleet(g)
      [] update.do = "next" -> [g EXCEPT !.wave = 0, !.phaseIndex = @ + 1]
      [] update.do = "jump" -> JumpTo(g, update.mode, update.index)

-----------------------------------------------------------------------------
(* Rendering and effects.                                                  *)

\* Mutant of GridEffects: the effect of the cards does not depend on the card.
GridEffectsStale(g) ==
    LET changed == IF g.interlude = "none" THEN g.eff # GridDeps(g)
                   ELSE g.eff.playing # g.playing
    IN  [g EXCEPT !.eff = GridDeps(g), !.timer = IF changed THEN g.playing ELSE @]

\* While a card is up only a change of the card or of playing sets the timer
\* again; otherwise any dependency does.
GridEffects(g) ==
    LET changed == IF g.interlude = "none" THEN g.eff # GridDeps(g)
                   ELSE <<g.eff.playing, g.eff.interlude>> # <<g.playing, g.interlude>>
    IN  [g EXCEPT !.eff = GridDeps(g), !.timer = IF changed THEN g.playing ELSE @]

GridRendered(g) == [Folded(Update, GridEffects(g), g.queue) EXCEPT !.queue = <<>>]

\* A render outside the phases of the fleet throws.
Throws(g) == g.phaseIndex > LastPhase(g.mode)

GridTimerFires ==
    /\ fleet.timer
    /\ fleet' = [fleet EXCEPT !.timer = FALSE, !.queue = Append(@, [do |-> Beat(fleet.eff)])]
RenderGrid     == fleet.queue # <<>> /\ fleet' = GridRendered(fleet)
RunGridEffects == fleet.eff # GridDeps(fleet) /\ ~Throws(fleet) /\ fleet' = GridEffects(fleet)

GridSettled == fleet.queue = <<>> /\ fleet.eff = GridDeps(fleet)

-----------------------------------------------------------------------------
(* The viewer.                                                             *)

\* A discrete event: no effect runs after a render that throws.
GridDoes(Change(_)) ==
    LET g == Change(GridRendered(fleet))
    IN  fleet' = IF Throws(g) THEN g ELSE GridEffects(g)

PlayToggled(g, playing) ==
    [g EXCEPT !.playing = ~@, !.ended = IF playing THEN @ ELSE FALSE]

ClickGridPlay  == GridDoes(LAMBDA g : PlayToggled(g, fleet.playing))
PressGridSpace == GridDoes(LAMBDA g : PlayToggled(g, fleet.eff.playing))

\* The labels of the track, the buttons (of what is shown), the keys (of what
\* the listener saw).
PickPhase(index) ==
    /\ index \in 0..LastPhase(fleet.mode)
    /\ GridDoes(LAMBDA g : JumpTo(g, fleet.mode, index))
PressGridRight ==
    LET seen == fleet.eff
        last == LastPhase(seen.mode)
    IN  GridDoes(LAMBDA g : JumpTo(g, seen.mode, IF seen.phaseIndex < last
                                                 THEN seen.phaseIndex + 1 ELSE last))
PressGridLeft ==
    LET seen == fleet.eff
    IN  GridDoes(LAMBDA g : JumpTo(g, seen.mode, IF seen.phaseIndex > 0
                                                 THEN seen.phaseIndex - 1 ELSE 0))

\* A drag: the track is pressed, then moving is no discrete event.
PressPhase(index) ==
    /\ index \in 0..LastPhase(fleet.mode)
    /\ GridDoes(LAMBDA g : [JumpTo(g, fleet.mode, index) EXCEPT !.held = TRUE])
ReleasePhase == fleet.held /\ fleet' = [fleet EXCEPT !.held = FALSE]
ScrubPhase(index) ==
    /\ fleet.held /\ index \in 0..LastPhase(fleet.mode) /\ Len(fleet.queue) < GridQueueCap
    /\ fleet' = [fleet EXCEPT !.queue =
                   Append(@, [do |-> "jump", mode |-> fleet.mode, index |-> index])]

PickMode(mode) ==
    GridDoes(LAMBDA g : [g EXCEPT !.interlude = "none", !.mode = mode, !.wave = 0, !.attempt = 1,
                           !.failed = FALSE, !.phaseIndex = HOLD_INDEX, !.playing = TRUE,
                           !.ended = FALSE])

Skip(g, interlude) ==
    [(IF interlude = "verdict" THEN StartWith(g) ELSE g)
        EXCEPT !.interlude = "none", !.playing = TRUE]

SkipInterlude == fleet.interlude # "none" /\ GridDoes(LAMBDA g : Skip(g, fleet.interlude))

GridBrowser == GridTimerFires \/ RenderGrid \/ RunGridEffects

GridViewer ==
    \/ ClickGridPlay \/ PressGridSpace \/ PressGridRight \/ PressGridLeft
    \/ SkipInterlude \/ ReleasePhase
    \/ \E index \in 0..5 : PickPhase(index) \/ PressPhase(index) \/ ScrubPhase(index)
    \/ \E mode \in Modes : PickMode(mode)

-----------------------------------------------------------------------------
(* Correctness.                                                            *)

MomentOf(g) == [mode |-> g.mode, phaseIndex |-> g.phaseIndex, wave |-> g.wave,
                attempt |-> g.attempt, failed |-> g.failed]

\* Counters in range, and a card only where the story puts it: the verdict
\* over the fleet that ran out of attempts, the handoff over the start of the
\* other one.
StoryInOrder(g) ==
    /\ g.phaseIndex \in 0..LastPhase(g.mode) /\ g.attempt \in 1..MAX_ATTEMPTS
    /\ g.wave \in 0..STAGGER_WAVES
    /\ g.mode = "with" => g.attempt = 1
    /\ g.interlude = "verdict" => g.mode = "without" /\ g.attempt = MAX_ATTEMPTS
    /\ g.interlude = "handoff" => g.mode = "with" /\ g.phaseIndex = 0 /\ g.wave = 0

MomentsAgree == Tabled([m \in Moments |-> MomentAgrees(m)])
=============================================================================
