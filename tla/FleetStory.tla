------------------------------ MODULE FleetStory ------------------------------
(***************************************************************************)
(* What the fleet page tells (grid/GridView, ComparisonCard, FleetHandoff, *)
(* CityScene, cityLayout, data/rebound.ts): the load each restart strategy *)
(* brings back per frame, and the town, captions and readouts shown at a   *)
(* moment of the story.  A moment is a record with the fields mode,        *)
(* phaseIndex, wave, attempt and failed.  Load is in kW; colours, wording  *)
(* and places are left out.                                                *)
(***************************************************************************)
EXTENDS Crc, FiniteSets

STAGGER_WAVES == 8
WAVE_MS == 650
REBOOT_TRY_MS == 1700
MAX_ATTEMPTS == 2
HOLD_INDEX == 2             \* "All paused", in both fleets
N_CHARGERS == 1000
CHARGERS_PER_POST == 25
KW == 7

Modes == {"without", "with"}

Phases ==
    LET Phase(phase, ms) == [phase |-> phase, ms |-> ms]
        start == <<Phase("normal", 2400), Phase("dip", 2000), Phase("hold", 2200)>>
    IN  [without |-> start \o <<Phase("surge", 2200), Phase("rebound", 2600), Phase("reboot", 3200)>>,
         with |-> start \o <<Phase("stagger", WAVE_MS * STAGGER_WAVES), Phase("recovered", 3000)>>]

LastPhase(mode) == Len(Phases[mode]) - 1
PhaseAt(mode, index) == Phases[mode][index + 1].phase
PhaseOf(m) == PhaseAt(m.mode, m.phaseIndex)
Trying(m) == PhaseOf(m) = "reboot" /\ ~m.failed

\* How long the timeline stays at a moment.
TimerMs(m) ==
    CASE PhaseOf(m) = "stagger" -> WAVE_MS
      [] PhaseOf(m) = "reboot" -> IF m.failed THEN Phases[m.mode][m.phaseIndex + 1].ms - REBOOT_TRY_MS
                                              ELSE REBOOT_TRY_MS
      [] OTHER -> Phases[m.mode][m.phaseIndex + 1].ms

\* All moments, those that only a race of a drag with a timer leads to included.
Moments ==
    {m \in [mode : Modes, phaseIndex : 0..5, wave : 0..(STAGGER_WAVES - 1),
            attempt : 1..MAX_ATTEMPTS, failed : BOOLEAN] :
        m.phaseIndex <= LastPhase(m.mode)}

-----------------------------------------------------------------------------
(* The rebound: every charger waits the same delay, or hashes its own.     *)

BASE_ID == 1297678336       \* 0x4D590000
TRIGGER_CRC == 7439         \* 0x1D0F

DelayFrames == 0..(HOLD_BASE + 7)
Delays == Tabled([k \in 0..(N_CHARGERS - 1) |-> RestartDelay(TRIGGER_CRC, BASE_ID + k)])
DelayHistogram ==
    Tabled([f \in DelayFrames |-> Cardinality({k \in DOMAIN Delays : Delays[k] = f})])

Sync == [f \in DelayFrames |-> IF f = HOLD_BASE THEN N_CHARGERS * KW ELSE 0]
Stag == Tabled([f \in DelayFrames |-> KW * DelayHistogram[f]])

\* The load that is back by a frame.
Back(load, last) == Folded(LAMBDA sum, k : sum + load[k - 1], 0, [k \in 1..(last + 1) |-> k])
Peak(load) == CHOOSE p \in {load[f] : f \in DelayFrames} : \A f \in DelayFrames : load[f] <= p
LastNonZero(load) ==
    CHOOSE f \in DelayFrames : load[f] > 0 /\ \A g \in DelayFrames : load[g] > 0 => g <= f

-----------------------------------------------------------------------------
(* The town: forty posts, ten in each of four districts.                   *)

Posts ==
    LET DistrictOf(k) == CASE k < 20 -> k \div 10 [] k \in 20..29 -> 3 [] k >= 30 -> 2
    IN  Tabled([k \in 0..39 |-> [district |-> DistrictOf(k),
                                 wave |-> Delays[k * CHARGERS_PER_POST] - HOLD_BASE]])
Districts == 0..3

\* Mutant of PostState: a wave starts with the post after its own.
PostStateLate(m, post) ==
    CASE PhaseOf(m) \in {"dip", "rebound"} -> "alarm"
      [] PhaseOf(m) = "hold" -> "paused"
      [] PhaseOf(m) = "stagger" -> IF post.wave < m.wave THEN "charging" ELSE "paused"
      [] PhaseOf(m) = "reboot" -> IF m.failed THEN "failed" ELSE "rebooting"
      [] OTHER -> "charging"

PostState(m, post) ==
    CASE PhaseOf(m) \in {"dip", "rebound"} -> "alarm"
      [] PhaseOf(m) = "hold" -> "paused"
      [] PhaseOf(m) = "stagger" -> IF post.wave <= m.wave THEN "charging" ELSE "paused"
      [] PhaseOf(m) = "reboot" -> IF m.failed THEN "failed" ELSE "rebooting"
      [] OTHER -> "charging"

\* cityModel: what a district's badge and feeder show of its posts.
District(m, d) ==
    LET mine   == {k \in DOMAIN Posts : Posts[k].district = d}
        first  == PostState(m, Posts[CHOOSE k \in mine : \A j \in mine : k <= j])
        online == Cardinality({k \in mine : PostState(m, Posts[k]) = "charging"})
        mixed  == online > 0 /\ online < Cardinality(mine)
    IN  [online |-> online, label |-> IF mixed THEN "restarting" ELSE first,
         look |-> CASE PhaseOf(m) = "surge" -> "surge"
                    [] first \in {"alarm", "failed"} -> "flicker"
                    [] first = "rebooting" -> "slow"
                    [] PhaseOf(m) # "surge" /\ first \in {"charging", "paused"} ->
                         IF online = 0 THEN "dark" ELSE IF mixed THEN "part" ELSE "steady"]

\* Director: how dark the town is and how the substation glows, in percent.
Stress(m) ==
    CASE PhaseOf(m) = "dip" -> [light |-> 100, stress |-> 60]
      [] PhaseOf(m) = "surge" -> [light |-> 100, stress |-> 100]
      [] PhaseOf(m) = "rebound" -> [light |-> 45, stress |-> 100]
      [] PhaseOf(m) = "reboot" -> IF m.failed THEN [light |-> 12, stress |-> 90]
                                              ELSE [light |-> 55, stress |-> 50]
      [] OTHER -> [light |-> 100, stress |-> 0]

\* shotFor, and where the sparks fly when a reboot fails.
ShotFor(m) ==
    CASE PhaseOf(m) \in {"dip", "surge"} -> "substation"
      [] PhaseOf(m) = "reboot" -> IF m.attempt % 2 = 1 THEN 1 ELSE 2
      [] OTHER -> "overview"

\* A burst is fired when its key changes to a number above 0.
SparkKey(m) == CASE PhaseOf(m) = "surge" -> m.attempt * 10 + 1
                 [] PhaseOf(m) = "rebound" -> m.attempt * 10 + 2
                 [] OTHER -> 0
FailKey(m) == IF m.failed /\ PhaseOf(m) = "reboot" THEN m.attempt ELSE 0

-----------------------------------------------------------------------------
(* The page around the town.                                               *)

StepKw(m) == CASE PhaseOf(m) = "surge" -> Peak(Sync)
               [] PhaseOf(m) = "stagger" -> Stag[HOLD_BASE + m.wave]
               [] OTHER -> 0

\* GridReadout.
Readout(m) ==
    CASE PhaseOf(m) \in {"dip", "rebound"} \/ FailKey(m) > 0 -> "low"
      [] PhaseOf(m) = "surge" \/ (PhaseOf(m) = "stagger" /\ StepKw(m) > 0) -> "step"
      [] Trying(m) -> "reclosing"
      [] OTHER -> "ok"

HighlightFrame(m) ==
    CASE PhaseOf(m) = "stagger" -> HOLD_BASE + m.wave
      [] PhaseOf(m) \in {"surge", "rebound", "reboot", "recovered"} -> HOLD_BASE + 7
      [] OTHER -> -1

Mood(m) ==
    CASE PhaseOf(m) \in {"normal", "stagger", "recovered"} -> "calm"
      [] FailKey(m) > 0 -> "night"
      [] OTHER -> "alert"

CaptionIcon(m) ==
    CASE PhaseOf(m) = "normal" -> "bolt"
      [] PhaseOf(m) \in {"dip", "surge"} -> "alert"
      [] PhaseOf(m) = "hold" -> "pause"
      [] PhaseOf(m) = "rebound" \/ FailKey(m) > 0 -> "syncBroken"
      [] PhaseOf(m) = "stagger" \/ Trying(m) -> "sync"
      [] PhaseOf(m) = "recovered" -> "check"

\* The number in the caption: chargers, retry, attempt or wave.
CaptionCount(m) ==
    CASE PhaseOf(m) = "normal" -> N_CHARGERS
      [] PhaseOf(m) \in {"surge", "reboot"} -> m.attempt
      [] PhaseOf(m) = "stagger" -> DelayHistogram[HOLD_BASE + m.wave]
      [] OTHER -> 0

\* The part of the current chapter that fills while the timer runs: from and
\* to in milliseconds of the chapter.
Fill(m) ==
    LET ms == Phases[m.mode][m.phaseIndex + 1].ms
    IN  CASE PhaseOf(m) = "stagger" -> [from |-> m.wave * WAVE_MS, to |-> (m.wave + 1) * WAVE_MS]
          [] PhaseOf(m) = "reboot" -> IF m.failed THEN [from |-> REBOOT_TRY_MS, to |-> ms]
                                                  ELSE [from |-> 0, to |-> REBOOT_TRY_MS]
          [] OTHER -> [from |-> 0, to |-> ms]

-----------------------------------------------------------------------------
(* Correctness of what is shown.                                           *)

\* Town, badges, feeders, readout, caption and chart say the same of a moment.
MomentAgrees(m) ==
    LET states == {PostState(m, Posts[k]) : k \in DOMAIN Posts}
        online == Cardinality({k \in DOMAIN Posts : PostState(m, Posts[k]) = "charging"})
        load   == IF m.mode = "with" THEN Stag ELSE Sync
        lit    == Back(load, HighlightFrame(m))
    IN  /\ Readout(m) = "low" <=> \A d \in Districts : District(m, d).look = "flicker"
        /\ Readout(m) = "low" => states \subseteq {"alarm", "failed"}
        /\ Mood(m) = "night" <=> states = {"failed"}
        /\ Mood(m) = "calm" => Stress(m).stress = 0 /\ "charging" \in states
        /\ CaptionIcon(m) \in {"bolt", "check"} => states = {"charging"} /\ Readout(m) = "ok"
        /\ FailKey(m) > 0 => ShotFor(m) \in Districts
        /\ Folded(LAMBDA n, d : n + District(m, d).online, 0, <<0, 1, 2, 3>>) = online
        /\ online = 0 <=> \E d \in Districts : District(m, d).look \in {"dark", "flicker", "slow"}
        /\ PhaseOf(m) = "stagger" =>
             /\ CaptionCount(m) * KW = StepKw(m) /\ StepKw(m) < Peak(Sync)
             /\ \E k \in DOMAIN Posts : Posts[k].wave = m.wave
             /\ online = Cardinality(DOMAIN Posts) <=> lit = N_CHARGERS * KW
        /\ PhaseOf(m) \in {"surge", "recovered"} =>
             /\ lit = N_CHARGERS * KW
             /\ LastNonZero(load) <= HighlightFrame(m)
        /\ Fill(m).to - Fill(m).from = TimerMs(m)
=============================================================================
