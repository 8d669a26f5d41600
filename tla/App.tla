--------------------------------- MODULE App ---------------------------------
(***************************************************************************)
(* The web visualiser (App.tsx, Navbar.tsx): the address chooses between   *)
(* the station page and the fleet page, and which scenario the former      *)
(* opens at.  The station page changes the address behind App's back when  *)
(* the viewer selects a scenario.  The preference for reduced motion may   *)
(* change at any time: it is read afresh where it is used.                 *)
(***************************************************************************)
EXTENDS StationPage, GridTimeline

CONSTANTS
    Addresses,  \* the addresses the viewer enters
    Picked,     \* the scenarios the viewer selects
    Roaming     \* bound: only a session that opened one of these moves on

ASSUME AppAssumption == Picked \subseteq Ids /\ \A hash \in Addresses : hash.step \in Int

VARIABLES
    route,      \* App's state
    address     \* the location bar, as far as App reads it

vars == <<page, fleet, route, address>>

\* #/station/id/step (step 0: none) and #/grid.
StationAddress(id, step) == [tab |-> "station", id |-> id, step |-> step]
GridAddress == [tab |-> "grid", id |-> "", step |-> 0]

ParseHash(hash) ==
    IF hash.tab = "grid" THEN [tab |-> "grid", scenario |-> "S1", step |-> NoStep]
    ELSE [tab |-> "station", scenario |-> IF hash.id \in Ids THEN hash.id ELSE "S1",
          step |-> hash.step - 1]

AtStation == route.tab = "station"
Crashed == ~AtStation /\ Throws(fleet)
AtGrid == ~AtStation /\ ~Crashed

\* What is mounted for a route.
PageFor(r, reduced) == IF r.tab = "station" THEN OpenPage(r.scenario, r.step, reduced) ELSE NoPage
FleetFor(r, reduced) == IF r.tab = "grid" THEN OpenFleet(reduced) ELSE NoFleet

Init ==
    \E hash \in Addresses \cup {StationAddress(id, 0) : id \in Ids}, reduced \in BOOLEAN :
        /\ address = hash
        /\ route = ParseHash(hash)
        /\ page = PageFor(route, reduced)
        /\ fleet = FleetFor(route, reduced)

-----------------------------------------------------------------------------
(* Moving between the pages.                                               *)

\* setRoute: the pages are mounted anew when the tab or the key changes, else
\* only rendered.
SetRoute(next, reduced) ==
    /\ route' = next
    /\ IF next.tab = route.tab /\ (next.tab = "grid" \/ next = route)
       THEN IF AtStation THEN Does(LAMBDA p : p) /\ UNCHANGED fleet
                         ELSE GridDoes(LAMBDA g : g) /\ UNCHANGED page
       ELSE page' = PageFor(next, reduced) /\ fleet' = FleetFor(next, reduced)

EnterAddress(hash, reduced) ==
    /\ ~Crashed /\ hash # address
    /\ address' = hash
    /\ SetRoute(ParseHash(hash), reduced)

Go(next, reduced) ==
    /\ address' = IF next.tab = "grid" THEN GridAddress ELSE StationAddress(next.scenario, 0)
    /\ SetRoute(next, reduced)

ClickNavTab(tab, reduced) ==
    ~Crashed /\ Go([tab |-> tab, scenario |-> route.scenario, step |-> NoStep], reduced)
OpenStation(reduced) ==
    AtGrid /\ Go([tab |-> "station", scenario |-> "S2", step |-> NoStep], reduced)

\* The viewer reloads the page: the one way on after a crash.
Reload(reduced) ==
    /\ route' = ParseHash(address)
    /\ page' = PageFor(route', reduced) /\ fleet' = FleetFor(route', reduced)
    /\ UNCHANGED address

\* A scenario chosen from the list, or the one offered at the end.
Choose(id, reduced) ==
    /\ AtStation /\ id \in Picked
    /\ SelectScenario(id, reduced)
    /\ address' = StationAddress(id, 0)
    /\ UNCHANGED <<fleet, route>>
ChooseNext(reduced) ==
    AtStation /\ page.index = page.memo.last /\ Choose(NextScenario(page.id), reduced)

-----------------------------------------------------------------------------
(* The specification.                                                      *)

FirePageTimer == AtStation /\ PageTimerFires /\ UNCHANGED <<fleet, route, address>>
PageRenders   == AtStation /\ RenderPage /\ UNCHANGED <<fleet, route, address>>
PageEffects   == AtStation /\ RunPageEffects /\ UNCHANGED <<fleet, route, address>>
FireGridTimer == AtGrid /\ GridTimerFires /\ UNCHANGED <<page, route, address>>
GridRenders   == AtGrid /\ RenderGrid /\ UNCHANGED <<page, route, address>>
GridRunsEffects == AtGrid /\ RunGridEffects /\ UNCHANGED <<page, route, address>>

Browser == \/ FirePageTimer \/ PageRenders \/ PageEffects
           \/ FireGridTimer \/ GridRenders \/ GridRunsEffects

PlayStation == AtStation /\ PageViewer /\ UNCHANGED <<fleet, route, address>>
PlayFleet   == AtGrid /\ GridViewer /\ UNCHANGED <<page, route, address>>

MoveOn ==
    /\ route.scenario \in Roaming
    /\ \E reduced \in BOOLEAN :
         \/ Reload(reduced) \/ OpenStation(reduced) \/ ChooseNext(reduced)
         \/ \E hash \in Addresses : EnterAddress(hash, reduced)
         \/ \E tab \in {"station", "grid"} : ClickNavTab(tab, reduced)
         \/ \E id \in Ids : Choose(id, reduced)

Next == Browser \/ PlayStation \/ PlayFleet \/ MoveOn

Spec == Init /\ [][Next]_vars

\* The browser runs timers that are due, renders and effects.
FairSpec ==
    /\ Spec
    /\ WF_vars(FirePageTimer) /\ WF_vars(PageRenders) /\ WF_vars(PageEffects)
    /\ WF_vars(FireGridTimer) /\ WF_vars(GridRenders) /\ WF_vars(GridRunsEffects)

-----------------------------------------------------------------------------
(* Properties.                                                             *)

\* What is shown exists: the step is one of the scenario shown, the frames
\* clicked are frames of it, and the fleet story is in order
\* (StationView.tsx:102-112, GridTimeline.tsx:102-164).
ViewInRange ==
    /\ AtStation => /\ page.index \in 0..LastStep(Playback[page.id])
                    /\ page.corrupted \cup ({page.inspected} \ {NoFrame}) \subseteq FramesOf(Ops[page.id])
    /\ AtGrid => StoryInOrder(fleet)

\* Where playing may stop for good: a timer fired and a later event took its
\* step back.  The scenario shown was selected again at its first step, the
\* fleet shown was picked again, or a jump was undone by a key pressed before
\* it was shown.
StationStalled == PageSettled /\ ~page.timer /\ page.index = 0
FleetStalled ==
    /\ GridSettled /\ ~fleet.timer /\ fleet.interlude = "none"
    /\ fleet.phaseIndex = HOLD_INDEX \/ fleet.ended

\* A settled page that plays has a timer to go on with, with those exceptions
\* (StationView.tsx:114-118, GridTimeline.tsx:87-135).
PlayingIsDriven ==
    /\ AtStation /\ PageSettled /\ IsPlaying(page) => page.timer \/ StationStalled
    /\ AtGrid /\ GridSettled /\ fleet.playing => fleet.timer \/ FleetStalled

\* Every verdict told of a step is what the charging model did with it
\* (stationStory.ts:138-252).
NarrationIsTrue == AtStation => NarrationHolds[page.id][page.index]

\* The panels around a step, or around a moment of the fleet story, agree.
PanelsAgree ==
    /\ AtStation => PanelsHold[page.id][page.index]
    /\ AtGrid /\ fleet.wave < STAGGER_WAVES => MomentsAgree[MomentOf(fleet)]

\* Whatever frames are corrupted, the chain of frames and the totals of the
\* replay tell one story (CRCChainViz.tsx:87-130, scenarios.ts:321-336).
EvidenceAgrees ==
    AtStation /\ page.tab = "integrity" =>
        \A s \in CorruptSets(page.memo.frames) : EvidenceHolds[page.id][s]

\* Left alone, a scenario that plays comes to its end or stalls as above.
PlaybackEnds ==
    <>[][Browser]_vars => <>[](AtStation => ~IsPlaying(page) \/ StationStalled)

\* Left alone, the fleets take turns for ever: the one with the fixed delay
\* fails, the other one recovers.
FleetStoryGoesOn ==
    <>[][Browser]_vars =>
        \/ <>[](AtGrid => ~fleet.playing \/ FleetStalled)
        \/ /\ []<>(AtGrid /\ fleet.interlude = "verdict")
           /\ []<>(AtGrid /\ PhaseOf(fleet) = "recovered")

\* App.tsx:8-9, "Deep links: #/station/S12 opens a scenario and plays it": the
\* page shows the scenario in the location bar.
AddressIsShown == AtStation => page.id = ParseHash(address).scenario

\* GridView.tsx:222, "so the player bar stays usable".
PlayerBarUsable == ~Crashed
=============================================================================
