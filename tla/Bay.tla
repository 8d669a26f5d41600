--------------------------------- MODULE Bay ---------------------------------
(***************************************************************************)
(* The charging bay of the station page (station/ChargingScene.tsx,        *)
(* StatusIcon3D.tsx): a frame loop moves the car, the cable, the power     *)
(* pulses and the status icon towards the step that is shown, which may    *)
(* change at any frame.  Times and levels are in milliseconds of the       *)
(* animation they belong to; the icon's spring is a level that rises or    *)
(* falls by one each frame, without its overshoot.                         *)
(***************************************************************************)
EXTENDS Integers

CONSTANTS
    Scenes,     \* what the page may show: [present, charging, icon]
    Icons,
    ArriveMs, LeaveMs, PlugMs, FlowMs,  \* ARRIVE_S, LEAVE_S, PLUG_S, FLOW_S
    MaxDelta,   \* a frame counts for no more than this (0.05 s)
    Grown       \* frames the icon takes to grow

NoIcon == "no icon"

ASSUME BayConstants ==
    /\ Scenes \subseteq [present : BOOLEAN, charging : BOOLEAN, icon : Icons]
    /\ \A scene \in Scenes : scene.charging => scene.present
    /\ ArriveMs \in Nat \ {0} /\ LeaveMs \in Nat \ {0}
    /\ PlugMs \in Nat \ {0} /\ FlowMs \in Nat \ {0}
    /\ MaxDelta \in Nat \ {0} /\ Grown \in Nat \ {0}
    /\ NoIcon \notin Icons

VARIABLES
    scene,              \* props: the step shown
    reduced,            \* the viewer prefers reduced motion
    mode, p,            \* the car: "away", "arriving", "parked", "leaving", and how far
    cable, flow,        \* reach of the cable, strength of the pulses
    shown, size,        \* the icon drawn and its scale
    swapping, pending   \* a swap is under way; the icon of a setShown not yet rendered

car == <<mode, p, cable, flow>>
icon == <<shown, size, swapping, pending>>
vars == <<scene, reduced, car, icon>>

Init ==
    /\ scene \in Scenes /\ reduced \in BOOLEAN
    /\ mode = "away" /\ p = 0 /\ cable = 0 /\ flow = 0
    /\ shown = scene.icon /\ size = 0 /\ swapping = FALSE /\ pending = NoIcon

Approach(v, target, step) ==
    IF v < target THEN IF v + step < target THEN v + step ELSE target
    ELSE IF v - step > target THEN v - step ELSE target

-----------------------------------------------------------------------------
(* The car and the cable.                                                  *)

Driven(to, q) == mode' = to /\ p' = q

\* The drive in: the way back when the car is no longer wanted.
Arriving(dt) ==
    LET q == IF scene.present THEN p + dt ELSE p - dt
    IN  /\ mode = "arriving"
        /\ \/ q >= ArriveMs /\ Driven("parked", 0)
           \/ q <= 0 /\ Driven("away", 0)
           \/ q > 0 /\ q < ArriveMs /\ Driven("arriving", q)

Leaving(dt) ==
    LET q == IF scene.present THEN p - dt ELSE p + dt
    IN  /\ mode = "leaving"
        /\ \/ q >= LeaveMs /\ Driven("away", 0)
           \/ q <= 0 /\ Driven("parked", 0)
           \/ q > 0 /\ q < LeaveMs /\ Driven("leaving", q)

Away ==
    /\ mode = "away"
    /\ IF scene.present THEN Driven("arriving", 0) ELSE Driven(mode, p)

\* Mutant of Parked: the car does not wait for the cable.
ParkedHasty ==
    /\ mode = "parked"
    /\ IF ~scene.present THEN Driven("leaving", 0) ELSE Driven(mode, p)

Parked ==
    /\ mode = "parked"
    /\ IF ~scene.present /\ cable <= 0 THEN Driven("leaving", 0) ELSE Driven(mode, p)

\* Mutant of CableTarget: an unplugged cable stays where it is.
CableTargetHeld(plugged) == IF plugged THEN PlugMs ELSE cable

\* Plugged in only when parked, pulled out only when the power has faded.
CableTarget(plugged) == IF plugged THEN PlugMs ELSE IF flow > 0 THEN cable ELSE 0

\* Director, one frame; restingMotion with reduced motion.
MoveCar(dt) ==
    /\ ~reduced
    /\ Away \/ Arriving(dt) \/ Parked \/ Leaving(dt)
    /\ LET plugged == scene.present /\ mode' = "parked"
       IN  /\ cable' = Approach(cable, CableTarget(plugged), dt)
           /\ flow' = Approach(flow, IF scene.charging /\ plugged /\ cable' >= PlugMs
                                     THEN FlowMs ELSE 0, dt)

RestCar ==
    /\ reduced
    /\ mode' = IF scene.present THEN "parked" ELSE "away"
    /\ p' = 0
    /\ cable' = IF scene.present THEN PlugMs ELSE 0
    /\ flow' = IF scene.present /\ scene.charging THEN FlowMs ELSE 0

-----------------------------------------------------------------------------
(* The icon: a new one is drawn when the old one has shrunk away.          *)

\* Mutant of ShrinkIcon: the swap does not wait.
ShrinkIconHasty ==
    /\ ~reduced /\ shown # scene.icon
    /\ size' = Approach(size, 0, 1)
    /\ IF ~swapping THEN swapping' = TRUE /\ pending' = scene.icon
                    ELSE UNCHANGED <<swapping, pending>>

ShrinkIcon ==
    /\ ~reduced /\ shown # scene.icon
    /\ size' = Approach(size, 0, 1)
    /\ IF size' = 0 /\ ~swapping THEN swapping' = TRUE /\ pending' = scene.icon
                                 ELSE UNCHANGED <<swapping, pending>>

GrowIcon ==
    /\ ~reduced /\ shown = scene.icon
    /\ size' = Approach(size, Grown, 1) /\ swapping' = FALSE /\ UNCHANGED pending

RestIcon ==
    /\ reduced
    /\ size' = Grown
    /\ pending' = IF shown # scene.icon THEN scene.icon ELSE pending
    /\ swapping' = IF shown = scene.icon THEN FALSE ELSE swapping

-----------------------------------------------------------------------------
(* Frames and renders.                                                     *)

Frame ==
    /\ \E dt \in 1..MaxDelta : MoveCar(dt) \/ RestCar
    /\ ShrinkIcon \/ GrowIcon \/ RestIcon
    /\ UNCHANGED <<scene, reduced, shown>>

\* A render applies the setShown that waits.
Rendered ==
    /\ shown' = IF pending = NoIcon THEN shown ELSE pending
    /\ pending' = NoIcon
    /\ UNCHANGED <<car, size, swapping>>

IconRenders == pending # NoIcon /\ Rendered /\ UNCHANGED <<scene, reduced>>
ShowStep(next) == scene' = next /\ Rendered /\ UNCHANGED reduced
ToggleReduced == reduced' = ~reduced /\ Rendered /\ UNCHANGED scene

Next == Frame \/ IconRenders \/ ToggleReduced \/ \E next \in Scenes : ShowStep(next)

Spec == Init /\ [][Next]_vars

\* The browser keeps drawing frames and renders what was set.
FairSpec == Spec /\ WF_vars(Frame) /\ WF_vars(IconRenders)

-----------------------------------------------------------------------------
(* Properties.                                                             *)

TypeOK ==
    /\ scene \in Scenes /\ reduced \in BOOLEAN
    /\ mode \in {"away", "arriving", "parked", "leaving"}
    /\ p \in Nat /\ cable \in 0..PlugMs /\ flow \in 0..FlowMs
    /\ shown \in Icons /\ size \in 0..Grown
    /\ swapping \in BOOLEAN /\ pending \in Icons \cup {NoIcon}

\* Power flows only through a cable that is plugged in, and a car with a cable
\* stands still: the step may change in any frame (ChargingScene.tsx:91-145,
\* "unplug only after the power flow has faded").
PowerInOrder ==
    /\ flow > 0 => cable = PlugMs
    /\ cable > 0 => mode = "parked"

\* One glyph never turns into another before the viewer's eyes
\* (StatusIcon3D.tsx:199-203), unless motion is reduced.
GlyphSwapsUnseen == [][shown' # shown => reduced \/ size = 0]_vars

\* Once the page stays at a step the bay shows it: car, cable and power.
BaySettles ==
    /\ <>[]scene.present => <>[](mode = "parked" /\ cable = PlugMs)
    /\ <>[]scene.charging => <>[](flow = FlowMs)
    /\ <>[]~scene.present => <>[](mode = "away" /\ cable = 0 /\ flow = 0)

\* StatusIcon3D.tsx:202-203, "then the new one springs up": once the page stays
\* at a step its icon is drawn.
IconFollows == \A k \in Icons : <>[](scene.icon = k /\ ~reduced) => <>[](shown = k /\ size = Grown)
=============================================================================
