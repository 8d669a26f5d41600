------------------------------ MODULE BayProofs ------------------------------
(***************************************************************************)
(* The order of the bay's moves, for every scene, timing and frame rate.   *)
(***************************************************************************)
EXTENDS Bay, TLAPS

\* A swap that waits for its render: the page is still at the step it was set
\* for, and the old icon is out of sight.
SwapReady ==
    pending # NoIcon => /\ shown # scene.icon /\ pending = scene.icon
                        /\ reduced \/ size = 0

IInv == TypeOK /\ PowerInOrder /\ SwapReady

-----------------------------------------------------------------------------
(* Lemmas about the operators.                                             *)

LEMMA ApproachStays ==
    ASSUME NEW top \in Nat, NEW v \in 0..top, NEW target \in 0..top, NEW step \in Nat
    PROVE  Approach(v, target, step) \in 0..top
  BY DEF Approach

LEMMA ApproachSteady ==
    ASSUME NEW v \in Nat, NEW step \in Nat
    PROVE  Approach(v, v, step) = v
  BY DEF Approach

LEMMA ApproachZero ==
    ASSUME NEW v \in Nat, NEW step \in Nat, v = 0
    PROVE  Approach(v, 0, step) = 0
  BY DEF Approach

-----------------------------------------------------------------------------
(* One frame of the car and the cable.                                     *)

LEMMA CarMoves ==
    ASSUME TypeOK, NEW dt \in 1..MaxDelta, MoveCar(dt)
    PROVE  /\ mode' \in {"away", "arriving", "parked", "leaving"}
           /\ p' \in Nat
           /\ mode = "parked" /\ cable > 0 => mode' = "parked"
  <1>1. dt \in Nat /\ dt >= 1
    BY BayConstants
  <1>2. scene.present \in BOOLEAN
    BY BayConstants DEF TypeOK
  <1>3. CASE Away
    BY <1>3 DEF Away, Driven, TypeOK
  <1>4. CASE Arriving(dt)
    BY <1>1, <1>2, <1>4 DEF Arriving, Driven, TypeOK
  <1>5. CASE Parked
    BY <1>5 DEF Parked, Driven, TypeOK
  <1>6. CASE Leaving(dt)
    BY <1>1, <1>2, <1>6 DEF Leaving, Driven, TypeOK
  <1> QED
    BY <1>3, <1>4, <1>5, <1>6 DEF MoveCar

LEMMA CarKeepsOrder ==
    ASSUME TypeOK, PowerInOrder, NEW dt \in 1..MaxDelta, MoveCar(dt)
    PROVE  cable' \in 0..PlugMs /\ flow' \in 0..FlowMs /\ PowerInOrder'
  <1> DEFINE plugged == scene.present /\ mode' = "parked"
             goal == IF scene.charging /\ plugged /\ cable' >= PlugMs THEN FlowMs ELSE 0
  <1>1. dt \in Nat /\ PlugMs \in Nat /\ FlowMs \in Nat /\ 0 < PlugMs /\ 0 < FlowMs
    BY BayConstants
  <1>2. cable' = Approach(cable, CableTarget(plugged), dt) /\ flow' = Approach(flow, goal, dt)
    BY DEF MoveCar
  <1>3. CableTarget(plugged) \in 0..PlugMs
    BY <1>1 DEF CableTarget, TypeOK
  <1>4. cable' \in 0..PlugMs
    BY <1>1, <1>2, <1>3, ApproachStays DEF TypeOK
  <1>5. flow' \in 0..FlowMs
    <2>1. goal \in 0..FlowMs
      BY <1>1
    <2> QED
      BY <1>1, <1>2, <2>1, ApproachStays DEF TypeOK
  <1>6. mode = "parked" /\ cable > 0 => mode' = "parked"
    BY CarMoves
  <1>7. flow' > 0 => cable' = PlugMs
    <2>1. CASE flow > 0
      <3>1. cable = PlugMs /\ CableTarget(plugged) = PlugMs
        BY <2>1 DEF PowerInOrder, CableTarget
      <3> QED
        BY <1>1, <1>2, <3>1, ApproachSteady
    <2>2. CASE flow = 0 /\ flow' > 0
      <3>1. goal # 0
        BY <1>1, <1>2, <2>2, ApproachZero
      <3> QED
        BY <1>1, <1>4, <3>1
    <2> QED
      BY <1>5, <2>1, <2>2 DEF TypeOK
  <1>8. cable' > 0 => mode' = "parked"
    <2>1. CASE cable > 0
      BY <1>6, <2>1 DEF PowerInOrder
    <2>2. CASE cable = 0 /\ cable' > 0
      <3>1. CableTarget(plugged) # 0
        BY <1>1, <1>2, <2>2, ApproachZero
      <3>2. plugged
        BY <2>2, <3>1 DEF CableTarget
      <3> QED
        BY <3>2
    <2> QED
      BY <1>4, <2>1, <2>2 DEF TypeOK
  <1> QED
    BY <1>4, <1>5, <1>7, <1>8 DEF PowerInOrder

LEMMA RestKeepsOrder ==
    ASSUME TypeOK, RestCar
    PROVE  /\ mode' \in {"away", "arriving", "parked", "leaving"} /\ p' \in Nat
           /\ cable' \in 0..PlugMs /\ flow' \in 0..FlowMs /\ PowerInOrder'
  <1>1. PlugMs \in Nat /\ FlowMs \in Nat
    BY BayConstants
  <1> QED
    BY <1>1 DEF RestCar, PowerInOrder

-----------------------------------------------------------------------------
(* One frame of the icon.                                                  *)

LEMMA IconKeepsReady ==
    ASSUME TypeOK, SwapReady, UNCHANGED <<scene, reduced, shown>>,
           ShrinkIcon \/ GrowIcon \/ RestIcon
    PROVE  /\ size' \in 0..Grown /\ swapping' \in BOOLEAN
           /\ pending' \in Icons \cup {NoIcon} /\ SwapReady'
  <1>1. Grown \in Nat /\ scene.icon \in Icons /\ NoIcon \notin Icons
    BY BayConstants DEF TypeOK
  <1>2. CASE ShrinkIcon
    <2>1. size' \in 0..Grown
      BY <1>1, <1>2, ApproachStays DEF ShrinkIcon, TypeOK
    <2>2. size = 0 => size' = 0
      BY <1>1, <1>2, ApproachZero DEF ShrinkIcon, TypeOK
    <2>3. CASE size' = 0 /\ ~swapping
      BY <1>1, <1>2, <2>1, <2>3 DEF ShrinkIcon, SwapReady
    <2>4. CASE ~(size' = 0 /\ ~swapping)
      BY <1>2, <2>1, <2>2, <2>4 DEF ShrinkIcon, SwapReady, TypeOK
    <2> QED
      BY <2>3, <2>4
  <1>3. CASE GrowIcon
    <2>1. size' \in 0..Grown
      BY <1>1, <1>3, ApproachStays DEF GrowIcon, TypeOK
    <2> QED
      BY <1>3, <2>1 DEF GrowIcon, SwapReady, TypeOK
  <1>4. CASE RestIcon
    <2>1. size' \in 0..Grown /\ pending' \in Icons \cup {NoIcon}
      BY <1>1, <1>4 DEF RestIcon, TypeOK
    <2>2. swapping' \in BOOLEAN
      BY <1>4 DEF RestIcon, TypeOK
    <2>3. SwapReady'
      BY <1>1, <1>4 DEF RestIcon, SwapReady
    <2> QED
      BY <2>1, <2>2, <2>3
  <1> QED
    BY <1>2, <1>3, <1>4

-----------------------------------------------------------------------------
(* The invariant.                                                          *)

LEMMA InitInv == Init => IInv
  <1> SUFFICES ASSUME Init PROVE IInv
    OBVIOUS
  <1>1. PlugMs \in Nat /\ FlowMs \in Nat /\ Grown \in Nat /\ scene.icon \in Icons
    BY BayConstants DEF Init
  <1>2. PowerInOrder /\ SwapReady
    BY <1>1 DEF Init, PowerInOrder, SwapReady
  <1>3. swapping \in BOOLEAN
    BY DEF Init
  <1>4. TypeOK
    BY <1>1, <1>3 DEF Init, TypeOK
  <1> QED
    BY <1>2, <1>4 DEF IInv

\* Whatever changes the props renders the icon that waits.
LEMMA RenderKeepsInv ==
    ASSUME IInv, Rendered, scene' \in Scenes, reduced' \in BOOLEAN
    PROVE  IInv'
  <1>1. shown' \in Icons /\ pending' = NoIcon
    BY DEF Rendered, IInv, TypeOK
  <1> QED
    BY <1>1 DEF Rendered, IInv, TypeOK, PowerInOrder, SwapReady, car

LEMMA Inductive == IInv /\ [Next]_vars => IInv'
  <1> SUFFICES ASSUME IInv, [Next]_vars PROVE IInv'
    OBVIOUS
  <1> USE DEF IInv
  <1>1. CASE Frame
    <2>1. PICK dt \in 1..MaxDelta : MoveCar(dt) \/ RestCar
      BY <1>1 DEF Frame
    <2>2. /\ mode' \in {"away", "arriving", "parked", "leaving"} /\ p' \in Nat
          /\ cable' \in 0..PlugMs /\ flow' \in 0..FlowMs /\ PowerInOrder'
      BY <2>1, CarMoves, CarKeepsOrder, RestKeepsOrder
    <2>3. UNCHANGED <<scene, reduced, shown>> /\ (ShrinkIcon \/ GrowIcon \/ RestIcon)
      BY <1>1 DEF Frame
    <2>4. /\ size' \in 0..Grown /\ swapping' \in BOOLEAN
          /\ pending' \in Icons \cup {NoIcon} /\ SwapReady'
      BY <2>3, IconKeepsReady
    <2> QED
      BY <2>2, <2>3, <2>4 DEF TypeOK
  <1>2. CASE IconRenders
    BY <1>2, RenderKeepsInv DEF IconRenders, TypeOK
  <1>3. CASE ToggleReduced
    BY <1>3, RenderKeepsInv DEF ToggleReduced, TypeOK
  <1>4. CASE \E next \in Scenes : ShowStep(next)
    BY <1>4, RenderKeepsInv DEF ShowStep, TypeOK
  <1>5. CASE UNCHANGED vars
    BY <1>5 DEF vars, car, icon, TypeOK, PowerInOrder, SwapReady
  <1> QED
    BY <1>1, <1>2, <1>3, <1>4, <1>5 DEF Next

LEMMA InvAlways == Spec => []IInv
  BY InitInv, Inductive, PTL DEF Spec

\* The bay's variables stay in their ranges (ChargingScene.tsx:44-62).
THEOREM BayTypeCorrect == Spec => []TypeOK
  <1>1. IInv => TypeOK
    BY DEF IInv
  <1> QED
    BY <1>1, InvAlways, PTL

\* Power flows only through a plugged cable, and only a parked car has one, at
\* every frame rate and however the steps change (ChargingScene.tsx:91-145).
THEOREM PowerAlwaysInOrder == Spec => []PowerInOrder
  <1>1. IInv => PowerInOrder
    BY DEF IInv
  <1> QED
    BY <1>1, InvAlways, PTL

\* No glyph turns into another in sight (StatusIcon3D.tsx:199-203).
THEOREM SwapsUnseen == Spec => GlyphSwapsUnseen
  <1>1. IInv /\ [Next]_vars => [shown' # shown => reduced \/ size = 0]_vars
    <2> SUFFICES ASSUME IInv, Next, shown' # shown PROVE reduced \/ size = 0
      OBVIOUS
    <2>1. CASE Frame
      BY <2>1 DEF Frame
    <2>2. CASE Rendered
      BY <2>2 DEF Rendered, IInv, SwapReady
    <2> QED
      BY <2>1, <2>2 DEF Next, IconRenders, ToggleReduced, ShowStep
  <1> QED
    BY <1>1, InvAlways, PTL DEF Spec, GlyphSwapsUnseen
=============================================================================
