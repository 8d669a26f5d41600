------------------------------ MODULE AppProofs ------------------------------
(***************************************************************************)
(* Whatever the viewer does and whenever timers fire, renders and effects  *)
(* run: what the visualiser shows exists, and what plays goes on but for   *)
(* the exceptions named in App.  No bound of the runs is used: the queues  *)
(* grow as they may, and the viewer enters any address and picks any       *)
(* scenario.                                                               *)
(***************************************************************************)
EXTENDS App, SequenceTheorems, WellFoundedInduction, TLAPS

-----------------------------------------------------------------------------
(* The inductive invariant of the station page.                            *)

AllFrames == UNION {FramesOf(Ops[id]) : id \in Ids}

Updates == [do : {"advance", "jump"}, to : Nat]

Pages == [id : Ids, memo : {Memo[id] : id \in Ids}, playing : BOOLEAN, index : Nat,
          tab : {"closed"} \cup Opened, corrupted : SUBSET AllFrames,
          inspected : AllFrames \cup {NoFrame}, held : BOOLEAN, queue : Seq(Updates),
          eff : [isPlaying : BOOLEAN, index : Nat, last : Nat], timer : BOOLEAN]

\* What is shown is of the scenario shown.
ShownExists(p) ==
    /\ p \in Pages /\ p.memo = Memo[p.id] /\ p.index <= p.memo.last
    /\ p.corrupted \subseteq p.memo.frames /\ p.inspected \in p.memo.frames \cup {NoFrame}

\* Updates that wait were made for it too.
QueueFits(q, last) ==
    \A k \in DOMAIN q : q[k].to <= last /\ (q[k].do = "advance" => q[k].to = last)

Advances(q) == \E k \in DOMAIN q : q[k].do = "advance"

\* Without a timer, a page that plays has a step waiting, or stands at its
\* first step.
KeepsGoing(p) ==
    p.eff = Deps(p) /\ IsPlaying(p) /\ ~p.timer => p.index = 0 \/ Advances(p.queue)

PageInv(p) == /\ ShownExists(p) /\ p.eff.last = p.memo.last
              /\ QueueFits(p.queue, p.memo.last) /\ KeepsGoing(p)

-----------------------------------------------------------------------------
(* The inductive invariant of the fleet page.                              *)

Beats == {"wave", "fail", "retry", "verdict", "handoff", "reveal", "other", "next"}

GridUpdates == [do : Beats] \cup [do : {"jump"}, mode : Modes, index : Nat]

Fleets == [mode : Modes, phaseIndex : Nat, wave : Nat, attempt : Nat, failed : BOOLEAN,
           interlude : Interludes, playing : BOOLEAN, ended : BOOLEAN, held : BOOLEAN,
           queue : Seq(GridUpdates),
           eff : [mode : Modes, phaseIndex : Nat, wave : Nat, attempt : Nat, failed : BOOLEAN,
                  interlude : Interludes, playing : BOOLEAN],
           timer : BOOLEAN]

\* The story is in order, but for a phase past the last one.
InOrder(g) ==
    /\ g \in Fleets /\ g.attempt \in 1..MAX_ATTEMPTS /\ g.wave \in 0..STAGGER_WAVES
    /\ g.mode = "with" => g.attempt = 1
    /\ g.interlude = "verdict" => g.mode = "without" /\ g.attempt = MAX_ATTEMPTS
    /\ g.interlude = "handoff" => g.mode = "with" /\ g.phaseIndex = 0 /\ g.wave = 0

\* What a beat needs of the state that it meets.
Fits(g, beat) ==
    /\ beat \in {"wave", "retry", "other", "next"} => g.interlude = "none"
    /\ beat = "wave" => g.wave < STAGGER_WAVES
    /\ beat = "retry" => g.mode = "without" /\ g.attempt < MAX_ATTEMPTS
    /\ beat = "verdict" => g.mode = "without" /\ g.attempt = MAX_ATTEMPTS

\* One beat at most waits; no timer runs beside it, and a page that plays still
\* shows what the beat was made for.
BeatWaits(g) ==
    /\ \A j, k \in DOMAIN g.queue : g.queue[j].do \in Beats /\ g.queue[k].do \in Beats => j = k
    /\ \A k \in DOMAIN g.queue : g.queue[k].do \in Beats =>
         /\ Fits(g, g.queue[k].do) /\ ~g.timer
         /\ g.playing => g.eff = GridDeps(g) /\ g.queue[k].do = Beat(g.eff)

TimerFits(g) == g.timer => Fits(g, Beat(g.eff)) /\ (g.playing => g.eff = GridDeps(g))

\* Nothing has changed that would set the timer again.
Standing(g) ==
    IF g.interlude = "none" THEN g.eff = GridDeps(g)
    ELSE g.eff.playing = g.playing /\ g.eff.interlude = g.interlude

Stalled(g) == g.interlude = "none" /\ (g.phaseIndex = HOLD_INDEX \/ g.ended)

GridKeepsGoing(g) ==
    Standing(g) /\ g.playing /\ ~g.timer =>
        Stalled(g) \/ \E k \in DOMAIN g.queue : g.queue[k].do \in Beats

FleetInv(g) == InOrder(g) /\ BeatWaits(g) /\ TimerFits(g) /\ GridKeepsGoing(g)

\* The route.
RouteOK(r) == r.tab \in {"station", "grid"} /\ r.scenario \in Ids /\ r.step \in Int

\* The page in front; after a crash nothing is said of the fleet page.
InFront(r, p, g) ==
    /\ r.tab = "station" => PageInv(p)
    /\ r.tab # "station" /\ ~Throws(g) => FleetInv(g)

AppInv == RouteOK(route) /\ address.step \in Int /\ InFront(route, page, fleet)

-----------------------------------------------------------------------------
(* Folds.                                                                  *)

\* A set of numbers that holds 0, and with each number the next, holds them all.
LEMMA Induction ==
    ASSUME NEW S, 0 \in S, \A n \in Nat : n \in S => n + 1 \in S
    PROVE  Nat \subseteq S
<1> DEFINE R == OpToRel(<, Nat)
           T == Nat \ S
<1>1. SUFFICES ASSUME T # {} PROVE FALSE
  OBVIOUS
<1>2. \A x, y \in Nat : x < y => <<x, y>> \in R
  BY DEF OpToRel
<1>3. IsWellFoundedOn(R, Nat)
  BY NatLessThanWellFounded, Zenon
<1> HIDE DEF R
<1>4. PICK n \in T : \A m \in T : <<m, n>> \notin R
  BY <1>1, <1>3, WFMin
<1>5. n - 1 \in Nat /\ n - 1 < n /\ (n - 1) + 1 = n
  OBVIOUS
<1>6. n - 1 \in S
  BY <1>2, <1>4, <1>5
<1> QED BY <1>5, <1>6

\* The values of a fold whose step from place k is the function G[k] on S.
Chain(f, b, G, n) ==
    f = [k \in 0..n |-> IF k = 0 THEN b ELSE G[k][f[k - 1]]]

\* Such a chain exists, and its values stay in S.
LEMMA ChainExists ==
    ASSUME NEW S, NEW b \in S, NEW N \in Nat, NEW G \in [1..N -> [S -> S]]
    PROVE  \A n \in 0..N : \E f \in [0..n -> S] : Chain(f, b, G, n)
<1> DEFINE P(n) == \E f \in [0..n -> S] : Chain(f, b, G, n)
           T == {n \in Nat : n \in 0..N => P(n)}
<1>1. 0 \in T
  <2> DEFINE f == [k \in 0..0 |-> b]
  <2>1. f \in [0..0 -> S]
    OBVIOUS
  <2>2. f = [k \in 0..0 |-> IF k = 0 THEN b ELSE G[k][f[k - 1]]]
    OBVIOUS
  <2> HIDE DEF f
  <2>3. Chain(f, b, G, 0)
    BY <2>2, Zenon DEF Chain
  <2>4. P(0)
    BY <2>1, <2>3, Zenon
  <2> QED BY <2>4
<1>2. ASSUME NEW n \in Nat, n \in T PROVE n + 1 \in T
  <2> SUFFICES ASSUME n + 1 \in 0..N PROVE P(n + 1)
    OBVIOUS
  <2>1. PICK f \in [0..n -> S] : Chain(f, b, G, n)
    BY <1>2
  <2> DEFINE g == [k \in 0..(n + 1) |-> IF k \in 0..n THEN f[k] ELSE G[k][f[k - 1]]]
  <2>2. \A k \in 0..n : f[k] = IF k = 0 THEN b ELSE G[k][f[k - 1]]
    BY <2>1 DEF Chain
  <2>3. G[n + 1] \in [S -> S] /\ f[n] \in S /\ (n + 1) - 1 = n
    OBVIOUS
  <2>4. g \in [0..(n + 1) -> S]
    BY <2>3
  <2>5. ASSUME NEW k \in 0..(n + 1)
        PROVE  g[k] = IF k = 0 THEN b ELSE G[k][g[k - 1]]
    <3>1. CASE k = 0
      BY <2>2, <3>1
    <3>2. CASE k # 0
      <4>1. k - 1 \in 0..n /\ k - 1 \in 0..(n + 1)
        BY <3>2
      <4>2. g[k - 1] = f[k - 1]
        BY <4>1
      <4>3. g[k] = G[k][f[k - 1]]
        BY <2>2, <3>2
      <4> QED BY <3>2, <4>2, <4>3
    <3> QED BY <3>1, <3>2
  <2>6. g = [k \in 0..(n + 1) |-> g[k]]
    OBVIOUS
  <2> HIDE DEF g
  <2>7. g = [k \in 0..(n + 1) |-> IF k = 0 THEN b ELSE G[k][g[k - 1]]]
    BY <2>5, <2>6
  <2>8. Chain(g, b, G, n + 1)
    BY <2>7, Zenon DEF Chain
  <2> QED BY <2>4, <2>8, Zenon
<1> HIDE DEF T
<1>3. Nat \subseteq T
  BY <1>1, <1>2, Induction
<1>4. ASSUME NEW n \in 0..N PROVE P(n)
  <2>1. n \in T
    BY <1>3
  <2> QED BY <2>1 DEF T
<1> QED BY <1>4

\* The updates of a station page, one after the other.
AllApplied(b, q) == Folded(Applied, b, q)

AppliedInTurn(f, S, b, q) ==
    /\ f \in [0..Len(q) -> S] /\ f[0] = b
    /\ \A k \in 1..Len(q) : f[k] = Applied(f[k - 1], q[k])
    /\ AllApplied(b, q) = f[Len(q)]

\* They go through states that every update keeps to.
LEMMA AppliedRun ==
    ASSUME NEW S, NEW b \in S, NEW q, Len(q) \in Nat,
           \A k \in 1..Len(q) : \A s \in S : Applied(s, q[k]) \in S
    PROVE  \E f : AppliedInTurn(f, S, b, q)
<1> DEFINE n == Len(q)
           G == [k \in 1..n |-> [s \in S |-> Applied(s, q[k])]]
           Run(f) == f = [k \in 0..n |->
                            IF k = 0 THEN b
                            ELSE CHOOSE r \in {Applied(soFar, q[k]) : soFar \in {f[k - 1]}} : TRUE]
           h == CHOOSE f : Run(f)
<1>1. G \in [1..n -> [S -> S]]
  OBVIOUS
<1>2. PICK f \in [0..n -> S] : Chain(f, b, G, n)
  <2> HIDE DEF G
  <2>1. n \in 0..n
    OBVIOUS
  <2> QED BY <1>1, <2>1, ChainExists
<1>3. \A s, k : (CHOOSE r \in {Applied(soFar, q[k]) : soFar \in {s}} : TRUE) = Applied(s, q[k])
  OBVIOUS
<1>4. \A k \in 1..n : f[k - 1] \in S
  OBVIOUS
<1>5. \A k \in 0..n : f[k] = IF k = 0 THEN b ELSE Applied(f[k - 1], q[k])
  <2>1. \A k \in 0..n : f[k] = IF k = 0 THEN b ELSE G[k][f[k - 1]]
    <3> HIDE DEF G
    <3> QED BY <1>2 DEF Chain
  <2>2. \A k \in 1..n : \A s \in S : G[k][s] = Applied(s, q[k])
    OBVIOUS
  <2> HIDE DEF G
  <2>3. ASSUME NEW k \in 0..n, k # 0 PROVE f[k] = Applied(f[k - 1], q[k])
    <3>1. k \in 1..n
      BY <2>3
    <3>2. f[k - 1] \in S
      BY <1>4, <3>1
    <3>3. f[k] = G[k][f[k - 1]]
      BY <2>1, <2>3
    <3>4. \A s \in S : G[k][s] = Applied(s, q[k])
      BY <2>2, <3>1
    <3>5. G[k][f[k - 1]] = Applied(f[k - 1], q[k])
      BY <3>2, <3>4, Zenon
    <3> QED BY <3>3, <3>5, Zenon
  <2>4. f[0] = b
    <3>1. 0 \in 0..n
      OBVIOUS
    <3> QED BY <2>1, <3>1, Zenon
  <2> QED BY <2>3, <2>4
<1>6. Run(f)
  <2>1. f = [k \in 0..n |-> f[k]]
    OBVIOUS
  <2>2. f = [k \in 0..n |-> IF k = 0 THEN b ELSE Applied(f[k - 1], q[k])]
    BY <1>5, <2>1
  <2> QED BY <1>3, <2>2
<1>7. Run(h)
  BY <1>6, Zenon
<1>8. h = [k \in 0..n |-> IF k = 0 THEN b ELSE Applied(h[k - 1], q[k])]
  BY <1>3, <1>7
<1>9. AllApplied(b, q) = h[n]
  BY Zenon DEF Folded, AllApplied
<1> HIDE DEF h
<1>10. h[0] = b /\ \A k \in 1..n : h[k] = Applied(h[k - 1], q[k])
  BY <1>8
<1> DEFINE T == {k \in Nat : k \in 0..n => h[k] \in S}
<1>11. Nat \subseteq T
  <2>1. 0 \in T
    BY <1>10
  <2>2. ASSUME NEW k \in Nat, k \in T PROVE k + 1 \in T
    BY <1>10, <2>2
  <2> HIDE DEF T
  <2> QED BY <2>1, <2>2, Induction
<1>12. h \in [0..n -> S]
  <2>1. \A k \in 0..n : h[k] \in S
    BY <1>11
  <2>2. h = [k \in 0..n |-> h[k]]
    BY <1>8
  <2> QED BY <2>1, <2>2
<1>13. AppliedInTurn(h, S, b, q)
  BY <1>9, <1>10, <1>12 DEF AppliedInTurn
<1> QED BY <1>13, Zenon

\* The updates of the fleet page, one after the other.
AllUpdated(b, q) == Folded(Update, b, q)

UpdatedInTurn(f, S, b, q) ==
    /\ f \in [0..Len(q) -> S] /\ f[0] = b
    /\ \A k \in 1..Len(q) : f[k] = Update(f[k - 1], q[k])
    /\ AllUpdated(b, q) = f[Len(q)]

\* They go through states that every update keeps to.
LEMMA UpdatedRun ==
    ASSUME NEW S, NEW b \in S, NEW q, Len(q) \in Nat,
           \A k \in 1..Len(q) : \A s \in S : Update(s, q[k]) \in S
    PROVE  \E f : UpdatedInTurn(f, S, b, q)
<1> DEFINE n == Len(q)
           G == [k \in 1..n |-> [s \in S |-> Update(s, q[k])]]
           Run(f) == f = [k \in 0..n |->
                            IF k = 0 THEN b
                            ELSE CHOOSE r \in {Update(soFar, q[k]) : soFar \in {f[k - 1]}} : TRUE]
           h == CHOOSE f : Run(f)
<1>1. G \in [1..n -> [S -> S]]
  OBVIOUS
<1>2. PICK f \in [0..n -> S] : Chain(f, b, G, n)
  <2> HIDE DEF G
  <2>1. n \in 0..n
    OBVIOUS
  <2> QED BY <1>1, <2>1, ChainExists
<1>3. \A s, k : (CHOOSE r \in {Update(soFar, q[k]) : soFar \in {s}} : TRUE) = Update(s, q[k])
  OBVIOUS
<1>4. \A k \in 1..n : f[k - 1] \in S
  OBVIOUS
<1>5. \A k \in 0..n : f[k] = IF k = 0 THEN b ELSE Update(f[k - 1], q[k])
  <2>1. \A k \in 0..n : f[k] = IF k = 0 THEN b ELSE G[k][f[k - 1]]
    <3> HIDE DEF G
    <3> QED BY <1>2 DEF Chain
  <2>2. \A k \in 1..n : \A s \in S : G[k][s] = Update(s, q[k])
    OBVIOUS
  <2> HIDE DEF G
  <2>3. ASSUME NEW k \in 0..n, k # 0 PROVE f[k] = Update(f[k - 1], q[k])
    <3>1. k \in 1..n
      BY <2>3
    <3>2. f[k - 1] \in S
      BY <1>4, <3>1
    <3>3. f[k] = G[k][f[k - 1]]
      BY <2>1, <2>3
    <3>4. \A s \in S : G[k][s] = Update(s, q[k])
      BY <2>2, <3>1
    <3>5. G[k][f[k - 1]] = Update(f[k - 1], q[k])
      BY <3>2, <3>4, Zenon
    <3> QED BY <3>3, <3>5, Zenon
  <2>4. f[0] = b
    <3>1. 0 \in 0..n
      OBVIOUS
    <3> QED BY <2>1, <3>1, Zenon
  <2> QED BY <2>3, <2>4
<1>6. Run(f)
  <2>1. f = [k \in 0..n |-> f[k]]
    OBVIOUS
  <2>2. f = [k \in 0..n |-> IF k = 0 THEN b ELSE Update(f[k - 1], q[k])]
    BY <1>5, <2>1
  <2> QED BY <1>3, <2>2
<1>7. Run(h)
  BY <1>6, Zenon
<1>8. h = [k \in 0..n |-> IF k = 0 THEN b ELSE Update(h[k - 1], q[k])]
  BY <1>3, <1>7
<1>9. AllUpdated(b, q) = h[n]
  BY Zenon DEF Folded, AllUpdated
<1> HIDE DEF h
<1>10. h[0] = b /\ \A k \in 1..n : h[k] = Update(h[k - 1], q[k])
  BY <1>8
<1> DEFINE T == {k \in Nat : k \in 0..n => h[k] \in S}
<1>11. Nat \subseteq T
  <2>1. 0 \in T
    BY <1>10
  <2>2. ASSUME NEW k \in Nat, k \in T PROVE k + 1 \in T
    BY <1>10, <2>2
  <2> HIDE DEF T
  <2> QED BY <2>1, <2>2, Induction
<1>12. h \in [0..n -> S]
  <2>1. \A k \in 0..n : h[k] \in S
    BY <1>11
  <2>2. h = [k \in 0..n |-> h[k]]
    BY <1>8
  <2> QED BY <2>1, <2>2
<1>13. UpdatedInTurn(h, S, b, q)
  BY <1>9, <1>10, <1>12 DEF UpdatedInTurn
<1> QED BY <1>13, Zenon

-----------------------------------------------------------------------------
(* The library.                                                            *)

\* A table holds the values of its function.
LEMMA TabledIs == \A f : Tabled(f) = f
  BY DEF Tabled

\* What is worked out of a scenario.
LEMMA MemoFields ==
    ASSUME NEW id \in Ids
    PROVE  /\ Memo[id].last = LastStep(Playback[id]) /\ Memo[id].frames = FramesOf(Ops[id])
           /\ Memo[id].targets = Targets(RunsOf(Playback[id]))
           /\ Memo[id].options = OptionSteps(EmuOps[id])
<1>1. Memo = [i \in Ids |-> MemoOf(Ops[i], Playback[i], EmuOps[i])]
  BY TabledIs DEF Memo
<1>2. Memo[id] = MemoOf(Ops[id], Playback[id], EmuOps[id])
  BY <1>1
<1> QED BY <1>2 DEF MemoOf

\* A chapter lies within its scenario.
ChaptersFit(runs, last) ==
    \A r \in DOMAIN runs : /\ runs[r].start \in Nat /\ runs[r].end \in Nat
                           /\ runs[r].start <= runs[r].end /\ runs[r].end <= last

\* One step more of the chapters of a scenario.
Extended(steps, runs, k) ==
    IF runs # <<>> /\ runs[Len(runs)].state = steps[k].after.state
    THEN [runs EXCEPT ![Len(runs)].end = k - 1]
    ELSE Append(runs, [state |-> steps[k].after.state, start |-> k - 1, end |-> k - 1])

ExtendedInTurn(f, S, steps) ==
    /\ f \in [0..Len(steps) -> S] /\ f[0] = <<>>
    /\ \A k \in 1..Len(steps) : f[k] = Extended(steps, f[k - 1], k)
    /\ RunsOf(steps) = f[Len(steps)]

\* The chapters are made one step after the other, from lists in S.
LEMMA ExtendedRun ==
    ASSUME NEW S, <<>> \in S, NEW steps, Len(steps) \in Nat,
           \A k \in 1..Len(steps) : \A s \in S : Extended(steps, s, k) \in S
    PROVE  \E f : ExtendedInTurn(f, S, steps)
<1> DEFINE n == Len(steps)
           none == <<>>
           seq == [k \in 1..n |-> k]
           G == [k \in 1..n |-> [s \in S |-> Extended(steps, s, k)]]
           Run(f) == f = [k \in 0..Len(seq) |->
                            IF k = 0 THEN <<>>
                            ELSE CHOOSE r \in {Extended(steps, soFar, seq[k]) : soFar \in {f[k - 1]}} : TRUE]
           h == CHOOSE f : Run(f)
<1>0. Len(seq) = n /\ \A k \in 1..n : seq[k] = k
  OBVIOUS
<1>1. G \in [1..n -> [S -> S]]
  OBVIOUS
<1>2. PICK f \in [0..n -> S] : Chain(f, none, G, n)
  <2> HIDE DEF G
  <2>1. n \in 0..n
    OBVIOUS
  <2> QED BY <1>1, <2>1, ChainExists
<1>3. \A s, k : (CHOOSE r \in {Extended(steps, soFar, k) : soFar \in {s}} : TRUE) = Extended(steps, s, k)
  OBVIOUS
<1>4. \A k \in 1..n : f[k - 1] \in S
  OBVIOUS
<1>5. \A k \in 0..n : f[k] = IF k = 0 THEN <<>> ELSE Extended(steps, f[k - 1], k)
  <2>1. \A k \in 0..n : f[k] = IF k = 0 THEN <<>> ELSE G[k][f[k - 1]]
    <3> HIDE DEF G
    <3> QED BY <1>2 DEF Chain
  <2>2. \A k \in 1..n : \A s \in S : G[k][s] = Extended(steps, s, k)
    OBVIOUS
  <2> HIDE DEF G
  <2>3. ASSUME NEW k \in 0..n, k # 0 PROVE f[k] = Extended(steps, f[k - 1], k)
    <3>1. k \in 1..n
      BY <2>3
    <3>2. f[k - 1] \in S
      BY <1>4, <3>1
    <3>3. f[k] = G[k][f[k - 1]]
      BY <2>1, <2>3
    <3>4. \A s \in S : G[k][s] = Extended(steps, s, k)
      BY <2>2, <3>1
    <3>5. G[k][f[k - 1]] = Extended(steps, f[k - 1], k)
      BY <3>2, <3>4, Zenon
    <3> QED BY <3>3, <3>5, Zenon
  <2>4. f[0] = <<>>
    <3>1. 0 \in 0..n
      OBVIOUS
    <3> QED BY <2>1, <3>1, Zenon
  <2> QED BY <2>3, <2>4
<1>6. \A g : Run(g) <=> g = [k \in 0..n |-> IF k = 0 THEN <<>> ELSE Extended(steps, g[k - 1], k)]
  <2> HIDE DEF G
  <2>1. ASSUME NEW g
        PROVE  [k \in 0..Len(seq) |->
                  IF k = 0 THEN <<>>
                  ELSE CHOOSE r \in {Extended(steps, soFar, seq[k]) : soFar \in {g[k - 1]}} : TRUE]
               = [k \in 0..n |-> IF k = 0 THEN <<>> ELSE Extended(steps, g[k - 1], k)]
    <3> HIDE DEF seq, n
    <3>1. ASSUME NEW k \in 0..n, k # 0
          PROVE  (CHOOSE r \in {Extended(steps, soFar, seq[k]) : soFar \in {g[k - 1]}} : TRUE)
                 = Extended(steps, g[k - 1], k)
      <4>1. seq[k] = k
        BY <1>0, <3>1 DEF n
      <4> QED BY <1>3, <4>1
    <3> QED BY <1>0, <3>1
  <2> HIDE DEF seq, n
  <2> QED BY <2>1, Zenon
<1>7. Run(f)
  <2>1. f = [k \in 0..n |-> f[k]]
    OBVIOUS
  <2>2. f = [k \in 0..n |-> IF k = 0 THEN <<>> ELSE Extended(steps, f[k - 1], k)]
    BY <1>5, <2>1
  <2> HIDE DEF Run
  <2> QED BY <1>6, <2>2
<1>8. Run(h)
  <2> HIDE DEF Run
  <2> QED BY <1>7, Zenon
<1>9. RunsOf(steps) = h[Len(seq)]
  BY Zenon DEF RunsOf, Folded, Extended
<1> HIDE DEF h, Run
<1>10. h = [k \in 0..n |-> IF k = 0 THEN <<>> ELSE Extended(steps, h[k - 1], k)]
  BY <1>6, <1>8, Zenon
<1>11. h[0] = <<>> /\ \A k \in 1..n : h[k] = Extended(steps, h[k - 1], k)
  BY <1>10
<1> DEFINE T == {k \in Nat : k \in 0..n => h[k] \in S}
<1>12. Nat \subseteq T
  <2>1. 0 \in T
    BY <1>11
  <2>2. ASSUME NEW k \in Nat, k \in T PROVE k + 1 \in T
    BY <1>11, <2>2
  <2> HIDE DEF T
  <2> QED BY <2>1, <2>2, Induction
<1>13. h \in [0..n -> S]
  <2>1. \A k \in 0..n : h[k] \in S
    BY <1>12
  <2>2. h = [k \in 0..n |-> h[k]]
    BY <1>10
  <2> QED BY <2>1, <2>2
<1>14. RunsOf(steps) = h[n]
  BY <1>0, <1>9, Zenon
<1>15. ExtendedInTurn(h, S, steps)
  BY <1>11, <1>13, <1>14 DEF ExtendedInTurn
<1> QED BY <1>15, Zenon

\* The chapters of a list of steps lie within it.
LEMMA ChaptersAreInRange ==
    ASSUME NEW steps, Len(steps) \in Nat
    PROVE  ChaptersFit(RunsOf(steps), LastStep(steps))
<1> DEFINE n == Len(steps)
           R == [state : {steps[k].after.state : k \in 1..n}, start : Nat, end : Nat]
           S == Seq(R)
<1>1. ASSUME NEW k \in 1..n, NEW runs \in S
      PROVE  /\ Extended(steps, runs, k) \in S
             /\ ChaptersFit(runs, k - 2) => ChaptersFit(Extended(steps, runs, k), k - 1)
  <2> DEFINE L == Len(runs)
             new == [state |-> steps[k].after.state, start |-> k - 1, end |-> k - 1]
             more == Append(runs, new)
             last == [runs[L] EXCEPT !.end = k - 1]
             longer == [runs EXCEPT ![L] = last]
  <2>1. L \in Nat /\ DOMAIN runs = 1..L /\ (runs # <<>> => L \in 1..L)
    OBVIOUS
  <2>2. new \in R /\ new.start = k - 1 /\ new.end = k - 1 /\ k - 1 \in Nat
    OBVIOUS
  <2>3. Extended(steps, runs, k) = more \/ (L \in 1..L /\ Extended(steps, runs, k) = longer)
    BY <2>1 DEF Extended
  <2> HIDE DEF new
  <2>4. /\ more \in Seq(R) /\ DOMAIN more = 1..(L + 1) /\ more[L + 1] = new
        /\ \A r \in 1..L : more[r] = runs[r]
    <3> HIDE DEF R
    <3> QED BY <2>1, <2>2
  <2>5. ChaptersFit(runs, k - 2) => ChaptersFit(more, k - 1)
    <3> HIDE DEF more, R, S
    <3>1. \A r \in 1..(L + 1) : r = L + 1 \/ r \in 1..L
      BY <2>1
    <3> QED BY <2>1, <2>2, <2>4, <3>1 DEF ChaptersFit
  <2>6. ASSUME L \in 1..L
        PROVE  /\ last \in R /\ last.start = runs[L].start /\ last.end = k - 1
    <3>1. runs[L] \in R
      <4> HIDE DEF R, L
      <4> QED BY <2>1, <2>6
    <3> HIDE DEF L
    <3> QED BY <2>2, <3>1
  <2>7. ASSUME L \in 1..L
        PROVE  /\ longer \in Seq(R) /\ DOMAIN longer = 1..L /\ longer[L] = last
               /\ \A r \in 1..L : r # L => longer[r] = runs[r]
    <3> HIDE DEF last, R
    <3>1. /\ longer \in Seq(R) /\ Len(longer) = L
          /\ \A r \in 1..L : longer[r] = IF r = L THEN last ELSE runs[r]
      BY <2>6, <2>7, ExceptSeq
    <3> HIDE DEF longer, L
    <3> QED BY <2>1, <2>7, <3>1
  <2>8. ASSUME L \in 1..L
        PROVE  ChaptersFit(runs, k - 2) => ChaptersFit(longer, k - 1)
    <3> HIDE DEF longer, last, R, S, L
    <3> SUFFICES ASSUME ChaptersFit(runs, k - 2), NEW r \in 1..L
                 PROVE  /\ longer[r].start \in Nat /\ longer[r].end \in Nat
                        /\ longer[r].start <= longer[r].end /\ longer[r].end <= k - 1
      BY <2>7, <2>8 DEF ChaptersFit
    <3>1. /\ runs[r].start \in Nat /\ runs[r].end \in Nat
          /\ runs[r].start <= runs[r].end /\ runs[r].end <= k - 2
      BY <2>1 DEF ChaptersFit
    <3>2. CASE r = L
      BY <2>2, <2>6, <2>7, <2>8, <3>1, <3>2
    <3>3. CASE r # L
      BY <2>2, <2>7, <2>8, <3>1, <3>3
    <3> QED BY <3>2, <3>3
  <2> HIDE DEF more, longer, R
  <2> QED BY <2>3, <2>4, <2>5, <2>7, <2>8
<1>2. <<>> \in S
  OBVIOUS
<1> HIDE DEF S
<1>3. PICK f : ExtendedInTurn(f, S, steps)
  BY <1>1, <1>2, ExtendedRun
<1>4. /\ f \in [0..n -> S] /\ f[0] = <<>>
      /\ \A k \in 1..n : f[k] = Extended(steps, f[k - 1], k)
      /\ RunsOf(steps) = f[n]
  BY <1>3 DEF ExtendedInTurn
<1> DEFINE T == {k \in Nat : k \in 0..n => ChaptersFit(f[k], k - 1)}
<1>5. 0 \in T
  BY <1>4 DEF ChaptersFit
<1>6. ASSUME NEW k \in Nat, k \in T PROVE k + 1 \in T
  <2> SUFFICES ASSUME k + 1 \in 0..n PROVE ChaptersFit(f[k + 1], k)
    OBVIOUS
  <2>1. k \in 0..n /\ k + 1 \in 1..n /\ (k + 1) - 1 = k /\ (k + 1) - 2 = k - 1
    OBVIOUS
  <2>2. ChaptersFit(f[k], k - 1) /\ f[k] \in S
    BY <1>4, <1>6, <2>1
  <2>3. f[k + 1] = Extended(steps, f[k], k + 1)
    BY <1>4, <2>1
  <2>4. ChaptersFit(f[k], (k + 1) - 2)
    BY <2>1, <2>2
  <2>5. ChaptersFit(Extended(steps, f[k], k + 1), (k + 1) - 1)
    BY <1>1, <2>1, <2>2, <2>4
  <2> QED BY <2>1, <2>3, <2>5
<1> HIDE DEF T
<1>7. Nat \subseteq T
  BY <1>5, <1>6, Induction
<1>8. ChaptersFit(f[n], n - 1)
  BY <1>7 DEF T
<1> QED BY <1>4, <1>8 DEF LastStep

\* A position in a chapter is a step of it.
LEMMA StepInChapter ==
    ASSUME NEW chapter, chapter.start \in Nat, chapter.end \in Nat,
           chapter.start <= chapter.end, NEW position \in Nat, position < 10000
    PROVE  StepAt(chapter, position) \in Nat /\ StepAt(chapter, position) <= chapter.end
<1> DEFINE start == chapter.start
           end == chapter.end
           len == end - start + 1
           x == position * len
           q == x \div 10000
<1>1. len \in Nat /\ len >= 1
  OBVIOUS
<1>1a. start \in Nat /\ end \in Nat
  OBVIOUS
<1>1b. StepAt(chapter, position) = start + q
  BY DEF StepAt
<1> HIDE DEF len, start, end
<1>2. x \in Nat /\ x <= 9999 * len
  BY <1>1
<1> HIDE DEF x
<1>3. x < 10000 * len
  BY <1>1, <1>2
<1>4. q \in Nat /\ 10000 * q <= x
  BY <1>2
<1> HIDE DEF q
<1>5. q < len
  BY <1>1, <1>2, <1>3, <1>4
<1>6. start + q \in Nat /\ start + q <= end
  BY <1>1a, <1>4, <1>5 DEF len
<1> QED BY <1>1b, <1>6 DEF end

\* The library is sound: a scenario has a step, and what may be jumped to is one.
MemoFits == \A id \in Ids : /\ Memo[id].last \in Nat
                            /\ Memo[id].targets \subseteq 0..Memo[id].last
                            /\ Memo[id].options \subseteq 0..Memo[id].last

\* It is, by what is assumed of the fixed library and of positions.
LEMMA LibraryFits == MemoFits
<1> SUFFICES ASSUME NEW id \in Ids
             PROVE  /\ Memo[id].last \in Nat
                    /\ Memo[id].targets \subseteq 0..Memo[id].last
                    /\ Memo[id].options \subseteq 0..Memo[id].last
  BY DEF MemoFits
<1> DEFINE steps == Playback[id]
           last == LastStep(steps)
           runs == RunsOf(steps)
<1>1. last \in Nat /\ OptionSteps(EmuOps[id]) \subseteq 0..last
  BY LibraryAssumption DEF LastStep
<1>2. ChaptersFit(runs, last)
  BY LibraryAssumption, ChaptersAreInRange
<1> HIDE DEF steps, last, runs
<1>3. Targets(runs) \subseteq 0..last
  <2> SUFFICES ASSUME NEW r \in DOMAIN runs, NEW position \in Positions
               PROVE  StepAt(runs[r], position) \in 0..last
    BY DEF Targets
  <2> DEFINE chapter == runs[r]
  <2>1. /\ chapter.start \in Nat /\ chapter.end \in Nat /\ chapter.end <= last
        /\ chapter.start <= chapter.end /\ position \in Nat /\ position < 10000
    BY <1>2, PositionsAssumption DEF ChaptersFit
  <2> HIDE DEF chapter
  <2>3. StepAt(chapter, position) \in Nat /\ StepAt(chapter, position) <= chapter.end
    BY <2>1, StepInChapter
  <2> QED BY <1>1, <2>1, <2>3 DEF chapter
<1>4. /\ Memo[id].last = last /\ Memo[id].targets = Targets(runs)
      /\ Memo[id].options = OptionSteps(EmuOps[id])
  BY MemoFields DEF last, runs, steps
<1> QED BY <1>1, <1>3, <1>4

-----------------------------------------------------------------------------
(* Rendering and effects of the station page.                              *)

\* What effects and updates leave alone.
SameScenario(p, r) ==
    /\ r.id = p.id /\ r.memo = p.memo /\ r.tab = p.tab /\ r.corrupted = p.corrupted
    /\ r.inspected = p.inspected /\ r.held = p.held

\* What the timer effect depends on.
LEMMA DepsFields ==
    ASSUME NEW p
    PROVE  /\ Deps(p).isPlaying = IsPlaying(p) /\ Deps(p).index = p.index
           /\ Deps(p).last = p.memo.last
  BY DEF Deps

\* Effects note what they ran with, and set the timer if that is new.
LEMMA EffectsFields ==
    ASSUME NEW p \in Pages, p.memo.last \in Nat
    PROVE  LET r == WithEffects(p)
           IN  /\ r \in Pages /\ SameScenario(p, r)
               /\ r.playing = p.playing /\ r.index = p.index /\ r.queue = p.queue
               /\ r.eff = Deps(p)
               /\ r.timer = IF p.eff = Deps(p) THEN p.timer ELSE IsPlaying(p)
<1>1. IsPlaying(p) \in BOOLEAN
  BY DEF IsPlaying, Pages
<1>2. Deps(p) \in [isPlaying : BOOLEAN, index : Nat, last : Nat]
  BY <1>1 DEF Deps, Pages
<1> DEFINE d == Deps(p)
           b == IsPlaying(p)
<1> HIDE DEF d, b
<1>3. CASE p.eff = d
  BY <1>3 DEF WithEffects, SameScenario, d
<1>4. CASE p.eff # d
  <2>1. WithEffects(p) = [p EXCEPT !.eff = d, !.timer = b]
    BY <1>4 DEF WithEffects, d, b
  <2>2. b \in BOOLEAN /\ d \in [isPlaying : BOOLEAN, index : Nat, last : Nat]
    BY <1>1, <1>2 DEF b, d
  <2> DEFINE r == [p EXCEPT !.eff = d, !.timer = b]
  <2>3. r \in Pages
    BY <2>2 DEF Pages
  <2>4. /\ SameScenario(p, r) /\ r.playing = p.playing /\ r.index = p.index
        /\ r.queue = p.queue /\ r.eff = d /\ r.timer = b
    BY DEF Pages, SameScenario
  <2> HIDE DEF r
  <2> QED BY <1>4, <2>1, <2>3, <2>4 DEF d, b, r
<1> QED BY <1>3, <1>4

\* An update moves the step shown; a jump stops the page too.
LEMMA AppliedFields ==
    ASSUME NEW p \in Pages, NEW u \in Updates
    PROVE  LET r == Applied(p, u)
           IN  /\ r \in Pages /\ SameScenario(p, r)
               /\ r.queue = p.queue /\ r.eff = p.eff /\ r.timer = p.timer
               /\ u.do = "advance" => r.playing = p.playing /\ r.index = Lesser(p.index + 1, u.to)
               /\ u.do = "jump" => r.playing = FALSE /\ r.index = u.to
<1>1. u.do \in {"advance", "jump"} /\ u.to \in Nat /\ p.index \in Nat
  BY DEF Updates, Pages
<1>2. CASE u.do = "advance"
  <2> DEFINE n == Lesser(p.index + 1, u.to)
             r == [p EXCEPT !.index = n]
  <2>1. Applied(p, u) = r
    BY <1>2 DEF Applied
  <2>2. n \in Nat
    BY <1>1 DEF Lesser
  <2> HIDE DEF n
  <2>3. r \in Pages
    BY <2>2 DEF Pages
  <2>4. /\ SameScenario(p, r) /\ r.playing = p.playing /\ r.index = n
        /\ r.queue = p.queue /\ r.eff = p.eff /\ r.timer = p.timer
    BY DEF Pages, SameScenario
  <2> HIDE DEF r
  <2> QED BY <1>2, <2>1, <2>3, <2>4 DEF n
<1>3. CASE u.do = "jump"
  <2> DEFINE r == [p EXCEPT !.playing = FALSE, !.index = u.to]
  <2>1. Applied(p, u) = r
    BY <1>3 DEF Applied
  <2>3. r \in Pages
    BY <1>1 DEF Pages
  <2>4. /\ SameScenario(p, r) /\ r.playing = FALSE /\ r.index = u.to
        /\ r.queue = p.queue /\ r.eff = p.eff /\ r.timer = p.timer
    BY DEF Pages, SameScenario
  <2> HIDE DEF r
  <2> QED BY <1>3, <2>1, <2>3, <2>4
<1> QED BY <1>1, <1>2, <1>3

\* A render of a page: the updates applied, each for the scenario shown.  They
\* stop the page or take it forward, and a step that waited is taken.
LEMMA RenderedFields ==
    ASSUME MemoFits, NEW p, PageInv(p)
    PROVE  LET c == Rendered(p)
           IN  /\ ShownExists(c) /\ SameScenario(p, c) /\ c.queue = <<>> /\ c.eff = Deps(p)
               /\ c.timer = IF p.eff = Deps(p) THEN p.timer ELSE IsPlaying(p)
               /\ c.playing => p.playing /\ p.index <= c.index
               /\ c.playing /\ p.index < p.memo.last /\ Advances(p.queue) => p.index < c.index
<1> DEFINE last == p.memo.last
           q == p.queue
           b == WithEffects(p)
           t == IF p.eff = Deps(p) THEN p.timer ELSE IsPlaying(p)
           S == {s \in Pages : /\ SameScenario(p, s) /\ s.queue = q /\ s.eff = Deps(p)
                               /\ s.timer = t /\ s.index <= last}
<1>1. p \in Pages /\ last \in Nat /\ p.index \in Nat /\ p.index <= last /\ p.memo = Memo[p.id]
  BY DEF PageInv, ShownExists, MemoFits, Pages
<1>2. q \in Seq(Updates) /\ Len(q) \in Nat /\ DOMAIN q = 1..Len(q)
  BY <1>1 DEF Pages
<1>3. \A k \in 1..Len(q) : /\ q[k] \in Updates /\ q[k].to \in 0..last
                           /\ q[k].do = "advance" => q[k].to = last
  <2> SUFFICES ASSUME NEW k \in 1..Len(q)
               PROVE  /\ q[k] \in Updates /\ q[k].to \in 0..last
                      /\ q[k].do = "advance" => q[k].to = last
    OBVIOUS
  <2>1. q[k] \in Updates
    BY <1>2
  <2>2. q[k].to \in Nat
    BY <2>1 DEF Updates
  <2>3. q[k].to <= last /\ (q[k].do = "advance" => q[k].to = last)
    BY <1>2 DEF PageInv, QueueFits
  <2> QED BY <1>1, <2>1, <2>2, <2>3
<1>4. b \in S /\ b.playing = p.playing /\ b.index = p.index
  BY <1>1, EffectsFields
<1>5. \A k \in 1..Len(q) : \A s \in S :
        /\ Applied(s, q[k]) \in S
        /\ Applied(s, q[k]).playing => s.playing /\ s.index <= Applied(s, q[k]).index
        /\ Applied(s, q[k]).playing /\ q[k].do = "advance" =>
             (p.index < last /\ p.index <= s.index => p.index < Applied(s, q[k]).index)
  <2> SUFFICES ASSUME NEW k \in 1..Len(q), NEW s \in S
               PROVE  LET r == Applied(s, q[k])
                      IN  /\ r \in S /\ (r.playing => s.playing /\ s.index <= r.index)
                          /\ r.playing /\ q[k].do = "advance" =>
                               (p.index < last /\ p.index <= s.index => p.index < r.index)
    OBVIOUS
  <2> DEFINE u == q[k]
             r == Applied(s, u)
  <2>1. u \in Updates /\ u.to \in 0..last /\ (u.do = "advance" => u.to = last)
    BY <1>3
  <2>2. /\ s \in Pages /\ SameScenario(p, s) /\ s.queue = q /\ s.eff = Deps(p)
        /\ s.timer = t /\ s.index <= last /\ s.index \in Nat
    BY DEF Pages
  <2>3. /\ r \in Pages /\ SameScenario(s, r)
        /\ r.queue = s.queue /\ r.eff = s.eff /\ r.timer = s.timer
        /\ u.do = "advance" => r.playing = s.playing /\ r.index = Lesser(s.index + 1, u.to)
        /\ u.do = "jump" => r.playing = FALSE /\ r.index = u.to
    BY <2>1, <2>2, AppliedFields
  <2>4. u.do \in {"advance", "jump"}
    BY <2>1 DEF Updates
  <2> HIDE DEF u, r, t, q, last
  <2>5. SameScenario(p, r)
    BY <2>2, <2>3 DEF SameScenario
  <2>6. r.index <= last /\ (r.playing => s.playing /\ s.index <= r.index)
    BY <1>1, <2>1, <2>2, <2>3, <2>4 DEF Lesser
  <2>7. r.playing /\ u.do = "advance" =>
          (p.index < last /\ p.index <= s.index => p.index < r.index)
    BY <1>1, <2>1, <2>2, <2>3 DEF Lesser
  <2>8. r \in S
    BY <2>2, <2>3, <2>5, <2>6
  <2> HIDE DEF S
  <2> QED BY <2>6, <2>7, <2>8 DEF u, r
<1> HIDE DEF S
<1>6a. PICK f : AppliedInTurn(f, S, b, q)
  <2> HIDE DEF q, b
  <2>1. \A k \in 1..Len(q) : \A s \in S : Applied(s, q[k]) \in S
    BY <1>5
  <2>2. Len(q) \in Nat /\ b \in S
    BY <1>2, <1>4
  <2> QED BY <2>1, <2>2, AppliedRun
<1>6. /\ f \in [0..Len(q) -> S] /\ f[0] = b
      /\ \A k \in 1..Len(q) : f[k] = Applied(f[k - 1], q[k])
      /\ AllApplied(b, q) = f[Len(q)]
  BY <1>6a DEF AppliedInTurn
<1> DEFINE G(k) == /\ f[k].playing => p.playing /\ p.index <= f[k].index
                   /\ f[k].playing /\ p.index < last /\ (\E j \in 1..k : q[j].do = "advance") =>
                        p.index < f[k].index
           T == {k \in Nat : k \in 0..Len(q) => G(k)}
<1> HIDE DEF q, b, last
<1>7. \A s \in S : s.index \in Nat
  BY DEF S, Pages
<1>8. 0 \in T
  BY <1>1, <1>4, <1>6
<1>9. ASSUME NEW k \in Nat, k \in T PROVE k + 1 \in T
  <2> SUFFICES ASSUME k + 1 \in 0..Len(q) PROVE G(k + 1)
    OBVIOUS
  <2>1. k \in 0..Len(q) /\ k + 1 \in 1..Len(q) /\ (k + 1) - 1 = k
    BY <1>2
  <2>2. G(k)
    BY <1>9, <2>1
  <2> DEFINE s == f[k]
             r == f[k + 1]
  <2>3. s \in S /\ r \in S /\ r = Applied(s, q[k + 1])
    BY <1>6, <2>1
  <2>4. /\ r.playing => s.playing /\ s.index <= r.index
        /\ r.playing /\ q[k + 1].do = "advance" =>
             (p.index < last /\ p.index <= s.index => p.index < r.index)
    BY <1>5, <2>1, <2>3
  <2>5. s.index \in Nat /\ r.index \in Nat
    BY <1>7, <2>3
  <2>6. (\E j \in 1..(k + 1) : q[j].do = "advance") =>
          q[k + 1].do = "advance" \/ \E j \in 1..k : q[j].do = "advance"
    OBVIOUS
  <2> HIDE DEF s, r
  <2>7. /\ s.playing => p.playing /\ p.index <= s.index
        /\ s.playing /\ p.index < last /\ (\E j \in 1..k : q[j].do = "advance") =>
             p.index < s.index
    BY <2>2 DEF s
  <2>8. /\ r.playing => p.playing /\ p.index <= r.index
        /\ r.playing /\ p.index < last /\ (\E j \in 1..(k + 1) : q[j].do = "advance") =>
             p.index < r.index
    BY <1>1, <2>4, <2>5, <2>6, <2>7
  <2> QED BY <2>8 DEF r
<1> HIDE DEF T
<1>10. Nat \subseteq T
  BY <1>8, <1>9, Induction
<1>11. G(Len(q))
  BY <1>2, <1>10 DEF T
<1> DEFINE e == f[Len(q)]
           c == [e EXCEPT !.queue = <<>>]
<1>12. Rendered(p) = c
  <2>1. Rendered(p) = [AllApplied(b, q) EXCEPT !.queue = <<>>]
    BY Zenon DEF Rendered, AllApplied, q, b
  <2> QED BY <1>6, <2>1
<1>13. e \in S
  BY <1>2, <1>6
<1>14. Advances(p.queue) => \E j \in 1..Len(q) : q[j].do = "advance"
  BY <1>2 DEF Advances, q
<1> HIDE DEF e
<1>15. /\ e \in Pages /\ SameScenario(p, e) /\ e.eff = Deps(p) /\ e.timer = t /\ e.index <= last
  BY <1>13 DEF S
<1>16. c \in Pages /\ c.queue = <<>>
  <2> DEFINE none == <<>>
  <2>1. none \in Seq(Updates)
    OBVIOUS
  <2>2. c = [e EXCEPT !.queue = none]
    OBVIOUS
  <2> HIDE DEF none, c
  <2>3. c \in Pages /\ c.queue = none
    BY <1>15, <2>1, <2>2 DEF Pages
  <2> QED BY <2>3 DEF none
<1>17. /\ SameScenario(p, c) /\ c.eff = Deps(p) /\ c.timer = t /\ c.index = e.index
       /\ c.playing = e.playing
  BY <1>15 DEF Pages, SameScenario
<1> HIDE DEF c
<1>18. ShownExists(c)
  BY <1>15, <1>16, <1>17, <1>1 DEF ShownExists, PageInv, SameScenario, last
<1>19. /\ e.playing => p.playing /\ p.index <= e.index
       /\ e.playing /\ p.index < last /\ Advances(p.queue) => p.index < e.index
  BY <1>11, <1>14 DEF e
<1> QED BY <1>12, <1>16, <1>17, <1>18, <1>19 DEF last

\* What a discrete event makes of the rendered page `c` of `p`: its update
\* leaves what effects set to them, and if it undoes a step it stops the page
\* or goes to the first step.
Handled(p, c, d) ==
    /\ ShownExists(d) /\ d.queue = <<>> /\ d.eff = c.eff /\ d.timer = c.timer
    /\ Deps(d) = Deps(p) /\ p.eff = Deps(p) /\ IsPlaying(p) =>
         d.index = 0 \/ (c.playing /\ c.index = d.index)

\* The page that a discrete event leaves.
LEMMA EventKeepsPage ==
    ASSUME MemoFits, NEW p, PageInv(p), NEW d, Handled(p, Rendered(p), d)
    PROVE  PageInv(WithEffects(d))
<1> DEFINE c == Rendered(p)
           r == WithEffects(d)
<1>1. /\ c.eff = Deps(p)
      /\ c.timer = IF p.eff = Deps(p) THEN p.timer ELSE IsPlaying(p)
      /\ c.playing /\ p.index < p.memo.last /\ Advances(p.queue) => p.index < c.index
  BY RenderedFields
<1>2. /\ ShownExists(d) /\ d.queue = <<>> /\ d.eff = c.eff /\ d.timer = c.timer
      /\ Deps(d) = Deps(p) /\ p.eff = Deps(p) /\ IsPlaying(p) =>
           d.index = 0 \/ (c.playing /\ c.index = d.index)
  BY DEF Handled
<1>3. d \in Pages /\ d.memo.last \in Nat
  BY <1>2 DEF ShownExists, MemoFits, Pages
<1>4. /\ r \in Pages /\ SameScenario(d, r)
      /\ r.playing = d.playing /\ r.index = d.index /\ r.queue = d.queue
      /\ r.eff = Deps(d)
      /\ r.timer = IF d.eff = Deps(d) THEN d.timer ELSE IsPlaying(d)
  BY <1>3, EffectsFields
<1> HIDE DEF r, c
<1>5. ShownExists(r)
  BY <1>2, <1>4 DEF ShownExists, SameScenario
<1>6. r.eff.last = r.memo.last
  BY <1>4, DepsFields DEF SameScenario
<1>7. DOMAIN r.queue = {}
  BY <1>2, <1>4
<1>8. IsPlaying(r) = IsPlaying(d)
  BY <1>4 DEF IsPlaying, SameScenario
<1>9. ASSUME IsPlaying(r), ~r.timer PROVE r.index = 0
  <2>1. d.eff = Deps(d) /\ ~d.timer
    BY <1>4, <1>8, <1>9
  <2>2. Deps(d) = Deps(p)
    BY <1>1, <1>2, <2>1
  <2>3. IsPlaying(p) /\ d.index = p.index
    BY <1>8, <1>9, <2>2, DepsFields
  <2>4. p.eff = Deps(p) /\ ~p.timer
    BY <1>1, <1>2, <2>1, <2>3
  <2>5. CASE p.index = 0
    BY <1>4, <2>3, <2>5
  <2>6. CASE Advances(p.queue)
    <3>1. p.index < p.memo.last
      BY <2>3 DEF IsPlaying
    <3>2. p.index \in Nat
      BY DEF PageInv, ShownExists, Pages
    <3>3. d.index = 0 \/ (p.index < c.index /\ c.index = d.index)
      BY <1>1, <1>2, <2>2, <2>3, <2>4, <2>6, <3>1
    <3> QED BY <1>4, <2>3, <3>2, <3>3
  <2> QED BY <2>3, <2>4, <2>5, <2>6 DEF PageInv, KeepsGoing
<1> QED BY <1>5, <1>6, <1>7, <1>9 DEF PageInv, QueueFits, KeepsGoing, r

\* An event that changes nothing the timer depends on.
LEMMA OtherEvent ==
    ASSUME MemoFits, NEW p, PageInv(p), NEW d, ShownExists(d), d.queue = <<>>,
           d.eff = Rendered(p).eff, d.timer = Rendered(p).timer,
           d.playing = Rendered(p).playing, d.index = Rendered(p).index
    PROVE  PageInv(WithEffects(d))
<1>1. ASSUME Deps(d) = Deps(p), IsPlaying(p) PROVE Rendered(p).playing
  <2>1. IsPlaying(d)
    BY <1>1, DepsFields
  <2> QED BY <2>1 DEF IsPlaying
<1>2. Handled(p, Rendered(p), d)
  BY <1>1 DEF Handled
<1> QED BY <1>2, EventKeepsPage

\* An event that pauses at a step of the scenario, or stops the page.
LEMMA PausingEvent ==
    ASSUME MemoFits, NEW p, PageInv(p), NEW to \in Nat, to <= p.memo.last
    PROVE  PageInv(WithEffects(Jumped(Rendered(p), to)))
<1> DEFINE c == Rendered(p)
           d == Jumped(c, to)
<1>1. ShownExists(c) /\ SameScenario(p, c) /\ c.queue = <<>>
  BY RenderedFields
<1> HIDE DEF c
<1>2. c \in Pages
  BY <1>1 DEF ShownExists
<1>3. /\ d \in Pages /\ SameScenario(c, d) /\ d.queue = c.queue /\ d.eff = c.eff
      /\ d.timer = c.timer /\ d.playing = FALSE /\ d.index = to
  BY <1>2 DEF Jumped, Pages, SameScenario
<1> HIDE DEF d
<1>4. ShownExists(d)
  BY <1>1, <1>3 DEF ShownExists, SameScenario
<1>5. ~IsPlaying(d)
  BY <1>3 DEF IsPlaying
<1>6. Handled(p, c, d)
  BY <1>1, <1>3, <1>4, <1>5, DepsFields DEF Handled
<1> QED BY <1>6, EventKeepsPage DEF c, d

\* Playing is toggled by a closure that saw the page or what its listener saw.
LEMMA ToggleKeepsPage ==
    ASSUME MemoFits, NEW p, PageInv(p), NEW seen, seen \in {p.eff, Deps(p)}
    PROVE  PageInv(WithEffects(Toggled(Rendered(p), seen)))
<1> DEFINE c == Rendered(p)
           d == Toggled(c, seen)
<1>1. /\ ShownExists(c) /\ SameScenario(p, c) /\ c.queue = <<>> /\ c.eff = Deps(p)
      /\ c.timer = IF p.eff = Deps(p) THEN p.timer ELSE IsPlaying(p)
  BY RenderedFields
<1> HIDE DEF c
<1>2. c \in Pages
  BY <1>1 DEF ShownExists
<1> DEFINE n == IF seen.index >= seen.last THEN 0 ELSE c.index
<1>2a. n \in Nat /\ n <= c.index
  BY <1>2 DEF Pages
<1>3. /\ d \in Pages /\ SameScenario(c, d) /\ d.queue = c.queue /\ d.eff = c.eff
      /\ d.timer = c.timer /\ d.playing = ~seen.isPlaying
      /\ d.index = IF seen.isPlaying THEN c.index ELSE n
  <2>1. CASE seen.isPlaying
    <3>1. d = [c EXCEPT !.playing = FALSE]
      BY <2>1 DEF Toggled
    <3> HIDE DEF d, n
    <3> QED BY <2>1, <3>1, <1>2 DEF Pages, SameScenario
  <2>2. CASE ~seen.isPlaying
    <3>1. d = [c EXCEPT !.playing = TRUE, !.index = n]
      BY <2>2 DEF Toggled
    <3> HIDE DEF d, n
    <3> QED BY <2>2, <3>1, <1>2, <1>2a DEF Pages, SameScenario
  <2> QED BY <2>1, <2>2
<1> HIDE DEF d, n
<1>4. ShownExists(d)
  <2>1. d.index <= c.index /\ d.index \in Nat /\ c.index \in Nat
    BY <1>2, <1>2a, <1>3 DEF Pages
  <2>2. c.index <= d.memo.last
    BY <1>1, <1>3 DEF ShownExists, SameScenario
  <2>3. d.memo.last \in Nat
    BY <1>1, <1>3 DEF ShownExists, SameScenario, MemoFits, Pages
  <2>4. d.index <= d.memo.last
    BY <2>1, <2>2, <2>3
  <2> QED BY <1>1, <1>3, <2>4 DEF ShownExists, SameScenario
<1>5. ~(Deps(d) = Deps(p) /\ IsPlaying(p) /\ p.eff = Deps(p))
  <2> SUFFICES ASSUME Deps(d) = Deps(p), IsPlaying(p), p.eff = Deps(p) PROVE FALSE
    OBVIOUS
  <2>1. seen.isPlaying
    BY DepsFields
  <2>2. ~IsPlaying(d)
    BY <1>3, <2>1 DEF IsPlaying
  <2> QED BY <2>2, DepsFields
<1>6. Handled(p, c, d)
  BY <1>1, <1>3, <1>4, <1>5 DEF Handled
<1> QED BY <1>6, EventKeepsPage DEF c, d

\* Another scenario starts at its first step.
LEMMA SelectKeepsPage ==
    ASSUME MemoFits, NEW p, PageInv(p), NEW id \in Ids, NEW reduced \in BOOLEAN
    PROVE  PageInv(WithEffects(Selected(Rendered(p), id, reduced)))
<1> DEFINE c == Rendered(p)
           d == Selected(c, id, reduced)
           m == Memo[id]
           none == {}
<1>1. ShownExists(c) /\ c.queue = <<>>
  BY RenderedFields
<1> HIDE DEF c
<1>2. c \in Pages
  BY <1>1 DEF ShownExists
<1>3. m \in {Memo[i] : i \in Ids} /\ none \in SUBSET AllFrames
  OBVIOUS
<1>4. d = [c EXCEPT !.id = id, !.memo = m, !.index = 0, !.corrupted = none,
                    !.inspected = NoFrame, !.playing = ~reduced]
  BY DEF Selected
<1>5. m.last \in Nat
  BY DEF MemoFits
<1> HIDE DEF d, m, none
<1>6. d \in Pages
  BY <1>2, <1>3, <1>4 DEF Pages
<1>7. /\ d.id = id /\ d.memo = m /\ d.index = 0 /\ d.corrupted = none /\ d.inspected = NoFrame
      /\ d.queue = c.queue /\ d.eff = c.eff /\ d.timer = c.timer
  BY <1>2, <1>4 DEF Pages
<1>8. ShownExists(d)
  BY <1>5, <1>6, <1>7 DEF ShownExists, m, none
<1>9. Handled(p, c, d)
  BY <1>1, <1>7, <1>8 DEF Handled
<1> QED BY <1>9, EventKeepsPage DEF c, d

\* A page as it is mounted.
LEMMA OpenedPage ==
    ASSUME MemoFits, NEW id \in Ids, NEW step \in Int, NEW reduced \in BOOLEAN
    PROVE  PageInv(OpenPage(id, step, reduced))
<1> DEFINE m == Memo[id]
           b == step = NoStep /\ ~reduced
           n == Lesser(Greater(step, 0), m.last)
           none == {}
           queue == <<>>
           u == [id |-> id, memo |-> m, playing |-> b, index |-> n,
                 tab |-> "closed", corrupted |-> none, inspected |-> NoFrame,
                 held |-> FALSE, queue |-> queue, eff |-> "none", timer |-> FALSE]
           e == Deps(u)
           t == IsPlaying(u)
           p == [u EXCEPT !.eff = e, !.timer = t]
<1>1. OpenPage(id, step, reduced) = p
  BY DEF OpenPage
<1>2. m \in {Memo[i] : i \in Ids} /\ none \in SUBSET AllFrames /\ m.last \in Nat
  BY DEF MemoFits
<1>3. n \in Nat /\ n <= m.last /\ b \in BOOLEAN
  BY <1>2 DEF Lesser, Greater
<1>4. queue \in Seq(Updates) /\ DOMAIN queue = {}
  OBVIOUS
<1> HIDE DEF m, b, n, none, queue
<1>5. (t <=> b /\ n < m.last) /\ t \in BOOLEAN
  BY <1>3 DEF IsPlaying
<1>5a. e = [isPlaying |-> t, index |-> n, last |-> m.last]
  BY DEF Deps
<1> HIDE DEF t
<1>6. e \in [isPlaying : BOOLEAN, index : Nat, last : Nat]
  BY <1>2, <1>3, <1>5, <1>5a DEF m
<1> HIDE DEF t, e
<1> DEFINE Blank == [id : Ids, memo : {Memo[i] : i \in Ids}, playing : BOOLEAN, index : Nat,
                     tab : {"closed"} \cup Opened, corrupted : SUBSET AllFrames,
                     inspected : AllFrames \cup {NoFrame}, held : BOOLEAN, queue : Seq(Updates),
                     eff : {"none"}, timer : BOOLEAN]
<1>7. /\ u \in Blank /\ u.id = id /\ u.memo = m /\ u.playing = b /\ u.index = n
      /\ u.corrupted = none /\ u.inspected = NoFrame /\ u.queue = queue
  BY <1>2, <1>3, <1>4 DEF m
<1> HIDE DEF u
<1>8. p \in Pages
  BY <1>5, <1>6, <1>7 DEF Pages
<1>9. /\ p.id = id /\ p.memo = m /\ p.playing = b /\ p.index = n
      /\ p.corrupted = none /\ p.inspected = NoFrame
      /\ p.queue = queue /\ p.eff = e /\ p.timer = t
  BY <1>7
<1> HIDE DEF p
<1>10. ShownExists(p)
  BY <1>3, <1>8, <1>9 DEF ShownExists, m, none
<1>11. IsPlaying(p) <=> t
  BY <1>5, <1>9 DEF IsPlaying
<1>12. p.eff.last = p.memo.last
  BY <1>5a, <1>9
<1> QED BY <1>1, <1>4, <1>9, <1>10, <1>11, <1>12 DEF PageInv, QueueFits, KeepsGoing

-----------------------------------------------------------------------------
(* The steps of the station page.                                          *)

\* The timer leaves a step in the queue.
LEMMA TimerKeepsPage == ASSUME PageInv(page), PageTimerFires PROVE PageInv(page')
<1> DEFINE u == [do |-> "advance", to |-> page.eff.last]
           q == Append(page.queue, u)
<1>1. page \in Pages /\ page.queue \in Seq(Updates) /\ page.eff.last \in Nat
  BY DEF PageInv, ShownExists, Pages
<1>2. u \in Updates /\ u.do = "advance" /\ u.to = page.memo.last
  BY <1>1 DEF Updates, PageInv
<1> HIDE DEF u
<1>3. q \in Seq(Updates) /\ DOMAIN q = 1..(Len(page.queue) + 1) /\ q[Len(page.queue) + 1] = u
  BY <1>1, <1>2
<1>4. \A k \in DOMAIN q : q[k] = u \/ (k \in DOMAIN page.queue /\ q[k] = page.queue[k])
  BY <1>1, <1>2
<1>4a. Advances(q)
  <2>1. Len(page.queue) + 1 \in DOMAIN q
    BY <1>1, <1>3
  <2> QED BY <1>2, <1>3, <2>1 DEF Advances
<1>5. page' = [page EXCEPT !.timer = FALSE, !.queue = q]
  BY <1>1 DEF PageTimerFires, u, Pages
<1> HIDE DEF q
<1>6. page' \in Pages
  BY <1>1, <1>3, <1>5 DEF Pages
<1>7. /\ SameScenario(page, page') /\ page'.index = page.index /\ page'.eff = page.eff
      /\ page'.queue = q
  BY <1>1, <1>5 DEF Pages, SameScenario
<1>8. ShownExists(page')
  BY <1>6, <1>7 DEF PageInv, ShownExists, SameScenario
<1>8a. page.memo.last <= page.memo.last
  BY <1>1 DEF PageInv
<1>9. QueueFits(q, page.memo.last)
  BY <1>2, <1>4, <1>8a DEF PageInv, QueueFits
<1> QED BY <1>4a, <1>7, <1>8, <1>9 DEF PageInv, KeepsGoing, SameScenario

\* A pointer that moves leaves a jump in the queue.
LEMMA ScrubKeepsPage ==
    ASSUME MemoFits, PageInv(page), NEW to \in page.memo.targets, Scrub(to)
    PROVE  PageInv(page')
<1> DEFINE u == [do |-> "jump", to |-> to]
           q == Append(page.queue, u)
<1>1. page \in Pages /\ page.queue \in Seq(Updates)
  BY DEF PageInv, ShownExists, Pages
<1>1a. to \in Nat /\ to <= page.memo.last
  BY <1>1 DEF PageInv, ShownExists, Pages, MemoFits
<1>2. u \in Updates /\ u.do = "jump" /\ u.to = to
  BY <1>1a DEF Updates
<1> HIDE DEF u
<1>3. q \in Seq(Updates)
  BY <1>1, <1>2
<1>4. \A k \in DOMAIN q : q[k] = u \/ (k \in DOMAIN page.queue /\ q[k] = page.queue[k])
  BY <1>1, <1>2
<1>4a. Advances(page.queue) => Advances(q)
  <2>1. \A k \in DOMAIN page.queue : k \in DOMAIN q /\ q[k] = page.queue[k]
    BY <1>1, <1>2
  <2> QED BY <2>1 DEF Advances
<1>5. page' = [page EXCEPT !.queue = q]
  BY <1>1 DEF Scrub, u, Pages
<1> HIDE DEF q
<1>6. page' \in Pages
  BY <1>1, <1>3, <1>5 DEF Pages
<1>7. /\ SameScenario(page, page') /\ page'.index = page.index /\ page'.eff = page.eff
      /\ page'.queue = q /\ page'.playing = page.playing /\ page'.timer = page.timer
  BY <1>1, <1>5 DEF Pages, SameScenario
<1>8. ShownExists(page')
  BY <1>6, <1>7 DEF PageInv, ShownExists, SameScenario
<1>9. QueueFits(q, page.memo.last)
  BY <1>1a, <1>2, <1>4 DEF PageInv, QueueFits
<1>10. Deps(page') = Deps(page) /\ (IsPlaying(page') <=> IsPlaying(page))
  BY <1>7 DEF Deps, IsPlaying, SameScenario
<1> QED BY <1>4a, <1>7, <1>8, <1>9, <1>10 DEF PageInv, KeepsGoing, SameScenario

\* A render outside an event.
LEMMA RenderKeepsPage == ASSUME MemoFits, PageInv(page), RenderPage PROVE PageInv(page')
<1> DEFINE c == Rendered(page)
<1>1. /\ ShownExists(c) /\ SameScenario(page, c) /\ c.queue = <<>> /\ c.eff = Deps(page)
      /\ c.timer = IF page.eff = Deps(page) THEN page.timer ELSE IsPlaying(page)
      /\ c.playing /\ page.index < page.memo.last /\ Advances(page.queue) => page.index < c.index
  BY RenderedFields
<1>2. page' = c
  BY DEF RenderPage
<1> HIDE DEF c
<1>3. c.eff.last = c.memo.last
  BY <1>1, DepsFields DEF SameScenario
<1>4. DOMAIN c.queue = {}
  BY <1>1
<1>5. ASSUME c.eff = Deps(c), IsPlaying(c), ~c.timer PROVE c.index = 0
  <2>1. IsPlaying(page) /\ c.index = page.index /\ c.playing
    BY <1>1, <1>5, DepsFields DEF IsPlaying
  <2>2. page.eff = Deps(page) /\ ~page.timer
    BY <1>1, <1>5, <2>1
  <2>3. page.index < page.memo.last /\ page.index \in Nat
    BY <2>1 DEF IsPlaying, PageInv, ShownExists, Pages
  <2>4. ~Advances(page.queue)
    BY <1>1, <2>1, <2>3
  <2> QED BY <2>1, <2>2, <2>4 DEF PageInv, KeepsGoing
<1> QED BY <1>1, <1>2, <1>3, <1>4, <1>5 DEF PageInv, QueueFits, KeepsGoing

\* Effects that run on their own.
LEMMA EffectsKeepPage == ASSUME MemoFits, PageInv(page), RunPageEffects PROVE PageInv(page')
<1> DEFINE r == WithEffects(page)
<1>1. page \in Pages /\ page.memo.last \in Nat
  BY DEF PageInv, ShownExists, MemoFits, Pages
<1>2. /\ r \in Pages /\ SameScenario(page, r)
      /\ r.playing = page.playing /\ r.index = page.index /\ r.queue = page.queue
      /\ r.eff = Deps(page)
      /\ r.timer = IF page.eff = Deps(page) THEN page.timer ELSE IsPlaying(page)
  BY <1>1, EffectsFields
<1>3. page' = r /\ page.eff # Deps(page)
  BY DEF RunPageEffects
<1> HIDE DEF r
<1>4. ShownExists(r)
  BY <1>2 DEF PageInv, ShownExists, SameScenario
<1>5. r.eff.last = r.memo.last
  BY <1>2, DepsFields DEF SameScenario
<1>6. QueueFits(r.queue, r.memo.last)
  BY <1>2 DEF PageInv, SameScenario
<1>7. r.timer <=> IsPlaying(r)
  BY <1>2, <1>3 DEF IsPlaying, SameScenario
<1> QED BY <1>3, <1>4, <1>5, <1>6, <1>7 DEF PageInv, KeepsGoing

\* A new speed sets the timer.
LEMMA SpeedKeepsPage == ASSUME MemoFits, PageInv(page), ChangeSpeed PROVE PageInv(page')
<1> DEFINE c == Rendered(page)
           d == Deps(c)
           b == IsPlaying(c)
           r == [c EXCEPT !.eff = d, !.timer = b]
<1>1. ShownExists(c) /\ c.queue = <<>>
  BY RenderedFields
<1>2. page' = r
  BY DEF ChangeSpeed
<1> HIDE DEF c
<1>3. c \in Pages /\ c.memo.last \in Nat
  BY <1>1 DEF ShownExists, MemoFits, Pages
<1>4. b \in BOOLEAN
  BY <1>3 DEF IsPlaying, Pages
<1>5. d \in [isPlaying : BOOLEAN, index : Nat, last : Nat] /\ d.last = c.memo.last
  BY <1>3, <1>4 DEF Deps, Pages
<1> HIDE DEF b, d
<1>6. r \in Pages
  BY <1>3, <1>4, <1>5 DEF Pages
<1>7. /\ SameScenario(c, r) /\ r.playing = c.playing /\ r.index = c.index /\ r.queue = c.queue
      /\ r.eff = d /\ r.timer = b
  BY <1>3 DEF Pages, SameScenario
<1> HIDE DEF r
<1>8. ShownExists(r)
  BY <1>1, <1>6, <1>7 DEF ShownExists, SameScenario
<1>9. r.timer = b /\ IsPlaying(r) = b
  BY <1>7 DEF IsPlaying, SameScenario, b
<1>10. DOMAIN r.queue = {}
  BY <1>1, <1>7
<1>11. r.eff.last = r.memo.last
  BY <1>5, <1>7 DEF SameScenario
<1> QED BY <1>2, <1>8, <1>9, <1>10, <1>11 DEF PageInv, QueueFits, KeepsGoing

\* The track is released.
LEMMA ReleaseKeepsPage == ASSUME PageInv(page), ReleaseTrack PROVE PageInv(page')
<1> DEFINE r == [page EXCEPT !.held = FALSE]
<1>1. page \in Pages /\ page' = r
  BY DEF PageInv, ShownExists, ReleaseTrack
<1>2. r \in Pages
  BY <1>1 DEF Pages
<1>3. /\ r.id = page.id /\ r.memo = page.memo /\ r.playing = page.playing
      /\ r.index = page.index /\ r.corrupted = page.corrupted /\ r.inspected = page.inspected
      /\ r.queue = page.queue /\ r.eff = page.eff /\ r.timer = page.timer
  BY <1>1 DEF Pages
<1> HIDE DEF r
<1>4. ShownExists(r)
  BY <1>2, <1>3 DEF PageInv, ShownExists
<1>5. Deps(r) = Deps(page) /\ (IsPlaying(r) <=> IsPlaying(page))
  BY <1>3 DEF Deps, IsPlaying
<1> QED BY <1>1, <1>3, <1>4, <1>5 DEF PageInv, KeepsGoing

\* An event that is only rendered.
LEMMA IdleEvent ==
    ASSUME MemoFits, NEW p, PageInv(p) PROVE PageInv(WithEffects(Rendered(p)))
<1>1. ShownExists(Rendered(p)) /\ Rendered(p).queue = <<>>
  BY RenderedFields
<1> QED BY <1>1, OtherEvent

\* The track is pressed.
LEMMA PressKeepsPage ==
    ASSUME MemoFits, PageInv(page), NEW to \in page.memo.targets, PressTrack(to)
    PROVE  PageInv(page')
<1> DEFINE c == Rendered(page)
           j == Jumped(c, to)
           s == IF to # page.index THEN j ELSE c
           d == [s EXCEPT !.held = TRUE]
<1>1. /\ ShownExists(c) /\ SameScenario(page, c) /\ c.queue = <<>>
  BY RenderedFields
<1>2. page' = WithEffects(d)
  BY DEF PressTrack, Does
<1> HIDE DEF c
<1>3. c \in Pages
  BY <1>1 DEF ShownExists
<1>4. to \in Nat /\ to <= c.memo.last
  <2>1. page.memo = Memo[page.id] /\ page.id \in Ids
    BY DEF PageInv, ShownExists, Pages
  <2>2. to \in 0..page.memo.last /\ page.memo.last \in Nat
    BY <2>1 DEF MemoFits
  <2> QED BY <1>1, <2>2 DEF SameScenario
<1>5. /\ j \in Pages /\ SameScenario(c, j) /\ j.queue = c.queue /\ j.eff = c.eff
      /\ j.timer = c.timer /\ j.playing = FALSE /\ j.index = to
  BY <1>3, <1>4 DEF Jumped, Pages, SameScenario
<1> HIDE DEF j
<1>6. /\ s \in Pages /\ SameScenario(c, s) /\ s.queue = c.queue /\ s.eff = c.eff
      /\ s.timer = c.timer
      /\ (s.playing = FALSE /\ s.index = to) \/ (s.playing = c.playing /\ s.index = c.index)
  BY <1>3, <1>5 DEF SameScenario
<1> HIDE DEF s
<1>7. /\ d \in Pages /\ d.id = s.id /\ d.memo = s.memo /\ d.corrupted = s.corrupted
      /\ d.inspected = s.inspected /\ d.queue = s.queue /\ d.eff = s.eff /\ d.timer = s.timer
      /\ d.playing = s.playing /\ d.index = s.index
  BY <1>6 DEF Pages
<1> HIDE DEF d
<1>8. ShownExists(d)
  BY <1>1, <1>4, <1>6, <1>7 DEF ShownExists, SameScenario
<1>9. ASSUME Deps(d) = Deps(page), IsPlaying(page) PROVE c.playing /\ c.index = d.index
  <2>1. IsPlaying(d)
    BY <1>9, DepsFields
  <2> QED BY <1>6, <1>7, <2>1 DEF IsPlaying
<1>10. Handled(page, c, d)
  BY <1>1, <1>6, <1>7, <1>8, <1>9 DEF Handled
<1> QED BY <1>2, <1>10, EventKeepsPage DEF c

\* The evidence: a tab is opened or closed, a frame of the scenario clicked.
LEMMA EvidenceKeepsPage ==
    ASSUME MemoFits, PageInv(page),
           \/ ResetCorrupt
           \/ \E tab \in Opened : ClickTabButton(tab)
           \/ \E frame \in Clicked : ToggleCorrupt(frame) \/ Inspect(frame)
    PROVE  PageInv(page')
<1> DEFINE c == Rendered(page)
<1>1. /\ ShownExists(c) /\ SameScenario(page, c) /\ c.queue = <<>>
  BY RenderedFields
<1>2. c \in Pages /\ c.memo = Memo[c.id] /\ c.id \in Ids
  BY <1>1 DEF ShownExists, Pages
<1>3. c.memo.frames \subseteq AllFrames
  <2>1. c.memo.frames = FramesOf(Ops[c.id])
    BY <1>2, MemoFields
  <2> QED BY <1>2, <2>1 DEF AllFrames
<1>4. \A frame : frame \in page.memo.frames => frame \in c.memo.frames
  BY <1>1 DEF SameScenario
<1>5. ASSUME NEW set \in SUBSET c.memo.frames, page' = WithEffects([c EXCEPT !.corrupted = set])
      PROVE  PageInv(page')
  <2> DEFINE d == [c EXCEPT !.corrupted = set]
  <2> HIDE DEF c
  <2>1. set \in SUBSET AllFrames
    BY <1>3
  <2>2. /\ d \in Pages /\ d.id = c.id /\ d.memo = c.memo /\ d.corrupted = set
        /\ d.inspected = c.inspected /\ d.queue = c.queue /\ d.eff = c.eff /\ d.timer = c.timer
        /\ d.playing = c.playing /\ d.index = c.index
    BY <1>2, <2>1 DEF Pages
  <2>3. page' = WithEffects(d)
    BY <1>5
  <2> HIDE DEF d
  <2>4. ShownExists(d)
    BY <1>1, <2>2 DEF ShownExists
  <2> QED BY <1>1, <2>2, <2>3, <2>4, OtherEvent DEF c
<1>6. ASSUME NEW at \in c.memo.frames \cup {NoFrame},
             page' = WithEffects([c EXCEPT !.inspected = at])
      PROVE  PageInv(page')
  <2> DEFINE d == [c EXCEPT !.inspected = at]
  <2> HIDE DEF c
  <2>1. at \in AllFrames \cup {NoFrame}
    BY <1>3
  <2>2. /\ d \in Pages /\ d.id = c.id /\ d.memo = c.memo /\ d.corrupted = c.corrupted
        /\ d.inspected = at /\ d.queue = c.queue /\ d.eff = c.eff /\ d.timer = c.timer
        /\ d.playing = c.playing /\ d.index = c.index
    BY <1>2, <2>1 DEF Pages
  <2>3. page' = WithEffects(d)
    BY <1>6
  <2> HIDE DEF d
  <2>4. ShownExists(d)
    BY <1>1, <2>2 DEF ShownExists
  <2> QED BY <1>1, <2>2, <2>3, <2>4, OtherEvent DEF c
<1>7. ASSUME NEW tab \in {"closed"} \cup Opened,
             page' = WithEffects([c EXCEPT !.tab = tab])
      PROVE  PageInv(page')
  <2> DEFINE d == [c EXCEPT !.tab = tab]
  <2> HIDE DEF c
  <2>2. /\ d \in Pages /\ d.id = c.id /\ d.memo = c.memo /\ d.corrupted = c.corrupted
        /\ d.inspected = c.inspected /\ d.queue = c.queue /\ d.eff = c.eff /\ d.timer = c.timer
        /\ d.playing = c.playing /\ d.index = c.index
    BY <1>2 DEF Pages
  <2>3. page' = WithEffects(d)
    BY <1>7
  <2> HIDE DEF d
  <2>4. ShownExists(d)
    BY <1>1, <2>2 DEF ShownExists
  <2> QED BY <1>1, <2>2, <2>3, <2>4, OtherEvent DEF c
<1>8. c.corrupted \subseteq c.memo.frames /\ c.inspected \in c.memo.frames \cup {NoFrame}
  BY <1>1 DEF ShownExists
<1>9. CASE ResetCorrupt
  <2>1. page' = WithEffects([c EXCEPT !.corrupted = {}])
    BY <1>9 DEF ResetCorrupt, Does
  <2> QED BY <1>5, <2>1
<1>10. CASE \E tab \in Opened : ClickTabButton(tab)
  <2>1. PICK tab \in Opened : ClickTabButton(tab)
    BY <1>10
  <2>2. page' = WithEffects([c EXCEPT !.tab = IF c.tab = tab THEN "closed" ELSE tab])
    BY <2>1 DEF ClickTabButton, Does
  <2> HIDE DEF c
  <2> QED BY <1>7, <2>2
<1>11. ASSUME NEW frame \in Clicked, ToggleCorrupt(frame) PROVE PageInv(page')
  <2> DEFINE set == IF frame \in c.corrupted THEN c.corrupted \ {frame}
                                             ELSE c.corrupted \cup {frame}
  <2>1. page' = WithEffects([c EXCEPT !.corrupted = set]) /\ frame \in page.memo.frames
    BY <1>11 DEF ToggleCorrupt, Does
  <2> HIDE DEF c
  <2>2. set \in SUBSET c.memo.frames
    BY <1>4, <1>8, <2>1
  <2> QED BY <1>5, <2>1, <2>2
<1>12. ASSUME NEW frame \in Clicked, Inspect(frame) PROVE PageInv(page')
  <2> DEFINE at == IF c.inspected = frame THEN NoFrame ELSE frame
  <2>1. page' = WithEffects([c EXCEPT !.inspected = at]) /\ frame \in page.memo.frames
    BY <1>12 DEF Inspect, Does
  <2> HIDE DEF c
  <2>2. at \in c.memo.frames \cup {NoFrame}
    BY <1>4, <2>1
  <2> QED BY <1>6, <2>1, <2>2
<1> QED BY <1>9, <1>10, <1>11, <1>12

\* What a viewer does at the station.
LEMMA ViewerKeepsPage == ASSUME MemoFits, PageInv(page), PageViewer PROVE PageInv(page')
<1> DEFINE c == Rendered(page)
           last == page.memo.last
<1>1. /\ page \in Pages /\ page.id \in Ids /\ page.memo = Memo[page.id]
      /\ page.index \in Nat /\ page.index <= last /\ last \in Nat /\ page.eff.last = last
  BY DEF PageInv, ShownExists, MemoFits, Pages
<1>2. c.index \in Nat /\ c.index <= last
  <2>1. ShownExists(c) /\ SameScenario(page, c)
    BY RenderedFields
  <2> HIDE DEF c
  <2> QED BY <2>1 DEF ShownExists, SameScenario, Pages
<1>3. ASSUME NEW to \in Nat, to <= last, page' = WithEffects(Jumped(c, to))
      PROVE  PageInv(page')
  BY <1>3, PausingEvent
<1>4. page.memo.targets \subseteq 0..last /\ page.memo.options \subseteq 0..last
  BY <1>1 DEF MemoFits
<1>5. CASE ClickPlay
  <2>1. page' = WithEffects(Toggled(c, Deps(page)))
    BY <1>5 DEF ClickPlay, Does
  <2> QED BY <2>1, ToggleKeepsPage
<1>6. CASE PressSpace
  <2>1. page' = WithEffects(Toggled(c, page.eff))
    BY <1>6 DEF PressSpace, Does
  <2> QED BY <2>1, ToggleKeepsPage
<1>7. CASE PressRight
  <2> DEFINE to == Lesser(c.index + 1, page.eff.last)
  <2>1. page' = WithEffects(Jumped(c, to))
    BY <1>7 DEF PressRight, Does
  <2> HIDE DEF c
  <2>2. to \in Nat /\ to <= last
    BY <1>1, <1>2 DEF Lesser
  <2> QED BY <1>3, <2>1, <2>2
<1>8. CASE PressLeft
  <2> DEFINE to == Greater(c.index - 1, 0)
  <2>1. page' = WithEffects(Jumped(c, to))
    BY <1>8 DEF PressLeft, Does
  <2> HIDE DEF c
  <2>2. to \in Nat /\ to <= last
    BY <1>1, <1>2 DEF Greater
  <2> QED BY <1>3, <2>1, <2>2
<1>9. CASE ClickPrevious
  <2>1. page' = WithEffects(Jumped(c, page.index - 1)) /\ page.index # 0
    BY <1>9 DEF ClickPrevious, Does
  <2> HIDE DEF c
  <2>2. page.index - 1 \in Nat /\ page.index - 1 <= last
    BY <1>1, <2>1
  <2> QED BY <1>3, <2>1, <2>2
<1>10. CASE ClickNext
  <2>1. page' = WithEffects(Jumped(c, page.index + 1)) /\ page.index < last
    BY <1>10 DEF ClickNext, Does
  <2> HIDE DEF c
  <2>2. page.index + 1 \in Nat /\ page.index + 1 <= last
    BY <1>1, <2>1
  <2> QED BY <1>3, <2>1, <2>2
<1>11. CASE ClickRestart
  <2>1. page' = WithEffects(Jumped(c, 0))
    BY <1>11 DEF ClickRestart, Does
  <2> HIDE DEF c
  <2> QED BY <1>1, <1>3, <2>1
<1>12. CASE ClickOption
  <2>1. PICK to \in page.memo.options : page' = WithEffects(Jumped(c, to))
    BY <1>12 DEF ClickOption, Does
  <2> HIDE DEF c
  <2>2. to \in Nat /\ to <= last
    BY <1>1, <1>4
  <2> QED BY <1>3, <2>1, <2>2
<1>13. CASE ClickLine
  <2>1. PICK to \in 0..page.index : page' = WithEffects(Jumped(c, to))
    BY <1>13 DEF ClickLine, Does
  <2> HIDE DEF c
  <2>2. to \in Nat /\ to <= last
    BY <1>1
  <2> QED BY <1>3, <2>1, <2>2
<1>14. ASSUME NEW to \in page.memo.targets, PickStep(to) PROVE PageInv(page')
  <2>1. page' = WithEffects(Jumped(c, to))
    BY <1>14 DEF PickStep, Does
  <2> HIDE DEF c
  <2>2. to \in Nat /\ to <= last
    BY <1>1, <1>4
  <2> QED BY <1>3, <2>1, <2>2
<1>15. CASE \E to \in page.memo.targets : PickStep(to) \/ PressTrack(to) \/ Scrub(to)
  BY <1>14, <1>15, PressKeepsPage, ScrubKeepsPage
<1> QED BY <1>5, <1>6, <1>7, <1>8, <1>9, <1>10, <1>11, <1>12, <1>13, <1>15,
           SpeedKeepsPage, ReleaseKeepsPage, EvidenceKeepsPage DEF PageViewer

-----------------------------------------------------------------------------
(* The fleet page: phases, effects and updates.                            *)

PhaseNames == {"normal", "dip", "hold", "surge", "rebound", "reboot", "stagger", "recovered"}

\* The chapters of the two stories.
LEMMA PhasesAre ==
    /\ LastPhase("without") = 5 /\ LastPhase("with") = 4
    /\ \A k \in 0..5 : /\ PhaseAt("without", k) = "reboot" <=> k = 5
                       /\ PhaseAt("without", k) # "stagger"
    /\ \A k \in 0..4 : PhaseAt("with", k) = "stagger" <=> k = 3
    /\ \A k \in 0..4 : PhaseAt("with", k) # "reboot"
<1> DEFINE P == [phase : PhaseNames, ms : Int]
           Phase(phase, ms) == [phase |-> phase, ms |-> ms]
           start == <<Phase("normal", 2400), Phase("dip", 2000), Phase("hold", 2200)>>
           bad == <<Phase("surge", 2200), Phase("rebound", 2600), Phase("reboot", 3200)>>
           good == <<Phase("stagger", WAVE_MS * STAGGER_WAVES), Phase("recovered", 3000)>>
<1>1. start \in Seq(P) /\ bad \in Seq(P) /\ good \in Seq(P)
  BY DEF PhaseNames, WAVE_MS, STAGGER_WAVES
<1>2. Len(start) = 3 /\ Len(bad) = 3 /\ Len(good) = 2
  OBVIOUS
<1>3. Phases["without"] = start \o bad /\ Phases["with"] = start \o good
  BY DEF Phases
<1>4. \A k \in 1..3 : start[k].phase \notin {"reboot", "stagger"}
  OBVIOUS
<1>5. bad[1].phase = "surge" /\ bad[2].phase = "rebound" /\ bad[3].phase = "reboot"
  OBVIOUS
<1>6. good[1].phase = "stagger" /\ good[2].phase = "recovered"
  OBVIOUS
<1> HIDE DEF start, bad, good, P
<1>7. /\ Len(start \o bad) = 6
      /\ \A k \in 1..6 : (start \o bad)[k] = IF k <= 3 THEN start[k] ELSE bad[k - 3]
  <2>1. /\ Len(start \o bad) = Len(start) + Len(bad)
        /\ \A k \in 1..Len(start) + Len(bad) :
             (start \o bad)[k] = IF k <= Len(start) THEN start[k] ELSE bad[k - Len(start)]
    BY <1>1, ConcatProperties, Zenon
  <2>2. Len(start) + Len(bad) = 6
    BY <1>2
  <2> QED BY <1>2, <2>1, <2>2
<1>8. /\ Len(start \o good) = 5
      /\ \A k \in 1..5 : (start \o good)[k] = IF k <= 3 THEN start[k] ELSE good[k - 3]
  <2>1. /\ Len(start \o good) = Len(start) + Len(good)
        /\ \A k \in 1..Len(start) + Len(good) :
             (start \o good)[k] = IF k <= Len(start) THEN start[k] ELSE good[k - Len(start)]
    BY <1>1, ConcatProperties, Zenon
  <2>2. Len(start) + Len(good) = 5
    BY <1>2
  <2> QED BY <1>2, <2>1, <2>2
<1>10. ASSUME NEW k \in 0..5
       PROVE  PhaseAt("without", k) = IF k <= 2 THEN start[k + 1].phase ELSE bad[k - 2].phase
  <2>1. PhaseAt("without", k) = (start \o bad)[k + 1].phase
    BY <1>3 DEF PhaseAt
  <2>2. k + 1 \in 1..6 /\ (k + 1 <= 3 <=> k <= 2) /\ (k + 1) - 3 = k - 2
    OBVIOUS
  <2>3. (start \o bad)[k + 1] = IF k <= 2 THEN start[k + 1] ELSE bad[k - 2]
    BY <1>7, <2>2
  <2> QED BY <2>1, <2>3
<1>11. ASSUME NEW k \in 0..4
       PROVE  PhaseAt("with", k) = IF k <= 2 THEN start[k + 1].phase ELSE good[k - 2].phase
  <2>1. PhaseAt("with", k) = (start \o good)[k + 1].phase
    BY <1>3 DEF PhaseAt
  <2>2. k + 1 \in 1..5 /\ (k + 1 <= 3 <=> k <= 2) /\ (k + 1) - 3 = k - 2
    OBVIOUS
  <2>3. (start \o good)[k + 1] = IF k <= 2 THEN start[k + 1] ELSE good[k - 2]
    BY <1>8, <2>2
  <2> QED BY <2>1, <2>3
<1>12. \A k \in 0..5 : k <= 2 \/ k = 3 \/ k = 4 \/ k = 5
  OBVIOUS
<1>13. LastPhase("without") = 5 /\ LastPhase("with") = 4
  BY <1>3, <1>7, <1>8 DEF LastPhase
<1>14. ASSUME NEW k \in 0..5
       PROVE  (PhaseAt("without", k) = "reboot" <=> k = 5) /\ PhaseAt("without", k) # "stagger"
  BY <1>4, <1>5, <1>10, <1>12
<1>15. ASSUME NEW k \in 0..4
       PROVE  (PhaseAt("with", k) = "stagger" <=> k = 3) /\ PhaseAt("with", k) # "reboot"
  BY <1>4, <1>6, <1>11, <1>12
<1> QED BY <1>13, <1>14, <1>15

\* The story as the timers see it, and what a render takes from it.
SameStory(g, r) ==
    /\ r.mode = g.mode /\ r.phaseIndex = g.phaseIndex /\ r.wave = g.wave
    /\ r.attempt = g.attempt /\ r.failed = g.failed /\ r.interlude = g.interlude
    /\ r.playing = g.playing

\* What the timers of the fleet page depend on.
LEMMA GridDepsFields ==
    ASSUME NEW g
    PROVE  LET d == GridDeps(g)
           IN  /\ d.mode = g.mode /\ d.phaseIndex = g.phaseIndex /\ d.wave = g.wave
               /\ d.attempt = g.attempt /\ d.failed = g.failed /\ d.interlude = g.interlude
               /\ d.playing = g.playing
  BY DEF GridDeps

\* The same story has the same dependencies.
LEMMA SameDeps == \A g, r : SameStory(g, r) => GridDeps(r) = GridDeps(g)
  BY DEF SameStory, GridDeps

\* Effects note the story they ran with; the timer is set unless it stands.
LEMMA GridEffectsFields ==
    ASSUME NEW g \in Fleets
    PROVE  LET r == GridEffects(g)
           IN  /\ r \in Fleets /\ SameStory(g, r)
               /\ r.ended = g.ended /\ r.held = g.held /\ r.queue = g.queue
               /\ r.eff = GridDeps(g)
               /\ r.timer = IF Standing(g) THEN g.timer ELSE g.playing
<1> DEFINE changed == IF g.interlude = "none" THEN g.eff # GridDeps(g)
                      ELSE <<g.eff.playing, g.eff.interlude>> # <<g.playing, g.interlude>>
           d == GridDeps(g)
           t == IF changed THEN g.playing ELSE g.timer
           r == [g EXCEPT !.eff = d, !.timer = t]
<1>1. changed <=> ~Standing(g)
  BY DEF Standing
<1>2. t = IF Standing(g) THEN g.timer ELSE g.playing
  BY <1>1
<1>3. GridEffects(g) = r
  BY DEF GridEffects
<1>4. d \in [mode : Modes, phaseIndex : Nat, wave : Nat, attempt : Nat, failed : BOOLEAN,
             interlude : Interludes, playing : BOOLEAN]
  BY DEF GridDeps, Fleets
<1> HIDE DEF changed
<1>5. t \in BOOLEAN
  BY DEF Fleets
<1> HIDE DEF t, d
<1>6. r \in Fleets
  BY <1>4, <1>5 DEF Fleets
<1>7. /\ SameStory(g, r) /\ r.ended = g.ended /\ r.held = g.held /\ r.queue = g.queue
      /\ r.eff = d /\ r.timer = t
  BY DEF Fleets, SameStory
<1> HIDE DEF r
<1> QED BY <1>2, <1>3, <1>6, <1>7 DEF d

\* What an update leaves to effects and events.
SameRest(g, r) == r.held = g.held /\ r.queue = g.queue /\ r.eff = g.eff /\ r.timer = g.timer

\* A jump of the viewer.
LEMMA JumpFields ==
    ASSUME NEW g \in Fleets, NEW mode, NEW index \in Nat
    PROVE  LET r == JumpTo(g, mode, index)
           IN  /\ r \in Fleets /\ SameRest(g, r) /\ r.mode = g.mode /\ r.attempt = g.attempt
               /\ r.phaseIndex = index /\ r.wave \in {0, STAGGER_WAVES - 1}
               /\ r.interlude = "none" /\ ~r.playing /\ r.ended
<1> DEFINE w == IF PhaseAt(mode, index) = "stagger" THEN STAGGER_WAVES - 1 ELSE 0
           b == PhaseAt(mode, index) = "reboot"
           r == [g EXCEPT !.playing = FALSE, !.interlude = "none", !.ended = TRUE,
                          !.phaseIndex = index, !.wave = w, !.failed = b]
<1>1. w \in Nat /\ w \in {0, STAGGER_WAVES - 1} /\ b \in BOOLEAN
  BY DEF STAGGER_WAVES
<1>2. JumpTo(g, mode, index) = r
  BY DEF JumpTo
<1> HIDE DEF w, b
<1>3. r \in Fleets
  BY <1>1 DEF Fleets, Interludes
<1>4. /\ SameRest(g, r) /\ r.mode = g.mode /\ r.attempt = g.attempt /\ r.phaseIndex = index
      /\ r.wave = w /\ r.interlude = "none" /\ ~r.playing /\ r.ended
  BY DEF Fleets, SameRest
<1> HIDE DEF r
<1> QED BY <1>1, <1>2, <1>3, <1>4

\* What a beat of the timer makes of the story.
BeatDone(g, beat, r) ==
    /\ r.playing = g.playing /\ r.ended = g.ended
    /\ r.mode = IF beat = "handoff" \/ (beat = "other" /\ g.mode = "without") THEN "with"
                ELSE IF beat = "other" THEN "without" ELSE g.mode
    /\ r.phaseIndex = IF beat \in {"handoff", "other"} THEN 0
                      ELSE IF beat = "retry" THEN HOLD_INDEX
                      ELSE IF beat = "next" THEN g.phaseIndex + 1 ELSE g.phaseIndex
    /\ r.wave = IF beat \in {"handoff", "other", "next"} THEN 0
                ELSE IF beat = "wave" THEN g.wave + 1 ELSE g.wave
    /\ r.attempt = IF beat \in {"handoff", "other"} THEN 1
                   ELSE IF beat = "retry" THEN g.attempt + 1 ELSE g.attempt
    /\ beat = "fail" => r.failed
    /\ r.interlude = IF beat = "reveal" THEN "none"
                     ELSE IF beat \in {"verdict", "handoff"} THEN beat ELSE g.interlude

\* What a jump makes of it.
JumpDone(g, r) ==
    /\ r.mode = g.mode /\ r.attempt = g.attempt /\ r.wave \in {0, STAGGER_WAVES - 1}
    /\ r.interlude = "none" /\ ~r.playing /\ r.ended

\* An update is a beat or a jump.
LEMMA UpdateFields ==
    ASSUME NEW g \in Fleets, NEW u \in GridUpdates
    PROVE  LET r == Update(g, u)
           IN  /\ r \in Fleets /\ SameRest(g, r)
               /\ u.do \in Beats => BeatDone(g, u.do, r)
               /\ u.do \notin Beats => JumpDone(g, r)
<1>1. u.do \in Beats \/ (u.do = "jump" /\ u.index \in Nat)
  BY DEF GridUpdates
<1>2. CASE u.do = "wave"
  <2> DEFINE n == g.wave + 1
             r == [g EXCEPT !.wave = n]
  <2>1. Update(g, u) = r
    BY <1>2 DEF Update, StartWith, OtherFleet
  <2>2. n \in Nat
    BY DEF Fleets, Modes, HOLD_INDEX
  <2> HIDE DEF n
  <2>3. r \in Fleets
    BY <2>2 DEF Fleets, Modes, Interludes
  <2>4. SameRest(g, r)
    BY DEF Fleets, SameRest
  <2>5. /\ r.mode = g.mode /\ r.phaseIndex = g.phaseIndex /\ r.wave = n /\ r.attempt = g.attempt
        /\ r.failed = g.failed /\ r.interlude = g.interlude /\ r.playing = g.playing /\ r.ended = g.ended
    BY DEF Fleets, Modes
  <2> HIDE DEF r
  <2>6. BeatDone(g, u.do, r)
    BY <1>2, <2>5 DEF BeatDone, n
  <2> QED BY <1>2, <2>1, <2>3, <2>4, <2>6 DEF Beats
<1>3. CASE u.do = "fail"
  <2> DEFINE r == [g EXCEPT !.failed = TRUE]
  <2>1. Update(g, u) = r
    BY <1>3 DEF Update, StartWith, OtherFleet
  <2>3. r \in Fleets
    BY DEF Fleets, Modes, Interludes
  <2>4. SameRest(g, r)
    BY DEF Fleets, SameRest
  <2>5. /\ r.mode = g.mode /\ r.phaseIndex = g.phaseIndex /\ r.wave = g.wave /\ r.attempt = g.attempt
        /\ r.failed = TRUE /\ r.interlude = g.interlude /\ r.playing = g.playing /\ r.ended = g.ended
    BY DEF Fleets, Modes
  <2> HIDE DEF r
  <2>6. BeatDone(g, u.do, r)
    BY <1>3, <2>5 DEF BeatDone
  <2> QED BY <1>3, <2>1, <2>3, <2>4, <2>6 DEF Beats
<1>4. CASE u.do = "retry"
  <2> DEFINE n == g.attempt + 1
             r == [g EXCEPT !.failed = FALSE, !.attempt = n, !.phaseIndex = HOLD_INDEX]
  <2>1. Update(g, u) = r
    BY <1>4 DEF Update, StartWith, OtherFleet
  <2>2. n \in Nat /\ HOLD_INDEX \in Nat
    BY DEF Fleets, Modes, HOLD_INDEX
  <2> HIDE DEF n
  <2>3. r \in Fleets
    BY <2>2 DEF Fleets, Modes, Interludes
  <2>4. SameRest(g, r)
    BY DEF Fleets, SameRest
  <2>5. /\ r.mode = g.mode /\ r.phaseIndex = HOLD_INDEX /\ r.wave = g.wave /\ r.attempt = n
        /\ r.failed = FALSE /\ r.interlude = g.interlude /\ r.playing = g.playing /\ r.ended = g.ended
    BY DEF Fleets, Modes
  <2> HIDE DEF r
  <2>6. BeatDone(g, u.do, r)
    BY <1>4, <2>5 DEF BeatDone, n
  <2> QED BY <1>4, <2>1, <2>3, <2>4, <2>6 DEF Beats
<1>5. CASE u.do = "verdict"
  <2> DEFINE r == [g EXCEPT !.interlude = "verdict"]
  <2>1. Update(g, u) = r
    BY <1>5 DEF Update, StartWith, OtherFleet
  <2>3. r \in Fleets
    BY DEF Fleets, Modes, Interludes
  <2>4. SameRest(g, r)
    BY DEF Fleets, SameRest
  <2>5. /\ r.mode = g.mode /\ r.phaseIndex = g.phaseIndex /\ r.wave = g.wave /\ r.attempt = g.attempt
        /\ r.failed = g.failed /\ r.interlude = "verdict" /\ r.playing = g.playing /\ r.ended = g.ended
    BY DEF Fleets, Modes
  <2> HIDE DEF r
  <2>6. BeatDone(g, u.do, r)
    BY <1>5, <2>5 DEF BeatDone
  <2> QED BY <1>5, <2>1, <2>3, <2>4, <2>6 DEF Beats
<1>6. CASE u.do = "handoff"
  <2> DEFINE r == [[g EXCEPT !.mode = "with", !.phaseIndex = 0, !.wave = 0,
                               !.attempt = 1, !.failed = FALSE] EXCEPT !.interlude = "handoff"]
  <2>1. Update(g, u) = r
    BY <1>6 DEF Update, StartWith, OtherFleet
  <2>3. r \in Fleets
    BY DEF Fleets, Modes, Interludes
  <2>4. SameRest(g, r)
    BY DEF Fleets, SameRest
  <2>5. /\ r.mode = "with" /\ r.phaseIndex = 0 /\ r.wave = 0 /\ r.attempt = 1
        /\ r.failed = FALSE /\ r.interlude = "handoff" /\ r.playing = g.playing /\ r.ended = g.ended
    BY DEF Fleets, Modes
  <2> HIDE DEF r
  <2>6. BeatDone(g, u.do, r)
    BY <1>6, <2>5 DEF BeatDone
  <2> QED BY <1>6, <2>1, <2>3, <2>4, <2>6 DEF Beats
<1>7. CASE u.do = "reveal"
  <2> DEFINE r == [g EXCEPT !.interlude = "none"]
  <2>1. Update(g, u) = r
    BY <1>7 DEF Update, StartWith, OtherFleet
  <2>3. r \in Fleets
    BY DEF Fleets, Modes, Interludes
  <2>4. SameRest(g, r)
    BY DEF Fleets, SameRest
  <2>5. /\ r.mode = g.mode /\ r.phaseIndex = g.phaseIndex /\ r.wave = g.wave /\ r.attempt = g.attempt
        /\ r.failed = g.failed /\ r.interlude = "none" /\ r.playing = g.playing /\ r.ended = g.ended
    BY DEF Fleets, Modes
  <2> HIDE DEF r
  <2>6. BeatDone(g, u.do, r)
    BY <1>7, <2>5 DEF BeatDone
  <2> QED BY <1>7, <2>1, <2>3, <2>4, <2>6 DEF Beats
<1>8. CASE u.do = "other"
  <2> DEFINE m == IF g.mode = "without" THEN "with" ELSE "without"
             r == [g EXCEPT !.wave = 0, !.attempt = 1, !.failed = FALSE, !.phaseIndex = 0, !.mode = m]
  <2>1. Update(g, u) = r
    BY <1>8 DEF Update, StartWith, OtherFleet
  <2>2. m \in Modes
    BY DEF Fleets, Modes, HOLD_INDEX
  <2> HIDE DEF m
  <2>3. r \in Fleets
    BY <2>2 DEF Fleets, Modes, Interludes
  <2>4. SameRest(g, r)
    BY DEF Fleets, SameRest
  <2>5. /\ r.mode = m /\ r.phaseIndex = 0 /\ r.wave = 0 /\ r.attempt = 1
        /\ r.failed = FALSE /\ r.interlude = g.interlude /\ r.playing = g.playing /\ r.ended = g.ended
    BY DEF Fleets, Modes
  <2> HIDE DEF r
  <2>6. BeatDone(g, u.do, r)
    BY <1>8, <2>5 DEF BeatDone, m
  <2> QED BY <1>8, <2>1, <2>3, <2>4, <2>6 DEF Beats
<1>9. CASE u.do = "next"
  <2> DEFINE n == g.phaseIndex + 1
             r == [g EXCEPT !.wave = 0, !.phaseIndex = n]
  <2>1. Update(g, u) = r
    BY <1>9 DEF Update, StartWith, OtherFleet
  <2>2. n \in Nat
    BY DEF Fleets, Modes, HOLD_INDEX
  <2> HIDE DEF n
  <2>3. r \in Fleets
    BY <2>2 DEF Fleets, Modes, Interludes
  <2>4. SameRest(g, r)
    BY DEF Fleets, SameRest
  <2>5. /\ r.mode = g.mode /\ r.phaseIndex = n /\ r.wave = 0 /\ r.attempt = g.attempt
        /\ r.failed = g.failed /\ r.interlude = g.interlude /\ r.playing = g.playing /\ r.ended = g.ended
    BY DEF Fleets, Modes
  <2> HIDE DEF r
  <2>6. BeatDone(g, u.do, r)
    BY <1>9, <2>5 DEF BeatDone, n
  <2> QED BY <1>9, <2>1, <2>3, <2>4, <2>6 DEF Beats
<1>10. CASE u.do = "jump" /\ u.index \in Nat
  <2> DEFINE r == JumpTo(g, u.mode, u.index)
  <2>1. Update(g, u) = r
    BY <1>10 DEF Update
  <2>2. r \in Fleets /\ SameRest(g, r) /\ JumpDone(g, r)
    BY <1>10, JumpFields DEF JumpDone
  <2>3. "jump" \notin Beats
    BY DEF Beats
  <2> HIDE DEF r
  <2> QED BY <1>10, <2>1, <2>2, <2>3
<1> QED BY <1>1, <1>2, <1>3, <1>4, <1>5, <1>6, <1>7, <1>8, <1>9, <1>10 DEF Beats

\* An update keeps the story in order if its beat fits.
LEMMA UpdateKeepsOrder ==
    ASSUME NEW g, InOrder(g), NEW u \in GridUpdates, u.do \in Beats => Fits(g, u.do)
    PROVE  InOrder(Update(g, u))
<1> DEFINE r == Update(g, u)
<1>1. /\ g \in Fleets /\ g.attempt \in 1..MAX_ATTEMPTS /\ g.wave \in 0..STAGGER_WAVES
      /\ g.mode = "with" => g.attempt = 1
      /\ g.interlude = "verdict" => g.mode = "without" /\ g.attempt = MAX_ATTEMPTS
      /\ g.interlude = "handoff" => g.mode = "with" /\ g.phaseIndex = 0 /\ g.wave = 0
  BY DEF InOrder
<1>2. /\ r \in Fleets
      /\ u.do \in Beats => BeatDone(g, u.do, r)
      /\ u.do \notin Beats => JumpDone(g, r)
  BY <1>1, UpdateFields
<1>3. g.mode \in Modes /\ g.attempt \in Nat /\ g.wave \in Nat /\ g.interlude \in Interludes
  BY <1>1 DEF Fleets
<1> HIDE DEF r
<1>4. CASE u.do \in Beats
  <2> DEFINE b == u.do
  <2>1. BeatDone(g, b, r) /\ Fits(g, b) /\ b \in Beats
    BY <1>2, <1>4
  <2> HIDE DEF b
  <2>2. r.attempt \in 1..MAX_ATTEMPTS
    BY <1>1, <1>3, <2>1 DEF BeatDone, Fits, MAX_ATTEMPTS
  <2>3. r.wave \in 0..STAGGER_WAVES
    BY <1>1, <1>3, <2>1 DEF BeatDone, Fits, STAGGER_WAVES
  <2>4. r.mode = "with" => r.attempt = 1
    BY <1>1, <2>1 DEF BeatDone, Fits
  <2>5. r.interlude = "verdict" => r.mode = "without" /\ r.attempt = MAX_ATTEMPTS
    BY <1>1, <2>1 DEF BeatDone, Fits
  <2>6. r.interlude = "handoff" => r.mode = "with" /\ r.phaseIndex = 0 /\ r.wave = 0
    BY <1>1, <2>1 DEF BeatDone, Fits
  <2> QED BY <1>2, <2>2, <2>3, <2>4, <2>5, <2>6 DEF InOrder, r
<1>5. CASE u.do \notin Beats
  BY <1>1, <1>2, <1>5 DEF JumpDone, InOrder, STAGGER_WAVES, r
<1> QED BY <1>4, <1>5

\* A jump does not make a beat unfit.
LEMMA JumpKeepsFits ==
    ASSUME NEW g, NEW r, JumpDone(g, r), NEW beat, Fits(g, beat)
    PROVE  Fits(r, beat)
  BY DEF JumpDone, Fits, STAGGER_WAVES

\* What the timer of a story takes up.
LEMMA BeatOfStory ==
    ASSUME NEW g, InOrder(g), ~Throws(g)
    PROVE  LET b == Beat(GridDeps(g))
           IN  /\ b \in Beats /\ Fits(g, b)
               /\ b = "handoff" <=> g.interlude = "verdict"
               /\ b = "reveal" <=> g.interlude = "handoff"
               /\ b = "fail" => ~g.failed
               /\ b = "verdict" => g.interlude = "none"
<1> DEFINE d == GridDeps(g)
           b == Beat(d)
           phase == PhaseAt(g.mode, g.phaseIndex)
<1>1. /\ g.mode \in {"with", "without"} /\ g.phaseIndex \in Nat /\ g.wave \in Nat
      /\ g.attempt \in Nat /\ g.failed \in BOOLEAN
      /\ g.interlude \in {"none", "verdict", "handoff"}
  BY DEF InOrder, Fleets, Modes, Interludes
<1>2. g.attempt \in 1..MAX_ATTEMPTS /\ g.wave \in 0..STAGGER_WAVES
  BY DEF InOrder
<1>3. /\ d.mode = g.mode /\ d.phaseIndex = g.phaseIndex /\ d.wave = g.wave
      /\ d.attempt = g.attempt /\ d.failed = g.failed /\ d.interlude = g.interlude
      /\ d.playing = g.playing
  BY GridDepsFields
<1> HIDE DEF d
<1>4. PhaseOf(d) = phase
  BY <1>3 DEF PhaseOf
<1>5. phase = "reboot" => g.mode = "without"
  <2> SUFFICES ASSUME g.mode = "with" PROVE phase # "reboot"
    BY <1>1
  <2>1. g.phaseIndex \in 0..4
    BY <1>1, PhasesAre DEF Throws
  <2> QED BY <2>1, PhasesAre
<1> HIDE DEF phase
<1>6. CASE g.interlude # "none"
  <2>1. /\ g.interlude = "verdict" => b = "handoff"
        /\ g.interlude = "handoff" => b = "reveal"
    BY <1>3 DEF Beat
  <2> HIDE DEF b
  <2> QED BY <1>1, <1>6, <2>1 DEF Beats, Fits, b, d
<1>7. CASE g.interlude = "none"
  <2> DEFINE waves == phase = "stagger" /\ d.wave < STAGGER_WAVES - 1
             fails == Trying(d)
             retries == phase = "reboot" /\ d.failed
             again == IF d.attempt < MAX_ATTEMPTS THEN "retry" ELSE "verdict"
             on == IF d.phaseIndex = LastPhase(d.mode) THEN "other" ELSE "next"
  <2>1. b = CASE waves -> "wave" [] fails -> "fail" [] retries -> again [] OTHER -> on
    BY <1>3, <1>4, <1>7 DEF Beat
  <2>2. fails => ~g.failed
    BY <1>3 DEF Trying
  <2>3. waves => g.wave < STAGGER_WAVES - 1
    BY <1>3
  <2>4. /\ again \in {"retry", "verdict"} /\ (again = "retry" => g.attempt < MAX_ATTEMPTS)
        /\ again = "verdict" => g.attempt = MAX_ATTEMPTS
    BY <1>1, <1>2, <1>3 DEF MAX_ATTEMPTS
  <2>5. on \in {"other", "next"}
    OBVIOUS
  <2>6. retries => g.mode = "without"
    BY <1>5
  <2> HIDE DEF waves, fails, retries, again, on, b
  <2>7. \/ b = "wave" /\ waves
        \/ b = "fail" /\ fails
        \/ b = again /\ retries
        \/ b = on
    BY <2>1
  <2>8. b \in Beats /\ b \notin {"handoff", "reveal"}
    BY <2>4, <2>5, <2>7 DEF Beats
  <2>9. Fits(g, b)
    BY <1>1, <1>7, <2>3, <2>4, <2>5, <2>6, <2>7 DEF Fits, STAGGER_WAVES
  <2>10. b = "fail" => ~g.failed
    BY <2>2, <2>4, <2>5, <2>7
  <2> QED BY <1>7, <2>8, <2>9, <2>10 DEF b, d
<1> QED BY <1>6, <1>7

\* A beat takes the story on.
LEMMA BeatGoesOn ==
    ASSUME NEW g, InOrder(g), ~Throws(g), NEW r, BeatDone(g, Beat(GridDeps(g)), r)
    PROVE  /\ GridDeps(r) # GridDeps(g)
           /\ g.interlude # "none" => r.interlude # g.interlude
<1> DEFINE b == Beat(GridDeps(g))
<1>1. /\ b \in Beats /\ Fits(g, b)
      /\ b = "handoff" <=> g.interlude = "verdict"
      /\ b = "reveal" <=> g.interlude = "handoff"
      /\ b = "fail" => ~g.failed
      /\ b = "verdict" => g.interlude = "none"
  BY BeatOfStory
<1>2. BeatDone(g, b, r)
  OBVIOUS
<1>3. /\ g.mode \in {"with", "without"} /\ g.phaseIndex \in Nat /\ g.wave \in Nat
      /\ g.attempt \in Nat /\ g.interlude \in {"none", "verdict", "handoff"}
  BY DEF InOrder, Fleets, Modes, Interludes
<1> HIDE DEF b
<1>4. ~SameStory(g, r)
  <2>1. CASE b \in {"wave", "retry", "other", "next"}
    BY <1>2, <1>3, <2>1 DEF BeatDone, SameStory
  <2>2. CASE b = "fail"
    BY <1>1, <1>2, <2>2 DEF BeatDone, SameStory
  <2>3. CASE b \in {"verdict", "handoff", "reveal"}
    BY <1>1, <1>2, <2>3 DEF BeatDone, SameStory
  <2> QED BY <1>1, <2>1, <2>2, <2>3 DEF Beats
<1>5. GridDeps(r) = GridDeps(g) => SameStory(g, r)
  <2> SUFFICES ASSUME GridDeps(r) = GridDeps(g) PROVE SameStory(g, r)
    OBVIOUS
  <2> QED BY GridDepsFields, Zenon DEF SameStory
<1>6. g.interlude # "none" => r.interlude # g.interlude
  BY <1>1, <1>2, <1>3 DEF BeatDone
<1> QED BY <1>4, <1>5, <1>6

\* The beat that waits was made for the story that plays.
BeatIn(q) == \E k \in DOMAIN q : q[k].do \in Beats

\* A render of the story: at most one beat and any jumps.  A jump stops it, a
\* beat takes it on, and neither leaves a card that was up while it played.
LEMMA GridRenderedFields ==
    ASSUME NEW g, FleetInv(g), ~Throws(g)
    PROVE  LET c == GridRendered(g)
           IN  /\ InOrder(c) /\ c.queue = <<>> /\ c.eff = GridDeps(g) /\ c.held = g.held
               /\ c.timer = IF Standing(g) THEN g.timer ELSE g.playing
               /\ c.playing => g.playing /\ c.ended = g.ended
               /\ g.playing /\ ~c.playing => c.ended /\ g.queue # <<>>
               /\ g.playing /\ g.interlude # "none" /\ g.queue # <<>> =>
                    c.interlude # g.interlude
               /\ c.playing /\ g.queue # <<>> => BeatIn(g.queue)
               /\ c.playing /\ BeatIn(g.queue) => GridDeps(c) # GridDeps(g)
               /\ ~BeatIn(g.queue) => \A beat \in Beats : Fits(g, beat) => Fits(c, beat)
<1> DEFINE q == g.queue
           b == GridEffects(g)
           S == {s \in Fleets : SameRest(b, s)}
<1>1. g \in Fleets /\ InOrder(g)
  BY DEF FleetInv, InOrder
<1>2. q \in Seq(GridUpdates) /\ Len(q) \in Nat /\ DOMAIN q = 1..Len(q)
  BY <1>1 DEF Fleets
<1>3. \A k \in 1..Len(q) : q[k] \in GridUpdates
  BY <1>2
<1>4. /\ b \in Fleets /\ SameStory(g, b)
      /\ b.ended = g.ended /\ b.held = g.held /\ b.queue = q
      /\ b.eff = GridDeps(g)
      /\ b.timer = IF Standing(g) THEN g.timer ELSE g.playing
  BY <1>1, GridEffectsFields
<1>5. \A k \in 1..Len(q) : q[k].do \in Beats =>
        /\ Fits(g, q[k].do)
        /\ g.playing => q[k].do = Beat(GridDeps(g))
        /\ \A j \in 1..Len(q) : q[j].do \in Beats => j = k
  BY <1>2 DEF FleetInv, BeatWaits
<1> HIDE DEF q, b
<1>6. \A k \in 1..Len(q) : \A s \in S : Update(s, q[k]) \in S
  <2> SUFFICES ASSUME NEW k \in 1..Len(q), NEW s \in S PROVE Update(s, q[k]) \in S
    OBVIOUS
  <2>1. Update(s, q[k]) \in Fleets /\ SameRest(s, Update(s, q[k]))
    BY <1>3, UpdateFields
  <2> QED BY <2>1 DEF SameRest
<1>7. b \in S
  BY <1>4 DEF SameRest
<1> HIDE DEF S
<1>8. PICK f : UpdatedInTurn(f, S, b, q)
  BY <1>2, <1>6, <1>7, UpdatedRun
<1>9. /\ f \in [0..Len(q) -> S] /\ f[0] = b
      /\ \A k \in 1..Len(q) : f[k] = Update(f[k - 1], q[k])
      /\ AllUpdated(b, q) = f[Len(q)]
  BY <1>8 DEF UpdatedInTurn
<1> DEFINE Stopped(k) == \E j \in 1..k : q[j].do \notin Beats
           Beaten(k) == \E j \in 1..k : q[j].do \in Beats
           ToldSoFar(s, k) ==
             /\ InOrder(s)
             /\ ~Beaten(k) => \A beat \in Beats : Fits(g, beat) => Fits(s, beat)
             /\ Stopped(k) => ~s.playing /\ s.ended
             /\ ~Stopped(k) => s.playing = g.playing /\ s.ended = g.ended
             /\ ~Stopped(k) /\ ~Beaten(k) => SameStory(g, s)
             /\ ~Stopped(k) /\ Beaten(k) /\ g.playing => BeatDone(g, Beat(GridDeps(g)), s)
             /\ g.playing /\ g.interlude # "none" /\ k > 0 => s.interlude # g.interlude
           T == {k \in Nat : k \in 0..Len(q) => ToldSoFar(f[k], k)}
<1>10. 0 \in T
  <2>1. InOrder(b)
    BY <1>1, <1>4 DEF InOrder, SameStory
  <2>2. \A beat \in Beats : Fits(g, beat) => Fits(b, beat)
    BY <1>4 DEF SameStory, Fits
  <2>3. ~Stopped(0) /\ ~Beaten(0)
    OBVIOUS
  <2>4. b.playing = g.playing /\ b.ended = g.ended /\ SameStory(g, b)
    BY <1>4 DEF SameStory
  <2> HIDE DEF Stopped, Beaten
  <2>5. ToldSoFar(b, 0)
    BY <2>1, <2>2, <2>3, <2>4
  <2> HIDE DEF ToldSoFar
  <2> QED BY <1>9, <2>5
<1>11. ASSUME NEW k \in Nat, k \in T PROVE k + 1 \in T
  <2> SUFFICES ASSUME k + 1 \in 0..Len(q) PROVE ToldSoFar(f[k + 1], k + 1)
    OBVIOUS
  <2>1. k \in 0..Len(q) /\ k + 1 \in 1..Len(q) /\ (k + 1) - 1 = k /\ k + 1 > 0
    BY <1>2
  <2> DEFINE s == f[k]
             r == f[k + 1]
             u == q[k + 1]
  <2>2. ToldSoFar(s, k)
    BY <1>11, <2>1
  <2>3. r = Update(s, u) /\ u \in GridUpdates
    BY <1>3, <1>9, <2>1
  <2>4. Stopped(k + 1) <=> Stopped(k) \/ u.do \notin Beats
    OBVIOUS
  <2>5. Beaten(k + 1) <=> Beaten(k) \/ u.do \in Beats
    OBVIOUS
  <2>6. u.do \in Beats => ~Beaten(k)
    <3> SUFFICES ASSUME u.do \in Beats, Beaten(k) PROVE FALSE
      OBVIOUS
    <3>1. PICK j \in 1..k : q[j].do \in Beats
      OBVIOUS
    <3>2. j \in 1..Len(q) /\ j # k + 1
      BY <2>1
    <3> QED BY <1>5, <2>1, <3>1, <3>2
  <2>7. u.do \in Beats => Fits(g, u.do) /\ (g.playing => u.do = Beat(GridDeps(g)))
    BY <1>5, <2>1
  <2> HIDE DEF Stopped, Beaten, s, r, u
  <2>8. InOrder(s) /\ (u.do \in Beats => Fits(s, u.do))
    BY <2>2, <2>6, <2>7
  <2>9. s \in Fleets
    BY <2>8 DEF InOrder
  <2>10. InOrder(r)
    BY <2>3, <2>8, UpdateKeepsOrder
  <2>11. (u.do \in Beats => BeatDone(s, u.do, r)) /\ (u.do \notin Beats => JumpDone(s, r))
    BY <2>3, <2>9, UpdateFields
  <2>12. CASE u.do \notin Beats
    <3>1. JumpDone(s, r)
      BY <2>11, <2>12
    <3>2. \A beat : Fits(s, beat) => Fits(r, beat)
      BY <3>1, JumpKeepsFits
    <3>3. ~r.playing /\ r.ended /\ r.interlude = "none"
      BY <3>1 DEF JumpDone
    <3> QED BY <2>2, <2>4, <2>5, <2>10, <2>12, <3>2, <3>3 DEF r, u
  <2>13. CASE u.do \in Beats
    <3>1. BeatDone(s, u.do, r)
      BY <2>11, <2>13
    <3>2. r.playing = s.playing /\ r.ended = s.ended
      BY <3>1 DEF BeatDone
    <3>3. ~Stopped(k) => SameStory(g, s)
      BY <2>2, <2>6, <2>13
    <3>4. ~Stopped(k) => BeatDone(g, u.do, r)
      BY <2>2, <3>1, <3>3 DEF BeatDone, SameStory
    <3>5. g.playing /\ g.interlude # "none" => r.interlude # g.interlude
      <4> SUFFICES ASSUME g.playing, g.interlude # "none" PROVE r.interlude # g.interlude
        OBVIOUS
      <4>1. /\ u.do = "handoff" <=> g.interlude = "verdict"
            /\ u.do = "reveal" <=> g.interlude = "handoff"
        BY <1>1, <2>7, <2>13, BeatOfStory
      <4>2. g.interlude \in {"none", "verdict", "handoff"}
        BY <1>1 DEF Fleets, Interludes
      <4> QED BY <3>1, <4>1, <4>2 DEF BeatDone
    <3>6. Stopped(k + 1) <=> Stopped(k)
      BY <2>4, <2>13
    <3>7. Beaten(k + 1)
      BY <2>5, <2>13
    <3>8. g.playing => u.do = Beat(GridDeps(g))
      BY <2>7, <2>13
    <3>9. /\ Stopped(k) => ~r.playing /\ r.ended
          /\ ~Stopped(k) => r.playing = g.playing /\ r.ended = g.ended
      BY <2>2, <3>2
    <3>10. ToldSoFar(r, k + 1)
      BY <2>10, <3>4, <3>5, <3>6, <3>7, <3>8, <3>9
    <3> QED BY <3>10 DEF r
  <2> QED BY <2>12, <2>13
<1> HIDE DEF T
<1>12. Nat \subseteq T
  BY <1>10, <1>11, Induction
<1> DEFINE e == f[Len(q)]
           c == [e EXCEPT !.queue = <<>>]
<1>13. ToldSoFar(e, Len(q))
  BY <1>2, <1>12 DEF T
<1>14. GridRendered(g) = c
  <2>1. GridRendered(g) = [AllUpdated(b, q) EXCEPT !.queue = <<>>]
    BY Zenon DEF GridRendered, AllUpdated, q, b
  <2> QED BY <1>9, <2>1
<1>15. e \in Fleets /\ SameRest(b, e)
  BY <1>2, <1>9 DEF S
<1>16. Beaten(Len(q)) <=> BeatIn(q)
  BY <1>2 DEF BeatIn
<1>17. q # <<>> /\ ~BeatIn(q) => Stopped(Len(q))
  <2> SUFFICES ASSUME q # <<>>, ~BeatIn(q) PROVE Stopped(Len(q))
    OBVIOUS
  <2>1. 1 \in 1..Len(q)
    BY <1>2
  <2> QED BY <1>2, <2>1 DEF BeatIn
<1>18. q # <<>> => Len(q) > 0
  BY <1>2
<1>18a. Stopped(Len(q)) => q # <<>>
  BY <1>2
<1> HIDE DEF e, Stopped, Beaten
<1>19. c \in Fleets /\ c.queue = <<>>
  <2> DEFINE none == <<>>
  <2>1. none \in Seq(GridUpdates)
    OBVIOUS
  <2>2. c = [e EXCEPT !.queue = none]
    OBVIOUS
  <2> HIDE DEF none, c
  <2>3. c \in Fleets /\ c.queue = none
    BY <1>15, <2>1, <2>2 DEF Fleets
  <2> QED BY <2>3 DEF none
<1>20. /\ SameStory(e, c) /\ c.ended = e.ended /\ c.held = e.held
       /\ c.eff = e.eff /\ c.timer = e.timer
  BY <1>15 DEF Fleets, SameStory
<1> HIDE DEF c
<1>21. InOrder(c)
  BY <1>13, <1>19, <1>20 DEF InOrder, SameStory
<1>22. \A beat : Fits(e, beat) => Fits(c, beat)
  BY <1>20 DEF Fits, SameStory
<1>23. GridDeps(c) = GridDeps(e)
  BY <1>20, SameDeps
<1>24. c.playing = e.playing /\ c.interlude = e.interlude
  BY <1>20 DEF SameStory
<1>25. g.playing \in BOOLEAN /\ e.playing \in BOOLEAN
  BY <1>1, <1>15 DEF Fleets
<1>26. e.playing => ~Stopped(Len(q)) /\ g.playing /\ e.ended = g.ended
  BY <1>13, <1>25
<1>27. g.playing /\ ~e.playing => e.ended /\ q # <<>>
  BY <1>13, <1>18a, <1>25
<1>28. e.playing /\ BeatIn(q) => GridDeps(e) # GridDeps(g)
  <2> SUFFICES ASSUME e.playing, BeatIn(q) PROVE GridDeps(e) # GridDeps(g)
    OBVIOUS
  <2>1. BeatDone(g, Beat(GridDeps(g)), e)
    BY <1>13, <1>16, <1>26
  <2> QED BY <1>1, <2>1, BeatGoesOn
<1>29. ~BeatIn(q) => \A beat \in Beats : Fits(g, beat) => Fits(c, beat)
  BY <1>13, <1>16, <1>22
<1>30. g.playing /\ g.interlude # "none" /\ q # <<>> => c.interlude # g.interlude
  BY <1>13, <1>18, <1>24
<1>31. c.eff = GridDeps(g) /\ c.held = g.held /\ c.timer = b.timer
  BY <1>4, <1>15, <1>20 DEF SameRest
<1> HIDE DEF ToldSoFar
<1>32. c.playing /\ q # <<>> => BeatIn(q)
  BY <1>17, <1>24, <1>26
<1>33. c.playing /\ BeatIn(q) => GridDeps(c) # GridDeps(g)
  BY <1>23, <1>24, <1>28
<1>34. c.playing => g.playing /\ c.ended = g.ended
  BY <1>20, <1>24, <1>26
<1>35. g.playing /\ ~c.playing => c.ended /\ q # <<>>
  BY <1>20, <1>24, <1>27
<1>36. c.timer = IF Standing(g) THEN g.timer ELSE g.playing
  BY <1>4, <1>31
<1> QED BY <1>14, <1>19, <1>21, <1>29, <1>30, <1>31, <1>32, <1>33, <1>34, <1>35, <1>36 DEF q

-----------------------------------------------------------------------------
(* The fleet page: what each action leaves.                                *)

\* What a discrete event makes of the rendered story `c` of `g`: if the story
\* goes on as it was, with no timer to drive it, then it stands where playing
\* may stop or the event changed nothing.
GridHandled(g, c, d) ==
    /\ InOrder(d) /\ d.queue = <<>> /\ d.eff = c.eff /\ d.timer = c.timer
    /\ /\ g.playing /\ d.playing /\ Standing(g) /\ d.interlude = g.interlude
       /\ d.interlude = "none" => GridDeps(d) = GridDeps(g)
       => Stalled(d) \/ (c.playing /\ SameStory(c, d) /\ d.ended = c.ended)

\* The story that a discrete event leaves.
LEMMA EventKeepsFleet ==
    ASSUME NEW g, FleetInv(g), ~Throws(g), NEW d, GridHandled(g, GridRendered(g), d), ~Throws(d)
    PROVE  FleetInv(GridEffects(d))
<1> DEFINE c == GridRendered(g)
           r == GridEffects(d)
<1>1. /\ c.eff = GridDeps(g) /\ (c.timer = IF Standing(g) THEN g.timer ELSE g.playing)
      /\ c.playing => g.playing /\ c.ended = g.ended
      /\ g.playing /\ g.interlude # "none" /\ g.queue # <<>> => c.interlude # g.interlude
      /\ c.playing /\ BeatIn(g.queue) => GridDeps(c) # GridDeps(g)
  BY GridRenderedFields
<1>2. /\ InOrder(d) /\ d.queue = <<>> /\ d.eff = c.eff /\ d.timer = c.timer
      /\ /\ g.playing /\ d.playing /\ Standing(g) /\ d.interlude = g.interlude
         /\ d.interlude = "none" => GridDeps(d) = GridDeps(g)
         => Stalled(d) \/ (c.playing /\ SameStory(c, d) /\ d.ended = c.ended)
  BY DEF GridHandled
<1>3. d \in Fleets /\ g \in Fleets
  BY <1>2 DEF InOrder, FleetInv
<1>4. /\ r \in Fleets /\ SameStory(d, r)
      /\ r.ended = d.ended /\ r.held = d.held /\ r.queue = d.queue
      /\ r.eff = GridDeps(d)
      /\ r.timer = IF Standing(d) THEN d.timer ELSE d.playing
  BY <1>3, GridEffectsFields
<1>5. g.playing \in BOOLEAN /\ d.playing \in BOOLEAN /\ g.queue \in Seq(GridUpdates)
  BY <1>3 DEF Fleets
<1> HIDE DEF r, c
<1>6. InOrder(r)
  BY <1>2, <1>4 DEF InOrder, SameStory
<1>7. DOMAIN r.queue = {}
  BY <1>2, <1>4
<1>8. GridDeps(r) = GridDeps(d)
  BY <1>4, SameDeps
<1>9. TimerFits(r)
  <2>1. Fits(d, Beat(GridDeps(d)))
    BY <1>2, BeatOfStory
  <2>2. Fits(r, Beat(GridDeps(d)))
    BY <1>4, <2>1 DEF Fits, SameStory
  <2> QED BY <1>4, <1>8, <2>2 DEF TimerFits
<1>10. ASSUME r.playing, ~r.timer PROVE Stalled(r)
  <2>1. d.playing /\ Standing(d) /\ ~c.timer
    BY <1>2, <1>4, <1>10 DEF SameStory
  <2>2. d.interlude = "none" => GridDeps(d) = GridDeps(g)
    BY <1>1, <1>2, <2>1 DEF Standing
  <2>3. d.interlude # "none" => g.playing = d.playing /\ g.interlude = d.interlude
    <3>1. d.eff = GridDeps(g)
      BY <1>1, <1>2
    <3>2. d.interlude # "none" => GridDeps(g).playing = d.playing /\ GridDeps(g).interlude = d.interlude
      BY <2>1, <3>1 DEF Standing
    <3> QED BY <3>2, GridDepsFields
  <2>4. g.playing /\ g.interlude = d.interlude
    <3>1. CASE d.interlude = "none"
      <4>1. GridDeps(d) = GridDeps(g)
        BY <2>2, <3>1
      <4>2. d.playing = g.playing /\ d.interlude = g.interlude
        BY <4>1, GridDepsFields, Zenon
      <4> QED BY <1>5, <2>1, <4>2
    <3> QED BY <1>5, <2>1, <2>3, <3>1
  <2>5. Standing(g) /\ ~g.timer
    BY <1>1, <2>1, <2>4
  <2>6. Stalled(g) \/ BeatIn(g.queue)
    BY <2>4, <2>5 DEF FleetInv, GridKeepsGoing, BeatIn
  <2>7. Stalled(d)
    <3>1. SUFFICES ASSUME c.playing, SameStory(c, d), d.ended = c.ended PROVE Stalled(d)
      BY <1>2, <2>1, <2>2, <2>4, <2>5
    <3>2. GridDeps(c) = GridDeps(d) /\ c.interlude = d.interlude
      BY <3>1, SameDeps DEF SameStory
    <3>3. ~BeatIn(g.queue)
      <4> SUFFICES ASSUME BeatIn(g.queue) PROVE FALSE
        OBVIOUS
      <4>1. g.queue # <<>>
        BY DEF BeatIn
      <4>2. GridDeps(d) # GridDeps(g)
        BY <1>1, <3>1, <3>2
      <4>3. d.interlude # "none"
        BY <2>2, <4>2
      <4> QED BY <1>1, <2>4, <3>2, <4>1, <4>3
    <3>4. Stalled(g)
      BY <2>6, <3>3
    <3>5. d.interlude = "none" /\ GridDeps(d) = GridDeps(g)
      BY <2>2, <2>4, <3>4 DEF Stalled
    <3>6. d.phaseIndex = g.phaseIndex
      BY <3>5, GridDepsFields, Zenon
    <3>7. d.ended = g.ended
      BY <1>1, <3>1
    <3> QED BY <3>4, <3>5, <3>6, <3>7 DEF Stalled
  <2> QED BY <1>4, <2>7 DEF Stalled, SameStory
<1> QED BY <1>6, <1>7, <1>9, <1>10 DEF FleetInv, BeatWaits, GridKeepsGoing, r

\* What a discrete event comes to, unless the next render throws.
LEMMA FleetEvent ==
    ASSUME FleetInv(fleet), ~Throws(fleet), NEW d, GridHandled(fleet, GridRendered(fleet), d),
           fleet' = IF Throws(d) THEN d ELSE GridEffects(d)
    PROVE  ~Throws(fleet') => FleetInv(fleet')
<1>1. CASE Throws(d)
  BY <1>1
<1>2. CASE ~Throws(d)
  <2>1. FleetInv(GridEffects(d))
    BY <1>2, EventKeepsFleet
  <2> QED BY <1>2, <2>1
<1> QED BY <1>1, <1>2

\* A click on Play, or Space: a story that the render stopped stands at a jump.
LEMMA PlayKeepsFleet ==
    ASSUME FleetInv(fleet), ~Throws(fleet), NEW playing,
           playing = fleet.playing \/ playing = fleet.eff.playing,
           LET d == PlayToggled(GridRendered(fleet), playing)
           IN  fleet' = IF Throws(d) THEN d ELSE GridEffects(d)
    PROVE  ~Throws(fleet') => FleetInv(fleet')
<1> DEFINE c == GridRendered(fleet)
           d == PlayToggled(c, playing)
<1>1. /\ InOrder(c) /\ c.queue = <<>>
      /\ fleet.playing /\ ~c.playing => c.ended /\ fleet.queue # <<>>
      /\ fleet.playing /\ fleet.interlude # "none" /\ fleet.queue # <<>> =>
           c.interlude # fleet.interlude
  BY GridRenderedFields
<1>2. fleet' = IF Throws(d) THEN d ELSE GridEffects(d)
  OBVIOUS
<1>3. fleet.playing \in BOOLEAN /\ fleet.eff.playing \in BOOLEAN
  BY DEF FleetInv, InOrder, Fleets
<1> HIDE DEF c
<1>4. c \in Fleets /\ c.playing \in BOOLEAN /\ c.ended \in BOOLEAN
  BY <1>1 DEF InOrder, Fleets
<1> DEFINE on == ~c.playing
           e == IF playing THEN c.ended ELSE FALSE
<1>5. on \in BOOLEAN /\ e \in BOOLEAN /\ (on <=> ~c.playing) /\ (playing => e = c.ended)
  BY <1>4
<1>6. d = [c EXCEPT !.playing = on, !.ended = e]
  BY <1>4 DEF PlayToggled, Fleets
<1> HIDE DEF d, on, e
<1>7. d \in Fleets
  BY <1>4, <1>5, <1>6 DEF Fleets
<1>8. /\ d.mode = c.mode /\ d.phaseIndex = c.phaseIndex /\ d.wave = c.wave
      /\ d.attempt = c.attempt /\ d.interlude = c.interlude
      /\ d.queue = c.queue /\ d.eff = c.eff /\ d.timer = c.timer
      /\ d.playing = on /\ d.ended = e
  BY <1>4, <1>6 DEF Fleets
<1>9. InOrder(d)
  BY <1>1, <1>7, <1>8 DEF InOrder
<1>10. ASSUME fleet.playing, d.playing, Standing(fleet), d.interlude = fleet.interlude
       PROVE  Stalled(d)
  <2>1. c.ended /\ fleet.queue # <<>>
    BY <1>1, <1>5, <1>8, <1>10
  <2>2. fleet.interlude = "none"
    BY <1>1, <1>8, <1>10, <2>1
  <2>3. fleet.eff.playing = fleet.playing
    BY <1>10, <2>2, GridDepsFields DEF Standing
  <2>4. playing
    BY <1>10, <2>3
  <2> QED BY <1>5, <1>8, <1>10, <2>1, <2>2, <2>4 DEF Stalled
<1>11. GridHandled(fleet, c, d)
  BY <1>1, <1>8, <1>9, <1>10 DEF GridHandled
<1> QED BY <1>2, <1>11, FleetEvent DEF c

\* A jump stops the story.
LEMMA JumpKeepsFleet ==
    ASSUME FleetInv(fleet), ~Throws(fleet), NEW mode, NEW index \in Nat, NEW d,
           LET r == JumpTo(GridRendered(fleet), mode, index)
           IN  d = r \/ d = [r EXCEPT !.held = TRUE],
           fleet' = IF Throws(d) THEN d ELSE GridEffects(d)
    PROVE  ~Throws(fleet') => FleetInv(fleet')
<1> DEFINE c == GridRendered(fleet)
           r == JumpTo(c, mode, index)
<1>1. InOrder(c) /\ c.queue = <<>>
  BY GridRenderedFields
<1> HIDE DEF c
<1>2. c \in Fleets /\ c.attempt \in 1..MAX_ATTEMPTS /\ (c.mode = "with" => c.attempt = 1)
  BY <1>1 DEF InOrder
<1>3. /\ r \in Fleets /\ SameRest(c, r) /\ r.mode = c.mode /\ r.attempt = c.attempt
      /\ r.wave \in {0, STAGGER_WAVES - 1} /\ r.interlude = "none" /\ ~r.playing
  BY <1>2, JumpFields
<1>4. d = r \/ d = [r EXCEPT !.held = TRUE]
  BY DEF c
<1> HIDE DEF r
<1>5. /\ d \in Fleets /\ d.mode = r.mode /\ d.attempt = r.attempt /\ d.wave = r.wave
      /\ d.interlude = r.interlude /\ d.playing = r.playing
      /\ d.queue = r.queue /\ d.eff = r.eff /\ d.timer = r.timer
  BY <1>3, <1>4 DEF Fleets
<1>6. InOrder(d)
  BY <1>2, <1>3, <1>5 DEF InOrder, STAGGER_WAVES
<1>7. GridHandled(fleet, c, d)
  BY <1>1, <1>3, <1>5, <1>6 DEF GridHandled, SameRest
<1> QED BY <1>7, FleetEvent DEF c

\* A fleet that is picked starts at the pause.
LEMMA PickKeepsFleet ==
    ASSUME FleetInv(fleet), ~Throws(fleet), NEW mode \in Modes, PickMode(mode)
    PROVE  ~Throws(fleet') => FleetInv(fleet')
<1> DEFINE c == GridRendered(fleet)
           d == [c EXCEPT !.interlude = "none", !.mode = mode, !.wave = 0, !.attempt = 1,
                          !.failed = FALSE, !.phaseIndex = HOLD_INDEX, !.playing = TRUE,
                          !.ended = FALSE]
<1>1. InOrder(c) /\ c.queue = <<>>
  BY GridRenderedFields
<1>2. fleet' = IF Throws(d) THEN d ELSE GridEffects(d)
  BY DEF PickMode, GridDoes
<1> HIDE DEF c
<1>3. c \in Fleets
  BY <1>1 DEF InOrder
<1>4. d \in Fleets
  BY <1>3 DEF Fleets, HOLD_INDEX, Interludes
<1>5. /\ d.wave = 0 /\ d.attempt = 1 /\ d.interlude = "none" /\ d.phaseIndex = HOLD_INDEX
      /\ d.queue = c.queue /\ d.eff = c.eff /\ d.timer = c.timer
  BY <1>3 DEF Fleets
<1> HIDE DEF d
<1>6. InOrder(d)
  BY <1>4, <1>5 DEF InOrder, STAGGER_WAVES, MAX_ATTEMPTS
<1>7. GridHandled(fleet, c, d)
  BY <1>1, <1>5, <1>6 DEF GridHandled, Stalled
<1> QED BY <1>2, <1>7, FleetEvent DEF c

\* A card that is skipped is left for the story after it.
LEMMA SkipKeepsFleet ==
    ASSUME FleetInv(fleet), ~Throws(fleet), SkipInterlude
    PROVE  ~Throws(fleet') => FleetInv(fleet')
<1> DEFINE c == GridRendered(fleet)
           s == IF fleet.interlude = "verdict" THEN StartWith(c) ELSE c
           d == [s EXCEPT !.interlude = "none", !.playing = TRUE]
<1>1. InOrder(c) /\ c.queue = <<>>
  BY GridRenderedFields
<1>2. fleet' = (IF Throws(d) THEN d ELSE GridEffects(d)) /\ fleet.interlude # "none"
  BY DEF SkipInterlude, GridDoes, Skip
<1> HIDE DEF c
<1>3. /\ c \in Fleets /\ c.attempt \in 1..MAX_ATTEMPTS /\ c.wave \in 0..STAGGER_WAVES
      /\ c.mode = "with" => c.attempt = 1
  BY <1>1 DEF InOrder
<1>4. /\ s \in Fleets /\ s.attempt \in 1..MAX_ATTEMPTS /\ s.wave \in 0..STAGGER_WAVES
      /\ s.mode = "with" => s.attempt = 1
      /\ s.queue = c.queue /\ s.eff = c.eff /\ s.timer = c.timer
  <2> DEFINE r == [c EXCEPT !.mode = "with", !.phaseIndex = 0, !.wave = 0,
                            !.attempt = 1, !.failed = FALSE]
  <2>1. r \in Fleets
    BY <1>3 DEF Fleets, Modes
  <2>2. /\ r.attempt = 1 /\ r.wave = 0
        /\ r.queue = c.queue /\ r.eff = c.eff /\ r.timer = c.timer
    BY <1>3 DEF Fleets
  <2>3. s = r \/ s = c
    BY DEF StartWith
  <2> HIDE DEF r, s
  <2> QED BY <1>3, <2>1, <2>2, <2>3 DEF MAX_ATTEMPTS, STAGGER_WAVES
<1> HIDE DEF s
<1>5. d \in Fleets
  BY <1>4 DEF Fleets, Interludes
<1>6. /\ d.wave = s.wave /\ d.attempt = s.attempt /\ d.mode = s.mode /\ d.interlude = "none"
      /\ d.queue = s.queue /\ d.eff = s.eff /\ d.timer = s.timer
  BY <1>4 DEF Fleets
<1> HIDE DEF d
<1>7. InOrder(d)
  BY <1>4, <1>5, <1>6 DEF InOrder
<1>8. GridHandled(fleet, c, d)
  BY <1>1, <1>2, <1>4, <1>6, <1>7 DEF GridHandled
<1> QED BY <1>2, <1>8, FleetEvent DEF c

\* A render of the whole page changes nothing of the story.
LEMMA IdleKeepsFleet ==
    ASSUME FleetInv(fleet), ~Throws(fleet), GridDoes(LAMBDA g : g)
    PROVE  ~Throws(fleet') => FleetInv(fleet')
<1> DEFINE c == GridRendered(fleet)
<1>1. InOrder(c) /\ c.queue = <<>>
  BY GridRenderedFields
<1>2. fleet' = IF Throws(c) THEN c ELSE GridEffects(c)
  BY DEF GridDoes
<1> HIDE DEF c
<1>3. c.playing \in BOOLEAN
  BY <1>1 DEF InOrder, Fleets
<1>4. GridHandled(fleet, c, c)
  BY <1>1, <1>3 DEF GridHandled, SameStory
<1> QED BY <1>2, <1>4, FleetEvent DEF c

\* The timer leaves a beat in the queue.
LEMMA TimerKeepsFleet ==
    ASSUME FleetInv(fleet), GridTimerFires
    PROVE  FleetInv(fleet')
<1> DEFINE beat == Beat(fleet.eff)
           u == [do |-> beat]
           q == Append(fleet.queue, u)
           n == Len(fleet.queue)
<1>1. /\ fleet \in Fleets /\ fleet.queue \in Seq(GridUpdates) /\ fleet.timer
      /\ fleet.eff.interlude \in {"none", "verdict", "handoff"}
  BY DEF FleetInv, InOrder, Fleets, GridTimerFires, Interludes
<1>2. beat \in Beats
  BY <1>1 DEF Beat, Beats
<1>3. Fits(fleet, beat) /\ (fleet.playing => fleet.eff = GridDeps(fleet))
  BY <1>1 DEF FleetInv, TimerFits
<1>4. \A k \in DOMAIN fleet.queue : fleet.queue[k].do \notin Beats
  BY <1>1 DEF FleetInv, BeatWaits
<1> HIDE DEF beat
<1>5. u \in GridUpdates /\ u.do = beat
  BY <1>2 DEF GridUpdates
<1> HIDE DEF u
<1>6. /\ q \in Seq(GridUpdates) /\ DOMAIN q = 1..(n + 1) /\ q[n + 1] = u
      /\ n + 1 \in DOMAIN q
  BY <1>1, <1>5
<1>7. \A k \in DOMAIN q : q[k].do \in Beats => k = n + 1
  BY <1>1, <1>4, <1>5
<1>8. fleet' = [fleet EXCEPT !.timer = FALSE, !.queue = q]
  BY <1>1 DEF GridTimerFires, u, Fleets, beat
<1> HIDE DEF q, n
<1>9. fleet' \in Fleets
  BY <1>1, <1>6, <1>8 DEF Fleets
<1>10. /\ SameStory(fleet, fleet') /\ fleet'.ended = fleet.ended /\ fleet'.eff = fleet.eff
       /\ fleet'.queue = q /\ fleet'.timer = FALSE
  BY <1>1, <1>8 DEF Fleets, SameStory
<1>11. InOrder(fleet')
  BY <1>9, <1>10 DEF FleetInv, InOrder, SameStory
<1>12. GridDeps(fleet') = GridDeps(fleet)
  BY <1>10, SameDeps
<1>13. Fits(fleet', beat)
  BY <1>3, <1>10 DEF Fits, SameStory
<1>14. BeatWaits(fleet')
  <2>1. \A j, k \in DOMAIN q : q[j].do \in Beats /\ q[k].do \in Beats => j = k
    BY <1>7
  <2>2. \A k \in DOMAIN q : q[k].do \in Beats => q[k].do = beat
    BY <1>5, <1>6, <1>7
  <2>3. fleet'.playing => fleet'.eff = GridDeps(fleet') /\ beat = Beat(fleet'.eff)
    BY <1>3, <1>10, <1>12 DEF SameStory, beat
  <2> QED BY <1>10, <1>13, <2>1, <2>2, <2>3 DEF BeatWaits
<1>15. GridKeepsGoing(fleet')
  BY <1>2, <1>5, <1>6, <1>10 DEF GridKeepsGoing
<1> QED BY <1>10, <1>11, <1>14, <1>15 DEF FleetInv, TimerFits

\* A jump that waits is no beat.
LEMMA ScrubKeepsFleet ==
    ASSUME FleetInv(fleet), NEW index \in Nat, ScrubPhase(index)
    PROVE  FleetInv(fleet')
<1> DEFINE u == [do |-> "jump", mode |-> fleet.mode, index |-> index]
           q == Append(fleet.queue, u)
           n == Len(fleet.queue)
<1>1. fleet \in Fleets /\ fleet.queue \in Seq(GridUpdates) /\ fleet.mode \in Modes
  BY DEF FleetInv, InOrder, Fleets
<1>2. u \in GridUpdates /\ u.do \notin Beats
  BY <1>1 DEF GridUpdates, Beats
<1> HIDE DEF u
<1>3. /\ q \in Seq(GridUpdates) /\ DOMAIN q = 1..(n + 1) /\ q[n + 1] = u
      /\ DOMAIN fleet.queue = 1..n /\ n \in Nat
  BY <1>1, <1>2
<1>4. \A k \in DOMAIN fleet.queue : k \in DOMAIN q /\ q[k] = fleet.queue[k]
  BY <1>1, <1>2
<1>5. \A k \in DOMAIN q : q[k].do \in Beats => k \in DOMAIN fleet.queue
  BY <1>2, <1>3
<1>6. fleet' = [fleet EXCEPT !.queue = q]
  BY <1>1 DEF ScrubPhase, u, Fleets
<1> HIDE DEF q, n
<1>7. fleet' \in Fleets
  BY <1>1, <1>3, <1>6 DEF Fleets
<1>8. /\ SameStory(fleet, fleet') /\ fleet'.ended = fleet.ended /\ fleet'.eff = fleet.eff
      /\ fleet'.queue = q /\ fleet'.timer = fleet.timer
  BY <1>1, <1>6 DEF Fleets, SameStory
<1>9. GridDeps(fleet') = GridDeps(fleet)
  BY <1>8, SameDeps
<1>10. \A beat : Fits(fleet, beat) => Fits(fleet', beat)
  BY <1>8 DEF Fits, SameStory
<1>11. InOrder(fleet')
  BY <1>7, <1>8 DEF FleetInv, InOrder, SameStory
<1>12. BeatWaits(fleet')
  <2>1. \A j, k \in DOMAIN q : q[j].do \in Beats /\ q[k].do \in Beats => j = k
    BY <1>4, <1>5 DEF FleetInv, BeatWaits
  <2>2. ASSUME NEW k \in DOMAIN q, q[k].do \in Beats
        PROVE  /\ Fits(fleet', q[k].do) /\ ~fleet'.timer
               /\ fleet'.playing => fleet'.eff = GridDeps(fleet') /\ q[k].do = Beat(fleet'.eff)
    <3>1. k \in DOMAIN fleet.queue /\ fleet.queue[k] = q[k]
      BY <1>4, <1>5, <2>2
    <3>2. /\ Fits(fleet, q[k].do) /\ ~fleet.timer
          /\ fleet.playing => fleet.eff = GridDeps(fleet) /\ q[k].do = Beat(fleet.eff)
      BY <2>2, <3>1 DEF FleetInv, BeatWaits
    <3> QED BY <1>8, <1>9, <1>10, <3>2 DEF SameStory
  <2> QED BY <1>8, <2>1, <2>2 DEF BeatWaits
<1>13. TimerFits(fleet')
  BY <1>8, <1>9, <1>10 DEF FleetInv, TimerFits, SameStory
<1>14. GridKeepsGoing(fleet')
  <2>1. Standing(fleet') => Standing(fleet)
    BY <1>8, <1>9 DEF Standing, SameStory
  <2>2. Stalled(fleet) => Stalled(fleet')
    BY <1>8 DEF Stalled, SameStory
  <2>3. fleet'.playing = fleet.playing
    BY <1>8 DEF SameStory
  <2> QED BY <1>4, <1>8, <2>1, <2>2, <2>3 DEF FleetInv, GridKeepsGoing
<1> QED BY <1>11, <1>12, <1>13, <1>14 DEF FleetInv

\* Letting go of the track.
LEMMA ReleaseKeepsFleet ==
    ASSUME FleetInv(fleet), ReleasePhase
    PROVE  FleetInv(fleet')
<1>1. fleet \in Fleets /\ fleet' = [fleet EXCEPT !.held = FALSE]
  BY DEF FleetInv, InOrder, ReleasePhase
<1>2. fleet' \in Fleets
  BY <1>1 DEF Fleets
<1>3. /\ SameStory(fleet, fleet') /\ fleet'.ended = fleet.ended /\ fleet'.eff = fleet.eff
      /\ fleet'.queue = fleet.queue /\ fleet'.timer = fleet.timer
  BY <1>1 DEF Fleets, SameStory
<1>4. GridDeps(fleet') = GridDeps(fleet)
  BY <1>3, SameDeps
<1>5. \A beat : Fits(fleet, beat) => Fits(fleet', beat)
  BY <1>3 DEF Fits, SameStory
<1>6. InOrder(fleet')
  BY <1>2, <1>3 DEF FleetInv, InOrder, SameStory
<1>7. BeatWaits(fleet')
  BY <1>3, <1>4, <1>5 DEF FleetInv, BeatWaits, SameStory
<1>8. TimerFits(fleet')
  BY <1>3, <1>4, <1>5 DEF FleetInv, TimerFits, SameStory
<1>9. GridKeepsGoing(fleet')
  <2>1. Standing(fleet') => Standing(fleet)
    BY <1>3, <1>4 DEF Standing, SameStory
  <2>2. Stalled(fleet) => Stalled(fleet')
    BY <1>3 DEF Stalled, SameStory
  <2> QED BY <1>3, <2>1, <2>2 DEF FleetInv, GridKeepsGoing, SameStory
<1> QED BY <1>6, <1>7, <1>8, <1>9 DEF FleetInv

\* A render: what waited is done, and effects run after it.
LEMMA RenderKeepsFleet ==
    ASSUME FleetInv(fleet), ~Throws(fleet), RenderGrid
    PROVE  FleetInv(fleet')
<1> DEFINE g == fleet
           c == GridRendered(g)
<1>1. /\ InOrder(c) /\ c.queue = <<>> /\ c.eff = GridDeps(g)
      /\ c.timer = IF Standing(g) THEN g.timer ELSE g.playing
      /\ c.playing => g.playing /\ c.ended = g.ended
      /\ g.playing /\ g.interlude # "none" /\ g.queue # <<>> => c.interlude # g.interlude
      /\ c.playing /\ g.queue # <<>> => BeatIn(g.queue)
      /\ c.playing /\ BeatIn(g.queue) => GridDeps(c) # GridDeps(g)
      /\ ~BeatIn(g.queue) => \A beat \in Beats : Fits(g, beat) => Fits(c, beat)
  BY GridRenderedFields
<1>2. fleet' = c /\ g.queue # <<>>
  BY DEF RenderGrid
<1>3. InOrder(g) /\ BeatWaits(g)
  BY DEF FleetInv
<1>4. Beat(GridDeps(g)) \in Beats /\ Fits(g, Beat(GridDeps(g)))
  BY <1>3, BeatOfStory
<1> HIDE DEF c
<1>5. c.playing => BeatIn(g.queue)
  BY <1>1, <1>2
<1>6. BeatIn(g.queue) => ~c.timer
  <2> SUFFICES ASSUME BeatIn(g.queue) PROVE ~c.timer
    OBVIOUS
  <2>1. ~g.timer /\ (g.playing => g.eff = GridDeps(g))
    BY <1>3 DEF BeatWaits, BeatIn
  <2>2. g.playing => Standing(g)
    <3> SUFFICES ASSUME g.playing PROVE Standing(g)
      OBVIOUS
    <3>1. g.eff = GridDeps(g)
      BY <2>1
    <3> QED BY <3>1, GridDepsFields DEF Standing
  <2> QED BY <1>1, <2>1, <2>2
<1>7. BeatWaits(c)
  <2>1. DOMAIN c.queue = {}
    BY <1>1
  <2> QED BY <2>1 DEF BeatWaits
<1>8. TimerFits(c)
  BY <1>1, <1>4, <1>5, <1>6 DEF TimerFits
<1>9. ASSUME Standing(c), c.playing PROVE FALSE
  <2>1. GridDeps(c) # GridDeps(g) /\ g.playing
    BY <1>1, <1>5, <1>9
  <2>2. c.interlude # "none" /\ c.eff.interlude = c.interlude
    BY <1>1, <1>9, <2>1 DEF Standing
  <2>3. g.interlude = c.interlude
    BY <1>1, <2>2, GridDepsFields
  <2> QED BY <1>1, <1>2, <2>1, <2>2, <2>3
<1> QED BY <1>1, <1>2, <1>7, <1>8, <1>9 DEF FleetInv, GridKeepsGoing

\* Effects that run on their own.
LEMMA EffectsKeepFleet ==
    ASSUME FleetInv(fleet), RunGridEffects
    PROVE  FleetInv(fleet')
<1> DEFINE g == fleet
           r == GridEffects(g)
<1>1. InOrder(g) /\ BeatWaits(g) /\ GridKeepsGoing(g) /\ g \in Fleets
  BY DEF FleetInv, InOrder
<1>2. fleet' = r /\ ~Throws(g)
  BY DEF RunGridEffects
<1>3. /\ r \in Fleets /\ SameStory(g, r)
      /\ r.ended = g.ended /\ r.queue = g.queue /\ r.eff = GridDeps(g)
      /\ r.timer = IF Standing(g) THEN g.timer ELSE g.playing
  BY <1>1, GridEffectsFields
<1>4. Fits(g, Beat(GridDeps(g)))
  BY <1>1, <1>2, BeatOfStory
<1>4a. g.playing \in BOOLEAN
  BY <1>1 DEF Fleets
<1>4b. g.eff = GridDeps(g) => Standing(g)
  <2> SUFFICES ASSUME g.eff = GridDeps(g) PROVE Standing(g)
    OBVIOUS
  <2> QED BY GridDepsFields DEF Standing
<1> HIDE DEF r
<1>5. GridDeps(r) = GridDeps(g)
  BY <1>3, SameDeps
<1>6. \A beat : Fits(g, beat) => Fits(r, beat)
  BY <1>3 DEF Fits, SameStory
<1>7. InOrder(r)
  BY <1>1, <1>3 DEF InOrder, SameStory
<1>8. BeatWaits(r)
  <2>1. ASSUME NEW k \in DOMAIN g.queue, g.queue[k].do \in Beats
        PROVE  /\ Fits(r, g.queue[k].do) /\ ~r.timer
               /\ r.playing => r.eff = GridDeps(r) /\ g.queue[k].do = Beat(r.eff)
    <3>1. /\ Fits(g, g.queue[k].do) /\ ~g.timer
          /\ g.playing => g.eff = GridDeps(g) /\ g.queue[k].do = Beat(g.eff)
      BY <1>1, <2>1 DEF BeatWaits
    <3>2. ~r.timer
      BY <1>3, <1>4a, <1>4b, <3>1
    <3>3. r.playing = g.playing
      BY <1>3 DEF SameStory
    <3> QED BY <1>3, <1>5, <1>6, <3>1, <3>2, <3>3
  <2>2. \A j, k \in DOMAIN g.queue : g.queue[j].do \in Beats /\ g.queue[k].do \in Beats => j = k
    BY <1>1 DEF BeatWaits
  <2> QED BY <1>3, <2>1, <2>2 DEF BeatWaits
<1>9. TimerFits(r)
  BY <1>3, <1>4, <1>5, <1>6 DEF TimerFits
<1>10. GridKeepsGoing(r)
  <2> SUFFICES ASSUME r.playing, ~r.timer PROVE Stalled(r) \/ BeatIn(r.queue)
    BY DEF GridKeepsGoing, BeatIn
  <2>1. g.playing /\ Standing(g) /\ ~g.timer
    BY <1>3 DEF SameStory
  <2>2. Stalled(g) \/ BeatIn(g.queue)
    BY <1>1, <2>1 DEF GridKeepsGoing, BeatIn
  <2>3. Stalled(g) => Stalled(r)
    BY <1>3 DEF Stalled, SameStory
  <2> QED BY <1>3, <2>2, <2>3
<1> QED BY <1>2, <1>7, <1>8, <1>9, <1>10 DEF FleetInv

\* The story starts with the fleet that has a fixed delay.
LEMMA OpenedFleet ==
    ASSUME NEW reduced \in BOOLEAN
    PROVE  FleetInv(OpenFleet(reduced))
<1> DEFINE b == ~reduced
           queue == <<>>
           u == [mode |-> "without", phaseIndex |-> 0, wave |-> 0, attempt |-> 1, failed |-> FALSE,
                 interlude |-> "none", playing |-> b, ended |-> FALSE,
                 held |-> FALSE, queue |-> queue, eff |-> "none", timer |-> FALSE]
           e == GridDeps(u)
           g == [u EXCEPT !.eff = e, !.timer = b]
<1>1. OpenFleet(reduced) = g
  BY DEF OpenFleet
<1>2. b \in BOOLEAN /\ queue \in Seq(GridUpdates) /\ DOMAIN queue = {}
  OBVIOUS
<1> HIDE DEF b, queue
<1>3. e = [mode |-> "without", phaseIndex |-> 0, wave |-> 0, attempt |-> 1, failed |-> FALSE,
           interlude |-> "none", playing |-> b]
  BY DEF GridDeps
<1> HIDE DEF e
<1>4. e \in [mode : Modes, phaseIndex : Nat, wave : Nat, attempt : Nat, failed : BOOLEAN,
             interlude : Interludes, playing : BOOLEAN]
  BY <1>2, <1>3 DEF Modes, Interludes
<1> DEFINE Blank == [mode : Modes, phaseIndex : Nat, wave : Nat, attempt : Nat, failed : BOOLEAN,
                     interlude : Interludes, playing : BOOLEAN, ended : BOOLEAN, held : BOOLEAN,
                     queue : Seq(GridUpdates), eff : {"none"}, timer : BOOLEAN]
<1>5. /\ u \in Blank /\ u.mode = "without" /\ u.phaseIndex = 0 /\ u.wave = 0 /\ u.attempt = 1
      /\ u.interlude = "none" /\ u.queue = queue /\ u.playing = b
  BY <1>2 DEF Modes, Interludes
<1>5a. e = GridDeps(u)
  BY DEF e
<1> HIDE DEF u
<1>6. g \in Fleets
  BY <1>2, <1>4, <1>5 DEF Fleets
<1>7. /\ g.mode = "without" /\ g.phaseIndex = 0 /\ g.wave = 0 /\ g.attempt = 1
      /\ g.interlude = "none" /\ g.queue = queue /\ g.playing = b /\ g.eff = e /\ g.timer = b
      /\ SameStory(u, g)
  BY <1>5 DEF SameStory
<1> HIDE DEF g
<1>8. GridDeps(g) = e
  BY <1>5a, <1>7, SameDeps
<1>9. InOrder(g)
  BY <1>6, <1>7 DEF InOrder, MAX_ATTEMPTS, STAGGER_WAVES
<1>10. Fits(g, Beat(e))
  <2>1. ~Throws(g)
    BY <1>7, PhasesAre DEF Throws
  <2> QED BY <1>8, <1>9, <2>1, BeatOfStory
<1> QED BY <1>1, <1>2, <1>7, <1>8, <1>9, <1>10
        DEF FleetInv, BeatWaits, TimerFits, GridKeepsGoing

\* What the viewer does to the fleet page.
LEMMA ViewerKeepsFleet ==
    ASSUME FleetInv(fleet), ~Throws(fleet), GridViewer
    PROVE  ~Throws(fleet') => FleetInv(fleet')
<1>1. /\ fleet.mode \in Modes /\ fleet.eff.mode \in Modes /\ fleet.eff.phaseIndex \in Nat
  BY DEF FleetInv, InOrder, Fleets
<1>2. \A mode \in Modes : LastPhase(mode) \in Nat
  BY PhasesAre DEF Modes
<1>3. ASSUME NEW mode, NEW index \in Nat, NEW d,
             LET r == JumpTo(GridRendered(fleet), mode, index)
             IN  d = r \/ d = [r EXCEPT !.held = TRUE],
             fleet' = IF Throws(d) THEN d ELSE GridEffects(d)
      PROVE  ~Throws(fleet') => FleetInv(fleet')
  BY <1>3, JumpKeepsFleet
<1>4. CASE ClickGridPlay
  <2> DEFINE d == PlayToggled(GridRendered(fleet), fleet.playing)
  <2>1. fleet' = IF Throws(d) THEN d ELSE GridEffects(d)
    BY <1>4 DEF ClickGridPlay, GridDoes
  <2> QED BY <2>1, PlayKeepsFleet
<1>5. CASE PressGridSpace
  <2> DEFINE d == PlayToggled(GridRendered(fleet), fleet.eff.playing)
  <2>1. fleet' = IF Throws(d) THEN d ELSE GridEffects(d)
    BY <1>5 DEF PressGridSpace, GridDoes
  <2> QED BY <2>1, PlayKeepsFleet
<1>6. CASE PressGridRight
  <2> DEFINE last == LastPhase(fleet.eff.mode)
             index == IF fleet.eff.phaseIndex < last THEN fleet.eff.phaseIndex + 1 ELSE last
             d == JumpTo(GridRendered(fleet), fleet.eff.mode, index)
  <2>1. index \in Nat
    BY <1>1, <1>2
  <2>2. fleet' = IF Throws(d) THEN d ELSE GridEffects(d)
    BY <1>6 DEF PressGridRight, GridDoes
  <2> HIDE DEF index
  <2> QED BY <1>3, <2>1, <2>2
<1>7. CASE PressGridLeft
  <2> DEFINE index == IF fleet.eff.phaseIndex > 0 THEN fleet.eff.phaseIndex - 1 ELSE 0
             d == JumpTo(GridRendered(fleet), fleet.eff.mode, index)
  <2>1. index \in Nat
    BY <1>1
  <2>2. fleet' = IF Throws(d) THEN d ELSE GridEffects(d)
    BY <1>7 DEF PressGridLeft, GridDoes
  <2> HIDE DEF index
  <2> QED BY <1>3, <2>1, <2>2
<1>8. ASSUME NEW index \in Nat, PickPhase(index) PROVE ~Throws(fleet') => FleetInv(fleet')
  <2> DEFINE d == JumpTo(GridRendered(fleet), fleet.mode, index)
  <2>1. fleet' = IF Throws(d) THEN d ELSE GridEffects(d)
    BY <1>8 DEF PickPhase, GridDoes
  <2> QED BY <1>3, <2>1
<1>9. ASSUME NEW index \in Nat, PressPhase(index) PROVE ~Throws(fleet') => FleetInv(fleet')
  <2> DEFINE d == [JumpTo(GridRendered(fleet), fleet.mode, index) EXCEPT !.held = TRUE]
  <2>1. fleet' = IF Throws(d) THEN d ELSE GridEffects(d)
    BY <1>9 DEF PressPhase, GridDoes
  <2> QED BY <1>3, <2>1
<1>10. \A index \in 0..5 : index \in Nat
  OBVIOUS
<1> QED BY <1>4, <1>5, <1>6, <1>7, <1>8, <1>9, <1>10, SkipKeepsFleet, ReleaseKeepsFleet,
           ScrubKeepsFleet, PickKeepsFleet DEF GridViewer

-----------------------------------------------------------------------------
(* The application: what is mounted for the route.                         *)

\* An address leads to a page that exists.
LEMMA ParsedRoute ==
    ASSUME NEW hash, hash.step \in Int
    PROVE  RouteOK(ParseHash(hash))
<1>1. "S1" \in Ids
  BY DEF Ids
<1> QED BY <1>1 DEF ParseHash, RouteOK, NoStep

\* What is mounted anew.
LEMMA MountedKeeps ==
    ASSUME NEW r, RouteOK(r), NEW reduced \in BOOLEAN
    PROVE  /\ r.tab = "station" => PageInv(PageFor(r, reduced))
           /\ r.tab # "station" => FleetInv(FleetFor(r, reduced))
<1>1. r.tab \in {"station", "grid"} /\ r.scenario \in Ids /\ r.step \in Int
  BY DEF RouteOK
<1>2. PageInv(OpenPage(r.scenario, r.step, reduced))
  BY <1>1, LibraryFits, OpenedPage
<1>3. FleetInv(OpenFleet(reduced))
  BY OpenedFleet
<1> QED BY <1>1, <1>2, <1>3 DEF PageFor, FleetFor

\* A change of the route, or a render of the page of the same route.
LEMMA RouteKeeps ==
    ASSUME RouteOK(route), InFront(route, page, fleet), ~Crashed,
           NEW next, RouteOK(next), NEW reduced \in BOOLEAN, SetRoute(next, reduced)
    PROVE  RouteOK(route') /\ InFront(route', page', fleet')
<1>1. route' = next
  BY DEF SetRoute
<1>2. CASE next.tab = route.tab /\ (next.tab = "grid" \/ next = route)
  <2>1. CASE AtStation
    <3>1. Does(LAMBDA p : p)
      BY <1>2, <2>1 DEF SetRoute
    <3>2. page' = WithEffects(Rendered(page))
      BY <3>1 DEF Does
    <3>3. PageInv(page)
      BY <2>1 DEF InFront, AtStation
    <3>4. PageInv(page')
      BY <3>2, <3>3, LibraryFits, IdleEvent
    <3> QED BY <1>1, <1>2, <2>1, <3>4 DEF InFront, AtStation
  <2>2. CASE ~AtStation
    <3>1. GridDoes(LAMBDA g : g)
      BY <1>2, <2>2 DEF SetRoute
    <3>2. FleetInv(fleet) /\ ~Throws(fleet)
      BY <2>2 DEF InFront, AtStation, Crashed
    <3>3. ~Throws(fleet') => FleetInv(fleet')
      BY <3>1, <3>2, IdleKeepsFleet
    <3> QED BY <1>1, <1>2, <2>2, <3>3 DEF InFront, AtStation
  <2> QED BY <2>1, <2>2
<1>3. CASE ~(next.tab = route.tab /\ (next.tab = "grid" \/ next = route))
  <2>1. page' = PageFor(next, reduced) /\ fleet' = FleetFor(next, reduced)
    BY <1>3 DEF SetRoute
  <2> QED BY <1>1, <2>1, MountedKeeps DEF InFront
<1> QED BY <1>1, <1>2, <1>3

\* A move in the application mounts a page of the library.
LEMMA MoveKeeps ==
    ASSUME AppInv, MoveOn PROVE AppInv'
<1>1. RouteOK(route) /\ address.step \in Int /\ InFront(route, page, fleet)
  BY DEF AppInv
<1>2. route.scenario \in Ids /\ NoStep \in Int
  BY <1>1 DEF RouteOK, NoStep
<1>3. PICK reduced \in BOOLEAN :
         \/ Reload(reduced) \/ OpenStation(reduced) \/ ChooseNext(reduced)
         \/ \E hash \in Addresses : EnterAddress(hash, reduced)
         \/ \E tab \in {"station", "grid"} : ClickNavTab(tab, reduced)
         \/ \E id \in Ids : Choose(id, reduced)
  BY DEF MoveOn
<1>4. ASSUME NEW next, RouteOK(next), ~Crashed, SetRoute(next, reduced), address'.step \in Int
      PROVE  AppInv'
  <2>1. RouteOK(route') /\ InFront(route', page', fleet')
    BY <1>1, <1>4, RouteKeeps
  <2> QED BY <1>4, <2>1 DEF AppInv
<1>5. ASSUME NEW next, RouteOK(next), ~Crashed, Go(next, reduced) PROVE AppInv'
  <2>1. SetRoute(next, reduced)
    BY <1>5 DEF Go
  <2>2. address'.step = 0
    BY <1>5 DEF Go, GridAddress, StationAddress
  <2> QED BY <1>4, <1>5, <2>1, <2>2
<1>6. CASE Reload(reduced)
  <2>1. RouteOK(route') /\ address' = address
    BY <1>1, <1>6, ParsedRoute DEF Reload
  <2>2. page' = PageFor(route', reduced) /\ fleet' = FleetFor(route', reduced)
    BY <1>6 DEF Reload
  <2>3. route' = ParseHash(address)
    BY <1>6 DEF Reload
  <2>4. InFront(ParseHash(address), PageFor(ParseHash(address), reduced),
                FleetFor(ParseHash(address), reduced))
    BY <1>1, ParsedRoute, MountedKeeps DEF InFront
  <2> QED BY <1>1, <2>1, <2>2, <2>3, <2>4 DEF AppInv
<1>7. CASE OpenStation(reduced)
  <2> DEFINE next == [tab |-> "station", scenario |-> "S2", step |-> NoStep]
  <2>1. ~Crashed /\ Go(next, reduced)
    BY <1>7 DEF OpenStation, AtGrid
  <2>2. RouteOK(next)
    BY <1>2 DEF RouteOK, Ids
  <2> HIDE DEF next
  <2> QED BY <1>5, <2>1, <2>2
<1>8. ASSUME NEW id \in Ids, Choose(id, reduced) PROVE AppInv'
  <2>1. page' = WithEffects(Selected(Rendered(page), id, reduced)) /\ AtStation
    BY <1>8 DEF Choose, SelectScenario, Does
  <2>2. route' = route /\ address'.step = 0
    BY <1>8 DEF Choose, StationAddress
  <2>3. PageInv(page)
    BY <1>1, <2>1 DEF InFront, AtStation
  <2>4. PageInv(page')
    BY <2>1, <2>3, LibraryFits, SelectKeepsPage
  <2> QED BY <1>1, <2>1, <2>2, <2>4 DEF AppInv, InFront, AtStation
<1>9. CASE ChooseNext(reduced)
  <2>1. Choose(NextScenario(page.id), reduced)
    BY <1>9 DEF ChooseNext
  <2>2. NextScenario(page.id) \in Ids
    BY <2>1, AppAssumption DEF Choose
  <2> QED BY <1>8, <2>1, <2>2
<1>10. ASSUME NEW hash \in Addresses, EnterAddress(hash, reduced) PROVE AppInv'
  <2>1. hash.step \in Int
    BY AppAssumption
  <2>2. ~Crashed /\ address' = hash /\ SetRoute(ParseHash(hash), reduced)
    BY <1>10 DEF EnterAddress
  <2> QED BY <1>4, <2>1, <2>2, ParsedRoute
<1>11. ASSUME NEW tab \in {"station", "grid"}, ClickNavTab(tab, reduced) PROVE AppInv'
  <2> DEFINE next == [tab |-> tab, scenario |-> route.scenario, step |-> NoStep]
  <2>1. ~Crashed /\ Go(next, reduced)
    BY <1>11 DEF ClickNavTab
  <2>2. RouteOK(next)
    BY <1>2 DEF RouteOK
  <2> HIDE DEF next
  <2> QED BY <1>5, <2>1, <2>2
<1> QED BY <1>3, <1>6, <1>7, <1>8, <1>9, <1>10, <1>11

\* Whatever is mounted, what it shows is of the scenario or the fleet in front,
\* in order, and goes on if it plays: the invariant of the pages, of a route
\* and of the location bar.
THEOREM AppInvariant == Spec => []AppInv
<1>1. Init => AppInv
  <2> SUFFICES ASSUME Init PROVE AppInv
    OBVIOUS
  <2>1. PICK hash \in Addresses \cup {StationAddress(id, 0) : id \in Ids}, reduced \in BOOLEAN :
           /\ address = hash /\ route = ParseHash(hash)
           /\ page = PageFor(route, reduced) /\ fleet = FleetFor(route, reduced)
    BY DEF Init
  <2>2. hash.step \in Int
    BY AppAssumption DEF StationAddress
  <2>3. RouteOK(route)
    BY <2>1, <2>2, ParsedRoute
  <2> QED BY <2>1, <2>2, <2>3, MountedKeeps DEF AppInv, InFront
<1>2. AppInv /\ [Next]_vars => AppInv'
  <2> SUFFICES ASSUME AppInv, [Next]_vars PROVE AppInv'
    OBVIOUS
  <2>1. RouteOK(route) /\ address.step \in Int /\ InFront(route, page, fleet)
    BY DEF AppInv
  <2>2. ASSUME AtStation, PageInv(page'), route' = route, address' = address PROVE AppInv'
    BY <2>1, <2>2 DEF AppInv, InFront, AtStation
  <2>3. ASSUME AtGrid, ~Throws(fleet') => FleetInv(fleet'), route' = route, address' = address
        PROVE  AppInv'
    BY <2>1, <2>3 DEF AppInv, InFront, AtGrid, AtStation
  <2>4. AtStation => PageInv(page)
    BY <2>1 DEF InFront, AtStation
  <2>5. AtGrid => FleetInv(fleet) /\ ~Throws(fleet)
    BY <2>1 DEF InFront, AtGrid, AtStation, Crashed
  <2>6. CASE FirePageTimer
    BY <2>2, <2>4, <2>6, TimerKeepsPage DEF FirePageTimer
  <2>7. CASE PageRenders
    BY <2>2, <2>4, <2>7, LibraryFits, RenderKeepsPage DEF PageRenders
  <2>8. CASE PageEffects
    BY <2>2, <2>4, <2>8, LibraryFits, EffectsKeepPage DEF PageEffects
  <2>9. CASE FireGridTimer
    BY <2>3, <2>5, <2>9, TimerKeepsFleet DEF FireGridTimer
  <2>10. CASE GridRenders
    BY <2>3, <2>5, <2>10, RenderKeepsFleet DEF GridRenders
  <2>11. CASE GridRunsEffects
    BY <2>3, <2>5, <2>11, EffectsKeepFleet DEF GridRunsEffects
  <2>12. CASE PlayStation
    BY <2>2, <2>4, <2>12, LibraryFits, ViewerKeepsPage DEF PlayStation
  <2>13. CASE PlayFleet
    BY <2>3, <2>5, <2>13, ViewerKeepsFleet DEF PlayFleet
  <2>14. CASE MoveOn
    BY <2>14, MoveKeeps
  <2>15. CASE UNCHANGED vars
    BY <2>1, <2>15 DEF vars, AppInv
  <2> QED BY <2>6, <2>7, <2>8, <2>9, <2>10, <2>11, <2>12, <2>13, <2>14, <2>15 DEF Next, Browser
<1> QED BY <1>1, <1>2, PTL DEF Spec

\* What is shown exists: the step is one of the scenario shown, the frames
\* clicked are frames of it, and the fleet story is in order, but for a page
\* that has crashed (StationView.tsx:102-112, GridTimeline.tsx:102-164).
THEOREM WhatIsShownExists == Spec => []ViewInRange
<1>1. AppInv => ViewInRange
  <2> SUFFICES ASSUME AppInv PROVE ViewInRange
    OBVIOUS
  <2>1. RouteOK(route) /\ InFront(route, page, fleet)
    BY DEF AppInv
  <2>2. ASSUME AtStation
        PROVE  /\ page.index \in 0..LastStep(Playback[page.id])
               /\ page.corrupted \cup ({page.inspected} \ {NoFrame}) \subseteq FramesOf(Ops[page.id])
    <3>1. ShownExists(page)
      BY <2>1, <2>2 DEF InFront, AtStation, PageInv
    <3>2. /\ page.id \in Ids /\ page.memo = Memo[page.id] /\ page.index \in Nat
          /\ page.index <= page.memo.last /\ page.memo.last \in Nat
          /\ page.corrupted \subseteq page.memo.frames
          /\ page.inspected \in page.memo.frames \cup {NoFrame}
      BY <3>1, LibraryFits DEF ShownExists, MemoFits, Pages
    <3>3. /\ page.memo.last = LastStep(Playback[page.id])
          /\ page.memo.frames = FramesOf(Ops[page.id])
      BY <3>2, MemoFields
    <3>4. page.index \in 0..page.memo.last
      BY <3>2
    <3> QED BY <3>2, <3>3, <3>4
  <2>3. ASSUME AtGrid PROVE StoryInOrder(fleet)
    <3>1. InOrder(fleet) /\ ~Throws(fleet)
      BY <2>1, <2>3 DEF InFront, AtGrid, AtStation, Crashed, FleetInv
    <3>2. fleet.phaseIndex \in Nat /\ fleet.mode \in Modes
      BY <3>1 DEF InOrder, Fleets
    <3>3. fleet.phaseIndex \in 0..LastPhase(fleet.mode)
      BY <3>1, <3>2, PhasesAre DEF Throws, Modes
    <3> QED BY <3>1, <3>3 DEF InOrder, StoryInOrder
  <2> QED BY <2>2, <2>3 DEF ViewInRange
<1> QED BY <1>1, AppInvariant, PTL

\* A settled page that plays has a timer to go on with, or is one of the
\* exceptions named in App (StationView.tsx:114-118, GridTimeline.tsx:87-135).
THEOREM PlayingGoesOn == Spec => []PlayingIsDriven
<1>1. AppInv => PlayingIsDriven
  <2> SUFFICES ASSUME AppInv PROVE PlayingIsDriven
    OBVIOUS
  <2>1. InFront(route, page, fleet)
    BY DEF AppInv
  <2>2. ASSUME AtStation, PageSettled, IsPlaying(page) PROVE page.timer \/ StationStalled
    <3>1. KeepsGoing(page)
      BY <2>1, <2>2 DEF InFront, AtStation, PageInv
    <3>2. ~Advances(page.queue)
      BY <2>2 DEF PageSettled, Advances
    <3> QED BY <2>2, <3>1, <3>2 DEF KeepsGoing, PageSettled, StationStalled
  <2>3. ASSUME AtGrid, GridSettled, fleet.playing PROVE fleet.timer \/ FleetStalled
    <3>1. GridKeepsGoing(fleet)
      BY <2>1, <2>3 DEF InFront, AtGrid, AtStation, Crashed, FleetInv
    <3>2. fleet.queue = <<>> /\ fleet.eff = GridDeps(fleet)
      BY <2>3 DEF GridSettled
    <3>3. Standing(fleet)
      BY <3>2, GridDepsFields DEF Standing
    <3>4. DOMAIN fleet.queue = {}
      BY <3>2
    <3> QED BY <2>3, <3>1, <3>3, <3>4 DEF GridKeepsGoing, FleetStalled, Stalled
  <2> QED BY <2>2, <2>3 DEF PlayingIsDriven
<1> QED BY <1>1, AppInvariant, PTL
=============================================================================
