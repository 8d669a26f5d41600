---------------------------- MODULE MeterLineProofs ----------------------------
(***************************************************************************)
(* The meter's line for every length of a body, every number of frames and *)
(* any amount of damage: a frame that came through whole is accepted, an   *)
(* error counts once, and a disturbance costs two bad frames at the most.  *)
(* None of that depends on what the checksum is.  The second half does: as *)
(* the checksum sees one changed byte, what is accepted was sent, as long  *)
(* as the line has misbehaved once at the most.                            *)
(***************************************************************************)
EXTENDS MeterLine, SequenceTheorems, FiniteSetTheorems, WellFoundedInduction, TLAPS

\* What can be on the line: bytes and checksums.
Symbols == Bytes \cup {Crc(payload) : payload \in [1..(BodyLen - 1) -> Bytes]}

Markers(s) == \A j \in 1..Len(s) : s[j] = MARKER

\* What follows each byte of a body on the line: r[i] comes after the i-th.
Follows(r, body) ==
    /\ r \in [0..BodyLen -> Seq(Symbols)]
    /\ \A i \in 1..BodyLen : r[i - 1] = Stuff(body[i]) \o r[i]
    /\ r[BodyLen] # <<>> /\ Markers(r[BodyLen])

\* The parser holds the first i bytes of the body.
Holds(body, i) ==
    /\ active /\ Len(buf) = i
    /\ \A j \in 1..i : buf[j] = body[j]

\* Where the line is in the frame, and what the parser then knows if nothing has
\* happened to that frame: before the opening marker, after the i-th byte of the
\* body, between the two bytes that stand for the i-th, after the closing marker.
AtOpening(r) == wire = <<MARKER>> \o r[0]
AtByte(r, body, i) ==
    /\ i \in 0..BodyLen /\ wire = r[i]
    /\ clean => Holds(body, i) /\ ~escape
InPair(r, body, i) ==
    /\ i \in 1..BodyLen /\ body[i] \in {MARKER, ESCAPE}
    /\ wire = <<Xor20(body[i])>> \o r[i]
    /\ clean => Holds(body, i - 1) /\ escape
AtEnd(body) ==
    /\ Markers(wire)
    /\ clean => accepted # <<>> /\ Last(accepted) = body /\ active /\ ~Partial

One(P) == IF P THEN 1 ELSE 0

\* The bad frames that are still to come if nothing more happens.
ToOpening == One(active /\ Partial) + One(~clean)
ToByte == One(active /\ ~clean)
ToEnd == One(active /\ Partial)

Places(r, body) ==
    \/ AtOpening(r) /\ bad + ToOpening <= 2 * damage
    \/ (\E i \in 0..BodyLen : AtByte(r, body, i)) /\ bad + ToByte <= 2 * damage
    \/ (\E i \in 1..BodyLen : InPair(r, body, i)) /\ bad + ToByte <= 2 * damage
    \/ AtEnd(body) /\ bad + ToEnd <= 2 * damage

LineTypeOK ==
    /\ bodies \in Seq(Bodies) /\ wire \in Seq(Symbols) /\ clean \in BOOLEAN
    /\ damage \in Nat /\ bad \in Nat
    /\ buf \in Seq(Symbols) /\ active \in BOOLEAN /\ escape \in BOOLEAN
    /\ accepted \in Seq(Seq(Symbols))

Placed == \E body \in Bodies : \E r :
    /\ clean => body = Last(bodies)
    /\ Follows(r, body) /\ Places(r, body)

LineInv == LineTypeOK /\ OneVerdictPerCandidate /\ Placed

-----------------------------------------------------------------------------
(* Frames.                                                                 *)

\* A set of numbers that holds 0, and with each number the next, holds them all.
LEMMA Induction ==
    ASSUME NEW S, 0 \in S, \A n \in Nat : n \in S => n + 1 \in S
    PROVE  Nat \subseteq S
<1> DEFINE R == OpToRel(<, Nat)
           T == Nat \ S
<1>1. SUFFICES ASSUME T # {} PROVE FALSE
  OBVIOUS
<1>2. \A x, y \in Nat : x < y => <<x, y>> \in R
  BY DEF OpToRel
<1>3. IsWellFoundedOn(R, Nat)
  BY NatLessThanWellFounded, Zenon
<1> HIDE DEF R
<1>4. PICK n \in T : \A m \in T : <<m, n>> \notin R
  BY <1>1, <1>3, WFMin
<1>5. n - 1 \in Nat /\ n - 1 < n /\ (n - 1) + 1 = n
  OBVIOUS
<1>6. n - 1 \in S
  BY <1>2, <1>4, <1>5
<1> QED BY <1>5, <1>6

Joins(f, s, n) ==
    f = [i \in 1..n |-> IF i = 1 THEN s[i] ELSE f[i - 1] \o s[i]]

\* The recursive function of FlattenSeq exists.
LEMMA JoinsExist ==
    ASSUME NEW s PROVE \A n \in Nat : \E f : Joins(f, s, n)
<1> DEFINE S == {n \in Nat : \E f : Joins(f, s, n)}
<1>1. 0 \in S
  <2> DEFINE f == [i \in 1..0 |-> IF i = 1 THEN s[i] ELSE s[i]]
  <2>1. f = [i \in 1..0 |-> IF i = 1 THEN s[i] ELSE f[i - 1] \o s[i]]
    OBVIOUS
  <2> QED BY <2>1 DEF Joins
<1>2. ASSUME NEW n \in Nat, n \in S PROVE n + 1 \in S
  <2>1. PICK f : Joins(f, s, n)
    BY <1>2
  <2> DEFINE g == [i \in 1..(n + 1) |->
                     IF i \in 1..n THEN f[i] ELSE IF i = 1 THEN s[i] ELSE f[i - 1] \o s[i]]
  <2>2. \A i \in 1..n : f[i] = IF i = 1 THEN s[i] ELSE f[i - 1] \o s[i]
    BY <2>1 DEF Joins
  <2>3. ASSUME NEW i \in 1..(n + 1)
        PROVE  g[i] = IF i = 1 THEN s[i] ELSE g[i - 1] \o s[i]
    <3>1. CASE i = 1
      BY <2>2, <3>1
    <3>2. CASE i # 1
      <4>1. i - 1 \in 1..n /\ i - 1 \in 1..(n + 1)
        BY <3>2
      <4>2. g[i - 1] = f[i - 1]
        BY <4>1
      <4>3. g[i] = f[i - 1] \o s[i]
        BY <2>2, <3>2
      <4> QED BY <3>2, <4>2, <4>3
    <3> QED BY <3>1, <3>2
  <2>4. g = [i \in 1..(n + 1) |-> g[i]]
    OBVIOUS
  <2> HIDE DEF g
  <2>5. g = [i \in 1..(n + 1) |-> IF i = 1 THEN s[i] ELSE g[i - 1] \o s[i]]
    BY <2>3, <2>4
  <2>6. Joins(g, s, n + 1)
    BY <2>5, Zenon DEF Joins
  <2>7. \E e : Joins(e, s, n + 1)
    BY <2>6, Zenon
  <2> QED BY <2>7
<1> HIDE DEF S
<1>3. Nat \subseteq S
  BY <1>1, <1>2, Induction
<1> QED BY <1>3 DEF S

\* What FlattenSeq returns.
LEMMA Flattened ==
    ASSUME NEW s, Len(s) \in Nat \ {0}
    PROVE  \E f : Joins(f, s, Len(s)) /\ FlattenSeq(s) = f[Len(s)]
<1> DEFINE n == Len(s)
           h == CHOOSE f : Joins(f, s, n)
<1>1. Joins(h, s, n)
  BY JoinsExist, Zenon
<1>2. FlattenSeq(s) = h[n]
  BY DEF FlattenSeq, Joins
<1> QED BY <1>1, <1>2, Zenon

\* Concatenation.
LEMMA Associates ==
    ASSUME NEW S PROVE \A a, b, c \in Seq(S) : (a \o b) \o c = a \o (b \o c)
OBVIOUS

\* The pieces of a sequence, and with any x behind them what follows each.
Unrolls(flat, s, n, S) ==
    /\ flat \in Seq(S)
    /\ \A x \in Seq(S) : \E r \in [0..n -> Seq(S)] :
         /\ r[n] = x /\ r[0] = flat \o x
         /\ \A i \in 1..n : r[i - 1] = s[i] \o r[i]

\* What FlattenSeq builds can be taken apart again, piece by piece.
LEMMA Unrolled ==
    ASSUME NEW S, NEW n \in Nat \ {0}, NEW s \in [1..n -> Seq(S)],
           NEW f, Joins(f, s, n)
    PROVE  Unrolls(f[n], s, n, S)
<1> DEFINE Good(r, k, x) == /\ r \in [0..k -> Seq(S)]
                            /\ r[k] = x /\ r[0] = f[k] \o x
                            /\ \A i \in 1..k : r[i - 1] = s[i] \o r[i]
           Reach(k) == f[k] \in Seq(S) /\ \A x \in Seq(S) : \E r : Good(r, k, x)
           T == {k \in Nat : k + 1 \in 1..n => Reach(k + 1)}
<1>0. \A a, b, c \in Seq(S) : (a \o b) \o c = a \o (b \o c)
  BY Associates
<1>1. \A i \in 1..n : f[i] = IF i = 1 THEN s[i] ELSE f[i - 1] \o s[i]
  BY DEF Joins
<1>2. Reach(1)
  <2>1. f[1] = s[1] /\ s[1] \in Seq(S)
    BY <1>1
  <2>2. ASSUME NEW x \in Seq(S) PROVE \E r : Good(r, 1, x)
    <3> DEFINE r == [i \in 0..1 |-> IF i = 1 THEN x ELSE s[1] \o x]
    <3>1. s[1] \o x \in Seq(S)
      BY <2>1
    <3>2. r[1] = x /\ r[0] = f[1] \o x /\ r \in [0..1 -> Seq(S)]
      BY <2>1, <3>1
    <3>3. \A i \in 1..1 : r[i - 1] = s[i] \o r[i]
      OBVIOUS
    <3> HIDE DEF r
    <3>4. Good(r, 1, x)
      BY <3>2, <3>3
    <3> QED BY <3>4, Zenon
  <2> HIDE DEF Good
  <2> QED BY <2>1, <2>2
<1>3. ASSUME NEW k \in 1..(n - 1), Reach(k) PROVE Reach(k + 1)
  <2> HIDE DEF Good
  <2>0. k \in Nat \ {0} /\ k + 1 \in 1..n /\ k + 1 # 1 /\ (k + 1) - 1 = k
    OBVIOUS
  <2>1. f[k] \in Seq(S) /\ s[k + 1] \in Seq(S) /\ f[k + 1] = f[k] \o s[k + 1]
    BY <1>1, <1>3, <2>0
  <2>2. f[k + 1] \in Seq(S)
    BY <2>1
  <2>3. ASSUME NEW x \in Seq(S) PROVE \E r : Good(r, k + 1, x)
    <3>1. s[k + 1] \o x \in Seq(S)
      BY <2>1
    <3>2. PICK r : Good(r, k, s[k + 1] \o x)
      BY <1>3, <3>1
    <3> USE DEF Good
    <3> DEFINE q == [i \in 0..(k + 1) |-> IF i = k + 1 THEN x ELSE r[i]]
    <3>3. q \in [0..(k + 1) -> Seq(S)] /\ q[k + 1] = x
      BY <3>2
    <3>4. q[0] = f[k + 1] \o x
      <4>1. q[0] = f[k] \o (s[k + 1] \o x)
        <5>1. q[0] = r[0]
          BY <2>0
        <5> QED BY <3>2, <5>1
      <4>2. f[k] \o (s[k + 1] \o x) = (f[k] \o s[k + 1]) \o x
        <5> DEFINE u == f[k]
                   v == s[k + 1]
        <5>1. u \in Seq(S) /\ v \in Seq(S)
          BY <2>1
        <5> HIDE DEF u, v, q, T, Reach, Good
        <5>2. x \in Seq(S)
          OBVIOUS
        <5>3. (u \o v) \o x = u \o (v \o x)
          BY <1>0, <5>1, <5>2, Zenon
        <5> QED BY <5>3 DEF u, v
      <4> QED BY <2>1, <4>1, <4>2
    <3>5. ASSUME NEW i \in 1..(k + 1) PROVE q[i - 1] = s[i] \o q[i]
      <4>1. CASE i = k + 1
        <5>1. q[i] = x /\ q[i - 1] = r[k]
          BY <4>1
        <5> QED BY <3>2, <4>1, <5>1
      <4>2. CASE i # k + 1
        <5>1. i \in 1..k /\ q[i] = r[i] /\ q[i - 1] = r[i - 1]
          BY <4>2
        <5> QED BY <3>2, <5>1
      <4> QED BY <4>1, <4>2
    <3> HIDE DEF q
    <3>6. Good(q, k + 1, x)
      BY <3>3, <3>4, <3>5
    <3> QED BY <3>6, Zenon
  <2> QED BY <2>2, <2>3
<1> HIDE DEF Reach
<1>4. 0 \in T
  BY <1>2
<1>5. ASSUME NEW k \in Nat, k \in T PROVE k + 1 \in T
  <2>1. SUFFICES ASSUME (k + 1) + 1 \in 1..n PROVE Reach((k + 1) + 1)
    OBVIOUS
  <2>2. k + 1 \in 1..(n - 1) /\ Reach(k + 1)
    BY <1>5, <2>1
  <2> QED BY <1>3, <2>2
<1> HIDE DEF T
<1>6. Nat \subseteq T
  BY <1>4, <1>5, Induction
<1>7. n - 1 \in T /\ (n - 1) + 1 = n
  BY <1>6
<1>8. Reach(n)
  BY <1>7 DEF T
<1> QED BY <1>8 DEF Reach, Good, Unrolls

\* A byte of a body is a symbol, and so are those that stand for it.
LEMMA BodyBytes ==
    ASSUME NEW body \in Bodies
    PROVE  /\ body \in Seq(Symbols) /\ Len(body) = BodyLen
           /\ Last(body) = Crc(Front(body))
           /\ \A i \in 1..BodyLen : body[i] \in Symbols /\ Stuff(body[i]) \in Seq(Symbols)
<1>1. PICK payload \in [1..(BodyLen - 1) -> Bytes] : body = Append(payload, Crc(payload))
  BY DEF Bodies
<1>2. BodyLen \in Nat \ {0} /\ Flip \in Nat \ {0, 1}
  BY LineAssumption
<1>3. payload \in Seq(Symbols) /\ Len(payload) = BodyLen - 1 /\ Crc(payload) \in Symbols
  BY <1>2 DEF Symbols
<1> DEFINE c == Crc(payload)
<1> HIDE DEF c
<1>4. c \in Symbols /\ body = Append(payload, c)
  BY <1>1, <1>3 DEF c
<1>5. body \in Seq(Symbols) /\ Len(body) = BodyLen /\ Last(body) = c
  BY <1>2, <1>3, <1>4 DEF Last
<1>6. Front(body) = payload
  <2>1. Front(body) = [i \in 1..(BodyLen - 1) |-> body[i]]
    BY <1>2, <1>5 DEF Front
  <2>2. \A i \in 1..(BodyLen - 1) : body[i] = payload[i]
    BY <1>2, <1>3, <1>4
  <2> QED BY <2>1, <2>2
<1>7. ASSUME NEW i \in 1..BodyLen PROVE body[i] \in Symbols /\ Stuff(body[i]) \in Seq(Symbols)
  <2>1. body[i] \in Symbols
    BY <1>5
  <2>2. ESCAPE \in Symbols /\ \A b \in {MARKER, ESCAPE} : Xor20(b) \in Symbols
    BY <1>2 DEF Symbols, Bytes, ESCAPE, MARKER, Xor20
  <2> QED BY <2>1, <2>2 DEF Stuff
<1> QED BY <1>5, <1>6, <1>7 DEF c

\* What a frame puts on the line.
LEMMA FrameOnTheLine ==
    ASSUME NEW body \in Bodies
    PROVE  \E r : Follows(r, body) /\ Padded(Encode(body)) = <<MARKER>> \o r[0]
<1> DEFINE s == [i \in 1..Len(body) |-> Stuff(body[i])]
           frame == Encode(body)
           pads == [i \in 1..((-Len(frame)) % BusWord) |-> MARKER]
           x == <<MARKER>> \o pads
           m == <<MARKER>>
           flat == FlattenSeq(s)
<1>1. BodyLen \in Nat \ {0} /\ BusWord \in Nat \ {0} /\ Len(body) = BodyLen
  BY BodyBytes, LineAssumption
<1>2. s \in [1..BodyLen -> Seq(Symbols)] /\ Len(s) = BodyLen
  <2>1. \A i \in 1..BodyLen : Stuff(body[i]) \in Seq(Symbols)
    BY BodyBytes
  <2>2. s = [i \in 1..BodyLen |-> Stuff(body[i])]
    BY <1>1
  <2> QED BY <1>1, <2>1, <2>2
<1>3. MARKER \in Symbols
  BY LineAssumption DEF MARKER, Symbols, Bytes
<1> HIDE DEF s
<1>4. PICK f : Joins(f, s, BodyLen) /\ flat = f[BodyLen]
  BY <1>1, <1>2, Flattened
<1> HIDE DEF flat
<1>5. /\ flat \in Seq(Symbols)
      /\ \A y \in Seq(Symbols) : \E r \in [0..BodyLen -> Seq(Symbols)] :
           /\ r[BodyLen] = y /\ r[0] = flat \o y
           /\ \A i \in 1..BodyLen : r[i - 1] = s[i] \o r[i]
  <2>1. Unrolls(f[BodyLen], s, BodyLen, Symbols)
    BY <1>1, <1>2, <1>4, Unrolled
  <2> QED BY <1>4, <2>1 DEF Unrolls
<1>6. flat \in Seq(Symbols)
  BY <1>5
<1>7. frame = (m \o flat) \o m /\ Len(frame) \in Nat
  BY <1>3, <1>6 DEF Encode, flat, s
<1> HIDE DEF frame
<1>8. (-Len(frame)) % BusWord \in Nat
  BY <1>1, <1>7
<1>9. pads \in Seq(Symbols) /\ Markers(pads)
  BY <1>3, <1>8 DEF Markers
<1>10. x \in Seq(Symbols) /\ x # <<>> /\ Markers(x)
  <2> HIDE DEF pads
  <2>1. Len(x) = 1 + Len(pads) /\ x \in Seq(Symbols)
    BY <1>3, <1>9
  <2>2. ASSUME NEW j \in 1..Len(x) PROVE x[j] = MARKER
    <3>1. CASE j = 1
      BY <1>9, <3>1
    <3>2. CASE j # 1
      <4>1. x[j] = pads[j - 1] /\ j - 1 \in 1..Len(pads)
        BY <1>9, <2>1, <3>2
      <4> QED BY <1>9, <4>1 DEF Markers
    <3> QED BY <3>1, <3>2
  <2> QED BY <1>9, <2>1, <2>2 DEF Markers
<1>11. PICK r \in [0..BodyLen -> Seq(Symbols)] :
             /\ r[BodyLen] = x /\ r[0] = flat \o x
             /\ \A i \in 1..BodyLen : r[i - 1] = s[i] \o r[i]
  BY <1>5, <1>10
<1>12. Follows(r, body)
  BY <1>1, <1>10, <1>11 DEF Follows, s
<1>13. Padded(frame) = frame \o pads
  BY DEF Padded
<1> HIDE DEF pads
<1>14. frame \o pads = m \o (flat \o (m \o pads))
  BY <1>3, <1>6, <1>7, <1>9
<1> QED BY <1>11, <1>12, <1>13, <1>14 DEF frame

\* There is a body to send.
LEMMA SomeBody == \E body \in Bodies : TRUE
<1> DEFINE payload == [i \in 1..(BodyLen - 1) |-> MARKER]
<1>1. payload \in [1..(BodyLen - 1) -> Bytes]
  BY LineAssumption DEF Bytes, MARKER
<1> HIDE DEF payload
<1>2. Append(payload, Crc(payload)) \in Bodies
  BY <1>1 DEF Bodies
<1> QED BY <1>2

\* The first of a sequence, and the rest.
LEMMA FirstAndRest ==
    ASSUME NEW S, NEW a \in S, NEW q \in Seq(S)
    PROVE  Head(<<a>> \o q) = a /\ Tail(<<a>> \o q) = q /\ <<a>> \o q # <<>>
<1>1. <<a>> \o q \in Seq(S) /\ Len(<<a>> \o q) = Len(q) + 1
  OBVIOUS
<1>2. Head(<<a>> \o q) = a
  BY <1>1
<1>3. Tail(<<a>> \o q) = q
  BY <1>1
<1> QED BY <1>1, <1>2, <1>3

\* The bytes of a frame in their order.
LEMMA NextByte ==
    ASSUME NEW body \in Bodies, NEW r, Follows(r, body)
    PROVE  /\ LET w == <<MARKER>> \o r[0] IN w # <<>> /\ Head(w) = MARKER /\ Tail(w) = r[0]
           /\ \A i \in 0..BodyLen : r[i] # <<>> /\ r[i] \in Seq(Symbols)
           /\ Head(r[BodyLen]) = MARKER /\ Markers(Tail(r[BodyLen]))
           /\ \A i \in 1..BodyLen :
                IF body[i] \in {MARKER, ESCAPE}
                THEN /\ Head(r[i - 1]) = ESCAPE /\ Tail(r[i - 1]) = <<Xor20(body[i])>> \o r[i]
                     /\ LET w == <<Xor20(body[i])>> \o r[i] IN
                          w # <<>> /\ Head(w) = Xor20(body[i]) /\ Tail(w) = r[i]
                ELSE Head(r[i - 1]) = body[i] /\ Tail(r[i - 1]) = r[i]
<1>1. BodyLen \in Nat \ {0} /\ Flip \in Nat \ {0, 1}
  BY LineAssumption
<1>2. /\ MARKER \in Symbols /\ ESCAPE \in Symbols
      /\ Xor20(MARKER) \in Symbols /\ Xor20(ESCAPE) \in Symbols
  BY <1>1 DEF Symbols, Bytes, MARKER, ESCAPE, Xor20
<1>3. \A i \in 0..BodyLen : r[i] \in Seq(Symbols)
  BY DEF Follows
<1>4. LET w == <<MARKER>> \o r[0] IN w # <<>> /\ Head(w) = MARKER /\ Tail(w) = r[0]
  BY <1>1, <1>2, <1>3, FirstAndRest
<1>5. Head(r[BodyLen]) = MARKER /\ Markers(Tail(r[BodyLen])) /\ r[BodyLen] # <<>>
  BY <1>1, <1>3 DEF Follows, Markers
<1>6. ASSUME NEW i \in 1..BodyLen, body[i] \in {MARKER, ESCAPE}
      PROVE  /\ Head(r[i - 1]) = ESCAPE /\ Tail(r[i - 1]) = <<Xor20(body[i])>> \o r[i]
             /\ LET w == <<Xor20(body[i])>> \o r[i] IN
                  w # <<>> /\ Head(w) = Xor20(body[i]) /\ Tail(w) = r[i]
             /\ r[i - 1] # <<>>
  <2> DEFINE x == Xor20(body[i])
             q == r[i]
             e == ESCAPE
  <2>1. x \in Symbols /\ q \in Seq(Symbols) /\ e \in Symbols
    BY <1>2, <1>3, <1>6
  <2>2. r[i - 1] = <<e, x>> \o q
    BY <1>6 DEF Follows, Stuff
  <2> HIDE DEF x, q, e
  <2>3. <<e, x>> \o q = <<e>> \o (<<x>> \o q) /\ <<x>> \o q \in Seq(Symbols)
    BY <2>1
  <2>4. Head(<<x>> \o q) = x /\ Tail(<<x>> \o q) = q /\ <<x>> \o q # <<>>
    BY <2>1, FirstAndRest
  <2>5. /\ Head(<<e>> \o (<<x>> \o q)) = e /\ Tail(<<e>> \o (<<x>> \o q)) = <<x>> \o q
        /\ <<e>> \o (<<x>> \o q) # <<>>
    BY <2>1, <2>3, FirstAndRest
  <2> QED BY <2>2, <2>3, <2>4, <2>5 DEF x, q, e
<1>7. ASSUME NEW i \in 1..BodyLen, body[i] \notin {MARKER, ESCAPE}
      PROVE  Head(r[i - 1]) = body[i] /\ Tail(r[i - 1]) = r[i] /\ r[i - 1] # <<>>
  <2>0. r[i] \in Seq(Symbols)
    BY <1>3
  <2>1. r[i - 1] = <<body[i]>> \o r[i]
    BY <1>7 DEF Follows, Stuff
  <2>2. body[i] \in Symbols
    BY BodyBytes
  <2> QED BY <2>0, <2>1, <2>2, FirstAndRest
<1>8. ASSUME NEW i \in 0..BodyLen PROVE r[i] # <<>>
  <2>1. CASE i = BodyLen
    BY <1>5, <2>1
  <2>2. CASE i # BodyLen
    <3>1. i + 1 \in 1..BodyLen /\ (i + 1) - 1 = i
      BY <1>1, <2>2
    <3> QED BY <1>6, <1>7, <3>1
  <2> QED BY <2>1, <2>2
<1> QED BY <1>3, <1>4, <1>5, <1>6, <1>7, <1>8

-----------------------------------------------------------------------------
(* The parser.                                                             *)

\* A marker ends the body before it.
LEMMA AnyMarker ==
    ASSUME LineTypeOK, RxMarker
    PROVE  /\ buf' \in Seq(Symbols) /\ active' /\ active' \in BOOLEAN /\ escape' \in BOOLEAN
           /\ accepted' \in Seq(Seq(Symbols)) /\ OneVerdictPerCandidate'
           /\ ~Partial'
           /\ bad' = bad \/ (bad' = bad + 1 /\ active /\ Partial)
           /\ accepted' = accepted \/ (active /\ Partial)
<1>0. active' = TRUE /\ buf' = <<>> /\ escape' = FALSE
  BY DEF RxMarker
<1>1. buf' \in Seq(Symbols) /\ active' /\ active' \in BOOLEAN /\ escape' \in BOOLEAN /\ ~Partial'
  <2>1. buf' \in Seq(Symbols)
    BY <1>0
  <2>2. active' /\ active' \in BOOLEAN /\ escape' \in BOOLEAN
    BY <1>0
  <2>3. ~Partial'
    BY <1>0 DEF Partial
  <2> QED BY <2>1, <2>2, <2>3
<1>2. accepted' = accepted \/ (active /\ Partial /\ accepted' = Append(accepted, buf))
  BY DEF RxMarker
<1>3. accepted' \in Seq(Seq(Symbols))
  <2> DEFINE B == Seq(Symbols)
  <2>1. buf \in B /\ accepted \in Seq(B)
    BY DEF LineTypeOK
  <2> HIDE DEF B
  <2>2. accepted' \in Seq(B)
    BY <1>2, <2>1
  <2> QED BY <2>2 DEF B
<1>4. bad' = bad \/ (bad' = bad + 1 /\ active /\ Partial)
  BY DEF RxMarker
<1>5. OneVerdictPerCandidate'
  BY DEF RxMarker, OneVerdictPerCandidate
<1> QED BY <1>1, <1>2, <1>3, <1>4, <1>5

\* A byte of a body is kept, or it is one too many and the body is given up.
LEMMA AnyCollected ==
    ASSUME LineTypeOK, OneVerdictPerCandidate, active, NEW c \in Symbols, Collect(c)
    PROVE  /\ buf' \in Seq(Symbols) /\ active' \in BOOLEAN /\ escape' \in BOOLEAN
           /\ accepted' = accepted /\ OneVerdictPerCandidate'
           /\ \/ bad' = bad /\ active'
              \/ bad' = bad + 1 /\ ~active'
<1>1. CASE Len(buf) >= BodyLen
  <2>1. /\ active' = FALSE /\ escape' = FALSE /\ buf' = <<>>
        /\ accepted' = accepted /\ bad' = bad + 1 /\ judged' = judged + 1
    BY <1>1 DEF Collect, GiveUp, Reject
  <2>2. OneVerdictPerCandidate'
    BY <2>1 DEF OneVerdictPerCandidate
  <2>3. buf' \in Seq(Symbols)
    BY <2>1
  <2> QED BY <2>1, <2>2, <2>3
<1>2. CASE ~(Len(buf) >= BodyLen)
  <2>1. /\ active' = active /\ escape' = FALSE /\ buf' = Append(buf, c)
        /\ accepted' = accepted /\ bad' = bad /\ judged' = judged
    BY <1>2 DEF Collect, Pass
  <2>2. OneVerdictPerCandidate'
    BY <2>1 DEF OneVerdictPerCandidate
  <2>3. buf' \in Seq(Symbols)
    BY <2>1 DEF LineTypeOK
  <2> QED BY <2>1, <2>2, <2>3 DEF LineTypeOK
<1> QED BY <1>1, <1>2

\* What any byte does to the parser: a bad frame ends the body it was found in,
\* and a marker is what a parser that has given up waits for.
LEMMA AnyByte ==
    ASSUME LineTypeOK, OneVerdictPerCandidate, NEW b \in Symbols, RxByte(b)
    PROVE  /\ buf' \in Seq(Symbols) /\ active' \in BOOLEAN /\ escape' \in BOOLEAN
           /\ accepted' \in Seq(Seq(Symbols)) /\ OneVerdictPerCandidate'
           /\ \/ bad' = bad
              \/ bad' = bad + 1 /\ active /\ ~(active' /\ Partial')
           /\ b = MARKER => /\ active' /\ ~Partial'
                            /\ bad' = bad \/ (active /\ Partial)
                            /\ accepted' = accepted \/ (active /\ Partial)
           /\ b # MARKER => \/ bad' = bad /\ (active' => active)
                            \/ active /\ ~active'
<1> DEFINE Typed == /\ buf' \in Seq(Symbols) /\ active' \in BOOLEAN /\ escape' \in BOOLEAN
                    /\ accepted' \in Seq(Seq(Symbols)) /\ OneVerdictPerCandidate'
           Counts == \/ bad' = bad /\ (active' => active)
                     \/ bad' = bad + 1 /\ active /\ ~active'
<1>1. CASE b = MARKER
  <2>1. RxMarker
    BY <1>1 DEF RxByte, ESCAPE, MARKER
  <2> QED BY <1>1, <2>1, AnyMarker
<1>2. CASE b # MARKER
  <2>1. CASE ~active /\ UNCHANGED <<buf, active, escape>> /\ Pass
    <3>1. accepted' = accepted /\ bad' = bad /\ judged' = judged
      BY <2>1 DEF Pass
    <3> QED BY <1>2, <2>1, <3>1 DEF LineTypeOK, OneVerdictPerCandidate
  <2>2. ASSUME NEW c \in Symbols, Collect(c), active
        PROVE  Typed /\ Counts
    <3>1. accepted' = accepted /\ accepted \in Seq(Seq(Symbols))
      BY <2>2, AnyCollected DEF LineTypeOK
    <3> QED BY <2>2, <3>1, AnyCollected
  <2>3. CASE active /\ GiveUp /\ Reject
    <3>1. /\ accepted' = accepted /\ accepted \in Seq(Seq(Symbols))
          /\ bad' = bad + 1 /\ judged' = judged + 1 /\ ~active'
      BY <2>3 DEF Reject, GiveUp, LineTypeOK
    <3>2. OneVerdictPerCandidate'
      BY <2>3, <3>1 DEF OneVerdictPerCandidate
    <3>3. buf' = <<>> /\ active' = FALSE /\ escape' = FALSE
      BY <2>3 DEF GiveUp
    <3>4. buf' \in Seq(Symbols)
      BY <3>3
    <3>5. accepted' \in Seq(Seq(Symbols))
      BY <3>1
    <3>6. active' \in BOOLEAN /\ escape' \in BOOLEAN /\ ~active'
      BY <3>3
    <3> QED BY <1>2, <2>3, <3>1, <3>2, <3>4, <3>5, <3>6
  <2>4. CASE active /\ escape' = TRUE /\ UNCHANGED <<buf, active>> /\ Pass
    <3>1. accepted' = accepted /\ bad' = bad /\ judged' = judged
      BY <2>4 DEF Pass
    <3> QED BY <1>2, <2>4, <3>1 DEF LineTypeOK, OneVerdictPerCandidate
  <2>5. CASE active /\ Collect(b)
    BY <1>2, <2>2, <2>5
  <2>6. CASE active /\ b \in {Xor20(MARKER), Xor20(ESCAPE)} /\ Collect(Xor20(b))
    <3>1. Xor20(b) \in Symbols
      BY <2>6, LineAssumption DEF Symbols, Bytes, MARKER, ESCAPE, Xor20
    <3> QED BY <1>2, <2>2, <2>6, <3>1
  <2> QED BY <1>2, <2>1, <2>3, <2>4, <2>5, <2>6 DEF RxByte
<1> QED BY <1>1, <1>2

\* The parser keeps up with a body: the next byte of it is added.
LEMMA OneMore ==
    ASSUME LineTypeOK, NEW body \in Bodies, NEW i \in 1..BodyLen, Holds(body, i - 1),
           Collect(body[i])
    PROVE  Holds(body, i)' /\ ~escape' /\ bad' = bad
<1>1. BodyLen \in Nat \ {0} /\ body[i] \in Symbols
  BY LineAssumption, BodyBytes
<1> DEFINE c == body[i]
<1>2. buf' = Append(buf, c) /\ ~escape' /\ active' /\ bad' = bad
  <2>1. ~(Len(buf) >= BodyLen) /\ active
    BY <1>1 DEF Holds
  <2> QED BY <2>1 DEF Collect, Pass
<1> HIDE DEF c
<1>3. Len(buf') = i /\ buf'[i] = c /\ \A j \in 1..(i - 1) : buf'[j] = buf[j]
  <2>1. c \in Symbols
    BY <1>1 DEF c
  <2> QED BY <1>2, <2>1 DEF LineTypeOK, Holds
<1> QED BY <1>2, <1>3 DEF Holds, c

\* A byte of the body on its own.
LEMMA PlainByte ==
    ASSUME LineTypeOK, NEW body \in Bodies, NEW i \in 1..BodyLen, Holds(body, i - 1), ~escape,
           body[i] \notin {MARKER, ESCAPE}, RxByte(body[i])
    PROVE  Holds(body, i)' /\ ~escape' /\ bad' = bad
<1>1. Collect(body[i])
  BY DEF RxByte, Holds
<1> QED BY <1>1, OneMore

\* The first byte of a pair.
LEMMA FirstOfPair ==
    ASSUME LineTypeOK, NEW body \in Bodies, NEW i \in 1..BodyLen, Holds(body, i - 1), ~escape,
           RxByte(ESCAPE)
    PROVE  Holds(body, i - 1)' /\ escape' /\ bad' = bad
<1>1. active' = active /\ active /\ buf' = buf /\ escape' /\ bad' = bad
  <2>1. active /\ ESCAPE # MARKER
    BY DEF Holds, ESCAPE, MARKER
  <2>2. escape' = TRUE /\ UNCHANGED <<buf, active>> /\ Pass
    BY <2>1 DEF RxByte
  <2> QED BY <2>1, <2>2 DEF Pass
<1> QED BY <1>1 DEF Holds

\* What stands for a marker or an escape is neither, and is turned back.
LEMMA Exchanged ==
    ASSUME NEW b \in {MARKER, ESCAPE}
    PROVE  /\ Xor20(b) # MARKER /\ Xor20(Xor20(b)) = b
           /\ Xor20(b) \in {Xor20(MARKER), Xor20(ESCAPE)}
<1>1. Flip \in Nat \ {0, 1} /\ b \in {0, 1}
  BY LineAssumption DEF MARKER, ESCAPE
<1>2. \A y \in 0..(2 * Flip - 1) : y % (2 * Flip) = y
  BY <1>1
<1>3. (0 + Flip) % (2 * Flip) = Flip /\ (1 + Flip) % (2 * Flip) = 1 + Flip
  BY <1>1, <1>2
<1>4. (Flip + Flip) % (2 * Flip) = 0 /\ (1 + Flip + Flip) % (2 * Flip) = 1
  BY <1>1
<1> QED BY <1>1, <1>3, <1>4 DEF Xor20, MARKER, ESCAPE

\* The second.
LEMMA SecondOfPair ==
    ASSUME LineTypeOK, NEW body \in Bodies, NEW i \in 1..BodyLen, Holds(body, i - 1), escape,
           body[i] \in {MARKER, ESCAPE}, RxByte(Xor20(body[i]))
    PROVE  Holds(body, i)' /\ ~escape' /\ bad' = bad
<1>1. /\ Xor20(body[i]) # MARKER /\ Xor20(Xor20(body[i])) = body[i]
      /\ Xor20(body[i]) \in {Xor20(MARKER), Xor20(ESCAPE)}
  BY Exchanged
<1>2. Collect(Xor20(Xor20(body[i])))
  BY <1>1 DEF RxByte, Holds
<1>3. Collect(body[i])
  BY <1>1, <1>2
<1> QED BY <1>3, OneMore

\* The closing marker: the body is the one that was sent, and its checksum is right.
LEMMA ClosingMarker ==
    ASSUME LineTypeOK, NEW body \in Bodies, Holds(body, BodyLen), ~escape, RxByte(MARKER)
    PROVE  /\ accepted' # <<>> /\ Last(accepted') = body /\ active' /\ ~Partial'
           /\ bad' = bad
<1>1. BodyLen \in Nat \ {0} /\ body \in Seq(Symbols) /\ Len(body) = BodyLen
  BY LineAssumption, BodyBytes
<1>2. buf = body
  BY <1>1 DEF Holds, LineTypeOK
<1>3. Valid(body)
  BY BodyBytes DEF Valid
<1>4. buf # <<>> /\ Partial
  BY <1>1, <1>2 DEF Partial
<1>5. RxMarker
  BY DEF RxByte, MARKER, ESCAPE
<1>6. accepted' = Append(accepted, body) /\ bad' = bad /\ active' /\ ~Partial'
  BY <1>2, <1>3, <1>4, <1>5 DEF RxMarker, Holds, Partial
<1>7. body \in Seq(Symbols) /\ accepted \in Seq(Seq(Symbols))
  BY <1>1 DEF LineTypeOK
<1>8. Append(accepted, body) # <<>> /\ Last(Append(accepted, body)) = body
  <2> DEFINE B == Seq(Symbols)
  <2>1. body \in B /\ accepted \in Seq(B)
    BY <1>7
  <2> HIDE DEF B
  <2> QED BY <2>1 DEF Last
<1> QED BY <1>6, <1>8

-----------------------------------------------------------------------------
(* The line.                                                               *)

\* The next byte on the line, wherever it is in the frame.
LEMMA WhatIsNext ==
    ASSUME LineTypeOK, NEW body \in Bodies, NEW r, Follows(r, body), wire # <<>>
    PROVE  /\ AtOpening(r) => Head(wire) = MARKER /\ Tail(wire) = r[0]
           /\ \A i \in 1..BodyLen : wire = r[i - 1] =>
                IF body[i] \in {MARKER, ESCAPE}
                THEN Head(wire) = ESCAPE /\ Tail(wire) = <<Xor20(body[i])>> \o r[i]
                ELSE Head(wire) = body[i] /\ Tail(wire) = r[i]
           /\ wire = r[BodyLen] => Head(wire) = MARKER /\ Markers(Tail(wire))
           /\ \A i \in 1..BodyLen : InPair(r, body, i) =>
                Head(wire) = Xor20(body[i]) /\ Tail(wire) = r[i]
           /\ AtEnd(body) => Head(wire) = MARKER /\ Markers(Tail(wire))
<1>1. AtEnd(body) => Head(wire) = MARKER /\ Markers(Tail(wire))
  BY DEF LineTypeOK, AtEnd, Markers
<1>2. AtOpening(r) => Head(wire) = MARKER /\ Tail(wire) = r[0]
  BY NextByte DEF AtOpening
<1>3. \A i \in 1..BodyLen : InPair(r, body, i) => Head(wire) = Xor20(body[i]) /\ Tail(wire) = r[i]
  BY NextByte DEF InPair
<1>4. wire = r[BodyLen] => Head(wire) = MARKER /\ Markers(Tail(wire))
  BY NextByte
<1>5. ASSUME NEW i \in 1..BodyLen, wire = r[i - 1]
      PROVE  IF body[i] \in {MARKER, ESCAPE}
             THEN Head(wire) = ESCAPE /\ Tail(wire) = <<Xor20(body[i])>> \o r[i]
             ELSE Head(wire) = body[i] /\ Tail(wire) = r[i]
  BY <1>5, NextByte
<1> QED BY <1>1, <1>2, <1>3, <1>4, <1>5

\* The costs are small numbers.
LEMMA Costs ==
    /\ ToOpening \in 0..2 /\ ToByte \in 0..1 /\ ToEnd \in 0..1
    /\ ToOpening = ToEnd + One(~clean)
    /\ clean => ToByte = 0
    /\ ~active => ToByte = 0 /\ ToEnd = 0
    /\ ~Partial => ToEnd = 0
BY DEF ToOpening, ToByte, ToEnd, One

\* Wherever the line is, the bad frames so far are within the bound.
LEMMA WithinBound ==
    ASSUME LineTypeOK, NEW r, NEW body, Places(r, body)
    PROVE  bad <= 2 * damage
BY Costs DEF Places, LineTypeOK

\* What one more disturbance allows for.
LEMMA OneMoreHarm ==
    ASSUME NEW d \in Nat, NEW e \in Nat, NEW x \in Nat, NEW y \in Nat,
           e = d + 1, y <= x + 1, x <= 2 * d
    PROVE  y + 1 <= 2 * e
OBVIOUS

\* Something happened to a byte that was on its way: the place moves on, and two
\* more bad frames are allowed for.
LEMMA HarmedByte ==
    ASSUME LineTypeOK, NEW body \in Bodies, NEW r, Follows(r, body), Places(r, body),
           wire # <<>>, wire' = Tail(wire), clean' = FALSE, damage' = damage + 1,
           bad' \in {bad, bad + 1}
    PROVE  Places(r, body)'
<1>1. bad \in Nat /\ damage \in Nat /\ BodyLen \in Nat \ {0}
  BY LineAssumption DEF LineTypeOK
<1>2. bad' + 1 <= 2 * damage'
  <2>1. bad <= 2 * damage
    BY WithinBound
  <2>2. damage' \in Nat /\ damage' = damage + 1 /\ bad' \in Nat /\ bad' <= bad + 1
    BY <1>1
  <2> QED BY <1>1, <2>1, <2>2, OneMoreHarm
<1>3. bad' + ToByte' <= 2 * damage' /\ bad' + ToEnd' <= 2 * damage'
  <2>1. ToByte' \in 0..1 /\ ToEnd' \in 0..1
    BY DEF ToByte, ToEnd, One
  <2>2. bad' \in Nat /\ damage' \in Nat
    BY <1>1
  <2> QED BY <1>2, <2>1, <2>2
<1>4. SUFFICES \/ \E i \in 0..BodyLen : AtByte(r, body, i)'
               \/ \E i \in 1..BodyLen : InPair(r, body, i)'
               \/ AtEnd(body)'
  BY <1>3 DEF Places
<1>5. CASE AtOpening(r)
  <2>1. wire' = r[0] /\ 0 \in 0..BodyLen
    BY <1>1, <1>5, WhatIsNext
  <2>2. AtByte(r, body, 0)'
    BY <2>1 DEF AtByte
  <2> QED BY <2>1, <2>2
<1>6. ASSUME NEW i \in 0..BodyLen, AtByte(r, body, i)
      PROVE  \/ \E k \in 0..BodyLen : AtByte(r, body, k)'
             \/ \E k \in 1..BodyLen : InPair(r, body, k)'
             \/ AtEnd(body)'
  <2>1. wire = r[i]
    BY <1>6 DEF AtByte
  <2>2. CASE i = BodyLen
    BY <2>1, <2>2, WhatIsNext DEF AtEnd
  <2>3. CASE i # BodyLen
    <3>1. i + 1 \in 1..BodyLen /\ (i + 1) - 1 = i /\ i + 1 \in 0..BodyLen
      BY <1>1, <2>3
    <3>2. CASE body[i + 1] \in {MARKER, ESCAPE}
      <4>1. wire' = <<Xor20(body[i + 1])>> \o r[i + 1]
        BY <2>1, <3>1, <3>2, WhatIsNext
      <4>2. InPair(r, body, i + 1)'
        BY <3>1, <3>2, <4>1 DEF InPair
      <4> QED BY <3>1, <4>2
    <3>3. CASE body[i + 1] \notin {MARKER, ESCAPE}
      <4>1. wire' = r[i + 1]
        BY <2>1, <3>1, <3>3, WhatIsNext
      <4>2. AtByte(r, body, i + 1)'
        BY <3>1, <4>1 DEF AtByte
      <4> QED BY <3>1, <4>2
    <3> QED BY <3>2, <3>3
  <2> QED BY <2>2, <2>3
<1>7. ASSUME NEW i \in 1..BodyLen, InPair(r, body, i)
      PROVE  \E k \in 0..BodyLen : AtByte(r, body, k)'
  <2>1. wire' = r[i] /\ i \in 0..BodyLen
    BY <1>7, WhatIsNext
  <2>2. AtByte(r, body, i)'
    BY <2>1 DEF AtByte
  <2> QED BY <2>1, <2>2
<1>8. CASE AtEnd(body)
  BY <1>8, WhatIsNext DEF AtEnd
<1> QED BY <1>5, <1>6, <1>7, <1>8 DEF Places

\* Something happened between two bytes: the place is the same.
LEMMA HarmedBetween ==
    ASSUME LineTypeOK, NEW body \in Bodies, NEW r, Places(r, body),
           wire' = wire, clean' = FALSE, damage' = damage + 1,
           \/ bad' = bad
           \/ bad' = bad + 1 /\ ~(active' /\ Partial')
    PROVE  Places(r, body)'
<1>1. bad \in Nat /\ damage \in Nat /\ bad <= 2 * damage
  BY WithinBound DEF LineTypeOK
<1>2. /\ bad' + ToOpening' <= 2 * damage' /\ bad' + ToByte' <= 2 * damage'
      /\ bad' + ToEnd' <= 2 * damage'
  <2>1. /\ ToOpening' \in 0..2 /\ ToByte' \in 0..1 /\ ToEnd' \in 0..1
        /\ ToOpening' = ToEnd' + One(~clean')
        /\ ~active' => ToEnd' = 0
        /\ ~Partial' => ToEnd' = 0
    BY DEF ToOpening, ToByte, ToEnd, One
  <2>2. One(~clean') = 1
    BY DEF One
  <2> QED BY <1>1, <2>1, <2>2
<1>3. AtOpening(r) => AtOpening(r)'
  BY DEF AtOpening
<1>4. \A i \in 0..BodyLen : AtByte(r, body, i) => AtByte(r, body, i)'
  BY DEF AtByte
<1>5. \A i \in 1..BodyLen : InPair(r, body, i) => InPair(r, body, i)'
  BY DEF InPair
<1>6. AtEnd(body) => AtEnd(body)'
  BY DEF AtEnd
<1> QED BY <1>2, <1>3, <1>4, <1>5, <1>6 DEF Places

\* A byte arrives: if nothing has happened to the frame the parser keeps up with
\* it, and otherwise a bad frame is paid for by what happened.
LEMMA ArrivedByte ==
    ASSUME LineTypeOK, OneVerdictPerCandidate,
           NEW body \in Bodies, NEW r, Follows(r, body), Places(r, body),
           wire # <<>>, wire' = Tail(wire), RxByte(Head(wire)),
           clean' = clean, damage' = damage
    PROVE  Places(r, body)'
<1>1. /\ bad \in Nat /\ damage \in Nat /\ BodyLen \in Nat \ {0} /\ Head(wire) \in Symbols
      /\ active \in BOOLEAN /\ clean \in BOOLEAN
  BY LineAssumption DEF LineTypeOK
<1> DEFINE b == Head(wire)
<1>2. /\ \/ bad' = bad
         \/ bad' = bad + 1 /\ active /\ ~(active' /\ Partial')
      /\ b = MARKER => /\ active' /\ ~Partial'
                       /\ bad' = bad \/ (active /\ Partial)
                       /\ accepted' = accepted \/ (active /\ Partial)
      /\ b # MARKER => \/ bad' = bad /\ (active' => active)
                       \/ active /\ ~active'
  BY <1>1, AnyByte
<1>3. ASSUME b # MARKER, bad + ToByte <= 2 * damage, clean => bad' = bad
      PROVE  bad' + ToByte' <= 2 * damage'
  BY <1>1, <1>2, <1>3 DEF ToByte, One
<1>4. ASSUME b = MARKER, bad + ToEnd <= 2 * damage
      PROVE  bad' + ToEnd' <= 2 * damage'
  BY <1>1, <1>2, <1>4 DEF ToEnd, One
<1>5. CASE AtOpening(r) /\ bad + ToOpening <= 2 * damage
  <2>1. b = MARKER /\ wire' = r[0] /\ 0 \in 0..BodyLen
    BY <1>1, <1>5, WhatIsNext
  <2>2. active' /\ ~Partial'
    BY <1>2, <2>1
  <2>3. buf' = <<>> /\ ~escape'
    BY <2>2 DEF Partial
  <2>4. AtByte(r, body, 0)'
    BY <2>1, <2>2, <2>3 DEF AtByte, Holds
  <2>5. bad' + ToByte' <= 2 * damage'
    BY <1>1, <1>2, <1>5, <2>1 DEF ToOpening, ToByte, One
  <2> QED BY <2>1, <2>4, <2>5 DEF Places
<1>6. ASSUME NEW i \in 0..BodyLen, AtByte(r, body, i), bad + ToByte <= 2 * damage
      PROVE  Places(r, body)'
  <2>1. wire = r[i] /\ (clean => Holds(body, i) /\ ~escape)
    BY <1>6 DEF AtByte
  <2>2. CASE i = BodyLen
    <3>1. b = MARKER /\ Markers(wire')
      BY <2>1, <2>2, WhatIsNext
    <3>2. clean => /\ accepted' # <<>> /\ Last(accepted') = body /\ active' /\ ~Partial'
                   /\ bad' = bad
      BY <2>1, <2>2, <3>1, ClosingMarker
    <3>3. AtEnd(body)'
      BY <3>1, <3>2 DEF AtEnd
    <3>4. bad' + ToEnd' <= 2 * damage'
      BY <1>1, <1>2, <1>6, <3>1, <3>2 DEF ToEnd, ToByte, One
    <3> QED BY <3>3, <3>4 DEF Places
  <2>3. CASE i # BodyLen
    <3>1. i + 1 \in 1..BodyLen /\ (i + 1) - 1 = i /\ i + 1 \in 0..BodyLen
      BY <1>1, <2>3
    <3>2. CASE body[i + 1] \in {MARKER, ESCAPE}
      <4>0. b = ESCAPE /\ wire' = <<Xor20(body[i + 1])>> \o r[i + 1]
        BY <2>1, <3>1, <3>2, WhatIsNext
      <4>1. b = ESCAPE /\ wire' = <<Xor20(body[i + 1])>> \o r[i + 1] /\ b # MARKER
        <5>1. ESCAPE # MARKER
          BY DEF MARKER, ESCAPE
        <5> QED BY <4>0, <5>1
      <4>2. clean => Holds(body, i)' /\ escape' /\ bad' = bad
        BY <2>1, <3>1, <4>1, FirstOfPair
      <4>3. InPair(r, body, i + 1)'
        BY <3>1, <3>2, <4>1, <4>2 DEF InPair
      <4>4. bad' + ToByte' <= 2 * damage'
        BY <1>3, <1>6, <4>1, <4>2
      <4> QED BY <3>1, <4>3, <4>4 DEF Places
    <3>3. CASE body[i + 1] \notin {MARKER, ESCAPE}
      <4>1. b = body[i + 1] /\ wire' = r[i + 1] /\ b # MARKER
        BY <2>1, <3>1, <3>3, WhatIsNext
      <4>2. clean => Holds(body, i + 1)' /\ ~escape' /\ bad' = bad
        BY <2>1, <3>1, <3>3, <4>1, PlainByte
      <4>3. AtByte(r, body, i + 1)'
        BY <3>1, <4>1, <4>2 DEF AtByte
      <4>4. bad' + ToByte' <= 2 * damage'
        BY <1>3, <1>6, <4>1, <4>2
      <4> QED BY <3>1, <4>3, <4>4 DEF Places
    <3> QED BY <3>2, <3>3
  <2> QED BY <2>2, <2>3
<1>7. ASSUME NEW i \in 1..BodyLen, InPair(r, body, i), bad + ToByte <= 2 * damage
      PROVE  Places(r, body)'
  <2>1. /\ body[i] \in {MARKER, ESCAPE} /\ i \in 0..BodyLen
        /\ clean => Holds(body, i - 1) /\ escape
    BY <1>7 DEF InPair
  <2>2. b = Xor20(body[i]) /\ wire' = r[i]
    BY <1>7, WhatIsNext
  <2>3. b # MARKER
    BY <2>1, <2>2, Exchanged
  <2>4. clean => Holds(body, i)' /\ ~escape' /\ bad' = bad
    BY <2>1, <2>2, SecondOfPair
  <2>5. AtByte(r, body, i)'
    BY <2>1, <2>2, <2>4 DEF AtByte
  <2>6. bad' + ToByte' <= 2 * damage'
    BY <1>3, <1>7, <2>3, <2>4
  <2> QED BY <2>1, <2>5, <2>6 DEF Places
<1>8. CASE AtEnd(body) /\ bad + ToEnd <= 2 * damage
  <2>1. b = MARKER /\ Markers(wire')
    BY <1>8, WhatIsNext
  <2>2. AtEnd(body)'
    BY <1>2, <1>8, <2>1 DEF AtEnd
  <2> QED BY <1>4, <1>8, <2>1, <2>2 DEF Places
<1> QED BY <1>5, <1>6, <1>7, <1>8 DEF Places

-----------------------------------------------------------------------------
(* The invariant.                                                          *)

\* It holds at first: there is nothing on the line.
LEMMA LineInvInitially == ASSUME LineInit PROVE LineInv
<1>1. LineTypeOK
  <2>1. <<>> \in Seq(Bodies) /\ <<>> \in Seq(Symbols)
    OBVIOUS
  <2>2. <<>> \in Seq(Seq(Symbols))
    OBVIOUS
  <2> QED BY <2>1, <2>2 DEF LineInit, LineTypeOK
<1>2. OneVerdictPerCandidate
  BY DEF LineInit, OneVerdictPerCandidate
<1>3. PICK body \in Bodies : TRUE
  BY SomeBody
<1>4. PICK r : Follows(r, body)
  BY FrameOnTheLine
<1>5. Markers(wire) /\ clean = FALSE /\ bad + ToEnd <= 2 * damage
  BY DEF LineInit, Markers, ToEnd, One, Partial
<1>6. Places(r, body)
  BY <1>5 DEF Places, AtEnd
<1> QED BY <1>1, <1>2, <1>4, <1>5, <1>6 DEF LineInv, Placed

\* The next frame is sent when the last one is through.
LEMMA LineInvSent == ASSUME LineInv, SendFrame PROVE LineInv'
<1> USE DEF LineInv
<1>1. PICK body \in Bodies : bodies' = Append(bodies, body) /\ wire' = Padded(Encode(body))
  BY DEF SendFrame
<1>2. PICK r : Follows(r, body) /\ wire' = <<MARKER>> \o r[0]
  BY <1>1, FrameOnTheLine
<1>3. /\ clean' = TRUE /\ damage' = damage /\ bad' = bad /\ judged' = judged
      /\ buf' = buf /\ active' = active /\ escape' = escape /\ accepted' = accepted
  BY DEF SendFrame
<1>4. LineTypeOK'
  <2>1. bodies' \in Seq(Bodies) /\ Last(bodies') = body
    BY <1>1 DEF LineTypeOK, Last
  <2>0. MARKER \in Symbols /\ BodyLen \in Nat
    BY LineAssumption DEF Symbols, Bytes, MARKER
  <2>2. r[0] \in Seq(Symbols) /\ MARKER \in Symbols
    BY <1>2, <2>0 DEF Follows
  <2>3. wire' \in Seq(Symbols)
    BY <1>2, <2>2
  <2> QED BY <1>3, <2>1, <2>3 DEF LineTypeOK
<1>5. Last(bodies') = body
  BY <1>1 DEF LineTypeOK, Last
<1>6. OneVerdictPerCandidate'
  BY <1>3 DEF OneVerdictPerCandidate
<1>7. bad + ToEnd <= 2 * damage
  <2>0. PICK old \in Bodies : \E q : Follows(q, old) /\ Places(q, old)
    BY DEF Placed
  <2>1. PICK q : Follows(q, old) /\ Places(q, old)
    BY <2>0
  <2>2. wire = <<>> /\ BodyLen \in Nat \ {0}
    BY LineAssumption DEF SendFrame
  <2>3. ~AtOpening(q)
    BY <2>1, <2>2, NextByte DEF AtOpening
  <2>4. \A i \in 0..BodyLen : ~AtByte(q, old, i)
    BY <2>1, <2>2, NextByte DEF AtByte
  <2>5. \A i \in 1..BodyLen : ~InPair(q, old, i)
    BY <2>1, <2>2, NextByte DEF InPair
  <2> QED BY <2>1, <2>3, <2>4, <2>5 DEF Places
<1>8. bad' + ToOpening' <= 2 * damage'
  <2>1. ToOpening' = ToEnd
    BY <1>3 DEF ToOpening, ToEnd, One, Partial
  <2> QED BY <1>3, <1>7, <2>1
<1>9. Places(r, body)'
  BY <1>2, <1>8 DEF Places, AtOpening
<1> QED BY <1>2, <1>4, <1>5, <1>6, <1>9 DEF Placed

\* The place moves on, and the rest is as the parser leaves it.
LEMMA LineInvMovesOn ==
    ASSUME LineInv, UNCHANGED bodies, LineTypeOK', OneVerdictPerCandidate',
           clean' = clean \/ clean' = FALSE,
           \A body \in Bodies : \A r : Follows(r, body) /\ Places(r, body) => Places(r, body)'
    PROVE  LineInv'
<1>0. PICK body \in Bodies : \E r :
        (clean => body = Last(bodies)) /\ Follows(r, body) /\ Places(r, body)
  BY DEF LineInv, Placed
<1>1. PICK r : (clean => body = Last(bodies)) /\ Follows(r, body) /\ Places(r, body)
  BY <1>0
<1>2. Places(r, body)'
  BY <1>1
<1>3. clean' => body = Last(bodies')
  BY <1>1
<1>4. Placed'
  BY <1>1, <1>2, <1>3 DEF Placed
<1> QED BY <1>4 DEF LineInv

\* Every step keeps the invariant.
LEMMA LineInvNext == ASSUME LineInv, [LineNext]_lineVars PROVE LineInv'
<1>0. LineTypeOK /\ OneVerdictPerCandidate
  BY DEF LineInv
<1>1. CASE SendFrame
  BY <1>1, LineInvSent
<1>2. CASE Arrive
  <2>1. /\ wire # <<>> /\ wire' = Tail(wire) /\ RxByte(Head(wire))
        /\ bodies' = bodies /\ clean' = clean /\ damage' = damage
    BY <1>2 DEF Arrive
  <2>2. Head(wire) \in Symbols /\ wire' \in Seq(Symbols)
    BY <1>0, <2>1 DEF LineTypeOK
  <2>3. LineTypeOK' /\ OneVerdictPerCandidate'
    <3>1. /\ buf' \in Seq(Symbols) /\ active' \in BOOLEAN /\ escape' \in BOOLEAN
          /\ accepted' \in Seq(Seq(Symbols)) /\ OneVerdictPerCandidate'
          /\ bad' \in {bad, bad + 1}
      BY <1>0, <2>1, <2>2, AnyByte
    <3>2. bad' \in Nat
      BY <1>0, <3>1 DEF LineTypeOK
    <3> QED BY <1>0, <2>1, <2>2, <3>1, <3>2 DEF LineTypeOK
  <2>4. \A body \in Bodies : \A r : Follows(r, body) /\ Places(r, body) => Places(r, body)'
    BY <1>0, <2>1, ArrivedByte
  <2> QED BY <2>1, <2>3, <2>4, LineInvMovesOn
<1>3. CASE Lose
  <2>1. /\ wire # <<>> /\ wire' = Tail(wire) /\ bodies' = bodies /\ clean' = FALSE
        /\ damage' = damage + 1 /\ bad' = bad /\ judged' = judged
        /\ buf' = buf /\ active' = active /\ escape' = escape /\ accepted' = accepted
    BY <1>3 DEF Lose, Harm
  <2>2. LineTypeOK' /\ OneVerdictPerCandidate'
    <3>1. wire' \in Seq(Symbols) /\ damage' \in Nat
      BY <1>0, <2>1 DEF LineTypeOK
    <3> QED BY <1>0, <2>1, <3>1 DEF LineTypeOK, OneVerdictPerCandidate
  <2>3. \A body \in Bodies : \A r : Follows(r, body) /\ Places(r, body) => Places(r, body)'
    BY <1>0, <2>1, HarmedByte
  <2> QED BY <2>1, <2>2, <2>3, LineInvMovesOn
<1>4. CASE Change
  <2>1. PICK b \in Bytes : RxByte(b)
    BY <1>4 DEF Change
  <2>2. /\ wire # <<>> /\ wire' = Tail(wire) /\ bodies' = bodies /\ clean' = FALSE
        /\ damage' = damage + 1 /\ b \in Symbols
    BY <1>4 DEF Change, Harm, Symbols
  <2>3. /\ buf' \in Seq(Symbols) /\ active' \in BOOLEAN /\ escape' \in BOOLEAN
        /\ accepted' \in Seq(Seq(Symbols)) /\ OneVerdictPerCandidate'
        /\ bad' \in {bad, bad + 1}
    BY <1>0, <2>1, <2>2, AnyByte
  <2>4. LineTypeOK'
    <3>1. wire' \in Seq(Symbols) /\ damage' \in Nat /\ bad' \in Nat
      BY <1>0, <2>2, <2>3 DEF LineTypeOK
    <3> QED BY <1>0, <2>2, <2>3, <3>1 DEF LineTypeOK
  <2>5. \A body \in Bodies : \A r : Follows(r, body) /\ Places(r, body) => Places(r, body)'
    BY <1>0, <2>2, <2>3, HarmedByte
  <2> QED BY <2>2, <2>3, <2>4, <2>5, LineInvMovesOn
<1>5. CASE Insert
  <2>1. PICK b \in Bytes : RxByte(b)
    BY <1>5 DEF Insert
  <2>2. /\ wire' = wire /\ bodies' = bodies /\ clean' = FALSE
        /\ damage' = damage + 1 /\ b \in Symbols
    BY <1>5 DEF Insert, Harm, Symbols
  <2>3. /\ buf' \in Seq(Symbols) /\ active' \in BOOLEAN /\ escape' \in BOOLEAN
        /\ accepted' \in Seq(Seq(Symbols)) /\ OneVerdictPerCandidate'
        /\ \/ bad' = bad
           \/ bad' = bad + 1 /\ ~(active' /\ Partial')
    BY <1>0, <2>1, <2>2, AnyByte
  <2>4. LineTypeOK'
    <3>1. damage' \in Nat /\ bad' \in Nat
      BY <1>0, <2>2, <2>3 DEF LineTypeOK
    <3> QED BY <1>0, <2>2, <2>3, <3>1 DEF LineTypeOK
  <2>5. \A body \in Bodies : \A r : Follows(r, body) /\ Places(r, body) => Places(r, body)'
    BY <1>0, <2>2, <2>3, HarmedBetween
  <2> QED BY <2>2, <2>3, <2>4, <2>5, LineInvMovesOn
<1>6. CASE FallSilent \/ NewSession
  <2>1. /\ wire' = wire /\ bodies' = bodies /\ clean' = FALSE /\ damage' = damage + 1
        /\ active' = FALSE /\ escape' = FALSE /\ buf' = <<>>
        /\ accepted' = accepted
    BY <1>6 DEF FallSilent, NewSession, Harm, GiveUp, Reject, Pass
  <2>2. \/ bad' = bad /\ judged' = judged
        \/ bad' = bad + 1 /\ judged' = judged + 1 /\ active
    BY <1>6 DEF FallSilent, NewSession, Reject, Pass
  <2>3. LineTypeOK' /\ OneVerdictPerCandidate'
    <3>1. damage' \in Nat /\ bad' \in Nat
      BY <1>0, <2>1, <2>2 DEF LineTypeOK
    <3>2. buf' \in Seq(Symbols)
      BY <2>1
    <3>3. OneVerdictPerCandidate'
      BY <1>0, <2>1, <2>2 DEF OneVerdictPerCandidate
    <3> QED BY <1>0, <2>1, <3>1, <3>2, <3>3 DEF LineTypeOK
  <2>4. \A body \in Bodies : \A r : Follows(r, body) /\ Places(r, body) => Places(r, body)'
    BY <1>0, <2>1, <2>2, HarmedBetween
  <2> QED BY <2>1, <2>3, <2>4, LineInvMovesOn
<1>7. CASE Done \/ UNCHANGED lineVars
  <2>1. UNCHANGED lineVars
    BY <1>7 DEF Done
  <2>2. LineTypeOK' /\ OneVerdictPerCandidate'
    BY <1>0, <2>1 DEF lineVars, LineTypeOK, OneVerdictPerCandidate
  <2>3. ASSUME NEW body \in Bodies, NEW r, Places(r, body) PROVE Places(r, body)'
    <3>1. AtOpening(r) => AtOpening(r)'
      BY <2>1 DEF lineVars, AtOpening
    <3>2. \A i \in 0..BodyLen : AtByte(r, body, i) => AtByte(r, body, i)'
      BY <2>1 DEF lineVars, AtByte, Holds
    <3>3. \A i \in 1..BodyLen : InPair(r, body, i) => InPair(r, body, i)'
      BY <2>1 DEF lineVars, InPair, Holds
    <3>4. AtEnd(body) => AtEnd(body)'
      BY <2>1 DEF lineVars, AtEnd, Partial
    <3>5. /\ bad' = bad /\ damage' = damage
          /\ ToOpening' = ToOpening /\ ToByte' = ToByte /\ ToEnd' = ToEnd
      BY <2>1 DEF lineVars, ToOpening, ToByte, ToEnd, Partial
    <3> QED BY <2>3, <3>1, <3>2, <3>3, <3>4, <3>5 DEF Places
  <2>4. UNCHANGED bodies /\ clean' = clean
    BY <2>1 DEF lineVars
  <2> QED BY <2>2, <2>3, <2>4, LineInvMovesOn
<1> QED BY <1>1, <1>2, <1>3, <1>4, <1>5, <1>6, <1>7 DEF LineNext

\* The line and the parser, wherever the line is in the frame.
THEOREM LineInvariant == LineSpec => []LineInv
<1>1. LineInit => LineInv
  BY LineInvInitially
<1>2. LineInv /\ [LineNext]_lineVars => LineInv'
  BY LineInvNext
<1> QED BY <1>1, <1>2, PTL DEF LineSpec

\* golden.py rx_byte: the marker before a frame recovers the alignment whatever
\* the parser was left with, so a frame that came through whole has been accepted
\* by its last byte.
THEOREM FramesArrive == LineSpec => []IntactFrameArrives
<1>1. LineInv => IntactFrameArrives
  <2> SUFFICES ASSUME LineInv, clean, wire = <<>>
               PROVE  accepted # <<>> /\ Last(accepted) = Last(bodies)
    BY DEF IntactFrameArrives
  <2>0. PICK body \in Bodies : \E r : body = Last(bodies) /\ Follows(r, body) /\ Places(r, body)
    BY DEF LineInv, Placed
  <2>1. PICK r : body = Last(bodies) /\ Follows(r, body) /\ Places(r, body)
    BY <2>0
  <2>2. BodyLen \in Nat \ {0}
    BY LineAssumption
  <2>3. ~AtOpening(r)
    BY <2>1, NextByte DEF AtOpening
  <2>4. \A i \in 0..BodyLen : ~AtByte(r, body, i)
    BY <2>1, NextByte DEF AtByte
  <2>5. \A i \in 1..BodyLen : ~InPair(r, body, i)
    BY <2>1, NextByte DEF InPair
  <2>6. AtEnd(body)
    BY <2>1, <2>3, <2>4, <2>5 DEF Places
  <2> QED BY <2>1, <2>6 DEF AtEnd
<1> QED BY <1>1, LineInvariant, PTL

\* main.s:350: errors count once, and what follows is discarded until a marker.
THEOREM ErrorsCountOnce == LineSpec => []OneVerdictPerCandidate
<1>1. LineInv => OneVerdictPerCandidate
  BY DEF LineInv
<1> QED BY <1>1, LineInvariant, PTL

\* The count of bad frames is at most twice that of the disturbances: frames that
\* came through whole, the padding of a bus word included, add nothing to it.
THEOREM DamageIsBounded == LineSpec => []DamageCost
<1>1. LineInv => DamageCost
  BY WithinBound DEF LineInv, Placed, DamageCost
<1> QED BY <1>1, LineInvariant, PTL

-----------------------------------------------------------------------------
(* The checksum.                                                           *)

\* The sum over s, from the sums g over smaller sets, in the order of FoldSeq.
Some(s) == CHOOSE x \in s : TRUE
SumStep(p, g, s) == IF s = {} THEN 0 ELSE p[Some(s)] + g[s \ {Some(s)}]
Sums(p) == CHOOSE g : g = [s \in SUBSET DOMAIN p |-> SumStep(p, g, s)]

\* FoldSeq is that recursion.
LEMMA FoldIsSums ==
    ASSUME NEW p
    PROVE  FoldSeq(+, 0, p) = Sums(p)[DOMAIN p]
BY DEF FoldSeq, FoldFunction, FoldFunctionOnSet, MapThenFoldSet, Sums, SumStep, Some

\* Subsets of a finite set, and what is left of them without their first element.
LEMMA Smaller ==
    ASSUME NEW D, IsFiniteSet(D), NEW s \in SUBSET D
    PROVE  /\ Cardinality(s) \in Nat /\ Cardinality(s) <= Cardinality(D) /\ Cardinality(D) \in Nat
           /\ Cardinality(s) = 0 => s = {}
           /\ s # {} => /\ Some(s) \in s
                        /\ Cardinality(s \ {Some(s)}) = Cardinality(s) - 1
<1>1. IsFiniteSet(s) /\ Cardinality(s) <= Cardinality(D)
  BY FS_Subset
<1>2. s # {} => Some(s) \in s
  BY DEF Some
<1> QED BY <1>1, <1>2, FS_CardinalityType, FS_EmptySet, FS_RemoveElement

\* The recursion over the subsets of a finite domain has a solution.
LEMMA SumsExist ==
    ASSUME NEW p, IsFiniteSet(DOMAIN p)
    PROVE  \A s \in SUBSET DOMAIN p : Sums(p)[s] = SumStep(p, Sums(p), s)
<1> DEFINE D == DOMAIN p
           Upto(n) == {s \in SUBSET D : Cardinality(s) <= n}
           S == {n \in Nat : \E g : g = [s \in Upto(n) |-> SumStep(p, g, s)]}
<1>1. /\ Cardinality(D) \in Nat
      /\ \A s \in SUBSET D : /\ Cardinality(s) \in Nat /\ Cardinality(s) <= Cardinality(D)
                             /\ Cardinality(s) = 0 => s = {}
  BY Smaller
<1>2. 0 \in S
  <2> DEFINE g == [s \in Upto(0) |-> 0]
  <2>1. g = [s \in Upto(0) |-> SumStep(p, g, s)]
    <3>1. \A s \in Upto(0) : s = {}
      <4> TAKE s \in Upto(0)
      <4>1. s \in SUBSET D /\ Cardinality(s) <= 0
        OBVIOUS
      <4>2. Cardinality(s) = 0
        BY <1>1, <4>1
      <4> QED BY <1>1, <4>1, <4>2
    <3> QED BY <3>1 DEF SumStep
  <2> QED BY <2>1
<1>3. ASSUME NEW n \in Nat, n \in S PROVE n + 1 \in S
  <2>1. PICK g : g = [s \in Upto(n) |-> SumStep(p, g, s)]
    BY <1>3
  <2> DEFINE h == [s \in Upto(n + 1) |-> SumStep(p, g, s)]
  <2>2. \A s \in Upto(n) : s \in Upto(n + 1) /\ h[s] = g[s]
    <3> TAKE s \in Upto(n)
    <3>1. Cardinality(s) \in Nat /\ Cardinality(s) <= n /\ s \in SUBSET D
      BY <1>1
    <3>2. s \in Upto(n + 1)
      BY <3>1
    <3>3. g[s] = SumStep(p, g, s) /\ h[s] = SumStep(p, g, s)
      BY <2>1, <3>2
    <3> QED BY <3>2, <3>3
  <2>3. \A s \in Upto(n + 1) : SumStep(p, g, s) = SumStep(p, h, s)
    <3> TAKE s \in Upto(n + 1)
    <3>1. CASE s = {}
      BY <3>1 DEF SumStep
    <3>2. CASE s # {}
      <4>1. s \in SUBSET D /\ Cardinality(s) <= n + 1 /\ Cardinality(s) \in Nat
        BY <1>1
      <4>2. s \ {Some(s)} \in SUBSET D /\ Cardinality(s \ {Some(s)}) = Cardinality(s) - 1
        BY <3>2, <4>1, Smaller
      <4>3. s \ {Some(s)} \in Upto(n)
        BY <4>1, <4>2
      <4> HIDE DEF h
      <4> QED BY <2>2, <3>2, <4>3 DEF SumStep
    <3> QED BY <3>1, <3>2
  <2>4. h = [s \in Upto(n + 1) |-> SumStep(p, h, s)]
    BY <2>3
  <2> HIDE DEF h
  <2>5. \E f : f = [s \in Upto(n + 1) |-> SumStep(p, f, s)]
    BY <2>4
  <2> QED BY <2>5
<1>4. Cardinality(D) \in S
  <2> HIDE DEF S
  <2>1. Nat \subseteq S
    BY <1>2, <1>3, Induction
  <2> QED BY <1>1, <2>1
<1>5. Upto(Cardinality(D)) = SUBSET D
  BY <1>1
<1>6. \E g : g = [s \in SUBSET D |-> SumStep(p, g, s)]
  BY <1>4, <1>5
<1> DEFINE h == [s \in SUBSET D |-> SumStep(p, Sums(p), s)]
<1>7. Sums(p) = h
  BY <1>6 DEF Sums
<1>8. \A s \in SUBSET D : h[s] = SumStep(p, Sums(p), s)
  OBVIOUS
<1> HIDE DEF h
<1> QED BY <1>7, <1>8

\* Sums of numbers, and what one changed number does to them.
LEMMA SumsDiffer ==
    ASSUME NEW D, IsFiniteSet(D), NEW p \in [D -> Int], NEW k \in D,
           NEW q \in [D -> Int], \A i \in D : i # k => q[i] = p[i]
    PROVE  \A s \in SUBSET D :
             /\ Sums(p)[s] \in Int
             /\ Sums(q)[s] = Sums(p)[s] + IF k \in s THEN q[k] - p[k] ELSE 0
<1> DEFINE g == Sums(p)
           h == Sums(q)
           Good(s) == /\ g[s] \in Int
                      /\ h[s] = g[s] + IF k \in s THEN q[k] - p[k] ELSE 0
           S == {m \in Nat : \A s \in SUBSET D : Cardinality(s) <= m => Good(s)}
<1>2. DOMAIN p = D /\ DOMAIN q = D
  OBVIOUS
<1>3. \A s \in SUBSET D : g[s] = SumStep(p, g, s) /\ h[s] = SumStep(q, h, s)
  BY <1>2, SumsExist
<1>4. \A i \in D : (i # k => q[i] = p[i]) /\ p[i] \in Int /\ q[i] \in Int
  OBVIOUS
<1> HIDE DEF g, h
<1>5. \A s \in SUBSET D : Cardinality(s) \in Nat /\ (Cardinality(s) = 0 => s = {})
  BY Smaller
<1>6. Good({})
  <2>1. g[{}] = 0 /\ h[{}] = 0
    BY <1>3 DEF SumStep
  <2> QED BY <2>1
<1>7. 0 \in S
  <2>1. ASSUME NEW s \in SUBSET D, Cardinality(s) <= 0 PROVE s = {}
    <3>1. Cardinality(s) = 0
      BY <1>5, <2>1
    <3> QED BY <1>5, <3>1
  <2> HIDE DEF Good
  <2> QED BY <1>6, <2>1
<1>8. ASSUME NEW m \in Nat, m \in S PROVE m + 1 \in S
  <2> SUFFICES ASSUME NEW s \in SUBSET D, Cardinality(s) <= m + 1, s # {} PROVE Good(s)
    <3> HIDE DEF Good
    <3> QED BY <1>6
  <2> DEFINE x == Some(s)
             t == s \ {x}
  <2>0. x \in s /\ Cardinality(t) = Cardinality(s) - 1 /\ Cardinality(s) \in Nat
    BY Smaller
  <2>1. x \in s /\ x \in D /\ t \in SUBSET D /\ Cardinality(t) <= m
    BY <2>0
  <2>2. Good(t)
    BY <1>8, <2>1
  <2>3. g[s] = p[x] + g[t] /\ h[s] = q[x] + h[t]
    BY <1>3 DEF SumStep
  <2>4. (k \in t <=> k \in s /\ k # x)
    OBVIOUS
  <2> HIDE DEF x, t
  <2>5. p[x] \in Int /\ q[x] \in Int /\ p[k] \in Int /\ (x # k => q[x] = p[x])
    BY <1>4, <2>1
  <2>6. CASE x = k
    BY <1>4, <2>1, <2>2, <2>3, <2>4, <2>5, <2>6
  <2>7. CASE x # k
    BY <1>4, <2>1, <2>2, <2>3, <2>4, <2>5, <2>7
  <2> QED BY <2>6, <2>7
<1> HIDE DEF Good
<1>9. Nat \subseteq S
  <2> HIDE DEF S
  <2> QED BY <1>7, <1>8, Induction
<1>10. ASSUME NEW s \in SUBSET D PROVE Good(s)
  <2>1. Cardinality(s) \in Nat /\ Cardinality(s) <= Cardinality(s)
    BY <1>5
  <2>2. Cardinality(s) \in S
    BY <1>9, <2>1
  <2> QED BY <2>1, <2>2
<1> QED BY <1>10 DEF Good, g, h

\* Numbers that differ by less than a modulus have different remainders.
LEMMA RemaindersDiffer ==
    ASSUME NEW M \in Nat \ {0}, NEW a \in Int, NEW d \in Int, d # 0, d < M, -d < M
    PROVE  (a + d) % M # a % M
<1> SUFFICES ASSUME (a + d) % M = a % M PROVE FALSE
  OBVIOUS
<1> DEFINE e == a \div M
           f == (a + d) \div M
           r == a % M
<1>1. a = M * e + r /\ e \in Int /\ r \in Int
  OBVIOUS
<1>2. a + d = M * f + r /\ f \in Int
  <2>1. a + d \in Int
    OBVIOUS
  <2>2. a + d = M * f + ((a + d) % M) /\ f \in Int
    BY <2>1
  <2> QED BY <2>2
<1> HIDE DEF e, f, r
<1>3. d = M * f - M * e /\ M * e \in Int /\ M * f \in Int
  BY <1>1, <1>2
<1>4. CASE f = e
  BY <1>3, <1>4
<1>5. CASE f >= e + 1
  <2>1. M * f >= M * (e + 1) /\ M * (e + 1) = M * e + M
    BY <1>1, <1>2, <1>5
  <2> QED BY <1>3, <2>1
<1>6. CASE f <= e - 1
  <2>1. M * f <= M * (e - 1) /\ M * (e - 1) = M * e - M
    BY <1>1, <1>2, <1>6
  <2> QED BY <1>3, <2>1
<1> QED BY <1>1, <1>2, <1>4, <1>5, <1>6

\* A checksum is a byte, and sees any one changed byte.
LEMMA CrcSeesOneByte ==
    ASSUME NEW n \in Nat, NEW p \in [1..n -> Bytes]
    PROVE  /\ Crc(p) \in Bytes
           /\ \A k \in 1..n : \A q \in [1..n -> Bytes] :
                q[k] # p[k] /\ (\A i \in 1..n : i # k => q[i] = p[i]) => Crc(q) # Crc(p)
<1> DEFINE M == 2 * Flip
           D == 1..n
<1>1. M \in Nat \ {0} /\ Bytes = 0..(M - 1)
  BY LineAssumption DEF Bytes
<1>2. \A f \in [D -> Bytes] : f \in [D -> Int] /\ DOMAIN f = D
  BY <1>1
<1>3. IsFiniteSet(D) /\ D \in SUBSET D
  BY FS_Interval
<1> HIDE DEF D
<1>4. ASSUME NEW f \in [D -> Bytes] PROVE Crc(f) = Sums(f)[D] % M
  BY <1>2, FoldIsSums DEF Crc
<1>5. ASSUME NEW k \in D, NEW q \in [D -> Bytes], \A i \in D : i # k => q[i] = p[i]
      PROVE  Sums(p)[D] \in Int /\ Sums(q)[D] = Sums(p)[D] + (q[k] - p[k])
  <2>1. p \in [D -> Int] /\ q \in [D -> Int]
    BY <1>2 DEF D
  <2>2. /\ Sums(p)[D] \in Int
        /\ Sums(q)[D] = Sums(p)[D] + IF k \in D THEN q[k] - p[k] ELSE 0
    BY <1>3, <1>5, <2>1, SumsDiffer
  <2> QED BY <2>2
<1>6. Sums(p)[D] \in Int
  <2>1. CASE D = {}
    <3>1. DOMAIN p = D /\ {} \in SUBSET D
      BY DEF D
    <3>2. Sums(p)[{}] = SumStep(p, Sums(p), {})
      BY <1>3, <3>1, SumsExist
    <3> QED BY <2>1, <3>2 DEF SumStep
  <2>2. CASE D # {}
    BY <1>5, <2>2 DEF D
  <2> QED BY <2>1, <2>2
<1>7. Crc(p) \in Bytes
  <2>1. Crc(p) = Sums(p)[D] % M
    BY <1>4 DEF D
  <2> HIDE DEF M
  <2> QED BY <1>1, <1>6, <2>1
<1>8. ASSUME NEW k \in D, NEW q \in [D -> Bytes], q[k] # p[k],
             \A i \in D : i # k => q[i] = p[i]
      PROVE  Crc(q) # Crc(p)
  <2> DEFINE a == Sums(p)[D]
             d == q[k] - p[k]
  <2>1. Crc(q) = (a + d) % M /\ Crc(p) = a % M
    BY <1>4, <1>5, <1>8 DEF D
  <2>2. p[k] \in Bytes /\ q[k] \in Bytes
    BY DEF D
  <2>3. d \in Int /\ d # 0 /\ d < M /\ -d < M
    <3> HIDE DEF M
    <3> QED BY <1>1, <1>8, <2>2
  <2>4. a \in Int
    BY <1>6
  <2> HIDE DEF a, d, M
  <2>5. (a + d) % M # a % M
    BY <1>1, <2>3, <2>4, RemaindersDiffer
  <2> QED BY <2>1, <2>5
<1> QED BY <1>7, <1>8 DEF D

-----------------------------------------------------------------------------
(* What has been accepted.                                                 *)

\* The bodies accepted are some of the first m that were sent, in their order.
Chosen(chosen, m) ==
    /\ chosen \in SUBSET (1..m) /\ Cardinality(chosen) = Len(accepted)
    /\ \A i \in chosen : accepted[Cardinality({j \in chosen : j <= i})] = bodies[i]
Kept(m) == \E chosen : Chosen(chosen, m)

\* They are then some of the first n too.
LEMMA KeptLonger ==
    ASSUME NEW m \in Nat, NEW n \in Nat, m <= n, Kept(m)
    PROVE  Kept(n)
<1>1. PICK chosen : Chosen(chosen, m)
  BY DEF Kept
<1>2. chosen \in SUBSET (1..n)
  BY <1>1 DEF Chosen
<1>3. Chosen(chosen, n)
  BY <1>1, <1>2 DEF Chosen
<1> QED BY <1>3 DEF Kept

\* Nothing is accepted.
LEMMA KeptOn ==
    ASSUME NEW m \in Nat, Kept(m), accepted' = accepted, \A i \in 1..m : bodies'[i] = bodies[i]
    PROVE  Kept(m)'
<1>1. PICK chosen : Chosen(chosen, m)
  BY DEF Kept
<1>2. Chosen(chosen, m)'
  BY <1>1 DEF Chosen
<1> QED BY <1>2 DEF Kept

\* The next body is accepted.
LEMMA KeptMore ==
    ASSUME NEW m \in Nat, NEW S, accepted \in Seq(S), NEW body \in S, Kept(m),
           accepted' = Append(accepted, body), bodies' = bodies, bodies[m + 1] = body
    PROVE  Kept(m + 1)'
<1>1. PICK chosen : Chosen(chosen, m)
  BY DEF Kept
<1> DEFINE more == chosen \cup {m + 1}
<1>2. /\ chosen \in SUBSET (1..m) /\ Cardinality(chosen) = Len(accepted)
      /\ \A i \in chosen : accepted[Cardinality({j \in chosen : j <= i})] = bodies[i]
  BY <1>1 DEF Chosen
<1>3. IsFiniteSet(chosen) /\ m + 1 \notin chosen
  <2>1. IsFiniteSet(1..m)
    BY FS_Interval
  <2>2. IsFiniteSet(chosen)
    BY <1>2, <2>1, FS_Subset
  <2>3. \A j \in chosen : j \in Nat /\ j <= m
    BY <1>2
  <2>4. m + 1 \notin chosen
    BY <2>3
  <2> QED BY <2>2, <2>4
<1>4. Cardinality(more) = Len(accepted) + 1
  BY <1>2, <1>3, FS_AddElement
<1>5. Len(accepted') = Len(accepted) + 1 /\ accepted'[Len(accepted) + 1] = body
      /\ \A k \in 1..Len(accepted) : accepted'[k] = accepted[k]
  OBVIOUS
<1>6. more \in SUBSET (1..(m + 1))
  BY <1>2
<1>7. ASSUME NEW i \in more
      PROVE  accepted'[Cardinality({j \in more : j <= i})] = bodies'[i]
  <2>1. CASE i = m + 1
    <3>1. {j \in more : j <= i} = more
      <4>1. \A j \in more : j \in Nat /\ j <= m + 1
        BY <1>2
      <4> QED BY <2>1, <4>1
    <3> QED BY <1>4, <1>5, <2>1, <3>1
  <2>2. CASE i # m + 1
    <3> DEFINE upto == {j \in chosen : j <= i}
    <3>1. i \in chosen /\ i \in 1..m
      BY <1>2, <1>7, <2>2
    <3>2. {j \in more : j <= i} = upto
      BY <1>2, <3>1
    <3>3. Cardinality(upto) \in 1..Len(accepted)
      <4>1. i \in upto /\ upto \subseteq chosen
        BY <3>1
      <4>2. IsFiniteSet(upto) /\ Cardinality(upto) <= Cardinality(chosen)
        BY <1>3, <4>1, FS_Subset
      <4>3. Cardinality(upto) # 0 /\ Cardinality(upto) \in Nat
        BY <4>1, <4>2, FS_EmptySet, FS_CardinalityType
      <4> HIDE DEF upto
      <4> QED BY <1>2, <4>2, <4>3
    <3>4. accepted[Cardinality(upto)] = bodies[i]
      BY <1>2, <3>1
    <3> HIDE DEF upto
    <3> QED BY <1>5, <3>2, <3>3, <3>4
  <2> QED BY <2>1, <2>2
<1>8. Cardinality(more) = Len(accepted')
  BY <1>4, <1>5
<1> HIDE DEF more
<1>9. Chosen(more, m + 1)'
  BY <1>6, <1>7, <1>8 DEF Chosen
<1> QED BY <1>9 DEF Kept

\* Then what is accepted was sent.
LEMMA KeptWasSent ==
    ASSUME LineTypeOK, NEW m \in Nat, m <= Len(bodies), Kept(m)
    PROVE  AcceptedWasSent
<1>1. Len(bodies) \in Nat /\ DOMAIN bodies = 1..Len(bodies)
  BY DEF LineTypeOK
<1>2. Kept(Len(bodies))
  BY <1>1, KeptLonger
<1>3. PICK chosen : Chosen(chosen, Len(bodies))
  BY <1>2 DEF Kept
<1> QED BY <1>1, <1>3 DEF Chosen, AcceptedWasSent

-----------------------------------------------------------------------------
(* What a byte may do to the parser.                                       *)

\* Symbols are bytes, and the mask exchanges them.
LEMMA SymbolsAreBytes ==
    /\ Symbols = Bytes /\ MARKER \in Bytes /\ ESCAPE \in Bytes /\ MARKER # ESCAPE
    /\ \A b \in {MARKER, ESCAPE} : /\ Xor20(b) \in Bytes /\ Xor20(b) \notin {MARKER, ESCAPE}
                                   /\ Xor20(Xor20(b)) = b
<1>1. Flip \in Nat \ {0, 1} /\ BodyLen - 1 \in Nat
  BY LineAssumption
<1>2. \A payload \in [1..(BodyLen - 1) -> Bytes] : Crc(payload) \in Bytes
  BY <1>1, CrcSeesOneByte
<1>3. Symbols = Bytes
  BY <1>2 DEF Symbols
<1>4. MARKER \in Bytes /\ ESCAPE \in Bytes /\ MARKER # ESCAPE
  BY <1>1 DEF Bytes, MARKER, ESCAPE
<1>5. \A y \in 0..(2 * Flip - 1) : y % (2 * Flip) = y
  BY <1>1
<1>6. (0 + Flip) % (2 * Flip) = Flip /\ (1 + Flip) % (2 * Flip) = 1 + Flip
  BY <1>1, <1>5
<1>7. Xor20(MARKER) = Flip /\ Xor20(ESCAPE) = 1 + Flip
  BY <1>6 DEF Xor20, MARKER, ESCAPE
<1>8. \A b \in {MARKER, ESCAPE} : Xor20(b) \in Bytes /\ Xor20(b) \notin {MARKER, ESCAPE}
  BY <1>1, <1>7 DEF Bytes, MARKER, ESCAPE
<1> QED BY <1>3, <1>4, <1>8, Exchanged

\* The next state of the parser, whatever the byte.
AfterMarker ==
    /\ buf' = <<>> /\ active' /\ ~escape'
    /\ \/ accepted' = accepted
       \/ active /\ ~escape /\ Valid(buf) /\ accepted' = Append(accepted, buf)
Added(c) == /\ active /\ active' /\ ~escape' /\ Len(buf) < BodyLen
            /\ c \in Bytes /\ buf' = Append(buf, c)
AfterByte(b) ==
    /\ accepted' = accepted
    /\ \/ ~active'
       \/ b = ESCAPE /\ active /\ ~escape /\ active' /\ escape' /\ buf' = buf
       \/ b # ESCAPE /\ ~escape /\ Added(b)
       \/ b \in {Xor20(MARKER), Xor20(ESCAPE)} /\ escape /\ Added(Xor20(b))

\* A byte that is no marker accepts nothing; a marker leaves the parser empty.
LEMMA WhatAByteDoes ==
    ASSUME LineTypeOK, NEW b \in Bytes, RxByte(b)
    PROVE  IF b = MARKER THEN AfterMarker ELSE AfterByte(b)
<1>1. CASE b = MARKER
  <2>1. RxMarker
    BY <1>1 DEF RxByte, ESCAPE, MARKER
  <2> QED BY <1>1, <2>1 DEF RxMarker, AfterMarker
<1>2. CASE b # MARKER
  <2>1. ASSUME NEW c \in Bytes, Collect(c), active
        PROVE  accepted' = accepted /\ (~active' \/ Added(c))
    <3>1. CASE Len(buf) >= BodyLen
      BY <2>1, <3>1 DEF Collect, GiveUp, Reject
    <3>2. CASE ~(Len(buf) >= BodyLen)
      <4>1. Len(buf) < BodyLen
        BY <3>2, LineAssumption DEF LineTypeOK
      <4> QED BY <2>1, <3>2, <4>1 DEF Collect, Pass, Added
    <3> QED BY <3>1, <3>2
  <2>2. CASE ~active
    BY <1>2, <2>2 DEF RxByte, Pass, AfterByte
  <2>3. CASE active /\ escape
    <3>1. b # ESCAPE => AfterByte(b)
      <4>1. CASE b \in {Xor20(MARKER), Xor20(ESCAPE)} /\ Collect(Xor20(b))
        <5>1. Xor20(b) \in Bytes
          BY <4>1, SymbolsAreBytes
        <5> QED BY <2>1, <2>3, <4>1, <5>1 DEF AfterByte
      <4>2. CASE GiveUp /\ Reject
        BY <4>2 DEF GiveUp, Reject, AfterByte
      <4> QED BY <1>2, <2>3, <4>1, <4>2 DEF RxByte
    <3>2. b = ESCAPE => AfterByte(b)
      <4>1. ESCAPE \notin {Xor20(MARKER), Xor20(ESCAPE)}
        BY SymbolsAreBytes
      <4>2. b = ESCAPE => GiveUp /\ Reject
        BY <1>2, <2>3, <4>1 DEF RxByte
      <4> QED BY <4>2 DEF GiveUp, Reject, AfterByte
    <3> QED BY <1>2, <3>1, <3>2
  <2>4. CASE active /\ ~escape
    <3>1. b = ESCAPE => AfterByte(b)
      BY <1>2, <2>4 DEF RxByte, Pass, AfterByte
    <3>2. b # ESCAPE => AfterByte(b)
      <4>1. b # ESCAPE => Collect(b)
        BY <1>2, <2>4 DEF RxByte
      <4> QED BY <2>1, <2>4, <4>1 DEF AfterByte
    <3> QED BY <1>2, <3>1, <3>2
  <2> QED BY <2>2, <2>3, <2>4
<1> QED BY <1>1, <1>2

-----------------------------------------------------------------------------
(* What the parser holds, of what was sent.                                *)

\* As many bytes as it should hold of the body are those of the body; or all
\* but one of them are.
Straight(body, i) == Len(buf) = i => \A j \in 1..i : buf[j] = body[j]
Nearly(body, i) ==
    /\ Len(buf) = i
    /\ \E k \in 1..i : buf[k] # body[k] /\ \A j \in 1..i : j # k => buf[j] = body[j]

\* The next marker accepts nothing, or the last of the first m bodies.
Idle == active => escape \/ ~Valid(buf)
Settled(m) ==
    \/ Kept(m) /\ Idle
    \/ m > 0 /\ Kept(m - 1) /\ active /\ ~escape /\ buf = bodies[m]

\* After the i-th byte of a body, and between the two that stand for it: an
\* escape lost or made up will change one byte more.
ByteFits(body, i) == active => Straight(body, i) \/ (~escape /\ Nearly(body, i))
PairFits(body, i) == active => Straight(body, i - 1) \/ (escape /\ Nearly(body, i - 1))

\* A body as long as it should be, with one byte changed, is not valid.
LEMMA NearlyIsInvalid ==
    ASSUME LineTypeOK, NEW body \in Bodies, Nearly(body, BodyLen)
    PROVE  ~Valid(buf)
<1> DEFINE n == BodyLen - 1
<1>1. BodyLen \in Nat \ {0} /\ n \in Nat /\ n + 1 = BodyLen
  BY LineAssumption
<1>2. PICK payload \in [1..n -> Bytes] : body = Append(payload, Crc(payload))
  BY DEF Bodies
<1>3. PICK k \in 1..BodyLen : /\ buf[k] # body[k] /\ Len(buf) = BodyLen
                              /\ \A j \in 1..BodyLen : j # k => buf[j] = body[j]
  BY DEF Nearly
<1>4. payload \in Seq(Bytes) /\ Len(payload) = n
  BY <1>1
<1>5. body[BodyLen] = Crc(payload) /\ \A j \in 1..n : body[j] = payload[j]
  BY <1>1, <1>2, <1>4
<1>6. buf \in Seq(Bytes)
  BY SymbolsAreBytes DEF LineTypeOK
<1>7. /\ Last(buf) = buf[BodyLen]
      /\ Front(buf) \in [1..n -> Bytes] /\ \A j \in 1..n : Front(buf)[j] = buf[j]
  <2>1. Front(buf) = [j \in 1..n |-> buf[j]]
    BY <1>1, <1>3, <1>6 DEF Front
  <2>2. \A j \in 1..n : buf[j] \in Bytes
    BY <1>1, <1>3, <1>6
  <2> QED BY <1>3, <2>1, <2>2 DEF Last
<1> DEFINE q == Front(buf)
<1> HIDE DEF q, n
<1>8. CASE k = BodyLen
  <2>1. \A j \in 1..n : q[j] = payload[j]
    BY <1>1, <1>3, <1>5, <1>7, <1>8 DEF q
  <2>0. q \in [1..n -> Bytes]
    BY <1>7 DEF q
  <2>2. q = payload
    <3> DEFINE D == 1..n
    <3>1. q \in [D -> Bytes] /\ payload \in [D -> Bytes] /\ \A j \in D : q[j] = payload[j]
      BY <2>0, <2>1
    <3> HIDE DEF D
    <3>2. q = [j \in D |-> q[j]] /\ payload = [j \in D |-> payload[j]]
      BY <3>1
    <3>3. [j \in D |-> q[j]] = [j \in D |-> payload[j]]
      BY <3>1
    <3> QED BY <3>2, <3>3
  <2>3. Last(buf) # Crc(Front(buf))
    BY <1>3, <1>5, <1>7, <1>8, <2>2 DEF q
  <2> QED BY <2>3 DEF Valid
<1>9. CASE k # BodyLen
  <2>1. k \in 1..n
    BY <1>1, <1>9
  <2>2. q[k] # payload[k] /\ \A j \in 1..n : j # k => q[j] = payload[j]
    BY <1>1, <1>3, <1>5, <1>7, <2>1 DEF q
  <2>3. Crc(q) # Crc(payload)
    BY <1>1, <1>7, <2>1, <2>2, CrcSeesOneByte DEF q
  <2>4. Last(buf) = Crc(payload)
    BY <1>1, <1>3, <1>5, <1>7, <1>9
  <2> QED BY <2>3, <2>4 DEF Valid, q
<1> QED BY <1>8, <1>9

\* Nor is an empty body, or one of another length, or a single byte of noise.
LEMMA ShortIsInvalid ==
    /\ \A s : Valid(s) => Len(s) = BodyLen
    /\ ~Valid(<<>>)
    /\ \A b \in Bytes : b # MARKER => ~Valid(<<b>>)
<1>1. BodyLen \in Nat \ {0}
  BY LineAssumption
<1>2. \A s : Valid(s) => Len(s) = BodyLen
  BY DEF Valid
<1>3. ~Valid(<<>>)
  BY <1>1, <1>2
<1>4. ASSUME NEW b \in Bytes, b # MARKER PROVE ~Valid(<<b>>)
  <2>1. Front(<<b>>) = <<>> /\ Last(<<b>>) = b
    BY DEF Front, Last
  <2>2. Crc(<<>>) = 0
    <3>1. DOMAIN <<>> = {} /\ IsFiniteSet({})
      BY FS_EmptySet
    <3>2. Sums(<<>>)[{}] = SumStep(<<>>, Sums(<<>>), {})
      BY <3>1, SumsExist
    <3>3. FoldSeq(+, 0, <<>>) = 0
      BY <3>1, <3>2, FoldIsSums DEF SumStep
    <3>4. 0 % (2 * Flip) = 0
      BY LineAssumption
    <3> QED BY <3>3, <3>4 DEF Crc
  <2> QED BY <1>4, <2>1, <2>2 DEF Valid, MARKER
<1> QED BY <1>2, <1>3, <1>4

\* A valid body that is as it should be so far is the body.
LEMMA StraightIsBody ==
    ASSUME LineTypeOK, NEW body \in Bodies, Straight(body, BodyLen), Valid(buf)
    PROVE  buf = body
<1>1. Len(buf) = BodyLen
  BY ShortIsInvalid
<1>2. body \in Seq(Symbols) /\ Len(body) = BodyLen
  BY BodyBytes
<1>3. \A j \in 1..BodyLen : buf[j] = body[j]
  BY <1>1 DEF Straight
<1> QED BY <1>1, <1>2, <1>3 DEF LineTypeOK

\* One byte more.
LEMMA OneByteMore ==
    ASSUME LineTypeOK, NEW body, NEW i \in Nat \ {0}, NEW c \in Bytes, buf' = Append(buf, c)
    PROVE  /\ Len(buf') = Len(buf) + 1
           /\ Straight(body, i - 1) /\ c = body[i] => Straight(body, i)'
           /\ Straight(body, i - 1) => Straight(body, i)' \/ Nearly(body, i)'
           /\ Nearly(body, i - 1) /\ c = body[i] => Nearly(body, i)'
<1>1. Len(buf) \in Nat /\ buf \in Seq(Symbols) /\ c \in Symbols
  BY SymbolsAreBytes DEF LineTypeOK
<1>2. /\ Len(buf') = Len(buf) + 1 /\ buf'[Len(buf) + 1] = c
      /\ \A j \in 1..Len(buf) : buf'[j] = buf[j]
  BY <1>1
<1>3. CASE Len(buf) # i - 1
  <2>1. Len(buf') # i
    BY <1>1, <1>2, <1>3
  <2> QED BY <1>2, <1>3, <2>1 DEF Straight, Nearly
<1>4. CASE Len(buf) = i - 1
  <2>1. Len(buf') = i /\ buf'[i] = c /\ \A j \in 1..(i - 1) : buf'[j] = buf[j]
    BY <1>1, <1>2, <1>4
  <2>2. 1..i = 1..(i - 1) \cup {i} /\ i \notin 1..(i - 1)
    OBVIOUS
  <2>3. Straight(body, i - 1) /\ c = body[i] => Straight(body, i)'
    BY <1>4, <2>1, <2>2 DEF Straight
  <2>4. Straight(body, i - 1) /\ c # body[i] => Nearly(body, i)'
    <3> SUFFICES ASSUME Straight(body, i - 1), c # body[i] PROVE Nearly(body, i)'
      OBVIOUS
    <3>1. \A j \in 1..i : j # i => buf'[j] = body[j]
      BY <1>4, <2>1, <2>2 DEF Straight
    <3>2. i \in 1..i /\ buf'[i] # body[i]
      BY <2>1
    <3> QED BY <2>1, <3>1, <3>2 DEF Nearly
  <2>5. Nearly(body, i - 1) /\ c = body[i] => Nearly(body, i)'
    <3> SUFFICES ASSUME Nearly(body, i - 1), c = body[i] PROVE Nearly(body, i)'
      OBVIOUS
    <3>1. PICK k \in 1..(i - 1) :
                buf[k] # body[k] /\ \A j \in 1..(i - 1) : j # k => buf[j] = body[j]
      BY DEF Nearly
    <3>2. k \in 1..i /\ buf'[k] # body[k] /\ \A j \in 1..i : j # k => buf'[j] = body[j]
      BY <2>1, <2>2, <3>1
    <3> QED BY <2>1, <3>2 DEF Nearly
  <2> QED BY <1>2, <2>3, <2>4, <2>5
<1> QED BY <1>3, <1>4

\* An empty parser.
LEMMA EmptyFits ==
    ASSUME NEW i \in Nat, NEW body, buf' = <<>>
    PROVE  Straight(body, i)' /\ Idle'
BY ShortIsInvalid DEF Straight, Idle

-----------------------------------------------------------------------------
(* What was accepted was sent: the invariant.                              *)

\* The places of LineInv when n bodies have been sent, with what was accepted by
\* then, and what the parser holds if the line has not misbehaved yet.
ByOpening(r, n) ==
    /\ wire = <<MARKER>> \o r[0] /\ Settled(n - 1)
    /\ damage = 0 => Kept(n - 1) /\ ~Partial
ByByte(r, body, i, n) ==
    /\ wire = r[i] /\ Kept(n - 1) /\ ByteFits(body, i)
    /\ damage = 0 => Holds(body, i) /\ ~escape
ByPair(r, body, i, n) ==
    /\ body[i] \in {MARKER, ESCAPE} /\ wire = <<Xor20(body[i])>> \o r[i]
    /\ Kept(n - 1) /\ PairFits(body, i)
    /\ damage = 0 => Holds(body, i - 1) /\ escape
ByEnd(n) ==
    /\ Markers(wire) /\ Settled(n)
    /\ damage = 0 => Kept(n) /\ ~Partial

InFrame(r, body, n) ==
    \/ ByOpening(r, n)
    \/ \E i \in 0..BodyLen : ByByte(r, body, i, n)
    \/ \E i \in 1..BodyLen : ByPair(r, body, i, n)

\* As long as it has misbehaved once at the most.
SentPlaced(n) ==
    \/ ByEnd(n)
    \/ /\ n > 0
       /\ \E body \in Bodies : \E r : /\ body = bodies[n] /\ Follows(r, body)
                                      /\ InFrame(r, body, n)

SentInv == damage <= 1 => \E n \in Nat : n = Len(bodies) /\ SentPlaced(n)

\* What an intact parser holds is as it should be.
LEMMA HoldsFits ==
    ASSUME NEW body, NEW i \in Nat, Holds(body, i)
    PROVE  Straight(body, i) /\ active /\ Len(buf) = i
BY DEF Holds, Straight

\* What a marker finds, it settles.
LEMMA SettledByMarker ==
    ASSUME LineTypeOK, NEW m \in Nat, m <= Len(bodies), Settled(m), AfterMarker, bodies' = bodies
    PROVE  Kept(m)' /\ Settled(m)' /\ ~Partial'
<1>1. Idle' /\ ~Partial'
  BY ShortIsInvalid DEF AfterMarker, Idle, Partial
<1>2. CASE Kept(m) /\ Idle
  <2>1. accepted' = accepted
    BY <1>2 DEF Idle, AfterMarker
  <2> QED BY <1>1, <1>2, <2>1, KeptOn DEF Settled
<1>3. CASE m > 0 /\ Kept(m - 1) /\ active /\ ~escape /\ buf = bodies[m]
  <2>1. m - 1 \in Nat /\ (m - 1) + 1 = m
    BY <1>3
  <2>2. accepted' = accepted => Kept(m)'
    <3>1. Kept(m)
      BY <1>3, <2>1, KeptLonger
    <3> QED BY <3>1, KeptOn
  <2>3. accepted' = Append(accepted, buf) => Kept(m)'
    <3> DEFINE S == Seq(Symbols)
    <3>1. accepted \in Seq(S) /\ buf \in S
      BY DEF LineTypeOK
    <3> HIDE DEF S
    <3>2. accepted' = Append(accepted, buf) => Kept((m - 1) + 1)'
      BY <1>3, <2>1, <3>1, KeptMore
    <3> QED BY <2>1, <3>2
  <2> QED BY <1>1, <2>2, <2>3 DEF AfterMarker, Settled
<1> QED BY <1>2, <1>3 DEF Settled

\* What is kept by the first m, whatever the parser does next.
LEMMA SettledAnyway ==
    ASSUME NEW m \in Nat, Kept(m), accepted' = accepted, bodies' = bodies
    PROVE  Kept(m)' /\ (Idle' => Settled(m)')
BY KeptOn DEF Settled

-----------------------------------------------------------------------------
(* A byte that arrives as it was sent.                                     *)

\* One that stands for itself.
LEMMA NextPlain ==
    ASSUME LineTypeOK, NEW body \in Bodies, NEW i \in 1..BodyLen, body[i] \notin {MARKER, ESCAPE},
           ByteFits(body, i - 1), RxByte(body[i])
    PROVE  accepted' = accepted /\ ByteFits(body, i)'
<1> DEFINE b == body[i]
<1>1. b \in Bytes /\ i \in Nat \ {0}
  BY SymbolsAreBytes, BodyBytes, LineAssumption
<1>2. AfterByte(b)
  BY <1>1, WhatAByteDoes
<1>3. CASE ~active'
  BY <1>2, <1>3 DEF ByteFits, AfterByte
<1>4. CASE ~escape /\ Added(b)
  <2>1. Straight(body, i)' \/ Nearly(body, i)'
    BY <1>1, <1>4, OneByteMore DEF Added, ByteFits
  <2> QED BY <1>2, <1>4, <2>1 DEF ByteFits, AfterByte, Added
<1>5. CASE escape /\ Added(Xor20(b))
  <2>1. Straight(body, i - 1)
    BY <1>5 DEF ByteFits, Added
  <2>2. Straight(body, i)' \/ Nearly(body, i)'
    BY <1>1, <1>5, <2>1, OneByteMore DEF Added
  <2> QED BY <1>2, <1>5, <2>2 DEF ByteFits, AfterByte, Added
<1> QED BY <1>2, <1>3, <1>4, <1>5 DEF AfterByte

\* The first of the two that stand for a marker or an escape.
LEMMA NextEscape ==
    ASSUME LineTypeOK, NEW body \in Bodies, NEW i \in 1..BodyLen,
           ByteFits(body, i - 1), RxByte(ESCAPE)
    PROVE  accepted' = accepted /\ PairFits(body, i)'
<1>1. AfterByte(ESCAPE)
  BY SymbolsAreBytes, WhatAByteDoes
<1>2. ESCAPE \notin {Xor20(MARKER), Xor20(ESCAPE)}
  BY SymbolsAreBytes
<1>3. CASE ~active'
  BY <1>1, <1>3 DEF PairFits, AfterByte
<1>4. CASE active /\ ~escape /\ active' /\ escape' /\ buf' = buf
  <2>1. Straight(body, i - 1) \/ Nearly(body, i - 1)
    BY <1>4 DEF ByteFits
  <2>2. Straight(body, i - 1)' \/ Nearly(body, i - 1)'
    BY <1>4, <2>1 DEF Straight, Nearly
  <2> QED BY <1>1, <1>4, <2>2 DEF PairFits, AfterByte
<1> QED BY <1>1, <1>2, <1>3, <1>4 DEF AfterByte

\* The second.
LEMMA NextOfPair ==
    ASSUME LineTypeOK, NEW body \in Bodies, NEW i \in 1..BodyLen, body[i] \in {MARKER, ESCAPE},
           PairFits(body, i), RxByte(Xor20(body[i]))
    PROVE  accepted' = accepted /\ ByteFits(body, i)'
<1> DEFINE b == Xor20(body[i])
<1>1. b \in Bytes /\ b \notin {MARKER, ESCAPE} /\ Xor20(b) = body[i] /\ i \in Nat \ {0}
  BY SymbolsAreBytes, LineAssumption
<1>2. AfterByte(b)
  BY <1>1, WhatAByteDoes
<1>3. CASE ~active'
  BY <1>2, <1>3 DEF ByteFits, AfterByte
<1>4. CASE ~escape /\ Added(b)
  <2>1. Straight(body, i - 1)
    BY <1>4 DEF PairFits, Added
  <2>2. Straight(body, i)' \/ Nearly(body, i)'
    BY <1>1, <1>4, <2>1, OneByteMore DEF Added
  <2> QED BY <1>2, <1>4, <2>2 DEF ByteFits, AfterByte, Added
<1>5. CASE escape /\ Added(Xor20(b))
  <2>1. Straight(body, i)' \/ Nearly(body, i)'
    BY <1>1, <1>5, OneByteMore DEF Added, PairFits
  <2> QED BY <1>2, <1>5, <2>1 DEF ByteFits, AfterByte, Added
<1> QED BY <1>1, <1>2, <1>3, <1>4, <1>5 DEF AfterByte

\* With the body complete, the next marker accepts it or nothing.
LEMMA NextClosing ==
    ASSUME LineTypeOK, NEW body \in Bodies, NEW m \in Nat, m > 0, m <= Len(bodies),
           body = bodies[m], Kept(m - 1), ByteFits(body, BodyLen)
    PROVE  Settled(m)
<1>1. m - 1 \in Nat /\ Kept(m)
  BY KeptLonger
<1>2. CASE Idle
  BY <1>1, <1>2 DEF Settled
<1>3. CASE ~Idle
  <2>1. active /\ ~escape /\ Valid(buf)
    BY <1>3 DEF Idle
  <2>2. Straight(body, BodyLen)
    BY <2>1, NearlyIsInvalid DEF ByteFits
  <2>3. buf = body
    BY <2>1, <2>2, StraightIsBody
  <2> QED BY <2>1, <2>3 DEF Settled
<1> QED BY <1>2, <1>3

-----------------------------------------------------------------------------
(* Any byte, in a frame that nothing has happened to.                      *)

\* What lengths exclude.
LEMMA OtherLength ==
    ASSUME NEW i \in Nat, NEW body, Len(buf') # i
    PROVE  Straight(body, i)'
BY DEF Straight

\* Any byte, after the i-th byte of the body.
LEMMA AnyAtByte ==
    ASSUME LineTypeOK, NEW body \in Bodies, NEW i \in 0..BodyLen, Holds(body, i), ~escape,
           NEW b \in Bytes, RxByte(b)
    PROVE  /\ ByteFits(body, i)'
           /\ i < BodyLen \/ b # MARKER => accepted' = accepted
           /\ i = BodyLen => Idle'
           /\ i < BodyLen => ByteFits(body, i + 1)'
           /\ i < BodyLen /\ b # ESCAPE => PairFits(body, i + 1)'
<1>1. /\ i \in Nat /\ BodyLen \in Nat \ {0} /\ i + 1 \in Nat \ {0} /\ (i + 1) - 1 = i
      /\ Straight(body, i) /\ active /\ Len(buf) = i
  BY HoldsFits, LineAssumption
<1>2. i + 1 # i /\ (i # BodyLen <=> i < BodyLen)
  BY <1>1
<1>3. CASE b = MARKER
  <2>1. AfterMarker
    BY <1>3, WhatAByteDoes
  <2>2. Straight(body, i)' /\ Straight(body, i + 1)' /\ Idle'
    BY <1>1, <2>1, EmptyFits DEF AfterMarker
  <2>3. i < BodyLen => accepted' = accepted
    BY <1>1, <1>2, <2>1, ShortIsInvalid DEF AfterMarker
  <2>4. Straight(body, (i + 1) - 1)'
    BY <1>1, <2>2
  <2> QED BY <1>3, <1>2, <2>2, <2>3, <2>4 DEF ByteFits, PairFits
<1>4. CASE b # MARKER /\ ~active'
  <2>1. accepted' = accepted
    BY <1>4, WhatAByteDoes DEF AfterByte
  <2> QED BY <1>4, <2>1 DEF ByteFits, PairFits, Idle
<1>5. CASE b # MARKER /\ b = ESCAPE /\ active' /\ escape' /\ buf' = buf
  <2>1. accepted' = accepted
    BY <1>5, WhatAByteDoes DEF AfterByte
  <2>2. Straight(body, i)'
    BY <1>1, <1>5 DEF Straight
  <2>3. Straight(body, i + 1)'
    BY <1>1, <1>2, <1>5, OtherLength
  <2> QED BY <1>5, <2>1, <2>2, <2>3 DEF ByteFits, Idle
<1>6. CASE b # MARKER /\ Added(b)
  <2>1. accepted' = accepted
    BY <1>6, WhatAByteDoes DEF AfterByte
  <2>2. Len(buf') = i + 1 /\ i < BodyLen /\ ~escape'
    BY <1>1, <1>6, OneByteMore DEF Added
  <2>3. Straight(body, i)'
    BY <1>1, <1>2, <2>2, OtherLength
  <2>4. Straight(body, i + 1)' \/ Nearly(body, i + 1)'
    BY <1>1, <1>6, OneByteMore DEF Added
  <2>5. Straight(body, (i + 1) - 1)'
    BY <1>1, <2>3
  <2> QED BY <1>2, <1>6, <2>1, <2>2, <2>3, <2>4, <2>5 DEF ByteFits, PairFits
<1>7. b # MARKER => AfterByte(b)
  BY WhatAByteDoes
<1> QED BY <1>3, <1>4, <1>5, <1>6, <1>7 DEF AfterByte

\* Any byte, between the two that stand for the i-th of the body.
LEMMA AnyInPair ==
    ASSUME LineTypeOK, NEW body \in Bodies, NEW i \in 1..BodyLen, Holds(body, i - 1), escape,
           NEW b \in Bytes, RxByte(b)
    PROVE  accepted' = accepted /\ PairFits(body, i)' /\ ByteFits(body, i)'
<1>1. /\ i \in Nat \ {0} /\ i - 1 \in Nat /\ i # i - 1
      /\ Straight(body, i - 1) /\ active /\ Len(buf) = i - 1
  <2>1. i \in Nat \ {0} /\ i - 1 \in Nat /\ i # i - 1
    BY LineAssumption
  <2> QED BY <2>1, HoldsFits
<1>2. CASE b = MARKER
  <2>1. AfterMarker
    BY <1>2, WhatAByteDoes
  <2>2. Straight(body, i - 1)' /\ Straight(body, i)'
    BY <1>1, <2>1, EmptyFits DEF AfterMarker
  <2> QED BY <2>1, <2>2 DEF AfterMarker, ByteFits, PairFits
<1>3. CASE b # MARKER
  <2>1. AfterByte(b)
    BY <1>3, WhatAByteDoes
  <2>2. CASE ~active'
    BY <2>1, <2>2 DEF AfterByte, ByteFits, PairFits
  <2>3. CASE Added(Xor20(b))
    <3>1. Len(buf') = i /\ ~escape'
      BY <1>1, <2>3, OneByteMore DEF Added
    <3>2. Straight(body, i - 1)'
      BY <1>1, <3>1, OtherLength
    <3>3. Straight(body, i)' \/ Nearly(body, i)'
      BY <1>1, <2>3, OneByteMore DEF Added
    <3> QED BY <2>1, <3>1, <3>2, <3>3 DEF AfterByte, ByteFits, PairFits
  <2> QED BY <2>1, <2>2, <2>3 DEF AfterByte
<1> QED BY <1>2, <1>3

\* Any byte, between two frames.
LEMMA AnyBetween ==
    ASSUME LineTypeOK, ~Partial, NEW body, NEW b \in Bytes, RxByte(b)
    PROVE  accepted' = accepted /\ Idle' /\ ByteFits(body, 0)'
<1>1. buf = <<>> /\ ~escape
  BY DEF Partial
<1>2. CASE b = MARKER
  <2>1. AfterMarker
    BY <1>2, WhatAByteDoes
  <2>2. Straight(body, 0)' /\ Idle'
    BY <2>1, EmptyFits DEF AfterMarker
  <2> QED BY <1>1, <2>1, <2>2, ShortIsInvalid DEF AfterMarker, ByteFits
<1>3. CASE b # MARKER
  <2>1. AfterByte(b)
    BY <1>3, WhatAByteDoes
  <2>2. CASE ~active'
    BY <2>1, <2>2 DEF AfterByte, ByteFits, Idle
  <2>3. CASE escape' /\ buf' = buf
    <3>1. Straight(body, 0)'
      BY <1>1, <2>3, EmptyFits
    <3> QED BY <2>1, <2>3, <3>1 DEF AfterByte, ByteFits, Idle
  <2>4. CASE Added(b)
    <3>1. buf' = <<b>> /\ Len(buf') = 1
      BY <1>1, <2>4 DEF Added
    <3>2. ~Valid(buf')
      BY <1>3, <3>1, ShortIsInvalid
    <3>3. Straight(body, 0)'
      BY <3>1, OtherLength
    <3> QED BY <2>1, <3>2, <3>3 DEF AfterByte, ByteFits, Idle
  <2> QED BY <1>1, <2>1, <2>2, <2>3, <2>4 DEF AfterByte
<1> QED BY <1>2, <1>3

-----------------------------------------------------------------------------
(* Every step.                                                             *)

\* Where the line goes on into the body, or into a pair.
LEMMA IntoByte ==
    ASSUME NEW r, NEW body, NEW n \in Nat \ {0}, NEW i \in 0..BodyLen, Kept(n - 1),
           bodies' = bodies, accepted' = accepted, wire' = r[i], ByteFits(body, i)',
           damage' = 0 => Holds(body, i)' /\ ~escape'
    PROVE  InFrame(r, body, n)'
<1>1. n - 1 \in Nat /\ Kept(n - 1)'
  BY KeptOn
<1>2. ByByte(r, body, i, n)'
  BY <1>1 DEF ByByte
<1> QED BY <1>1, <1>2 DEF InFrame

\* Or between the two bytes of a pair.
LEMMA IntoPair ==
    ASSUME NEW r, NEW body, NEW n \in Nat \ {0}, NEW i \in 1..BodyLen, Kept(n - 1),
           body[i] \in {MARKER, ESCAPE}, bodies' = bodies, accepted' = accepted,
           wire' = <<Xor20(body[i])>> \o r[i], PairFits(body, i)',
           damage' = 0 => Holds(body, i - 1)' /\ escape'
    PROVE  InFrame(r, body, n)'
<1>1. n - 1 \in Nat /\ Kept(n - 1)'
  BY KeptOn
<1>2. ByPair(r, body, i, n)'
  BY <1>1 DEF ByPair
<1> QED BY <1>1, <1>2 DEF InFrame

\* It holds at first.
LEMMA SentInitially == ASSUME LineInit PROVE SentInv
<1>1. /\ bodies = <<>> /\ wire = <<>> /\ accepted = <<>> /\ damage = 0
      /\ active = FALSE /\ buf = <<>> /\ escape = FALSE
  BY DEF LineInit
<1>2. Len(bodies) = 0 /\ Len(accepted) = 0 /\ Markers(wire)
  BY <1>1 DEF Markers
<1>3. Chosen({}, 0)
  BY <1>2, FS_EmptySet DEF Chosen
<1>4. Kept(0) /\ Idle /\ ~Partial
  BY <1>1, <1>3 DEF Kept, Idle, Partial
<1>5. ByEnd(0)
  BY <1>2, <1>4 DEF ByEnd, Settled
<1> QED BY <1>2, <1>5 DEF SentInv, SentPlaced

\* The next frame is sent.
LEMMA SentSent ==
    ASSUME LineTypeOK, NEW n \in Nat, n = Len(bodies), SentPlaced(n), SendFrame
    PROVE  Len(bodies') = n + 1 /\ SentPlaced(n + 1)'
<1>1. PICK body \in Bodies : bodies' = Append(bodies, body) /\ wire' = Padded(Encode(body))
  BY DEF SendFrame
<1>2. PICK r : Follows(r, body) /\ wire' = <<MARKER>> \o r[0]
  BY <1>1, FrameOnTheLine
<1>3. /\ damage' = damage /\ buf' = buf /\ active' = active /\ escape' = escape
      /\ accepted' = accepted /\ wire = <<>>
  BY DEF SendFrame
<1>4. ByEnd(n)
  <2> SUFFICES ASSUME NEW old \in Bodies, NEW q, Follows(q, old), InFrame(q, old, n) PROVE FALSE
    BY DEF SentPlaced
  <2>2. ~ByOpening(q, n)
    BY <1>3, NextByte DEF ByOpening
  <2>3. \A i \in 0..BodyLen : ~ByByte(q, old, i, n)
    BY <1>3, NextByte DEF ByByte
  <2>4. \A i \in 1..BodyLen : ~ByPair(q, old, i, n)
    BY <1>3, NextByte DEF ByPair
  <2> QED BY <2>2, <2>3, <2>4 DEF InFrame
<1>5. /\ Len(bodies') = n + 1 /\ bodies'[n + 1] = body
      /\ \A k \in 1..n : bodies'[k] = bodies[k]
  BY <1>1 DEF LineTypeOK
<1>6. Kept(n) => Kept(n)'
  BY <1>3, <1>5, KeptOn
<1>7. Settled(n)'
  <2>1. CASE Kept(n) /\ Idle
    BY <1>3, <1>6, <2>1 DEF Settled, Idle
  <2>2. CASE n > 0 /\ Kept(n - 1) /\ active /\ ~escape /\ buf = bodies[n]
    <3>1. n - 1 \in Nat /\ n \in 1..n /\ \A k \in 1..(n - 1) : bodies'[k] = bodies[k]
      BY <1>5, <2>2
    <3>2. Kept(n - 1)'
      BY <1>3, <2>2, <3>1, KeptOn
    <3> QED BY <1>3, <1>5, <2>2, <3>1, <3>2 DEF Settled
  <2> QED BY <1>4, <2>1, <2>2 DEF ByEnd, Settled
<1>8. damage' = 0 => Kept(n)' /\ ~Partial'
  BY <1>3, <1>4, <1>6 DEF ByEnd, Partial
<1>9. ByOpening(r, n + 1)'
  <2>1. (n + 1) - 1 = n
    OBVIOUS
  <2> QED BY <1>2, <1>7, <1>8, <2>1 DEF ByOpening
<1>10. n + 1 > 0
  OBVIOUS
<1> QED BY <1>2, <1>5, <1>9, <1>10 DEF SentPlaced, InFrame

\* A byte arrives as it was sent.
LEMMA SentArrived ==
    ASSUME LineTypeOK, NEW n \in Nat, n = Len(bodies), SentPlaced(n), Arrive
    PROVE  SentPlaced(n)'
<1>1. /\ wire # <<>> /\ wire' = Tail(wire) /\ RxByte(Head(wire))
      /\ bodies' = bodies /\ damage' = damage
  BY DEF Arrive
<1>2. BodyLen \in Nat \ {0} /\ 0 \in 0..BodyLen /\ BodyLen \in 0..BodyLen
  BY LineAssumption
<1>3. CASE ByEnd(n)
  <2>1. Head(wire) = MARKER /\ Markers(wire')
    BY <1>1, <1>3 DEF LineTypeOK, ByEnd, Markers
  <2>2. AfterMarker
    BY <1>1, <2>1, SymbolsAreBytes, WhatAByteDoes
  <2>3. Kept(n)' /\ Settled(n)' /\ ~Partial'
    BY <1>1, <1>3, <2>2, SettledByMarker DEF ByEnd
  <2> QED BY <2>1, <2>3 DEF ByEnd, SentPlaced
<1>4. ASSUME NEW body \in Bodies, NEW r, n > 0, body = bodies[n], Follows(r, body),
             InFrame(r, body, n)
      PROVE  InFrame(r, body, n)' \/ ByEnd(n)'
  <2>1. n - 1 \in Nat /\ n \in Nat \ {0} /\ n - 1 <= Len(bodies)
    BY <1>4
  <2>2. CASE ByOpening(r, n)
    <3>1. Head(wire) = MARKER /\ wire' = r[0]
      BY <1>1, <1>4, <2>2, NextByte DEF ByOpening
    <3>2. AfterMarker
      BY <1>1, <3>1, SymbolsAreBytes, WhatAByteDoes
    <3>3. Kept(n - 1)'
      BY <1>1, <2>1, <2>2, <3>2, SettledByMarker DEF ByOpening
    <3>4. Straight(body, 0)' /\ active' /\ ~escape' /\ Holds(body, 0)'
      BY <3>2 DEF AfterMarker, Straight, Holds
    <3>5. ByByte(r, body, 0, n)'
      BY <3>1, <3>3, <3>4 DEF ByByte, ByteFits
    <3> QED BY <1>2, <3>5 DEF InFrame
  <2>3. ASSUME NEW k \in 0..BodyLen, ByByte(r, body, k, n)
        PROVE  InFrame(r, body, n)' \/ ByEnd(n)'
    <3>0. /\ wire = r[k] /\ Kept(n - 1) /\ ByteFits(body, k)
          /\ damage' = 0 => Holds(body, k) /\ ~escape
      BY <1>1, <2>3 DEF ByByte
    <3>1. CASE k = BodyLen
      <4>1. Head(wire) = MARKER /\ Markers(wire')
        BY <1>1, <1>4, <3>0, <3>1, NextByte
      <4>2. Settled(n)
        BY <1>4, <2>1, <3>0, <3>1, NextClosing
      <4>3. AfterMarker
        BY <1>1, <4>1, SymbolsAreBytes, WhatAByteDoes
      <4>4. Kept(n)' /\ Settled(n)' /\ ~Partial'
        BY <1>1, <4>2, <4>3, SettledByMarker
      <4> QED BY <4>1, <4>4 DEF ByEnd
    <3>2. CASE k # BodyLen
      <4> DEFINE i == k + 1
      <4>1. i \in 1..BodyLen /\ i \in 0..BodyLen /\ i - 1 = k
        BY <1>2, <3>2
      <4> HIDE DEF i
      <4>2. /\ wire = r[i - 1] /\ ByteFits(body, i - 1)
            /\ damage' = 0 => Holds(body, i - 1) /\ ~escape
        BY <3>0, <4>1
      <4>3. CASE body[i] \in {MARKER, ESCAPE}
        <5>1. RxByte(ESCAPE) /\ wire' = <<Xor20(body[i])>> \o r[i]
          BY <1>1, <1>4, <4>1, <4>2, <4>3, NextByte
        <5>2. accepted' = accepted /\ PairFits(body, i)'
          BY <4>1, <4>2, <5>1, NextEscape
        <5>3. damage' = 0 => Holds(body, i - 1)' /\ escape'
          BY <4>1, <4>2, <5>1, FirstOfPair
        <5>4. InFrame(r, body, n)'
          BY <1>1, <2>1, <3>0, <4>1, <4>3, <5>1, <5>2, <5>3, IntoPair
        <5> QED BY <5>4
      <4>4. CASE body[i] \notin {MARKER, ESCAPE}
        <5>0. Head(r[i - 1]) = body[i] /\ Tail(r[i - 1]) = r[i]
          <6>1. \A j \in 1..BodyLen : body[j] \notin {MARKER, ESCAPE} =>
                  Head(r[j - 1]) = body[j] /\ Tail(r[j - 1]) = r[j]
            BY <1>4, NextByte
          <6> QED BY <4>1, <4>4, <6>1
        <5>1. RxByte(body[i]) /\ wire' = r[i]
          BY <1>1, <4>2, <5>0
        <5>2. accepted' = accepted /\ ByteFits(body, i)'
          BY <4>1, <4>2, <4>4, <5>1, NextPlain
        <5>3. damage' = 0 => Holds(body, i)' /\ ~escape'
          BY <4>1, <4>2, <4>4, <5>1, PlainByte
        <5>4. InFrame(r, body, n)'
          BY <1>1, <2>1, <3>0, <4>1, <5>1, <5>2, <5>3, IntoByte
        <5> QED BY <5>4
      <4> QED BY <4>3, <4>4
    <3> QED BY <3>1, <3>2
  <2>4. ASSUME NEW i \in 1..BodyLen, ByPair(r, body, i, n)
        PROVE  InFrame(r, body, n)'
    <3>0. /\ body[i] \in {MARKER, ESCAPE} /\ wire = <<Xor20(body[i])>> \o r[i]
          /\ Kept(n - 1) /\ PairFits(body, i) /\ i \in 0..BodyLen
          /\ damage' = 0 => Holds(body, i - 1) /\ escape
      BY <1>1, <2>4 DEF ByPair
    <3>1. RxByte(Xor20(body[i])) /\ wire' = r[i]
      BY <1>1, <1>4, <3>0, NextByte
    <3>2. accepted' = accepted /\ ByteFits(body, i)'
      BY <3>0, <3>1, NextOfPair
    <3>3. damage' = 0 => Holds(body, i)' /\ ~escape'
      BY <3>0, <3>1, SecondOfPair
    <3> QED BY <1>1, <2>1, <3>0, <3>1, <3>2, <3>3, IntoByte
  <2> QED BY <1>4, <2>2, <2>3, <2>4 DEF InFrame
<1>5. bodies'[n] = bodies[n]
  BY <1>1
<1> QED BY <1>3, <1>4, <1>5 DEF SentPlaced

\* Where the line is in a frame that nothing has happened to.
Untouched(r, body) ==
    \/ wire = <<MARKER>> \o r[0] /\ ~Partial
    \/ \E i \in 0..BodyLen : wire = r[i] /\ Holds(body, i) /\ ~escape
    \/ \E i \in 1..BodyLen :
         /\ body[i] \in {MARKER, ESCAPE} /\ wire = <<Xor20(body[i])>> \o r[i]
         /\ Holds(body, i - 1) /\ escape

\* The first disturbance: what SentPlaced says before it.
LEMMA Intact ==
    ASSUME NEW n \in Nat, SentPlaced(n), damage = 0
    PROVE  \/ Markers(wire) /\ Kept(n) /\ ~Partial
           \/ \E body \in Bodies : \E r :
                /\ n > 0 /\ body = bodies[n] /\ Follows(r, body) /\ Kept(n - 1)
                /\ Untouched(r, body)
<1>1. ByEnd(n) => Markers(wire) /\ Kept(n) /\ ~Partial
  BY DEF ByEnd
<1>2. ASSUME NEW body \in Bodies, NEW r, InFrame(r, body, n)
      PROVE  Kept(n - 1) /\ Untouched(r, body)
  <2>1. CASE ByOpening(r, n)
    <3>1. wire = <<MARKER>> \o r[0] /\ ~Partial /\ Kept(n - 1)
      BY <2>1 DEF ByOpening
    <3> QED BY <3>1 DEF Untouched
  <2>2. ASSUME NEW i \in 0..BodyLen, ByByte(r, body, i, n)
        PROVE  Kept(n - 1) /\ wire = r[i] /\ Holds(body, i) /\ ~escape
    BY <2>2 DEF ByByte
  <2>3. ASSUME NEW i \in 1..BodyLen, ByPair(r, body, i, n)
        PROVE  /\ body[i] \in {MARKER, ESCAPE} /\ wire = <<Xor20(body[i])>> \o r[i]
               /\ Kept(n - 1) /\ Holds(body, i - 1) /\ escape
    BY <2>3 DEF ByPair
  <2> QED BY <1>2, <2>1, <2>2, <2>3 DEF InFrame, Untouched
<1> QED BY <1>1, <1>2 DEF SentPlaced

\* It strikes between two frames, or when the last one is through.
LEMMA IntoEnd ==
    ASSUME NEW n \in Nat, Kept(n), accepted' = accepted, bodies' = bodies, Idle',
           Markers(wire)', damage' # 0
    PROVE  SentPlaced(n)'
<1>1. Settled(n)'
  BY SettledAnyway
<1> QED BY <1>1 DEF ByEnd, SentPlaced

\* Or before a frame has begun.
LEMMA IntoOpening ==
    ASSUME NEW n \in Nat \ {0}, NEW r, NEW body, Kept(n - 1), accepted' = accepted,
           bodies' = bodies, Idle', wire' = <<MARKER>> \o r[0], damage' # 0
    PROVE  InFrame(r, body, n)'
<1>1. n - 1 \in Nat
  OBVIOUS
<1>2. Settled(n - 1)'
  BY <1>1, SettledAnyway
<1> QED BY <1>2 DEF ByOpening, InFrame

\* A place in the frame is a place.
LEMMA PlacedInFrame ==
    ASSUME NEW n \in Nat \ {0}, NEW body \in Bodies, NEW r, body = bodies[n], bodies' = bodies,
           Follows(r, body), InFrame(r, body, n)'
    PROVE  SentPlaced(n)'
BY DEF SentPlaced

\* A byte is lost.
LEMMA SentLost ==
    ASSUME LineTypeOK, NEW n \in Nat, n = Len(bodies), SentPlaced(n), damage = 0, Lose
    PROVE  SentPlaced(n)'
<1>1. /\ wire # <<>> /\ wire' = Tail(wire) /\ bodies' = bodies /\ damage' = 1
      /\ buf' = buf /\ active' = active /\ escape' = escape /\ accepted' = accepted
  BY DEF Lose, Harm
<1>2. BodyLen \in Nat \ {0} /\ 0 \in 0..BodyLen
  BY LineAssumption
<1>3. CASE Markers(wire) /\ Kept(n) /\ ~Partial
  <2>1. Markers(wire)'
    BY <1>1, <1>3 DEF LineTypeOK, Markers
  <2>2. Idle'
    BY <1>1, <1>3, ShortIsInvalid DEF Idle, Partial
  <2> QED BY <1>1, <1>3, <2>1, <2>2, IntoEnd
<1>4. ASSUME NEW body \in Bodies, NEW r, n > 0, body = bodies[n], Follows(r, body), Kept(n - 1),
             Untouched(r, body)
      PROVE  SentPlaced(n)'
  <2>1. n - 1 \in Nat /\ n \in Nat \ {0}
    BY <1>4
  <2>2. ASSUME wire = <<MARKER>> \o r[0], ~Partial PROVE SentPlaced(n)'
    <3>1. wire' = r[0]
      BY <1>1, <1>4, <2>2, NextByte
    <3>2. buf' = <<>>
      BY <1>1, <2>2 DEF Partial
    <3>3. ByteFits(body, 0)'
      BY <3>2, EmptyFits DEF ByteFits
    <3>4. InFrame(r, body, n)'
      BY <1>1, <1>2, <1>4, <2>1, <3>1, <3>3, IntoByte
    <3> QED BY <1>1, <1>4, <2>1, <3>4, PlacedInFrame
  <2>3. ASSUME NEW k \in 0..BodyLen, wire = r[k], Holds(body, k), ~escape PROVE SentPlaced(n)'
    <3>1. CASE k = BodyLen
      <4>1. Markers(wire')
        <5>1. Markers(Tail(r[BodyLen]))
          BY <1>4, NextByte
        <5> QED BY <1>1, <2>3, <3>1, <5>1
      <4>2. Straight(body, BodyLen) /\ active /\ Len(buf) = BodyLen
        BY <1>2, <2>3, <3>1, HoldsFits
      <4>3. Settled(n)
        BY <1>4, <2>1, <4>2, NextClosing DEF ByteFits
      <4>4. Kept(n - 1)' /\ (Kept(n) => Kept(n)')
        BY <1>1, <1>4, <2>1, KeptOn
      <4>5. Settled(n)'
        BY <1>1, <4>3, <4>4 DEF Settled, Idle
      <4>6. ByEnd(n)'
        BY <1>1, <4>1, <4>5 DEF ByEnd, Markers
      <4> QED BY <4>6 DEF SentPlaced
    <3>2. CASE k # BodyLen
      <4> DEFINE i == k + 1
      <4>1. i \in 1..BodyLen /\ i \in 0..BodyLen /\ i - 1 = k /\ k \in Nat /\ i \in Nat /\ k # i
        BY <1>2, <3>2
      <4> HIDE DEF i
      <4>2. Straight(body, k) /\ Len(buf) = k
        BY <2>3, <4>1, HoldsFits
      <4>3. CASE body[i] \in {MARKER, ESCAPE}
        <5>1. \A j \in 1..BodyLen : body[j] \in {MARKER, ESCAPE} =>
                Tail(r[j - 1]) = <<Xor20(body[j])>> \o r[j]
          BY <1>4, NextByte
        <5>2. wire' = <<Xor20(body[i])>> \o r[i]
          BY <1>1, <2>3, <4>1, <4>3, <5>1
        <5>3. Straight(body, i - 1)'
          BY <1>1, <4>1, <4>2 DEF Straight
        <5>4. PairFits(body, i)'
          BY <5>3 DEF PairFits
        <5>5. /\ bodies' = bodies /\ accepted' = accepted /\ damage' # 0
              /\ i \in 1..BodyLen /\ Kept(n - 1) /\ n \in Nat \ {0}
          BY <1>1, <1>4, <2>1, <4>1
        <5>6. InFrame(r, body, n)'
          BY <4>3, <5>2, <5>4, <5>5, IntoPair
        <5> QED BY <1>1, <1>4, <2>1, <5>6, PlacedInFrame
      <4>4. CASE body[i] \notin {MARKER, ESCAPE}
        <5>1. \A j \in 1..BodyLen : body[j] \notin {MARKER, ESCAPE} => Tail(r[j - 1]) = r[j]
          BY <1>4, NextByte
        <5>2. wire' = r[i]
          BY <1>1, <2>3, <4>1, <4>4, <5>1
        <5>3. Straight(body, i)'
          BY <1>1, <4>1, <4>2, OtherLength
        <5>4. ByteFits(body, i)'
          BY <5>3 DEF ByteFits
        <5>5. InFrame(r, body, n)'
          BY <1>1, <1>4, <2>1, <4>1, <5>2, <5>4, IntoByte
        <5> QED BY <1>1, <1>4, <2>1, <5>5, PlacedInFrame
      <4> QED BY <4>3, <4>4
    <3> QED BY <3>1, <3>2
  <2>4. ASSUME NEW i \in 1..BodyLen, body[i] \in {MARKER, ESCAPE},
               wire = <<Xor20(body[i])>> \o r[i], Holds(body, i - 1), escape
        PROVE  SentPlaced(n)'
    <3>1. wire' = r[i] /\ i \in 0..BodyLen /\ i \in Nat /\ i - 1 \in Nat /\ i # i - 1
      <4>1. i \in 0..BodyLen /\ i \in Nat /\ i - 1 \in Nat /\ i # i - 1
        BY <1>2
      <4>2. wire' = r[i]
        BY <1>1, <1>4, <2>4, NextByte
      <4> QED BY <4>1, <4>2
    <3>2. Len(buf) = i - 1
      BY <2>4 DEF Holds
    <3>3. Straight(body, i)'
      BY <1>1, <3>1, <3>2, OtherLength
    <3>4. ByteFits(body, i)'
      BY <3>3 DEF ByteFits
    <3>5. InFrame(r, body, n)'
      BY <1>1, <1>4, <2>1, <3>1, <3>4, IntoByte
    <3> QED BY <1>1, <1>4, <2>1, <3>5, PlacedInFrame
  <2> QED BY <1>4, <2>2, <2>3, <2>4 DEF Untouched
<1> QED BY <1>3, <1>4, Intact

\* A byte is changed into another.
LEMMA SentChanged ==
    ASSUME LineTypeOK, NEW n \in Nat, n = Len(bodies), SentPlaced(n), damage = 0, Change
    PROVE  SentPlaced(n)'
<1>1. /\ wire # <<>> /\ wire' = Tail(wire) /\ bodies' = bodies /\ damage' # 0
      /\ \E b \in Bytes \ {Head(wire)} : RxByte(b)
  BY DEF Change, Harm
<1>2. BodyLen \in Nat \ {0} /\ 0 \in 0..BodyLen
  BY LineAssumption
<1>3. PICK b \in Bytes : b # Head(wire) /\ RxByte(b)
  BY <1>1
<1>4. CASE Markers(wire) /\ Kept(n) /\ ~Partial
  <2>1. Markers(wire)'
    BY <1>1, <1>4 DEF LineTypeOK, Markers
  <2>2. accepted' = accepted /\ Idle'
    BY <1>3, <1>4, AnyBetween
  <2> QED BY <1>1, <1>4, <2>1, <2>2, IntoEnd
<1>5. ASSUME NEW body \in Bodies, NEW r, n > 0, body = bodies[n], Follows(r, body), Kept(n - 1),
             Untouched(r, body)
      PROVE  SentPlaced(n)'
  <2>1. n - 1 \in Nat /\ n \in Nat \ {0}
    BY <1>5
  <2>2. ASSUME wire = <<MARKER>> \o r[0], ~Partial PROVE SentPlaced(n)'
    <3>1. wire' = r[0]
      BY <1>1, <1>5, <2>2, NextByte
    <3>2. accepted' = accepted /\ ByteFits(body, 0)'
      BY <1>3, <2>2, AnyBetween
    <3>3. InFrame(r, body, n)'
      BY <1>1, <1>2, <1>5, <2>1, <3>1, <3>2, IntoByte
    <3> QED BY <1>1, <1>5, <2>1, <3>3, PlacedInFrame
  <2>3. ASSUME NEW k \in 0..BodyLen, wire = r[k], Holds(body, k), ~escape PROVE SentPlaced(n)'
    <3>1. CASE k = BodyLen
      <4>1. Head(wire) = MARKER /\ Markers(wire')
        <5>1. Head(r[BodyLen]) = MARKER /\ Markers(Tail(r[BodyLen]))
          BY <1>5, NextByte
        <5> QED BY <1>1, <2>3, <3>1, <5>1
      <4>2. accepted' = accepted /\ Idle'
        BY <1>3, <2>3, <3>1, <4>1, AnyAtByte
      <4>3. Kept(n)
        BY <1>5, <2>1, KeptLonger
      <4>4. Markers(wire)'
        BY <4>1 DEF Markers
      <4> QED BY <1>1, <4>2, <4>3, <4>4, IntoEnd
    <3>2. CASE k # BodyLen
      <4> DEFINE i == k + 1
      <4>1. i \in 1..BodyLen /\ i \in 0..BodyLen /\ i - 1 = k /\ k < BodyLen
        BY <1>2, <3>2
      <4>2. accepted' = accepted /\ ByteFits(body, i)' /\ (b # ESCAPE => PairFits(body, i)')
        BY <1>3, <2>3, <4>1, AnyAtByte
      <4> HIDE DEF i
      <4>3. CASE body[i] \in {MARKER, ESCAPE}
        <5>1. \A j \in 1..BodyLen : body[j] \in {MARKER, ESCAPE} =>
                Head(r[j - 1]) = ESCAPE /\ Tail(r[j - 1]) = <<Xor20(body[j])>> \o r[j]
          BY <1>5, NextByte
        <5>2. wire' = <<Xor20(body[i])>> \o r[i] /\ Head(wire) = ESCAPE
          BY <1>1, <2>3, <4>1, <4>3, <5>1
        <5>3. PairFits(body, i)'
          BY <1>3, <4>2, <5>2
        <5>4. /\ bodies' = bodies /\ accepted' = accepted /\ damage' # 0
              /\ i \in 1..BodyLen /\ Kept(n - 1) /\ n \in Nat \ {0}
          BY <1>1, <1>5, <2>1, <4>1, <4>2
        <5>5. InFrame(r, body, n)'
          BY <4>3, <5>2, <5>3, <5>4, IntoPair
        <5> QED BY <1>1, <1>5, <2>1, <5>5, PlacedInFrame
      <4>4. CASE body[i] \notin {MARKER, ESCAPE}
        <5>1. \A j \in 1..BodyLen : body[j] \notin {MARKER, ESCAPE} => Tail(r[j - 1]) = r[j]
          BY <1>5, NextByte
        <5>2. wire' = r[i]
          BY <1>1, <2>3, <4>1, <4>4, <5>1
        <5>3. InFrame(r, body, n)'
          BY <1>1, <1>5, <2>1, <4>1, <4>2, <5>2, IntoByte
        <5> QED BY <1>1, <1>5, <2>1, <5>3, PlacedInFrame
      <4> QED BY <4>3, <4>4
    <3> QED BY <3>1, <3>2
  <2>4. ASSUME NEW i \in 1..BodyLen, body[i] \in {MARKER, ESCAPE},
               wire = <<Xor20(body[i])>> \o r[i], Holds(body, i - 1), escape
        PROVE  SentPlaced(n)'
    <3>1. wire' = r[i]
      BY <1>1, <1>5, <2>4, NextByte
    <3>2. i \in 0..BodyLen
      BY <1>2
    <3>3. accepted' = accepted /\ ByteFits(body, i)'
      BY <1>3, <2>4, AnyInPair
    <3>4. InFrame(r, body, n)'
      BY <1>1, <1>5, <2>1, <3>1, <3>2, <3>3, IntoByte
    <3> QED BY <1>1, <1>5, <2>1, <3>4, PlacedInFrame
  <2> QED BY <1>5, <2>2, <2>3, <2>4 DEF Untouched
<1> QED BY <1>4, <1>5, Intact

\* A byte is put in.
LEMMA SentInserted ==
    ASSUME LineTypeOK, NEW n \in Nat, n = Len(bodies), SentPlaced(n), damage = 0, Insert
    PROVE  SentPlaced(n)'
<1>1. /\ wire' = wire /\ bodies' = bodies /\ damage' # 0
      /\ \E b \in Bytes : RxByte(b)
  BY DEF Insert, Harm
<1>2. BodyLen \in Nat \ {0} /\ 0 \in 0..BodyLen
  BY LineAssumption
<1>3. PICK b \in Bytes : RxByte(b)
  BY <1>1
<1>4. CASE Markers(wire) /\ Kept(n) /\ ~Partial
  <2>1. Markers(wire)'
    BY <1>1, <1>4 DEF Markers
  <2>2. accepted' = accepted /\ Idle'
    BY <1>3, <1>4, AnyBetween
  <2> QED BY <1>1, <1>4, <2>1, <2>2, IntoEnd
<1>5. ASSUME NEW body \in Bodies, NEW r, n > 0, body = bodies[n], Follows(r, body), Kept(n - 1),
             Untouched(r, body)
      PROVE  SentPlaced(n)'
  <2>1. n - 1 \in Nat /\ n \in Nat \ {0}
    BY <1>5
  <2>2. ASSUME wire = <<MARKER>> \o r[0], ~Partial PROVE SentPlaced(n)'
    <3>1. accepted' = accepted /\ Idle'
      BY <1>3, <2>2, AnyBetween
    <3>2. InFrame(r, body, n)'
      BY <1>1, <1>5, <2>1, <2>2, <3>1, IntoOpening
    <3> QED BY <1>1, <1>5, <2>1, <3>2, PlacedInFrame
  <2>3. ASSUME NEW k \in 0..BodyLen, wire = r[k], Holds(body, k), ~escape PROVE SentPlaced(n)'
    <3>1. CASE k = BodyLen /\ b = MARKER
      <4>1. Markers(wire')
        <5>1. Markers(r[BodyLen])
          BY <1>5 DEF Follows
        <5> QED BY <1>1, <2>3, <3>1, <5>1
      <4>2. Straight(body, BodyLen)
        BY <1>2, <2>3, <3>1, HoldsFits
      <4>3. Settled(n)
        BY <1>5, <2>1, <4>2, NextClosing DEF ByteFits
      <4>4. AfterMarker
        BY <1>3, <3>1, WhatAByteDoes
      <4>5. Settled(n)'
        BY <1>1, <4>3, <4>4, SettledByMarker
      <4>6. ByEnd(n)'
        BY <1>1, <4>1, <4>5 DEF ByEnd, Markers
      <4> QED BY <4>6 DEF SentPlaced
    <3>2. CASE k < BodyLen \/ b # MARKER
      <4>1. accepted' = accepted /\ ByteFits(body, k)'
        BY <1>3, <2>3, <3>2, AnyAtByte
      <4>2. wire' = r[k]
        BY <1>1, <2>3
      <4>3. InFrame(r, body, n)'
        BY <1>1, <1>5, <2>1, <4>1, <4>2, IntoByte
      <4> QED BY <1>1, <1>5, <2>1, <4>3, PlacedInFrame
    <3> QED BY <1>2, <3>1, <3>2
  <2>4. ASSUME NEW i \in 1..BodyLen, body[i] \in {MARKER, ESCAPE},
               wire = <<Xor20(body[i])>> \o r[i], Holds(body, i - 1), escape
        PROVE  SentPlaced(n)'
    <3>1. accepted' = accepted /\ PairFits(body, i)'
      BY <1>3, <2>4, AnyInPair
    <3>2. wire' = <<Xor20(body[i])>> \o r[i]
      BY <1>1, <2>4
    <3>3. InFrame(r, body, n)'
      BY <1>1, <1>5, <2>1, <2>4, <3>1, <3>2, IntoPair
    <3> QED BY <1>1, <1>5, <2>1, <3>3, PlacedInFrame
  <2> QED BY <1>5, <2>2, <2>3, <2>4 DEF Untouched
<1> QED BY <1>4, <1>5, Intact

\* The line falls silent, or a vehicle is plugged in.
LEMMA SentSilent ==
    ASSUME LineTypeOK, NEW n \in Nat, n = Len(bodies), SentPlaced(n), damage = 0,
           FallSilent \/ NewSession
    PROVE  SentPlaced(n)'
<1>1. /\ wire' = wire /\ bodies' = bodies /\ damage' # 0
      /\ accepted' = accepted /\ active' = FALSE /\ escape' = FALSE /\ buf' = <<>>
  BY DEF FallSilent, NewSession, Harm, GiveUp, Reject, Pass
<1>2. Idle' /\ \A body, i : ByteFits(body, i)' /\ PairFits(body, i)'
  BY <1>1 DEF Idle, ByteFits, PairFits
<1>3. CASE Markers(wire) /\ Kept(n) /\ ~Partial
  <2>1. Markers(wire)'
    BY <1>1, <1>3 DEF Markers
  <2> QED BY <1>1, <1>2, <1>3, <2>1, IntoEnd
<1>4. ASSUME NEW body \in Bodies, NEW r, n > 0, body = bodies[n], Follows(r, body), Kept(n - 1),
             Untouched(r, body)
      PROVE  SentPlaced(n)'
  <2>1. n - 1 \in Nat /\ n \in Nat \ {0}
    BY <1>4
  <2>2. ASSUME wire = <<MARKER>> \o r[0] PROVE InFrame(r, body, n)'
    BY <1>1, <1>2, <1>4, <2>1, <2>2, IntoOpening
  <2>3. ASSUME NEW k \in 0..BodyLen, wire = r[k] PROVE InFrame(r, body, n)'
    <3>1. wire' = r[k] /\ ByteFits(body, k)'
      BY <1>1, <1>2, <2>3
    <3> QED BY <1>1, <1>4, <2>1, <3>1, IntoByte
  <2>4. ASSUME NEW i \in 1..BodyLen, body[i] \in {MARKER, ESCAPE},
               wire = <<Xor20(body[i])>> \o r[i]
        PROVE  InFrame(r, body, n)'
    <3>1. wire' = <<Xor20(body[i])>> \o r[i] /\ PairFits(body, i)'
      BY <1>1, <1>2, <2>4
    <3> QED BY <1>1, <1>4, <2>1, <2>4, <3>1, IntoPair
  <2>5. InFrame(r, body, n)'
    BY <1>4, <2>2, <2>3, <2>4 DEF Untouched
  <2> QED BY <1>1, <1>4, <2>1, <2>5, PlacedInFrame
<1> QED BY <1>3, <1>4, Intact

\* Nothing happens.
LEMMA SentStays ==
    ASSUME NEW n \in Nat, SentPlaced(n), UNCHANGED lineVars
    PROVE  SentPlaced(n)'
<1>1. /\ bodies' = bodies /\ wire' = wire /\ damage' = damage /\ buf' = buf
      /\ active' = active /\ escape' = escape /\ accepted' = accepted
  BY DEF lineVars
<1>2. \A m \in Nat : (Kept(m) => Kept(m)') /\ (Settled(m) => Settled(m)')
  <2>1. \A m \in Nat : Kept(m) => Kept(m)'
    BY <1>1, KeptOn
  <2> QED BY <1>1, <2>1 DEF Settled, Idle
<1>3. CASE ByEnd(n)
  <2>0. Markers(wire) /\ Settled(n) /\ (damage = 0 => Kept(n) /\ ~Partial)
    BY <1>3 DEF ByEnd
  <2>1. Markers(wire)' /\ Settled(n)' /\ (damage' = 0 => Kept(n)' /\ ~Partial')
    <3>1. Markers(wire)'
      BY <1>1, <2>0 DEF Markers
    <3>2. Settled(n)' /\ (Kept(n) => Kept(n)')
      BY <1>2, <2>0
    <3>3. ~Partial => ~Partial'
      BY <1>1 DEF Partial
    <3> QED BY <1>1, <2>0, <3>1, <3>2, <3>3
  <2> QED BY <2>1 DEF ByEnd, SentPlaced
<1>4. ASSUME NEW body \in Bodies, NEW r, n > 0, body = bodies[n], Follows(r, body),
             InFrame(r, body, n)
      PROVE  SentPlaced(n)'
  <2>1. n \in Nat \ {0} /\ n - 1 \in Nat
    BY <1>4
  <2>2. ASSUME ByOpening(r, n) PROVE InFrame(r, body, n)'
    <3>1. wire = <<MARKER>> \o r[0] /\ Settled(n - 1) /\ (damage = 0 => Kept(n - 1) /\ ~Partial)
      BY <2>2 DEF ByOpening
    <3>2. Settled(n - 1)' /\ (Kept(n - 1) => Kept(n - 1)')
      BY <1>2, <2>1, <3>1
    <3>3. ~Partial => ~Partial'
      BY <1>1 DEF Partial
    <3>4. /\ wire' = <<MARKER>> \o r[0] /\ Settled(n - 1)'
          /\ damage' = 0 => Kept(n - 1)' /\ ~Partial'
      BY <1>1, <3>1, <3>2, <3>3
    <3> QED BY <3>4 DEF ByOpening, InFrame
  <2>3. ASSUME NEW i \in 0..BodyLen, ByByte(r, body, i, n) PROVE InFrame(r, body, n)'
    <3>1. /\ wire = r[i] /\ Kept(n - 1) /\ ByteFits(body, i)
          /\ damage = 0 => Holds(body, i) /\ ~escape
      BY <2>3 DEF ByByte
    <3>2. ByteFits(body, i)' /\ (damage' = 0 => Holds(body, i)' /\ ~escape')
      BY <1>1, <3>1 DEF ByteFits, Straight, Nearly, Holds
    <3> QED BY <1>1, <2>1, <3>1, <3>2, IntoByte
  <2>4. ASSUME NEW i \in 1..BodyLen, ByPair(r, body, i, n) PROVE InFrame(r, body, n)'
    <3>1. /\ body[i] \in {MARKER, ESCAPE} /\ wire = <<Xor20(body[i])>> \o r[i]
          /\ Kept(n - 1) /\ PairFits(body, i) /\ (damage = 0 => Holds(body, i - 1) /\ escape)
      BY <2>4 DEF ByPair
    <3>2. PairFits(body, i)' /\ (damage' = 0 => Holds(body, i - 1)' /\ escape')
      BY <1>1, <3>1 DEF PairFits, Straight, Nearly, Holds
    <3>3. wire' = <<Xor20(body[i])>> \o r[i] /\ bodies' = bodies /\ accepted' = accepted
      BY <1>1, <3>1
    <3>4. n \in Nat \ {0} /\ body[i] \in {MARKER, ESCAPE} /\ Kept(n - 1)
      BY <2>1, <3>1
    <3> QED BY <3>2, <3>3, <3>4, IntoPair
  <2>5. InFrame(r, body, n)'
    <3>1. \/ ByOpening(r, n)
          \/ \E i \in 0..BodyLen : ByByte(r, body, i, n)
          \/ \E i \in 1..BodyLen : ByPair(r, body, i, n)
      BY <1>4 DEF InFrame
    <3> QED BY <2>2, <2>3, <2>4, <3>1
  <2> QED BY <1>1, <1>4, <2>1, <2>5, PlacedInFrame
<1> QED BY <1>3, <1>4 DEF SentPlaced

\* Every step.
LEMMA SentNext ==
    ASSUME LineTypeOK, LineTypeOK', SentInv, [LineNext]_lineVars
    PROVE  SentInv'
<1> SUFFICES ASSUME damage' <= 1
             PROVE  \E m \in Nat : m = Len(bodies)' /\ SentPlaced(m)'
  BY DEF SentInv
<1>1. damage \in Nat /\ damage' \in Nat
  BY DEF LineTypeOK
<1>2. SendFrame \/ Arrive \/ Lose \/ Change \/ Insert \/ FallSilent \/ NewSession
      \/ UNCHANGED lineVars
  BY DEF LineNext, Done
<1>3. Harm => damage = 0
  BY <1>1 DEF Harm
<1>4. damage <= 1
  <2>1. SendFrame \/ Arrive => damage' = damage
    BY DEF SendFrame, Arrive
  <2>2. Lose \/ Change \/ Insert \/ FallSilent \/ NewSession => Harm
    BY DEF Lose, Change, Insert, FallSilent, NewSession
  <2>3. UNCHANGED lineVars => damage' = damage
    BY DEF lineVars
  <2> QED BY <1>1, <1>2, <1>3, <2>1, <2>2, <2>3
<1>5. PICK n \in Nat : n = Len(bodies) /\ SentPlaced(n)
  BY <1>4 DEF SentInv
<1>6. CASE SendFrame
  <2>1. Len(bodies') = n + 1 /\ SentPlaced(n + 1)'
    BY <1>5, <1>6, SentSent
  <2> QED BY <2>1
<1>7. CASE Arrive
  <2>1. bodies' = bodies
    BY <1>7 DEF Arrive
  <2>2. SentPlaced(n)'
    BY <1>5, <1>7, SentArrived
  <2> QED BY <1>5, <2>1, <2>2
<1>8. CASE Lose \/ Change \/ Insert \/ FallSilent \/ NewSession
  <2>1. Harm
    BY <1>8 DEF Lose, Change, Insert, FallSilent, NewSession
  <2>2. bodies' = bodies /\ damage = 0
    BY <1>3, <2>1 DEF Harm
  <2>3. SentPlaced(n)'
    BY <1>5, <1>8, <2>2, SentLost, SentChanged, SentInserted, SentSilent
  <2> QED BY <1>5, <2>2, <2>3
<1>9. CASE UNCHANGED lineVars
  <2>1. bodies' = bodies
    BY <1>9 DEF lineVars
  <2>2. SentPlaced(n)'
    BY <1>5, <1>9, SentStays
  <2> QED BY <1>5, <2>1, <2>2
<1> QED BY <1>2, <1>6, <1>7, <1>8, <1>9

\* golden.py rx_byte, meter_protocol.py encode_frame: what was accepted was sent, in
\* that order, each frame once, as long as the line has misbehaved once at the most:
\* one lost, changed or inserted byte, or one silence, turns no frame into another.
THEOREM OnlySentAccepted == LineSpec => []AcceptedWasSent
<1>1. LineInit => SentInv
  BY SentInitially
<1>2. LineInv /\ LineInv' /\ SentInv /\ [LineNext]_lineVars => SentInv'
  BY SentNext DEF LineInv
<1>3. LineInv /\ SentInv => AcceptedWasSent
  <2> SUFFICES ASSUME LineInv, SentInv, damage <= 1 PROVE AcceptedWasSent
    BY DEF AcceptedWasSent
  <2>1. PICK n \in Nat : n = Len(bodies) /\ SentPlaced(n)
    BY DEF SentInv
  <2>2. ASSUME NEW m \in Nat, m <= n, Settled(m) PROVE Kept(n)
    <3>1. CASE Kept(m)
      BY <2>2, <3>1, KeptLonger
    <3>2. CASE m > 0 /\ Kept(m - 1)
      <4>1. m - 1 \in Nat /\ m - 1 <= n
        BY <2>2, <3>2
      <4> QED BY <3>2, <4>1, KeptLonger
    <3> QED BY <2>2, <3>1, <3>2 DEF Settled
  <2>3. ByEnd(n) => Kept(n)
    BY <2>2 DEF ByEnd
  <2>4. ASSUME n > 0, NEW r, NEW body, InFrame(r, body, n) PROVE Kept(n)
    <3>1. n - 1 \in Nat /\ n - 1 <= n
      BY <2>4
    <3>2. ByOpening(r, n) => Settled(n - 1)
      BY DEF ByOpening
    <3>3. ByOpening(r, n) => Kept(n)
      BY <2>2, <3>1, <3>2
    <3>4. (\E i \in 0..BodyLen : ByByte(r, body, i, n)) => Kept(n - 1)
      BY DEF ByByte
    <3>5. (\E i \in 1..BodyLen : ByPair(r, body, i, n)) => Kept(n - 1)
      BY DEF ByPair
    <3> QED BY <2>4, <3>1, <3>3, <3>4, <3>5, KeptLonger DEF InFrame
  <2>5. Kept(n)
    <3>1. ByEnd(n) \/ (n > 0 /\ \E r, body : InFrame(r, body, n))
      BY <2>1 DEF SentPlaced
    <3> QED BY <2>3, <2>4, <3>1
  <2> QED BY <2>1, <2>5, KeptWasSent DEF LineInv
<1> QED BY <1>1, <1>2, <1>3, LineInvariant, PTL DEF LineSpec
=============================================================================
