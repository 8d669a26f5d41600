------------------------------- MODULE MeterLine -------------------------------
(***************************************************************************)
(* The meter's serial line byte by byte: the sender of                     *)
(* emulator/meter_protocol.py, a line that loses, changes and inserts      *)
(* bytes and falls silent, and the parser of golden.py (rx_byte).  The     *)
(* other modules take what this one shows: a body that reaches its closing *)
(* marker is the one that was sent, or its CRC is wrong.                   *)
(*                                                                         *)
(* A byte is a number below 2 * Flip; XOR 0x20 exchanges b and b + Flip.   *)
(* The CRC is a sum: like CRC-16, it sees any one changed byte.  What the  *)
(* charger does with a body or a bad frame is left to Charger.tla.         *)
(***************************************************************************)
EXTENDS Integers, Sequences, FiniteSets, SequencesExt

CONSTANTS
    Flip,           \* half the number of byte values
    BodyLen,        \* bytes of a body, CRC included, 9
    BusWord,           \* bytes of a bus word, 4: what a frame is padded to
    Frames,         \* bound: frames sent
    MaxDamage       \* bound: times the line misbehaves

ASSUME LineAssumption == /\ Flip \in Nat \ {0, 1}
                         /\ BodyLen \in Nat \ {0} /\ BusWord \in Nat \ {0}

Bytes == 0..(2 * Flip - 1)
MARKER == 0
ESCAPE == 1
Xor20(b) == (b + Flip) % (2 * Flip)

VARIABLES
    bodies,                   \* bodies sent
    wire,                   \* bytes of the last frame still to come
    clean,                  \* nothing has happened since that frame was sent
    damage,                 \* times the line has misbehaved
    buf, active, escape,    \* the parser
    accepted, bad,               \* bodies accepted, bad frames counted
    judged                  \* verdicts since the last marker

lineVars == <<bodies, wire, clean, damage, buf, active, escape, accepted, bad, judged>>

-----------------------------------------------------------------------------
(* The sender.                                                             *)

Crc(payload) == FoldSeq(+, 0, payload) % (2 * Flip)

Bodies == {Append(payload, Crc(payload)) : payload \in [1..(BodyLen - 1) -> Bytes]}

Stuff(b) == IF b \in {MARKER, ESCAPE} THEN <<ESCAPE, Xor20(b)>> ELSE <<b>>

Encode(body) ==
    <<MARKER>> \o FlattenSeq([i \in 1..Len(body) |-> Stuff(body[i])]) \o <<MARKER>>

\* Closing markers fill the last word.
Padded(frame) == frame \o [i \in 1..((-Len(frame)) % BusWord) |-> MARKER]

-----------------------------------------------------------------------------
(* The parser.                                                             *)

Partial == buf # <<>> \/ escape

Reject == bad' = bad + 1 /\ judged' = judged + 1 /\ UNCHANGED accepted
Pass == UNCHANGED <<accepted, bad, judged>>

Valid(body) == Len(body) = BodyLen /\ Last(body) = Crc(Front(body))

\* Mutants of RxMarker: a marker that closes a body does not open the next;
\* an empty pair of markers is a frame too short.
RxMarkerOnlyCloses ==
    /\ IF active /\ Partial /\ ~escape /\ Valid(buf)
       THEN accepted' = Append(accepted, buf) ELSE UNCHANGED accepted
    /\ bad' = IF active /\ Partial /\ (escape \/ ~Valid(buf)) THEN bad + 1 ELSE bad
    /\ judged' = 0
    /\ active' = ~(active /\ Partial) /\ buf' = <<>> /\ escape' = FALSE
RxMarkerCountsEmpty ==
    /\ IF active /\ ~escape /\ Valid(buf)
       THEN accepted' = Append(accepted, buf) ELSE UNCHANGED accepted
    /\ bad' = IF active /\ (escape \/ ~Valid(buf)) THEN bad + 1 ELSE bad
    /\ judged' = 0
    /\ active' = TRUE /\ buf' = <<>> /\ escape' = FALSE

\* A marker judges the body before it, if there is one, and opens the next.
RxMarker ==
    /\ IF active /\ Partial /\ ~escape /\ Valid(buf)
       THEN accepted' = Append(accepted, buf) ELSE UNCHANGED accepted
    /\ bad' = IF active /\ Partial /\ (escape \/ ~Valid(buf)) THEN bad + 1 ELSE bad
    /\ judged' = 0
    /\ active' = TRUE /\ buf' = <<>> /\ escape' = FALSE

\* Mutant of GiveUp: the parser goes on collecting the rejected body.
GiveUpKeepsListening == buf' = <<>> /\ escape' = FALSE /\ UNCHANGED active

\* What follows is ignored until a marker.
GiveUp == active' = FALSE /\ escape' = FALSE /\ buf' = <<>>

\* Mutant of Collect: what is too much is dropped and the valid prefix kept.
CollectPrefix(b) ==
    /\ buf' = IF Len(buf) >= BodyLen THEN buf ELSE Append(buf, b)
    /\ escape' = FALSE /\ UNCHANGED active /\ Pass

Collect(b) ==
    IF Len(buf) >= BodyLen THEN GiveUp /\ Reject
    ELSE buf' = Append(buf, b) /\ escape' = FALSE /\ UNCHANGED active /\ Pass

RxByte(b) ==
    \/ b = MARKER /\ RxMarker
    \/ /\ b # MARKER /\ ~active
       /\ UNCHANGED <<buf, active, escape>> /\ Pass
    \/ /\ b # MARKER /\ active /\ escape
       /\ IF b \in {Xor20(MARKER), Xor20(ESCAPE)} THEN Collect(Xor20(b))
          ELSE GiveUp /\ Reject
    \/ /\ b = ESCAPE /\ active /\ ~escape
       /\ escape' = TRUE /\ UNCHANGED <<buf, active>> /\ Pass
    \/ /\ b \notin {MARKER, ESCAPE} /\ active /\ ~escape
       /\ Collect(b)

-----------------------------------------------------------------------------
(* What happens on the line.                                               *)

LineInit ==
    /\ bodies = <<>> /\ wire = <<>> /\ clean = FALSE /\ damage = 0
    /\ buf = <<>> /\ active = FALSE /\ escape = FALSE
    /\ accepted = <<>> /\ bad = 0 /\ judged = 0

SendFrame == /\ wire = <<>> /\ Len(bodies) < Frames
             /\ \E body \in Bodies : /\ bodies' = Append(bodies, body)
                                     /\ wire' = Padded(Encode(body))
             /\ clean' = TRUE
             /\ UNCHANGED <<damage, buf, active, escape, accepted, bad, judged>>

Arrive == /\ wire # <<>> /\ wire' = Tail(wire) /\ RxByte(Head(wire))
          /\ UNCHANGED <<bodies, clean, damage>>

Harm == /\ damage < MaxDamage /\ damage' = damage + 1
        /\ clean' = FALSE /\ UNCHANGED bodies

Lose == /\ wire # <<>> /\ wire' = Tail(wire) /\ Harm
        /\ UNCHANGED <<buf, active, escape, accepted, bad, judged>>

Change == /\ wire # <<>> /\ wire' = Tail(wire) /\ Harm
          /\ \E b \in Bytes \ {Head(wire)} : RxByte(b)

Insert == /\ UNCHANGED wire /\ Harm
          /\ \E b \in Bytes : RxByte(b)

\* RX_TIMEOUT_MS pass with no byte: a body that has begun is a bad frame.
FallSilent == /\ active /\ UNCHANGED wire /\ Harm
              /\ GiveUp /\ IF Partial THEN Reject ELSE Pass

\* A vehicle is plugged in: the parser starts over.
NewSession == /\ UNCHANGED wire /\ Harm
              /\ GiveUp /\ Pass

\* Nothing is sent any more.
Done == wire = <<>> /\ Len(bodies) = Frames /\ UNCHANGED lineVars

LineNext == \/ SendFrame \/ Arrive \/ Lose \/ Change \/ Insert
            \/ FallSilent \/ NewSession \/ Done

LineSpec == LineInit /\ [][LineNext]_lineVars

-----------------------------------------------------------------------------
(* Correctness.                                                            *)

\* A frame that came through whole has been accepted by its last byte,
\* whatever the parser was left with by the frames, the noise and the silences
\* before it: markers recover the alignment at once.
IntactFrameArrives ==
    clean /\ wire = <<>> => accepted # <<>> /\ Last(accepted) = Last(bodies)

\* What is accepted was sent, in that order, each frame once: no damage to one
\* byte turns a frame into another, or into two.  (After two, a checksum may
\* agree by chance.)
AcceptedWasSent ==
    damage <= 1 =>
      \E chosen \in SUBSET DOMAIN bodies :
        /\ Cardinality(chosen) = Len(accepted)
        /\ \A i \in chosen :
              accepted[Cardinality({j \in chosen : j <= i})] = bodies[i]

\* main.s:350: errors "count once; discard until a delimiter after errors".
\* Between two markers there is one verdict at the most, and after it nothing
\* left over for the next marker to judge again.
OneVerdictPerCandidate == judged = 0 \/ (judged = 1 /\ ~active)

\* A disturbance costs two bad frames at the most (a byte changed into a marker
\* splits a frame in two), and undisturbed frames, padding included, cost none.
DamageCost == bad <= 2 * damage
=============================================================================
