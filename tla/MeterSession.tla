---------------------------- MODULE MeterSession ----------------------------
(***************************************************************************)
(* A meter, the serial line and the charger together.  The meter numbers   *)
(* its samples (class Meter of golden.py, frame_body of meter_protocol.py) *)
(* and the line may lose, corrupt, repeat or delay a frame.  What matters  *)
(* is the bill, so the module remembers, by sample index, which samples    *)
(* the charger accepted and which it billed in the present session, and    *)
(* compares that ledger with the totals of Charger.tla; and how long ago   *)
(* the last of them came, whatever the charger remembers of it.            *)
(***************************************************************************)
EXTENDS Charger, Functions

CONSTANTS MaxSamples,   \* bound: samples the meter produces
          MaxDelay,     \* a frame arrives at most this many samples late
          Measurements  \* what a sample may say

\* The sequence number identifies a frame among those that can be on the line.
ASSUME LineAssumption == /\ MaxSamples \in Nat
                         /\ MaxDelay \in Nat /\ MaxDelay <= SequenceMod - SeqHalf
                         /\ Measurements \subseteq
                              [over : BOOLEAN, sag : BOOLEAN, power : Power,
                               hash : 0..HashMax]

VARIABLES samples,      \* what the meter measured, oldest first
          accepted,     \* indexes of the samples accepted this session
          billed,       \* indexes of the samples billed this session
          streak,       \* accepted frames without sag since the last sag
          waited        \* time since a sample was accepted or the session began,
                        \* up to MeterTimeout

history == <<samples, accepted, billed, streak, waited>>
mvars == <<c, samples, accepted, billed, streak, waited>>

\* Meter.frame: sample k as a frame, its sequence number modulo SequenceMod.
FrameOf(k) == [ok |-> TRUE, seq |-> k % SequenceMod, over |-> samples[k].over,
               sag |-> samples[k].sag, power |-> samples[k].power,
               hash |-> samples[k].hash]

MInit == /\ Init
         /\ samples = <<>> /\ accepted = <<>> /\ billed = <<>>
         /\ streak = 0 /\ waited = 0

\* A session begins; the rules may go on within the same call.
Begins == c.state = "IDLE" /\ c'.state \in Session

\* New inputs; the ledger starts anew with the session.
Plug(pins) ==
    /\ SetInputs(pins)
    /\ IF Begins
       THEN accepted' = <<>> /\ billed' = <<>> /\ streak' = 0 /\ waited' = 0
       ELSE UNCHANGED <<accepted, billed, streak, waited>>
    /\ UNCHANGED samples

Elapses(n) == /\ AdvanceMs(n)
              /\ waited' = IF waited + n < MeterTimeout THEN waited + n ELSE MeterTimeout
              /\ UNCHANGED <<samples, accepted, billed, streak>>

\* The meter takes a sample; nothing says that its frame will arrive.
Produce == /\ Len(samples) < MaxSamples
           /\ \E m \in Measurements : samples' = Append(samples, m)
           /\ UNCHANGED <<c, accepted, billed, streak, waited>>

\* The line delivers sample k: late, again, or for the first time.
Deliver(k) ==
    LET f == FrameOf(k)
        took == Accepted(CheckTimeout(RxMarker(Fresh, Corrupt)), f)
    IN  /\ c' = RxFrame(Fresh, f)
        /\ accepted' = IF took THEN Append(accepted, k) ELSE accepted
        /\ billed' = IF took /\ c'.state = "CHARGING" /\ c.state # "GRID_HOLD"
                     THEN Append(billed, k) ELSE billed
        /\ streak' = IF ~took THEN streak ELSE IF f.sag THEN 0 ELSE streak + 1
        /\ waited' = IF took THEN 0 ELSE waited
        /\ UNCHANGED samples

DeliverCorrupt == /\ c' = RxFrame(Fresh, Corrupt)
                  /\ UNCHANGED history

MNext == \/ \E pins \in Pins : Plug(pins)
         \/ \E n \in 1..MaxStep : Elapses(n)
         \/ Produce
         \/ \E k \in DOMAIN samples : k >= Len(samples) - MaxDelay /\ Deliver(k)
         \/ DeliverCorrupt

MSpec == MInit /\ [][MNext]_mvars

-----------------------------------------------------------------------------

TotalPower == SumFunction([i \in DOMAIN billed |-> samples[billed[i]].power])

\* The registers hold the bill of this session and nothing else: ENERGY is the
\* sum of V*I over the billed samples (modulo 2^32), FRAMES their number
\* (saturating), from the first plug-in until the next one.
TotalsAreTheBill ==
    /\ c.energy = TotalPower % EnergyMod
    /\ c.frames = IF Len(billed) < FrameCap THEN Len(billed) ELSE FrameCap

\* Samples are accepted, hence billed, in the order the meter took them and
\* at most once a session, although the line repeats and delays frames.
NoSampleBilledTwice ==
    \A i, j \in DOMAIN accepted : i < j => accepted[i] < accepted[j]

\* A lost sample shows: if two samples accepted one after the other are not
\* neighbours, the link cause is set, and so appears in the report (unless a
\* whole multiple of SequenceMod samples was lost, which no sequence number shows).
LossIsFlagged ==
    \A i \in 1..(Len(accepted) - 1) :
        accepted[i + 1] - accepted[i] \in 2..SequenceMod => "CRC_LOST" \in c.flags

\* A grid hold ends in charging only after `delay` accepted frames without sag
\* in a row, the delay computed for the event that started it; frames that
\* are lost or corrupted meanwhile do not count.
ResumeAfterFullDelay ==
    [][ c.state = "GRID_HOLD" /\ c'.state = "CHARGING" =>
          streak' >= c.delay /\ c.delay >= HoldBase ]_mvars

\* A sample taken with the grid out of limits or too much current is never
\* billed.
BilledSamplesAreHealthy ==
    \A i \in DOMAIN billed : ~samples[billed[i]].sag /\ ~samples[billed[i]].over

\* The contactor closes only on a sample of this session that is younger than
\* METER_TIMEOUT and within limits, whether the frame closes it or the vehicle,
\* asking for power after a pause at B or D with the sample remembered
\* (`healthy`).  A hold ends on a sample without sag, whatever its current:
\* golden.py does not look at the current while the contactor is open.
ClosesOnGoodSample ==
    [][ c.state # "CHARGING" /\ c'.state = "CHARGING" =>
          /\ accepted' # <<>> /\ waited' < MeterTimeout
          /\ LET last == samples[accepted'[Len(accepted')]]
             IN  ~last.sag /\ (last.over => c.state = "GRID_HOLD") ]_mvars
=============================================================================
