--------------------------- MODULE SessionRecords ---------------------------
(***************************************************************************)
(* The host's side of the charger: it reads every record and keeps those   *)
(* that bill something, session by session.  The charger and its events    *)
(* are those of Charger.tla; `bills` only remembers.                       *)
(***************************************************************************)
EXTENDS Charger

VARIABLE bills      \* records with billed frames sent since the session began

Bills(records) == SelectSeq(records, LAMBDA r : r.frames > 0)

Begins == c.state = "IDLE" /\ c'.state \in Session

HostInit == Init /\ bills = <<>>

HostNext == /\ Next
            /\ bills' = IF Begins THEN <<>> ELSE bills \o Bills(c'.tx)

HostSpec == HostInit /\ [][HostNext]_<<c, bills>>

\* docs/STAGE3_STRATEGY.md:439: "Exactly one record per session", with the
\* energy of the session, and emulator/README.md:114: "Exactly 8, once per
\* session".  A session that billed something is recorded once: until the next
\* session begins, no second record carries billed frames.
OneRecordPerSession == Len(bills) <= 1
=============================================================================
