------------------------------ MODULE MCDigest ------------------------------
(***************************************************************************)
(* Instances of the digest for TLC: where a local day begins (DigestDay)   *)
(* and how its snapshot is published (Digest).  The two share no state; a  *)
(* behaviour runs one of them, and the other stays where it began.         *)
(*                                                                         *)
(* Zones: a day of six instants, one change of the offset by an hour or    *)
(* two back, an hour forward, or a whole day left out.                     *)
(***************************************************************************)
EXTENDS DigestDay, FiniteSets, TLC

CONSTANTS Sessions, LastDay, MaxRevision, InlineRows, MaxFaults, s1

VARIABLES today, due, session, digests, stored, outbox, payload, files, temps, agent, up,
          uploaded, faults,
          half \* the part that runs

D == INSTANCE Digest

dvars == <<today, due, session, digests, stored, outbox, payload, files, temps, agent, up,
           uploaded, faults>>

ASSUME SnapshotAssumed == D!DigestAssumption

Changed(a, b, at) == [i \in Lo .. Hi |-> (i + (IF i < at THEN a ELSE b)) \div DayLength]

MCZones == {Changed(a, a + by, at) : a \in {-3, 0, 2}, by \in {-2, -1, 0, 1, 6}, at \in -9 .. 9}
MCLo == -24
MCDates == -2 .. 2
MCSessions == {s1}

MCInit ==
    /\ Init /\ D!Init
    /\ half \in {"boundary", "snapshot"}
    /\ half = "snapshot" => zone = Changed(0, 0, 0) /\ target = 0

MCNext ==
    \/ half = "boundary" /\ Next /\ UNCHANGED <<half, dvars>>
    \/ half = "snapshot" /\ D!Next /\ UNCHANGED <<half, vars>>

MCSpec ==
    /\ MCInit /\ [][MCNext]_<<half, vars, dvars>>
    /\ \/ half = "boundary" /\ WF_vars(Next)
       \/ half = "snapshot" /\ D!Fairness

\* What is on disk, in a payload or in the chat is the snapshot that won:
\* no loser leaves an artifact, and a document is sent as it was proved.
DigestInv ==
    /\ half = "boundary" => TypeOK
    /\ D!TypeOK /\ D!OnlyWinnerOnDisk /\ D!UploadedIsSnapshot
    /\ D!PairWritten /\ D!WinnerInHand /\ D!DayAtStart

\* Digest!SnapshotIsComplete: the rows of a digest are written once, when no
\* session of the day is in progress, and are then exactly its finished ones
\* (digestSnapshotStillCurrent inside the transaction, storeDigest).
SnapshotIsComplete == D!SnapshotIsComplete

\* Digest!StoredIsDelivered and LastDayDigested: the digest of a day whose
\* sessions settle is stored, and a stored digest reaches the chat or is given
\* up over a document that somebody else changed. DigestDay!Terminates: the
\* search for a day's first instant ends.
DigestEnds ==
    /\ half = "boundary" => Terminates
    /\ half = "snapshot" => D!StoredIsDelivered /\ D!LastDayDigested
=============================================================================
