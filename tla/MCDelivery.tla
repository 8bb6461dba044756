----------------------------- MODULE MCDelivery -----------------------------
(***************************************************************************)
(* Instances for TLC of what follows a recording: the session until it is  *)
(* DONE (SessionDelivery) and, within it, the deliver_audio job            *)
(* (AudioDelivery), which SessionDelivery knows as handlers that publish   *)
(* rows one by one.  A behaviour runs one of them, and the other stays     *)
(* where it began.  Part p has p units: with a limit of one, the second    *)
(* part is split, as that of a session that rotated once is.               *)
(***************************************************************************)
EXTENDS SessionDelivery

CONSTANTS NParts, Size, Limits, MostPieces, MaxClaims, MaxRestarts, p1, p2

VARIABLES limit, source, audioJob, claims, worker, rows, files, delivered, chat, restarts,
          half \* the level that runs

A == INSTANCE AudioDelivery WITH job <- audioJob

ASSUME AudioAssumed == A!AudioAssumption

audio == <<limit, source, audioJob, claims, worker, rows, files, delivered, chat, restarts>>

MCSize == [p \in 1 .. NParts |-> p]
MCSizeTwo == [p \in 1 .. NParts |-> 2]
MCOnePart == {p1}
MCTwoParts == {p1, p2}

MCInit ==
    /\ Init /\ A!Init /\ half \in {"session", "audio"}
    /\ half = "session" => \A l \in Limits : limit <= l

MCNext ==
    \/ half = "session" /\ Next /\ UNCHANGED <<half, audio>>
    \/ half = "audio" /\ A!Next /\ UNCHANGED <<half, vars>>

MCSpec ==
    /\ MCInit /\ [][MCNext]_<<half, vars, audio>>
    /\ half = "audio" \/ (half = "session" /\ Fairness)

\* DONE was not reached through the absence of work, and no stored fact stands
\* without the job that continues from it (reconcileSessionDelivery,
\* enqueuePostAsrJobs).
SessionInv == TypeOK /\ DoneHasEachKind /\ HandOver /\ TranscriptFirst

\* A session neither leaves DONE nor is restored or completed from FAILED with its
\* notice unsent (markExhaustedAsrSession, setState, jobs retry).
OutcomeHolds == DoneStable /\ FailedNoticeRetired

\* Left to itself a session is completed, or something the operator can see has
\* ended it: a rejection, a failure, a dead job or a dead message.
SessionEnds == half = "session" => SessionSettles

\* AudioDelivery!DeliveredWasHeard, QueuedPieceHasFile and DoneJobPublishedAll:
\* what is marked delivered was heard in full, a queued piece has its file, and
\* a finished job has published every part, over all crashes and reclaims.
AudioInv ==
    /\ half = "audio" => A!TypeOK
    /\ A!ManifestInv
    /\ A!DeliveredWasHeard /\ A!QueuedPieceHasFile /\ A!DoneJobPublishedAll

\* AudioDelivery!OneManifestPerPart, what delivery.ts says of a retried job.
OneManifestPerPart == A!OneManifestPerPart
=============================================================================
