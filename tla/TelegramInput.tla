---------------------------- MODULE TelegramInput ----------------------------
(***************************************************************************)
(* From a Telegram update to its durable outcome: the polling loop         *)
(* (Daemon.#tickTelegram with src/telegram/router.ts), the job of incoming *)
(* audio and its re-recognition (Daemon.#handleIncoming*,                  *)
(* src/telegram/incoming.ts) and the startup cleanup of quarantine files   *)
(* (src/telegram/incoming-recovery.ts).                                    *)
(*                                                                         *)
(* All audio updates carry one file, which Telegram identifies as the same *)
(* however often it is sent.  The asr-jobs loop runs one handler at a      *)
(* time, beside the polling loop, the drain and retention.                 *)
(***************************************************************************)
EXTENDS Naturals, FiniteSets

CONSTANTS
    NUpdates,    \* bound: updates sent to the bot
    MaxAttempts, \* jobs.max_attempts
    MaxCrashes,  \* bound: crashes of the daemon
    MaxFaults    \* bound: failing awaits and manual retries

Updates == 1 .. NUpdates
Kinds == {"audio", "retry", "command", "ignore"}
Chunks == 1 .. 2                       \* messages of a transcript
Final == {"transcribed", "delivered", "rejected"}

ASSUME InputAssumption ==
    /\ {NUpdates, MaxCrashes, MaxFaults} \subseteq Nat
    /\ MaxAttempts \in Nat \ {0}

VARIABLES
    kind,      \* how each update routes
    issued,    \* updates sent so far
    recorded, handled, \* telegram_updates
    offset,    \* telegram_offset.next_offset
    batch,     \* updates of the poll in progress still to handle
    from, upto, \* the offset and the end of that batch
    fstate,    \* incoming_telegram_files.state, "none" before the claim
    paths,     \* which of quarantine_path and normalized_path are set
    deleted,   \* deleted_at is set
    disk,      \* generated files in the quarantine directory
    revisions, \* transcript revisions of the file
    job,       \* the incoming_audio job of an update
    throws,    \* failed attempts of the job
    running,   \* the job whose handler runs, or 0
    stage,     \* what that handler is about to do
    queued,    \* notices in the outbox, by idempotency key
    transcript, \* the messages of the transcript
    stray,     \* generated files no row owns, and the candidates of the cleanup
    crashes, faults \* bound counters

polling == <<recorded, handled, offset, batch, from, upto>>
file == <<fstate, paths, deleted, disk, revisions>>
work == <<job, throws, running, stage>>
bounds == <<crashes, faults>>
vars == <<kind, issued, polling, file, work, queued, transcript, stray, bounds>>

Notices == ({"ack", "reply", "again", "retried"} \X Updates) \cup {<<"reject", 0>>, <<"failed", 0>>}
Stages == {"none", "load", "download", "own", "probe", "wav", "validate", "transcribe", "retranscribe",
           "settle", "throw", "exhausted"}

TypeOK ==
    /\ kind \in [Updates -> Kinds] /\ issued \in 0 .. NUpdates
    /\ recorded \subseteq Updates /\ handled \subseteq recorded
    /\ offset \in 1 .. NUpdates + 1 /\ batch \subseteq Updates
    /\ from \in 1 .. NUpdates + 1 /\ upto \in 1 .. NUpdates + 1
    /\ fstate \in {"none", "received", "downloaded", "validated", "failed"} \cup Final
    /\ paths \subseteq {"quarantine", "normalized"} /\ disk \subseteq {"quarantine", "normalized"}
    /\ deleted \in BOOLEAN
    /\ revisions \in 0 .. 1
    /\ job \in [Updates -> {"none", "pending", "leased", "done", "dead"}]
    /\ throws \in [Updates -> 0 .. MaxAttempts]
    /\ running \in 0 .. NUpdates /\ stage \in Stages
    /\ queued \subseteq Notices
    /\ transcript \in [Chunks -> {"none", "pending", "sent"}]
    /\ stray \in {"none", "present", "candidate"}
    /\ crashes \in 0 .. MaxCrashes /\ faults \in 0 .. MaxFaults

Init ==
    /\ kind \in [Updates -> Kinds] /\ issued = 0
    /\ recorded = {} /\ handled = {} /\ offset = 1 /\ batch = {} /\ from = 1 /\ upto = 1
    /\ fstate = "none" /\ paths = {} /\ disk = {} /\ deleted = FALSE /\ revisions = 0
    /\ job = [u \in Updates |-> "none"] /\ throws = [u \in Updates |-> 0]
    /\ running = 0 /\ stage = "none"
    /\ queued = {} /\ transcript = [c \in Chunks |-> "none"]
    /\ stray \in {"none", "present"}
    /\ crashes = 0 /\ faults = 0

Issue ==
    /\ issued < NUpdates
    /\ issued' = issued + 1
    /\ UNCHANGED <<kind, polling, file, work, queued, transcript, stray, bounds>>

-----------------------------------------------------------------------------
(* #tickTelegram *)

Least(S) == CHOOSE u \in S : \A v \in S : u <= v

\* getUpdates with the stored offset returns everything from there on.
GetUpdates ==
    /\ batch = {} /\ upto <= offset /\ issued >= offset
    /\ batch' = offset .. issued /\ from' = offset /\ upto' = issued + 1
    /\ UNCHANGED <<kind, issued, recorded, handled, offset, file, work, queued, transcript, stray, bounds>>

\* Mutant: an update that was recorded is taken for handled.
RecordedIsHandled(u) ==
    /\ batch # {} /\ u = Least(batch)
    /\ \/ u \in recorded /\ batch' = batch \ {u} /\ UNCHANGED recorded
       \/ u \notin recorded /\ recorded' = recorded \cup {u} /\ UNCHANGED batch
    /\ UNCHANGED <<kind, issued, handled, offset, from, upto, file, work, queued, transcript, stray, bounds>>

\* recordUpdate: an update that was recorded and not handled is replayed.
RecordUpdate(u) ==
    /\ batch # {} /\ u = Least(batch)
    /\ \/ u \in handled /\ batch' = batch \ {u} /\ UNCHANGED recorded
       \/ u \notin recorded /\ recorded' = recorded \cup {u} /\ UNCHANGED batch
    /\ UNCHANGED <<kind, issued, handled, offset, from, upto, file, work, queued, transcript, stray, bounds>>

Handle(u) ==
    /\ batch # {} /\ u = Least(batch) /\ u \in recorded \ handled
    /\ handled' = handled \cup {u}
    /\ batch' = batch \ {u}
    /\ UNCHANGED <<recorded, offset, from, upto>>

JobOf(u) == job' = [job EXCEPT ![u] = IF @ = "none" THEN "pending" ELSE @]

CompleteTelegramUpdate(u) ==
    /\ kind[u] \in {"command", "ignore"}
    /\ Handle(u)
    /\ queued' = queued \cup (IF kind[u] = "command" THEN {<<"reply", u>>} ELSE {})
    /\ UNCHANGED <<kind, issued, file, work, transcript, stray, bounds>>

\* The claim finds the row of an earlier message with the same file.
EnqueueIncomingRequest(u) ==
    /\ kind[u] = "audio"
    /\ Handle(u)
    /\ fstate' = IF fstate = "none" THEN "received" ELSE fstate
    /\ JobOf(u)
    /\ queued' = queued \cup {<<"ack", u>>}
    /\ UNCHANGED <<kind, issued, paths, deleted, disk, revisions, throws, running, stage, transcript, stray, bounds>>

\* The retry buttons hang under the transcript; a press elsewhere finds no file.
HandleIncomingRetryCallback(u) ==
    /\ kind[u] = "retry"
    /\ Handle(u)
    /\ IF revisions = 0 THEN UNCHANGED <<job, queued>>
       ELSE JobOf(u) /\ queued' = queued \cup {<<"again", u>>}
    /\ UNCHANGED <<kind, issued, file, throws, running, stage, transcript, stray, bounds>>

\* The tick fails between the record and the outcome, as /health or /status may.
TickFails ==
    /\ batch # {} /\ faults < MaxFaults
    /\ faults' = faults + 1
    /\ batch' = {} /\ upto' = offset
    /\ UNCHANGED <<kind, issued, recorded, handled, offset, from, file, work, queued, transcript, stray, crashes>>

\* Mutant: the offset follows what was recorded.
BatchRecorded == from .. upto - 1 \subseteq recorded

BatchHandled == \A u \in from .. upto - 1 : u \in handled

\* writeOffsetAfterHandledUpdates
WriteOffset ==
    /\ upto > offset /\ BatchHandled
    /\ offset' = upto /\ batch' = {}
    /\ UNCHANGED <<kind, issued, recorded, handled, from, upto, file, work, queued, transcript, stray, bounds>>

-----------------------------------------------------------------------------
(* The asr-jobs loop: claim, the steps of a handler between its awaits, settle *)

inputOnly == <<kind, issued, polling, queued, transcript, stray, bounds>>
Go(next) == stage' = next /\ UNCHANGED <<job, throws, running>>

Claim(u) ==
    /\ running = 0 /\ job[u] = "pending"
    /\ job' = [job EXCEPT ![u] = "leased"] /\ running' = u /\ stage' = "load"
    /\ UNCHANGED <<kind, issued, polling, file, throws, queued, transcript, stray, bounds>>

\* Mutant: the messages of a stored transcript are queued again under no condition.
ReplayUnsent == [c \in Chunks |-> "pending"]

QueuedTranscript == [c \in Chunks |-> IF transcript[c] = "none" THEN "pending" ELSE transcript[c]]

\* A file that is settled needs no second pass.
Load ==
    /\ stage = "load"
    /\ \/ /\ kind[running] = "retry"
          /\ Go(IF "normalized" \in paths \cap disk THEN "retranscribe" ELSE "throw")
          /\ UNCHANGED <<file, transcript>>
       \/ /\ kind[running] = "audio" /\ fstate = "rejected"
          /\ Go("settle") /\ UNCHANGED <<file, transcript>>
       \/ /\ kind[running] = "audio" /\ fstate # "rejected" /\ revisions > 0
          /\ fstate' = IF fstate = "delivered" THEN fstate ELSE "transcribed"
          /\ transcript' = QueuedTranscript
          /\ Go("settle") /\ UNCHANGED <<paths, deleted, disk, revisions>>
       \/ /\ kind[running] = "audio" /\ fstate # "rejected" /\ revisions = 0
          /\ Go(IF "quarantine" \in paths \cap disk THEN "probe" ELSE "download")
          /\ UNCHANGED <<file, transcript>>
    /\ UNCHANGED <<kind, issued, polling, queued, stray, bounds>>

\* downloadToQuarantine ends in a rename; the row learns of it in the next transaction.
Download ==
    /\ stage = "download"
    /\ disk' = disk \cup {"quarantine"}
    /\ Go("own")
    /\ UNCHANGED <<inputOnly, fstate, paths, deleted, revisions>>

MarkDownloaded ==
    /\ stage = "own"
    /\ fstate' = "downloaded" /\ paths' = paths \cup {"quarantine"}
    /\ Go("probe")
    /\ UNCHANGED <<inputOnly, deleted, disk, revisions>>

Probe ==
    /\ stage = "probe"
    /\ paths' = paths \cup {"normalized"}
    /\ Go("wav")
    /\ UNCHANGED <<inputOnly, fstate, deleted, disk, revisions>>

EnsureIncomingWav ==
    /\ stage = "wav"
    /\ disk' = disk \cup {"normalized"}
    /\ Go("validate")
    /\ UNCHANGED <<inputOnly, fstate, paths, deleted, revisions>>

MarkNormalized ==
    /\ stage = "validate"
    /\ fstate' = "validated"
    /\ Go("transcribe")
    /\ UNCHANGED <<inputOnly, paths, deleted, disk, revisions>>

\* Revision, state and messages are one transaction.
AppendIncomingTranscript ==
    /\ stage = "transcribe"
    /\ IF fstate = "delivered" \/ transcript[1] # "none"
       THEN Go("throw") /\ UNCHANGED <<file, transcript>>
       ELSE /\ revisions' = revisions + 1 /\ fstate' = "transcribed"
            /\ transcript' = QueuedTranscript
            /\ Go("settle") /\ UNCHANGED <<paths, deleted, disk>>
    /\ UNCHANGED <<kind, issued, polling, queued, stray, bounds>>

Retranscribe ==
    /\ stage = "retranscribe"
    /\ queued' = queued \cup {<<"retried", running>>}
    /\ Go("settle")
    /\ UNCHANGED <<kind, issued, polling, file, transcript, stray, bounds>>

\* Limits, container and codec: an untrusted file is refused.
Reject ==
    /\ stage \in {"download", "probe", "wav"}
    /\ fstate' = "rejected"
    /\ queued' = queued \cup {<<"reject", 0>>}
    /\ Go("settle")
    /\ UNCHANGED <<kind, issued, polling, paths, deleted, disk, revisions, transcript, stray, bounds>>

\* Network, ffmpeg or recognition fails.
AwaitFails ==
    /\ stage \in {"download", "wav", "transcribe", "retranscribe"} /\ faults < MaxFaults
    /\ faults' = faults + 1
    /\ Go("throw")
    /\ UNCHANGED <<kind, issued, polling, file, queued, transcript, stray, crashes>>

Settle ==
    /\ stage = "settle"
    /\ job' = [job EXCEPT ![running] = "done"] /\ running' = 0 /\ stage' = "none"
    /\ UNCHANGED <<kind, issued, polling, file, throws, queued, transcript, stray, bounds>>

\* markFailedIfUntranscribed
MarkFailedIfUntranscribed == IF fstate \in Final \/ revisions > 0 THEN fstate ELSE "failed"

\* Mutant: the budget is compared before the failure counts.
FailLate ==
    /\ stage = "throw"
    /\ fstate' = IF kind[running] = "audio" THEN MarkFailedIfUntranscribed ELSE fstate
    /\ throws' = [throws EXCEPT ![running] = @ + 1]
    /\ IF throws[running] < MaxAttempts
       THEN job' = [job EXCEPT ![running] = "pending"] /\ running' = 0 /\ stage' = "none"
       ELSE job' = [job EXCEPT ![running] = "dead"] /\ stage' = "exhausted" /\ UNCHANGED running
    /\ UNCHANGED <<inputOnly, paths, deleted, disk, revisions>>

Fail ==
    /\ stage = "throw"
    /\ fstate' = IF kind[running] = "audio" THEN MarkFailedIfUntranscribed ELSE fstate
    /\ throws' = [throws EXCEPT ![running] = @ + 1]
    /\ IF throws[running] + 1 < MaxAttempts
       THEN job' = [job EXCEPT ![running] = "pending"] /\ running' = 0 /\ stage' = "none"
       ELSE job' = [job EXCEPT ![running] = "dead"] /\ stage' = "exhausted" /\ UNCHANGED running
    /\ UNCHANGED <<inputOnly, paths, deleted, disk, revisions>>

Exhausted ==
    IF fstate \in Final THEN UNCHANGED <<fstate, queued>>
    ELSE fstate' = "failed" /\ queued' = queued \cup {<<"failed", 0>>}

MarkExhaustedIncomingFile ==
    /\ stage = "exhausted"
    /\ Exhausted
    /\ running' = 0 /\ stage' = "none"
    /\ UNCHANGED <<kind, issued, polling, paths, deleted, disk, revisions, job, throws, transcript, stray, bounds>>

\* With a language, a file whose failure was announced begins anew, and a notice of it that
\* nobody has tried to send is taken back; while it is being sent the command is refused.
PrepareIncomingRetry ==
    /\ fstate = "failed" /\ <<"failed", 0>> \in queued
    /\ fstate' = "received"
    /\ queued' \in {queued, queued \ {<<"failed", 0>>}}

\* `jobs retry`, which may come before the failure of the job is marked.
JobsRetry(u) ==
    /\ job[u] = "dead" /\ faults < MaxFaults
    /\ faults' = faults + 1
    /\ job' = [job EXCEPT ![u] = "pending"] /\ throws' = [throws EXCEPT ![u] = 0]
    /\ PrepareIncomingRetry \/ UNCHANGED <<fstate, queued>>
    /\ UNCHANGED <<kind, issued, polling, paths, deleted, disk, revisions, running, stage, transcript, stray, crashes>>

-----------------------------------------------------------------------------
(* The drain, retention, crashes, and the cleanup of the quarantine directory *)

\* Mutant: the first message that is sent delivers the file.
SendDelivers(c) ==
    /\ transcript[c] = "pending"
    /\ transcript' = [transcript EXCEPT ![c] = "sent"]
    /\ fstate' = IF fstate = "transcribed" THEN "delivered" ELSE fstate
    /\ UNCHANGED <<kind, issued, polling, paths, deleted, disk, revisions, work, queued, stray, bounds>>

\* markSent, and reconcileIncomingDelivery in the same transaction
Send(c) ==
    /\ transcript[c] = "pending"
    /\ transcript' = [transcript EXCEPT ![c] = "sent"]
    /\ fstate' = IF fstate = "transcribed" /\ \A d \in Chunks \ {c} : transcript[d] = "sent"
                 THEN "delivered" ELSE fstate
    /\ UNCHANGED <<kind, issued, polling, paths, deleted, disk, revisions, work, queued, stray, bounds>>

RetentionDeletes ==
    /\ ~deleted /\ fstate \in {"delivered", "rejected", "failed"}
    /\ \A u \in Updates : job[u] \notin {"pending", "leased", "dead"}
    /\ deleted' = TRUE /\ disk' = {}
    /\ UNCHANGED <<inputOnly, fstate, paths, revisions, work>>

\* Mutant: the lease of the interrupted handler never expires.
CrashKeepsLease ==
    /\ crashes < MaxCrashes /\ crashes' = crashes + 1
    /\ batch' = {} /\ upto' = offset
    /\ running' = 0 /\ stage' = "none"
    /\ stray' = IF stray = "candidate" THEN "present" ELSE stray
    /\ IF \E u \in Updates : job[u] = "dead" THEN Exhausted ELSE UNCHANGED <<fstate, queued>>
    /\ UNCHANGED <<kind, issued, recorded, handled, offset, from, paths, deleted, disk, revisions, job, throws,
                   transcript, faults>>

\* The next start marks the files of dead jobs (reconcileDeadIncomingFiles).
Crash ==
    /\ crashes < MaxCrashes /\ crashes' = crashes + 1
    /\ batch' = {} /\ upto' = offset
    /\ job' = [u \in Updates |-> IF job[u] = "leased" THEN "pending" ELSE job[u]]
    /\ running' = 0 /\ stage' = "none"
    /\ stray' = IF stray = "candidate" THEN "present" ELSE stray
    /\ IF \E u \in Updates : job[u] = "dead" THEN Exhausted ELSE UNCHANGED <<fstate, queued>>
    /\ UNCHANGED <<kind, issued, recorded, handled, offset, from, paths, deleted, disk, revisions, throws,
                   transcript, faults>>

\* Mutant: a file is owned by the path its row records.
OwnedByPath(copy) == copy \in paths

\* readOwnership: a file is owned by the row of its UID, whatever path that row records.
Owned(copy) == fstate # "none"

\* A generated file whose UID no row has is a candidate.
ScanCandidates ==
    /\ stray = "present" /\ stray' = "candidate"
    /\ UNCHANGED disk

\* Ownership is proved again before the removal.
RemoveCandidate ==
    /\ stray = "candidate" \/ \E copy \in disk : ~Owned(copy)
    /\ stray' = IF stray = "candidate" THEN "none" ELSE stray
    /\ disk' = {copy \in disk : Owned(copy)}

RemoveSuperseded ==
    /\ ScanCandidates \/ RemoveCandidate
    /\ UNCHANGED <<kind, issued, polling, fstate, paths, deleted, revisions, work, queued, transcript, bounds>>

Poll ==
    \/ GetUpdates \/ WriteOffset
    \/ \E u \in Updates : RecordUpdate(u) \/ CompleteTelegramUpdate(u) \/ EnqueueIncomingRequest(u)
                          \/ HandleIncomingRetryCallback(u)

Handler ==
    \/ Load \/ Download \/ MarkDownloaded \/ Probe \/ EnsureIncomingWav \/ MarkNormalized
    \/ AppendIncomingTranscript \/ Retranscribe \/ Reject \/ AwaitFails \/ Settle \/ Fail
    \/ MarkExhaustedIncomingFile

Next ==
    \/ Issue \/ Poll \/ TickFails \/ Handler
    \/ \E u \in Updates : Claim(u) \/ JobsRetry(u)
    \/ \E c \in Chunks : Send(c)
    \/ RetentionDeletes \/ Crash \/ RemoveSuperseded

Spec == Init /\ [][Next]_vars

\* Both loops go on.  The queue is fair to a job, because it claims the oldest one first.
LiveSpec == Spec /\ WF_vars(Poll) /\ WF_vars(Handler) /\ \A u \in Updates : SF_vars(Claim(u))

-----------------------------------------------------------------------------
(* Properties *)

\* Telegram is told to forget an update only when its outcome is durable: the reply, or the
\* accepted job with its acknowledgement.
NothingSkipped ==
    \A u \in Updates : u < offset =>
        CASE kind[u] = "command" -> <<"reply", u>> \in queued
          [] kind[u] = "audio" -> <<"ack", u>> \in queued /\ job[u] # "none"
          [] kind[u] \in {"retry", "ignore"} -> u \in handled

\* One file has one outcome.  However often it is sent, fails, is retried or interrupted:
\* its messages exist exactly when its transcript does, a rejected or failed file has none,
\* and it counts as delivered only when all of them were sent.
OneOutcome ==
    /\ (revisions = 1) = (fstate \in {"transcribed", "delivered"})
    /\ \A c \in Chunks : (transcript[c] # "none") = (revisions = 1)
    /\ fstate = "delivered" => \A c \in Chunks : transcript[c] = "sent"

\* An outcome that was announced is not taken back, and messages that were sent are not
\* queued again.
OutcomeStable ==
    [][/\ fstate \in {"delivered", "rejected"} => fstate' = fstate
       /\ fstate = "transcribed" => fstate' \in {"transcribed", "delivered"}
       /\ \A c \in Chunks : transcript[c] = "sent" => transcript'[c] = "sent"]_vars

\* Only retention deletes what was downloaded or normalized: the cleanup takes no file of a
\* known upload, not even between its publication and the row that records its path.
DownloadKept == [][disk \subseteq disk' \/ deleted']_vars

\* Every update is eventually acknowledged to Telegram, over failing ticks and crashes.
OffsetAdvances == \A u \in Updates : issued >= u ~> offset > u

\* An accepted file is transcribed or refused, or its job is dead and on display.
AcceptedIsAnswered ==
    \A u \in Updates : (job[u] # "none" /\ kind[u] = "audio") ~>
        revisions = 1 \/ <<"reject", 0>> \in queued \/ job[u] = "dead"

\* Stated by the documentation: processing that still fails after all retries is announced
\* in the chat.
ExhaustionIsAnnounced ==
    \A u \in Updates : job[u] = "dead" /\ running # u => <<"failed", 0>> \in queued
-----------------------------------------------------------------------------
(* The facts behind them *)

\* The offset passes what was handled, and a batch begins no later than it.
OffsetIsHandled == from <= offset /\ \A u \in Updates : u < offset => u \in handled

\* An update is marked handled in the transaction that stores its outcome.
HandledHasOutcome ==
    \A u \in handled :
        /\ kind[u] = "command" => <<"reply", u>> \in queued
        /\ kind[u] = "audio" => <<"ack", u>> \in queued /\ job[u] # "none"

\* A handler runs under the lease of its job, and what it fetches is not transcribed or
\* refused yet: nothing else settles the file between its awaits.
HandlerInOrder ==
    /\ (running = 0) = (stage = "none")
    /\ running # 0 => job[running] \in IF stage = "exhausted" THEN {"dead", "pending"} ELSE {"leased"}
    /\ stage \in {"download", "own", "probe", "wav", "validate", "transcribe"} =>
        kind[running] = "audio" /\ revisions = 0 /\ fstate # "rejected"

\* Work and files belong to a claimed file.
FileIsClaimed ==
    /\ \A u \in Updates : kind[u] = "audio" /\ job[u] # "none" => fstate # "none"
    /\ disk # {} => fstate # "none"

\* A job that may run has an attempt left.
BudgetLeft ==
    \A u \in Updates :
        /\ job[u] = "none" => throws[u] = 0
        /\ job[u] \in {"pending", "leased"} => throws[u] < MaxAttempts
=============================================================================
