--------------------------- MODULE SessionDelivery ---------------------------
(***************************************************************************)
(* One recorded session from the end of its recording until it is DONE     *)
(* (src/jobs/pipeline.ts, src/jobs/delivery.ts, SessionRepository): five   *)
(* jobs, the facts they commit, the outbox rows they publish, and the      *)
(* session's state, which handlers, the drain, an exhausted transcription  *)
(* and the operator move from different sides.                             *)
(*                                                                         *)
(* The queue and the outbox appear by what they promise (JobQueue, Outbox):*)
(* one current handler per job, whose writes are fenced; a pending row is  *)
(* sent, or dies and may be revived.  Code between two awaits runs without *)
(* the other actions of the daemon, but the process may die inside it.     *)
(***************************************************************************)
EXTENDS Naturals, FiniteSets

CONSTANTS
    Audio,       \* the outbox rows of the finalized parts, one for each
    Large,       \* the parts that are split first (their pieces are one row here)
    LongReport,  \* the report exceeds transcriptInlineLimit: a preview and a document
    MaxThrows,   \* bound: handlers that throw
    MaxDeaths,   \* bound: interrupted handlers and dead rows together
    MaxRetries   \* bound: commands of the operator

Jobs == {"deliver_audio", "asr", "deliver_transcript", "summarize", "deliver_report"}
Reports == IF LongReport THEN {"preview", "report"} ELSE {"report"}
Notices == {"finalized", "rejected", "failed"}
Rows == Audio \cup {"transcript"} \cup Reports \cup Notices

ASSUME SessionAssumption ==
    /\ Audio # {} /\ IsFiniteSet(Audio)
    /\ Audio \cap ({"transcript", "preview", "report"} \cup Notices) = {}
    /\ Large \subseteq Audio
    /\ LongReport \in BOOLEAN
    /\ {MaxThrows, MaxDeaths, MaxRetries} \subseteq Nat

VARIABLES
    session,     \* audio_sessions.state
    transcript,  \* a current transcript revision is stored
    summary,     \* a summary of that revision is stored
    job,         \* job[k]; "backoff": pending, run_after ahead; "settling": the handler returned;
                 \* "dying": dead, "revived": pending again, the session not yet marked
    row,         \* telegram_outbox rows of the session
    throws, deaths, retries  \* bound counters

vars == <<session, transcript, summary, job, row, throws, deaths, retries>>
bounds == <<throws, deaths, retries>>

TypeOK ==
    /\ session \in {"PROCESSING", "DELIVERING", "DONE", "REJECTED", "FAILED"}
    /\ transcript \in BOOLEAN
    /\ summary \in BOOLEAN
    /\ job \in [Jobs -> {"absent", "pending", "working", "settling", "done", "backoff", "dying", "revived", "dead"}]
    /\ row \in [Rows -> {"absent", "pending", "sent", "dead", "failed"}]
    /\ throws \in 0 .. MaxThrows /\ deaths \in 0 .. MaxDeaths /\ retries \in 0 .. MaxRetries

\* The transaction that finalizes the session
Init ==
    /\ session = "PROCESSING"
    /\ transcript = FALSE /\ summary = FALSE
    /\ job = [k \in Jobs |-> IF k \in {"deliver_audio", "asr"} THEN "pending" ELSE "absent"]
    /\ row = [r \in Rows |-> IF r = "finalized" THEN "pending" ELSE "absent"]
    /\ throws = 0 /\ deaths = 0 /\ retries = 0

\* Enqueueing is idempotent by key, for jobs and for rows.
Queued(jobs, K) == [k \in Jobs |-> IF k \in K /\ jobs[k] = "absent" THEN "pending" ELSE jobs[k]]
Published(rows, R) == [r \in Rows |-> IF r \in R /\ rows[r] = "absent" THEN "pending" ELSE rows[r]]

-----------------------------------------------------------------------------
(* The queue *)

\* The jobs of one worker loop, which awaits each handler, and claim's ORDER BY in it
Lane(k) == IF k \in {"asr", "summarize"} THEN {k} ELSE Jobs \ {"asr", "summarize"}

Urgent(k) ==
    CASE k = "deliver_audio" -> 0
      [] k = "deliver_transcript" -> 1
      [] OTHER -> 4

Take(k) ==
    /\ job[k] = "pending"
    /\ \A j \in Lane(k) : /\ job[j] \notin {"working", "settling"}
                          /\ job[j] = "pending" => Urgent(k) <= Urgent(j)
    /\ job' = [job EXCEPT ![k] = "working"]
    /\ UNCHANGED <<session, transcript, summary, row, bounds>>

BackoffElapses(k) ==
    /\ job[k] = "backoff"
    /\ job' = [job EXCEPT ![k] = "pending"]
    /\ UNCHANGED <<session, transcript, summary, row, bounds>>

Complete(k) ==
    /\ job[k] = "settling"
    /\ job' = [job EXCEPT ![k] = "done"]
    /\ UNCHANGED <<session, transcript, summary, row, bounds>>

\* The claim ends without an outcome: the process dies or the lease is lost.
Interrupt(k) ==
    /\ job[k] \in {"working", "settling", "revived"} /\ deaths < MaxDeaths
    /\ deaths' = deaths + 1
    /\ job' = [job EXCEPT ![k] = "pending"]
    /\ UNCHANGED <<session, transcript, summary, row, throws, retries>>

\* What a throw does to the job: a retry after a backoff, or its death if this was the
\* last attempt (JobQueue counts them).
Thrown(jobs, k) == {[jobs EXCEPT ![k] = s] : s \in {"backoff", IF k = "asr" THEN "dying" ELSE "dead"}}

Throw(k) ==
    /\ job[k] = "working" /\ throws < MaxThrows
    /\ throws' = throws + 1
    /\ job' \in Thrown(job, k)
    /\ UNCHANGED <<session, transcript, summary, row, deaths, retries>>

\* The catch goes on to mark the session, which a retry may already have revived.
Marked == [job EXCEPT !["asr"] = IF @ = "dying" THEN "dead" ELSE "pending"]

\* Mutant: a session is failed whatever its state.
MarkFailedAlways ==
    /\ job["asr"] \in {"dying", "revived"}
    /\ job' = Marked
    /\ session' = "FAILED"
    /\ row' = Published(row, {"failed"})
    /\ UNCHANGED <<transcript, summary, bounds>>

MarkExhaustedAsrSession ==
    /\ job["asr"] \in {"dying", "revived"}
    /\ job' = Marked
    /\ IF session \in {"DONE", "REJECTED"}
       THEN UNCHANGED <<session, row>>
       ELSE session' = "FAILED" /\ row' = Published(row, {"failed"})
    /\ UNCHANGED <<transcript, summary, bounds>>

\* Mutant: the notice of the failure stays queued.
KeepNotice(rows) == rows

\* Mutant: a state the schema does not have.
RetireAway(rows) == [rows EXCEPT !["failed"] = "retired"]

RetireNotice(rows) == IF rows["failed"] = "pending" THEN [rows EXCEPT !["failed"] = "failed"] ELSE rows

\* `jobs retry`, a process of its own: the row is dead once jobs.fail commits, so it may
\* come before the session is marked.  prepareAsrRetry restores the session and
\* retires an unsent notice.
JobsRetry(k) ==
    /\ job[k] \in {"dying", "dead"} /\ retries < MaxRetries
    /\ retries' = retries + 1
    /\ job' = [job EXCEPT ![k] = IF @ = "dying" THEN "revived" ELSE "pending"]
    /\ IF k = "asr"
       THEN /\ session' = IF session = "FAILED" THEN "PROCESSING" ELSE session
            /\ row' = RetireNotice(row)
       ELSE UNCHANGED <<session, row>>
    /\ UNCHANGED <<transcript, summary, throws, deaths>>

-----------------------------------------------------------------------------
(* The handlers *)

\* Mutant: the follow-up of the transcript is enqueued after its transaction, and is lost.
FollowUpsLost(jobs) == Queued(jobs, {"summarize"})

EnqueuePostAsrJobs(jobs) == Queued(jobs, {"deliver_transcript", "summarize"})

\* A run that finds the transcript of an earlier one publishes its follow-ups again.
ReplayStoredTranscript ==
    /\ job["asr"] = "working" /\ transcript
    /\ job' = EnqueuePostAsrJobs([job EXCEPT !["asr"] = "settling"])
    /\ UNCHANGED <<session, transcript, summary, row, bounds>>

StoreTranscript ==
    /\ job["asr"] = "working" /\ ~transcript
    /\ transcript' = TRUE
    /\ job' = EnqueuePostAsrJobs([job EXCEPT !["asr"] = "settling"])
    /\ UNCHANGED <<session, summary, row, bounds>>

\* Too few words: only a run that did not find a stored transcript rejects.
RejectInsufficientTranscript ==
    /\ job["asr"] = "working" /\ ~transcript
    /\ session' = "REJECTED"
    /\ row' = Published(row, {"rejected"})
    /\ job' = [job EXCEPT !["asr"] = "settling"]
    /\ UNCHANGED <<transcript, summary, bounds>>

\* enqueueSessionAudio (AudioDelivery has the rows and their order): the parts are
\* published in one go, but for an await before the pieces of each oversize one; the
\* handler returns when every part has its rows.
PublishAudio(P) ==
    LET absent == {p \in Audio : row[p] = "absent"} IN
    /\ job["deliver_audio"] = "working" /\ P # {} /\ P \subseteq absent
    /\ Cardinality(P \cap Large) <= 1
    /\ P # absent => (absent \ P) \cap Large # {}
    /\ row' = Published(row, P)
    /\ UNCHANGED <<session, transcript, summary, job, bounds>>

AudioPublished ==
    /\ job["deliver_audio"] = "working" /\ \A p \in Audio : row[p] # "absent"
    /\ job' = [job EXCEPT !["deliver_audio"] = "settling"]
    /\ UNCHANGED <<session, transcript, summary, row, bounds>>

HandleSummarize ==
    /\ job["summarize"] = "working"
    /\ summary' = TRUE
    /\ job' = Queued([job EXCEPT !["summarize"] = "settling"], {"deliver_report"})
    /\ UNCHANGED <<session, transcript, row, bounds>>

\* advanceToDelivering throws unless the session is PROCESSING or past it.
AdvanceToDelivering(k, jobs) ==
    IF session \in {"PROCESSING", "DELIVERING", "DONE"}
    THEN /\ session' = IF session = "PROCESSING" THEN "DELIVERING" ELSE session
         /\ job' = [jobs EXCEPT ![k] = "settling"]
    ELSE session' = session /\ job' \in Thrown(jobs, k)

HandleDeliverTranscript ==
    /\ job["deliver_transcript"] = "working"
    /\ row' = Published(row, {"transcript"})
    /\ AdvanceToDelivering("deliver_transcript", job)
    /\ UNCHANGED <<transcript, summary, bounds>>

HandleDeliverReport ==
    /\ job["deliver_report"] = "working"
    /\ row' = Published(row, Reports)
    /\ AdvanceToDelivering("deliver_report", job)
    /\ UNCHANGED <<transcript, summary, bounds>>

\* The process dies between the transactions of a delivery: some of the parts, the row,
\* or the preview alone, is committed and the session has not advanced.
DiesAfterRow(k, R) ==
    /\ job[k] = "working" /\ deaths < MaxDeaths
    /\ deaths' = deaths + 1
    /\ row' = Published(row, R)
    /\ job' = [j \in Jobs |-> IF job[j] \in {"working", "settling", "revived"} THEN "pending" ELSE job[j]]
    /\ UNCHANGED <<session, transcript, summary, throws, retries>>

PartialHandler ==
    \/ \E P \in SUBSET Audio : DiesAfterRow("deliver_audio", P)
    \/ DiesAfterRow("deliver_transcript", {"transcript"})
    \/ \E R \in {Reports, Reports \cap {"preview"}} : DiesAfterRow("deliver_report", R)

-----------------------------------------------------------------------------
(* The drain *)

\* Mutant: a kind without rows counts as delivered.
AllSent(rows, K) == \A r \in K : rows[r] \in {"absent", "sent"}

AllDelivered(rows, K) ==
    LET there == {r \in K : rows[r] # "absent"} IN
    there # {} /\ \A r \in there : rows[r] = "sent"

\* Mutant: the rows are read before the send is recorded.
ReconcileBeforeAck(rows) == IF \A r \in Rows : row[r] \in {"absent", "sent"} THEN "DONE" ELSE session

\* reconcileSessionDelivery, in the transaction that marks a row sent
ReconcileSessionDelivery(rows) ==
    IF /\ \A r \in Rows : rows[r] # "pending"
       /\ \A K \in {Audio, {"transcript"}, Reports} : AllDelivered(rows, K)
    THEN "DONE" ELSE session

Send(r) ==
    /\ row[r] = "pending"
    /\ row' = [row EXCEPT ![r] = "sent"]
    /\ session' = ReconcileSessionDelivery(row')
    /\ UNCHANGED <<transcript, summary, job, bounds>>

Dies(r) ==
    /\ row[r] = "pending" /\ deaths < MaxDeaths
    /\ deaths' = deaths + 1
    /\ row' = [row EXCEPT ![r] = "dead"]
    /\ UNCHANGED <<session, transcript, summary, job, throws, retries>>

OutboxRetry(r) ==
    /\ row[r] = "dead" /\ retries < MaxRetries
    /\ retries' = retries + 1
    /\ row' = [row EXCEPT ![r] = "pending"]
    /\ UNCHANGED <<session, transcript, summary, job, throws, deaths>>

-----------------------------------------------------------------------------
Handler ==
    \/ ReplayStoredTranscript \/ StoreTranscript \/ RejectInsufficientTranscript
    \/ AudioPublished \/ \E P \in SUBSET Audio : PublishAudio(P)
    \/ HandleSummarize \/ HandleDeliverTranscript \/ HandleDeliverReport

Next ==
    \/ Handler \/ PartialHandler \/ MarkExhaustedAsrSession
    \/ \E k \in Jobs : \/ Take(k) \/ BackoffElapses(k) \/ Complete(k)
                      \/ Interrupt(k) \/ Throw(k) \/ JobsRetry(k)
    \/ \E r \in Rows : Send(r) \/ Dies(r) \/ OutboxRetry(r)

Spec == Init /\ [][Next]_vars

\* Worker loops and the drain keep running; a claimed handler ends.  Nobody retries.
Fairness ==
    /\ WF_vars(MarkExhaustedAsrSession)
    /\ \A k \in Jobs : WF_vars(Take(k)) /\ WF_vars(BackoffElapses(k)) /\ WF_vars(Complete(k))
    /\ WF_vars(ReplayStoredTranscript \/ StoreTranscript \/ RejectInsufficientTranscript)
    /\ WF_vars(AudioPublished \/ \E P \in SUBSET Audio : PublishAudio(P))
    /\ WF_vars(HandleSummarize) /\ WF_vars(HandleDeliverTranscript) /\ WF_vars(HandleDeliverReport)
    /\ \A r \in Rows : WF_vars(Send(r))

LiveSpec == Spec /\ Fairness

-----------------------------------------------------------------------------
(* Properties *)

\* A session that is DONE stays DONE: neither an exhausted or retried transcription nor
\* a replayed delivery job takes it back, so retention may rely on what it read.
DoneStable == [][session = "DONE" => session' = "DONE"]_vars

\* DONE was not reached through the absence of work: audio, transcript and report have
\* each been in the chat, and no message of the three kinds is dead.
DoneHasEachKind ==
    session = "DONE" =>
        /\ \E p \in Audio : row[p] = "sent"
        /\ row["transcript"] = "sent"
        /\ \E r \in Reports : row[r] = "sent"

\* A stored fact never stands without the job that continues from it, whatever was
\* interrupted: nothing else would ever deliver the transcript or write the report.
HandOver ==
    /\ transcript => job["deliver_transcript"] # "absent" /\ job["summarize"] # "absent"
    /\ summary => job["deliver_report"] # "absent"

\* A row of the transcript is published by its own job, which a stored transcript
\* enqueued: what a DONE session has sent excludes that a later run rejects it.
TranscriptFirst ==
    /\ row["transcript"] # "absent" => job["deliver_transcript"] # "absent"
    /\ job["deliver_transcript"] # "absent" => transcript

\* A manual retry, or the completion by messages already published, takes a session out
\* of FAILED without a notice of the failure still waiting to be sent.  (A transcription
\* revived before its session was marked may reject the session beside its notice.)
FailedNoticeRetired ==
    [][session = "FAILED" /\ session' \in {"PROCESSING", "DONE"} => row'["failed"] # "pending"]_vars

\* Left to itself a session is completed, or something the operator can see has ended
\* it: a rejection, a failure, a dead job or a dead message.
SessionSettles ==
    <>(\/ session \in {"DONE", "REJECTED", "FAILED"}
       \/ \E k \in Jobs : job[k] = "dead"
       \/ \E r \in Rows : row[r] = "dead")

\* What the tests say of DONE: every message of the session is sent.  Rows that are
\* not yet published do not count.
DoneOnlyWhenAllSent ==
    session = "DONE" => \A r \in Audio \cup {"transcript"} \cup Reports : row[r] = "sent"

\* What the rejection notice tells the user: transcript and report are not sent.
RejectedStaysSilent ==
    row["rejected"] # "absent" => row["transcript"] = "absent"

\* What the failure path promises: a session that failed has its durable status message.
FailureIsAnnounced ==
    session = "FAILED" => row["failed"] \in {"pending", "sent", "dead"}
=============================================================================
