------------------------------ MODULE Retention ------------------------------
(***************************************************************************)
(* Deleting audio that is no longer needed (src/retention/policy.ts) and   *)
(* the operator's proof of old deliveries (reconcile-delivery.ts).         *)
(*                                                                         *)
(* The hourly tick of the daemon and `retention apply` each compute a plan *)
(* and apply it group by group.  Each group is proved again and unlinked   *)
(* under the write lock; between groups, and between dry-run and the       *)
(* confirmation, the pipeline, the drain and the operator go on.           *)
(***************************************************************************)
EXTENDS Naturals, FiniteSets

CONSTANTS
    Sessions,       \* recorded sessions
    NParts,         \* finalized parts of a session
    Files,          \* incoming Telegram files
    AudioHours, RejectedHours, IncomingHours, QuarantineHours, \* the configured windows
    MaxTime,        \* bound: the clock, in hours
    MaxFaults       \* bound: crashes and failing unlinks

Parts == Sessions \X (1 .. NParts)
PartsOf(s) == {s} \X (1 .. NParts)
Copies == {"quarantine", "normalized"}
JobKinds == {"deliver_audio", "asr", "summarize"}
InputJobs == {"incoming", "resend"} \* the job of the update that brought the file, of one that brought it again
FileJobs == InputJobs \cup {"retry"}
Appliers == {"daemon", "cli"}
Never == 99      \* SQL NULL for a time, after every real time
NoPlan == [at |-> Never, groups |-> {}]
Hours == 0 .. MaxTime

ASSUME RetentionAssumption ==
    /\ {NParts, MaxTime, MaxFaults, AudioHours, RejectedHours, IncomingHours, QuarantineHours} \subseteq Nat
    /\ MaxTime < Never
    /\ Sessions \cap Files = {}

VARIABLES
    now,
    state,      \* audio_sessions.state
    reason,     \* rejection_reason
    transcript, \* a current transcript revision exists
    job,        \* jobs of a session: "open" is pending or leased
    row,        \* outbox rows of a session: one per part, "transcript", "report"
    delivered, deliveredAt, \* audio_parts.delivered, delivered_at
    partDeleted, \* audio_parts.deleted_at is set
    audio,      \* archive files on disk
    preview,    \* parts an operator was shown for reconciliation
    fstate,     \* incoming_telegram_files.state
    fjob, frow, \* jobs of the file, messages of its transcript
    fAt,        \* delivered_at, or updated_at of a rejected or failed file
    fileDeleted,
    copies,     \* files in the quarantine directory
    plan,       \* the retention plans in memory
    faults      \* bound counter

sessionFacts == <<state, reason, transcript, job, row, delivered, deliveredAt>>
fileFacts == <<fstate, fjob, frow, fAt>>
vars == <<now, sessionFacts, partDeleted, audio, preview, fileFacts, fileDeleted, copies, plan, faults>>

Messages(s) == PartsOf(s) \cup {<<s, 0>>, <<s, NParts + 1>>}
Transcript(s) == <<s, 0>>
Report(s) == <<s, NParts + 1>>
AllMessages == UNION {Messages(s) : s \in Sessions}
Groups == [kind : {"session_audio", "rejected_session_audio"}, id : Parts]
          \cup [kind : {"incoming_audio", "quarantine"}, id : Files]

TypeOK ==
    /\ now \in Hours
    /\ state \in [Sessions -> {"PROCESSING", "DELIVERING", "DONE", "REJECTED", "FAILED"}]
    /\ reason \in [Sessions -> {"none", "insufficient_speech", "asr_empty"}]
    /\ transcript \in [Sessions -> BOOLEAN]
    /\ job \in [Sessions -> [JobKinds -> {"none", "open", "done", "dead"}]]
    /\ row \in [AllMessages -> {"none", "pending", "sent", "dead"}]
    /\ delivered \in [Parts -> BOOLEAN] /\ deliveredAt \in [Parts -> Hours \cup {Never}]
    /\ partDeleted \subseteq Parts /\ audio \subseteq Parts /\ preview \subseteq Parts
    /\ fstate \in [Files -> {"received", "downloaded", "transcribed", "delivered", "rejected", "failed"}]
    /\ fjob \in [Files -> [FileJobs -> {"none", "open", "done", "dead"}]]
    /\ frow \in [Files -> {"none", "pending", "sent"}]
    /\ fAt \in [Files -> Hours \cup {Never}]
    /\ fileDeleted \subseteq Files /\ copies \subseteq Files \X Copies
    /\ plan \in [Appliers -> [at : Hours \cup {Never}, groups : SUBSET Groups]]
    /\ faults \in 0 .. MaxFaults

\* A session is rejected before upload, enters the pipeline, comes from a release that
\* recorded deliveries without their time, or is one whose audio was deleted before; a file
\* is new, or was answered and deleted before.
Init ==
    /\ now = 0
    /\ \E origin \in [Sessions -> {"new", "silent", "legacy", "gone"}] :
        /\ state = [s \in Sessions |-> CASE origin[s] = "new" -> "PROCESSING"
                                         [] origin[s] = "silent" -> "REJECTED"
                                         [] origin[s] \in {"legacy", "gone"} -> "DONE"]
        /\ reason = [s \in Sessions |-> IF origin[s] = "silent" THEN "insufficient_speech" ELSE "none"]
        /\ transcript = [s \in Sessions |-> origin[s] \in {"legacy", "gone"}]
        /\ job = [s \in Sessions |-> [k \in JobKinds |->
                    CASE origin[s] = "new" -> IF k = "summarize" THEN "none" ELSE "open"
                      [] origin[s] = "silent" -> "none"
                      [] origin[s] \in {"legacy", "gone"} -> "done"]]
        /\ row = [m \in AllMessages |-> IF origin[m[1]] \in {"legacy", "gone"} THEN "sent" ELSE "none"]
        /\ delivered = [p \in Parts |-> origin[p[1]] \in {"legacy", "gone"}]
        /\ deliveredAt = [p \in Parts |-> IF origin[p[1]] = "gone" THEN 0 ELSE Never]
        /\ partDeleted = {p \in Parts : origin[p[1]] = "gone"}
    /\ audio = Parts \ partDeleted /\ preview = {}
    /\ \E origin \in [Files -> {"received", "delivered", "rejected"}] :
        /\ fstate = origin
        /\ fjob = [f \in Files |-> [k \in FileJobs |->
                     IF k = "incoming" THEN IF origin[f] = "received" THEN "open" ELSE "done" ELSE "none"]]
        /\ frow = [f \in Files |-> IF origin[f] = "delivered" THEN "sent" ELSE "none"]
        /\ fAt = [f \in Files |-> IF origin[f] = "received" THEN Never ELSE 0]
        /\ fileDeleted = {f \in Files : origin[f] # "received"}
    /\ copies = {}
    /\ plan = [a \in Appliers |-> NoPlan]
    /\ faults = 0

-----------------------------------------------------------------------------
(* The pipeline and the drain, as far as retention reads their facts *)

retentionVars == <<partDeleted, audio, fileDeleted, copies, plan, faults>>

\* A part whose file is gone without a retention mark makes the job throw.
DeliverAudio(s) ==
    /\ job[s]["deliver_audio"] = "open"
    /\ PartsOf(s) \ partDeleted \subseteq audio
    /\ row' = [m \in AllMessages |-> IF m \in PartsOf(s) \ partDeleted /\ row[m] = "none" THEN "pending" ELSE row[m]]
    /\ job' = [job EXCEPT ![s]["deliver_audio"] = "done"]
    /\ UNCHANGED <<now, state, reason, transcript, delivered, deliveredAt, preview, fileFacts, retentionVars>>

Transcribe(s) ==
    /\ job[s]["asr"] = "open" /\ (transcript[s] \/ PartsOf(s) \subseteq audio)
    /\ \/ /\ transcript' = [transcript EXCEPT ![s] = TRUE]
          /\ row' = [row EXCEPT ![Transcript(s)] = IF @ = "none" THEN "pending" ELSE @]
          /\ job' = [job EXCEPT ![s]["asr"] = "done", ![s]["summarize"] = IF @ = "none" THEN "open" ELSE @]
          /\ state' = [state EXCEPT ![s] = IF @ = "PROCESSING" THEN "DELIVERING" ELSE @]
          /\ UNCHANGED reason
       \/ /\ ~transcript[s]
          /\ state' = [state EXCEPT ![s] = "REJECTED"]
          /\ reason' = [reason EXCEPT ![s] = "asr_empty"]
          /\ job' = [job EXCEPT ![s]["asr"] = "done"]
          /\ UNCHANGED <<transcript, row>>
    /\ UNCHANGED <<now, delivered, deliveredAt, preview, fileFacts, retentionVars>>

\* The report is published by a transaction before the one that completes its job.
PublishReport(s) ==
    /\ job[s]["summarize"] = "open"
    /\ row' = [row EXCEPT ![Report(s)] = IF @ = "none" THEN "pending" ELSE @]
    /\ \E completes \in BOOLEAN :
        job' = [job EXCEPT ![s]["summarize"] = IF completes THEN "done" ELSE @]
    /\ UNCHANGED <<now, state, reason, transcript, delivered, deliveredAt, preview, fileFacts, retentionVars>>

JobDies(s, k) ==
    /\ job[s][k] = "open"
    /\ job' = [job EXCEPT ![s][k] = "dead"]
    /\ state' = [state EXCEPT ![s] = IF k = "asr" /\ @ \notin {"DONE", "REJECTED"} THEN "FAILED" ELSE @]
    /\ UNCHANGED <<now, reason, transcript, row, delivered, deliveredAt, preview, fileFacts, retentionVars>>

JobsRetry(s, k) ==
    /\ job[s][k] = "dead"
    /\ job' = [job EXCEPT ![s][k] = "open"]
    /\ state' = [state EXCEPT ![s] = IF k = "asr" /\ @ = "FAILED" THEN "PROCESSING" ELSE @]
    /\ UNCHANGED <<now, reason, transcript, row, delivered, deliveredAt, preview, fileFacts, retentionVars>>

\* markSent with its delivery facts: the part's time of proof, and the session.
Send(s, m) ==
    /\ row[m] = "pending"
    /\ row' = [row EXCEPT ![m] = "sent"]
    /\ delivered' = [p \in Parts |-> delivered[p] \/ p = m]
    /\ deliveredAt' = [p \in Parts |-> IF p = m THEN now ELSE deliveredAt[p]]
    /\ state' = [state EXCEPT ![s] =
           IF /\ @ = "DELIVERING" /\ row[Transcript(s)] # "none" /\ row[Report(s)] # "none"
              /\ \A x \in Messages(s) \ {m} : row[x] \in {"none", "sent"}
           THEN "DONE" ELSE @]
    /\ UNCHANGED <<now, reason, transcript, job, preview, fileFacts, retentionVars>>

RowDies(m) ==
    /\ row[m] = "pending"
    /\ row' = [row EXCEPT ![m] = "dead"]
    /\ UNCHANGED <<now, state, reason, transcript, job, delivered, deliveredAt, preview, fileFacts, retentionVars>>

OutboxRetry(m) ==
    /\ row[m] = "dead"
    /\ row' = [row EXCEPT ![m] = "pending"]
    /\ UNCHANGED <<now, state, reason, transcript, job, delivered, deliveredAt, preview, fileFacts, retentionVars>>

-----------------------------------------------------------------------------
(* Incoming files *)

incomingOnly == <<now, sessionFacts, preview, partDeleted, audio, fileDeleted, plan, faults>>

\* What is not there is downloaded anew, whatever the row says of a deletion.
Download(f, k) ==
    /\ fjob[f][k] = "open" /\ fstate[f] \in {"received", "downloaded", "failed"}
    /\ copies' = copies \cup {<<f, "quarantine">>, <<f, "normalized">>}
    /\ fstate' = [fstate EXCEPT ![f] = "downloaded"]
    /\ UNCHANGED <<incomingOnly, fjob, frow, fAt>>

TranscribeIncoming(f, k) ==
    /\ fjob[f][k] = "open" /\ fstate[f] = "downloaded"
    /\ fjob' = [fjob EXCEPT ![f][k] = "done"]
    /\ \/ fstate' = [fstate EXCEPT ![f] = "transcribed"] /\ frow' = [frow EXCEPT ![f] = "pending"] /\ UNCHANGED fAt
       \/ fstate' = [fstate EXCEPT ![f] = "rejected"] /\ fAt' = [fAt EXCEPT ![f] = now] /\ UNCHANGED frow
    /\ UNCHANGED <<incomingOnly, copies>>

\* A file with an outcome keeps it, and its messages their keys.
AlreadyAnswered(f, k) ==
    /\ fjob[f][k] = "open" /\ fstate[f] \in {"transcribed", "delivered", "rejected"}
    /\ fjob' = [fjob EXCEPT ![f][k] = "done"]
    /\ UNCHANGED <<incomingOnly, copies, fstate, frow, fAt>>

\* The user sends the file again: the row is the one it has, the job a new one.  (A bound:
\* one more time.)
SentAgain(f) ==
    /\ fjob[f]["resend"] = "none"
    /\ fjob' = [fjob EXCEPT ![f]["resend"] = "open"]
    /\ UNCHANGED <<incomingOnly, copies, fstate, frow, fAt>>

IncomingDies(f, k) ==
    /\ fjob[f][k] = "open"
    /\ fjob' = [fjob EXCEPT ![f][k] = "dead"]
    /\ IF fstate[f] \in {"received", "downloaded", "failed"}
       THEN fstate' = [fstate EXCEPT ![f] = "failed"] /\ fAt' = [fAt EXCEPT ![f] = now]
       ELSE UNCHANGED <<fstate, fAt>>
    /\ UNCHANGED <<incomingOnly, copies, frow>>

\* A retry with a language starts the file over, and only a failed one.
IncomingRetried(f, k) ==
    /\ fjob[f][k] = "dead"
    /\ fjob' = [fjob EXCEPT ![f][k] = "open"]
    /\ \/ UNCHANGED fstate
       \/ fstate[f] = "failed" /\ fstate' = [fstate EXCEPT ![f] = "received"]
    /\ UNCHANGED <<incomingOnly, copies, frow, fAt>>

\* The button under a transcript stays where it is when the audio is gone: the callback
\* asks for the row only.  (A bound: one such job at a time.)
RetryCallback(f) ==
    /\ frow[f] # "none" /\ fjob[f]["retry"] \in {"none", "done"}
    /\ fjob' = [fjob EXCEPT ![f]["retry"] = "open"]
    /\ UNCHANGED <<incomingOnly, copies, fstate, frow, fAt>>

\* Without the normalized audio the handler throws, until the job is dead.
Retranscribe(f) ==
    /\ fjob[f]["retry"] = "open" /\ <<f, "normalized">> \in copies
    /\ fjob' = [fjob EXCEPT ![f]["retry"] = "done"]
    /\ UNCHANGED <<incomingOnly, copies, fstate, frow, fAt>>

SendIncoming(f) ==
    /\ frow[f] = "pending"
    /\ frow' = [frow EXCEPT ![f] = "sent"]
    /\ fstate' = [fstate EXCEPT ![f] = "delivered"]
    /\ fAt' = [fAt EXCEPT ![f] = now]
    /\ UNCHANGED <<incomingOnly, copies, fjob>>

-----------------------------------------------------------------------------
(* planRetention: eligibility is a query over recorded facts *)

\* Mutant: a delivery without a time counts as an old one.
ElapsedOrUnknown(at, hours, clock) == at = Never \/ at + hours <= clock

Elapsed(at, hours, clock) == at # Never /\ at + hours <= clock

\* j.idempotency_key LIKE '%' || session_id: the keys of deliver_audio and asr end with the
\* session, those of summarize and deliver_report with a revision.
OpenJobOfSession(s) == \E k \in {"deliver_audio", "asr"} : job[s][k] = "open"

SessionAudio(p, clock) ==
    LET s == p[1] IN
    /\ p \notin partDeleted
    /\ delivered[p] /\ Elapsed(deliveredAt[p], AudioHours, clock)
    /\ state[s] = "DONE" /\ transcript[s]
    /\ row[Transcript(s)] = "sent"
    /\ \A m \in Messages(s) : row[m] # "pending"
    /\ ~OpenJobOfSession(s)

\* Mutant: a rejected session is old enough when its recording is.
RejectedByAge(p, clock) ==
    LET s == p[1] IN
    /\ p \notin partDeleted /\ state[s] = "REJECTED"
    /\ Elapsed(0, RejectedHours, clock)
    /\ ~OpenJobOfSession(s)

\* Sessions end at hour 0.
RejectedSessionAudio(p, clock) ==
    LET s == p[1] IN
    /\ p \notin partDeleted /\ state[s] = "REJECTED"
    /\ \/ reason[s] = "insufficient_speech" /\ Elapsed(0, RejectedHours, clock)
       \/ /\ reason[s] = "asr_empty"
          /\ delivered[p] /\ Elapsed(deliveredAt[p], AudioHours, clock)
          /\ row[p] = "sent" /\ job[s]["deliver_audio"] = "done"
    /\ \A m \in PartsOf(s) : row[m] \in {"none", "sent"}
    /\ ~OpenJobOfSession(s)

\* Mutant: a dead job is not one that may come back.
NoOpenIncomingJob(f) == \A k \in FileJobs : fjob[f][k] # "open"

NoRecoverableIncomingJob(f) == \A k \in FileJobs : fjob[f][k] \notin {"open", "dead"}

IncomingAudio(f, clock) ==
    /\ f \notin fileDeleted /\ fstate[f] = "delivered" /\ Elapsed(fAt[f], IncomingHours, clock)
    /\ NoRecoverableIncomingJob(f) /\ frow[f] # "pending"

Quarantine(f, clock) ==
    /\ f \notin fileDeleted /\ fstate[f] \in {"rejected", "failed"} /\ Elapsed(fAt[f], QuarantineHours, clock)
    /\ NoRecoverableIncomingJob(f)

Eligible(g, clock) ==
    CASE g.kind = "session_audio" -> SessionAudio(g.id, clock)
      [] g.kind = "rejected_session_audio" -> RejectedSessionAudio(g.id, clock)
      [] g.kind = "incoming_audio" -> IncomingAudio(g.id, clock)
      [] g.kind = "quarantine" -> Quarantine(g.id, clock)

OfSession(g) == g.kind \in {"session_audio", "rejected_session_audio"}
Paths(g) == IF OfSession(g) THEN {g.id} ELSE {g.id} \X Copies

\* Mutant: a group that lost a file is not planned again.
OnDisk(g) == Paths(g) \subseteq audio \cup copies
PlannedIfPresent(g, clock) == Eligible(g, clock) /\ OnDisk(g)

Planned(g, clock) == Eligible(g, clock)

PlanRetention(a) ==
    /\ plan[a].groups = {}
    /\ LET groups == {g \in Groups : Planned(g, now)} IN
       /\ groups # {}
       /\ plan' = [plan EXCEPT ![a] = [at |-> now, groups |-> groups]]
    /\ UNCHANGED <<now, sessionFacts, partDeleted, audio, preview, fileFacts, fileDeleted, copies, faults>>

-----------------------------------------------------------------------------
(* applyRetention *)

\* Mutant: the plan is proof enough.
TrustPlan(g, clock) == TRUE

\* groupStillEligible: the same query with the clock of the plan
GroupStillEligible(g, clock) == Eligible(g, clock)

Unlink(gone) == audio' = audio \ gone /\ copies' = copies \ gone

\* Mutant: every mark goes to audio_parts.
MarkPart(g) == partDeleted' = partDeleted \cup {g.id} /\ UNCHANGED fileDeleted

MarkDeleted(g) ==
    IF OfSession(g) THEN partDeleted' = partDeleted \cup {g.id} /\ UNCHANGED fileDeleted
    ELSE fileDeleted' = fileDeleted \cup {g.id} /\ UNCHANGED partDeleted

Drop(a, g) == [plan EXCEPT ![a] = IF @.groups = {g} THEN NoPlan ELSE [at |-> @.at, groups |-> @.groups \ {g}]]

ApplyCandidateGroup(a, g) ==
    /\ g \in plan[a].groups /\ GroupStillEligible(g, plan[a].at)
    /\ Unlink(Paths(g)) /\ MarkDeleted(g)
    /\ plan' = Drop(a, g)
    /\ UNCHANGED <<now, sessionFacts, preview, fileFacts, faults>>

GroupStale(a, g) ==
    /\ g \in plan[a].groups /\ ~GroupStillEligible(g, plan[a].at)
    /\ plan' = Drop(a, g)
    /\ UNCHANGED <<now, sessionFacts, partDeleted, audio, preview, fileFacts, fileDeleted, copies, faults>>

\* Mutant: the mark is set for a file that could not be unlinked.
MarkFirst(g) == MarkDeleted(g)

Unmarked(g) == UNCHANGED <<partDeleted, fileDeleted>>

\* An unlink or the commit fails after some paths are gone, or the process dies there.
ApplyInterrupted(a, g) ==
    /\ g \in plan[a].groups /\ GroupStillEligible(g, plan[a].at)
    /\ faults < MaxFaults /\ faults' = faults + 1
    /\ \E gone \in SUBSET Paths(g) : Unlink(gone)
    /\ Unmarked(g)
    /\ plan' \in {Drop(a, g), [plan EXCEPT ![a] = NoPlan]}
    /\ UNCHANGED <<now, sessionFacts, preview, fileFacts>>

-----------------------------------------------------------------------------
(* reconcile-delivery.ts: an operator states when an old delivery was acknowledged *)

Held(s) == {p \in PartsOf(s) : delivered[p] /\ deliveredAt[p] = Never /\ p \notin partDeleted}

ListHeldDeliveries(s) ==
    /\ Held(s) # {} /\ preview # Held(s)
    /\ preview' = Held(s)
    /\ UNCHANGED <<now, sessionFacts, fileFacts, retentionVars>>

ApplyDeliveryReconciliation(s) ==
    /\ preview # {} /\ preview = Held(s)
    /\ \E acknowledged \in 0 .. now :
        deliveredAt' = [p \in Parts |-> IF p \in preview THEN acknowledged ELSE deliveredAt[p]]
    /\ preview' = {}
    /\ UNCHANGED <<now, state, reason, transcript, job, row, delivered, fileFacts, retentionVars>>

Tick ==
    /\ now < MaxTime
    /\ now' = now + 1
    /\ UNCHANGED <<sessionFacts, partDeleted, audio, preview, fileFacts, fileDeleted, copies, plan, faults>>

Pipeline ==
    \/ \E s \in Sessions :
        \/ DeliverAudio(s) \/ Transcribe(s) \/ PublishReport(s)
        \/ \E k \in JobKinds : JobDies(s, k) \/ JobsRetry(s, k)
        \/ \E m \in Messages(s) : Send(s, m) \/ RowDies(m) \/ OutboxRetry(m)
    \/ \E f \in Files :
        \/ \E k \in InputJobs : Download(f, k) \/ TranscribeIncoming(f, k) \/ AlreadyAnswered(f, k)
        \/ SentAgain(f) \/ RetryCallback(f) \/ Retranscribe(f) \/ SendIncoming(f)
        \/ \E k \in FileJobs : IncomingDies(f, k) \/ IncomingRetried(f, k)

Apply(a) == \E g \in plan[a].groups : ApplyCandidateGroup(a, g) \/ GroupStale(a, g) \/ ApplyInterrupted(a, g)

Next ==
    \/ Tick \/ Pipeline
    \/ \E a \in Appliers : PlanRetention(a) \/ Apply(a)
    \/ \E s \in Sessions : ListHeldDeliveries(s) \/ ApplyDeliveryReconciliation(s)

Spec == Init /\ [][Next]_vars

\* Time passes, and the hourly loop of the daemon plans and applies.
Fairness == WF_vars(Tick) /\ WF_vars(PlanRetention("daemon")) /\ WF_vars(Apply("daemon"))

-----------------------------------------------------------------------------
(* Properties *)

\* Audio that queued work of a session still reads is on disk: the file of an unsent
\* message, every part of an untranscribed session.  A session that was rejected and whose
\* job then died is the exception.
SessionWorkHasAudio ==
    /\ \A s \in Sessions : job[s]["asr"] = "open" /\ ~transcript[s] /\ state[s] # "REJECTED" => PartsOf(s) \subseteq audio
    /\ \A p \in Parts : row[p] \in {"pending", "dead"} => p \in audio

\* No copy of an incoming file is taken from a job that is open or may be revived.  (One
\* that is opened after the deletion, by a button or by sending the file again, finds none.)
FileWorkKeepsAudio ==
    [][\A c \in copies \ copies' : \A k \in FileJobs : fjob[c[1]][k] \notin {"open", "dead"}]_vars

\* No deletion takes the audio from work that is queued or may be revived.
WorkHasItsAudio == []SessionWorkHasAudio /\ FileWorkKeepsAudio

\* "deleted_at is set only after rm succeeded", also when an unlink or the commit fails.
DeletedMeansGone ==
    /\ partDeleted \cap audio = {}
    /\ (fileDeleted \X Copies) \cap copies = {}

\* No part leaves the disk before Telegram has it, except what was rejected as too little
\* speech; the same for the transcript of an incoming file.
LastCopySafe ==
    /\ \A p \in Parts \ audio : row[p] = "sent" \/ reason[p[1]] = "insufficient_speech"
    /\ \A f \in fileDeleted : frow[f] = "sent" \/ fstate[f] = "rejected"

\* A part leaves the disk only after its own window, counted from the last acknowledgement
\* or from the one an operator proved, never from a time nobody recorded.
WindowHeld ==
    [][\A p \in audio \ audio' :
         IF reason[p[1]] = "insufficient_speech" THEN RejectedHours <= now
         ELSE deliveredAt[p] # Never /\ deliveredAt[p] + AudioHours <= now]_vars

\* The facts those rest on.  A part is marked delivered when its row is sent, and stays so.
DeliveredIsSent == \A p \in Parts : delivered[p] => row[p] = "sent"

\* Nothing of a session leaves the disk before its transcript is stored or it is rejected.
UntranscribedHasAudio ==
    \A s \in Sessions : ~transcript[s] /\ state[s] # "REJECTED" => PartsOf(s) \subseteq audio

\* A session without speech never enters the pipeline.
SilentHasNoWork ==
    \A s \in Sessions : reason[s] = "insufficient_speech" =>
        state[s] = "REJECTED" /\ \A k \in JobKinds : job[s][k] = "none"

\* A deleted file has its outcome, so that no later job brings a copy back; a file without
\* one has a job that is open or may be revived.
DeletedFileIsAnswered ==
    /\ \A f \in fileDeleted : fstate[f] \in {"delivered", "rejected"}
    /\ \A f \in Files : fstate[f] \in {"received", "downloaded", "failed"} =>
            \E k \in InputJobs : fjob[f][k] \in {"open", "dead"}
    /\ \A f \in Files : fstate[f] = "delivered" => frow[f] = "sent"

\* A plan that waits was made at an hour that has been.
PlanOfThePast == \A a \in Appliers : plan[a].groups # {} => plan[a].at <= now

\* What has been eligible and stays so is deleted, also after an interrupted deletion.
EligibleIsDeleted ==
    /\ \A p \in Parts : []<>~(SessionAudio(p, now) \/ RejectedSessionAudio(p, now))
    /\ \A f \in Files : []<>~(IncomingAudio(f, now) \/ Quarantine(f, now))

\* Stated by the documentation: audio is deletable only when no job of its session is
\* pending or leased.
NoOpenJobOutlivesAudio ==
    [][\A p \in audio \ audio' : \A k \in JobKinds : job[p[1]][k] # "open"]_vars
=============================================================================
