--------------------------- MODULE RetentionProofs ---------------------------
(***************************************************************************)
(* Proofs about Retention: whatever the pipeline, the drain, the operator  *)
(* and an interrupted deletion do between a plan and its application, no   *)
(* audio that is still needed leaves the disk, for any number of sessions, *)
(* parts, files and hours.                                                 *)
(***************************************************************************)
EXTENDS MCRetention, TLAPS

SessionStates == {"PROCESSING", "DELIVERING", "DONE", "REJECTED", "FAILED"}
Reasons == {"none", "insufficient_speech", "asr_empty"}
JobStates == {"none", "open", "done", "dead"}
RowStates == {"none", "pending", "sent", "dead"}
FileStates == {"received", "downloaded", "transcribed", "delivered", "rejected", "failed"}

LEMMA Numbers ==
  /\ NParts \in Nat /\ MaxTime \in Nat /\ MaxFaults \in Nat /\ AudioHours \in Nat /\ RejectedHours \in Nat
  /\ MaxTime < Never /\ Never \in Nat /\ Hours \subseteq Nat /\ \A h \in Hours : h < Never
  /\ Sessions \cap Files = {}
BY RetentionAssumption DEF RetentionAssumption, Never, Hours

LEMMA MessageFacts ==
  /\ Parts \subseteq AllMessages
  /\ \A s \in Sessions : /\ Transcript(s) \in AllMessages \ Parts /\ Report(s) \in AllMessages \ Parts
                         /\ PartsOf(s) \subseteq Parts /\ Messages(s) \subseteq AllMessages
                         /\ PartsOf(s) \subseteq Messages(s)
  /\ \A p \in Parts : p[1] \in Sessions /\ p \in PartsOf(p[1])
<1>1. 0 \notin 1 .. NParts /\ NParts + 1 \notin 1 .. NParts
  BY Numbers
<1>2. \A s \in Sessions : PartsOf(s) \subseteq Parts /\ PartsOf(s) \subseteq Messages(s) /\ Messages(s) \subseteq AllMessages
  BY DEF PartsOf, Parts, Messages, AllMessages
<1>3. \A p \in Parts : p[1] \in Sessions /\ p \in PartsOf(p[1])
  BY DEF PartsOf, Parts
<1>4. \A s \in Sessions : Transcript(s) \in Messages(s) /\ Report(s) \in Messages(s)
  BY DEF Transcript, Report, Messages
<1>5. \A s \in Sessions : Transcript(s) \notin Parts /\ Report(s) \notin Parts
  BY <1>1 DEF Transcript, Report, Parts
<1> QED
  BY <1>2, <1>3, <1>4, <1>5

\* Archive files and quarantined copies are named apart.
LEMMA NamedApart == (Files \X Copies) \cap Parts = {}
BY Numbers DEF Parts

RetentionAll == RetentionInv /\ SessionWorkHasAudio

-----------------------------------------------------------------------------
(* What a step of the pipeline or the drain leaves of a session. *)

SessionsMove ==
    /\ state' \in [Sessions -> SessionStates] /\ reason' \in [Sessions -> Reasons]
    /\ transcript' \in [Sessions -> BOOLEAN] /\ job' \in [Sessions -> [JobKinds -> JobStates]]
    /\ row' \in [AllMessages -> RowStates] /\ delivered' \in [Parts -> BOOLEAN]
    /\ deliveredAt' \in [Parts -> Hours \cup {Never}]
    /\ \A s \in Sessions :
        /\ transcript[s] => transcript'[s]
        /\ state[s] = "REJECTED" => state'[s] = "REJECTED"
        /\ reason[s] = "insufficient_speech" <=> reason'[s] = "insufficient_speech"
        /\ (\A k \in JobKinds : job[s][k] = "none") => job'[s] = job[s]
    /\ \A m \in AllMessages : row[m] = "sent" => row'[m] = "sent"
    /\ \A p \in Parts :
        /\ delivered'[p] => delivered[p] \/ row'[p] = "sent"
        /\ row'[p] \in {"pending", "dead"} => row[p] \in {"pending", "dead"} \/ p \in audio

Elsewhere == UNCHANGED <<now, preview, fileFacts, retentionVars>>

LEMMA SessionTypes ==
  ASSUME RetentionAll
  PROVE  /\ state \in [Sessions -> SessionStates] /\ reason \in [Sessions -> Reasons]
         /\ transcript \in [Sessions -> BOOLEAN] /\ job \in [Sessions -> [JobKinds -> JobStates]]
         /\ row \in [AllMessages -> RowStates] /\ delivered \in [Parts -> BOOLEAN]
         /\ deliveredAt \in [Parts -> Hours \cup {Never}] /\ now \in Hours
BY DEF RetentionAll, RetentionInv, TypeOK, SessionStates, Reasons, JobStates, RowStates

LEMMA SessionsMoved ==
  ASSUME RetentionAll, SessionsMove, Elsewhere
  PROVE  RetentionAll'
<1>1. UNCHANGED <<now, preview, fstate, fjob, frow, fAt, partDeleted, audio, fileDeleted, copies, plan, faults>>
  BY DEF Elsewhere, fileFacts, retentionVars
<1>2. TypeOK'
  BY <1>1 DEF SessionsMove, RetentionAll, RetentionInv, TypeOK, SessionStates, Reasons, JobStates, RowStates
<1>3. DeletedMeansGone' /\ DeletedFileIsAnswered' /\ PlanOfThePast'
  BY <1>1 DEF RetentionAll, RetentionInv, DeletedMeansGone, DeletedFileIsAnswered, PlanOfThePast
<1>4. LastCopySafe'
  <2>1. \A p \in Parts \ audio : row'[p] = "sent" \/ reason'[p[1]] = "insufficient_speech"
    BY MessageFacts DEF RetentionAll, RetentionInv, LastCopySafe, SessionsMove
  <2> QED
    BY <1>1, <2>1 DEF RetentionAll, RetentionInv, LastCopySafe
<1>5. DeliveredIsSent'
  BY MessageFacts DEF SessionsMove, RetentionAll, RetentionInv, DeliveredIsSent
<1>6. UntranscribedHasAudio'
  BY <1>1 DEF SessionsMove, RetentionAll, RetentionInv, UntranscribedHasAudio
<1>7. SilentHasNoWork'
  BY DEF SessionsMove, RetentionAll, RetentionInv, SilentHasNoWork
<1>8. SessionWorkHasAudio'
  <2>1. \A p \in Parts : row'[p] \in {"pending", "dead"} => p \in audio
    BY DEF SessionsMove, RetentionAll, SessionWorkHasAudio
  <2> QED
    BY <1>1, <1>6, <2>1 DEF RetentionAll, SessionWorkHasAudio, UntranscribedHasAudio
<1> QED
  BY <1>2, <1>3, <1>4, <1>5, <1>6, <1>7, <1>8 DEF RetentionAll, RetentionInv

\* A step that touches the jobs and the state of one session.
LEMMA OneSessionMoves ==
  ASSUME RetentionAll, NEW s \in Sessions, UNCHANGED <<transcript, row, delivered, deliveredAt, reason>>,
         job' \in [Sessions -> [JobKinds -> JobStates]], state' \in [Sessions -> SessionStates],
         \A t \in Sessions : t # s => job'[t] = job[t],
         \E k \in JobKinds : job[s][k] # "none",
         \A t \in Sessions : state[t] = "REJECTED" => state'[t] = "REJECTED"
  PROVE  SessionsMove
BY SessionTypes DEF SessionsMove

LEMMA JobsStep ==
  ASSUME RetentionAll, NEW s \in Sessions, NEW k \in JobKinds, JobDies(s, k) \/ JobsRetry(s, k)
  PROVE  SessionsMove /\ Elsewhere
<1>1. /\ job[s][k] # "none" /\ UNCHANGED <<transcript, row, delivered, deliveredAt, reason>> /\ Elsewhere
  BY DEF JobDies, JobsRetry, Elsewhere
<1>2. PICK j \in JobStates : job' = [job EXCEPT ![s][k] = j]
  BY DEF JobDies, JobsRetry, JobStates
<1>3. job' \in [Sessions -> [JobKinds -> JobStates]] /\ \A t \in Sessions : t # s => job'[t] = job[t]
  BY <1>2, SessionTypes
<1>4. /\ state' \in [Sessions -> SessionStates]
      /\ \A t \in Sessions : state[t] = "REJECTED" => state'[t] = "REJECTED"
  BY SessionTypes DEF JobDies, JobsRetry, SessionStates
<1> QED
  BY <1>1, <1>3, <1>4, OneSessionMoves

\* A step that publishes rows of one session.
LEMMA DeliverStep ==
  ASSUME RetentionAll, NEW s \in Sessions, DeliverAudio(s)
  PROVE  SessionsMove /\ Elsewhere
<1>1. /\ job[s]["deliver_audio"] = "open" /\ PartsOf(s) \ partDeleted \subseteq audio
      /\ row' = [m \in AllMessages |-> IF m \in PartsOf(s) \ partDeleted /\ row[m] = "none" THEN "pending" ELSE row[m]]
      /\ job' = [job EXCEPT ![s]["deliver_audio"] = "done"]
      /\ UNCHANGED <<state, reason, transcript, delivered, deliveredAt>> /\ Elsewhere
  BY DEF DeliverAudio, Elsewhere
<1>2. "deliver_audio" \in JobKinds
  BY DEF JobKinds
<1>3. /\ job' \in [Sessions -> [JobKinds -> JobStates]]
      /\ \A t \in Sessions : (\A k \in JobKinds : job[t][k] = "none") => job'[t] = job[t]
  BY <1>1, <1>2, SessionTypes DEF JobStates
<1>4. /\ row' \in [AllMessages -> RowStates] /\ \A m \in AllMessages : row[m] = "sent" => row'[m] = "sent"
      /\ \A p \in Parts : row'[p] \in {"pending", "dead"} => row[p] \in {"pending", "dead"} \/ p \in audio
  BY <1>1, SessionTypes, MessageFacts DEF RowStates
<1> QED
  BY <1>1, <1>3, <1>4, SessionTypes DEF SessionsMove

LEMMA TranscribeStep ==
  ASSUME RetentionAll, NEW s \in Sessions, Transcribe(s)
  PROVE  SessionsMove /\ Elsewhere
<1>1. job[s]["asr"] = "open" /\ UNCHANGED <<delivered, deliveredAt>> /\ Elsewhere
  BY DEF Transcribe, Elsewhere
<1>2. "asr" \in JobKinds /\ "summarize" \in JobKinds
  BY DEF JobKinds
<1>3. /\ job' \in [Sessions -> [JobKinds -> JobStates]]
      /\ \A t \in Sessions : t # s => job'[t] = job[t]
  BY <1>2, SessionTypes DEF Transcribe, JobStates
<1>4. \A t \in Sessions : (\A k \in JobKinds : job[t][k] = "none") => job'[t] = job[t]
  BY <1>1, <1>2, <1>3
<1>5. reason[s] # "insufficient_speech"
  BY <1>1, <1>2 DEF RetentionAll, RetentionInv, SilentHasNoWork
<1>6. /\ transcript' \in [Sessions -> BOOLEAN] /\ state' \in [Sessions -> SessionStates]
      /\ reason' \in [Sessions -> Reasons]
      /\ \A t \in Sessions : /\ transcript[t] => transcript'[t]
                             /\ state[t] = "REJECTED" => state'[t] = "REJECTED"
                             /\ t # s => reason'[t] = reason[t]
      /\ reason'[s] # "insufficient_speech"
  BY <1>5, SessionTypes DEF Transcribe, SessionStates, Reasons
<1>7. /\ row' \in [AllMessages -> RowStates] /\ \A m \in AllMessages : row[m] = "sent" => row'[m] = "sent"
      /\ \A p \in Parts : row'[p] = row[p]
  BY SessionTypes, MessageFacts DEF Transcribe, RowStates
<1> QED
  BY <1>1, <1>3, <1>4, <1>5, <1>6, <1>7, SessionTypes DEF SessionsMove

LEMMA ReportStep ==
  ASSUME RetentionAll, NEW s \in Sessions, PublishReport(s)
  PROVE  SessionsMove /\ Elsewhere
<1>1. /\ job[s]["summarize"] = "open"
      /\ row' = [row EXCEPT ![Report(s)] = IF @ = "none" THEN "pending" ELSE @]
      /\ UNCHANGED <<state, reason, transcript, delivered, deliveredAt>> /\ Elsewhere
      /\ \E j \in {"done", job[s]["summarize"]} : job' = [job EXCEPT ![s]["summarize"] = j]
  BY DEF PublishReport, Elsewhere
<1>2. "summarize" \in JobKinds
  BY DEF JobKinds
<1>3. /\ job' \in [Sessions -> [JobKinds -> JobStates]]
      /\ \A t \in Sessions : (\A k \in JobKinds : job[t][k] = "none") => job'[t] = job[t]
  BY <1>1, <1>2, SessionTypes DEF JobStates
<1>4. /\ row' \in [AllMessages -> RowStates] /\ \A m \in AllMessages : row[m] = "sent" => row'[m] = "sent"
      /\ \A p \in Parts : row'[p] = row[p]
  BY <1>1, SessionTypes, MessageFacts DEF RowStates
<1> QED
  BY <1>1, <1>3, <1>4, SessionTypes DEF SessionsMove

LEMMA DrainStep ==
  ASSUME RetentionAll, NEW s \in Sessions, NEW m \in Messages(s), Send(s, m) \/ RowDies(m) \/ OutboxRetry(m)
  PROVE  SessionsMove /\ Elsewhere
<1>0. m \in AllMessages /\ now \in Hours
  BY MessageFacts, SessionTypes
<1>1. CASE Send(s, m)
  <2>1. /\ row[m] = "pending" /\ row' = [row EXCEPT ![m] = "sent"]
        /\ delivered' = [p \in Parts |-> delivered[p] \/ p = m]
        /\ deliveredAt' = [p \in Parts |-> IF p = m THEN now ELSE deliveredAt[p]]
        /\ UNCHANGED <<reason, transcript, job>> /\ Elsewhere
        /\ \E st \in {state[s], "DONE"} : state' = [state EXCEPT ![s] = st] /\ (state[s] = "REJECTED" => st = state[s])
    BY <1>1 DEF Send, Elsewhere
  <2>2. /\ row' \in [AllMessages -> RowStates] /\ row'[m] = "sent"
        /\ \A x \in AllMessages : x # m => row'[x] = row[x]
    BY <1>0, <2>1, SessionTypes DEF RowStates
  <2>3. /\ delivered' \in [Parts -> BOOLEAN] /\ deliveredAt' \in [Parts -> Hours \cup {Never}]
        /\ \A p \in Parts : delivered'[p] => delivered[p] \/ p = m
    BY <1>0, <2>1, SessionTypes
  <2>4. state' \in [Sessions -> SessionStates] /\ \A t \in Sessions : state[t] = "REJECTED" => state'[t] = "REJECTED"
    BY <2>1, SessionTypes DEF SessionStates
  <2> QED
    BY <2>1, <2>2, <2>3, <2>4, SessionTypes, MessageFacts DEF SessionsMove
<1>2. CASE RowDies(m) \/ OutboxRetry(m)
  <2>1. /\ row[m] \in {"pending", "dead"} /\ UNCHANGED <<state, reason, transcript, job, delivered, deliveredAt>> /\ Elsewhere
        /\ \E st \in {"pending", "dead"} : row' = [row EXCEPT ![m] = st]
    BY <1>2 DEF RowDies, OutboxRetry, Elsewhere
  <2>2. /\ row' \in [AllMessages -> RowStates] /\ \A x \in AllMessages : x # m => row'[x] = row[x]
    BY <1>0, <2>1, SessionTypes DEF RowStates
  <2> QED
    BY <2>1, <2>2, SessionTypes, MessageFacts DEF SessionsMove
<1> QED
  BY <1>1, <1>2

-----------------------------------------------------------------------------
(* What a step leaves of the incoming files. *)

FilesMove ==
    /\ fstate' \in [Files -> FileStates] /\ fjob' \in [Files -> [FileJobs -> JobStates]]
    /\ frow' \in [Files -> {"none", "pending", "sent"}] /\ fAt' \in [Files -> Hours \cup {Never}]
    /\ copies \subseteq copies' /\ copies' \subseteq Files \X Copies
    /\ \A f \in fileDeleted : \A c \in Copies : <<f, c>> \in copies' => <<f, c>> \in copies
    /\ \A f \in fileDeleted : fstate'[f] \in {"delivered", "rejected"}
    /\ \A f \in Files : fstate'[f] \in {"received", "downloaded", "failed"} =>
            \E k \in InputJobs : fjob'[f][k] \in {"open", "dead"}
    /\ \A f \in Files : fstate'[f] = "delivered" => frow'[f] = "sent"

LEMMA FileTypes ==
  ASSUME RetentionAll
  PROVE  /\ fstate \in [Files -> FileStates] /\ fjob \in [Files -> [FileJobs -> JobStates]]
         /\ frow \in [Files -> {"none", "pending", "sent"}] /\ fAt \in [Files -> Hours \cup {Never}]
         /\ copies \subseteq Files \X Copies /\ fileDeleted \subseteq Files /\ now \in Hours
         /\ \A f \in fileDeleted : fstate[f] \in {"delivered", "rejected"}
         /\ \A f \in Files : fstate[f] \in {"received", "downloaded", "failed"} =>
                \E k \in InputJobs : fjob[f][k] \in {"open", "dead"}
         /\ \A f \in Files : fstate[f] = "delivered" => frow[f] = "sent"
         /\ \A f \in fileDeleted : \A c \in Copies : <<f, c>> \notin copies
BY DEF RetentionAll, RetentionInv, TypeOK, FileStates, JobStates, DeletedFileIsAnswered, DeletedMeansGone

LEMMA JobNames == InputJobs \subseteq FileJobs /\ "resend" \in InputJobs /\ "retry" \in FileJobs \ InputJobs
BY DEF InputJobs, FileJobs

LEMMA FilesMoved ==
  ASSUME RetentionAll, FilesMove, UNCHANGED incomingOnly
  PROVE  RetentionAll'
<1>1. UNCHANGED <<now, state, reason, transcript, job, row, delivered, deliveredAt, preview, partDeleted, audio,
                  fileDeleted, plan, faults>>
  BY DEF incomingOnly, sessionFacts
<1>2. TypeOK'
  BY <1>1 DEF FilesMove, RetentionAll, RetentionInv, TypeOK, FileStates, FileJobs, JobStates
<1>3. /\ DeletedMeansGone' /\ LastCopySafe' /\ DeletedFileIsAnswered'
  BY <1>1, FileTypes DEF RetentionAll, RetentionInv, DeletedMeansGone, LastCopySafe, FilesMove, DeletedFileIsAnswered
<1>4. /\ DeliveredIsSent' /\ UntranscribedHasAudio' /\ SilentHasNoWork' /\ PlanOfThePast'
  BY <1>1 DEF RetentionAll, RetentionInv, DeliveredIsSent, UntranscribedHasAudio, SilentHasNoWork, PlanOfThePast
<1>5. SessionWorkHasAudio'
  BY <1>1 DEF RetentionAll, SessionWorkHasAudio
<1> QED
  BY <1>2, <1>3, <1>4, <1>5 DEF RetentionAll, RetentionInv

\* The jobs of one file change, and its state or not.
LEMMA OneFileMoves ==
  ASSUME RetentionAll, NEW f \in Files, NEW k \in FileJobs, NEW j \in JobStates, NEW st \in FileStates,
         fjob' = [fjob EXCEPT ![f][k] = j], fstate' = [fstate EXCEPT ![f] = st],
         frow' \in [Files -> {"none", "pending", "sent"}], \A e \in Files : e # f => frow'[e] = frow[e],
         fAt' \in [Files -> Hours \cup {Never}], copies' = copies, UNCHANGED incomingOnly,
         st = "delivered" => frow'[f] = "sent",
         f \in fileDeleted => st \in {"delivered", "rejected"},
         st \in {"received", "downloaded", "failed"} => \E i \in InputJobs : fjob'[f][i] \in {"open", "dead"}
  PROVE  FilesMove /\ UNCHANGED incomingOnly
<1>1. /\ fjob' \in [Files -> [FileJobs -> JobStates]] /\ \A e \in Files : e # f => fjob'[e] = fjob[e]
      /\ fstate' \in [Files -> FileStates] /\ fstate'[f] = st /\ \A e \in Files : e # f => fstate'[e] = fstate[e]
  BY FileTypes
<1>2. \A e \in Files : fstate'[e] \in {"received", "downloaded", "failed"} =>
         \E i \in InputJobs : fjob'[e][i] \in {"open", "dead"}
  BY <1>1, FileTypes
<1> QED
  BY <1>1, <1>2, FileTypes DEF FilesMove

\* The handler of an update that brings a file; a deleted one has its outcome.
LEMMA InputStep ==
  ASSUME RetentionAll, NEW f \in Files, NEW k \in InputJobs,
         Download(f, k) \/ TranscribeIncoming(f, k) \/ AlreadyAnswered(f, k)
  PROVE  FilesMove /\ UNCHANGED incomingOnly
<1>0. k \in FileJobs /\ "done" \in JobStates /\ now \in Hours
  BY JobNames, FileTypes DEF JobStates
<1>1. CASE Download(f, k)
  <2>1. /\ fjob[f][k] = "open" /\ fstate[f] \in {"received", "downloaded", "failed"}
        /\ copies' = copies \cup {<<f, "quarantine">>, <<f, "normalized">>}
        /\ fstate' = [fstate EXCEPT ![f] = "downloaded"]
        /\ UNCHANGED incomingOnly /\ UNCHANGED <<fjob, frow, fAt>>
    BY <1>1 DEF Download
  <2>2. f \notin fileDeleted
    BY <2>1, FileTypes
  <2>3. fstate' \in [Files -> FileStates] /\ fstate'[f] = "downloaded" /\ \A e \in Files : e # f => fstate'[e] = fstate[e]
    BY <2>1, FileTypes DEF FileStates
  <2>4. copies \subseteq copies' /\ copies' \subseteq Files \X Copies
    BY <2>1, FileTypes DEF Copies
  <2> QED
    BY <2>1, <2>2, <2>3, <2>4, FileTypes DEF FilesMove
<1>2. CASE TranscribeIncoming(f, k)
  <2>1. /\ fjob' = [fjob EXCEPT ![f][k] = "done"] /\ UNCHANGED incomingOnly /\ copies' = copies /\ f \notin fileDeleted
    BY <1>2, FileTypes DEF TranscribeIncoming
  <2>2. PICK st \in {"transcribed", "rejected"} : fstate' = [fstate EXCEPT ![f] = st]
    BY <1>2 DEF TranscribeIncoming
  <2>3. /\ frow' \in [Files -> {"none", "pending", "sent"}] /\ fAt' \in [Files -> Hours \cup {Never}]
        /\ \A e \in Files : e # f => frow'[e] = frow[e]
    <3>1. \/ frow' = [frow EXCEPT ![f] = "pending"] /\ fAt' = fAt
          \/ frow' = frow /\ fAt' = [fAt EXCEPT ![f] = now]
      BY <1>2 DEF TranscribeIncoming
    <3> QED
      BY <1>0, <3>1, FileTypes
  <2> QED
    BY <1>0, <2>1, <2>2, <2>3, OneFileMoves DEF FileStates
<1>3. CASE AlreadyAnswered(f, k)
  <2>1. /\ fjob' = [fjob EXCEPT ![f][k] = "done"] /\ UNCHANGED incomingOnly /\ UNCHANGED <<copies, fstate, frow, fAt>>
        /\ fstate[f] \in {"transcribed", "delivered", "rejected"}
    BY <1>3 DEF AlreadyAnswered
  <2>2. fstate' = [fstate EXCEPT ![f] = fstate[f]] /\ fstate[f] \in FileStates
    BY <2>1, FileTypes
  <2> QED
    BY <1>0, <2>1, <2>2, FileTypes, OneFileMoves
<1> QED
  BY <1>1, <1>2, <1>3

\* What the user asks for again, by sending the file or by the button.
LEMMA AskedStep ==
  ASSUME RetentionAll, NEW f \in Files, SentAgain(f) \/ RetryCallback(f) \/ Retranscribe(f)
  PROVE  FilesMove /\ UNCHANGED incomingOnly
<1>1. /\ UNCHANGED incomingOnly /\ UNCHANGED <<copies, fstate, frow, fAt>>
      /\ fstate' = [fstate EXCEPT ![f] = fstate[f]] /\ fstate[f] \in FileStates
  BY FileTypes DEF SentAgain, RetryCallback, Retranscribe
<1>2. PICK k \in {"resend", "retry"}, j \in {"open", "done"} :
        fjob' = [fjob EXCEPT ![f][k] = j] /\ (k = "resend" => j = "open")
  BY DEF SentAgain, RetryCallback, Retranscribe
<1>3. k \in FileJobs /\ j \in JobStates
  BY <1>2, JobNames DEF JobStates
<1>4. ASSUME NEW i \in InputJobs, fjob[f][i] \in {"open", "dead"} PROVE fjob'[f][i] \in {"open", "dead"}
  <2>1. i \in FileJobs /\ i # "retry"
    BY JobNames
  <2> QED
    BY <1>2, <1>3, <1>4, <2>1, FileTypes
<1> QED
  BY <1>1, <1>2, <1>3, <1>4, FileTypes, OneFileMoves

\* A dead job, and one an operator revives with or without a language.
LEMMA DeadOrRevived ==
  ASSUME RetentionAll, NEW f \in Files, NEW k \in FileJobs, IncomingDies(f, k) \/ IncomingRetried(f, k)
  PROVE  FilesMove /\ UNCHANGED incomingOnly
<1>1. UNCHANGED incomingOnly /\ UNCHANGED <<copies, frow>> /\ now \in Hours
  BY FileTypes DEF IncomingDies, IncomingRetried
<1>2. PICK j \in {"open", "dead"} : fjob' = [fjob EXCEPT ![f][k] = j]
  BY DEF IncomingDies, IncomingRetried
<1>3. PICK st \in FileStates :
        /\ fstate' = [fstate EXCEPT ![f] = st] /\ fAt' \in [Files -> Hours \cup {Never}]
        /\ st = fstate[f] \/ {st, fstate[f]} \subseteq {"received", "downloaded", "failed"}
  <2>1. CASE UNCHANGED fstate
    <3>1. fstate' = [fstate EXCEPT ![f] = fstate[f]] /\ fstate[f] \in FileStates
      BY <2>1, FileTypes
    <3>2. fAt' \in [Files -> Hours \cup {Never}]
      BY <1>1, FileTypes DEF IncomingDies, IncomingRetried
    <3> QED
      BY <3>1, <3>2
  <2>2. CASE /\ fstate[f] \in {"received", "downloaded", "failed"}
             /\ \E st \in {"failed", "received"} : fstate' = [fstate EXCEPT ![f] = st]
    <3>1. fAt' \in [Files -> Hours \cup {Never}]
      BY <1>1, FileTypes DEF IncomingDies, IncomingRetried
    <3> QED
      BY <2>2, <3>1 DEF FileStates
  <2> QED
    BY <2>1, <2>2 DEF IncomingDies, IncomingRetried
<1>4. ASSUME NEW i \in InputJobs, fjob[f][i] \in {"open", "dead"} PROVE fjob'[f][i] \in {"open", "dead"}
  <2>1. i \in FileJobs
    BY JobNames
  <2> QED
    BY <1>2, <1>4, <2>1, FileTypes
<1>5. st \in {"received", "downloaded", "failed"} => \E i \in InputJobs : fjob'[f][i] \in {"open", "dead"}
  BY <1>3, <1>4, FileTypes
<1> QED
  BY <1>1, <1>2, <1>3, <1>5, FileTypes, OneFileMoves DEF JobStates

LEMMA SentStep ==
  ASSUME RetentionAll, NEW f \in Files, SendIncoming(f)
  PROVE  FilesMove /\ UNCHANGED incomingOnly
<1>1. /\ frow' = [frow EXCEPT ![f] = "sent"] /\ fstate' = [fstate EXCEPT ![f] = "delivered"]
      /\ fAt' = [fAt EXCEPT ![f] = now] /\ UNCHANGED incomingOnly /\ UNCHANGED <<copies, fjob>>
  BY DEF SendIncoming
<1>2. /\ fstate' \in [Files -> FileStates] /\ frow' \in [Files -> {"none", "pending", "sent"}]
      /\ fAt' \in [Files -> Hours \cup {Never}] /\ frow'[f] = "sent" /\ fstate'[f] = "delivered"
      /\ \A e \in Files : e # f => fstate'[e] = fstate[e] /\ frow'[e] = frow[e]
  BY <1>1, FileTypes DEF FileStates
<1> QED
  BY <1>1, <1>2, FileTypes DEF FilesMove

FileActs(f) ==
    \/ \E k \in InputJobs : Download(f, k) \/ TranscribeIncoming(f, k) \/ AlreadyAnswered(f, k)
    \/ SentAgain(f) \/ RetryCallback(f) \/ Retranscribe(f) \/ SendIncoming(f)
    \/ \E k \in FileJobs : IncomingDies(f, k) \/ IncomingRetried(f, k)

LEMMA FileStep ==
  ASSUME RetentionAll, NEW f \in Files, FileActs(f)
  PROVE  FilesMove /\ UNCHANGED incomingOnly
BY InputStep, AskedStep, DeadOrRevived, SentStep DEF FileActs

-----------------------------------------------------------------------------
(* Retention itself *)

\* What the proof of a group says when it is applied.
LEMMA ProvenPart ==
  ASSUME RetentionAll, NEW g \in Groups, NEW clock, OfSession(g), Eligible(g, clock)
  PROVE  /\ g.id \in Parts /\ row[g.id] \notin {"pending", "dead"}
         /\ row[g.id] = "sent" \/ reason[g.id[1]] = "insufficient_speech"
         /\ transcript[g.id[1]] \/ state[g.id[1]] = "REJECTED"
         /\ IF reason[g.id[1]] = "insufficient_speech" THEN Elapsed(0, RejectedHours, clock)
            ELSE Elapsed(deliveredAt[g.id], AudioHours, clock)
<1>1. g.id \in Parts
  BY DEF Groups, OfSession
<1>2. PICK p \in Parts, s \in Sessions : p = g.id /\ s = p[1] /\ p \in PartsOf(s)
  BY <1>1, MessageFacts
<1>3. CASE g.kind = "session_audio"
  <2>1. SessionAudio(p, clock)
    BY <1>2, <1>3 DEF Eligible
  <2>2. row[p] = "sent"
    BY <2>1 DEF SessionAudio, RetentionAll, RetentionInv, DeliveredIsSent
  <2>3. reason[s] # "insufficient_speech"
    BY <1>2, <2>1 DEF SessionAudio, RetentionAll, RetentionInv, SilentHasNoWork
  <2> QED
    BY <1>2, <2>1, <2>2, <2>3 DEF SessionAudio
<1>4. CASE g.kind = "rejected_session_audio"
  <2>1. RejectedSessionAudio(p, clock)
    BY <1>2, <1>4 DEF Eligible
  <2> QED
    BY <1>2, <2>1 DEF RejectedSessionAudio
<1> QED
  BY <1>3, <1>4 DEF OfSession

LEMMA ProvenFile ==
  ASSUME RetentionAll, NEW g \in Groups, NEW clock, ~OfSession(g), Eligible(g, clock)
  PROVE  /\ g.id \in Files /\ NoRecoverableIncomingJob(g.id)
         /\ frow[g.id] = "sent" \/ fstate[g.id] = "rejected"
         /\ fstate[g.id] \in {"delivered", "rejected"}
<1>1. g.id \in Files /\ g.kind \in {"incoming_audio", "quarantine"}
  BY DEF Groups, OfSession
<1>2. CASE g.kind = "incoming_audio"
  BY <1>1, <1>2, FileTypes DEF Eligible, IncomingAudio
<1>3. CASE g.kind = "quarantine"
  BY <1>1, <1>3, FileTypes, JobNames DEF Eligible, Quarantine, NoRecoverableIncomingJob
<1> QED
  BY <1>1, <1>2, <1>3

Planning == UNCHANGED <<now, state, reason, transcript, job, row, delivered, deliveredAt, preview, fstate, fjob, frow, fAt>>

PlanKept ==
    /\ plan' \in [Appliers -> [at : Hours \cup {Never}, groups : SUBSET Groups]]
    /\ \A a \in Appliers : plan'[a].groups # {} => plan'[a].at <= now

\* Any part of the paths of a proven group may go; all of them, before its mark is set.
LEMMA Unlinked ==
  ASSUME RetentionAll, NEW g \in Groups, NEW clock, Eligible(g, clock), Planning, PlanKept, faults' \in 0 .. MaxFaults,
         NEW gone \in SUBSET Paths(g), Unlink(gone),
         \/ UNCHANGED <<partDeleted, fileDeleted>>
         \/ gone = Paths(g) /\ MarkDeleted(g)
  PROVE  RetentionAll'
<1>1. audio' = audio \ gone /\ copies' = copies \ gone
  BY DEF Unlink
<1>2. UNCHANGED <<now, state, reason, transcript, job, row, delivered, deliveredAt, preview, fstate, fjob, frow, fAt>>
  BY DEF Planning
<1>3. /\ audio \subseteq Parts /\ partDeleted \subseteq Parts /\ copies \subseteq Files \X Copies
      /\ fileDeleted \subseteq Files /\ partDeleted \cap audio = {} /\ (fileDeleted \X Copies) \cap copies = {}
  BY DEF RetentionAll, RetentionInv, TypeOK, DeletedMeansGone
<1>4. CASE OfSession(g)
  <2>1. PICK p \in Parts : p = g.id /\ Paths(g) = {p}
    BY <1>4, ProvenPart DEF Paths
  <2>2. copies' = copies /\ fileDeleted' = fileDeleted /\ audio \ {p} \subseteq audio' /\ audio' \subseteq audio
    BY <1>1, <1>3, <1>4, <2>1, NamedApart DEF MarkDeleted
  <2>3. \/ partDeleted' = partDeleted
        \/ partDeleted' = partDeleted \cup {p} /\ audio' = audio \ {p}
    BY <1>1, <1>4, <2>1 DEF MarkDeleted
  <2>4. /\ row[p] \notin {"pending", "dead"} /\ (row[p] = "sent" \/ reason[p[1]] = "insufficient_speech")
        /\ transcript[p[1]] \/ state[p[1]] = "REJECTED"
    BY <1>4, <2>1, ProvenPart
  <2>5. TypeOK'
    BY <1>2, <1>3, <2>2, <2>3 DEF RetentionAll, RetentionInv, TypeOK, PlanKept
  <2>6. DeletedMeansGone'
    BY <1>3, <2>2, <2>3 DEF DeletedMeansGone
  <2>7. LastCopySafe'
    BY <1>2, <2>2, <2>4 DEF RetentionAll, RetentionInv, LastCopySafe
  <2>8. UntranscribedHasAudio'
    <3>1. ASSUME NEW s \in Sessions, ~transcript[s], state[s] # "REJECTED" PROVE PartsOf(s) \subseteq audio'
      <4>1. PartsOf(s) \subseteq audio
        BY <3>1 DEF RetentionAll, RetentionInv, UntranscribedHasAudio
      <4>2. p \notin PartsOf(s)
        <5>1. \A q \in PartsOf(s) : q[1] = s
          BY DEF PartsOf
        <5> QED
          BY <2>4, <3>1, <5>1
      <4> QED
        BY <2>2, <4>1, <4>2
    <3> QED
      BY <1>2, <3>1 DEF UntranscribedHasAudio
  <2>9. /\ DeliveredIsSent' /\ SilentHasNoWork' /\ PlanOfThePast' /\ DeletedFileIsAnswered'
    BY <1>2, <2>2 DEF RetentionAll, RetentionInv, DeliveredIsSent, SilentHasNoWork, PlanOfThePast, PlanKept,
       DeletedFileIsAnswered
  <2>10. SessionWorkHasAudio'
    <3>1. \A q \in Parts : row[q] \in {"pending", "dead"} => q \in audio'
      BY <2>2, <2>4 DEF RetentionAll, SessionWorkHasAudio
    <3> QED
      BY <1>2, <2>2, <2>8, <3>1 DEF RetentionAll, SessionWorkHasAudio, UntranscribedHasAudio
  <2> QED
    BY <2>5, <2>6, <2>7, <2>8, <2>9, <2>10 DEF RetentionAll, RetentionInv
<1>5. CASE ~OfSession(g)
  <2>1. PICK f \in Files : f = g.id /\ Paths(g) = {f} \X Copies
    BY <1>5, ProvenFile DEF Paths
  <2>2. audio' = audio /\ partDeleted' = partDeleted /\ copies' \subseteq copies
    BY <1>1, <1>3, <1>5, <2>1, NamedApart DEF MarkDeleted
  <2>3. \A e \in Files, c \in Copies : e # f /\ <<e, c>> \in copies => <<e, c>> \in copies'
    BY <1>1, <2>1
  <2>4. \/ fileDeleted' = fileDeleted
        \/ fileDeleted' = fileDeleted \cup {f} /\ copies' = copies \ ({f} \X Copies)
    BY <1>1, <1>5, <2>1 DEF MarkDeleted
  <2>5. fstate[f] \in {"delivered", "rejected"} /\ (frow[f] = "sent" \/ fstate[f] = "rejected")
    BY <1>5, <2>1, ProvenFile
  <2>6. TypeOK'
    BY <1>2, <1>3, <2>2, <2>4 DEF RetentionAll, RetentionInv, TypeOK, PlanKept
  <2>7. DeletedMeansGone'
    BY <1>3, <2>2, <2>4 DEF DeletedMeansGone
  <2>8. LastCopySafe'
    BY <1>2, <2>2, <2>4, <2>5 DEF RetentionAll, RetentionInv, LastCopySafe
  <2>9. DeliveredIsSent' /\ SilentHasNoWork' /\ PlanOfThePast' /\ UntranscribedHasAudio'
    BY <1>2, <2>2 DEF RetentionAll, RetentionInv, DeliveredIsSent, SilentHasNoWork, PlanOfThePast, PlanKept,
       UntranscribedHasAudio
  <2>10. DeletedFileIsAnswered'
    BY <1>2, <2>4, <2>5 DEF RetentionAll, RetentionInv, DeletedFileIsAnswered
  <2>11. SessionWorkHasAudio'
    BY <1>2, <2>2 DEF RetentionAll, SessionWorkHasAudio
  <2> QED
    BY <2>6, <2>7, <2>8, <2>9, <2>10, <2>11 DEF RetentionAll, RetentionInv
<1> QED
  BY <1>4, <1>5

\* A step that only changes what is planned, held for the operator or shown to one.
LEMMA OnlyPlans ==
  ASSUME RetentionAll, PlanKept, UNCHANGED <<state, reason, transcript, job, row, delivered, deliveredAt, now, partDeleted,
         audio, preview, fstate, fjob, frow, fAt, fileDeleted, copies, faults>>
  PROVE  RetentionAll'
<1>1. TypeOK'
  BY DEF RetentionAll, RetentionInv, TypeOK, PlanKept
<1>2. PlanOfThePast'
  BY DEF PlanOfThePast, PlanKept
<1> QED
  BY <1>1, <1>2 DEF RetentionAll, RetentionInv, DeletedMeansGone, LastCopySafe, DeliveredIsSent, UntranscribedHasAudio,
     SilentHasNoWork, DeletedFileIsAnswered, SessionWorkHasAudio

LEMMA PlanParts ==
  ASSUME RetentionAll
  PROVE  /\ plan \in [Appliers -> [at : Hours \cup {Never}, groups : SUBSET Groups]]
         /\ \A a \in Appliers : plan[a].groups # {} => plan[a].at <= now
         /\ now \in Hours /\ faults \in 0 .. MaxFaults
BY DEF RetentionAll, RetentionInv, TypeOK, PlanOfThePast

LEMMA NoPlanIs == NoPlan \in [at : Hours \cup {Never}, groups : SUBSET Groups] /\ NoPlan.groups = {}
BY DEF NoPlan

LEMMA Dropped ==
  ASSUME RetentionAll, NEW a \in Appliers, NEW g \in plan[a].groups,
         plan' = Drop(a, g) \/ plan' = [plan EXCEPT ![a] = NoPlan]
  PROVE  PlanKept /\ g \in Groups
<1>1. plan[a] \in [at : Hours \cup {Never}, groups : SUBSET Groups] /\ plan[a].at <= now /\ g \in Groups
  BY PlanParts
<1>2. PICK new \in [at : Hours \cup {Never}, groups : SUBSET Groups] :
        plan' = [plan EXCEPT ![a] = new] /\ (new.groups # {} => new.at <= now)
  <2>1. CASE plan' = [plan EXCEPT ![a] = NoPlan]
    BY <2>1, NoPlanIs
  <2>2. CASE plan' = [plan EXCEPT ![a] = [at |-> plan[a].at, groups |-> plan[a].groups \ {g}]]
    <3>1. [at |-> plan[a].at, groups |-> plan[a].groups \ {g}] \in [at : Hours \cup {Never}, groups : SUBSET Groups]
      BY <1>1
    <3> QED
      BY <1>1, <2>2, <3>1
  <2>3. \/ plan' = [plan EXCEPT ![a] = NoPlan]
        \/ plan' = [plan EXCEPT ![a] = [at |-> plan[a].at, groups |-> plan[a].groups \ {g}]]
    BY DEF Drop
  <2> QED
    BY <2>1, <2>2, <2>3
<1>3. PlanKept
  BY <1>2, PlanParts DEF PlanKept
<1> QED
  BY <1>1, <1>3

LEMMA PlanStep ==
  ASSUME RetentionAll, NEW a \in Appliers, PlanRetention(a)
  PROVE  RetentionAll'
<1>1. PICK groups \in SUBSET Groups : plan' = [plan EXCEPT ![a] = [at |-> now, groups |-> groups]]
  <2> DEFINE planned == {g \in Groups : Planned(g, now)}
  <2>1. plan' = [plan EXCEPT ![a] = [at |-> now, groups |-> planned]]
    BY DEF PlanRetention
  <2>2. planned \in SUBSET Groups
    OBVIOUS
  <2> HIDE DEF planned
  <2> QED
    BY <2>1, <2>2
<1>2. now \in Hours /\ now <= now
  <2>1. now \in Hours
    BY PlanParts
  <2>2. now \in Nat
    BY <2>1, Numbers
  <2> QED
    BY <2>1, <2>2
<1>3. PICK new \in [at : Hours \cup {Never}, groups : SUBSET Groups] :
        plan' = [plan EXCEPT ![a] = new] /\ new.at <= now
  <2>1. [at |-> now, groups |-> groups] \in [at : Hours \cup {Never}, groups : SUBSET Groups]
    BY <1>2
  <2>2. [at |-> now, groups |-> groups].at = now
    OBVIOUS
  <2> QED
    BY <1>1, <1>2, <2>1, <2>2
<1>4. PlanKept
  BY <1>3, PlanParts DEF PlanKept
<1> QED
  BY <1>4, OnlyPlans DEF PlanRetention, sessionFacts, fileFacts

LEMMA ApplyStep ==
  ASSUME RetentionAll, NEW a \in Appliers, Apply(a)
  PROVE  RetentionAll'
<1>1. PICK g \in plan[a].groups : ApplyCandidateGroup(a, g) \/ GroupStale(a, g) \/ ApplyInterrupted(a, g)
  BY DEF Apply
<1>2. PlanKept /\ g \in Groups
  BY <1>1, Dropped DEF ApplyCandidateGroup, GroupStale, ApplyInterrupted
<1>3. CASE GroupStale(a, g)
  BY <1>2, <1>3, OnlyPlans DEF GroupStale, sessionFacts, fileFacts
<1>4. CASE ApplyCandidateGroup(a, g)
  <2>1. /\ Eligible(g, plan[a].at) /\ Unlink(Paths(g)) /\ MarkDeleted(g) /\ Planning /\ UNCHANGED faults
    BY <1>4 DEF ApplyCandidateGroup, GroupStillEligible, Planning, sessionFacts, fileFacts
  <2>2. faults' \in 0 .. MaxFaults /\ Paths(g) \in SUBSET Paths(g)
    BY <2>1, PlanParts
  <2> QED
    BY <1>2, <2>1, <2>2, Unlinked
<1>5. CASE ApplyInterrupted(a, g)
  <2>1. /\ Eligible(g, plan[a].at) /\ UNCHANGED <<partDeleted, fileDeleted>> /\ Planning
        /\ faults < MaxFaults /\ faults' = faults + 1
    BY <1>5 DEF ApplyInterrupted, GroupStillEligible, Planning, Unmarked, sessionFacts, fileFacts
  <2>2. faults' \in 0 .. MaxFaults
    BY <2>1, PlanParts, Numbers
  <2>3. PICK gone \in SUBSET Paths(g) : Unlink(gone)
    BY <1>5 DEF ApplyInterrupted
  <2> QED
    BY <1>2, <2>1, <2>2, <2>3, Unlinked
<1> QED
  BY <1>1, <1>3, <1>4, <1>5

LEMMA ReconcileStep ==
  ASSUME RetentionAll, NEW s \in Sessions, ListHeldDeliveries(s) \/ ApplyDeliveryReconciliation(s)
  PROVE  RetentionAll'
<1>1. /\ UNCHANGED <<now, state, reason, transcript, job, row, delivered>> /\ UNCHANGED <<fileFacts, retentionVars>>
      /\ preview' \subseteq Parts
  BY MessageFacts DEF ListHeldDeliveries, ApplyDeliveryReconciliation, sessionFacts, Held
<1>2. deliveredAt' \in [Parts -> Hours \cup {Never}]
  <2>1. CASE ListHeldDeliveries(s)
    BY <2>1, SessionTypes DEF ListHeldDeliveries, sessionFacts
  <2>2. CASE ApplyDeliveryReconciliation(s)
    <3>1. PICK h \in 0 .. now : deliveredAt' = [p \in Parts |-> IF p \in preview THEN h ELSE deliveredAt[p]]
      BY <2>2 DEF ApplyDeliveryReconciliation
    <3>2. h \in Hours
      BY <3>1, SessionTypes, Numbers DEF Hours
    <3> QED
      BY <3>1, <3>2, SessionTypes
  <2> QED
    BY <2>1, <2>2
<1>3. TypeOK'
  BY <1>1, <1>2 DEF fileFacts, retentionVars, RetentionAll, RetentionInv, TypeOK
<1> QED
  BY <1>1, <1>3 DEF fileFacts, retentionVars, RetentionAll, RetentionInv, DeletedMeansGone, LastCopySafe, DeliveredIsSent,
     UntranscribedHasAudio, SilentHasNoWork, DeletedFileIsAnswered, SessionWorkHasAudio, PlanOfThePast

LEMMA TickStep ==
  ASSUME RetentionAll, Tick
  PROVE  RetentionAll'
<1>1. /\ UNCHANGED <<state, reason, transcript, job, row, delivered, deliveredAt, partDeleted, audio, preview,
                     fstate, fjob, frow, fAt, fileDeleted, copies, plan, faults>>
      /\ now' = now + 1 /\ now < MaxTime
  BY DEF Tick, sessionFacts, fileFacts
<1>2. now \in Nat /\ now' \in Hours
  BY <1>1, PlanParts, Numbers DEF Hours
<1>3. PlanOfThePast'
  <2>1. ASSUME NEW a \in Appliers, plan[a].groups # {} PROVE plan[a].at <= now + 1
    <3>1. plan[a].at \in Nat /\ plan[a].at <= now
      BY <2>1, PlanParts, Numbers
    <3> QED
      BY <1>2, <3>1
  <2> QED
    BY <1>1, <2>1 DEF PlanOfThePast
<1>4. TypeOK'
  BY <1>1, <1>2 DEF RetentionAll, RetentionInv, TypeOK
<1> QED
  BY <1>1, <1>3, <1>4 DEF RetentionAll, RetentionInv, DeletedMeansGone, LastCopySafe, DeliveredIsSent,
     UntranscribedHasAudio, SilentHasNoWork, DeletedFileIsAnswered, SessionWorkHasAudio

-----------------------------------------------------------------------------
LEMMA RetentionInit ==
  ASSUME Init
  PROVE  RetentionAll
<1>1. PICK origin \in [Sessions -> {"new", "silent", "legacy", "gone"}] :
        /\ state = [s \in Sessions |-> CASE origin[s] = "new" -> "PROCESSING"
                                         [] origin[s] = "silent" -> "REJECTED"
                                         [] origin[s] \in {"legacy", "gone"} -> "DONE"]
        /\ reason = [s \in Sessions |-> IF origin[s] = "silent" THEN "insufficient_speech" ELSE "none"]
        /\ transcript = [s \in Sessions |-> origin[s] \in {"legacy", "gone"}]
        /\ job = [s \in Sessions |-> [k \in JobKinds |->
                    CASE origin[s] = "new" -> IF k = "summarize" THEN "none" ELSE "open"
                      [] origin[s] = "silent" -> "none"
                      [] origin[s] \in {"legacy", "gone"} -> "done"]]
        /\ row = [m \in AllMessages |-> IF origin[m[1]] \in {"legacy", "gone"} THEN "sent" ELSE "none"]
        /\ delivered = [p \in Parts |-> origin[p[1]] \in {"legacy", "gone"}]
        /\ deliveredAt = [p \in Parts |-> IF origin[p[1]] = "gone" THEN 0 ELSE Never]
        /\ partDeleted = {p \in Parts : origin[p[1]] = "gone"}
  BY DEF Init
<1>2. /\ now = 0 /\ audio = Parts \ partDeleted /\ preview = {}
      /\ copies = {} /\ plan = [a \in Appliers |-> NoPlan] /\ faults = 0
  BY DEF Init
<1>14. PICK since \in [Files -> {"received", "delivered", "rejected"}] :
        /\ fstate = since
        /\ fjob = [f \in Files |-> [k \in FileJobs |->
                     IF k = "incoming" THEN IF since[f] = "received" THEN "open" ELSE "done" ELSE "none"]]
        /\ frow = [f \in Files |-> IF since[f] = "delivered" THEN "sent" ELSE "none"]
        /\ fAt = [f \in Files |-> IF since[f] = "received" THEN Never ELSE 0]
        /\ fileDeleted = {f \in Files : since[f] # "received"}
  BY DEF Init
<1>3. \A s \in Sessions : origin[s] \in {"new", "silent", "legacy", "gone"}
  BY <1>1
<1>4. /\ state \in [Sessions -> SessionStates] /\ reason \in [Sessions -> Reasons] /\ transcript \in [Sessions -> BOOLEAN]
  BY <1>1, <1>3 DEF SessionStates, Reasons
<1>5. job \in [Sessions -> [JobKinds -> JobStates]]
  BY <1>1, <1>3 DEF JobStates
<1>6. row \in [AllMessages -> RowStates] /\ delivered \in [Parts -> BOOLEAN]
  BY <1>1 DEF RowStates
<1>7. 0 \in Hours /\ faults \in 0 .. MaxFaults
  BY <1>2, Numbers DEF Hours
<1>15. /\ fstate \in [Files -> FileStates] /\ fjob \in [Files -> [FileJobs -> JobStates]]
       /\ frow \in [Files -> {"none", "pending", "sent"}]
  BY <1>14 DEF FileStates, JobStates
<1>16. /\ fAt \in [Files -> Hours \cup {Never}] /\ fileDeleted \subseteq Files
       /\ deliveredAt \in [Parts -> Hours \cup {Never}] /\ partDeleted \subseteq Parts
  BY <1>1, <1>7, <1>14
<1>8. TypeOK
  BY <1>2, <1>4, <1>5, <1>6, <1>7, <1>15, <1>16, NoPlanIs DEF TypeOK, SessionStates, Reasons, JobStates, RowStates, FileStates
<1>9. DeliveredIsSent
  BY <1>1, MessageFacts DEF DeliveredIsSent
<1>10. UntranscribedHasAudio /\ DeletedMeansGone /\ LastCopySafe
  <2>1. \A p \in Parts : p \in partDeleted => row[p] = "sent" /\ transcript[p[1]]
    BY <1>1, MessageFacts
  <2>2. UntranscribedHasAudio
    <3>1. ASSUME NEW s \in Sessions, ~transcript[s], NEW p \in PartsOf(s) PROVE p \in audio
      <4>1. p \in Parts /\ p[1] = s
        BY <3>1, MessageFacts DEF PartsOf
      <4> QED
        BY <1>2, <2>1, <3>1, <4>1
    <3> QED
      BY <3>1 DEF UntranscribedHasAudio
  <2>3. DeletedMeansGone
    BY <1>2 DEF DeletedMeansGone
  <2> QED
    BY <1>2, <1>14, <2>1, <2>2, <2>3 DEF LastCopySafe
<1>17. DeletedFileIsAnswered
  <2>1. \A f \in Files : fstate[f] \in {"received", "downloaded", "failed"} => fjob[f]["incoming"] = "open"
    BY <1>14 DEF FileJobs, InputJobs
  <2>2. "incoming" \in InputJobs
    BY DEF InputJobs
  <2>3. \A f \in fileDeleted : fstate[f] \in {"delivered", "rejected"}
    BY <1>14
  <2>4. \A f \in Files : fstate[f] = "delivered" => frow[f] = "sent"
    BY <1>14
  <2> QED
    BY <2>1, <2>2, <2>3, <2>4 DEF DeletedFileIsAnswered
<1>11. SilentHasNoWork
  BY <1>1 DEF SilentHasNoWork
<1>12. PlanOfThePast
  BY <1>2, NoPlanIs DEF PlanOfThePast
<1>13. SessionWorkHasAudio
  BY <1>1, <1>10, MessageFacts DEF SessionWorkHasAudio, UntranscribedHasAudio
<1> QED
  BY <1>8, <1>9, <1>10, <1>11, <1>12, <1>13, <1>17 DEF RetentionAll, RetentionInv

LEMMA RetentionStep ==
  ASSUME RetentionAll, Next
  PROVE  RetentionAll'
<1>1. CASE Tick
  BY <1>1, TickStep
<1>2. ASSUME NEW s \in Sessions,
             \/ DeliverAudio(s) \/ Transcribe(s) \/ PublishReport(s)
             \/ \E k \in JobKinds : JobDies(s, k) \/ JobsRetry(s, k)
             \/ \E m \in Messages(s) : Send(s, m) \/ RowDies(m) \/ OutboxRetry(m)
      PROVE  RetentionAll'
  BY <1>2, DeliverStep, TranscribeStep, ReportStep, JobsStep, DrainStep, SessionsMoved
<1>3. ASSUME NEW f \in Files, FileActs(f)
      PROVE  RetentionAll'
  BY <1>3, FileStep, FilesMoved
<1>4. ASSUME NEW a \in Appliers, PlanRetention(a) \/ Apply(a) PROVE RetentionAll'
  BY <1>4, PlanStep, ApplyStep
<1>5. ASSUME NEW s \in Sessions, ListHeldDeliveries(s) \/ ApplyDeliveryReconciliation(s) PROVE RetentionAll'
  BY <1>5, ReconcileStep
<1> QED
  BY <1>1, <1>2, <1>3, <1>4, <1>5 DEF Next, Pipeline, FileActs

LEMMA RetentionInductive == RetentionAll /\ [Next]_vars => RetentionAll'
<1>1. ASSUME RetentionAll, UNCHANGED vars PROVE RetentionAll'
  <2>1. TypeOK'
    BY <1>1 DEF vars, sessionFacts, fileFacts, RetentionAll, RetentionInv, TypeOK
  <2> QED
    BY <1>1, <2>1 DEF vars, sessionFacts, fileFacts, RetentionAll, RetentionInv, DeletedMeansGone, LastCopySafe,
       DeliveredIsSent, UntranscribedHasAudio, SilentHasNoWork, DeletedFileIsAnswered,
       SessionWorkHasAudio, PlanOfThePast
<1> QED
  BY <1>1, RetentionStep

\* What is marked deleted is gone, and no part leaves the disk before Telegram has it
\* unless it was rejected as silence (planRetention, applyCandidateGroup): whatever
\* happens between the plan and the proof under the write lock.
THEOREM RetentionInvariant == Spec => []RetentionInv
<1>1. RetentionAll => RetentionInv
  BY DEF RetentionAll
<1> QED
  BY <1>1, RetentionInit, RetentionInductive, PTL DEF Spec

\* Only the application of a plan takes a part from the disk.
LEMMA OnlyRetentionDeletes ==
  ASSUME RetentionAll, Next, NEW p \in audio \ audio'
  PROVE  \E a \in Appliers : Apply(a)
<1>1. CASE Tick \/ \E a \in Appliers : PlanRetention(a)
  BY <1>1 DEF Tick, PlanRetention
<1>2. CASE Pipeline
  BY <1>2, DeliverStep, TranscribeStep, ReportStep, JobsStep, DrainStep, FileStep
     DEF Pipeline, FileActs, Elsewhere, retentionVars, incomingOnly
<1>3. CASE \E s \in Sessions : ListHeldDeliveries(s) \/ ApplyDeliveryReconciliation(s)
  BY <1>3 DEF ListHeldDeliveries, ApplyDeliveryReconciliation, retentionVars
<1> QED
  BY <1>1, <1>2, <1>3 DEF Next

\* A copy goes with a group of its file, proved when it is applied.
LEMMA TakenFromNoWork ==
  ASSUME RetentionAll, Next, NEW c \in copies \ copies'
  PROVE  \A k \in FileJobs : fjob[c[1]][k] \notin {"open", "dead"}
<1>1. PICK a \in Appliers : Apply(a)
  <2>1. CASE Tick \/ \E a \in Appliers : PlanRetention(a)
    BY <2>1 DEF Tick, PlanRetention
  <2>2. CASE \E s \in Sessions : ListHeldDeliveries(s) \/ ApplyDeliveryReconciliation(s)
    BY <2>2 DEF ListHeldDeliveries, ApplyDeliveryReconciliation, retentionVars
  <2>3. CASE Pipeline
    <3>1. ASSUME NEW f \in Files, FileActs(f) PROVE copies \subseteq copies'
      BY <3>1, FileStep DEF FilesMove
    <3> QED
      BY <2>3, <3>1, DeliverStep, TranscribeStep, ReportStep, JobsStep, DrainStep
         DEF Pipeline, FileActs, Elsewhere, retentionVars
  <2> QED
    BY <2>1, <2>2, <2>3 DEF Next
<1>2. PICK g \in plan[a].groups : ApplyCandidateGroup(a, g) \/ GroupStale(a, g) \/ ApplyInterrupted(a, g)
  BY <1>1 DEF Apply
<1>3. g \in Groups /\ Eligible(g, plan[a].at) /\ \E gone \in SUBSET Paths(g) : Unlink(gone)
  <2>1. ~GroupStale(a, g) /\ g \in Groups
    BY <1>2, PlanParts DEF GroupStale
  <2> QED
    BY <1>2, <2>1 DEF ApplyCandidateGroup, ApplyInterrupted, GroupStillEligible
<1>4. c \in Paths(g) /\ c \in Files \X Copies
  BY <1>3, FileTypes DEF Unlink
<1>5. ~OfSession(g)
  <2>1. CASE OfSession(g)
    BY <1>3, <1>4, <2>1, ProvenPart, NamedApart DEF Paths
  <2> QED
    BY <2>1
<1>6. c[1] = g.id
  BY <1>4, <1>5 DEF Paths
<1> QED
  BY <1>3, <1>5, <1>6, ProvenFile DEF NoRecoverableIncomingJob

\* No deletion takes the audio from work that is queued or may be revived, of a session or
\* of an incoming file: not from an unsent message, an untranscribed session or a
\* re-recognition (groupStillEligible, under the write lock).
THEOREM WorkKeepsItsAudio == Spec => WorkHasItsAudio
<1>1. RetentionAll => SessionWorkHasAudio
  BY DEF RetentionAll
<1>2. RetentionAll /\ [Next]_vars =>
        [\A c \in copies \ copies' : \A k \in FileJobs : fjob[c[1]][k] \notin {"open", "dead"}]_vars
  <2>1. ASSUME RetentionAll, Next
        PROVE  \A c \in copies \ copies' : \A k \in FileJobs : fjob[c[1]][k] \notin {"open", "dead"}
    <3>1. ASSUME NEW c \in copies \ copies' PROVE \A k \in FileJobs : fjob[c[1]][k] \notin {"open", "dead"}
      BY <2>1, <3>1, TakenFromNoWork
    <3> QED
      BY <3>1
  <2> QED
    BY <2>1
<1> QED
  BY <1>1, <1>2, RetentionInit, RetentionInductive, PTL DEF Spec, WorkHasItsAudio, FileWorkKeepsAudio

LEMMA DeletedAfterWindow ==
  ASSUME RetentionAll, Next, NEW p \in audio \ audio'
  PROVE  IF reason[p[1]] = "insufficient_speech" THEN RejectedHours <= now
         ELSE deliveredAt[p] # Never /\ deliveredAt[p] + AudioHours <= now
<1>1. PICK a \in Appliers, g \in Groups :
        g \in plan[a].groups /\ Eligible(g, plan[a].at) /\ \E gone \in SUBSET Paths(g) : Unlink(gone)
  <2>1. PICK a \in Appliers : Apply(a)
    BY OnlyRetentionDeletes
  <2>2. PICK g \in plan[a].groups : ApplyCandidateGroup(a, g) \/ GroupStale(a, g) \/ ApplyInterrupted(a, g)
    BY <2>1 DEF Apply
  <2>3. ~GroupStale(a, g) /\ g \in Groups
    BY PlanParts DEF GroupStale
  <2> QED
    BY <2>2, <2>3 DEF ApplyCandidateGroup, ApplyInterrupted, GroupStillEligible
<1>2. p \in Parts /\ p \in Paths(g)
  BY <1>1 DEF RetentionAll, RetentionInv, TypeOK, Unlink
<1>3. OfSession(g) /\ p = g.id
  <2>1. CASE ~OfSession(g)
    BY <1>1, <1>2, <2>1, NamedApart, ProvenFile DEF Paths
  <2> QED
    BY <1>2, <2>1 DEF Paths
<1>4. IF reason[p[1]] = "insufficient_speech" THEN Elapsed(0, RejectedHours, plan[a].at)
      ELSE Elapsed(deliveredAt[p], AudioHours, plan[a].at)
  BY <1>1, <1>3, ProvenPart
<1>5. plan[a].at <= now /\ now \in Nat /\ plan[a].at \in Nat
  BY <1>1, PlanParts, Numbers
<1>6. deliveredAt[p] \in Nat
  BY <1>2, SessionTypes, Numbers
<1> QED
  BY <1>4, <1>5, <1>6, Numbers DEF Elapsed

\* A part leaves the disk only after its own window, counted from the acknowledgement
\* that was recorded or proved (groupStillEligible, with the clock of the plan).
THEOREM DeletionAfterWindow == Spec => WindowHeld
<1>1. RetentionAll /\ [Next]_vars =>
        [\A p \in audio \ audio' :
           IF reason[p[1]] = "insufficient_speech" THEN RejectedHours <= now
           ELSE deliveredAt[p] # Never /\ deliveredAt[p] + AudioHours <= now]_vars
  BY DeletedAfterWindow
<1> QED
  BY <1>1, RetentionInit, RetentionInductive, PTL DEF Spec, WindowHeld
=============================================================================
