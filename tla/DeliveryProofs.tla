--------------------------- MODULE DeliveryProofs ---------------------------
(***************************************************************************)
(* Proofs about what follows a recording: the session until it is DONE     *)
(* (SessionDelivery) and the deliver_audio job (AudioDelivery), for any    *)
(* number of parts, pieces, claims, crashes and retries.                   *)
(***************************************************************************)
EXTENDS MCDelivery, TLAPS

-----------------------------------------------------------------------------
(* The session *)

JobStates == {"absent", "pending", "working", "settling", "done", "backoff", "dying", "revived", "dead"}
RowStates == {"absent", "pending", "sent", "dead", "failed"}

LEMMA SessionNames ==
  /\ Audio \subseteq Rows /\ Reports \subseteq Rows /\ Notices \subseteq Rows /\ "transcript" \in Rows
  /\ Jobs = {"deliver_audio", "asr", "deliver_transcript", "summarize", "deliver_report"}
  /\ \A p \in Audio : p # "transcript"
  /\ \A r \in Reports : r # "transcript"
  /\ {"failed", "finalized", "rejected"} \subseteq Rows
BY SessionAssumption DEF SessionAssumption, Rows, Reports, Notices, Jobs

LEMMA BoundFacts == MaxThrows \in Nat /\ MaxDeaths \in Nat /\ MaxRetries \in Nat
BY SessionAssumption DEF SessionAssumption

\* Enqueueing adds jobs and forgets none; publishing adds rows and touches none.
LEMMA QueuedFacts ==
  ASSUME NEW jobs \in [Jobs -> JobStates], NEW K
  PROVE  /\ Queued(jobs, K) \in [Jobs -> JobStates]
         /\ \A k \in Jobs : /\ k \in K => Queued(jobs, K)[k] # "absent"
                            /\ jobs[k] # "absent" => Queued(jobs, K)[k] = jobs[k]
                            /\ k \notin K => Queued(jobs, K)[k] = jobs[k]
BY DEF Queued, JobStates

LEMMA PublishedFacts ==
  ASSUME NEW rs \in [Rows -> RowStates], NEW R
  PROVE  /\ Published(rs, R) \in [Rows -> RowStates]
         /\ \A r \in Rows : /\ rs[r] # "absent" => Published(rs, R)[r] = rs[r]
                            /\ r \notin R => Published(rs, R)[r] = rs[r]
BY DEF Published, RowStates

LEMMA ThrownFacts ==
  ASSUME NEW jobs \in [Jobs -> JobStates], NEW k \in Jobs, NEW after \in Thrown(jobs, k)
  PROVE  /\ after \in [Jobs -> JobStates]
         /\ \A j \in Jobs : j # k => after[j] = jobs[j]
         /\ after[k] \in {"backoff", "dying", "dead"}
BY DEF Thrown, JobStates

SessionAll == TypeOK /\ DoneHasEachKind /\ HandOver /\ TranscriptFirst

\* What a step does to the facts, the jobs and the rows.
FactsKept ==
    /\ transcript => transcript'
    /\ transcript' => transcript \/ (job'["deliver_transcript"] # "absent" /\ job'["summarize"] # "absent")
    /\ summary' => summary \/ job'["deliver_report"] # "absent"

JobsKept ==
    /\ \A k \in Jobs : job[k] # "absent" => job'[k] # "absent"
    /\ job'["deliver_transcript"] # "absent" => job["deliver_transcript"] # "absent" \/ transcript'

RowsKept ==
    /\ \A r \in Rows : row[r] = "sent" => row'[r] = "sent"
    /\ row'["transcript"] # "absent" => row["transcript"] # "absent" \/ job["deliver_transcript"] # "absent"

\* ... and to the session.
Settled ==
    /\ \A r \in Rows : row'[r] # "pending"
    /\ \A K \in {Audio, {"transcript"}, Reports} : AllDelivered(row', K)

SessionKept ==
    /\ session' = "DONE" => session = "DONE" \/ Settled
    /\ session = "DONE" => session' = "DONE"
    /\ session = "FAILED" /\ session' \in {"PROCESSING", "DONE"} => row'["failed"] # "pending"

Kept == TypeOK' /\ FactsKept /\ JobsKept /\ RowsKept /\ SessionKept

LEMMA SettledDone ==
  ASSUME Settled
  PROVE  /\ \E p \in Audio : row'[p] = "sent"
         /\ row'["transcript"] = "sent"
         /\ \E r \in Reports : row'[r] = "sent"
<1>1. AllDelivered(row', Audio) /\ AllDelivered(row', {"transcript"}) /\ AllDelivered(row', Reports)
  BY DEF Settled
<1> QED
  BY <1>1 DEF AllDelivered

LEMMA KeptHolds ==
  ASSUME SessionAll, Kept
  PROVE  SessionAll'
<1>1. HandOver'
  BY DEF SessionAll, Kept, FactsKept, JobsKept, HandOver, Jobs
<1>2. TranscriptFirst'
  BY DEF SessionAll, Kept, FactsKept, JobsKept, RowsKept, TranscriptFirst, Jobs
<1>3. DoneHasEachKind'
  <2>1. CASE session = "DONE"
    BY <2>1, SessionNames DEF SessionAll, Kept, RowsKept, DoneHasEachKind
  <2>2. CASE session' = "DONE" /\ session # "DONE"
    BY <2>2, SettledDone DEF Kept, SessionKept, DoneHasEachKind
  <2> QED
    BY <2>1, <2>2 DEF DoneHasEachKind
<1> QED
  BY <1>1, <1>2, <1>3 DEF SessionAll, Kept

LEMMA SessionParts ==
  ASSUME SessionAll
  PROVE  /\ job \in [Jobs -> JobStates] /\ row \in [Rows -> RowStates]
         /\ transcript \in BOOLEAN /\ summary \in BOOLEAN
         /\ session \in {"PROCESSING", "DELIVERING", "DONE", "REJECTED", "FAILED"}
         /\ throws \in 0 .. MaxThrows /\ deaths \in 0 .. MaxDeaths /\ retries \in 0 .. MaxRetries
         /\ session = "DONE" => row["transcript"] = "sent" /\ transcript
BY DEF SessionAll, TypeOK, JobStates, RowStates, DoneHasEachKind, TranscriptFirst

\* The queue: one job moves.
LEMMA QueueKept ==
  ASSUME SessionAll, NEW k \in Jobs,
         Take(k) \/ BackoffElapses(k) \/ Complete(k) \/ Interrupt(k) \/ Throw(k)
  PROVE  Kept
<1>1. /\ job' \in [Jobs -> JobStates] /\ job[k] # "absent" /\ job'[k] # "absent"
      /\ \A j \in Jobs : j # k => job'[j] = job[j]
  <2>1. CASE Throw(k)
    BY <2>1, SessionParts, ThrownFacts DEF Throw
  <2>2. CASE Take(k) \/ BackoffElapses(k) \/ Complete(k) \/ Interrupt(k)
    BY <2>2, SessionParts DEF Take, BackoffElapses, Complete, Interrupt, JobStates
  <2> QED
    BY <2>1, <2>2
<1>2. /\ UNCHANGED <<session, transcript, summary, row, retries>>
      /\ throws' \in 0 .. MaxThrows /\ deaths' \in 0 .. MaxDeaths
  BY SessionParts, BoundFacts DEF Take, BackoffElapses, Complete, Interrupt, Throw, bounds
<1>3. TypeOK'
  BY <1>1, <1>2, SessionParts DEF TypeOK, JobStates, RowStates
<1>4. FactsKept /\ JobsKept /\ RowsKept
  BY <1>1, <1>2, SessionNames DEF FactsKept, JobsKept, RowsKept
<1>5. SessionKept
  BY <1>1, <1>2, SessionParts, SessionNames DEF SessionKept
<1> QED
  BY <1>3, <1>4, <1>5 DEF Kept

LEMMA ExhaustedKept ==
  ASSUME SessionAll, MarkExhaustedAsrSession
  PROVE  Kept
<1>1. /\ job' = Marked /\ job["asr"] \in {"dying", "revived"}
      /\ UNCHANGED <<transcript, summary, throws, deaths, retries>>
  BY DEF MarkExhaustedAsrSession, bounds
<1>2. job' \in [Jobs -> JobStates] /\ job'["asr"] # "absent" /\ \A j \in Jobs : j # "asr" => job'[j] = job[j]
  BY <1>1, SessionParts, SessionNames DEF Marked, JobStates
<1>3. /\ row' \in [Rows -> RowStates] /\ row'["transcript"] = row["transcript"]
      /\ \A r \in Rows : row[r] # "absent" => row'[r] = row[r]
      /\ session' \in {session, "FAILED"} /\ (session = "DONE" => session' = "DONE")
  <2>1. CASE UNCHANGED <<session, row>>
    BY <2>1, SessionParts
  <2>2. CASE session' = "FAILED" /\ row' = Published(row, {"failed"}) /\ session # "DONE"
    BY <2>2, SessionParts, SessionNames, PublishedFacts
  <2> QED
    BY <2>1, <2>2 DEF MarkExhaustedAsrSession
<1>4. TypeOK'
  BY <1>1, <1>2, <1>3, SessionParts DEF TypeOK, JobStates, RowStates
<1>5. FactsKept /\ JobsKept /\ RowsKept
  BY <1>1, <1>2, <1>3, SessionNames DEF FactsKept, JobsKept, RowsKept
<1>6. SessionKept
  BY <1>1, <1>2, <1>3, SessionParts DEF SessionKept
<1> QED
  BY <1>4, <1>5, <1>6 DEF Kept

LEMMA RetriedKept ==
  ASSUME SessionAll, NEW k \in Jobs, JobsRetry(k)
  PROVE  Kept
<1>1. /\ job' = [job EXCEPT ![k] = IF @ = "dying" THEN "revived" ELSE "pending"]
      /\ job[k] \in {"dying", "dead"}
      /\ UNCHANGED <<transcript, summary, throws, deaths>> /\ retries' \in 0 .. MaxRetries
  BY SessionParts, BoundFacts DEF JobsRetry
<1>2. job' \in [Jobs -> JobStates] /\ job'[k] # "absent" /\ \A j \in Jobs : j # k => job'[j] = job[j]
  BY <1>1, SessionParts DEF JobStates
<1>3. /\ row' \in [Rows -> RowStates] /\ \A r \in Rows : r # "failed" => row'[r] = row[r]
      /\ row["failed"] = "sent" => row'["failed"] = "sent"
      /\ k = "asr" => row'["failed"] # "pending"
  <2>1. CASE k = "asr"
    BY <2>1, SessionParts, SessionNames DEF JobsRetry, RetireNotice, RowStates
  <2>2. CASE k # "asr"
    BY <2>2, SessionParts DEF JobsRetry
  <2> QED
    BY <2>1, <2>2
<1>4. \/ k = "asr" /\ session' = (IF session = "FAILED" THEN "PROCESSING" ELSE session)
      \/ k # "asr" /\ session' = session
  BY DEF JobsRetry
<1>5. TypeOK'
  BY <1>1, <1>2, <1>3, <1>4, SessionParts DEF TypeOK, JobStates, RowStates
<1>6. FactsKept /\ JobsKept /\ RowsKept
  BY <1>1, <1>2, <1>3, SessionNames DEF FactsKept, JobsKept, RowsKept
<1>7. SessionKept
  BY <1>2, <1>3, <1>4, SessionParts, SessionNames DEF SessionKept
<1> QED
  BY <1>5, <1>6, <1>7 DEF Kept

\* The transcription: its row is never there when it rejects a session.
LEMMA TranscriptionKept ==
  ASSUME SessionAll, ReplayStoredTranscript \/ StoreTranscript
  PROVE  Kept
<1> DEFINE settling == [job EXCEPT !["asr"] = "settling"]
           follow == {"deliver_transcript", "summarize"}
<1>1. /\ job["asr"] = "working" /\ job' = Queued(settling, follow) /\ transcript' = TRUE
      /\ UNCHANGED <<session, summary, row, throws, deaths, retries>>
  BY DEF ReplayStoredTranscript, StoreTranscript, EnqueuePostAsrJobs, bounds
<1>2. settling \in [Jobs -> JobStates] /\ \A j \in Jobs : job[j] # "absent" => settling[j] # "absent"
  BY SessionParts DEF JobStates
<1>3. /\ job' \in [Jobs -> JobStates] /\ \A j \in Jobs : job[j] # "absent" => job'[j] # "absent"
      /\ \A j \in Jobs \cap follow : job'[j] # "absent"
  BY <1>1, <1>2, QueuedFacts
<1>4. TypeOK'
  BY <1>1, <1>3, SessionParts DEF TypeOK, JobStates, RowStates
<1>5. FactsKept /\ JobsKept /\ RowsKept
  BY <1>1, <1>3, SessionNames DEF FactsKept, JobsKept, RowsKept
<1>6. SessionKept
  BY <1>1, SessionParts DEF SessionKept
<1> QED
  BY <1>4, <1>5, <1>6 DEF Kept

LEMMA RejectionKept ==
  ASSUME SessionAll, RejectInsufficientTranscript
  PROVE  Kept
<1>1. /\ job["asr"] = "working" /\ ~transcript /\ session' = "REJECTED" /\ row' = Published(row, {"rejected"})
      /\ job' = [job EXCEPT !["asr"] = "settling"]
      /\ UNCHANGED <<transcript, summary, throws, deaths, retries>>
  BY DEF RejectInsufficientTranscript, bounds
<1>2. session # "DONE"
  BY <1>1, SessionParts
<1>3. job' \in [Jobs -> JobStates] /\ \A j \in Jobs : job'[j] = job[j] \/ (j = "asr" /\ job'[j] # "absent")
  BY <1>1, SessionParts DEF JobStates
<1>4. /\ row' \in [Rows -> RowStates] /\ row'["transcript"] = row["transcript"]
      /\ \A r \in Rows : row[r] # "absent" => row'[r] = row[r]
  BY <1>1, SessionParts, SessionNames, PublishedFacts
<1>5. TypeOK'
  BY <1>1, <1>3, <1>4, SessionParts DEF TypeOK, JobStates, RowStates
<1>6. FactsKept /\ JobsKept /\ RowsKept
  BY <1>1, <1>3, <1>4, SessionNames DEF FactsKept, JobsKept, RowsKept
<1> QED
  BY <1>1, <1>2, <1>5, <1>6 DEF Kept, SessionKept

\* The delivery of the audio and the summary leave the session alone.
LEMMA AudioAndSummaryKept ==
  ASSUME SessionAll, AudioPublished \/ HandleSummarize \/ \E P \in SUBSET Audio : PublishAudio(P)
  PROVE  Kept
<1>1. CASE AudioPublished
  <2>1. /\ job["deliver_audio"] = "working" /\ job' = [job EXCEPT !["deliver_audio"] = "settling"]
        /\ UNCHANGED <<session, transcript, summary, row, throws, deaths, retries>>
    BY <1>1 DEF AudioPublished, bounds
  <2>2. /\ job' \in [Jobs -> JobStates]
        /\ \A j \in Jobs : job'[j] = job[j] \/ (j = "deliver_audio" /\ job'[j] # "absent")
    BY <2>1, SessionParts DEF JobStates
  <2>3. TypeOK'
    BY <2>1, <2>2, SessionParts DEF TypeOK, JobStates, RowStates
  <2>4. FactsKept /\ JobsKept /\ RowsKept
    BY <2>1, <2>2, SessionNames DEF FactsKept, JobsKept, RowsKept
  <2>5. SessionKept
    BY <2>1, <2>2, SessionParts, SessionNames DEF SessionKept
  <2> QED
    BY <2>3, <2>4, <2>5 DEF Kept
<1>2. CASE HandleSummarize
  <2> DEFINE settling == [job EXCEPT !["summarize"] = "settling"]
  <2>1. /\ job["summarize"] = "working" /\ job' = Queued(settling, {"deliver_report"}) /\ summary' = TRUE
        /\ UNCHANGED <<session, transcript, row, throws, deaths, retries>>
    BY <1>2 DEF HandleSummarize, bounds
  <2>2. /\ settling \in [Jobs -> JobStates]
        /\ \A j \in Jobs : settling[j] = job[j] \/ (j = "summarize" /\ settling[j] # "absent")
    BY <2>1, SessionParts DEF JobStates
  <2>3. /\ job' \in [Jobs -> JobStates] /\ job'["deliver_report"] # "absent"
        /\ \A j \in Jobs : job[j] # "absent" => job'[j] # "absent"
        /\ job'["deliver_transcript"] = job["deliver_transcript"] /\ job'["asr"] = job["asr"]
    <3>1. /\ job' \in [Jobs -> JobStates]
          /\ \A j \in Jobs : /\ j = "deliver_report" => job'[j] # "absent"
                             /\ settling[j] # "absent" => job'[j] = settling[j]
                             /\ j # "deliver_report" => job'[j] = settling[j]
      BY <2>1, <2>2, QueuedFacts
    <3>2. "deliver_transcript" \in Jobs /\ "asr" \in Jobs /\ "deliver_report" \in Jobs
      BY SessionNames
    <3> QED
      BY <2>2, <3>1, <3>2
  <2>4. TypeOK'
    BY <2>1, <2>3, SessionParts DEF TypeOK, JobStates, RowStates
  <2>5. FactsKept /\ JobsKept /\ RowsKept
    BY <2>1, <2>3, SessionNames DEF FactsKept, JobsKept, RowsKept
  <2>6. SessionKept
    BY <2>1, <2>3, SessionParts DEF SessionKept
  <2> QED
    BY <2>4, <2>5, <2>6 DEF Kept
<1>3. ASSUME NEW P \in SUBSET Audio, PublishAudio(P) PROVE Kept
  <2>1. row' = Published(row, P) /\ UNCHANGED <<session, transcript, summary, job, throws, deaths, retries>>
    BY <1>3 DEF PublishAudio, bounds
  <2>2. /\ row' \in [Rows -> RowStates] /\ row'["transcript"] = row["transcript"]
        /\ \A r \in Rows : row[r] # "absent" => row'[r] = row[r]
    <3>1. "transcript" \notin P
      BY SessionNames
    <3> QED
      BY <2>1, <3>1, SessionParts, SessionNames, PublishedFacts
  <2>3. TypeOK'
    BY <2>1, <2>2, SessionParts DEF TypeOK, JobStates, RowStates
  <2>4. FactsKept /\ JobsKept /\ RowsKept
    BY <2>1, <2>2, SessionNames DEF FactsKept, JobsKept, RowsKept
  <2>5. SessionKept
    BY <2>1, SessionParts DEF SessionKept
  <2> QED
    BY <2>3, <2>4, <2>5 DEF Kept
<1> QED
  BY <1>1, <1>2, <1>3

\* A delivery of the transcript or the report, whole or cut short.
RowsOf(k) == CASE k = "deliver_transcript" -> {"transcript"}
               [] k = "deliver_report" -> Reports
               [] OTHER -> Audio

LEMMA DeliveryRows ==
  ASSUME SessionAll, NEW k \in {"deliver_audio", "deliver_transcript", "deliver_report"}, job[k] = "working",
         NEW R, R \subseteq RowsOf(k), row' = Published(row, R)
  PROVE  row' \in [Rows -> RowStates] /\ RowsKept
<1>1. row' \in [Rows -> RowStates] /\ \A r \in Rows : /\ row[r] # "absent" => row'[r] = row[r]
                                                      /\ r \notin R => row'[r] = row[r]
  BY SessionParts, PublishedFacts
<1>2. "transcript" \in R => job["deliver_transcript"] # "absent"
  BY SessionNames DEF RowsOf
<1> QED
  BY <1>1, <1>2, SessionNames DEF RowsKept

LEMMA DeliveryKept ==
  ASSUME SessionAll, HandleDeliverTranscript \/ HandleDeliverReport
  PROVE  Kept
<1>1. PICK k \in {"deliver_transcript", "deliver_report"} :
        /\ job[k] = "working" /\ AdvanceToDelivering(k, job)
        /\ row' = Published(row, RowsOf(k))
        /\ UNCHANGED <<transcript, summary, throws, deaths, retries>>
  BY DEF HandleDeliverTranscript, HandleDeliverReport, bounds, RowsOf
<1>2. row' \in [Rows -> RowStates] /\ RowsKept
  BY <1>1, DeliveryRows
<1>3. k \in Jobs /\ k # "asr"
  BY SessionNames
<1>4. /\ job' \in [Jobs -> JobStates] /\ \A j \in Jobs : j # k => job'[j] = job[j]
      /\ job'[k] # "absent"
      /\ session' \in {"PROCESSING", "DELIVERING", "DONE", "REJECTED", "FAILED"}
      /\ session' # session => session = "PROCESSING" /\ session' = "DELIVERING"
  <2>1. CASE session \in {"PROCESSING", "DELIVERING", "DONE"}
    BY <1>1, <1>3, <2>1, SessionParts DEF AdvanceToDelivering, JobStates
  <2>2. CASE session \notin {"PROCESSING", "DELIVERING", "DONE"}
    BY <1>1, <1>3, <2>2, SessionParts, ThrownFacts DEF AdvanceToDelivering
  <2> QED
    BY <2>1, <2>2
<1>5. TypeOK'
  BY <1>1, <1>2, <1>4, SessionParts DEF TypeOK, JobStates, RowStates
<1>6. FactsKept /\ JobsKept
  BY <1>1, <1>3, <1>4, SessionNames DEF FactsKept, JobsKept
<1>7. SessionKept
  BY <1>3, <1>4, SessionParts, SessionNames DEF SessionKept
<1> QED
  BY <1>2, <1>5, <1>6, <1>7 DEF Kept

LEMMA PartialKept ==
  ASSUME SessionAll, PartialHandler
  PROVE  Kept
<1>1. PICK k \in {"deliver_audio", "deliver_transcript", "deliver_report"}, R \in SUBSET Rows :
        R \subseteq RowsOf(k) /\ DiesAfterRow(k, R)
  <2>1. CASE \E P \in SUBSET Audio : DiesAfterRow("deliver_audio", P)
    BY <2>1, SessionNames DEF RowsOf
  <2>2. CASE DiesAfterRow("deliver_transcript", {"transcript"})
    BY <2>2, SessionNames DEF RowsOf
  <2>3. CASE \E R \in {Reports, Reports \cap {"preview"}} : DiesAfterRow("deliver_report", R)
    BY <2>3, SessionNames DEF RowsOf
  <2> QED
    BY <2>1, <2>2, <2>3 DEF PartialHandler
<1>2. /\ job[k] = "working" /\ row' = Published(row, R) /\ deaths' \in 0 .. MaxDeaths
      /\ job' = [j \in Jobs |-> IF job[j] \in {"working", "settling", "revived"} THEN "pending" ELSE job[j]]
      /\ UNCHANGED <<session, transcript, summary, throws, retries>>
  BY <1>1, SessionParts, BoundFacts DEF DiesAfterRow
<1>3. row' \in [Rows -> RowStates] /\ RowsKept
  BY <1>1, <1>2, DeliveryRows
<1>4. /\ job' \in [Jobs -> JobStates]
      /\ \A j \in Jobs : job'[j] = "absent" <=> job[j] = "absent"
  BY <1>2, SessionParts DEF JobStates
<1>5. TypeOK'
  BY <1>2, <1>3, <1>4, SessionParts DEF TypeOK, JobStates, RowStates
<1>6. FactsKept /\ JobsKept
  BY <1>2, <1>4, SessionNames DEF FactsKept, JobsKept
<1>7. SessionKept
  BY <1>2, <1>4, SessionParts, SessionNames DEF SessionKept
<1> QED
  BY <1>3, <1>5, <1>6, <1>7 DEF Kept

\* The drain, the only one to complete a session.
LEMMA DrainKept ==
  ASSUME SessionAll, NEW r \in Rows, Send(r) \/ Dies(r) \/ OutboxRetry(r)
  PROVE  Kept
<1>1. /\ UNCHANGED <<transcript, summary, job, throws>> /\ row[r] \in {"pending", "dead"}
      /\ deaths' \in 0 .. MaxDeaths /\ retries' \in 0 .. MaxRetries
      /\ row' \in [Rows -> RowStates] /\ \A q \in Rows : q # r => row'[q] = row[q]
  BY SessionParts, BoundFacts DEF Send, Dies, OutboxRetry, bounds, RowStates
<1>2. session' = session \/ (session' = "DONE" /\ Settled)
  BY DEF Send, Dies, OutboxRetry, ReconcileSessionDelivery, Settled
<1>3. TypeOK'
  BY <1>1, <1>2, SessionParts DEF TypeOK, JobStates, RowStates
<1>4. RowsKept
  BY <1>1, SessionNames DEF RowsKept
<1>5. FactsKept /\ JobsKept
  BY <1>1 DEF FactsKept, JobsKept
<1>6. SessionKept
  BY <1>1, <1>2, SessionParts, SessionNames DEF SessionKept, Settled
<1> QED
  BY <1>3, <1>4, <1>5, <1>6 DEF Kept

LEMMA SessionInit ==
  ASSUME Init
  PROVE  SessionAll
<1>1. TypeOK
  <2>1. /\ job \in [Jobs -> {"absent", "pending", "working", "settling", "done", "backoff", "dying", "revived", "dead"}]
        /\ row \in [Rows -> {"absent", "pending", "sent", "dead", "failed"}]
    BY DEF Init
  <2>2. throws \in 0 .. MaxThrows /\ deaths \in 0 .. MaxDeaths /\ retries \in 0 .. MaxRetries
    BY BoundFacts DEF Init
  <2> QED
    BY <2>1, <2>2 DEF Init, TypeOK
<1>2. job["deliver_transcript"] = "absent" /\ row["transcript"] = "absent"
  BY SessionNames DEF Init
<1> QED
  BY <1>1, <1>2 DEF Init, SessionAll, DoneHasEachKind, HandOver, TranscriptFirst

LEMMA SessionStep ==
  ASSUME SessionAll, Next
  PROVE  Kept
<1>1. CASE Handler
  BY <1>1, TranscriptionKept, RejectionKept, AudioAndSummaryKept, DeliveryKept DEF Handler
<1>2. CASE PartialHandler \/ MarkExhaustedAsrSession
  BY <1>2, PartialKept, ExhaustedKept
<1>3. ASSUME NEW k \in Jobs,
             Take(k) \/ BackoffElapses(k) \/ Complete(k) \/ Interrupt(k) \/ Throw(k) \/ JobsRetry(k)
      PROVE  Kept
  BY <1>3, QueueKept, RetriedKept
<1>4. ASSUME NEW r \in Rows, Send(r) \/ Dies(r) \/ OutboxRetry(r) PROVE Kept
  BY <1>4, DrainKept
<1> QED
  BY <1>1, <1>2, <1>3, <1>4 DEF Next

LEMMA SessionInductive == SessionAll /\ [Next]_vars => SessionAll'
<1>1. ASSUME SessionAll, Next PROVE SessionAll'
  BY <1>1, SessionStep, KeptHolds
<1>2. ASSUME SessionAll, UNCHANGED vars PROVE SessionAll'
  BY <1>2 DEF SessionAll, vars, bounds, TypeOK, DoneHasEachKind, HandOver, TranscriptFirst
<1> QED
  BY <1>1, <1>2

\* A session that is DONE has sent audio, transcript and report, and a stored
\* fact has the job that continues from it (reconcileSessionDelivery,
\* enqueuePostAsrJobs), for any number of parts, faults and retries.
THEOREM SessionInvariant == Spec => []SessionInv
<1>1. Init => SessionAll
  BY SessionInit
<1>2. SessionAll => SessionInv
  BY DEF SessionAll, SessionInv
<1> QED
  BY <1>1, <1>2, SessionInductive, PTL DEF Spec

\* A session never leaves DONE, and is restored or completed from FAILED only without a
\* notice of the failure still waiting (markExhaustedAsrSession, prepareAsrRetry).
THEOREM OutcomeIsKept == Spec => OutcomeHolds
<1>1. Init => SessionAll
  BY SessionInit
<1>2. SessionAll /\ [Next]_vars => [session = "DONE" => session' = "DONE"]_vars
  BY SessionStep DEF Kept, SessionKept
<1>3. SessionAll /\ [Next]_vars => [session = "FAILED" /\ session' \in {"PROCESSING", "DONE"} => row'["failed"] # "pending"]_vars
  BY SessionStep DEF Kept, SessionKept
<1> QED
  BY <1>1, <1>2, <1>3, SessionInductive, PTL DEF Spec, OutcomeHolds, DoneStable, FailedNoticeRetired

-----------------------------------------------------------------------------
(* The deliver_audio job *)


\* A split has at least one piece, and no more than the bound.
LEMMA PiecesFacts ==
  ASSUME NEW p \in A!Parts, NEW l \in Limits
  PROVE  A!Pieces(p, l) \in 1 .. MostPieces
<1>1. Size[p] \in Nat \ {0} /\ l \in Nat \ {0}
  BY AudioAssumed DEF A!AudioAssumption
<1>2. A!Pieces(p, l) <= MostPieces /\ MostPieces \in Nat
  BY AudioAssumed DEF A!AudioAssumption
<1>3. ASSUME NEW n \in Nat, n >= l PROVE n \div l \in Nat /\ n \div l >= 1
  BY <1>1, <1>3
<1>4. Size[p] + l - 1 \in Nat /\ Size[p] + l - 1 >= l
  BY <1>1
<1>5. A!Pieces(p, l) \in Nat /\ A!Pieces(p, l) >= 1
  BY <1>3, <1>4 DEF A!Pieces
<1> QED
  BY <1>2, <1>5

LEMMA AudioTypeInit == A!Init => A!TypeOK
<1> SUFFICES ASSUME A!Init PROVE A!TypeOK
  OBVIOUS
<1>1. A!Idle \in A!Worker
  BY AudioAssumed DEF A!AudioAssumption, A!Idle, A!Worker
<1>2. A!NoRow \in A!Row
  BY AudioAssumed DEF A!AudioAssumption, A!NoRow, A!Row
<1> QED
  BY <1>1, <1>2, AudioAssumed DEF A!Init, A!TypeOK, A!AudioAssumption

\* Workers are records.
LEMMA WorkerAt ==
  ASSUME NEW w \in A!Worker, NEW pc \in {"idle", "preflight", "publish", "split", "commit"}
  PROVE  /\ [w EXCEPT !.pc = pc] \in A!Worker
         /\ [w EXCEPT !.pc = pc].pc = pc /\ [w EXCEPT !.pc = pc].at = w.at /\ [w EXCEPT !.pc = pc].parts = w.parts
BY DEF A!Worker

LEMMA WorkerTo ==
  ASSUME NEW w \in A!Worker, NEW pc \in {"preflight", "publish"}, NEW at \in 1 .. NParts + 1
  PROVE  /\ [w EXCEPT !.pc = pc, !.at = at] \in A!Worker
         /\ [w EXCEPT !.pc = pc, !.at = at].pc = pc /\ [w EXCEPT !.pc = pc, !.at = at].at = at
         /\ [w EXCEPT !.pc = pc, !.at = at].parts = w.parts
BY DEF A!Worker

LEMMA WorkerCuts ==
  ASSUME NEW w \in A!Worker, NEW cut \in 0 .. MostPieces
  PROVE  /\ [w EXCEPT !.pc = "commit", !.cut = cut] \in A!Worker
         /\ [w EXCEPT !.pc = "commit", !.cut = cut].pc = "commit"
         /\ [w EXCEPT !.pc = "commit", !.cut = cut].at = w.at
         /\ [w EXCEPT !.pc = "commit", !.cut = cut].parts = w.parts
         /\ [w EXCEPT !.pc = "commit", !.cut = cut].cut = cut
BY DEF A!Worker

LEMMA WorkerStarts ==
  ASSUME NEW w \in A!Worker, NEW ps \in SUBSET A!Parts
  PROVE  /\ [w EXCEPT !.pc = "preflight", !.parts = ps] \in A!Worker
         /\ [w EXCEPT !.pc = "preflight", !.parts = ps].pc = "preflight"
         /\ [w EXCEPT !.pc = "preflight", !.parts = ps].parts = ps
BY DEF A!Worker

LEMMA IdleFacts == A!Idle \in A!Worker /\ A!Idle.pc = "idle"
BY AudioAssumed DEF A!AudioAssumption, A!Idle, A!Worker

LEMMA WorkerFacts ==
  ASSUME NEW w \in A!Worker
  PROVE  /\ w.pc \in {"idle", "preflight", "publish", "split", "commit"} /\ w.at \in 1 .. NParts + 1
         /\ w.parts \subseteq A!Parts /\ w.cut \in 0 .. MostPieces
BY DEF A!Worker

LEMMA PieceFacts ==
  /\ 0 \in A!Piece /\ A!Piece \subseteq Nat /\ A!Gens \subseteq Nat \ {0} /\ A!Parts \subseteq Nat \ {0}
  /\ NParts \in Nat /\ MostPieces \in Nat /\ MaxClaims \in Nat /\ A!Gens \subseteq 0 .. MaxClaims
  /\ 1 .. MostPieces \subseteq A!Piece
BY AudioAssumed DEF A!AudioAssumption, A!Piece, A!Gens, A!Parts

\* A handler moves, or throws: what is true of it afterwards.
Moves(g, pc, at, cut) ==
    /\ worker'[g] \in A!Worker /\ worker'[g].pc = pc /\ worker'[g].at = at
    /\ worker'[g].parts = worker[g].parts /\ (pc = "commit" => worker'[g].cut = cut)
    /\ worker' \in [A!Gens -> A!Worker]
    /\ \A h \in A!Gens : h # g => worker'[h] = worker[h]

LEMMA GoesOn ==
  ASSUME worker \in [A!Gens -> A!Worker], NEW g \in A!Gens, NEW pc \in {"preflight", "publish", "split"},
         worker' = [worker EXCEPT ![g].pc = pc]
  PROVE  Moves(g, pc, worker[g].at, 0)
<1>1. worker' = [worker EXCEPT ![g] = [worker[g] EXCEPT !.pc = pc]]
  BY DEF A!Worker
<1>2. worker[g] \in A!Worker
  OBVIOUS
<1>3. [worker[g] EXCEPT !.pc = pc] \in A!Worker
  BY <1>2, WorkerAt
<1>4. /\ [worker[g] EXCEPT !.pc = pc].pc = pc /\ [worker[g] EXCEPT !.pc = pc].at = worker[g].at
      /\ [worker[g] EXCEPT !.pc = pc].parts = worker[g].parts
  BY <1>2, WorkerAt
<1>5. worker'[g] = [worker[g] EXCEPT !.pc = pc]
  BY <1>1
<1>6. worker' \in [A!Gens -> A!Worker] /\ \A h \in A!Gens : h # g => worker'[h] = worker[h]
  BY <1>1, <1>3
<1> QED
  BY <1>3, <1>4, <1>5, <1>6 DEF Moves

LEMMA GoesTo ==
  ASSUME worker \in [A!Gens -> A!Worker], NEW g \in A!Gens, NEW pc \in {"preflight", "publish"},
         NEW at \in 1 .. NParts + 1, worker' = [worker EXCEPT ![g].pc = pc, ![g].at = at]
  PROVE  Moves(g, pc, at, 0)
<1>1. worker' = [worker EXCEPT ![g] = [worker[g] EXCEPT !.pc = pc, !.at = at]]
  BY DEF A!Worker
<1>2. worker[g] \in A!Worker
  OBVIOUS
<1>3. [worker[g] EXCEPT !.pc = pc, !.at = at] \in A!Worker
  BY <1>2, WorkerTo
<1>4. /\ [worker[g] EXCEPT !.pc = pc, !.at = at].pc = pc /\ [worker[g] EXCEPT !.pc = pc, !.at = at].at = at
      /\ [worker[g] EXCEPT !.pc = pc, !.at = at].parts = worker[g].parts
  BY <1>2 DEF A!Worker
<1>5. worker'[g] = [worker[g] EXCEPT !.pc = pc, !.at = at]
  BY <1>1
<1>6. worker' \in [A!Gens -> A!Worker] /\ \A h \in A!Gens : h # g => worker'[h] = worker[h]
  BY <1>1, <1>3
<1> QED
  BY <1>3, <1>4, <1>5, <1>6 DEF Moves

LEMMA Advances ==
  ASSUME worker \in [A!Gens -> A!Worker], NEW g \in A!Gens, NEW pc \in {"preflight", "publish"},
         worker[g].at <= NParts, A!Advance(g, pc)
  PROVE  Moves(g, pc, worker[g].at + 1, 0)
<1>1. worker[g].at + 1 \in 1 .. NParts + 1 /\ worker[g] \in A!Worker
  BY PieceFacts DEF A!Worker
<1>2. worker' = [worker EXCEPT ![g].pc = pc, ![g].at = worker[g].at + 1]
  BY DEF A!Advance, A!Worker
<1> QED
  BY <1>1, <1>2, GoesTo

LEMMA Cuts ==
  ASSUME worker \in [A!Gens -> A!Worker], NEW g \in A!Gens, NEW n \in 0 .. MostPieces,
         worker' = [worker EXCEPT ![g].pc = "commit", ![g].cut = n]
  PROVE  Moves(g, "commit", worker[g].at, n)
<1>1. worker' = [worker EXCEPT ![g] = [worker[g] EXCEPT !.pc = "commit", !.cut = n]]
  BY DEF A!Worker
<1>2. worker[g] \in A!Worker
  OBVIOUS
<1>3. [worker[g] EXCEPT !.pc = "commit", !.cut = n] \in A!Worker
  BY <1>2, WorkerCuts
<1>4. /\ [worker[g] EXCEPT !.pc = "commit", !.cut = n].pc = "commit" /\ [worker[g] EXCEPT !.pc = "commit", !.cut = n].at = worker[g].at
      /\ [worker[g] EXCEPT !.pc = "commit", !.cut = n].parts = worker[g].parts /\ [worker[g] EXCEPT !.pc = "commit", !.cut = n].cut = n
  BY <1>2, WorkerCuts
<1>5. worker'[g] = [worker[g] EXCEPT !.pc = "commit", !.cut = n]
  BY <1>1
<1>6. worker' \in [A!Gens -> A!Worker] /\ \A h \in A!Gens : h # g => worker'[h] = worker[h]
  BY <1>1, <1>3
<1> QED
  BY <1>3, <1>4, <1>5, <1>6 DEF Moves

\* The invariant, handler by handler and row by row.
HandlerOK(g) ==
    worker[g].pc # "idle" =>
        /\ g <= claims
        /\ worker[g].pc \in {"split", "commit"} => worker[g].at \in worker[g].parts
        /\ worker[g].pc = "commit" =>
            worker[g].cut >= 1 /\ \A i \in 1 .. worker[g].cut : A!Artifact(worker[g].at, i, g) \in files
        /\ \A p \in A!Parts, i \in A!Piece :
            rows[p][i].gen = g => worker[g].pc # "preflight" /\ p < worker[g].at
        /\ A!Current(g) /\ worker[g].pc \in {"split", "commit"} => ~A!Replays(worker[g].at)
        /\ \A q \in A!Parts \ worker[g].parts : source[q] = "deleted"
        /\ worker[g].pc # "preflight" => \A q \in worker[g].parts : q < worker[g].at => A!Replays(q)

RowsOK ==
    /\ \A p \in A!Parts, i \in A!Piece : rows[p][i].gen <= claims
    /\ A!WholeSplits /\ A!SentIsHeard /\ A!DeliveredWasHeard /\ A!QueuedPieceHasFile

AudioAll == A!TypeOK /\ RowsOK /\ A!DonePublished /\ \A g \in A!Gens : HandlerOK(g)

LEMMA AudioAllIsInv == AudioAll => A!ManifestInv /\ A!DeliveredWasHeard /\ A!QueuedPieceHasFile
BY DEF AudioAll, HandlerOK, RowsOK, A!ManifestInv, A!ClaimsCounted, A!SplitsAPart, A!OwnRowsBehind, A!SplitsUnpublished,
   A!CutHasFiles, A!PublishedBehind

\* What a step leaves of the rows: those that exist keep their split and their file.
RowsStay == \A p \in A!Parts, i \in A!Piece :
    /\ rows'[p][i].state = "absent" <=> rows[p][i].state = "absent"
    /\ rows'[p][i].of = rows[p][i].of /\ rows'[p][i].gen = rows[p][i].gen

\* A handler that does not move.
LEMMA HandlerStays ==
  ASSUME AudioAll, NEW g \in A!Gens, worker'[g] = worker[g], claims' >= claims, claims' \in Nat,
         \A p \in A!Parts, i \in A!Piece : rows'[p][i].gen = rows[p][i].gen \/ rows'[p][i].gen # g,
         \A p \in A!Parts : A!Replays(p) => A!Replays(p)',
         A!Current(g)' => A!Current(g) /\ \A p \in A!Parts : A!Replays(p)' => A!Replays(p),
         \A p \in A!Parts : source[p] = "deleted" => source'[p] = "deleted",
         \A i \in A!Piece : A!Artifact(worker[g].at, i, g) \in files => A!Artifact(worker[g].at, i, g) \in files'
  PROVE  HandlerOK(g)'
<1>1. SUFFICES ASSUME worker[g].pc # "idle" PROVE HandlerOK(g)'
  BY DEF HandlerOK
<1>2. /\ HandlerOK(g) /\ worker[g] \in A!Worker /\ claims \in Nat
  BY PieceFacts DEF AudioAll, A!TypeOK
<1>3. worker[g].parts \subseteq A!Parts /\ worker[g].cut \in 0 .. MostPieces
  BY <1>2, WorkerFacts
<1>4. g <= claims'
  BY <1>1, <1>2, PieceFacts DEF HandlerOK
<1>5. worker[g].pc = "commit" => \A i \in 1 .. worker[g].cut : A!Artifact(worker[g].at, i, g) \in files'
  <2>1. \A i \in 1 .. worker[g].cut : i \in A!Piece
    BY <1>3, PieceFacts
  <2> QED
    BY <1>1, <1>2, <2>1 DEF HandlerOK
<1>6. A!Current(g)' /\ worker[g].pc \in {"split", "commit"} => ~A!Replays(worker[g].at)'
  BY <1>1, <1>2, <1>3 DEF HandlerOK
<1>7. worker[g].pc # "preflight" => \A q \in worker[g].parts : q < worker[g].at => A!Replays(q)'
  BY <1>1, <1>2, <1>3 DEF HandlerOK
<1> QED
  BY <1>1, <1>2, <1>4, <1>5, <1>6, <1>7 DEF HandlerOK, A!Current, A!Replays

LEMMA HandlerIdle ==
  ASSUME NEW g \in A!Gens, worker'[g].pc = "idle"
  PROVE  HandlerOK(g)'
BY DEF HandlerOK

\* A step that touches no row.
LEMMA RowsUntouched ==
  ASSUME AudioAll, UNCHANGED <<rows, chat, delivered>>, claims' >= claims, claims' \in Nat,
         \A p \in A!Parts, i \in A!Piece \ {0} : rows[p][i].state = "pending" =>
            A!Artifact(p, i, rows[p][i].gen) \in files'
  PROVE  RowsOK' /\ \A p \in A!Parts : A!Replays(p)' <=> A!Replays(p)
<1>1. \A p \in A!Parts, i \in A!Piece : rows[p][i].gen \in 0 .. MaxClaims /\ rows[p][i].gen <= claims
  BY DEF AudioAll, RowsOK, A!TypeOK, A!Row
<1>2. claims \in Nat
  BY PieceFacts DEF AudioAll, A!TypeOK
<1>3. ASSUME NEW p \in A!Parts, NEW i \in A!Piece PROVE rows'[p][i].gen <= claims'
  <2>1. rows[p][i].gen \in Nat /\ rows[p][i].gen <= claims
    BY <1>1, PieceFacts
  <2> QED
    BY <1>2, <2>1
<1>4. A!WholeSplits' /\ A!SentIsHeard' /\ A!DeliveredWasHeard' /\ A!QueuedPieceHasFile'
  BY DEF AudioAll, RowsOK, A!WholeSplits, A!SentIsHeard, A!DeliveredWasHeard, A!QueuedPieceHasFile, A!Artifact
<1> QED
  BY <1>3, <1>4 DEF RowsOK, A!Replays

LEMMA DoneStays ==
  ASSUME AudioAll, audioJob' = "done" => audioJob = "done", \A p \in A!Parts : source[p] = "deleted" => source'[p] = "deleted",
         \A p \in A!Parts : A!Replays(p) => A!Replays(p)'
  PROVE  A!DonePublished'
BY DEF AudioAll, A!DonePublished, A!Replays

\* The pending rows keep their files when only files of this handler's part go.
LEMMA OwnFilesOnly ==
  ASSUME AudioAll, NEW g \in A!Gens, NEW p \in A!Parts, worker[g].pc \in {"split", "commit"}, worker[g].at = p,
         files \ A!Own(p, g) \subseteq files'
  PROVE  /\ \A q \in A!Parts, i \in A!Piece \ {0} : rows[q][i].state = "pending" =>
            A!Artifact(q, i, rows[q][i].gen) \in files'
         /\ \A h \in A!Gens : h # g => \A i \in A!Piece : A!Artifact(worker[h].at, i, h) \in files =>
            A!Artifact(worker[h].at, i, h) \in files'
<1>1. HandlerOK(g) /\ worker[g] \in A!Worker
  BY DEF AudioAll, A!TypeOK
<1>2. \A q \in A!Parts, i \in A!Piece : rows[q][i].gen = g => q < p
  BY <1>1 DEF HandlerOK
<1>3. \A q \in A!Parts, i \in A!Piece : rows[q][i].gen = g => q # p
  BY <1>2, PieceFacts
<1> QED
  BY <1>3 DEF AudioAll, RowsOK, A!QueuedPieceHasFile, A!Artifact, A!Own

-----------------------------------------------------------------------------
(* The job and the process *)

LEMMA JobSteps ==
  ASSUME AudioAll, A!LoseLease \/ A!Restart \/ A!RetryJob \/ \E p \in A!Parts : A!SourceGone(p)
  PROVE  AudioAll'
<1>1. A!TypeOK'
  <2>1. CASE A!Restart
    <3>1. worker' \in [A!Gens -> A!Worker]
      BY <2>1, IdleFacts DEF A!Restart
    <3>2. restarts' \in 0 .. MaxRestarts
      BY <2>1, AudioAssumed DEF A!Restart, AudioAll, A!TypeOK, A!AudioAssumption
    <3> QED
      BY <2>1, <3>1, <3>2 DEF A!Restart, AudioAll, A!TypeOK
  <2> QED
    BY <2>1 DEF A!LoseLease, A!RetryJob, A!SourceGone, AudioAll, A!TypeOK
<1>2. /\ UNCHANGED <<rows, chat, delivered, files, claims>> /\ claims' >= claims /\ claims' \in Nat
      /\ \A p \in A!Parts : source[p] = "deleted" => source'[p] = "deleted"
      /\ audioJob' = "done" => audioJob = "done"
      /\ \A g \in A!Gens : worker'[g] = worker[g] \/ worker'[g].pc = "idle"
      /\ \A g \in A!Gens : A!Current(g)' => A!Current(g)
  BY PieceFacts, IdleFacts DEF A!LoseLease, A!Restart, A!RetryJob, A!SourceGone, AudioAll, A!TypeOK, A!Current
<1>3. RowsOK' /\ \A p \in A!Parts : A!Replays(p)' <=> A!Replays(p)
  BY <1>2, RowsUntouched DEF AudioAll, RowsOK, A!QueuedPieceHasFile
<1>4. A!DonePublished'
  BY <1>2, <1>3, DoneStays
<1>5. \A g \in A!Gens : HandlerOK(g)'
  BY <1>2, <1>3, HandlerStays, HandlerIdle
<1> QED
  BY <1>1, <1>3, <1>4, <1>5 DEF AudioAll

LEMMA ClaimStep ==
  ASSUME AudioAll, A!Claim
  PROVE  AudioAll'
<1>0. PICK k \in A!Gens : k = claims + 1
  BY PieceFacts DEF A!Claim, AudioAll, A!TypeOK, A!Gens
<1>1. k \in A!Gens /\ claims \in Nat /\ k \in 0 .. MaxClaims /\ claims < MaxClaims
  BY <1>0, PieceFacts DEF A!Claim, AudioAll, A!TypeOK, A!Gens
<1>2. PICK w \in A!Worker : /\ w = [A!Idle EXCEPT !.pc = "preflight", !.parts = {p \in A!Parts : source[p] # "deleted"}]
                          /\ w.pc = "preflight" /\ w.parts = {p \in A!Parts : source[p] # "deleted"}
  <2> DEFINE now == {p \in A!Parts : source[p] # "deleted"}
  <2>1. now \in SUBSET A!Parts
    OBVIOUS
  <2> HIDE DEF now
  <2> QED
    BY <2>1, WorkerStarts, IdleFacts DEF now
<1>3. /\ worker' = [worker EXCEPT ![k] = w] /\ audioJob' = "leased" /\ claims' = k
      /\ UNCHANGED <<limit, source, rows, files, delivered, chat, restarts>> /\ k = claims + 1
  BY <1>0, <1>2 DEF A!Claim
<1>4. A!TypeOK'
  BY <1>1, <1>2, <1>3 DEF AudioAll, A!TypeOK
<1>5. RowsOK' /\ \A p \in A!Parts : A!Replays(p)' <=> A!Replays(p)
  BY <1>1, <1>3, RowsUntouched DEF AudioAll, RowsOK, A!QueuedPieceHasFile
<1>6. A!DonePublished'
  BY <1>3 DEF A!DonePublished
<1>7. ASSUME NEW g \in A!Gens, g # k PROVE HandlerOK(g)'
  <2>1. worker'[g] = worker[g] /\ ~A!Current(g)'
    BY <1>1, <1>3, <1>7 DEF A!Current, AudioAll, A!TypeOK
  <2> QED
    BY <1>1, <1>3, <1>5, <2>1, HandlerStays
<1>8. HandlerOK(k)'
  <2>1. worker'[k] = w
    BY <1>1, <1>3 DEF AudioAll, A!TypeOK
  <2>2. \A p \in A!Parts, i \in A!Piece : rows[p][i].gen \in Nat /\ rows[p][i].gen <= claims
    BY PieceFacts DEF AudioAll, RowsOK, A!TypeOK, A!Row
  <2>3. \A p \in A!Parts, i \in A!Piece : rows[p][i].gen # k
    BY <1>1, <1>3, <2>2
  <2>4. worker'[k].pc = "preflight"
    BY <1>2, <2>1
  <2>7. k <= claims'
    BY <1>1, <1>3
  <2>5. \A q \in A!Parts \ worker'[k].parts : source'[q] = "deleted"
    BY <1>2, <1>3, <2>1
  <2>6. \A p \in A!Parts, i \in A!Piece : rows'[p][i].gen # k
    BY <1>3, <2>3
  <2> QED
    BY <2>4, <2>5, <2>6, <2>7 DEF HandlerOK
<1> QED
  BY <1>4, <1>5, <1>6, <1>7, <1>8 DEF AudioAll

\* A handler throws, with its files or without those of the part it was splitting.
LEMMA ThrowStep ==
  ASSUME AudioAll, NEW g \in A!Gens, NEW left, A!Throws(g, left),
         \/ left = files
         \/ /\ worker[g].pc \in {"split", "commit"} /\ left = files \ A!Own(worker[g].at, g)
  PROVE  AudioAll'
<1>0. worker[g].pc \in {"split", "commit"} => worker[g].at \in A!Parts
  BY WorkerFacts DEF AudioAll, HandlerOK, A!TypeOK
<1>1. /\ worker' = [worker EXCEPT ![g] = A!Idle] /\ files' = left /\ audioJob' \in {"pending", "dead", audioJob}
      /\ UNCHANGED <<limit, source, claims, rows, delivered, chat, restarts>>
  BY DEF A!Throws
<1>2. /\ worker'[g].pc = "idle" /\ \A h \in A!Gens : h # g => worker'[h] = worker[h]
      /\ worker' \in [A!Gens -> A!Worker]
  BY <1>1, IdleFacts DEF AudioAll, A!TypeOK
<1>3. A!TypeOK'
  BY <1>1, <1>2 DEF AudioAll, A!TypeOK
<1>4. /\ \A q \in A!Parts, i \in A!Piece \ {0} : rows[q][i].state = "pending" =>
            A!Artifact(q, i, rows[q][i].gen) \in files'
      /\ \A h \in A!Gens : h # g => \A i \in A!Piece : A!Artifact(worker[h].at, i, h) \in files =>
            A!Artifact(worker[h].at, i, h) \in files'
  <2>1. CASE left = files
    BY <1>1, <2>1 DEF AudioAll, RowsOK, A!QueuedPieceHasFile
  <2>2. CASE worker[g].pc \in {"split", "commit"} /\ left = files \ A!Own(worker[g].at, g)
    BY <1>0, <1>1, <2>2, OwnFilesOnly
  <2> QED
    BY <2>1, <2>2
<1>5. claims' >= claims /\ claims' \in Nat
  BY <1>1, PieceFacts DEF AudioAll, A!TypeOK
<1>6. RowsOK' /\ \A p \in A!Parts : A!Replays(p)' <=> A!Replays(p)
  BY <1>1, <1>4, <1>5, RowsUntouched
<1>7. A!DonePublished'
  BY <1>1, <1>6, DoneStays
<1>8. \A h \in A!Gens : A!Current(h)' => A!Current(h)
  BY <1>1 DEF A!Current
<1>9. \A h \in A!Gens : HandlerOK(h)'
  BY <1>1, <1>2, <1>4, <1>5, <1>6, <1>8, HandlerStays, HandlerIdle
<1> QED
  BY <1>3, <1>6, <1>7, <1>9 DEF AudioAll

-----------------------------------------------------------------------------
(* The handler *)

\* The handler of g moves and publishes nothing.
LEMMA MoveStep ==
  ASSUME AudioAll, NEW g \in A!Gens, NEW pc, NEW at, NEW cut, Moves(g, pc, at, cut), HandlerOK(g)', audioJob' = audioJob,
         UNCHANGED <<limit, source, claims, rows, delivered, chat, restarts>>,
         files' \subseteq A!Parts \X A!Piece \X A!Gens,
         \A q \in A!Parts, i \in A!Piece \ {0} : rows[q][i].state = "pending" =>
            A!Artifact(q, i, rows[q][i].gen) \in files',
         \A h \in A!Gens : h # g => \A i \in A!Piece : A!Artifact(worker[h].at, i, h) \in files =>
            A!Artifact(worker[h].at, i, h) \in files'
  PROVE  AudioAll'
<1>1. A!TypeOK'
  BY DEF Moves, AudioAll, A!TypeOK
<1>2. claims' >= claims /\ claims' \in Nat
  BY PieceFacts DEF AudioAll, A!TypeOK
<1>3. RowsOK' /\ \A p \in A!Parts : A!Replays(p)' <=> A!Replays(p)
  BY <1>2, RowsUntouched
<1>4. A!DonePublished'
  BY <1>3, DoneStays
<1>5. ASSUME NEW h \in A!Gens, h # g PROVE HandlerOK(h)'
  BY <1>2, <1>3, <1>5, HandlerStays DEF Moves, A!Current
<1> QED
  BY <1>1, <1>3, <1>4, <1>5 DEF AudioAll

\* The same, and the files stay too.
LEMMA MoveAlone ==
  ASSUME AudioAll, NEW g \in A!Gens, NEW pc, NEW at, NEW cut, Moves(g, pc, at, cut), HandlerOK(g)',
         UNCHANGED <<limit, source, audioJob, claims, rows, files, delivered, chat, restarts>>
  PROVE  AudioAll'
BY MoveStep DEF AudioAll, A!TypeOK, RowsOK, A!QueuedPieceHasFile

LEMMA HandlerParts ==
  ASSUME AudioAll, NEW g \in A!Gens, worker[g].pc # "idle"
  PROVE  /\ HandlerOK(g) /\ worker[g] \in A!Worker /\ worker[g].at \in 1 .. NParts + 1
         /\ worker[g].parts \subseteq A!Parts /\ g <= claims
         /\ worker[g].at <= NParts => worker[g].at \in A!Parts /\ worker[g].at + 1 \in 1 .. NParts + 1
         /\ worker[g].at > NParts => \A q \in A!Parts : q < worker[g].at
<1>1. HandlerOK(g) /\ worker[g] \in A!Worker
  BY DEF AudioAll, A!TypeOK
<1> QED
  BY <1>1, WorkerFacts, PieceFacts DEF HandlerOK, A!Parts

\* A handler that goes on without splitting, past parts that are published or were deleted.
LEMMA WalksOn ==
  ASSUME AudioAll, NEW g \in A!Gens, NEW pc \in {"preflight", "publish"}, NEW at \in 1 .. NParts + 1, Moves(g, pc, at, 0),
         worker[g].pc # "idle", worker[g].pc = "preflight" => pc = "preflight" \/ at = 1,
         worker[g].pc # "preflight" =>
            /\ pc = "publish" /\ at = worker[g].at + 1
            /\ \A q \in worker[g].parts : q = worker[g].at => A!Replays(q),
         UNCHANGED <<source, rows, claims>>
  PROVE  HandlerOK(g)'
<1>1. HandlerOK(g) /\ worker[g].at \in 1 .. NParts + 1 /\ g <= claims
  BY HandlerParts
<1>2. \A p \in A!Parts, i \in A!Piece : rows[p][i].gen = g => pc # "preflight" /\ p < at
  BY <1>1, PieceFacts DEF HandlerOK
<1>3. pc # "preflight" => \A q \in worker[g].parts : q < at => A!Replays(q)
  <2>1. SUFFICES ASSUME pc # "preflight", NEW q \in worker[g].parts, q < at PROVE A!Replays(q)
    OBVIOUS
  <2>2. q \in A!Parts /\ q \in Nat /\ q >= 1
    BY HandlerParts, PieceFacts DEF A!Parts
  <2>3. worker[g].pc # "preflight" /\ q < worker[g].at + 1
    BY <2>1, <2>2
  <2>4. q < worker[g].at \/ q = worker[g].at
    BY <1>1, <2>2, <2>3, PieceFacts
  <2> QED
    BY <1>1, <2>3, <2>4 DEF HandlerOK
<1> QED
  BY <1>1, <1>2, <1>3 DEF HandlerOK, Moves, A!Replays

LEMMA PreflightStep ==
  ASSUME AudioAll, NEW g \in A!Gens, A!Preflight(g)
  PROVE  AudioAll'
<1>0. worker[g].pc = "preflight" /\ worker \in [A!Gens -> A!Worker]
  BY DEF A!Preflight, AudioAll, A!TypeOK
<1>1. CASE A!Throws(g, files)
  BY <1>1, ThrowStep
<1>2. CASE A!Advance(g, "preflight") /\ worker[g].at <= NParts /\ UNCHANGED <<audioJob, files>>
  <2>1. Moves(g, "preflight", worker[g].at + 1, 0) /\ worker[g].at + 1 \in 1 .. NParts + 1
    BY <1>0, <1>2, Advances, HandlerParts
  <2>2. UNCHANGED <<limit, source, claims, rows, delivered, chat, restarts>>
    BY DEF A!Preflight
  <2>3. HandlerOK(g)'
    BY <1>0, <2>1, <2>2, WalksOn
  <2> QED
    BY <1>2, <2>1, <2>2, <2>3, MoveAlone
<1>3. CASE worker' = [worker EXCEPT ![g].pc = "publish", ![g].at = 1] /\ UNCHANGED <<audioJob, files>>
  <2>0. 1 \in 1 .. NParts + 1
    BY PieceFacts
  <2>1. Moves(g, "publish", 1, 0) /\ 1 \in 1 .. NParts + 1
    BY <1>0, <1>3, <2>0, GoesTo
  <2>2. UNCHANGED <<limit, source, claims, rows, delivered, chat, restarts>>
    BY DEF A!Preflight
  <2>3. HandlerOK(g)'
    BY <1>0, <2>1, <2>2, WalksOn
  <2> QED
    BY <1>3, <2>1, <2>2, <2>3, MoveAlone
<1>4. worker[g].at <= NParts \/ worker[g].at > NParts
  BY <1>0, HandlerParts, PieceFacts
<1> QED
  BY <1>1, <1>2, <1>3, <1>4 DEF A!Preflight

LEMMA SkipStep ==
  ASSUME AudioAll, NEW g \in A!Gens, A!SkipPart(g)
  PROVE  AudioAll'
<1>0. /\ worker[g].pc = "publish" /\ worker[g].at \in A!Parts \ worker[g].parts /\ worker \in [A!Gens -> A!Worker]
      /\ worker[g].at <= NParts
  BY DEF A!SkipPart, AudioAll, A!TypeOK, A!Parts
<1>1. Moves(g, "publish", worker[g].at + 1, 0) /\ worker[g].at + 1 \in 1 .. NParts + 1
  BY <1>0, Advances, HandlerParts DEF A!SkipPart
<1>2. UNCHANGED <<limit, source, audioJob, claims, rows, files, delivered, chat, restarts>>
  BY DEF A!SkipPart
<1>3. HandlerOK(g)'
  BY <1>0, <1>1, <1>2, WalksOn
<1> QED
  BY <1>1, <1>2, <1>3, MoveAlone

LEMMA OversizeStep ==
  ASSUME AudioAll, NEW g \in A!Gens, A!Oversize(g)
  PROVE  AudioAll'
<1>0. /\ worker[g].pc = "publish" /\ worker[g].at \in worker[g].parts /\ worker \in [A!Gens -> A!Worker]
      /\ worker[g].at <= NParts
  BY HandlerParts DEF A!Oversize, AudioAll, A!TypeOK, A!Parts
<1>1. CASE A!Throws(g, files)
  BY <1>1, ThrowStep
<1>2. CASE A!Replays(worker[g].at) /\ A!Advance(g, "publish")
           /\ UNCHANGED <<limit, source, audioJob, claims, rows, files, delivered, chat, restarts>>
  <2>1. Moves(g, "publish", worker[g].at + 1, 0) /\ worker[g].at + 1 \in 1 .. NParts + 1
    BY <1>0, <1>2, Advances, HandlerParts
  <2>2. HandlerOK(g)'
    BY <1>0, <1>2, <2>1, WalksOn
  <2> QED
    BY <1>2, <2>1, <2>2, MoveAlone
<1>3. CASE ~A!Replays(worker[g].at) /\ worker' = [worker EXCEPT ![g].pc = "split"]
           /\ UNCHANGED <<limit, source, audioJob, claims, rows, files, delivered, chat, restarts>>
  <2>1. Moves(g, "split", worker[g].at, 0)
    BY <1>0, <1>3, GoesOn
  <2>2. HandlerOK(g)'
    BY <1>0, <1>3, <2>1, HandlerParts DEF HandlerOK, Moves, A!Replays
  <2> QED
    BY <1>3, <2>1, <2>2, MoveAlone
<1> QED
  BY <1>1, <1>2, <1>3 DEF A!Oversize

LEMMA FinishStep ==
  ASSUME AudioAll, NEW g \in A!Gens, A!Finish(g)
  PROVE  AudioAll'
<1>1. /\ worker[g].pc = "publish" /\ worker[g].at > NParts /\ worker' = [worker EXCEPT ![g] = A!Idle]
      /\ UNCHANGED <<limit, source, claims, rows, files, delivered, chat, restarts>>
      /\ audioJob' \in {audioJob, "done"}
  BY DEF A!Finish
<1>2. worker'[g].pc = "idle" /\ worker' \in [A!Gens -> A!Worker] /\ \A h \in A!Gens : h # g => worker'[h] = worker[h]
  BY <1>1, IdleFacts DEF AudioAll, A!TypeOK
<1>3. A!TypeOK'
  BY <1>1, <1>2 DEF AudioAll, A!TypeOK
<1>4. claims' >= claims /\ claims' \in Nat
  BY <1>1, PieceFacts DEF AudioAll, A!TypeOK
<1>5. RowsOK' /\ \A p \in A!Parts : A!Replays(p)' <=> A!Replays(p)
  BY <1>1, <1>4, RowsUntouched DEF AudioAll, RowsOK, A!QueuedPieceHasFile
<1>6. \A q \in A!Parts : source[q] # "deleted" => A!Replays(q)
  <2>1. HandlerOK(g) /\ \A q \in A!Parts : q < worker[g].at
    BY <1>1, HandlerParts
  <2> QED
    BY <1>1, <2>1 DEF HandlerOK
<1>7. A!DonePublished'
  BY <1>1, <1>5, <1>6 DEF A!DonePublished, A!Replays
<1>8. \A h \in A!Gens : HandlerOK(h)'
  BY <1>1, <1>2, <1>4, <1>5, HandlerStays, HandlerIdle DEF A!Current
<1> QED
  BY <1>3, <1>5, <1>7, <1>8 DEF AudioAll

LEMMA SplitStep ==
  ASSUME AudioAll, NEW g \in A!Gens, A!Split(g)
  PROVE  AudioAll'
<1> DEFINE p == worker[g].at
           n == A!Pieces(p, limit)
<1>0. worker[g].pc = "split" /\ worker[g] \in A!Worker /\ p \in A!Parts /\ worker \in [A!Gens -> A!Worker]
  BY HandlerParts DEF A!Split, AudioAll, A!TypeOK, HandlerOK
<1>1. CASE A!Throws(g, files \ A!Own(p, g))
  BY <1>0, <1>1, ThrowStep
<1>2. CASE /\ files' = (files \ A!Own(p, g)) \cup {A!Artifact(p, i, g) : i \in 1 .. n}
           /\ worker' = [worker EXCEPT ![g].pc = "commit", ![g].cut = n]
           /\ UNCHANGED <<limit, source, audioJob, claims, rows, delivered, chat, restarts>>
  <2>0. limit \in Limits
    BY DEF AudioAll, A!TypeOK
  <2>1. n \in 1 .. MostPieces /\ n \in 0 .. MostPieces
    <3>1. n \in 1 .. MostPieces
      BY <1>0, <2>0, PiecesFacts
    <3> QED
      BY <3>1, PieceFacts
  <2>2. Moves(g, "commit", p, n)
    BY <1>0, <1>2, <2>1, Cuts
  <2>3. \A i \in 1 .. n : A!Artifact(p, i, g) \in files' /\ i \in A!Piece
    BY <1>2, <2>1, PieceFacts
  <2>4. files' \subseteq A!Parts \X A!Piece \X A!Gens
    <3>1. files \subseteq A!Parts \X A!Piece \X A!Gens
      BY DEF AudioAll, A!TypeOK
    <3> QED
      BY <1>0, <1>2, <2>3, <3>1 DEF A!Artifact
  <2>5. HandlerOK(g)'
    <3>1. HandlerOK(g) /\ g <= claims /\ p \in worker[g].parts /\ (A!Current(g) => ~A!Replays(p))
      BY <1>0, HandlerParts DEF HandlerOK
    <3>2. worker'[g].pc = "commit" /\ worker'[g].at = p /\ worker'[g].parts = worker[g].parts /\ worker'[g].cut = n
      BY <2>2 DEF Moves
    <3>3. worker'[g].cut >= 1 /\ \A i \in 1 .. worker'[g].cut : A!Artifact(worker'[g].at, i, g) \in files'
      BY <2>1, <2>3, <3>2, PieceFacts
    <3>4. \A q \in A!Parts, i \in A!Piece : rows'[q][i].gen = g => q < worker'[g].at
      BY <1>0, <1>2, <3>1, <3>2 DEF HandlerOK
    <3>5. A!Current(g)' => ~A!Replays(worker[g].at)'
      BY <1>2, <3>1, <3>2 DEF A!Current, A!Replays
    <3>6. /\ \A q \in A!Parts \ worker'[g].parts : source'[q] = "deleted"
          /\ \A q \in worker'[g].parts : q < worker'[g].at => A!Replays(q)'
      BY <1>0, <1>2, <3>1, <3>2 DEF HandlerOK, A!Replays
    <3> QED
      BY <1>2, <3>1, <3>2, <3>3, <3>4, <3>5, <3>6 DEF HandlerOK
  <2>6. files \ A!Own(p, g) \subseteq files'
    BY <1>2
  <2> QED
    BY <1>0, <1>2, <2>2, <2>4, <2>5, <2>6, OwnFilesOnly, MoveStep
<1> QED
  BY <1>1, <1>2 DEF A!Split

LEMMA RowIs ==
  ASSUME NEW s \in {"absent", "pending", "sent", "dead"}, NEW of \in 0 .. MostPieces, NEW gen \in 0 .. MaxClaims
  PROVE  [state |-> s, of |-> of, gen |-> gen] \in A!Row
BY DEF A!Row

\* The claim that publishes is the newest, and the only one that is current.
LEMMA OthersStay ==
  ASSUME AudioAll, NEW g \in A!Gens, A!Current(g), UNCHANGED <<source, claims, files, audioJob>>,
         NEW h \in A!Gens, h # g, worker'[h] = worker[h],
         \A q \in A!Parts, i \in A!Piece : rows'[q][i].gen = rows[q][i].gen \/ rows'[q][i].gen \in {0, g},
         \A q \in A!Parts : A!Replays(q) => A!Replays(q)'
  PROVE  HandlerOK(h)'
<1>1. ~A!Current(h)'
  BY DEF A!Current
<1>2. claims' >= claims /\ claims' \in Nat /\ h # 0
  BY PieceFacts DEF AudioAll, A!TypeOK
<1> QED
  BY <1>1, <1>2, HandlerStays

\* A handler that leaves a part it has published.
LEMMA PublishesOn ==
  ASSUME AudioAll, NEW g \in A!Gens, NEW p \in A!Parts, p = worker[g].at,
         worker[g].pc \in {"publish", "commit"}, worker[g].at \in worker[g].parts,
         Moves(g, "publish", worker[g].at + 1, 0), UNCHANGED <<source, claims>>,
         \A q \in A!Parts, i \in A!Piece : rows'[q][i].gen = rows[q][i].gen \/ rows'[q][i].gen = 0 \/ q = p,
         \A q \in A!Parts : A!Replays(q) => A!Replays(q)', A!Replays(p)'
  PROVE  HandlerOK(g)'
<1>1. HandlerOK(g) /\ worker[g].at \in 1 .. NParts + 1 /\ g <= claims /\ worker[g].parts \subseteq A!Parts
  BY HandlerParts
<1>2. ASSUME NEW q \in A!Parts, NEW i \in A!Piece, rows'[q][i].gen = g PROVE q < worker[g].at + 1
  <2>1. q \in Nat /\ worker[g].at \in Nat /\ g # 0
    BY <1>1, PieceFacts
  <2>2. q < worker[g].at \/ q = worker[g].at
    BY <1>1, <1>2, <2>1 DEF HandlerOK
  <2> QED
    BY <2>1, <2>2
<1>3. ASSUME NEW q \in worker[g].parts, q < worker[g].at + 1 PROVE A!Replays(q)'
  <2>1. q \in Nat /\ q \in A!Parts /\ worker[g].at \in Nat
    BY <1>1, PieceFacts
  <2>2. q < worker[g].at \/ q = worker[g].at
    BY <1>3, <2>1
  <2> QED
    BY <1>1, <2>1, <2>2 DEF HandlerOK
<1> QED
  BY <1>1, <1>2, <1>3 DEF HandlerOK, Moves, A!Replays

LEMMA PublishStep ==
  ASSUME AudioAll, NEW g \in A!Gens, A!PublishDirect(g)
  PROVE  AudioAll'
<1>0. /\ worker[g].pc = "publish" /\ worker[g].at \in worker[g].parts /\ worker \in [A!Gens -> A!Worker]
      /\ worker[g].at \in A!Parts /\ worker[g].at <= NParts
  BY HandlerParts DEF A!PublishDirect, AudioAll, A!TypeOK, A!Parts
<1>1. CASE A!Throws(g, files)
  BY <1>1, ThrowStep
<1>2. CASE A!Current(g) /\ A!Advance(g, "publish")
           /\ UNCHANGED <<limit, source, audioJob, claims, files, delivered, chat, restarts>>
           /\ rows' = IF rows[worker[g].at][0].state = "absent"
                      THEN [rows EXCEPT ![worker[g].at][0] = [A!NoRow EXCEPT !.state = "pending"]] ELSE rows
  <2>0. PICK p \in A!Parts : p = worker[g].at
    BY <1>0
  <2>1. Moves(g, "publish", worker[g].at + 1, 0)
    BY <1>0, <1>2, Advances
  <2>2. PICK new \in A!Row : /\ new = [A!NoRow EXCEPT !.state = "pending"]
                           /\ new.state = "pending" /\ new.of = 0 /\ new.gen = 0
    <3>1. [state |-> "pending", of |-> 0, gen |-> 0] \in A!Row
      BY PieceFacts, RowIs
    <3>2. [A!NoRow EXCEPT !.state = "pending"] = [state |-> "pending", of |-> 0, gen |-> 0]
      BY DEF A!NoRow
    <3> QED
      BY <3>1, <3>2
  <2>3. rows \in [A!Parts -> [A!Piece -> A!Row]] /\ 0 \in A!Piece
    BY PieceFacts DEF AudioAll, A!TypeOK
  <2>4. /\ rows' \in [A!Parts -> [A!Piece -> A!Row]]
        /\ \A q \in A!Parts, i \in A!Piece : rows'[q][i] = rows[q][i] \/ (q = p /\ i = 0 /\ rows'[q][i] = new)
        /\ rows'[p][0].state # "absent"
    BY <1>2, <2>0, <2>2, <2>3
  <2>5. A!TypeOK'
    BY <1>2, <2>1, <2>4 DEF AudioAll, A!TypeOK, Moves
  <2>6. \A q \in A!Parts, i \in A!Piece : rows'[q][i].gen = rows[q][i].gen \/ rows'[q][i].gen = 0
    BY <2>2, <2>4
  <2>7. /\ \A q \in A!Parts : A!Replays(q) => A!Replays(q)'
        /\ A!Replays(p)'
    BY <2>2, <2>3, <2>4 DEF A!Replays
  <2>8. RowsOK'
    <3>1. \A q \in A!Parts, i \in A!Piece : rows'[q][i].gen <= claims'
      BY <1>2, <2>2, <2>4, PieceFacts DEF AudioAll, RowsOK, A!TypeOK
    <3>2. \A q \in A!Parts, i \in A!Piece \ {0} : rows'[q][i] = rows[q][i]
      BY <2>4
    <3>3. A!WholeSplits'
      BY <3>2 DEF A!WholeSplits, AudioAll, RowsOK
    <3>4. A!SentIsHeard'
      BY <1>2, <2>2, <2>3, <2>4 DEF A!SentIsHeard, AudioAll, RowsOK
    <3>5. A!DeliveredWasHeard' /\ A!QueuedPieceHasFile'
      BY <1>2, <3>2 DEF A!DeliveredWasHeard, A!QueuedPieceHasFile, AudioAll, RowsOK, A!Artifact
    <3> QED
      BY <3>1, <3>3, <3>4, <3>5 DEF RowsOK
  <2>9. A!DonePublished'
    BY <1>2, <2>7, DoneStays
  <2>10. HandlerOK(g)'
    BY <1>0, <1>2, <2>0, <2>1, <2>6, <2>7, PublishesOn
  <2>11. ASSUME NEW h \in A!Gens, h # g PROVE HandlerOK(h)'
    BY <1>2, <2>1, <2>6, <2>7, <2>11, OthersStay DEF Moves
  <2> QED
    BY <2>5, <2>8, <2>9, <2>10, <2>11 DEF AudioAll
<1> QED
  BY <1>1, <1>2 DEF A!PublishDirect

LEMMA CommitStep ==
  ASSUME AudioAll, NEW g \in A!Gens, A!CommitSplit(g)
  PROVE  AudioAll'
<1>0. /\ worker[g].pc = "commit" /\ worker[g].at \in worker[g].parts /\ worker \in [A!Gens -> A!Worker]
      /\ worker[g].at \in A!Parts /\ worker[g].at <= NParts /\ HandlerOK(g)
      /\ worker[g].cut \in 1 .. MostPieces
  <2>1. worker[g].pc = "commit" /\ worker \in [A!Gens -> A!Worker]
    BY DEF A!CommitSplit, AudioAll, A!TypeOK
  <2>2. HandlerOK(g) /\ worker[g] \in A!Worker /\ worker[g].parts \subseteq A!Parts
    BY <2>1, HandlerParts
  <2>3. worker[g].at \in worker[g].parts /\ worker[g].cut >= 1
    BY <2>1, <2>2 DEF HandlerOK
  <2>4. worker[g].cut \in 0 .. MostPieces
    BY <2>2, WorkerFacts
  <2> QED
    BY <2>1, <2>2, <2>3, <2>4, PieceFacts DEF A!Parts
<1> DEFINE cut == 1 .. worker[g].cut
           Conflict(i) == rows[worker[g].at][i].state # "absent"
<1>1. CASE A!Throws(g, files \ A!Own(worker[g].at, g))
  BY <1>0, <1>1, ThrowStep
<1>2. CASE /\ A!Current(g) /\ A!Advance(g, "publish")
           /\ UNCHANGED <<limit, source, audioJob, claims, delivered, chat, restarts>>
           /\ rows' = [rows EXCEPT ![worker[g].at] =
                 [i \in A!Piece |-> IF i \in cut /\ ~Conflict(i)
                                  THEN [state |-> "pending", of |-> worker[g].cut, gen |-> g]
                                  ELSE rows[worker[g].at][i]]]
           /\ files' = files \ {A!Artifact(worker[g].at, i, g) : i \in {k \in cut : Conflict(k)}}
  <2>0. PICK p \in A!Parts, n \in 1 .. MostPieces : p = worker[g].at /\ n = worker[g].cut
    BY <1>0
  <2>1. Moves(g, "publish", worker[g].at + 1, 0)
    BY <1>0, <1>2, Advances
  <2>2. PICK new \in A!Row : /\ new = [state |-> "pending", of |-> n, gen |-> g]
                           /\ new.state = "pending" /\ new.of = n /\ new.gen = g
    <3>1. [state |-> "pending", of |-> n, gen |-> g] \in A!Row
      BY PieceFacts, RowIs
    <3> QED
      BY <3>1
  <2>3. rows \in [A!Parts -> [A!Piece -> A!Row]] /\ 0 \in A!Piece /\ 0 \notin 1 .. n /\ 1 .. n \subseteq A!Piece
        /\ 1 \in 1 .. n /\ A!Piece \subseteq Nat
    BY PieceFacts DEF AudioAll, A!TypeOK
  <2>4. \A i \in A!Piece : rows[p][i].state = "absent"
    BY <1>0, <1>2, <2>0 DEF HandlerOK, A!Replays
  <2>5. files' = files
    BY <1>2, <2>0, <2>3, <2>4
  <2>6. /\ \A i \in A!Piece : rows'[p][i] = IF i \in 1 .. n THEN new ELSE rows[p][i]
        /\ \A q \in A!Parts : q # p => rows'[q] = rows[q]
        /\ rows' \in [A!Parts -> [A!Piece -> A!Row]]
    BY <1>2, <2>0, <2>2, <2>3, <2>4
  <2>7. A!TypeOK'
    BY <1>2, <2>1, <2>5, <2>6 DEF AudioAll, A!TypeOK, Moves
  <2>8. /\ \A q \in A!Parts, i \in A!Piece : rows'[q][i].gen = rows[q][i].gen \/ (q = p /\ rows'[q][i].gen = g)
        /\ \A q \in A!Parts : A!Replays(q) => A!Replays(q)'
        /\ A!Replays(p)'
    BY <2>2, <2>3, <2>6 DEF A!Replays
  <2>9. RowsOK'
    <3>1. \A q \in A!Parts, i \in A!Piece : rows'[q][i].gen <= claims'
      <4>1. g <= claims
        BY <1>0 DEF HandlerOK
      <4> QED
        BY <1>2, <2>8, <4>1 DEF AudioAll, RowsOK
    <3>2. A!WholeSplits'
      <4>1. ASSUME NEW q \in A!Parts, NEW i \in A!Piece \ {0}, rows'[q][i].state # "absent"
            PROVE  /\ rows'[q][i].of >= 1
                   /\ \A k \in A!Piece \ {0} :
                       /\ rows'[q][k].state # "absent" <=> k <= rows'[q][i].of
                       /\ rows'[q][k].state # "absent" => rows'[q][k].of = rows'[q][i].of
        <5>1. CASE q = p
          <6>1. i \in 1 .. n /\ rows'[p][i].of = n
            BY <2>2, <2>4, <2>6, <4>1, <5>1
          <6>2. \A k \in A!Piece \ {0} : k \in 1 .. n <=> k <= n
            BY <2>3, PieceFacts
          <6>3. n >= 1
            OBVIOUS
          <6>4. \A k \in A!Piece \ {0} : rows'[p][k].state # "absent" <=> k \in 1 .. n
            BY <2>2, <2>4, <2>6
          <6>5. \A k \in A!Piece \ {0} : rows'[p][k].state # "absent" => rows'[p][k].of = n
            BY <2>2, <2>4, <2>6
          <6> QED
            BY <5>1, <6>1, <6>2, <6>3, <6>4, <6>5
        <5>2. CASE q # p
          BY <2>6, <4>1, <5>2 DEF AudioAll, RowsOK, A!WholeSplits
        <5> QED
          BY <5>1, <5>2
      <4> QED
        BY <4>1 DEF A!WholeSplits
    <3>3. A!SentIsHeard'
      <4>1. \A q \in A!Parts, i \in A!Piece : rows'[q][i].state = "sent" => rows'[q][i] = rows[q][i]
        BY <2>2, <2>4, <2>6
      <4>2. \A q \in A!Parts : rows'[q][0] = rows[q][0]
        BY <2>3, <2>6
      <4> QED
        BY <1>2, <2>3, <4>1, <4>2 DEF A!SentIsHeard, AudioAll, RowsOK
    <3>4. A!DeliveredWasHeard'
      BY <1>2 DEF A!DeliveredWasHeard, AudioAll, RowsOK
    <3>5. A!QueuedPieceHasFile'
      <4>1. \A i \in 1 .. n : A!Artifact(p, i, g) \in files
        BY <1>0, <2>0 DEF HandlerOK
      <4> QED
        BY <2>2, <2>4, <2>5, <2>6, <4>1 DEF A!QueuedPieceHasFile, AudioAll, RowsOK, A!Artifact
    <3> QED
      BY <3>1, <3>2, <3>3, <3>4, <3>5 DEF RowsOK
  <2>10. A!DonePublished'
    BY <1>2, <2>8, DoneStays
  <2>11. HandlerOK(g)'
    BY <1>0, <1>2, <2>0, <2>1, <2>8, PublishesOn
  <2>12. ASSUME NEW h \in A!Gens, h # g PROVE HandlerOK(h)'
    BY <1>2, <2>1, <2>5, <2>8, <2>12, OthersStay DEF Moves
  <2> QED
    BY <2>7, <2>9, <2>10, <2>11, <2>12 DEF AudioAll
<1> QED
  BY <1>1, <1>2 DEF A!CommitSplit

-----------------------------------------------------------------------------
(* The outbox *)

LEMMA RowBecomes ==
  ASSUME NEW r \in A!Row, NEW s \in {"pending", "sent", "dead"}
  PROVE  /\ [r EXCEPT !.state = s] \in A!Row /\ [r EXCEPT !.state = s].state = s
         /\ [r EXCEPT !.state = s].of = r.of /\ [r EXCEPT !.state = s].gen = r.gen
BY DEF A!Row

\* A row changes its state, and neither its split nor its file.
LEMMA RowMoves ==
  ASSUME AudioAll, NEW p \in A!Parts, NEW i \in A!Piece, NEW s \in {"pending", "sent", "dead"}, rows[p][i].state # "absent",
         rows' = [rows EXCEPT ![p][i].state = s]
  PROVE  /\ rows' \in [A!Parts -> [A!Piece -> A!Row]] /\ rows'[p][i].state = s
         /\ \A q \in A!Parts, k \in A!Piece : q # p \/ k # i => rows'[q][k] = rows[q][k]
         /\ \A q \in A!Parts, k \in A!Piece :
              /\ rows'[q][k].state = "absent" <=> rows[q][k].state = "absent"
              /\ rows'[q][k].of = rows[q][k].of /\ rows'[q][k].gen = rows[q][k].gen
<1>1. rows \in [A!Parts -> [A!Piece -> A!Row]] /\ rows[p][i] \in A!Row
  BY DEF AudioAll, A!TypeOK
<1>2. PICK new \in A!Row : /\ new = [rows[p][i] EXCEPT !.state = s] /\ new.state = s
                         /\ new.of = rows[p][i].of /\ new.gen = rows[p][i].gen
  <2>1. [rows[p][i] EXCEPT !.state = s] \in A!Row
    BY <1>1, RowBecomes
  <2>2. /\ [rows[p][i] EXCEPT !.state = s].state = s /\ [rows[p][i] EXCEPT !.state = s].of = rows[p][i].of
        /\ [rows[p][i] EXCEPT !.state = s].gen = rows[p][i].gen
    BY <1>1, RowBecomes
  <2> QED
    BY <2>1, <2>2
<1>3. rows' = [rows EXCEPT ![p] = [rows[p] EXCEPT ![i] = new]]
  BY <1>1, <1>2
<1>4. /\ rows' \in [A!Parts -> [A!Piece -> A!Row]] /\ rows'[p][i] = new
      /\ \A q \in A!Parts, k \in A!Piece : q # p \/ k # i => rows'[q][k] = rows[q][k]
  BY <1>1, <1>2, <1>3
<1>5. new.state # "absent"
  BY <1>2
<1>6. ASSUME NEW q \in A!Parts, NEW k \in A!Piece
      PROVE  /\ rows'[q][k].state = "absent" <=> rows[q][k].state = "absent"
             /\ rows'[q][k].of = rows[q][k].of /\ rows'[q][k].gen = rows[q][k].gen
  <2>1. CASE q = p /\ k = i
    BY <1>2, <1>4, <1>5, <2>1
  <2>2. CASE q # p \/ k # i
    BY <1>4, <2>2
  <2> QED
    BY <2>1, <2>2
<1> QED
  BY <1>2, <1>4, <1>6

\* What it leaves of the invariant.
LEMMA RowStep ==
  ASSUME AudioAll, UNCHANGED <<limit, source, audioJob, claims, worker, restarts>>,
         \A q \in A!Parts, k \in A!Piece :
              /\ rows'[q][k].state = "absent" <=> rows[q][k].state = "absent"
              /\ rows'[q][k].of = rows[q][k].of /\ rows'[q][k].gen = rows[q][k].gen,
         \A h \in A!Gens : worker[h].pc # "idle" => \A k \in A!Piece : A!Artifact(worker[h].at, k, h) \in files =>
            A!Artifact(worker[h].at, k, h) \in files'
  PROVE  /\ \A q \in A!Parts, k \in A!Piece : rows'[q][k].gen <= claims'
         /\ A!WholeSplits' /\ A!DonePublished' /\ \A h \in A!Gens : HandlerOK(h)'
<1>1. \A q \in A!Parts : A!Replays(q)' <=> A!Replays(q)
  BY DEF A!Replays
<1>2. claims' >= claims /\ claims' \in Nat
  BY PieceFacts DEF AudioAll, A!TypeOK
<1>3. \A q \in A!Parts, k \in A!Piece : rows'[q][k].gen <= claims'
  BY DEF AudioAll, RowsOK
<1>4. A!WholeSplits'
  BY DEF AudioAll, RowsOK, A!WholeSplits
<1>5. A!DonePublished'
  BY <1>1, DoneStays
<1>6. \A h \in A!Gens : HandlerOK(h)'
  <2>1. SUFFICES ASSUME NEW h \in A!Gens PROVE HandlerOK(h)'
    OBVIOUS
  <2>2. CASE worker[h].pc = "idle"
    BY <2>2, HandlerIdle
  <2>3. CASE worker[h].pc # "idle"
    BY <1>1, <1>2, <2>3, HandlerStays DEF A!Current
  <2> QED
    BY <2>2, <2>3
<1> QED
  BY <1>3, <1>4, <1>5, <1>6

LEMMA DiesOrRetriedStep ==
  ASSUME AudioAll, NEW p \in A!Parts, NEW i \in A!Piece, A!Dies(p, i) \/ A!RetryRow(p, i)
  PROVE  AudioAll'
<1>1. PICK s \in {"pending", "dead"} :
        /\ rows[p][i].state # "absent" /\ rows' = [rows EXCEPT ![p][i].state = s]
        /\ s = "pending" /\ i # 0 => A!Artifact(p, i, rows[p][i].gen) \in files
  BY DEF A!Dies, A!RetryRow
<1>2. UNCHANGED <<limit, source, audioJob, claims, worker, files, delivered, chat, restarts>>
  BY DEF A!Dies, A!RetryRow
<1>3. /\ rows' \in [A!Parts -> [A!Piece -> A!Row]] /\ rows'[p][i].state = s
      /\ \A q \in A!Parts, k \in A!Piece : q # p \/ k # i => rows'[q][k] = rows[q][k]
  BY <1>1, RowMoves
<1>4. \A q \in A!Parts, k \in A!Piece :
          /\ rows'[q][k].state = "absent" <=> rows[q][k].state = "absent"
          /\ rows'[q][k].of = rows[q][k].of /\ rows'[q][k].gen = rows[q][k].gen
  BY <1>1, RowMoves
<1>5. /\ \A q \in A!Parts, k \in A!Piece : rows'[q][k].gen <= claims'
      /\ A!WholeSplits' /\ A!DonePublished' /\ \A h \in A!Gens : HandlerOK(h)'
  BY <1>2, <1>4, RowStep
<1>6. A!SentIsHeard'
  <2>1. \A q \in A!Parts, k \in A!Piece : rows'[q][k].state = "sent" => rows[q][k].state = "sent"
    <3>1. SUFFICES ASSUME NEW q \in A!Parts, NEW k \in A!Piece, rows'[q][k].state = "sent" PROVE rows[q][k].state = "sent"
      OBVIOUS
    <3>2. q # p \/ k # i
      BY <1>1, <1>3, <3>1
    <3> QED
      BY <1>3, <3>1, <3>2
  <2>2. ASSUME NEW q \in A!Parts, NEW k \in A!Piece
        PROVE  (rows'[q][k].state = "sent" => <<q, k, rows'[q][k].of>> \in chat') /\ rows'[q][0].of = 0
    <3>1. /\ rows[q][k].state = "sent" => <<q, k, rows[q][k].of>> \in chat
          /\ rows[q][0].of = 0
      BY DEF AudioAll, RowsOK, A!SentIsHeard
    <3>2. rows'[q][k].of = rows[q][k].of /\ rows'[q][0].of = rows[q][0].of
      BY <1>4, PieceFacts
    <3> QED
      BY <1>2, <2>1, <3>1, <3>2
  <2> QED
    BY <2>2 DEF A!SentIsHeard
<1>7. A!QueuedPieceHasFile'
  <2>1. ASSUME NEW q \in A!Parts, NEW k \in A!Piece \ {0}, rows'[q][k].state = "pending"
        PROVE  A!Artifact(q, k, rows[q][k].gen) \in files
    <3>1. CASE q = p /\ k = i
      BY <1>1, <1>3, <2>1, <3>1
    <3>2. CASE q # p \/ k # i
      BY <1>3, <2>1, <3>2 DEF AudioAll, RowsOK, A!QueuedPieceHasFile
    <3> QED
      BY <3>1, <3>2
  <2> QED
    BY <1>2, <1>4, <2>1 DEF A!QueuedPieceHasFile, A!Artifact
<1>8. A!DeliveredWasHeard'
  BY <1>2 DEF AudioAll, RowsOK, A!DeliveredWasHeard
<1>9. A!TypeOK'
  BY <1>2, <1>3 DEF AudioAll, A!TypeOK
<1> QED
  BY <1>5, <1>6, <1>7, <1>8, <1>9 DEF AudioAll, RowsOK

\* A manifest whose rows were all sent was heard.
LEMMA ManifestHeard ==
  ASSUME NEW r \in [A!Parts -> [A!Piece -> A!Row]], NEW c, NEW p \in A!Parts, A!ManifestSent(r, p),
         \A i \in A!Piece \ {0} : r[p][i].state # "absent" =>
            /\ r[p][i].of >= 1
            /\ \A k \in A!Piece \ {0} :
                /\ r[p][k].state # "absent" <=> k <= r[p][i].of
                /\ r[p][k].state # "absent" => r[p][k].of = r[p][i].of,
         \A i \in A!Piece : r[p][i].state = "sent" => <<p, i, r[p][i].of>> \in c,
         r[p][0].of = 0
  PROVE  <<p, 0, 0>> \in c \/ \E n \in 1 .. MostPieces : \A i \in 1 .. n : <<p, i, n>> \in c
<1>1. /\ A!Existing(r, p) # {} /\ A!Existing(r, p) \subseteq A!Piece
      /\ \A i \in A!Existing(r, p) : r[p][i].state = "sent"
      /\ \A i \in A!Piece : i \in A!Existing(r, p) <=> r[p][i].state # "absent"
  BY DEF A!ManifestSent, A!Existing
<1>2. CASE A!Existing(r, p) = {0}
  BY <1>1, <1>2, PieceFacts
<1>3. CASE A!Existing(r, p) # {0}
  <2>1. PICK x \in A!Existing(r, p) : x # 0
    BY <1>1, <1>3
  <2>2. PICK n \in Nat : n = r[p][x].of /\ n \in 1 .. MostPieces
    <3>1. r[p][x].of \in 0 .. MostPieces /\ r[p][x].of >= 1
      BY <1>1, <2>1 DEF A!Row
    <3> QED
      BY <3>1, PieceFacts
  <2>3. ASSUME NEW k \in 1 .. n PROVE <<p, k, n>> \in c
    <3>1. k \in A!Piece \ {0} /\ k <= n
      BY <2>2, PieceFacts DEF A!Piece
    <3>2. r[p][k].state # "absent" /\ r[p][k].of = n
      BY <1>1, <2>1, <2>2, <3>1
    <3> QED
      BY <1>1, <3>1, <3>2
  <2> QED
    BY <2>2, <2>3
<1> QED
  BY <1>2, <1>3

LEMMA SendStep ==
  ASSUME AudioAll, NEW p \in A!Parts, NEW i \in A!Piece, A!Send(p, i)
  PROVE  AudioAll'
<1>1. /\ rows[p][i].state = "pending" /\ rows' = [rows EXCEPT ![p][i].state = "sent"]
      /\ chat' = chat \cup {<<p, i, rows[p][i].of>>}
      /\ delivered' = [delivered EXCEPT ![p] = @ \/ A!ManifestSent(rows', p)]
      /\ files' \in {files, files \ {A!Artifact(p, i, rows[p][i].gen)}}
      /\ UNCHANGED <<limit, source, audioJob, claims, worker, restarts>>
  BY DEF A!Send, A!MarkAudioDelivered
<1>2. rows[p][i].state # "absent"
  BY <1>1
<1>3. /\ rows' \in [A!Parts -> [A!Piece -> A!Row]] /\ rows'[p][i].state = "sent"
      /\ \A q \in A!Parts, k \in A!Piece : q # p \/ k # i => rows'[q][k] = rows[q][k]
  BY <1>1, <1>2, RowMoves
<1>4. \A q \in A!Parts, k \in A!Piece :
          /\ rows'[q][k].state = "absent" <=> rows[q][k].state = "absent"
          /\ rows'[q][k].of = rows[q][k].of /\ rows'[q][k].gen = rows[q][k].gen
  BY <1>1, <1>2, RowMoves
<1>5. ASSUME NEW h \in A!Gens, worker[h].pc # "idle", NEW k \in A!Piece, A!Artifact(worker[h].at, k, h) \in files
      PROVE  A!Artifact(worker[h].at, k, h) \in files'
  <2>1. HandlerOK(h) /\ worker[h].at \in Nat
    BY <1>5, HandlerParts
  <2>2. rows[p][i].gen = h => p < worker[h].at
    BY <1>5, <2>1 DEF HandlerOK
  <2>3. rows[p][i].gen # h \/ p # worker[h].at
    BY <2>1, <2>2, PieceFacts
  <2> QED
    BY <1>1, <1>5, <2>3 DEF A!Artifact
<1>6. /\ \A q \in A!Parts, k \in A!Piece : rows'[q][k].gen <= claims'
      /\ A!WholeSplits' /\ A!DonePublished' /\ \A h \in A!Gens : HandlerOK(h)'
  BY <1>1, <1>4, <1>5, RowStep
<1>7. A!SentIsHeard'
  <2>1. ASSUME NEW q \in A!Parts, NEW k \in A!Piece, rows'[q][k].state = "sent"
        PROVE  <<q, k, rows'[q][k].of>> \in chat'
    <3>1. CASE q = p /\ k = i
      BY <1>1, <1>4, <3>1
    <3>2. CASE q # p \/ k # i
      BY <1>1, <1>3, <2>1, <3>2 DEF AudioAll, RowsOK, A!SentIsHeard
    <3> QED
      BY <3>1, <3>2
  <2>2. \A q \in A!Parts : rows'[q][0].of = 0
    BY <1>4, PieceFacts DEF AudioAll, RowsOK, A!SentIsHeard
  <2> QED
    BY <2>1, <2>2 DEF A!SentIsHeard
<1>8. A!QueuedPieceHasFile'
  <2>1. ASSUME NEW q \in A!Parts, NEW k \in A!Piece \ {0}, rows'[q][k].state = "pending"
        PROVE  A!Artifact(q, k, rows'[q][k].gen) \in files'
    <3>1. (q # p \/ k # i) /\ rows'[q][k] = rows[q][k]
      BY <1>3, <2>1
    <3>2. A!Artifact(q, k, rows[q][k].gen) \in files
      BY <2>1, <3>1 DEF AudioAll, RowsOK, A!QueuedPieceHasFile
    <3> QED
      BY <1>1, <3>1, <3>2 DEF A!Artifact
  <2> QED
    BY <2>1 DEF A!QueuedPieceHasFile, A!Artifact
<1>9. delivered \in [A!Parts -> BOOLEAN] /\ chat \subseteq chat'
  BY <1>1 DEF AudioAll, A!TypeOK
<1>10. A!DeliveredWasHeard'
  <2>1. ASSUME NEW q \in A!Parts, delivered'[q]
        PROVE  <<q, 0, 0>> \in chat' \/ \E n \in 1 .. MostPieces : \A k \in 1 .. n : <<q, k, n>> \in chat'
    <3>1. CASE delivered[q]
      BY <1>9, <3>1 DEF AudioAll, RowsOK, A!DeliveredWasHeard
    <3>2. CASE ~delivered[q]
      <4>1. q = p /\ A!ManifestSent(rows', p)
        BY <1>1, <1>9, <2>1, <3>2
      <4>2. \A k \in A!Piece \ {0} : rows'[p][k].state # "absent" =>
              /\ rows'[p][k].of >= 1
              /\ \A m \in A!Piece \ {0} :
                  /\ rows'[p][m].state # "absent" <=> m <= rows'[p][k].of
                  /\ rows'[p][m].state # "absent" => rows'[p][m].of = rows'[p][k].of
        BY <1>6 DEF A!WholeSplits
      <4>3. rows'[p][0].of = 0 /\ \A k \in A!Piece : rows'[p][k].state = "sent" => <<p, k, rows'[p][k].of>> \in chat'
        BY <1>7, PieceFacts DEF A!SentIsHeard
      <4> QED
        BY <1>3, <4>1, <4>2, <4>3, ManifestHeard
    <3> QED
      BY <3>1, <3>2
  <2> QED
    BY <2>1 DEF A!DeliveredWasHeard
<1>11. A!TypeOK'
  <2>1. (delivered[p] \/ A!ManifestSent(rows', p)) \in BOOLEAN
    OBVIOUS
  <2>2. delivered' \in [A!Parts -> BOOLEAN]
    BY <1>1, <1>9, <2>1
  <2>3. rows[p][i].of \in 0 .. MostPieces
    BY DEF AudioAll, A!TypeOK, A!Row
  <2>4. chat' \subseteq A!Parts \X A!Piece \X (0 .. MostPieces)
    BY <1>1, <2>3 DEF AudioAll, A!TypeOK
  <2>5. files' \subseteq A!Parts \X A!Piece \X A!Gens
    BY <1>1 DEF AudioAll, A!TypeOK
  <2> QED
    BY <1>1, <1>3, <2>2, <2>4, <2>5 DEF AudioAll, A!TypeOK
<1> QED
  BY <1>6, <1>7, <1>8, <1>10, <1>11 DEF AudioAll, RowsOK

-----------------------------------------------------------------------------
LEMMA AudioAllInit ==
  ASSUME A!Init
  PROVE  AudioAll
<1>1. A!TypeOK
  BY AudioTypeInit
<1>2. /\ \A p \in A!Parts, i \in A!Piece : rows[p][i] = A!NoRow
      /\ \A g \in A!Gens : worker[g].pc = "idle"
      /\ audioJob = "pending" /\ claims = 0 /\ \A p \in A!Parts : ~delivered[p]
  BY IdleFacts DEF A!Init
<1>3. A!NoRow.state = "absent" /\ A!NoRow.of = 0 /\ A!NoRow.gen = 0
  BY DEF A!NoRow
<1>4. RowsOK
  BY <1>2, <1>3, PieceFacts DEF RowsOK, A!WholeSplits, A!SentIsHeard, A!DeliveredWasHeard, A!QueuedPieceHasFile
<1> QED
  BY <1>1, <1>2, <1>4 DEF AudioAll, A!DonePublished, HandlerOK

LEMMA AudioAllStep ==
  ASSUME AudioAll, [A!Next]_(A!vars)
  PROVE  AudioAll'
<1>1. CASE UNCHANGED A!vars
  BY <1>1 DEF A!vars, AudioAll, A!TypeOK, RowsOK, A!WholeSplits, A!SentIsHeard, A!DeliveredWasHeard, A!QueuedPieceHasFile,
     A!DonePublished, HandlerOK, A!Current, A!Replays, A!Artifact
<1>2. CASE A!Claim
  BY <1>2, ClaimStep
<1>3. CASE A!LoseLease \/ A!Restart \/ A!RetryJob \/ \E p \in A!Parts : A!SourceGone(p)
  BY <1>3, JobSteps
<1>4. ASSUME NEW g \in A!Gens, A!Handler(g) PROVE AudioAll'
  BY <1>4, PreflightStep, PublishStep, OversizeStep, SplitStep, CommitStep, SkipStep, FinishStep DEF A!Handler
<1>5. ASSUME NEW p \in A!Parts, NEW i \in A!Piece, A!Send(p, i) \/ A!Dies(p, i) \/ A!RetryRow(p, i) PROVE AudioAll'
  BY <1>5, SendStep, DiesOrRetriedStep
<1> QED
  BY <1>1, <1>2, <1>3, <1>4, <1>5 DEF A!Next

LEMMA AllPublished ==
  ASSUME AudioAll
  PROVE  A!DoneJobPublishedAll
<1>1. SUFFICES ASSUME audioJob = "done", NEW p \in A!Parts, source[p] # "deleted", rows[p][0].state = "absent"
               PROVE  \E i \in A!Piece \ {0} : /\ rows[p][i].state # "absent"
                                             /\ \A k \in 1 .. rows[p][i].of : rows[p][k].of = rows[p][i].of
  BY DEF A!DoneJobPublishedAll
<1>2. PICK i \in A!Piece \ {0} : rows[p][i].state # "absent"
  BY <1>1 DEF AudioAll, A!DonePublished, A!Replays
<1>3. rows[p][i].of \in 0 .. MostPieces
  BY DEF AudioAll, A!TypeOK, A!Row
<1>4. \A k \in 1 .. rows[p][i].of : k \in A!Piece \ {0} /\ k <= rows[p][i].of
  BY <1>3, PieceFacts DEF A!Piece
<1> QED
  BY <1>2, <1>4 DEF AudioAll, RowsOK, A!WholeSplits

\* What is marked delivered was heard in full, a queued piece has its file, and a
\* finished job has published every part (enqueueSessionAudio, markAudioDelivered),
\* for any parts, limits, claims that overlap and crashes between their steps.
THEOREM AudioInvariant == A!Spec => []AudioInv
<1>1. A!Init => AudioAll
  BY AudioAllInit
<1>2. AudioAll /\ [A!Next]_(A!vars) => AudioAll'
  BY AudioAllStep
<1>3. AudioAll => AudioInv
  BY AudioAllIsInv, AllPublished DEF AudioAll, AudioInv
<1> QED
  BY <1>1, <1>2, <1>3, PTL DEF A!Spec
=============================================================================
