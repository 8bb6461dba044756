----------------------------- MODULE InputProofs -----------------------------
(***************************************************************************)
(* Proofs about TelegramInput: for any number of updates of any kind, any  *)
(* attempts, crashes and faults, one file has one outcome, an outcome is   *)
(* not taken back, and no update is forgotten before its outcome is        *)
(* durable.                                                                *)
(***************************************************************************)
EXTENDS MCTelegramInput, TLAPS

LEMMA Sizes ==
  /\ NUpdates \in Nat /\ MaxCrashes \in Nat /\ MaxFaults \in Nat /\ MaxAttempts \in Nat \ {0}
  /\ Updates \subseteq Nat /\ 0 \notin Updates /\ \A u \in Updates : u \in 1 .. NUpdates
BY InputAssumption DEF InputAssumption, Updates

LEMMA NoticeFacts ==
  /\ \A u \in Updates : {<<"ack", u>>, <<"reply", u>>, <<"again", u>>, <<"retried", u>>} \subseteq Notices
  /\ {<<"reject", 0>>, <<"failed", 0>>} \subseteq Notices
BY DEF Notices

USE DEF polling, file, work, bounds

\* The inductive invariant: NothingSkipped follows from it.
InputCore ==
    /\ TypeOK /\ OneOutcome
    /\ OffsetIsHandled /\ HandledHasOutcome /\ HandlerInOrder /\ FileIsClaimed /\ BudgetLeft

LEMMA CoreIsInputInv == InputCore => InputInv
<1>1. InputCore => NothingSkipped
  BY Sizes DEF InputCore, TypeOK, NothingSkipped, OffsetIsHandled, HandledHasOutcome, Kinds
<1> QED
  BY <1>1 DEF InputCore, InputInv

LEMMA InputStarts == Init => InputCore
<1>1. Init => TypeOK
  <2> SUFFICES ASSUME Init PROVE TypeOK
    OBVIOUS
  <2>1. /\ kind \in [Updates -> Kinds] /\ job \in [Updates -> {"none", "pending", "leased", "done", "dead"}]
        /\ throws \in [Updates -> 0 .. MaxAttempts] /\ transcript \in [Chunks -> {"none", "pending", "sent"}]
    BY Sizes DEF Init
  <2>2. /\ issued \in 0 .. NUpdates /\ offset \in 1 .. NUpdates + 1 /\ from \in 1 .. NUpdates + 1
        /\ upto \in 1 .. NUpdates + 1 /\ running \in 0 .. NUpdates /\ revisions \in 0 .. 1
        /\ crashes \in 0 .. MaxCrashes /\ faults \in 0 .. MaxFaults
    BY Sizes DEF Init
  <2> QED
    BY <2>1, <2>2 DEF Init, TypeOK, Stages
<1>2. Init => OneOutcome /\ OffsetIsHandled /\ HandledHasOutcome /\ HandlerInOrder /\ FileIsClaimed /\ BudgetLeft
  BY Sizes DEF Init, OneOutcome, OffsetIsHandled, HandledHasOutcome, HandlerInOrder, FileIsClaimed, BudgetLeft
<1> QED
  BY <1>1, <1>2 DEF InputCore

\* What a step must leave: what was sent, settled or downloaded stays.
Steady ==
    /\ fstate \in {"delivered", "rejected"} => fstate' = fstate
    /\ fstate = "transcribed" => fstate' \in {"transcribed", "delivered"}
    /\ \A c \in Chunks : transcript[c] = "sent" => transcript'[c] = "sent"
    /\ disk \subseteq disk' \/ deleted'

LEMMA IssueKeeps ==
  ASSUME InputCore, Issue
  PROVE  InputCore' /\ Steady
<1>1. TypeOK'
  BY Sizes DEF InputCore, TypeOK, Issue
<1>2. OneOutcome'
  BY DEF InputCore, OneOutcome, Issue
<1>3. OffsetIsHandled' /\ HandledHasOutcome'
  BY DEF InputCore, OffsetIsHandled, HandledHasOutcome, Issue
<1>4. HandlerInOrder'
  BY DEF InputCore, HandlerInOrder, Issue
<1>5. FileIsClaimed' /\ BudgetLeft'
  BY DEF InputCore, FileIsClaimed, BudgetLeft, Issue
<1>6. Steady
  BY DEF Steady, Issue
<1> QED
  BY <1>1, <1>2, <1>3, <1>4, <1>5, <1>6 DEF InputCore

LEMMA PollKeeps ==
  ASSUME InputCore, GetUpdates \/ WriteOffset \/ TickFails
  PROVE  InputCore' /\ Steady
<1>1. TypeOK'
  <2>1. offset .. issued \subseteq Updates /\ issued + 1 \in 1 .. NUpdates + 1
    BY Sizes DEF InputCore, TypeOK, Updates
  <2>2. batch' \subseteq Updates /\ from' \in 1 .. NUpdates + 1 /\ upto' \in 1 .. NUpdates + 1
    BY <2>1 DEF InputCore, TypeOK, GetUpdates, WriteOffset, TickFails
  <2>3. offset' \in 1 .. NUpdates + 1 /\ faults' \in 0 .. MaxFaults
    BY Sizes DEF InputCore, TypeOK, GetUpdates, WriteOffset, TickFails
  <2> QED
    BY <2>2, <2>3 DEF InputCore, TypeOK, GetUpdates, WriteOffset, TickFails
<1>2. OneOutcome'
  BY DEF InputCore, OneOutcome, GetUpdates, WriteOffset, TickFails
<1>3. OffsetIsHandled' /\ HandledHasOutcome'
  <2>1. OffsetIsHandled'
    <3>1. CASE WriteOffset
      <4>1. ASSUME NEW u \in Updates, u < upto
            PROVE  u \in handled
        <5>1. u \in Nat /\ from \in Nat /\ offset \in Nat /\ upto \in Nat
          BY Sizes DEF InputCore, TypeOK
        <5>2. CASE u < from
          BY <5>1, <5>2 DEF InputCore, OffsetIsHandled
        <5>3. CASE u >= from
          BY <3>1, <4>1, <5>1, <5>3 DEF WriteOffset, BatchHandled
        <5> QED
          BY <5>1, <5>2, <5>3
      <4> QED
        BY <3>1, <4>1 DEF InputCore, TypeOK, OffsetIsHandled, WriteOffset
    <3>2. CASE GetUpdates \/ TickFails
      BY <3>2 DEF InputCore, TypeOK, OffsetIsHandled, GetUpdates, TickFails
    <3> QED
      BY <3>1, <3>2
  <2>2. HandledHasOutcome'
    BY DEF InputCore, HandledHasOutcome, GetUpdates, WriteOffset, TickFails
  <2> QED
    BY <2>1, <2>2
<1>4. HandlerInOrder'
  BY DEF InputCore, HandlerInOrder, GetUpdates, WriteOffset, TickFails
<1>5. FileIsClaimed' /\ BudgetLeft'
  BY DEF InputCore, FileIsClaimed, BudgetLeft, GetUpdates, WriteOffset, TickFails
<1>6. Steady
  BY DEF Steady, GetUpdates, WriteOffset, TickFails
<1> QED
  BY <1>1, <1>2, <1>3, <1>4, <1>5, <1>6 DEF InputCore

LEMMA RecordKeeps ==
  ASSUME InputCore, NEW u \in Updates, RecordUpdate(u)
  PROVE  InputCore' /\ Steady
<1>1. TypeOK'
  BY DEF InputCore, TypeOK, RecordUpdate
<1>2. OneOutcome'
  BY DEF InputCore, OneOutcome, RecordUpdate
<1>3. OffsetIsHandled' /\ HandledHasOutcome'
  BY DEF InputCore, OffsetIsHandled, HandledHasOutcome, RecordUpdate
<1>4. HandlerInOrder'
  BY DEF InputCore, HandlerInOrder, RecordUpdate
<1>5. FileIsClaimed' /\ BudgetLeft'
  BY DEF InputCore, FileIsClaimed, BudgetLeft, RecordUpdate
<1>6. Steady
  BY DEF Steady, RecordUpdate
<1> QED
  BY <1>1, <1>2, <1>3, <1>4, <1>5, <1>6 DEF InputCore

LEMMA CompleteKeeps ==
  ASSUME InputCore, NEW u \in Updates, CompleteTelegramUpdate(u)
  PROVE  InputCore' /\ Steady
<1>1. TypeOK'
  BY NoticeFacts DEF InputCore, TypeOK, CompleteTelegramUpdate, Handle
<1>2. OneOutcome'
  BY DEF InputCore, OneOutcome, CompleteTelegramUpdate
<1>3. OffsetIsHandled' /\ HandledHasOutcome'
  BY DEF InputCore, OffsetIsHandled, HandledHasOutcome, CompleteTelegramUpdate, Handle
<1>4. HandlerInOrder'
  BY DEF InputCore, HandlerInOrder, CompleteTelegramUpdate
<1>5. FileIsClaimed' /\ BudgetLeft'
  BY DEF InputCore, FileIsClaimed, BudgetLeft, CompleteTelegramUpdate
<1>6. Steady
  BY DEF Steady, CompleteTelegramUpdate
<1> QED
  BY <1>1, <1>2, <1>3, <1>4, <1>5, <1>6 DEF InputCore

LEMMA EnqueueKeeps ==
  ASSUME InputCore, NEW u \in Updates, EnqueueIncomingRequest(u)
  PROVE  InputCore' /\ Steady
<1>1. TypeOK'
  BY NoticeFacts DEF InputCore, TypeOK, EnqueueIncomingRequest, Handle, JobOf
<1>2. OneOutcome'
  BY DEF InputCore, OneOutcome, EnqueueIncomingRequest
<1>3. OffsetIsHandled' /\ HandledHasOutcome'
  BY DEF InputCore, TypeOK, OffsetIsHandled, HandledHasOutcome, EnqueueIncomingRequest, Handle, JobOf
<1>4. HandlerInOrder'
  BY DEF InputCore, HandlerInOrder, EnqueueIncomingRequest, JobOf
<1>5. FileIsClaimed' /\ BudgetLeft'
  BY Sizes DEF InputCore, FileIsClaimed, BudgetLeft, EnqueueIncomingRequest, JobOf
<1>6. Steady
  BY DEF Steady, EnqueueIncomingRequest
<1> QED
  BY <1>1, <1>2, <1>3, <1>4, <1>5, <1>6 DEF InputCore

LEMMA RetryKeeps ==
  ASSUME InputCore, NEW u \in Updates, HandleIncomingRetryCallback(u)
  PROVE  InputCore' /\ Steady
<1>1. TypeOK'
  <2>1. queued' \subseteq Notices
    BY NoticeFacts DEF InputCore, TypeOK, HandleIncomingRetryCallback
  <2>2. job' \in [Updates -> {"none", "pending", "leased", "done", "dead"}]
    BY DEF InputCore, TypeOK, HandleIncomingRetryCallback, JobOf
  <2> QED
    BY <2>1, <2>2 DEF InputCore, TypeOK, HandleIncomingRetryCallback, Handle
<1>2. OneOutcome'
  BY DEF InputCore, OneOutcome, HandleIncomingRetryCallback
<1>3. OffsetIsHandled' /\ HandledHasOutcome'
  BY DEF InputCore, TypeOK, OffsetIsHandled, HandledHasOutcome, HandleIncomingRetryCallback, Handle, JobOf
<1>4. HandlerInOrder'
  <2>1. \A v \in Updates : job[v] # "none" => job'[v] = job[v]
    BY DEF InputCore, TypeOK, HandleIncomingRetryCallback, JobOf
  <2>2. running # 0 => running \in Updates
    BY DEF InputCore, TypeOK, Updates
  <2>3. UNCHANGED <<running, stage, revisions, fstate, kind>>
    BY DEF HandleIncomingRetryCallback
  <2> QED
    BY <2>1, <2>2, <2>3 DEF InputCore, HandlerInOrder
<1>5. FileIsClaimed' /\ BudgetLeft'
  BY Sizes DEF InputCore, TypeOK, FileIsClaimed, BudgetLeft, HandleIncomingRetryCallback, JobOf
<1>6. Steady
  BY DEF Steady, HandleIncomingRetryCallback
<1> QED
  BY <1>1, <1>2, <1>3, <1>4, <1>5, <1>6 DEF InputCore

LEMMA ClaimKeeps ==
  ASSUME InputCore, NEW u \in Updates, Claim(u)
  PROVE  InputCore' /\ Steady
<1>1. TypeOK'
  BY Sizes DEF InputCore, TypeOK, Stages, Claim
<1>2. OneOutcome'
  BY DEF InputCore, OneOutcome, Claim
<1>3. OffsetIsHandled' /\ HandledHasOutcome'
  BY DEF InputCore, OffsetIsHandled, HandledHasOutcome, Claim
<1>4. HandlerInOrder'
  BY Sizes DEF InputCore, TypeOK, HandlerInOrder, Claim
<1>5. FileIsClaimed' /\ BudgetLeft'
  BY DEF InputCore, FileIsClaimed, BudgetLeft, Claim
<1>6. Steady
  BY DEF Steady, Claim
<1> QED
  BY <1>1, <1>2, <1>3, <1>4, <1>5, <1>6 DEF InputCore

LEMMA LoadKeeps ==
  ASSUME InputCore, Load
  PROVE  InputCore' /\ Steady
<1>1. TypeOK'
  BY DEF InputCore, TypeOK, Final, Stages, Load, Go, QueuedTranscript
<1>2. OneOutcome'
  BY DEF InputCore, TypeOK, OneOutcome, Load, QueuedTranscript
<1>3. OffsetIsHandled' /\ HandledHasOutcome'
  BY DEF InputCore, OffsetIsHandled, HandledHasOutcome, Load, Go
<1>4. HandlerInOrder'
  BY DEF InputCore, HandlerInOrder, Load, Go
<1>5. FileIsClaimed' /\ BudgetLeft'
  BY DEF InputCore, FileIsClaimed, BudgetLeft, Load, Go
<1>6. Steady
  BY DEF Steady, Load, QueuedTranscript
<1> QED
  BY <1>1, <1>2, <1>3, <1>4, <1>5, <1>6 DEF InputCore

LEMMA FetchKeeps ==
  ASSUME InputCore, Download \/ MarkDownloaded \/ Probe \/ EnsureIncomingWav \/ MarkNormalized
  PROVE  InputCore' /\ Steady
<1>1. TypeOK'
  BY DEF InputCore, TypeOK, Stages, Download, MarkDownloaded, Probe, EnsureIncomingWav, MarkNormalized, Go, inputOnly
<1>2. OneOutcome'
  BY DEF InputCore, OneOutcome, HandlerInOrder, Download, MarkDownloaded, Probe, EnsureIncomingWav, MarkNormalized, inputOnly
<1>3. OffsetIsHandled' /\ HandledHasOutcome'
  BY DEF InputCore, OffsetIsHandled, HandledHasOutcome, Download, MarkDownloaded, Probe, EnsureIncomingWav, MarkNormalized, Go, inputOnly
<1>4. HandlerInOrder'
  BY DEF InputCore, HandlerInOrder, Download, MarkDownloaded, Probe, EnsureIncomingWav, MarkNormalized, Go, inputOnly
<1>5. FileIsClaimed' /\ BudgetLeft'
  <2>1. stage \in {"download", "own", "probe", "wav", "validate"} /\ UNCHANGED <<job, throws, running, kind>>
    BY DEF Download, MarkDownloaded, Probe, EnsureIncomingWav, MarkNormalized, Go, inputOnly
  <2>2. running \in Updates /\ kind[running] = "audio" /\ job[running] # "none"
    BY <2>1, Sizes DEF InputCore, TypeOK, HandlerInOrder, Updates
  <2>3. fstate # "none"
    BY <2>2 DEF InputCore, FileIsClaimed
  <2>4. fstate' # "none"
    BY <2>3 DEF Download, MarkDownloaded, Probe, EnsureIncomingWav, MarkNormalized
  <2> QED
    BY <2>1, <2>4 DEF InputCore, FileIsClaimed, BudgetLeft
<1>6. Steady
  BY DEF InputCore, Steady, OneOutcome, HandlerInOrder, Download, MarkDownloaded, Probe, EnsureIncomingWav, MarkNormalized
<1> QED
  BY <1>1, <1>2, <1>3, <1>4, <1>5, <1>6 DEF InputCore

LEMMA AppendKeeps ==
  ASSUME InputCore, AppendIncomingTranscript
  PROVE  InputCore' /\ Steady
<1>1. TypeOK'
  <2>1. revisions = 0
    BY DEF InputCore, HandlerInOrder, AppendIncomingTranscript
  <2>2. transcript' \in [Chunks -> {"none", "pending", "sent"}]
    BY DEF InputCore, TypeOK, AppendIncomingTranscript, QueuedTranscript
  <2>3. revisions' \in 0 .. 1
    BY <2>1 DEF AppendIncomingTranscript
  <2> QED
    BY <2>2, <2>3 DEF InputCore, TypeOK, Final, Stages, AppendIncomingTranscript, Go
<1>2. OneOutcome'
  BY DEF InputCore, OneOutcome, HandlerInOrder, AppendIncomingTranscript, QueuedTranscript
<1>3. OffsetIsHandled' /\ HandledHasOutcome'
  BY DEF InputCore, OffsetIsHandled, HandledHasOutcome, AppendIncomingTranscript, Go
<1>4. HandlerInOrder'
  BY DEF InputCore, HandlerInOrder, AppendIncomingTranscript, Go
<1>5. FileIsClaimed' /\ BudgetLeft'
  BY DEF InputCore, FileIsClaimed, BudgetLeft, AppendIncomingTranscript, Go
<1>6. Steady
  BY DEF InputCore, Steady, HandlerInOrder, AppendIncomingTranscript, QueuedTranscript
<1> QED
  BY <1>1, <1>2, <1>3, <1>4, <1>5, <1>6 DEF InputCore

LEMMA RetranscribeKeeps ==
  ASSUME InputCore, Retranscribe
  PROVE  InputCore' /\ Steady
<1>1. TypeOK'
  <2>1. running \in Updates
    BY DEF InputCore, TypeOK, HandlerInOrder, Updates, Retranscribe
  <2>2. queued' \subseteq Notices
    BY <2>1, NoticeFacts DEF InputCore, TypeOK, Retranscribe
  <2> QED
    BY <2>2 DEF InputCore, TypeOK, Stages, Retranscribe, Go
<1>2. OneOutcome'
  BY DEF InputCore, OneOutcome, Retranscribe
<1>3. OffsetIsHandled' /\ HandledHasOutcome'
  BY DEF InputCore, OffsetIsHandled, HandledHasOutcome, Retranscribe, Go
<1>4. HandlerInOrder'
  BY DEF InputCore, HandlerInOrder, Retranscribe, Go
<1>5. FileIsClaimed' /\ BudgetLeft'
  BY DEF InputCore, FileIsClaimed, BudgetLeft, Retranscribe, Go
<1>6. Steady
  BY DEF Steady, Retranscribe
<1> QED
  BY <1>1, <1>2, <1>3, <1>4, <1>5, <1>6 DEF InputCore

LEMMA RejectKeeps ==
  ASSUME InputCore, Reject
  PROVE  InputCore' /\ Steady
<1>1. TypeOK'
  BY NoticeFacts DEF InputCore, TypeOK, Final, Stages, Reject, Go
<1>2. OneOutcome'
  BY DEF InputCore, OneOutcome, HandlerInOrder, Reject
<1>3. OffsetIsHandled' /\ HandledHasOutcome'
  BY DEF InputCore, OffsetIsHandled, HandledHasOutcome, Reject, Go
<1>4. HandlerInOrder'
  BY DEF InputCore, HandlerInOrder, Reject, Go
<1>5. FileIsClaimed' /\ BudgetLeft'
  BY DEF InputCore, FileIsClaimed, BudgetLeft, Reject, Go
<1>6. Steady
  BY DEF InputCore, Steady, OneOutcome, HandlerInOrder, Reject
<1> QED
  BY <1>1, <1>2, <1>3, <1>4, <1>5, <1>6 DEF InputCore

LEMMA AwaitFailsKeeps ==
  ASSUME InputCore, AwaitFails
  PROVE  InputCore' /\ Steady
<1>1. TypeOK'
  BY Sizes DEF InputCore, TypeOK, Stages, AwaitFails, Go
<1>2. OneOutcome'
  BY DEF InputCore, OneOutcome, AwaitFails
<1>3. OffsetIsHandled' /\ HandledHasOutcome'
  BY DEF InputCore, OffsetIsHandled, HandledHasOutcome, AwaitFails, Go
<1>4. HandlerInOrder'
  BY DEF InputCore, HandlerInOrder, AwaitFails, Go
<1>5. FileIsClaimed' /\ BudgetLeft'
  BY DEF InputCore, FileIsClaimed, BudgetLeft, AwaitFails, Go
<1>6. Steady
  BY DEF Steady, AwaitFails
<1> QED
  BY <1>1, <1>2, <1>3, <1>4, <1>5, <1>6 DEF InputCore

LEMMA SettleKeeps ==
  ASSUME InputCore, Settle
  PROVE  InputCore' /\ Steady
<1>0. running \in Updates /\ job[running] = "leased"
  BY DEF InputCore, TypeOK, HandlerInOrder, Updates, Settle
<1>1. TypeOK'
  BY <1>0, Sizes DEF InputCore, TypeOK, Stages, Settle
<1>2. OneOutcome'
  BY DEF InputCore, OneOutcome, Settle
<1>3. OffsetIsHandled' /\ HandledHasOutcome'
  BY DEF InputCore, OffsetIsHandled, HandledHasOutcome, Settle
<1>4. HandlerInOrder'
  BY DEF HandlerInOrder, Settle
<1>5. FileIsClaimed' /\ BudgetLeft'
  BY DEF InputCore, FileIsClaimed, BudgetLeft, HandlerInOrder, Settle
<1>6. Steady
  BY DEF Steady, Settle
<1> QED
  BY <1>1, <1>2, <1>3, <1>4, <1>5, <1>6 DEF InputCore

LEMMA FailKeeps ==
  ASSUME InputCore, Fail
  PROVE  InputCore' /\ Steady
<1>0. running \in Updates /\ job[running] = "leased"
  BY DEF InputCore, TypeOK, HandlerInOrder, Updates, Fail
<1>1. TypeOK'
  <2>1. throws[running] \in Nat /\ throws[running] < MaxAttempts
    BY <1>0 DEF InputCore, TypeOK, BudgetLeft
  <2>2. throws' \in [Updates -> 0 .. MaxAttempts]
    BY <1>0, <2>1, Sizes DEF InputCore, TypeOK, Fail
  <2>3. /\ job' \in [Updates -> {"none", "pending", "leased", "done", "dead"}]
        /\ running' \in 0 .. NUpdates /\ stage' \in Stages
    BY <1>0, Sizes DEF InputCore, TypeOK, Fail, Stages
  <2>4. fstate' \in {"none", "received", "downloaded", "validated", "failed"} \cup Final
    BY DEF InputCore, TypeOK, Fail, MarkFailedIfUntranscribed
  <2> QED
    BY <2>2, <2>3, <2>4 DEF InputCore, TypeOK, Fail, inputOnly
<1>2. OneOutcome'
  BY DEF InputCore, OneOutcome, Fail, MarkFailedIfUntranscribed, inputOnly
<1>3. OffsetIsHandled' /\ HandledHasOutcome'
  BY DEF InputCore, TypeOK, OffsetIsHandled, HandledHasOutcome, Fail, inputOnly
<1>4. HandlerInOrder'
  BY <1>0 DEF InputCore, TypeOK, HandlerInOrder, Fail
<1>5. FileIsClaimed' /\ BudgetLeft'
  BY DEF InputCore, TypeOK, FileIsClaimed, BudgetLeft, HandlerInOrder, Fail, MarkFailedIfUntranscribed, inputOnly
<1>6. Steady
  BY DEF Steady, Final, Fail, MarkFailedIfUntranscribed, inputOnly
<1> QED
  BY <1>1, <1>2, <1>3, <1>4, <1>5, <1>6 DEF InputCore

LEMMA ExhaustedKeeps ==
  ASSUME InputCore, MarkExhaustedIncomingFile
  PROVE  InputCore' /\ Steady
<1>1. TypeOK'
  BY Sizes, NoticeFacts DEF InputCore, TypeOK, Stages, MarkExhaustedIncomingFile, Exhausted
<1>2. OneOutcome'
  BY DEF InputCore, OneOutcome, Final, MarkExhaustedIncomingFile, Exhausted
<1>3. OffsetIsHandled' /\ HandledHasOutcome'
  BY DEF InputCore, OffsetIsHandled, HandledHasOutcome, MarkExhaustedIncomingFile, Exhausted
<1>4. HandlerInOrder'
  BY DEF HandlerInOrder, MarkExhaustedIncomingFile, Exhausted
<1>5. FileIsClaimed' /\ BudgetLeft'
  BY DEF InputCore, FileIsClaimed, BudgetLeft, MarkExhaustedIncomingFile, Exhausted
<1>6. Steady
  BY DEF Steady, Final, MarkExhaustedIncomingFile, Exhausted
<1> QED
  BY <1>1, <1>2, <1>3, <1>4, <1>5, <1>6 DEF InputCore

LEMMA JobsRetryKeeps ==
  ASSUME InputCore, NEW u \in Updates, JobsRetry(u)
  PROVE  InputCore' /\ Steady
<1>1. TypeOK'
  BY Sizes, NoticeFacts DEF InputCore, TypeOK, JobsRetry, PrepareIncomingRetry
<1>2. OneOutcome'
  BY DEF InputCore, OneOutcome, JobsRetry, PrepareIncomingRetry
<1>3. OffsetIsHandled' /\ HandledHasOutcome'
  BY DEF InputCore, OffsetIsHandled, HandledHasOutcome, JobsRetry, PrepareIncomingRetry
<1>4. HandlerInOrder'
  BY DEF InputCore, HandlerInOrder, JobsRetry, PrepareIncomingRetry
<1>5. FileIsClaimed' /\ BudgetLeft'
  BY Sizes DEF InputCore, TypeOK, FileIsClaimed, BudgetLeft, JobsRetry, PrepareIncomingRetry
<1>6. Steady
  BY DEF Steady, JobsRetry, PrepareIncomingRetry
<1> QED
  BY <1>1, <1>2, <1>3, <1>4, <1>5, <1>6 DEF InputCore

LEMMA SendKeeps ==
  ASSUME InputCore, NEW c \in Chunks, Send(c)
  PROVE  InputCore' /\ Steady
<1>1. TypeOK'
  BY DEF InputCore, TypeOK, Final, Send
<1>2. OneOutcome'
  BY DEF InputCore, TypeOK, OneOutcome, Send
<1>3. OffsetIsHandled' /\ HandledHasOutcome'
  BY DEF InputCore, OffsetIsHandled, HandledHasOutcome, Send
<1>4. HandlerInOrder'
  BY DEF InputCore, HandlerInOrder, Send
<1>5. FileIsClaimed' /\ BudgetLeft'
  BY DEF InputCore, FileIsClaimed, BudgetLeft, Send
<1>6. Steady
  BY DEF Steady, Send
<1> QED
  BY <1>1, <1>2, <1>3, <1>4, <1>5, <1>6 DEF InputCore

LEMMA RetentionKeeps ==
  ASSUME InputCore, RetentionDeletes
  PROVE  InputCore' /\ Steady
<1>1. TypeOK'
  BY DEF InputCore, TypeOK, RetentionDeletes, inputOnly
<1>2. OneOutcome'
  BY DEF InputCore, OneOutcome, RetentionDeletes, inputOnly
<1>3. OffsetIsHandled' /\ HandledHasOutcome'
  BY DEF InputCore, OffsetIsHandled, HandledHasOutcome, RetentionDeletes, inputOnly
<1>4. HandlerInOrder'
  BY DEF InputCore, HandlerInOrder, RetentionDeletes, inputOnly
<1>5. FileIsClaimed' /\ BudgetLeft'
  BY DEF InputCore, FileIsClaimed, BudgetLeft, RetentionDeletes
<1>6. Steady
  BY DEF Steady, RetentionDeletes, inputOnly
<1> QED
  BY <1>1, <1>2, <1>3, <1>4, <1>5, <1>6 DEF InputCore

LEMMA CrashKeeps ==
  ASSUME InputCore, Crash
  PROVE  InputCore' /\ Steady
<1>1. TypeOK'
  BY Sizes, NoticeFacts DEF InputCore, TypeOK, Stages, Crash, Exhausted, Final
<1>2. OneOutcome'
  BY DEF InputCore, OneOutcome, Crash, Exhausted, Final
<1>3. OffsetIsHandled' /\ HandledHasOutcome'
  BY DEF InputCore, TypeOK, OffsetIsHandled, HandledHasOutcome, Crash, Exhausted, Final
<1>4. HandlerInOrder'
  BY DEF HandlerInOrder, Crash
<1>5. FileIsClaimed' /\ BudgetLeft'
  BY DEF InputCore, FileIsClaimed, BudgetLeft, Crash, Exhausted, Final
<1>6. Steady
  BY DEF Steady, Crash, Exhausted, Final
<1> QED
  BY <1>1, <1>2, <1>3, <1>4, <1>5, <1>6 DEF InputCore

LEMMA CleanupKeeps ==
  ASSUME InputCore, RemoveSuperseded
  PROVE  InputCore' /\ Steady
<1>1. TypeOK'
  BY DEF InputCore, TypeOK, RemoveSuperseded, ScanCandidates, RemoveCandidate
<1>2. OneOutcome'
  BY DEF InputCore, OneOutcome, RemoveSuperseded
<1>3. OffsetIsHandled' /\ HandledHasOutcome'
  BY DEF InputCore, OffsetIsHandled, HandledHasOutcome, RemoveSuperseded
<1>4. HandlerInOrder'
  BY DEF InputCore, HandlerInOrder, RemoveSuperseded
<1>5. FileIsClaimed' /\ BudgetLeft'
  BY DEF InputCore, FileIsClaimed, BudgetLeft, RemoveSuperseded, ScanCandidates, RemoveCandidate
<1>6. Steady
  BY DEF InputCore, Steady, FileIsClaimed, RemoveSuperseded, ScanCandidates, RemoveCandidate, Owned
<1> QED
  BY <1>1, <1>2, <1>3, <1>4, <1>5, <1>6 DEF InputCore

LEMMA InputStep == InputCore /\ [Next]_vars => InputCore' /\ [Steady]_vars
<1> SUFFICES ASSUME InputCore, [Next]_vars PROVE InputCore' /\ [Steady]_vars
  OBVIOUS
<1>1. CASE UNCHANGED vars
  <2>1. TypeOK' /\ OneOutcome'
    BY <1>1 DEF vars, InputCore, TypeOK, OneOutcome
  <2>2. OffsetIsHandled' /\ HandledHasOutcome' /\ HandlerInOrder' /\ FileIsClaimed' /\ BudgetLeft'
    BY <1>1 DEF vars, InputCore, OffsetIsHandled, HandledHasOutcome, HandlerInOrder, FileIsClaimed, BudgetLeft
  <2> QED
    BY <1>1, <2>1, <2>2 DEF InputCore
<1>2. CASE Next
  <2>1. CASE Issue \/ Poll \/ TickFails
    BY <2>1, IssueKeeps, PollKeeps, RecordKeeps, CompleteKeeps, EnqueueKeeps, RetryKeeps DEF Poll
  <2>2. CASE Handler
    BY <2>2, LoadKeeps, FetchKeeps, AppendKeeps, RetranscribeKeeps, RejectKeeps, AwaitFailsKeeps, SettleKeeps,
       FailKeeps, ExhaustedKeeps DEF Handler
  <2>3. CASE (\E u \in Updates : Claim(u) \/ JobsRetry(u)) \/ \E c \in Chunks : Send(c)
    BY <2>3, ClaimKeeps, JobsRetryKeeps, SendKeeps
  <2>4. CASE RetentionDeletes \/ Crash \/ RemoveSuperseded
    BY <2>4, RetentionKeeps, CrashKeeps, CleanupKeeps
  <2> QED
    BY <1>2, <2>1, <2>2, <2>3, <2>4 DEF Next
<1> QED
  BY <1>1, <1>2

\* Over any interleaving of the polling loop, the handlers, retries, retention and crashes,
\* a file has the messages of exactly one outcome, and an update the offset has passed has
\* its outcome stored (writeOffsetAfterHandledUpdates, appendIncomingTranscript).
THEOREM InputInvariant == Spec => []InputInv
<1>1. InputCore => InputInv
  BY CoreIsInputInv
<1> QED
  BY <1>1, InputStarts, InputStep, PTL DEF Spec

\* No step takes back an announced outcome, queues a sent message again, or removes what was
\* downloaded, except retention.
THEOREM AnnouncedStaysTrue == Spec => OutcomeHolds
<1>1. Spec => [][Steady]_vars
  BY InputStarts, InputStep, PTL DEF Spec
<1>2. [Steady]_vars =>
        /\ [/\ fstate \in {"delivered", "rejected"} => fstate' = fstate
            /\ fstate = "transcribed" => fstate' \in {"transcribed", "delivered"}
            /\ \A c \in Chunks : transcript[c] = "sent" => transcript'[c] = "sent"]_vars
        /\ [disk \subseteq disk' \/ deleted']_vars
  BY DEF Steady
<1> QED
  BY <1>1, <1>2, PTL DEF OutcomeHolds, OutcomeStable, DownloadKept

=============================================================================
