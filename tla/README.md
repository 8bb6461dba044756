# A TLA+ verification of OpenMurmur

OpenMurmur is a macOS daemon that records conversations, transcribes them
locally and delivers audio, transcripts and reports to one Telegram chat.
Everything durable is in one SQLite database. This directory holds TLA+ models
of the parts of `src/src/` whose correctness depends on the order in which
crashes, timers, handlers and operators act, the TLC runs that check them on
small instances, and proofs that TLAPS checks for every instance.

| File | What it is |
| --- | --- |
| `JobQueue.tla` | the leased job queue, the worker loops, the daemon's life and its ownership row |
| `FencedWork.tla` | the abstract specification the queue implements |
| `Outbox.tla` | the Telegram outbox, its drain, and Telegram as the client sees it |
| `AudioDelivery.tla` | the `deliver_audio` job: documents, split manifests, their files |
| `SessionDelivery.tla` | one session from the end of its recording until it is `DONE` |
| `Sessionizer.tla` | voice activity frame by frame into sessions and parts |
| `Archive.tla` | the storage side of the recorder, its journal, and recovery after a crash |
| `Capture.tla` | the microphone stream: child process, pump, buffer, watchdog, recorder loop |
| `AsrWorker.tla` | the Python worker processes and the owner of the speech model |
| `Retention.tla` | plans, revalidation and deletion of audio |
| `TelegramInput.tla` | updates, the offset, incoming audio and its repeated recognition |
| `DaemonOwnership.tla` | claims of the data root read by read, and the commands that act on it |
| `Digest.tla`, `DigestDay.tla` | the daily digest; where a local day begins |
| `Alerts.tla` | health alerts: debounce, reminders, and what the chat is left saying |
| `JobQueueProofs.tla`, `OutboxProofs.tla`, `OwnershipProofs.tla` | theorems about `JobQueue`, `Outbox` and `DaemonOwnership` |
| `DeliveryProofs.tla` | theorems about `SessionDelivery` and `AudioDelivery` |
| `RecorderProofs.tla` | theorems about `Sessionizer`, `Archive`, `Capture` and `AsrWorker` |
| `RetentionProofs.tla`, `InputProofs.tla` | theorems about `Retention` and `TelegramInput` |
| `DigestProofs.tla` | theorems about `Digest`, `DigestDay` and `Alerts` |
| `MC*.tla`, `*.cfg` | the instances that TLC checks; `MCDelivery`, `MCRecorder`, `MCChildren` and `MCDigest` each hold two models (section 3) |
| `PROJECT.json` | components, runs, mutations, source map, findings, hazards, theorems |

Parse with `tlasany M.tla`, check with `tlc -config X.cfg M`, prove with
`tlapm M.tla`.

## 1. The system

### Components, their state and their operations

| Component | State it keeps | Operations | Correct when |
| --- | --- | --- | --- |
| Job queue (`jobs/queue.ts`) | `jobs` rows: state, attempts, `run_after`, lease token and expiry | enqueue, claim, renew, complete, fail, recover stale leases, recover a dead daemon's leases, retry dead | one handler per job; a reclaimed claim never publishes; attempts spent exactly on failures; leases return |
| Job pipeline (`jobs/pipeline.ts`, `jobs/delivery.ts`) | session state, transcripts, summaries, follow-up jobs | `handleAsr`, `handleSummarize`, `handleDeliverReport`, ... ; `reconcileSessionDelivery`, `markAudioDelivered` | facts and follow-ups commit together, under the lease; `DONE` means delivered |
| Daemon (`cli/daemon.ts`) | active lease tokens, in-flight ticks, drains | `start`, `stop`, job loops, outbox, Telegram, digest, retention, health ticks | startup repairs before it serves; shutdown awaits before it releases |
| Ownership (`cli/daemon-ownership.ts`) | `daemon_ownership` row, PID mirror | claim, replace, release, stop, exclusive maintenance | one live daemon; a live process is never taken for dead |
| Outbox (`telegram/outbox.ts`) | `telegram_outbox`, `telegram_event_messages`, an in-memory pause | enqueue, claimNext, markSent, markFailed, defer, recoverSending, drain | duplicates only after a lost acknowledgement; order within an event; exact retry budget |
| Telegram client (`telegram/client.ts`) | closed flag, requests in flight | call, close | an answer is classified as permanent, retryable, or not an attempt |
| Offline recovery (`telegram/outbox-recovery.ts`, `telegram/reconcile-delivery.ts`) | outbox rows, audit receipts | retry a dead row, acknowledge a row by hand | only while no daemon sends |
| Sessionizer (`sessionizer/machine.ts`) | IDLE ... SILENCE_GRACE, part and session clocks | push a frame, force finalize | sessions never overlap; rotation loses no frame |
| Recorder (`sessionizer/recorder.ts`) | open part, at most 2 storage finalizers, deferred outcomes, finalization journal | frame, rotate, finalize, drain | no session continues over a gap; an outcome waits for all its parts |
| Capture recovery (`capture/recovery.ts`) | the file tree against `audio_parts` | reconcile published parts, orphans, stalled sessions | every crash point is repaired once |
| Retention (`retention/policy.ts`) | deletion plan | plan, revalidate, delete | nothing undelivered is deleted |
| Telegram updates (`telegram/incoming.ts`, `cli/daemon.ts`) | offset, recorded updates | poll, handle, write offset | each update takes effect once |
| Digest (`digest/*`) | one digest per date | build, publish | a snapshot is current when it is published |
| Alerts (`health/alerts.ts`, health loop) | `alert_state`, debounce in memory, unsent notices | evaluate, send, remind, restart | an edge is steady, announced once, and the chat agrees with the table |
| Capture (`capture/process-pcm.ts`, `capture/frame-buffer.ts`) | child, pump, bounded buffer, watchdog | start, pump, next, stop, abort | no session joins two sides of a gap; the microphone is released |
| Speech recognition (`asr/worker-process.ts`, `asr/mlx.ts`) | worker generations, requests in flight, load state | transcribe, load, recycle, retire, close | one worker that is not given up; an answer reaches the call it is for |
| LLM, rendering, configuration | external programs or pure data | | mostly I/O and text |

### How they interact

One Node process runs everything; JavaScript between two awaits is atomic, and so
is a SQLite transaction. The recorder ends a session by enqueueing jobs; worker
loops claim jobs, await minutes of speech recognition, and commit facts with
follow-up jobs and outbox rows; the drain sends the rows. Other processes touch
the same database: the next daemon after a crash, an older release still running,
and the command line (`jobs retry`, `stop`, `outbox retry`, `outbox
reconcile-remote`). The hard behaviours are therefore: awaits between a check and
its use, sleep that outlasts every timer, processes that die at any point, Telegram
requests whose answer is lost, and operator commands in between. `hazards` in
`PROJECT.json` lists each at its line with the properties that watch it.

## 2. What is modelled

### JobQueue

| Model | Code |
| --- | --- |
| `jobs[j]` | the row with idempotency key `j`; `lease.token` and `lease.owner` are the two parts of `lease_owner` |
| `lease.live`, `ready` | `lease_expires_at > now`, `run_after <= now`; time moves in `ExpireLease` and `BackoffElapses` |
| `proc`, `ownership` | processes with their generation; the singleton row |
| `handler[p][l]` | what loop `l` awaits: `work`, `published` (its facts committed), `dying` (job dead, not yet announced) |
| `outcome`, `session`, `notice` | whether the input was accepted or rejected; the state of the session of a transcription; whether the row `session-status:asr-failed:<id>` exists |
| `MarkExhausted` (in `Boot` and `Announce`) | `markExhaustedAsrSession`: nothing for a session that is DONE or REJECTED, otherwise FAILED and the one notice of the session |
| `Start`, `Boot` | `claimDaemonPid` with the lease return in its transaction; the recovery steps of `start` |
| `Stop`, `Exit`, `Crash` | `#stop`, the end of `#closeStorageOnce`, any kill |
| `Tick` | `#tickJobs` to its first await: renew own handlers, recover stale leases, claim |
| `Heartbeat`, `Publish` | the timer of `withLeaseHeartbeat`; a handler's write transaction with `assertLease` |
| `Finish`, `Fail`, `Release`, `Lost`, `Announce` | the ways a handler settles |
| `RetryDead`, `SessionDone`, `ClearDead` | `jobs retry`; `reconcileSessionDelivery`; `stop` or an offline outbox command on a dead daemon |

`Legacy` names processes of a release that predates `daemon_ownership`: they run
from the start, own no row, and are the reason `Start` refuses unexpired leases
when no row exists. With a legacy process two handlers of one job are possible by
design, and the fence is what protects the data; properties that need one daemon
are stated for `Legacy = {}`.

`facts`, `newest` and `charged` are history variables. `charged[j]` counts the
claims since the last reset that nothing refunds: a handler that threw, a lease
that was lost, or a dead owner whose row an operator deleted.

`FencedWork` is the abstract promise: work is held by one generation at a time,
generations only grow, effects belong to the holder, and work settles once and
only after it took effect. Leases, clocks, processes and attempts are invisible.
`ImplementsFencedWork` maps the lease token to the holder and `facts` to the effect.

### Outbox

| Model | Code |
| --- | --- |
| `outbox[r]` | the row; `gen` is `claim_generation`; rows are ordered as `claimNext` orders them |
| `Key`, `message` | `event_key` and `telegram_event_messages` |
| `sender[p]` | the serialized drain: claimed (`calling`), refused by a closed client (`aborted`), accepted by Telegram but not yet recorded (`accepted`), between rows (`next`) |
| `paused`, `proc` | `channelBlockedUntil`, in memory; `closing` once the client is closed |
| `chat` | Telegram's messages: `chat[m]` is the row message `m` shows, 0 once deleted |
| `Claim`, `Accept`, `EditGone`, `Ack` | `claimNext` with `eventMessageId`; the request's effect; the edit of a deleted message; `markSent` with `recordEventMessage` |
| `Interrupted`, `RateLimited`, `Failed`, `Rejected` | the four branches of the drain's catch |
| `Boot` (`RecoverSending`, `RetireStaleNotices`) | the same two calls of `start`, in order, before there is a client |
| `Supersede` | a newer alert state, or a retried transcription, retires a pending notice |
| `RetryDead`, `Reconcile` | `outbox retry`, `outbox reconcile-remote`, with the daemon stopped |

Telegram is modelled by what the client can observe: a request takes effect or not
before its answer, and the answer may be lost. Assumed: a request the client gave
up on is not accepted later; one chat and one bot. `copies`, `unacked`, `charged`,
`refused` and `retried` are history.

The `JSON.parse` of a payload stands outside the drain's `try`; payloads are
written by this program and always well formed, so that path is not modelled.

### SessionDelivery and AudioDelivery

What follows a recording, at two levels. `SessionDelivery` has one session with its
five jobs and its outbox rows, each job a handler that is taken, ends, throws or is
interrupted; the queue's fence is assumed, as `JobQueue` proves it. Each of the three
loops awaits one handler at a time and claims by `claim`'s order, audio before the
transcript before the report. `AudioDelivery`
opens one of these handlers, `deliver_audio`, between its awaits.

| Model | Code |
| --- | --- |
| `session`, `transcript`, `summary` | `audio_sessions.state`; a stored revision; its summary |
| `job[k]` | a row of `jobs`: `settling` after its handler's transaction, `backoff` after a throw, `dying` when dead and the session is not yet marked, `revived` when a retry came first |
| `Lane`, `Urgent`, `Take` | the kinds of one loop; `ORDER BY CASE kind`; a claim by a loop that awaits nothing |
| `StoreTranscript`, `ReplayStoredTranscript`, `RejectInsufficientTranscript` | the three ends of `handleAsr` |
| `HandleSummarize`, `HandleDeliverTranscript`, `HandleDeliverReport`, `PartialHandler` | the handlers, and a death between their two transactions |
| `Send`, `ReconcileSessionDelivery` | `markSent` with `reconcileSessionDelivery` in its transaction |
| `PublishAudio` | parts published without an await between them, up to the next one that must be split |
| `MarkExhaustedAsrSession`, `JobsRetry` | the exhaustion hook, in the transaction after the one that made the job dead; `jobs retry` with `prepareAsrRetry`, between the two as well |
| `worker[g]` (`preflight`, `publish`, `split`, `commit`) | the handler of claim `g` of `deliver_audio`, which may have lost its lease |
| `rows[p][i]`, `files` | the outbox row of piece `i` of part `p`, 0 for the whole file; split files, named by claim |
| `CommitSplit`, `MarkAudioDelivered` | the transaction that publishes a manifest; what a sent row proves of its part |
| `Restart` | a crash and another `telegram.maxOutgoingBytes` |

### Sessionizer, Archive and Capture

From the microphone to the archive. `Capture` is one generation of the capture
stream: chunks of any size go through a pipe to the pump, the buffer, and the
recorder's loop; the watchdog and a stop may end it at any point. The source is
assumed silent only after a first frame since the last silence (the buffer has no
clock to notice less). `Sessionizer` counts frames; `Archive` takes its intents in any
order they may come and carries them out with detached finalizers.

| Model | Code |
| --- | --- |
| `pump`, `pipe`, `frames`, `carry`, `epoch`, `pendingGap` | `#pumpFrames` and `CaptureFrameBuffer` |
| `watch`, `term`, `child` | `armWatchdog`, `#terminateAndJoin`, the helper process |
| `it`, `held`, `session` | the iterator, the frame the recorder awaits the detector for, what the sessionizer got since the last close |
| `Frame`, `CloseOpenSession` (Sessionizer) | `SessionMachine.push` with its branches; `forceFinalize` |
| `held`, `written` (Sessionizer) | the recorder's own list of pre-roll PCM; the frames of the open part |
| `OpenPart`, `CloseOpenPart`, `EndSession` | `openNewPart` with its slot, journal and detachment of a part, `finalizeSession` |
| `due`, `SettleDeferred` | a finalizer's look at the outcome of its session; its transaction may fail, which is logged, and nobody looks again while the daemon records |
| `Closing`, `DrainOutcome`, `Drained` | the end of a run: the open part and session, the finalizers, then the outcomes that are left; a failure ends the drain |
| `WriterClose`, `FinalizePartFromJournal`, `WriterAbort` | the three steps and failures of a storage finalizer |
| `RecoverPublishedPart`, `SettleMissingPart`, `ReconcileStalledSession`, `RestoreInitialJobs`, `Recovered` | `recoverAfterCrash`, phase by phase |

`Recorder.closeOpenSession` has no caller in the program; the boundary it would
serve is the one `#handleFrame` draws at a gap.

### AsrWorker

`WorkerProcess` and its owner `MlxAsr`: process generations, requests in flight, the model's
load state, the idle timer, termination and `close()`. A request carries the caller's own
id; the code draws random ones for voice detection, so the model has more collisions than
the program. A process that outlives the grace after SIGKILL is given up (`GraceEnds`, stage
`left`): it is no longer waited for, and may run beside its successor or after `close()`;
`OneWorker` and `CloseLeavesNothing` except it. `ready()`, which only the `transcribe`
command calls, is left out. The daemon has one caller of each worker at a time and its voice
detector no idle timer; the model allows two callers and both.

### Retention

| Model | Code |
| --- | --- |
| `plan[a]` | a plan in the memory of the daemon's hourly loop or of the command, with its clock |
| `SessionAudio`, `RejectedByAge`, `RejectedSessionAudio`, `IncomingAudio`, `Quarantine` | the queries of the lanes |
| `ApplyCandidateGroup`, `GroupStale`, `ApplyInterrupted` | revalidation, unlink and mark; a group that changed; a failure between files or before the commit |
| `ListHeldDeliveries`, `ApplyDeliveryReconciliation` | the operator's proof of a delivery without a time |

The facts the queries read (jobs, rows, deliveries, revisions) move by abstracted
steps of the pipeline, dead jobs and retries included. A retry press asks for the row of
the file only, and a file sent again opens a job for the row it has (`RetryCallback`,
`SentAgain`): both may come after retention deleted the audio, and then the first ends in
a dead job and the second finds the answer there. What is protected is
work that is open or may be revived when the deletion commits (`FileWorkKeepsAudio`), and a
deleted file has been answered (`DeletedFileIsAnswered`).

### TelegramInput

Polling, `telegram_updates`, the offset, and the one file the updates are about: its row,
its generated files on disk, its jobs, its transcript messages. `stage` is where the
incoming-audio handler stands between two awaits. Updates are audio, a retry press, a
command, or ignored. `JobsRetry` may come between the death of a job and the marking of its
file, and with a language starts the file over (`PrepareIncomingRetry`); the start after a
`Crash` marks what was left unmarked. `RemoveSuperseded` is the startup cleanup, `stray` a
generated file no row owns.

### DaemonOwnership

The claims that `JobQueue` takes for atomic, read by read: the row, the mirror, the
heartbeat, the leases, `ps`, and the compare-and-swap with the file removed inside
its transaction (`SwapTorn`, `ReleaseTorn` die there). An operating system gives pids
to strangers; `stop` and offline mutations act on what they read. Generation 1 may
be a daemon of the earlier release, and with `LegacyStarts` later ones too.
`NoStrandedWork` (an owner starts with no unexpired lease of another) holds until
a command clears a dead owner's row; `MCDaemonOwnership` keeps that as the history
`cleared` (finding 3).

### DigestDay and Digest

`DigestDay` is the binary search for the first instant of a local date, over any
zone that is a function from instants to dates. `Digest` is what happens around the
snapshot: two schedulers and a command, publication in one transaction, the
content-addressed document with its temporary file, cleanup at startup, upload.
Rows stand for what a digest shows of a session; the rendering is left out. A session that
failed may be revived at any moment (`JobsRetry`), after its digest was stored too; the
stored digest is not built again. `LOST` is a session that never reached the pipeline.

### Alerts

The evaluator (debounce in memory, `alert_state` in the database), the health loop
that collects before an await and evaluates after it, the notices of capture, and
the outbox as a queue per event. `Plays` are the sets of alerts a behaviour is
about: one plain condition, or the two that share the recording message. `CaptureEnds` is
the end of the stream, `CaptureFails` the record of the failure once the finalizers are
drained, `Exit` the end of the process once the outbox is; time passes and the health loop
polls between them, so that `recorder_stale` may be raised there. A capture that ends for
the system's sleep records nothing. `flows` is what the recovery of
`recorder_stale` says, `ok` what a start notice or the recovery of `capture_failed` says.

Definitions commented `Mutant` play no part in any specification: each is a
plausible mistake in the definition it precedes, and `mutants` in `PROJECT.json`
says which property notices it.

## 3. What TLC checks

| Run | Instance | Question |
| --- | --- | --- |
| `jobqueue_main` | 2 jobs, 2 loops, 2 processes, 4 claims, 2 daemon generations, 2 attempts | one handler per job, exact budget, hand-over, clean exit, refinement of `FencedWork`, leases return, exhaustion is announced |
| `jobqueue_legacy` | a legacy process beside a new one, 3 claims | only the newest claim publishes |
| `outbox_main` | 2 rows of one event, one a notice retired at startup, one superseded; 3 faults | duplicates, order, budget, every row settles |
| `delivery` | a session with one part and a long report, 1 throw, 1 death, 1 retry; a `deliver_audio` job with two parts of 1 and 2 units, 2 claims, 1 restart with another limit | `DONE` and delivered mean what they say; the session ends |
| `recorder` | 16 frames with a pre-roll longer than the candidate; 2 sessions of 2 parts, 1 crash or stop, 2 faults of storage or of an outcome's transaction | sessions and parts against the clock; nothing stranded, partial or uncounted |
| `children` | 2 callers, 2 calls, 2 generations; 6 units in frames of 2, a buffer of 1 frame, 2 gaps | answers and frames reach whom they belong to; calls, close and streams end |
| `retention` | a session of 2 parts beside an incoming file, one of them deleted before, 2 hours, 2 interruptions | nothing needed is deleted; what is eligible is |
| `telegram_input` | 2 updates of any kind, 2 attempts, 1 crash, 2 faults | nothing acknowledged unhandled; one outcome; every file answered |
| `ownership` | 3 claims that race, or 2 with commands and a reused pid; 2 tries | one owner; mutations only without owner; claims end |
| `digest` | six-instant days, five dates, each zone with one change of its offset; 1 session, 1 day, 2 faults, documents always | exact boundary; one complete snapshot, sent as proved |
| `alerts` | each of four conditions, or the recording message, every interval 1; 2 changes, 2 faults | table, queue and chat agree; edges steady; no start or recovery covers an open incident |
| `session_partial` | 2 parts, one of them split, 1 throw | a promise the code does not keep (section 5) |

**Two models in one run.** `MCDelivery`, `MCRecorder`, `MCChildren` and `MCDigest`
instantiate two modules without common state. The variable `half`, chosen at the start and
never changed, says which of them moves; the other keeps its initial state, and the fairness
is that of the half that runs. The checked space is the sum, not the product. (`MCChildren`
does the same with `runs`, and `MCRetention`, where no query joins sessions and files,
starts with the audio of one or the other deleted before: `Apart`.) Where the two do meet in
the code, the meeting is an assumption of the one about the other, named in its module:
`SessionDelivery` publishes the rows of audio in the order `AudioDelivery` gives them, the
pieces of a split part as one; `Archive` takes any order of intents that `Sessionizer` can
give.

**Bundles.** A property that ends in `Inv` is the conjunction of the type invariant
and the invariants its module defines and explains one by one (`QueueInv`,
`DeliveryInv` in the component, the others in the MC module); TLC's trace shows which
conjunct fails. Where there are proofs (section 4) it includes the inductive facts they
rest on, so that TLC checks these too. `OutcomeHolds`, `SessionsSettle`,
`DeletionTimely`, `InputAnswered`, `CallsEnd`, `CaptureEnds`, `DigestEnds` and
`AlertsSteady` are conjunctions in the same way.

**Bounds.** Two jobs, one following the other, give a hand-over and two loops whose ticks
renew each other's handlers. Four claims cover fail, retry, exhaustion, revival and a second
exhaustion; two generations a crash or a stop at any moment and the restart, beside which
the old process may still be alive. `Stop` and `Crash` require that a later generation is
left, so a bounded behaviour always has a daemon that may finish the work. `MaxFaults` of
`Outbox` bounds crashes, stops, timeouts, 429s, deletions and manual retries together;
server errors are bounded by the retry budget. Two rows are enough for each property, which
speaks of one row or of two rows of one event. In `delivery` one claim overlaps one other,
which is what a lost lease gives, and a part of two units is split under one of the two
limits and not under the other. In `recorder` 16 frames hold two sessions and two rotations;
the two-finalizer limit is met by two sessions of two parts, and one of two faults may be
the settling of an outcome. In `children` a buffer of one frame overflows with the second,
and two calls are one that times out and its repetition under the same id, or one of either
caller; both generations may outlive SIGKILL. `retention` has two windows' worth of hours,
so that a plan may be old, and each kind of job of a file once: the one that brought it, one
that brought it again, and presses one after the other. `telegram_input` needs two updates
for a resend or a retry press; `MaxFaults` covers failing awaits and manual retries.
`ownership` needs three processes for two claims that race over a dead third; `Crowd` bounds
behaviours with commands or a reused pid to two, and a daemon of the earlier release starts
among daemons only, since maintenance shows it nothing it would respect. `digest` has one
session, because a snapshot is a set of rows and the race is about one of them changing.
`alerts` has as many changes as a flap and its return need; every interval is one step, so
that each race between two of them happens. `CHECK_DEADLOCK FALSE` is set because a bounded
instance stops when its work is settled and its bounds are spent.

**Fairness.** `JobQueue` assumes that time passes (leases expire, backoff ends), startup and
shutdown finish, launchd restarts a daemon that died, timers keep ticking, and a handler
settles, because every await in it has a deadline. It does not assume that a handler
publishes, that heartbeats run or that operators act. `Outbox` assumes the same of delays,
restart and drain, and that every request is answered or times out; Telegram never has to
accept anything. `SessionDelivery`: loops claim, backoff ends, claimed handlers end and the
drain goes on; nobody retries. `Archive`: finalizers end and their looks at deferred
outcomes are taken, a run that ends is drained, the daemon is restarted, recovery proceeds;
nobody has to stop talking. `AsrWorker`: timers fire, both graces among them, and events of
the spawn and the output arrive; a worker may never answer, ignore SIGTERM and outlive
SIGKILL. `Capture`: the same, but its child obeys SIGKILL. `RunEnds` adds that the recorder
takes its frames, as a hypothesis of the property; `MicrophoneIsReleased` does not need it.
`Retention`: time passes and the hourly loop runs. `TelegramInput`: both loops go on, and a
job is claimed when it keeps being claimable, because the oldest goes first.
`DaemonOwnership`: a claim's own steps. `Digest`: the daemon is restarted, its loops run and
a session moves on; launchd and the command are not relied on. `Alerts`: ticks, the health
loop, the drain and restarts.

### Configurations beside the runs

Each shows one promise of section 5 broken, or a variation; run them with
`tlc -config C.cfg M`.

| Configuration | Module | Shows |
| --- | --- | --- |
| `MCJobQueueRevive.cfg`, `MCJobQueueBudget.cfg`, `MCJobQueueStranded.cfg` | `MCJobQueue` | findings 1, 2, 3 |
| `MCOutboxReconcile.cfg` | `MCOutbox` | finding 4 |
| `MCDeliveryTwice.cfg` | `MCDelivery` | finding 5 |
| `SessionDeliveryRejected.cfg`, `SessionDeliverySilent.cfg` | `SessionDelivery` | findings 7, 8 |
| `SessionizerShortPreRoll.cfg` | `Sessionizer` | finding 9 |
| `ArchiveTiming.cfg` | `Archive` | finding 10 |
| `MCRetentionJobs.cfg` | `MCRetention` | finding 11 |
| `MCTelegramInputSilent.cfg` | `MCTelegramInput` | finding 12 |
| `MCDaemonOwnershipSignal.cfg` | `MCDaemonOwnership` | finding 13 |
| `MCAlertsEarly.cfg` | `MCAlerts` | finding 14 |

## 4. What is proved

TLAPS checks the theorems below for every value of the constants. They assume only the
modules' named assumptions (`QueueAssumption`, `OutboxAssumption`, ...): typing facts,
non-emptiness, that a session has a part, and for `DigestDay` that the search starts
within the instants the zones are defined on. `MachineInvariant` has three hypotheses
more, given below. The proof modules extend the MC modules, so that what is proved is
the property a run checks, with TLC's bounds left open; `RootSpec` is
`MCDaemonOwnership` without the bound on crowds. In a module with two halves a
theorem speaks of the one half (`A!Spec`, `M!Spec`, `C!Spec`), or of both (`MCSpec` of
`MCDigest`, `ChildrenSpec` of `MCChildren`). `H!Spec` is `Alerts` without its fairness.

`JobQueueProofs`:

- `TypeCorrect`; then `LeaseCarriesNewestClaim`, inductive with types alone, and
  from it `ReclaimedNeverPublishes`: `Publish` checks the token of a lease, and the
  token of a lease is the newest. This holds with legacy daemons.
- `OneDaemonInvariant`. "A running handler owns its row" is not inductive: a start
  may return leases, so one must know that no daemon is alive then; that needs that
  a live daemon is the one the ownership row names (`OneDaemon`), that handlers hold
  rows in its name under distinct tokens (`HandlersHoldRows`, `DistinctTokens`), and
  for a start without a row, that an unexpired lease belongs to a running handler or
  to a dead owner (`LiveLeasesBacked`). The budget needs to know which leased rows
  still have their attempt undecided (`AttemptsAccounted`), exhaustion the same
  (`DeadAccounted`).
- From it: `NoSelfReclaim`, `NoConcurrentHandlers`, `AttemptsAreCharged`,
  `DeadIsDeserved` and the action property `CleanExit`. `QueueInvariant` puts them
  together: what the run `jobqueue_main` checks as `QueueInv`, for every instance.
- `LedgerInvariant`: the token of a row is there exactly while it is leased, a handler
  that published has its facts, and a done job its facts and follow-up. It gives
  `NothingLostAtHandOver` and, with the others, `QueueImplementsLedger`: each action of
  the queue is an action of `FencedWork` or leaves the ledger alone. Returning a
  lease releases the work in the ledger, whoever does it.

`OutboxProofs`:

- `TypeCorrect`; `AttemptsExact`, inductive with types alone and for any number of
  senders, since every statement of a sender is fenced; `DeadDeserved` from it;
  `LateAnswersDecideNothing`, the fence itself.
- `DrainInvariant`: at most one sender is alive (`OneAlive`), a request in flight
  still holds its row (`SenderHoldsRow`), and each message created for a row was
  acknowledged, lost its acknowledgement, or is in the hands of the one sender that
  will decide that (`CopiesAccounted`). It gives `NoSilentDuplicates`, and with the
  others `DeliveryInvariant`.
- `EventInvariant`, about the rows of one event together: a message in the chat is the
  recorded one, is in the hands of the sender, or belongs to an event that lost an
  acknowledgement (`ShownIsKnown`); the sender edits the recorded message
  (`TargetIsRecorded`) and claims the rows of an event in order (`ClaimedInOrder`). From
  it `OneMessageUnlessUnacked` and `RecordedMessageIsCurrent`.

`OwnershipProofs`: three invariants, each resting on the one before. `AuthorityInvariant`
is about the row alone: a claim that is about to replace an owner has seen its death,
and the dead stay dead (a pid that a stranger took is what makes the claim give up,
never what makes it go on). `RootInv` adds the mirror and the legacy daemons: who is up
is the one the row names. `LeaseInv` adds work: only owners hold leases, and a start
leaves no other unexpired one, as long as no command cleared a dead owner's row (finding
3) and no predecessor started again, which the history variables `cleared` and `legacy`
remember. `OwnershipInvariant` is their conjunction; `NoMutationUnderOwner` follows, since
the row of a live owner would have stopped the command.

`DeliveryProofs`: `SessionInvariant` needs beside what it says that delivery of a
transcript follows a stored one (`TranscriptFirst`); `OutcomeIsKept` follows from it: no
step takes a session out of `DONE`, and none out of `FAILED` to `PROCESSING` or `DONE` while
the notice of the failure waits. A failed session need not have a dead job: a retry may come
before it is marked (finding 1). `AudioInvariant` is about claims
that overlap: what a handler whose lease was lost may still write are files of its own
claim, and the rows of a manifest name the files of one claim (`ManifestInv`), so that
the pieces sent are the pieces of one split.

`RecorderProofs`, about both halves, the stream that feeds them, and the worker that
listens to what they stored:

- `SessionsNeverOverlap`, for every setting `validateConfig` accepts.
- `MachineInvariant` for settings with `Candidate < PreRoll < MaxPart` and `1 < Silence`.
  `config/schema.ts:341` demands none of these. The defaults (500 ms, 5 s, 15 min; 60 s)
  satisfy them, and finding 9 is what the first is for.
- `ArchiveInvariant`: each part has one owner at a time, the recorder, a finalizer, or
  after a crash the recovery (`FinalizersAreOwned`, `RecoveryIsAlone`); an outcome is kept only
  for a session that is not settled (`OutcomesPending`), whatever failed; the lane fills
  parts in order (`LaneInOrder`); a published file is known to a row or a journal
  (`PublishedIsKnown`); and a session is in the pipeline with all its parts settled
  (`PipelineIsWhole`). It gives `SessionsHandedOverWhole` for any number of sessions,
  parts, crashes and faults.
- `CaptureInvariant`, for any sizes of frame, chunk and buffer and any number of gaps.
  That a session is contiguous says nothing of the audio that is not in it yet, so the
  invariant follows a unit from the pipe to the session: the chunks are consecutive
  (`PipeInOrder`), the carry ends where the pipe begins (`CarryInOrder`), each frame follows
  the one before it or carries a gap (`FramesInOrder`), and so does the frame in hand,
  unless its epoch will have it dropped, when the next one carries the gap
  (`HeldInOrder`, `NothingBetween`). A gap that nobody noticed yet lies only where the clock
  will show it; epochs count the noticed ones (`EpochsCounted`). That a stop is not taken
  for a failure needs what each end of the stream comes from (`EndIsKnown`).
  `ChildrenCapture` says the same of the specification the run checks.
- `WorkerInvariant`, for any callers, calls and processes. Who is alive is the current
  process, one that is being stopped, or one that was given up (`Generations`), a load is
  believed only while the process that answered it is the current one (`ModelKnown`), and a
  close that joins has nobody left to wait for (`Dismissed`). That an answer reaches its own
  call is `Matched`: what the current process was sent and has written is one message for
  each request in flight, and carries the call its caller waits for. It holds although ids
  are used again, because a request that times out takes its process along. `ChildrenWorker`
  carries it to the specification of the run.

`RetentionProofs`: `RetentionInvariant` and the half of `WorkKeepsItsAudio` about sessions are
inductive together; its half about files is a property of each step. A
plan in memory is only a hint: all that counts is read again under the write lock, so
that of plans nothing is needed but that they were made in the past (`PlanOfThePast`). That no
copy of a deleted file comes back rests on `DeletedFileIsAnswered`: a job that finds an outcome
downloads nothing, and a file without one has a job that holds it. `DeletionAfterWindow`
is the safety half of `DeletionTimely`.

`InputProofs`: the offset is past handled updates only (`OffsetIsHandled`), and a handled
update has its answer and its job stored (`HandledHasOutcome`); the handler between two awaits
still owns its file (`FileIsClaimed`). `InputInvariant` and `AnnouncedStaysTrue` follow.

`DigestProofs`: the bracket of the search never turns nor closes (`TypeCorrect`), and
`ExactCorrect`: for every zone and date the instant it ends with opens that date, and is the
first to do so when the local date never goes back. `DigestInvariant`: the digest of a day
and the payload of its row are the same (`PairWritten`), and whoever writes or sends a
document goes by the stored digest, not by what it built (`WinnerInHand`).
`SnapshotWrittenOnce` adds that a builder's view is compared with the sessions in the
transaction that stores it.

`DigestProofs`, about the alerts:

- `AlertsInvariant`, for every setting. "What nobody waits to send is in the chat" is not
  inductive: one must know that the newest of the waiting rows says what the table says
  (`LastAgrees`), that the row being sent is the first (`ClaimsInOrder`), and that rows are
  retired only where a newer one follows. Two rows at most wait (`FewWait`), since a new one
  retires all but the row in flight.
- `EdgesAreSteady` and `RemindersComeLate`, the action properties in `AlertsSteady`. The wait in
  memory is never longer than the loop has seen what it waits for (`WaitsForEdge`), through
  restarts, failed transactions and a worker that is neither up nor down.
- `ChatInvariant` adds, for every setting, that an open failure of capture is covered
  neither by the notice of a start nor by a recovery of its own: while the row is raised,
  each waiting word that recording is well is followed by the word of a failure (`Covered`).
  The raise appends that word in its own transaction, a start is announced and a failure
  cleared in one step, the queue is sent in order, and what is taken out of it unsent are
  notices of a start and words of `recorder_stale`. This holds through captures that end
  without a word and transactions that fail. It does not speak of the recovery of
  `recorder_stale`, which may follow (finding 14).

Only model-checked: the violated promise of section 5, and all liveness (outside the
prover's reach, as is everything with ENABLED): `LeasesReturn`, `ExhaustionAnnounced`,
`RowsSettle`, `SessionEnds`, `SessionsSettle`, `CallsEnd`, `CaptureEnds`, `InputAnswered`,
`ClaimEnds`, `DigestEnds`, the eventual deletion in `DeletionTimely` and `SteadyIsTold`. Every
invariant that a run checks is a theorem.

## 5. Where the code and its documents disagree

1. `RevivedSessionNotFailed`: exhaustion is committed in one transaction and announced
   in a second (`cli/daemon.ts:690`). A `jobs retry` that commits between them finds no
   failed session to restore; the second then fails the session of a pending job, and its
   notice waits although the retry retires such notices. `docs/BACKLOG.md:603` calls the
   revival atomic.
2. `AttemptsWithinBudget`: an expired lease goes back to the pool whatever its attempts
   (`jobs/queue.ts:360`), so a job whose last claim lost its lease is claimed again.
   `docs/DATA_MODEL.md:148`: "Exhausted jobs become `dead`".
3. `NoLeaseWithoutOwner`: `stop` and offline commands delete a dead daemon's ownership
   row without its leases (`cli/daemon-ownership.ts:895`); the next start then refuses
   while they are unexpired, and their attempts stay spent. `docs/ARCHITECTURE.md:254`.
4. `LostAckReconcilable`: a timeout after acceptance refunds the attempt, and
   reconciliation reads zero attempts as "never sent"
   (`telegram/reconcile-delivery.ts:206`). `docs/BACKLOG.md:680`.
5. `OneManifestPerPart`: a part within the limit is queued whole without a look at the
   pieces queued under a lower limit (`jobs/delivery.ts:142`); it is sent twice and never
   marked delivered. `jobs/delivery.ts:270` refuses the opposite order.
6. `DoneOnlyWhenAllSent` (run `session_partial`): reconciliation counts the rows that
   exist (`jobs/pipeline.ts:657`). Parts within the limit are published together, but a part
   that must be split is awaited; when its split throws, the job waits in its backoff, the loop
   goes on to transcript and report, and once all that is sent the session is `DONE` without the
   part. `tests/integration/delivery.test.ts:1387`, `docs/DATA_MODEL.md:344`.
7. `RejectedStaysSilent`: a rejection leaves nothing a repeated run would read
   (`jobs/pipeline.ts:346`), so an interrupted job may accept what the user was told is
   not sent.
8. `FailureIsAnnounced`: the failure notice has one key for a session
   (`cli/daemon.ts:2022`); after a manual retry retired it, a second failure is silent.
   `tests/unit/daemon-lifecycle.test.ts:1839`.
9. `SpeechWithinDuration`: with a pre-roll below `speechCandidateMs` the journal refuses
   a short session (`sessionizer/machine.ts:228`), which the configuration allows.
10. `TimingSurvives`: when the encoder of the last part fails, the journal row with the
    session's timing goes at once (`sessionizer/recorder.ts:720`); after a crash the session
    has no end. `docs/MVP_123.md:46`.
11. `NoOpenJobOutlivesAudio`: jobs keyed by a revision do not hold the session's audio
    (`retention/policy.ts:123`). `docs/DATA_MODEL.md:349`.
12. `ExhaustionIsAnnounced`: a re-recognition that fails for good leaves the chat without an
    answer (`cli/daemon.ts:2056`), and so does one whose audio retention has deleted.
    `docs/TELEGRAM.md:498`.
13. `SignalsOwner`: `stop` signals a number whose process may have ended since the last
    check (`cli/daemon-ownership.ts:924`). `docs/DATA_MODEL.md:371`.
14. `NoGreenBeforeFrame`: a recorder without a frame counts as not stale
    (`cli/daemon.ts:1389`), so the recovery of `recorder_stale` may be the last word about
    recording while `capture_failed` is open and no frame has come. With a debounce below
    the wait for a first frame any restart after a raised `recorder_stale` gives it; with
    the defaults it takes a drain that raises it and a check collected before the next
    capture ended. `cli/daemon.ts:1327`, `:1373`.

## 6. Not modelled, and why

- Text: formatting, splitting, prompts, summaries, redaction, search. No state of
  their own; what matters of a text (how many messages, whether it is too short) is
  a choice of the models.
- Configuration, keychain, doctor, setup, model installation, status: they read, or
  write a file before the daemon runs. Values that matter are constants.
- Migrations and backups of the database: one process, one transaction each, before
  anything else runs.
- What speech recognition and voice detection compute; `classifyTranscript`, which
  nothing calls; the passes over one audio file.
- The wording and thresholds of `evaluateHealth`, and its log.
- The Python and Swift programs: their answers, silences and exits are the
  environment's steps in `AsrWorker` and `Capture`.
- Symbolic links, swapped inodes and unreadable directories in recovery and cleanup:
  each preserves the file and reports, which changes no state here.
- Behind a bound: Telegram dropping an unacknowledged update after a day
  (`telegram/router.ts:223`), a recorder of several capture generations, wall clocks
  that jump within a retention window, more than one digest day waiting.

What would extend this: the composition of `Capture` over several generations with
`Alerts`; an abstract specification of a chat that the outbox and the alerts implement.
