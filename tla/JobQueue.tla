------------------------------ MODULE JobQueue ------------------------------
(***************************************************************************)
(* The leased SQLite job queue (src/jobs/queue.ts) together with the       *)
(* worker loops of the daemon that drain it (src/cli/daemon.ts) and the    *)
(* shape every job handler has (src/jobs/pipeline.ts): claim, await work,  *)
(* publish durable facts under a lease check, renew, complete.             *)
(*                                                                         *)
(* Wall-clock time is abstracted to what the SQL compares it with: `live`  *)
(* is "lease_expires_at > now", `ready` is "run_after <= now".  Time only  *)
(* moves by ExpireLease and BackoffElapses, in any order and at any moment,*)
(* which includes a machine that sleeps through every heartbeat.           *)
(***************************************************************************)
EXTENDS Naturals

CONSTANTS
    Jobs,         \* the natural keys (idempotency_key) work can be enqueued under
    Initial,      \* the keys enqueued from outside: session finalization, recovery
    Follow,       \* Follow[j]: keys the handler of j enqueues when it accepts its input
    Announced,    \* asr keys: their exhaustion fails a session (TelegramInput has incoming_audio)
    Priority,     \* Priority[j]: the rank of j's kind in claim's ORDER BY
    Loops,        \* the worker loops of one daemon
    Serves,       \* Serves[l]: the keys whose kind loop l claims
    Procs,        \* operating-system processes that can run the daemon
    Legacy,       \* processes of a release that predates daemon_ownership
    MaxAttempts,  \* jobs.max_attempts
    MaxToken,     \* bound: number of claims
    MaxGen        \* bound: number of daemon generations

ASSUME QueueAssumption ==
    /\ Jobs # {}
    /\ Initial \subseteq Jobs
    /\ Announced \subseteq Jobs
    /\ Follow \in [Jobs -> SUBSET Jobs]
    /\ Priority \in [Jobs -> Nat]
    /\ Serves \in [Loops -> SUBSET Jobs]
    /\ Legacy \subseteq Procs
    /\ MaxAttempts \in Nat \ {0}
    /\ MaxToken \in Nat
    /\ MaxGen \in Nat

VARIABLES
    jobs,      \* the jobs table, one row per key
    nextToken, \* generation of the next lease token (a fresh UUID in the code)
    proc,      \* proc[p]: the daemon process, its phase and its generation
    nextGen,   \* the next daemon generation (pid, start time and birth marker)
    ownership, \* the daemon_ownership row: a generation, or 0 when there is none
    handler,   \* handler[p][l]: the handler loop l of p is awaiting
    outcome,   \* what the handler of a job durably decided about its input
    session,   \* audio_sessions.state of the session of a job in Announced
    notice,    \* its outbox row session-status:asr-failed:<id> exists: a row that is sent, or
               \* that a retry retires, stays (SessionDelivery has its states)
    facts,     \* history: the lease generation that last published facts of a job
    newest,    \* history: the generation of the last claim of a job
    charged    \* history: claims of a job, since it was last reset, that nothing refunds

vars == <<jobs, nextToken, proc, nextGen, ownership, handler, outcome, session,
          notice, facts, newest, charged>>

JobState == {"absent", "pending", "leased", "done", "dead"}
Tokens == 0 .. MaxToken
Gens == 0 .. MaxGen

NoLease == [token |-> 0, owner |-> 0, live |-> FALSE]
Idle == [phase |-> "idle", token |-> 0, job |-> CHOOSE j \in Jobs : TRUE]

Lease == [token : Tokens, owner : Gens, live : BOOLEAN]
Row == [state : JobState, attempts : Nat, ready : BOOLEAN, lease : Lease]
Process == [phase : {"down", "booting", "up", "stopping"}, gen : Gens]
Handler == [phase : {"idle", "work", "published", "dying"}, token : Tokens, job : Jobs]

TypeOK ==
    /\ jobs \in [Jobs -> Row]
    /\ nextToken \in 1 .. MaxToken + 1
    /\ proc \in [Procs -> Process]
    /\ nextGen \in 1 .. MaxGen + 1
    /\ ownership \in Gens
    /\ handler \in [Procs -> [Loops -> Handler]]
    /\ outcome \in [Jobs -> {"none", "accepted", "rejected"}]
    /\ session \in [Jobs -> {"open", "FAILED", "DONE", "REJECTED"}]
    /\ notice \in [Jobs -> BOOLEAN]
    /\ facts \in [Jobs -> Tokens]
    /\ newest \in [Jobs -> Tokens]
    /\ charged \in [Jobs -> Nat]

-----------------------------------------------------------------------------
(* Reading the tables *)

Alive(p) == proc[p].phase # "down"

\* A handler is running until its finally block deletes it from #activeJobLeases.
Running(p, l) == handler[p][l].phase \in {"work", "published"}

\* jobs.state = 'leased' AND lease_owner = token
Holds(row, token) == row.state = "leased" /\ row.lease.token = token

\* Mutant: the lease token is not compared.
HoldsAny(row, token) == row.state = "leased" /\ row.lease.live

\* ... AND lease_expires_at > now: the condition of assertLease, complete and fail.
HoldsLive(row, token) == Holds(row, token) /\ row.lease.live

Pending(row, attempts, ready) ==
    [row EXCEPT !.state = "pending", !.attempts = attempts, !.ready = ready, !.lease = NoLease]

Stale(row) == row.state = "leased" /\ ~row.lease.live

\* Mutants: nothing is renewed, or the lease is taken back from whoever holds it.
RenewNothing(rows, p) == rows

RenewUnconditional(rows, p) ==
    [j \in Jobs |->
        IF \E l \in Loops : Running(p, l) /\ handler[p][l].job = j /\ rows[j].state = "leased"
        THEN [rows[j] EXCEPT !.lease = [token |-> handler[p][CHOOSE l \in Loops : handler[p][l].job = j].token,
                                        owner |-> proc[p].gen, live |-> TRUE]]
        ELSE rows[j]]

\* renew for every handler in this daemon's #activeJobLeases
RenewActive(rows, p) ==
    [j \in Jobs |->
        IF \E l \in Loops : Running(p, l) /\ handler[p][l].job = j /\ Holds(rows[j], handler[p][l].token)
        THEN [rows[j] EXCEPT !.lease.live = TRUE]
        ELSE rows[j]]

\* Mutant: expired leases stay.
RecoverNothing(rows) == rows

\* recoverStaleLeases: neither the attempts nor run_after are touched.
RecoverStale(rows) ==
    [j \in Jobs |-> IF Stale(rows[j]) THEN Pending(rows[j], rows[j].attempts, rows[j].ready)
                                      ELSE rows[j]]

\* Mutants: the whole budget is refunded, or nothing.
RefundAll(n) == n - MaxAttempts

RefundNothing(n) == n

\* MAX(0, attempts - 1)
Refund(n) == IF n = 0 THEN 0 ELSE n - 1

\* recoverLeasesAfterProvenDaemonDeath, for the leases whose token carries g's prefix.
RecoverDead(rows, g) ==
    [j \in Jobs |-> IF rows[j].state = "leased" /\ rows[j].lease.owner = g
                    THEN Pending(rows[j], Refund(rows[j].attempts), TRUE)
                    ELSE rows[j]]

\* Mutant: ON CONFLICT DO UPDATE.
EnqueueUpsert(rows, K) == [j \in Jobs |-> IF j \in K THEN Pending(rows[j], 0, TRUE) ELSE rows[j]]

\* INSERT ... ON CONFLICT (idempotency_key) DO NOTHING
Enqueue(rows, K) ==
    [j \in Jobs |-> IF j \in K /\ rows[j].state = "absent" THEN Pending(rows[j], 0, TRUE)
                                                           ELSE rows[j]]

\* Mutant: attempts are not reset.
RevivedSpent(row) == Pending(row, row.attempts, TRUE)

\* The UPDATE of retryDead
Revived(row) == Pending(row, 0, TRUE)

Claimable(rows, l) == {j \in Serves[l] : rows[j].state = "pending" /\ rows[j].ready}

\* The UPDATE of claim, under a fresh token of the daemon's generation.
Claimed(rows, j, token, owner) ==
    [rows EXCEPT ![j].state = "leased", ![j].attempts = @ + 1,
                 ![j].lease = [token |-> token, owner |-> owner, live |-> TRUE]]

First(K) == {j \in K : \A k \in K : Priority[j] <= Priority[k]}

Init ==
    /\ jobs = [j \in Jobs |-> [state |-> "absent", attempts |-> 0, ready |-> TRUE,
                               lease |-> NoLease]]
    /\ nextToken = 1
    /\ proc = [p \in Procs |-> [phase |-> IF p \in Legacy THEN "up" ELSE "down", gen |-> 0]]
    /\ nextGen = 1
    /\ ownership = 0
    /\ handler = [p \in Procs |-> [l \in Loops |-> Idle]]
    /\ outcome = [j \in Jobs |-> "none"]
    /\ session = [j \in Jobs |-> "open"]
    /\ notice = [j \in Jobs |-> FALSE]
    /\ facts = [j \in Jobs |-> 0]
    /\ newest = [j \in Jobs |-> 0]
    /\ charged = [j \in Jobs |-> 0]

-----------------------------------------------------------------------------
(* The queue, the passage of time and the operator *)

EnqueueInitial(j) ==
    /\ j \in Initial
    /\ jobs[j].state = "absent"
    /\ jobs' = Enqueue(jobs, {j})
    /\ UNCHANGED <<nextToken, proc, nextGen, ownership, handler, outcome, session,
                   notice, facts, newest, charged>>

ExpireLease(j) ==
    /\ HoldsLive(jobs[j], jobs[j].lease.token)
    /\ jobs' = [jobs EXCEPT ![j].lease.live = FALSE]
    /\ UNCHANGED <<nextToken, proc, nextGen, ownership, handler, outcome, session,
                   notice, facts, newest, charged>>

BackoffElapses(j) ==
    /\ jobs[j].state = "pending" /\ ~jobs[j].ready
    /\ jobs' = [jobs EXCEPT ![j].ready = TRUE]
    /\ UNCHANGED <<nextToken, proc, nextGen, ownership, handler, outcome, session,
                   notice, facts, newest, charged>>

\* `openmurmur jobs retry JOB_ID`, in a process of its own: one transaction.
RetryDead(j) ==
    /\ jobs[j].state = "dead"
    /\ jobs' = [jobs EXCEPT ![j] = Revived(jobs[j])]
    /\ session' = [session EXCEPT ![j] = IF @ = "FAILED" THEN "open" ELSE @]
    /\ charged' = [charged EXCEPT ![j] = 0]
    /\ UNCHANGED <<nextToken, proc, nextGen, ownership, handler, outcome, notice, facts, newest>>

\* reconcileSessionDelivery: the messages the follow-ups published are in the chat.
SessionDone(j) ==
    /\ j \in Announced
    /\ outcome[j] = "accepted" /\ session[j] # "DONE"
    /\ \A k \in Follow[j] : facts[k] # 0
    /\ session' = [session EXCEPT ![j] = "DONE"]
    /\ UNCHANGED <<jobs, nextToken, proc, nextGen, ownership, handler, outcome, notice, facts, newest, charged>>

-----------------------------------------------------------------------------
(* The daemon process *)

\* Mutant: the recorded process is taken for dead.
PresumedDead(g) == TRUE

\* The process the ownership row names is not running.
ProvenDead(g) == \A p \in Procs : Alive(p) => proc[p].gen # g

\* claimDaemonPid.  With no row a legacy daemon may still be running, so any
\* unexpired lease refuses the start; with a row, its process must be dead and
\* its leases are returned in the transaction that replaces the row.
Start(p) ==
    /\ p \notin Legacy
    /\ ~Alive(p)
    /\ nextGen <= MaxGen
    /\ IF ownership = 0
         THEN /\ \A j \in Jobs : jobs[j].state = "leased" => Stale(jobs[j])
              /\ jobs' = jobs
         ELSE /\ ProvenDead(ownership)
              /\ jobs' = RecoverDead(jobs, ownership)
    /\ ownership' = nextGen
    /\ nextGen' = nextGen + 1
    /\ proc' = [proc EXCEPT ![p] = [phase |-> "booting", gen |-> nextGen]]
    /\ UNCHANGED <<nextToken, handler, outcome, session, notice, facts, newest, charged>>

\* markExhaustedAsrSession, for the jobs in K: a session that is DONE or REJECTED is
\* left alone; any other is FAILED, and its one notice is enqueued if it has none.
MarkExhausted(K) ==
    LET marked == {j \in K : session[j] \notin {"DONE", "REJECTED"}} IN
    /\ session' = [j \in Jobs |-> IF j \in marked THEN "FAILED" ELSE session[j]]
    /\ notice' = [j \in Jobs |-> notice[j] \/ j \in marked]

\* Mutant: startup does not look for them.
NoneExhausted(j) == FALSE

\* reconcileDeadAsrSessions: every exhausted asr job.
Exhausted(j) == j \in Announced /\ jobs[j].state = "dead"

\* The rest of startup: stale leases, then the sessions of exhausted ASR jobs.
Boot(p) ==
    /\ proc[p].phase = "booting"
    /\ jobs' = RecoverStale(jobs)
    /\ MarkExhausted({j \in Jobs : Exhausted(j)})
    /\ proc' = [proc EXCEPT ![p].phase = "up"]
    /\ UNCHANGED <<nextToken, nextGen, ownership, handler, outcome, facts, newest, charged>>

\* SIGTERM: the timers are cleared, handlers in flight are still awaited.
Stop(p) ==
    /\ proc[p].phase \in {"booting", "up"}
    /\ nextGen <= MaxGen
    /\ proc' = [proc EXCEPT ![p].phase = "stopping"]
    /\ UNCHANGED <<jobs, nextToken, nextGen, ownership, handler, outcome, session,
                   notice, facts, newest, charged>>

\* Mutant: the shutdown does not wait.
NotAwaited(p) == TRUE

\* #stop awaits every worker loop.
Settled(p) == \A l \in Loops : handler[p][l].phase = "idle"

\* closeStorage, once every handler has settled: release the ownership row.
Exit(p) ==
    /\ proc[p].phase = "stopping"
    /\ Settled(p)
    /\ proc' = [proc EXCEPT ![p] = [phase |-> "down", gen |-> 0]]
    /\ ownership' = IF ownership = proc[p].gen THEN 0 ELSE ownership
    /\ UNCHANGED <<jobs, nextToken, nextGen, handler, outcome, session, notice, facts, newest, charged>>

\* A crash, a power loss, or launchd's SIGKILL after the shutdown deadline.
Crash(p) ==
    /\ Alive(p)
    /\ nextGen <= MaxGen
    /\ proc' = [proc EXCEPT ![p] = [phase |-> "down", gen |-> 0]]
    /\ handler' = [handler EXCEPT ![p] = [l \in Loops |-> Idle]]
    /\ UNCHANGED <<jobs, nextToken, nextGen, ownership, outcome, session, notice, facts, newest, charged>>

\* clearDeadDaemonControl and assertDaemonStoppedForOutboxMutation: `openmurmur
\* stop`, or an offline outbox command, finds the recorded daemon dead and
\* deletes its row.  Its leases stay; nothing will refund their attempts.
ClearDead ==
    /\ ownership # 0
    /\ ProvenDead(ownership)
    /\ ownership' = 0
    /\ charged' = [j \in Jobs |-> IF jobs[j].state = "leased" /\ jobs[j].lease.owner = ownership
                                 THEN charged[j] + 1
                                 ELSE charged[j]]
    /\ UNCHANGED <<jobs, nextToken, proc, nextGen, handler, outcome, session, notice, facts, newest>>

-----------------------------------------------------------------------------
(* One worker loop *)

\* tickJobs up to the first await: renew the leases of this daemon's running
\* handlers, return expired ones to the pool, claim the most urgent ready job.
Tick(p, l) ==
    /\ proc[p].phase = "up"
    /\ handler[p][l].phase = "idle"
    /\ LET rows == RecoverStale(RenewActive(jobs, p))
           ready == Claimable(rows, l)
       IN \/ /\ ready = {} \/ nextToken > MaxToken
             /\ jobs' = rows
             /\ UNCHANGED <<nextToken, handler, newest>>
          \/ /\ nextToken <= MaxToken
             /\ \E j \in First(ready) :
                  /\ jobs' = Claimed(rows, j, nextToken, proc[p].gen)
                  /\ handler' = [handler EXCEPT
                        ![p][l] = [phase |-> "work", token |-> nextToken, job |-> j]]
                  /\ newest' = [newest EXCEPT ![j] = nextToken]
             /\ nextToken' = nextToken + 1
    /\ UNCHANGED <<proc, nextGen, ownership, outcome, session, notice, facts, charged>>

\* The heartbeat timer of withLeaseHeartbeat: an expired lease nobody reclaimed renews.
Heartbeat(p, l) ==
    LET h == handler[p][l] IN
    /\ Running(p, l)
    /\ Holds(jobs[h.job], h.token)
    /\ jobs' = [jobs EXCEPT ![h.job].lease.live = TRUE]
    /\ UNCHANGED <<nextToken, proc, nextGen, ownership, handler, outcome, session,
                   notice, facts, newest, charged>>

\* The handler's write transaction: assertLease, the durable facts and the
\* follow-up jobs.  Facts stored by an earlier generation are replayed.
Publish(p, l) ==
    LET h == handler[p][l] IN
    /\ Running(p, l)
    /\ HoldsLive(jobs[h.job], h.token)
    /\ \E o \in IF outcome[h.job] = "accepted" THEN {"accepted"} ELSE {"accepted", "rejected"} :
         /\ outcome' = [outcome EXCEPT ![h.job] = o]
         /\ jobs' = IF o = "accepted" THEN Enqueue(jobs, Follow[h.job]) ELSE jobs
         /\ session' = IF o = "rejected" /\ h.job \in Announced
                       THEN [session EXCEPT ![h.job] = "REJECTED"] ELSE session
    /\ facts' = [facts EXCEPT ![h.job] = h.token]
    /\ handler' = [handler EXCEPT ![p][l].phase = "published"]
    /\ UNCHANGED <<nextToken, proc, nextGen, ownership, notice, newest, charged>>

\* Mutant: completes a handler that published nothing.
FinishUnpublished(p, l) ==
    LET h == handler[p][l] IN
    /\ Running(p, l)
    /\ Holds(jobs[h.job], h.token)
    /\ jobs' = [jobs EXCEPT ![h.job].state = "done", ![h.job].lease = NoLease]
    /\ handler' = [handler EXCEPT ![p][l] = Idle]
    /\ UNCHANGED <<nextToken, proc, nextGen, ownership, outcome, session, notice, facts, newest, charged>>

\* The handler returned: the authoritative renew, then complete, in one turn.
Finish(p, l) ==
    LET h == handler[p][l] IN
    /\ handler[p][l].phase = "published"
    /\ Holds(jobs[h.job], h.token)
    /\ jobs' = [jobs EXCEPT ![h.job].state = "done", ![h.job].lease = NoLease]
    /\ handler' = [handler EXCEPT ![p][l] = Idle]
    /\ UNCHANGED <<nextToken, proc, nextGen, ownership, outcome, session, notice, facts, newest, charged>>

\* fail: the handler threw while the daemon runs, and its lease is live.
Fail(p, l) ==
    LET h == handler[p][l]
        row == jobs[h.job]
        exhausted == row.attempts >= MaxAttempts
    IN
    /\ Running(p, l)
    /\ proc[p].phase = "up"
    /\ HoldsLive(row, h.token)
    /\ jobs' = [jobs EXCEPT ![h.job] =
                  IF exhausted THEN [row EXCEPT !.state = "dead", !.ready = TRUE, !.lease = NoLease]
                               ELSE Pending(row, row.attempts, FALSE)]
    /\ handler' = [handler EXCEPT ![p][l] =
                     IF exhausted /\ h.job \in Announced THEN [h EXCEPT !.phase = "dying"] ELSE Idle]
    /\ charged' = [charged EXCEPT ![h.job] = @ + 1]
    /\ UNCHANGED <<nextToken, proc, nextGen, ownership, outcome, session, notice, facts, newest>>

\* releaseInterruptedJob: the handler threw because the daemon is shutting down.
Release(p, l) ==
    LET h == handler[p][l]
        row == jobs[h.job]
    IN
    /\ Running(p, l)
    /\ proc[p].phase = "stopping"
    /\ HoldsLive(row, h.token)
    /\ jobs' = [jobs EXCEPT ![h.job] = Pending(row, Refund(row.attempts), TRUE)]
    /\ handler' = [handler EXCEPT ![p][l] = Idle]
    /\ UNCHANGED <<nextToken, proc, nextGen, ownership, outcome, session, notice, facts, newest, charged>>

\* JobLeaseLostError, or any throw after the lease ran out: fail answers 'lost'
\* and releaseInterruptedJob changes no row.
Lost(p, l) ==
    LET h == handler[p][l] IN
    /\ Running(p, l)
    /\ ~HoldsLive(jobs[h.job], h.token)
    /\ handler' = [handler EXCEPT ![p][l] = Idle]
    /\ charged' = [charged EXCEPT ![h.job] = @ + 1]
    /\ UNCHANGED <<jobs, nextToken, proc, nextGen, ownership, outcome, session, notice, facts, newest>>

\* markExhaustedAsrSession: a transaction of its own, after fail's has committed.
Announce(p, l) ==
    LET h == handler[p][l] IN
    /\ h.phase = "dying"
    /\ MarkExhausted({h.job})
    /\ handler' = [handler EXCEPT ![p][l] = Idle]
    /\ UNCHANGED <<jobs, nextToken, proc, nextGen, ownership, outcome, facts, newest, charged>>

Settle(p, l) == Finish(p, l) \/ Fail(p, l) \/ Release(p, l) \/ Lost(p, l) \/ Announce(p, l)

Next ==
    \/ \E j \in Jobs : EnqueueInitial(j) \/ ExpireLease(j) \/ BackoffElapses(j) \/ RetryDead(j)
    \/ \E j \in Jobs : SessionDone(j)
    \/ \E p \in Procs : Start(p) \/ Boot(p) \/ Stop(p) \/ Exit(p) \/ Crash(p)
    \/ ClearDead
    \/ \E p \in Procs, l \in Loops :
         \/ Tick(p, l) \/ Heartbeat(p, l) \/ Publish(p, l)
         \/ Settle(p, l)

Spec == Init /\ [][Next]_vars

-----------------------------------------------------------------------------
(* What the queue promises *)

\* ARCHITECTURE.md, "Job leases, not locks": a reclaimed generation cannot
\* publish.  Facts are only ever written by the newest claim of the job, even
\* when an older handler of another process is still running.
PublishedByNewestClaim ==
    [][\A j \in Jobs : facts'[j] # facts[j] => facts'[j] = newest[j]]_vars

\* The comment at the top of tickJobs: after a long sleep this daemon must not
\* reclaim its own still-running handler.  Stated for databases no legacy daemon uses.
RunningHandlerOwnsRow ==
    Legacy = {} =>
        \A p \in Procs, l \in Loops : Running(p, l) => Holds(jobs[handler[p][l].job], handler[p][l].token)

\* No job is ever processed by two handlers at once, over every restart.
OneHandlerPerJob ==
    Legacy = {} =>
        \A p, q \in Procs : \A l, m \in Loops :
            (Running(p, l) /\ Running(q, m) /\ handler[p][l].job = handler[q][m].job) => p = q /\ l = m

\* A crash, a shutdown or a restart refunds the attempt of the claim it interrupts:
\* attempts are charged only for handlers that threw and for leases whose owner
\* row an operator cleared.  One more attempt belongs to the run in flight, or to
\* the one that succeeded.
InFlight(j) == IF jobs[j].state \in {"leased", "done"} THEN 1 ELSE 0
BudgetAccounted == Legacy = {} => \A j \in Jobs : jobs[j].attempts <= charged[j] + InFlight(j)

\* An exhausted job really was charged max_attempts times since it was last reset.
DeadAfterMaxCharges == Legacy = {} => \A j \in Jobs : jobs[j].state = "dead" => charged[j] >= MaxAttempts

\* Releasing the ownership row on a clean exit leaves no unexpired lease behind,
\* which the next start would refuse as the lease of an unknown daemon.
CleanExitLeavesNoLease ==
    [][(Legacy = {} /\ \E p \in Procs : Exit(p)) =>
         \A j \in Jobs : jobs[j].state = "leased" => Stale(jobs[j])]_vars

\* The input of j is decided, and if it was accepted its follow-ups exist.
HandedOver(j) ==
    /\ outcome[j] # "none"
    /\ outcome[j] = "accepted" => \A k \in Follow[j] : jobs[k].state # "absent"

\* Whatever crashed between the publishing transaction and completion, a done
\* job has decided its input and the accepted ones have all their follow-ups.
DoneHandedOver == \A j \in Jobs : jobs[j].state = "done" => HandedOver(j)

-----------------------------------------------------------------------------
(* The inductive invariant behind these properties, for Legacy = {}. *)

Held(j) == \E p \in Procs, l \in Loops :
             Running(p, l) /\ handler[p][l].job = j /\ Holds(jobs[j], handler[p][l].token)

Nobody == \A p \in Procs : ~Alive(p)

\* At most one process is alive, and the ownership row names its generation.
OneDaemon ==
    /\ \A p \in Procs : Alive(p) => ownership # 0 /\ proc[p].gen = ownership
    /\ \A p, q \in Procs : Alive(p) /\ Alive(q) => p = q

\* Handlers run only in a daemon that finished starting, under distinct tokens,
\* and each still holds its row in the name of the current owner.
HandlersHoldRows ==
    \A p \in Procs, l \in Loops : Running(p, l) =>
        /\ proc[p].phase \in {"up", "stopping"}
        /\ handler[p][l].token < nextToken
        /\ Holds(jobs[handler[p][l].job], handler[p][l].token)
        /\ jobs[handler[p][l].job].lease.owner = ownership

DistinctTokens ==
    \A p \in Procs : \A l, m \in Loops :
        (Running(p, l) /\ Running(p, m) /\ handler[p][l].token = handler[p][m].token) => l = m

\* An unexpired lease is backed by a running handler of the owner; when no daemon is
\* alive it still names the ownership row, unless that row was cleared.
LiveLeasesBacked ==
    \A j \in Jobs : (jobs[j].state = "leased" /\ jobs[j].lease.live) =>
        /\ ownership \in {0, jobs[j].lease.owner}
        /\ Nobody \/ (Held(j) /\ ownership # 0)

\* The attempt of the claim in flight is still to be decided: by its handler, or
\* by the restart that proves its daemon dead.
Undecided(j) ==
    \/ jobs[j].state = "done"
    \/ /\ jobs[j].state = "leased"
       /\ Held(j) \/ (Nobody /\ ownership # 0 /\ jobs[j].lease.owner = ownership)

AttemptsAccounted ==
    \A j \in Jobs : jobs[j].attempts <= charged[j] + (IF Undecided(j) THEN 1 ELSE 0)

\* A dead job was charged often enough.
DeadAccounted == \A j \in Jobs : jobs[j].state = "dead" => charged[j] >= MaxAttempts

Exclusive ==
    /\ OneDaemon
    /\ HandlersHoldRows
    /\ DistinctTokens
    /\ LiveLeasesBacked
    /\ AttemptsAccounted
    /\ DeadAccounted

\* The one-daemon invariant: every part holds in every reachable state of a
\* database that no legacy daemon shares.
DaemonInv == Legacy = {} => Exclusive

\* With or without a legacy daemon, a leased row carries its newest claim.
LeaseIsNewest == \A j \in Jobs : jobs[j].state = "leased" => jobs[j].lease.token = newest[j]

\* A leased row carries a token and no other row does.
TokensAreLeases ==
    \A j \in Jobs : IF jobs[j].state = "leased" THEN jobs[j].lease.token # 0
                                                 ELSE jobs[j].lease = NoLease

\* A handler past its write transaction left facts and the follow-ups behind.
PublishedIsDurable ==
    \A p \in Procs, l \in Loops : handler[p][l].phase = "published" =>
        facts[handler[p][l].job] # 0 /\ HandedOver(handler[p][l].job)

\* The claims and attempts of the queue add up: a running handler still holds the
\* newest claim of its job, every attempt is accounted for, and only a job charged
\* max_attempts times is dead (tickJobs, recoverStaleLeases, fail, the refunds).
QueueInv ==
    /\ TypeOK /\ DaemonInv /\ LeaseIsNewest /\ TokensAreLeases /\ PublishedIsDurable
    /\ RunningHandlerOwnsRow /\ BudgetAccounted /\ DeadAfterMaxCharges

-----------------------------------------------------------------------------
(* What the repository says and the code does not keep. *)

\* BACKLOG.md says of `jobs retry` that "Reviving an ASR job restores its failed
\* session to PROCESSING and retires a pending stale failure notice atomically":
\* a job that is back in the pool has no failed session.
RevivedSessionNotFailed == \A j \in Jobs : jobs[j].state \in {"pending", "leased"} => session[j] # "FAILED"

\* DATA_MODEL.md, jobs.attempts: "Exhausted jobs become dead, visible, not
\* silently dropped": no job is claimed beyond its attempts.
AttemptsWithinBudget == \A j \in Jobs : jobs[j].attempts <= MaxAttempts

\* ARCHITECTURE.md, "One daemon per data root": the exact lease return is part of
\* ownership replacement, "so another process death cannot strand the
\* predecessor's work".  Without an ownership row no unexpired lease is left.
NoLeaseWithoutOwner ==
    (Legacy = {} /\ ownership = 0) => \A j \in Jobs : jobs[j].state = "leased" => Stale(jobs[j])

-----------------------------------------------------------------------------
(* Refinement *)

\* The queue implements the ledger of FencedWork: the lease token is the holder's
\* generation, and expiry, heartbeats and processes are invisible.
StatusOf(state) ==
    CASE state = "absent" -> "none"
      [] state = "pending" -> "waiting"
      [] state = "leased" -> "held"
      [] state = "done" -> "settled"
      [] state = "dead" -> "given up"

Ledger == INSTANCE FencedWork WITH
    Work <- Jobs,
    status <- [j \in Jobs |-> StatusOf(jobs[j].state)],
    holder <- [j \in Jobs |-> jobs[j].lease.token],
    effect <- facts,
    issued <- nextToken

ImplementsFencedWork == Ledger!Spec

-----------------------------------------------------------------------------
(* Liveness.  Timers keep firing (Tick), startup runs to completion, launchd *)
(* restarts a daemon that died, wall-clock time passes, and a handler        *)
(* settles because every await in it has a timeout.                          *)

Fairness ==
    /\ \A j \in Jobs : WF_vars(ExpireLease(j)) /\ WF_vars(BackoffElapses(j))
    /\ \A p \in Procs : WF_vars(Boot(p)) /\ WF_vars(Exit(p))
    /\ WF_vars(\E p \in Procs : Start(p))
    /\ \A p \in Procs, l \in Loops : WF_vars(Tick(p, l)) /\ WF_vars(Settle(p, l))

LiveSpec == Spec /\ Fairness

\* A lease never outlives its worker for ever: the job of a crashed, hung or
\* stopped handler returns to the pool or is settled.
LeasesReturn == \A j \in Jobs : jobs[j].state = "leased" ~> jobs[j].state # "leased"

\* An exhausted transcription does not end in silence, even when the daemon dies between
\* recording the exhaustion and announcing it: unless its session was completed or
\* rejected before, or the operator revives it, the session is FAILED with its notice
\* in the outbox.  The notice has one key: a second exhaustion finds the first one's.
ExhaustionAnnounced ==
    \A j \in Announced :
        jobs[j].state = "dead" ~>
            \/ session[j] = "FAILED" /\ notice[j]
            \/ session[j] \in {"DONE", "REJECTED"}
            \/ jobs[j].state # "dead"
=============================================================================
