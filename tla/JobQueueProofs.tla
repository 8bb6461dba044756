--------------------------- MODULE JobQueueProofs ---------------------------
(***************************************************************************)
(* Theorems about JobQueue for every set of jobs, loops and processes and  *)
(* every bound.                                                            *)
(***************************************************************************)
EXTENDS JobQueue, TLAPS

-----------------------------------------------------------------------------
(* The operators on the jobs table keep its type. *)

LEMMA NoLeaseType == NoLease \in Lease
BY QueueAssumption DEF NoLease, Lease, Tokens, Gens

LEMMA IdleType == Idle \in Handler
BY QueueAssumption DEF Idle, Handler, Tokens

LEMMA PendingType ==
  ASSUME NEW row \in Row, NEW n \in Nat, NEW b \in BOOLEAN
  PROVE  Pending(row, n, b) \in Row
BY NoLeaseType DEF Pending, Row, JobState

LEMMA RefundType ==
  ASSUME NEW n \in Nat
  PROVE  Refund(n) \in Nat
BY DEF Refund

LEMMA RenewType ==
  ASSUME NEW rows \in [Jobs -> Row], NEW p
  PROVE  RenewActive(rows, p) \in [Jobs -> Row]
<1>1. ASSUME NEW j \in Jobs PROVE [rows[j] EXCEPT !.lease.live = TRUE] \in Row
  BY <1>1 DEF Row, Lease
<1> QED
  BY <1>1 DEF RenewActive

LEMMA RecoverStaleType ==
  ASSUME NEW rows \in [Jobs -> Row]
  PROVE  RecoverStale(rows) \in [Jobs -> Row]
<1>1. ASSUME NEW j \in Jobs
      PROVE  Pending(rows[j], rows[j].attempts, rows[j].ready) \in Row
  BY PendingType DEF Row
<1> QED
  BY <1>1 DEF RecoverStale

LEMMA RecoverDeadType ==
  ASSUME NEW rows \in [Jobs -> Row], NEW g
  PROVE  RecoverDead(rows, g) \in [Jobs -> Row]
<1>1. ASSUME NEW j \in Jobs
      PROVE  Pending(rows[j], Refund(rows[j].attempts), TRUE) \in Row
  <2>1. rows[j] \in Row /\ rows[j].attempts \in Nat
    BY DEF Row
  <2> QED
    BY <2>1, PendingType, RefundType
<1> QED
  BY <1>1 DEF RecoverDead

LEMMA EnqueueType ==
  ASSUME NEW rows \in [Jobs -> Row], NEW K
  PROVE  Enqueue(rows, K) \in [Jobs -> Row]
<1>1. ASSUME NEW j \in Jobs
      PROVE  Pending(rows[j], 0, TRUE) \in Row
  BY PendingType
<1> QED
  BY <1>1 DEF Enqueue

-----------------------------------------------------------------------------
(* Type correctness, one lemma per action that writes typed state. *)

LEMMA TypeInit == Init => TypeOK
<1> SUFFICES ASSUME Init PROVE TypeOK
  OBVIOUS
<1>1. jobs \in [Jobs -> Row]
  BY NoLeaseType DEF Init, Row, JobState
<1>2. handler \in [Procs -> [Loops -> Handler]]
  BY IdleType DEF Init
<1>3. proc \in [Procs -> Process]
  BY QueueAssumption DEF Init, Process, Gens
<1>4. /\ outcome \in [Jobs -> {"none", "accepted", "rejected"}]
      /\ session \in [Jobs -> {"open", "FAILED", "DONE", "REJECTED"}]
      /\ notice \in [Jobs -> BOOLEAN]
      /\ facts \in [Jobs -> Tokens]
      /\ newest \in [Jobs -> Tokens]
      /\ charged \in [Jobs -> Nat]
  BY QueueAssumption DEF Init, Tokens
<1>5. nextToken \in 1 .. MaxToken + 1 /\ nextGen \in 1 .. MaxGen + 1 /\ ownership \in Gens
  BY QueueAssumption DEF Init, Gens
<1> QED
  BY <1>1, <1>2, <1>3, <1>4, <1>5 DEF TypeOK

LEMMA MarkExhaustedType ==
  ASSUME TypeOK, NEW K, MarkExhausted(K)
  PROVE  /\ session' \in [Jobs -> {"open", "FAILED", "DONE", "REJECTED"}]
         /\ notice' \in [Jobs -> BOOLEAN]
<1> DEFINE marked == {j \in K : session[j] \notin {"DONE", "REJECTED"}}
<1>1. /\ session' = [j \in Jobs |-> IF j \in marked THEN "FAILED" ELSE session[j]]
      /\ notice' = [j \in Jobs |-> notice[j] \/ j \in marked]
  BY Zenon DEF MarkExhausted
<1>2. session' \in [Jobs -> {"open", "FAILED", "DONE", "REJECTED"}]
  BY <1>1 DEF TypeOK
<1>3. ASSUME NEW j \in Jobs PROVE (notice[j] \/ j \in marked) \in BOOLEAN
  OBVIOUS
<1>4. notice' \in [Jobs -> BOOLEAN]
  BY <1>1, <1>3
<1> QED
  BY <1>2, <1>4

LEMMA SessionDoneType ==
  ASSUME TypeOK, NEW j \in Jobs, SessionDone(j)
  PROVE  TypeOK'
BY DEF SessionDone, TypeOK

LEMMA TypeStart ==
  ASSUME TypeOK, NEW p \in Procs, Start(p)
  PROVE  TypeOK'
<1>1. jobs' \in [Jobs -> Row]
  BY RecoverDeadType DEF Start, TypeOK
<1>2. proc' \in [Procs -> Process]
  BY DEF Start, TypeOK, Process, Gens
<1>3. ownership' \in Gens /\ nextGen' \in 1 .. MaxGen + 1
  BY QueueAssumption DEF Start, TypeOK, Gens
<1> QED
  BY <1>1, <1>2, <1>3 DEF Start, TypeOK

LEMMA TypeTick ==
  ASSUME TypeOK, NEW p \in Procs, NEW l \in Loops, Tick(p, l)
  PROVE  TypeOK'
<1> DEFINE rows == RecoverStale(RenewActive(jobs, p))
<1>1. rows \in [Jobs -> Row]
  BY RenewType, RecoverStaleType DEF TypeOK
<1>2. CASE jobs' = rows /\ UNCHANGED <<nextToken, handler, newest>>
  BY <1>1, <1>2 DEF Tick, Claimed, TypeOK
<1>3. CASE /\ nextToken <= MaxToken
           /\ nextToken' = nextToken + 1
           /\ \E j \in First(Claimable(rows, l)) :
                  /\ jobs' = [rows EXCEPT
                        ![j].state = "leased", ![j].attempts = @ + 1,
                        ![j].lease = [token |-> nextToken, owner |-> proc[p].gen, live |-> TRUE]]
                  /\ handler' = [handler EXCEPT
                        ![p][l] = [phase |-> "work", token |-> nextToken, job |-> j]]
                  /\ newest' = [newest EXCEPT ![j] = nextToken]
  <2> HIDE DEF rows
  <2>1. PICK j \in First(Claimable(rows, l)) :
                  /\ jobs' = [rows EXCEPT
                        ![j].state = "leased", ![j].attempts = @ + 1,
                        ![j].lease = [token |-> nextToken, owner |-> proc[p].gen, live |-> TRUE]]
                  /\ handler' = [handler EXCEPT
                        ![p][l] = [phase |-> "work", token |-> nextToken, job |-> j]]
                  /\ newest' = [newest EXCEPT ![j] = nextToken]
    BY <1>3
  <2>2. j \in Jobs
    BY QueueAssumption DEF First, Claimable
  <2>3. nextToken \in Tokens /\ nextToken' \in 1 .. MaxToken + 1
    BY <1>3, QueueAssumption DEF TypeOK, Tokens
  <2>4. [token |-> nextToken, owner |-> proc[p].gen, live |-> TRUE] \in Lease
    BY <2>3 DEF TypeOK, Process, Lease
  <2>5. jobs' \in [Jobs -> Row]
    BY <1>1, <2>1, <2>2, <2>4 DEF Row, JobState
  <2>6. handler' \in [Procs -> [Loops -> Handler]]
    BY <2>1, <2>2, <2>3 DEF TypeOK, Handler
  <2>7. newest' \in [Jobs -> Tokens]
    BY <2>1, <2>2, <2>3 DEF TypeOK
  <2> QED
    BY <2>3, <2>5, <2>6, <2>7 DEF Tick, Claimed, TypeOK
<1> QED
  BY <1>2, <1>3 DEF Tick, Claimed

LEMMA TypeHandlerSteps ==
  ASSUME TypeOK, NEW p \in Procs, NEW l \in Loops,
         Heartbeat(p, l) \/ Publish(p, l) \/ Settle(p, l)
  PROVE  TypeOK'
<1> DEFINE h == handler[p][l]
           row == jobs[h.job]
<1>1. h \in Handler /\ h.job \in Jobs /\ h.token \in Tokens
  BY DEF TypeOK, Handler
<1>2. row \in Row /\ row.attempts \in Nat /\ row.lease \in Lease
  BY <1>1 DEF TypeOK, Row
<1>3. handler[p] \in [Loops -> Handler]
  BY DEF TypeOK
<1>4. CASE Heartbeat(p, l)
  <2>1. jobs' \in [Jobs -> Row]
    BY <1>1, <1>2, <1>4 DEF Heartbeat, TypeOK, Row, Lease
  <2> QED
    BY <1>4, <2>1 DEF Heartbeat, TypeOK
<1>5. CASE Publish(p, l)
  <2>1. PICK o \in {"accepted", "rejected"} :
          /\ outcome' = [outcome EXCEPT ![h.job] = o]
          /\ jobs' = IF o = "accepted" THEN Enqueue(jobs, Follow[h.job]) ELSE jobs
    BY <1>5 DEF Publish
  <2>2. jobs' \in [Jobs -> Row]
    BY <2>1, EnqueueType DEF TypeOK
  <2>3. handler' \in [Procs -> [Loops -> Handler]]
    BY <1>1, <1>3, <1>5 DEF Publish, TypeOK, Handler
  <2>4. outcome' \in [Jobs -> {"none", "accepted", "rejected"}] /\ facts' \in [Jobs -> Tokens]
    BY <1>1, <1>5, <2>1 DEF Publish, TypeOK
  <2> QED
    BY <1>5, <2>2, <2>3, <2>4 DEF Publish, TypeOK
<1>6. CASE Finish(p, l)
  <2>1. jobs' \in [Jobs -> Row]
    BY <1>1, <1>2, <1>6, NoLeaseType DEF Finish, TypeOK, Row, JobState
  <2>2. handler' \in [Procs -> [Loops -> Handler]]
    BY <1>3, <1>6, IdleType DEF Finish, TypeOK
  <2> QED
    BY <1>6, <2>1, <2>2 DEF Finish, TypeOK
<1>7. CASE Fail(p, l)
  <2>1. [row EXCEPT !.state = "dead", !.ready = TRUE, !.lease = NoLease] \in Row
    BY <1>2, NoLeaseType DEF Row, JobState
  <2>2. Pending(row, row.attempts, FALSE) \in Row
    BY <1>2, PendingType
  <2>3. jobs' \in [Jobs -> Row]
    BY <1>1, <1>7, <2>1, <2>2 DEF Fail, TypeOK
  <2>4. [h EXCEPT !.phase = "dying"] \in Handler
    BY <1>1 DEF Handler
  <2>5. handler' \in [Procs -> [Loops -> Handler]]
    BY <1>3, <1>7, <2>4, IdleType DEF Fail, TypeOK
  <2>6. charged' \in [Jobs -> Nat]
    BY <1>1, <1>7 DEF Fail, TypeOK
  <2> QED
    BY <1>7, <2>3, <2>5, <2>6 DEF Fail, TypeOK
<1>8. CASE Release(p, l)
  <2>1. Pending(row, Refund(row.attempts), TRUE) \in Row
    BY <1>2, PendingType, RefundType
  <2>2. jobs' \in [Jobs -> Row]
    BY <1>1, <1>8, <2>1 DEF Release, TypeOK
  <2>3. handler' \in [Procs -> [Loops -> Handler]]
    BY <1>3, <1>8, IdleType DEF Release, TypeOK
  <2> QED
    BY <1>8, <2>2, <2>3 DEF Release, TypeOK
<1>9. CASE Lost(p, l)
  <2>1. handler' \in [Procs -> [Loops -> Handler]]
    BY <1>3, <1>9, IdleType DEF Lost, TypeOK
  <2>2. charged' \in [Jobs -> Nat]
    BY <1>1, <1>9 DEF Lost, TypeOK
  <2> QED
    BY <1>9, <2>1, <2>2 DEF Lost, TypeOK
<1>10. CASE Announce(p, l)
  <2>1. handler' \in [Procs -> [Loops -> Handler]]
    BY <1>3, <1>10, IdleType DEF Announce, TypeOK
  <2>2. session' \in [Jobs -> {"open", "FAILED", "DONE", "REJECTED"}] /\ notice' \in [Jobs -> BOOLEAN]
    BY <1>10, MarkExhaustedType DEF Announce
  <2> QED
    BY <1>10, <2>1, <2>2 DEF Announce, TypeOK
<1> QED
  BY <1>4, <1>5, <1>6, <1>7, <1>8, <1>9, <1>10 DEF Settle

LEMMA TypeQueueSteps ==
  ASSUME TypeOK, NEW j \in Jobs,
         EnqueueInitial(j) \/ ExpireLease(j) \/ BackoffElapses(j) \/ RetryDead(j)
  PROVE  TypeOK'
<1>1. CASE EnqueueInitial(j)
  BY <1>1, EnqueueType DEF EnqueueInitial, TypeOK
<1>2. CASE ExpireLease(j)
  <2>1. jobs[j] \in Row /\ jobs[j].lease \in Lease
    BY DEF TypeOK, Row
  <2>2. jobs' \in [Jobs -> Row]
    BY <1>2, <2>1 DEF ExpireLease, TypeOK, Row, Lease
  <2> QED
    BY <1>2, <2>2 DEF ExpireLease, TypeOK
<1>3. CASE BackoffElapses(j)
  <2>1. jobs' \in [Jobs -> Row]
    BY <1>3 DEF BackoffElapses, TypeOK, Row
  <2> QED
    BY <1>3, <2>1 DEF BackoffElapses, TypeOK
<1>4. CASE RetryDead(j)
  <2>1. Pending(jobs[j], 0, TRUE) \in Row
    BY PendingType DEF TypeOK
  <2> QED
    BY <1>4, <2>1 DEF RetryDead, Revived, TypeOK
<1> QED
  BY <1>1, <1>2, <1>3, <1>4

LEMMA TypeProcessSteps ==
  ASSUME TypeOK, NEW p \in Procs, Boot(p) \/ Stop(p) \/ Exit(p) \/ Crash(p)
  PROVE  TypeOK'
<1>1. CASE Boot(p)
  <2>1. jobs' \in [Jobs -> Row]
    BY <1>1, RecoverStaleType DEF Boot, TypeOK
  <2>2. proc' \in [Procs -> Process]
    BY <1>1 DEF Boot, TypeOK, Process
  <2>3. session' \in [Jobs -> {"open", "FAILED", "DONE", "REJECTED"}] /\ notice' \in [Jobs -> BOOLEAN]
    BY <1>1, MarkExhaustedType DEF Boot
  <2> QED
    BY <1>1, <2>1, <2>2, <2>3 DEF Boot, TypeOK
<1>2. CASE Stop(p)
  BY <1>2 DEF Stop, TypeOK, Process
<1>3. CASE Exit(p)
  BY <1>3, QueueAssumption DEF Exit, TypeOK, Process, Gens
<1>4. CASE Crash(p)
  <2>1. handler' \in [Procs -> [Loops -> Handler]]
    BY <1>4, IdleType DEF Crash, TypeOK
  <2>2. proc' \in [Procs -> Process]
    BY <1>4, QueueAssumption DEF Crash, TypeOK, Process, Gens
  <2> QED
    BY <1>4, <2>1, <2>2 DEF Crash, TypeOK
<1> QED
  BY <1>1, <1>2, <1>3, <1>4

LEMMA TypeNext == TypeOK /\ [Next]_vars => TypeOK'
<1> SUFFICES ASSUME TypeOK, [Next]_vars PROVE TypeOK'
  OBVIOUS
<1>1. CASE UNCHANGED vars
  BY <1>1 DEF vars, TypeOK
<1>2. CASE \E j \in Jobs : EnqueueInitial(j) \/ ExpireLease(j) \/ BackoffElapses(j) \/ RetryDead(j)
  BY <1>2, TypeQueueSteps
<1>3. CASE \E p \in Procs : Start(p) \/ Boot(p) \/ Stop(p) \/ Exit(p) \/ Crash(p)
  BY <1>3, TypeStart, TypeProcessSteps
<1>4. CASE \E p \in Procs, l \in Loops :
             Tick(p, l) \/ Heartbeat(p, l) \/ Publish(p, l) \/ Settle(p, l)
  BY <1>4, TypeTick, TypeHandlerSteps
<1>5. CASE ClearDead
  <2>1. charged' \in [Jobs -> Nat] /\ ownership' \in Gens
    BY <1>5, QueueAssumption DEF ClearDead, TypeOK, Gens
  <2> QED
    BY <1>5, <2>1 DEF ClearDead, TypeOK
<1>6. CASE \E j \in Jobs : SessionDone(j)
  BY <1>6, SessionDoneType
<1> QED
  BY <1>1, <1>2, <1>3, <1>4, <1>5, <1>6 DEF Next

\* Every reachable state of the queue, its daemons and its handlers is well typed.
THEOREM TypeCorrect == Spec => []TypeOK
<1>1. Init => TypeOK
  BY TypeInit
<1>2. TypeOK /\ [Next]_vars => TypeOK'
  BY TypeNext
<1> QED
  BY <1>1, <1>2, PTL DEF Spec

-----------------------------------------------------------------------------
(* What the table operators do to one row. *)

LEMMA PendingFacts ==
  ASSUME NEW row \in Row, NEW n, NEW b \in BOOLEAN
  PROVE  /\ Pending(row, n, b).state = "pending"
         /\ Pending(row, n, b).attempts = n
         /\ Pending(row, n, b).lease = NoLease
BY DEF Pending, Row

LEMMA RenewFacts ==
  ASSUME NEW rows \in [Jobs -> Row], NEW p, NEW j \in Jobs
  PROVE  LET r == RenewActive(rows, p)[j]
         IN  /\ r.state = rows[j].state
             /\ r.attempts = rows[j].attempts
             /\ r.lease.token = rows[j].lease.token
             /\ r.lease.owner = rows[j].lease.owner
             /\ r.lease.live \/ r = rows[j]
             /\ rows[j].state # "leased" => r = rows[j]
BY DEF RenewActive, Row, Lease, Holds

LEMMA RenewedFacts ==
  ASSUME NEW rows \in [Jobs -> Row], NEW p, NEW j \in Jobs, NEW l \in Loops,
         Running(p, l), handler[p][l].job = j, Holds(rows[j], handler[p][l].token)
  PROVE  RenewActive(rows, p)[j].lease.live
BY DEF RenewActive, Row, Lease

LEMMA RecoverStaleFacts ==
  ASSUME NEW rows \in [Jobs -> Row], NEW j \in Jobs
  PROVE  LET r == RecoverStale(rows)[j]
         IN  /\ r.state = "leased" => r = rows[j] /\ r.lease.live
             /\ ~Stale(rows[j]) => r = rows[j]
             /\ Stale(rows[j]) => r.state = "pending" /\ r.lease = NoLease
             /\ r.attempts = rows[j].attempts
<1>1. rows[j] \in Row /\ rows[j].ready \in BOOLEAN
  BY DEF Row
<1> QED
  BY <1>1, PendingFacts DEF RecoverStale, Stale

LEMMA RecoverDeadFacts ==
  ASSUME NEW rows \in [Jobs -> Row], NEW g, NEW j \in Jobs
  PROVE  LET r == RecoverDead(rows, g)[j]
         IN  /\ r.state = "leased" => r = rows[j] /\ r.lease.owner # g
             /\ \/ r = rows[j]
                \/ /\ r.state = "pending"
                   /\ rows[j].state = "leased"
                   /\ r.attempts = Refund(rows[j].attempts)
                   /\ r.lease = NoLease
<1> DEFINE back == Pending(rows[j], Refund(rows[j].attempts), TRUE)
<1>1. /\ back.state = "pending" /\ back.attempts = Refund(rows[j].attempts)
      /\ back.lease = NoLease
  BY PendingFacts, rows[j] \in Row
<1>2. RecoverDead(rows, g)[j] =
        IF rows[j].state = "leased" /\ rows[j].lease.owner = g THEN back ELSE rows[j]
  BY DEF RecoverDead
<1> QED
  BY <1>1, <1>2

LEMMA EnqueueFacts ==
  ASSUME NEW rows \in [Jobs -> Row], NEW K, NEW j \in Jobs
  PROVE  LET r == Enqueue(rows, K)[j]
         IN  \/ r = rows[j]
             \/ /\ rows[j].state = "absent" /\ r.state = "pending"
                /\ r.attempts = 0 /\ r.lease = NoLease
<1> DEFINE new == Pending(rows[j], 0, TRUE)
<1>1. new.state = "pending" /\ new.attempts = 0 /\ new.lease = NoLease
  BY PendingFacts, rows[j] \in Row
<1>2. Enqueue(rows, K)[j] = IF j \in K /\ rows[j].state = "absent" THEN new ELSE rows[j]
  BY DEF Enqueue
<1> QED
  BY <1>1, <1>2

-----------------------------------------------------------------------------
(* Fencing: a leased row carries its newest claim, so the lease check of the *)
(* publishing transaction admits nobody else.                                *)

\* An action that issues no token leaves every row that is leased afterwards with
\* the token it had before.
KeepsTokens ==
  /\ newest' = newest
  /\ \A j \in Jobs : jobs'[j].state = "leased" =>
        jobs[j].state = "leased" /\ jobs'[j].lease.token = jobs[j].lease.token

LEMMA KeepsNewest ==
  ASSUME LeaseIsNewest, KeepsTokens
  PROVE  LeaseIsNewest'
BY DEF LeaseIsNewest, KeepsTokens

LEMMA TickFence ==
  ASSUME TypeOK, LeaseIsNewest, NEW p \in Procs, NEW l \in Loops, Tick(p, l)
  PROVE  LeaseIsNewest'
<1> DEFINE rows == RecoverStale(RenewActive(jobs, p))
<1>0. RenewActive(jobs, p) \in [Jobs -> Row] /\ rows \in [Jobs -> Row]
  BY RenewType, RecoverStaleType DEF TypeOK
<1>1. ASSUME NEW j \in Jobs, rows[j].state = "leased"
      PROVE  jobs[j].state = "leased" /\ rows[j].lease.token = jobs[j].lease.token
  <2>1. rows[j] = RenewActive(jobs, p)[j]
    BY <1>0, <1>1, RecoverStaleFacts
  <2>2. jobs \in [Jobs -> Row]
    BY DEF TypeOK
  <2> QED
    BY <1>1, <2>1, <2>2, RenewFacts
<1>2. CASE jobs' = rows /\ UNCHANGED newest
  BY <1>1, <1>2, KeepsNewest DEF KeepsTokens
<1>3. ASSUME NEW j \in Jobs,
             jobs' = [rows EXCEPT
               ![j].state = "leased", ![j].attempts = @ + 1,
               ![j].lease = [token |-> nextToken, owner |-> proc[p].gen, live |-> TRUE]],
             newest' = [newest EXCEPT ![j] = nextToken]
      PROVE  LeaseIsNewest'
  <2> HIDE DEF rows
  <2>1. jobs'[j].lease.token = nextToken /\ newest'[j] = nextToken
    <3>1. rows[j] \in Row /\ newest \in [Jobs -> Tokens]
      BY <1>0 DEF TypeOK
    <3> QED
      BY <1>0, <1>3, <3>1 DEF Row
  <2>2. \A k \in Jobs \ {j} : jobs'[k] = rows[k] /\ newest'[k] = newest[k]
    BY <1>0, <1>3 DEF TypeOK
  <2> QED
    BY <1>1, <2>1, <2>2 DEF LeaseIsNewest
<1>4. Serves[l] \subseteq Jobs
  BY QueueAssumption
<1> QED
  BY <1>2, <1>3, <1>4 DEF Tick, Claimed, First, Claimable

LEMMA FenceInit == Init => LeaseIsNewest
BY DEF Init, LeaseIsNewest

LEMMA FenceNext == TypeOK /\ LeaseIsNewest /\ [Next]_vars => LeaseIsNewest'
<1> SUFFICES ASSUME TypeOK, LeaseIsNewest, [Next]_vars PROVE LeaseIsNewest'
  OBVIOUS
<1>0. jobs \in [Jobs -> Row]
  BY DEF TypeOK
<1>1. CASE UNCHANGED vars
  BY <1>1 DEF vars, LeaseIsNewest
<1>2. ASSUME NEW j \in Jobs,
             EnqueueInitial(j) \/ ExpireLease(j) \/ BackoffElapses(j) \/ RetryDead(j)
      PROVE  LeaseIsNewest'
  <2>1. CASE EnqueueInitial(j)
    BY <1>0, <2>1, EnqueueFacts, KeepsNewest DEF EnqueueInitial, KeepsTokens
  <2>2. CASE ExpireLease(j)
    BY <1>0, <2>2, KeepsNewest DEF ExpireLease, KeepsTokens, HoldsLive, Holds, Row, Lease
  <2>3. CASE BackoffElapses(j)
    BY <1>0, <2>3, KeepsNewest DEF BackoffElapses, KeepsTokens, Row
  <2>4. CASE RetryDead(j)
    BY <1>0, <2>4, PendingFacts, KeepsNewest DEF RetryDead, Revived, KeepsTokens
  <2> QED
    BY <1>2, <2>1, <2>2, <2>3, <2>4
<1>3. ASSUME NEW p \in Procs, Start(p) \/ Boot(p) \/ Stop(p) \/ Exit(p) \/ Crash(p)
      PROVE  LeaseIsNewest'
  <2>1. CASE Start(p)
    BY <1>0, <2>1, RecoverDeadFacts, KeepsNewest DEF Start, KeepsTokens
  <2>2. CASE Boot(p)
    BY <1>0, <2>2, RecoverStaleFacts, KeepsNewest DEF Boot, KeepsTokens
  <2>3. CASE Stop(p) \/ Exit(p) \/ Crash(p)
    BY <2>3, KeepsNewest DEF Stop, Exit, Crash, KeepsTokens
  <2> QED
    BY <1>3, <2>1, <2>2, <2>3
<1>4. ASSUME NEW p \in Procs, NEW l \in Loops,
             Tick(p, l) \/ Heartbeat(p, l) \/ Publish(p, l) \/ Settle(p, l)
      PROVE  LeaseIsNewest'
  <2>0. handler[p][l].job \in Jobs
    BY DEF TypeOK, Handler
  <2>1. CASE Tick(p, l)
    BY <2>1, TickFence
  <2>2. CASE Heartbeat(p, l)
    BY <1>0, <2>0, <2>2, KeepsNewest DEF Heartbeat, KeepsTokens, Holds, Row, Lease
  <2>3. CASE Publish(p, l)
    <3>1. ASSUME NEW k \in Jobs, jobs'[k].state = "leased" PROVE jobs'[k] = jobs[k]
      <4>1. jobs' = jobs \/ jobs' = Enqueue(jobs, Follow[handler[p][l].job])
        BY <2>3 DEF Publish
      <4> QED
        BY <1>0, <3>1, <4>1, EnqueueFacts
    <3>2. newest' = newest
      BY <2>3 DEF Publish
    <3> QED
      BY <3>1, <3>2, KeepsNewest DEF KeepsTokens
  <2>4. CASE Finish(p, l)
    BY <1>0, <2>0, <2>4, KeepsNewest DEF Finish, KeepsTokens, Row
  <2>5. CASE Fail(p, l)
    <3> DEFINE row == jobs[handler[p][l].job]
    <3>1. row \in Row
      BY <1>0, <2>0
    <3>2. [row EXCEPT !.state = "dead", !.ready = TRUE, !.lease = NoLease].state = "dead"
      BY <3>1 DEF Row
    <3>3. Pending(row, row.attempts, FALSE).state = "pending"
      BY <3>1, PendingFacts
    <3>4. \A k \in Jobs : jobs'[k].state = "leased" => jobs'[k] = jobs[k]
      BY <1>0, <2>0, <2>5, <3>2, <3>3 DEF Fail
    <3>5. newest' = newest
      BY <2>5 DEF Fail
    <3> QED
      BY <3>4, <3>5, KeepsNewest DEF KeepsTokens
  <2>6. CASE Release(p, l)
    BY <1>0, <2>0, <2>6, PendingFacts, KeepsNewest DEF Release, KeepsTokens
  <2>7. CASE Lost(p, l) \/ Announce(p, l)
    BY <2>7, KeepsNewest DEF Lost, Announce, KeepsTokens
  <2> QED
    BY <1>4, <2>1, <2>2, <2>3, <2>4, <2>5, <2>6, <2>7 DEF Settle
<1>5. CASE ClearDead
  BY <1>5, KeepsNewest DEF ClearDead, KeepsTokens
<1>6. CASE \E j \in Jobs : SessionDone(j)
  BY <1>6, KeepsNewest DEF SessionDone, KeepsTokens
<1> QED
  BY <1>1, <1>2, <1>3, <1>4, <1>5, <1>6 DEF Next

\* A leased row always carries the generation of the newest claim of its job.
THEOREM LeaseCarriesNewestClaim == Spec => []LeaseIsNewest
<1>1. Init => LeaseIsNewest
  BY FenceInit
<1>2. TypeOK /\ LeaseIsNewest /\ [Next]_vars => LeaseIsNewest'
  BY FenceNext
<1> QED
  BY <1>1, <1>2, TypeCorrect, PTL DEF Spec

LEMMA OnlyPublishWritesFacts ==
  ASSUME TypeOK, LeaseIsNewest, [Next]_vars, NEW j \in Jobs, facts'[j] # facts[j]
  PROVE  facts'[j] = newest[j]
<1>1. PICK p \in Procs, l \in Loops : Publish(p, l)
  <2>1. ASSUME UNCHANGED vars PROVE FALSE
    BY <2>1 DEF vars
  <2>2. ASSUME NEW k \in Jobs,
               EnqueueInitial(k) \/ ExpireLease(k) \/ BackoffElapses(k) \/ RetryDead(k)
        PROVE  FALSE
    <3>1. facts' = facts
      BY <2>2, Zenon DEF EnqueueInitial, ExpireLease, BackoffElapses, RetryDead
    <3> QED
      BY <3>1
  <2>3. ASSUME NEW p \in Procs, Start(p) \/ Boot(p) \/ Stop(p) \/ Exit(p) \/ Crash(p)
        PROVE  FALSE
    <3>1. facts' = facts
      BY <2>3, Zenon DEF Start, Boot, Stop, Exit, Crash
    <3> QED
      BY <3>1
  <2>4. ASSUME NEW p \in Procs, NEW l \in Loops,
               Tick(p, l) \/ Heartbeat(p, l) \/ Settle(p, l)
        PROVE  FALSE
    <3>1. facts' = facts
      BY <2>4, Zenon DEF Tick, Heartbeat, Settle, Finish, Fail, Release, Lost, Announce
    <3> QED
      BY <3>1
  <2>5. ASSUME ClearDead PROVE FALSE
    BY <2>5 DEF ClearDead
  <2>6. ASSUME NEW k \in Jobs, SessionDone(k) PROVE FALSE
    BY <2>6 DEF SessionDone
  <2> QED
    BY <2>1, <2>2, <2>3, <2>4, <2>5, <2>6 DEF Next
<1> DEFINE h == handler[p][l]
<1>2. facts' = [facts EXCEPT ![h.job] = h.token] /\ HoldsLive(jobs[h.job], h.token)
  BY <1>1 DEF Publish
<1>3. j = h.job /\ facts'[j] = h.token
  BY <1>2 DEF TypeOK
<1> QED
  BY <1>2, <1>3 DEF HoldsLive, Holds, LeaseIsNewest

\* A reclaimed generation cannot publish: whatever processes share the database,
\* durable facts of a job are written by its newest claim only.
THEOREM ReclaimedNeverPublishes == Spec => PublishedByNewestClaim
<1>1. TypeOK /\ LeaseIsNewest /\ [Next]_vars
        => [\A j \in Jobs : facts'[j] # facts[j] => facts'[j] = newest[j]]_vars
  BY OnlyPublishWritesFacts
<1> QED
  BY <1>1, TypeCorrect, LeaseCarriesNewestClaim, PTL DEF Spec, PublishedByNewestClaim

-----------------------------------------------------------------------------
(* One daemon: the inductive invariant Exclusive. *)

LEMMA OneHandler ==
  ASSUME OneDaemon, HandlersHoldRows, DistinctTokens,
         NEW p \in Procs, NEW q \in Procs, NEW l \in Loops, NEW m \in Loops,
         Running(p, l), Running(q, m), handler[p][l].job = handler[q][m].job
  PROVE  p = q /\ l = m
<1>1. Alive(p) /\ Alive(q)
  BY DEF HandlersHoldRows, Alive
<1>2. p = q
  BY <1>1 DEF OneDaemon
<1>3. handler[p][l].token = handler[q][m].token
  BY DEF HandlersHoldRows, Holds
<1> QED
  BY <1>2, <1>3 DEF DistinctTokens

\* A step that starts or ends neither a process nor a handler, takes no row out of
\* a handler's hands and puts back only work whose budget is settled.
SameDaemons ==
  /\ ownership' = ownership /\ nextToken' = nextToken
  /\ \A p \in Procs :
       /\ proc'[p].gen = proc[p].gen
       /\ proc'[p].phase # "down" <=> proc[p].phase # "down"
       /\ proc[p].phase \in {"up", "stopping"} => proc'[p].phase \in {"up", "stopping"}

SameHandlers ==
  \A p \in Procs, l \in Loops :
    /\ Running(p, l)' <=> Running(p, l)
    /\ Running(p, l) => /\ handler'[p][l].token = handler[p][l].token
                        /\ handler'[p][l].job = handler[p][l].job

SameHold(j) ==
  /\ jobs[j].state = "leased" /\ jobs'[j].state = "leased"
  /\ jobs'[j].lease.token = jobs[j].lease.token
  /\ jobs'[j].lease.owner = jobs[j].lease.owner
  /\ jobs'[j].attempts = jobs[j].attempts
  /\ charged'[j] = charged[j]
  /\ jobs'[j].lease.live => jobs[j].lease.live \/ Held(j)

PutBack(j) ==
  /\ jobs[j].state \notin {"leased", "done"} \/ (jobs[j].state = "leased" /\ ~Held(j) /\ ~Nobody)
  /\ jobs'[j].state = "pending"
  /\ \/ jobs'[j].attempts = jobs[j].attempts /\ charged'[j] = charged[j]
     \/ jobs'[j].attempts = 0

Untouched(j) == jobs'[j] = jobs[j] /\ charged'[j] = charged[j]

Quiet ==
  /\ SameDaemons
  /\ SameHandlers
  /\ \A j \in Jobs : Untouched(j) \/ SameHold(j) \/ PutBack(j)

LEMMA HeldHasOwner ==
  ASSUME OneDaemon, HandlersHoldRows, NEW j \in Jobs, Held(j)
  PROVE  ownership # 0 /\ jobs[j].lease.owner = ownership /\ ~Nobody
<1>1. PICK p \in Procs, l \in Loops :
        Running(p, l) /\ handler[p][l].job = j /\ Holds(jobs[j], handler[p][l].token)
  BY DEF Held
<1>2. Alive(p)
  BY <1>1 DEF HandlersHoldRows, Alive
<1> QED
  BY <1>1, <1>2 DEF OneDaemon, HandlersHoldRows, Nobody

LEMMA QuietKeeps ==
  ASSUME TypeOK, TypeOK', Exclusive, Quiet
  PROVE  Exclusive'
<1>1. OneDaemon'
  BY DEF Quiet, SameDaemons, Exclusive, OneDaemon, Alive
<1>2. ASSUME NEW p \in Procs, NEW l \in Loops, Running(p, l)
      PROVE  Holds(jobs'[handler[p][l].job], handler[p][l].token)
             /\ jobs'[handler[p][l].job].lease.owner = jobs[handler[p][l].job].lease.owner
  <2> DEFINE j == handler[p][l].job
  <2>1. j \in Jobs
    BY DEF TypeOK, Handler
  <2>2. Holds(jobs[j], handler[p][l].token)
    BY <1>2 DEF Exclusive, HandlersHoldRows
  <2>3. Held(j)
    BY <1>2, <2>2 DEF Held
  <2>4. Untouched(j) \/ SameHold(j)
    BY <2>1, <2>2, <2>3 DEF Quiet, PutBack, Holds
  <2> QED
    BY <2>2, <2>4 DEF Untouched, SameHold, Holds
<1>3. HandlersHoldRows'
  BY <1>2 DEF HandlersHoldRows, Exclusive, Quiet, SameDaemons, SameHandlers
<1>4. DistinctTokens'
  BY DEF DistinctTokens, Exclusive, Quiet, SameHandlers
<1>5. ASSUME NEW j \in Jobs, Held(j) PROVE Held(j)'
  <2>1. PICK p \in Procs, l \in Loops : Running(p, l) /\ handler[p][l].job = j
    BY <1>5 DEF Held
  <2> QED
    BY <1>2, <2>1 DEF Held, Quiet, SameHandlers
<1>6. Nobody' <=> Nobody
  BY DEF Nobody, Alive, Quiet, SameDaemons
<1>7. LiveLeasesBacked'
  <2> SUFFICES ASSUME NEW j \in Jobs, jobs'[j].state = "leased", jobs'[j].lease.live
               PROVE  /\ ownership' \in {0, jobs'[j].lease.owner}
                      /\ Nobody' \/ (Held(j)' /\ ownership' # 0)
    BY DEF LiveLeasesBacked
  <2>1. Untouched(j) \/ SameHold(j)
    BY DEF Quiet, PutBack
  <2>2. jobs[j].state = "leased" /\ jobs'[j].lease.owner = jobs[j].lease.owner
    BY <2>1 DEF Untouched, SameHold
  <2>3. jobs[j].lease.live \/ Held(j)
    BY <2>1 DEF Untouched, SameHold
  <2> QED
    BY <1>5, <1>6, <2>2, <2>3, HeldHasOwner DEF Exclusive, LiveLeasesBacked, Quiet, SameDaemons
<1>8. ASSUME NEW j \in Jobs, Undecided(j), Untouched(j) \/ SameHold(j) PROVE Undecided(j)'
  BY <1>5, <1>6, <1>8 DEF Undecided, Untouched, SameHold, Quiet, SameDaemons
<1>9. AttemptsAccounted'
  <2> SUFFICES ASSUME NEW j \in Jobs
               PROVE  jobs'[j].attempts <= charged'[j] + (IF Undecided(j)' THEN 1 ELSE 0)
    BY DEF AttemptsAccounted
  <2>1. /\ jobs[j].attempts \in Nat /\ charged[j] \in Nat
        /\ jobs'[j].attempts \in Nat /\ charged'[j] \in Nat
    BY DEF TypeOK, Row
  <2>2. jobs[j].attempts <= charged[j] + (IF Undecided(j) THEN 1 ELSE 0)
    BY DEF Exclusive, AttemptsAccounted
  <2>3. CASE Untouched(j) \/ SameHold(j)
    BY <1>8, <2>1, <2>2, <2>3 DEF Untouched, SameHold
  <2>4. CASE PutBack(j)
    <3>1. ~Undecided(j)
      BY <2>4 DEF PutBack, Undecided
    <3> QED
      BY <2>1, <2>2, <2>4, <3>1 DEF PutBack
  <2> QED
    BY <2>3, <2>4 DEF Quiet
<1>10. DeadAccounted'
  <2> SUFFICES ASSUME NEW j \in Jobs, jobs'[j].state = "dead" PROVE charged'[j] >= MaxAttempts
    BY DEF DeadAccounted
  <2>1. Untouched(j)
    BY DEF Quiet, SameHold, PutBack
  <2> QED
    BY <2>1 DEF Untouched, Exclusive, DeadAccounted
<1> QED
  BY <1>1, <1>3, <1>4, <1>7, <1>9, <1>10 DEF Exclusive

-----------------------------------------------------------------------------
(* The quiet steps. *)

LEMMA RefundFacts ==
  ASSUME NEW n \in Nat
  PROVE  Refund(n) <= n /\ (n > 0 => Refund(n) = n - 1)
BY DEF Refund

LEMMA QuietQueueSteps ==
  ASSUME TypeOK, Exclusive, NEW j \in Jobs,
         EnqueueInitial(j) \/ ExpireLease(j) \/ BackoffElapses(j) \/ RetryDead(j)
  PROVE  Quiet
<1>0. jobs \in [Jobs -> Row] /\ charged \in [Jobs -> Nat]
  BY DEF TypeOK
<1>1. SameDaemons /\ SameHandlers
  BY DEF SameDaemons, SameHandlers, Running, EnqueueInitial, ExpireLease, BackoffElapses, RetryDead
<1>2. CASE EnqueueInitial(j)
  <2>1. ASSUME NEW k \in Jobs PROVE Untouched(k) \/ PutBack(k)
    BY <1>0, <1>2, EnqueueFacts DEF EnqueueInitial, Untouched, PutBack
  <2> QED
    BY <1>1, <2>1 DEF Quiet
<1>3. CASE ExpireLease(j)
  <2>1. ASSUME NEW k \in Jobs, k # j PROVE Untouched(k)
    BY <1>0, <1>3, <2>1 DEF ExpireLease, Untouched
  <2>2. SameHold(j)
    BY <1>0, <1>3 DEF ExpireLease, HoldsLive, Holds, SameHold, Row, Lease
  <2> QED
    BY <1>1, <2>1, <2>2 DEF Quiet
<1>4. CASE BackoffElapses(j)
  <2>1. ASSUME NEW k \in Jobs, k # j PROVE Untouched(k)
    BY <1>0, <1>4, <2>1 DEF BackoffElapses, Untouched
  <2>2. PutBack(j)
    BY <1>0, <1>4 DEF BackoffElapses, PutBack, Row
  <2> QED
    BY <1>1, <2>1, <2>2 DEF Quiet
<1>5. CASE RetryDead(j)
  <2>1. ASSUME NEW k \in Jobs, k # j PROVE Untouched(k)
    BY <1>0, <1>5, <2>1 DEF RetryDead, Untouched
  <2>2. PutBack(j)
    <3> DEFINE revived == Pending(jobs[j], 0, TRUE)
    <3>1. jobs'[j] = revived /\ jobs[j].state = "dead"
      BY <1>0, <1>5 DEF RetryDead, Revived
    <3>2. jobs[j] \in Row
      BY <1>0
    <3>3. revived.state = "pending" /\ revived.attempts = 0
      BY <3>2, PendingFacts
    <3> QED
      BY <3>1, <3>3 DEF PutBack
  <2> QED
    BY <1>1, <2>1, <2>2 DEF Quiet
<1> QED
  BY <1>2, <1>3, <1>4, <1>5

LEMMA QuietProcessSteps ==
  ASSUME TypeOK, Exclusive, NEW p \in Procs, Boot(p) \/ Stop(p)
  PROVE  Quiet
<1>0. /\ jobs \in [Jobs -> Row] /\ proc \in [Procs -> Process]
      /\ proc[p].phase # "down" /\ Alive(p) /\ handler' = handler
  BY DEF TypeOK, Boot, Stop, Alive
<1>1. SameHandlers
  BY <1>0 DEF SameHandlers, Running
<1>2. SameDaemons
  BY <1>0 DEF SameDaemons, Boot, Stop, Process
<1>3. CASE Boot(p)
  <2>1. ASSUME NEW k \in Jobs PROVE Untouched(k) \/ PutBack(k)
    <3>1. CASE Stale(jobs[k])
      <4>1. ~Held(k)
        <5> SUFFICES ASSUME NEW q \in Procs, NEW m \in Loops, Running(q, m) PROVE FALSE
          BY DEF Held
        <5>1. proc[q].phase \in {"up", "stopping"} /\ Alive(q)
          BY DEF Exclusive, HandlersHoldRows, Alive
        <5> QED
          BY <1>0, <1>3, <5>1 DEF Exclusive, OneDaemon, Boot
      <4> QED
        BY <1>0, <1>3, <3>1, <4>1, RecoverStaleFacts DEF Boot, PutBack, Stale, Nobody
    <3>2. CASE ~Stale(jobs[k])
      BY <1>0, <1>3, <3>2, RecoverStaleFacts DEF Boot, Untouched
    <3> QED
      BY <3>1, <3>2
  <2> QED
    BY <1>1, <1>2, <2>1 DEF Quiet
<1>4. CASE Stop(p)
  BY <1>1, <1>2, <1>4 DEF Quiet, Stop, Untouched
<1> QED
  BY <1>3, <1>4

LEMMA QuietHandlerSteps ==
  ASSUME TypeOK, Exclusive, NEW p \in Procs, NEW l \in Loops,
         Heartbeat(p, l) \/ Publish(p, l) \/ Announce(p, l)
  PROVE  Quiet
<1> DEFINE h == handler[p][l]
<1>0. /\ jobs \in [Jobs -> Row] /\ h.job \in Jobs
      /\ handler \in [Procs -> [Loops -> Handler]] /\ handler[p] \in [Loops -> Handler]
      /\ h \in Handler
  BY DEF TypeOK, Handler
<1>1. SameDaemons
  BY DEF SameDaemons, Heartbeat, Publish, Announce
<1>2. CASE Heartbeat(p, l)
  <2>1. ASSUME NEW k \in Jobs, k # h.job PROVE Untouched(k)
    BY <1>0, <1>2, <2>1 DEF Heartbeat, Untouched
  <2>2. Held(h.job)
    BY <1>2 DEF Heartbeat, Held
  <2>3. SameHold(h.job)
    BY <1>0, <1>2, <2>2 DEF Heartbeat, Holds, SameHold, Row, Lease
  <2>4. SameHandlers
    BY <1>2 DEF Heartbeat, SameHandlers, Running
  <2> QED
    BY <1>1, <2>1, <2>3, <2>4 DEF Quiet
<1>3. CASE Publish(p, l)
  <2>1. ASSUME NEW k \in Jobs PROVE Untouched(k) \/ PutBack(k)
    <3>1. jobs' = jobs \/ jobs' = Enqueue(jobs, Follow[h.job])
      BY <1>3 DEF Publish
    <3> QED
      BY <1>0, <1>3, <3>1, EnqueueFacts DEF Publish, Untouched, PutBack
  <2>2. SameHandlers
    <3> SUFFICES ASSUME NEW q \in Procs, NEW m \in Loops
                 PROVE  /\ Running(q, m)' <=> Running(q, m)
                        /\ handler'[q][m].token = handler[q][m].token
                        /\ handler'[q][m].job = handler[q][m].job
      BY DEF SameHandlers
    <3>1. CASE q = p /\ m = l
      BY <1>0, <1>3, <3>1 DEF Publish, Running, Handler
    <3>2. CASE ~(q = p /\ m = l)
      BY <1>0, <1>3, <3>2 DEF Publish, Running
    <3> QED
      BY <3>1, <3>2
  <2> QED
    BY <1>1, <2>1, <2>2 DEF Quiet
<1>4. CASE Announce(p, l)
  <2>1. SameHandlers
    <3> SUFFICES ASSUME NEW q \in Procs, NEW m \in Loops
                 PROVE  /\ Running(q, m)' <=> Running(q, m)
                        /\ Running(q, m) => handler'[q][m] = handler[q][m]
      BY DEF SameHandlers
    <3>1. CASE q = p /\ m = l
      BY <1>0, <1>4, <3>1 DEF Announce, Running, Idle
    <3>2. CASE ~(q = p /\ m = l)
      BY <1>0, <1>4, <3>2 DEF Announce, Running
    <3> QED
      BY <3>1, <3>2
  <2> QED
    BY <1>1, <1>4, <2>1 DEF Quiet, Announce, Untouched
<1> QED
  BY <1>2, <1>3, <1>4

-----------------------------------------------------------------------------
(* Claiming. *)

LEMMA TickRows ==
  ASSUME TypeOK, Exclusive, NEW p \in Procs, Alive(p), NEW k \in Jobs
  PROVE  LET r == RecoverStale(RenewActive(jobs, p))[k]
         IN  \/ r = jobs[k]
             \/ /\ jobs[k].state = "leased" /\ r.state = "leased"
                /\ r.lease.token = jobs[k].lease.token
                /\ r.lease.owner = jobs[k].lease.owner
                /\ r.attempts = jobs[k].attempts
                /\ r.lease.live => jobs[k].lease.live \/ Held(k)
             \/ /\ jobs[k].state = "leased" /\ ~Held(k) /\ ~Nobody
                /\ r.state = "pending"
                /\ r.attempts = jobs[k].attempts
<1> DEFINE renewed == RenewActive(jobs, p)
           r == RecoverStale(renewed)[k]
<1>1. jobs \in [Jobs -> Row] /\ renewed \in [Jobs -> Row]
  BY RenewType DEF TypeOK
<1>2. /\ renewed[k].state = jobs[k].state
      /\ renewed[k].attempts = jobs[k].attempts
      /\ renewed[k].lease.token = jobs[k].lease.token
      /\ renewed[k].lease.owner = jobs[k].lease.owner
  BY <1>1, RenewFacts
<1>3. ~Nobody
  BY DEF Nobody
<1>4. ASSUME Held(k) PROVE renewed[k].lease.live /\ jobs[k].state = "leased"
  <2>1. PICK q \in Procs, l \in Loops :
          Running(q, l) /\ handler[q][l].job = k /\ Holds(jobs[k], handler[q][l].token)
    BY <1>4 DEF Held
  <2>2. Alive(q)
    BY <2>1 DEF Exclusive, HandlersHoldRows, Alive
  <2>3. q = p
    BY <2>2 DEF Exclusive, OneDaemon
  <2> QED
    BY <1>1, <2>1, <2>3, RenewedFacts DEF Holds
<1>5. CASE Stale(renewed[k])
  <2>1. r.state = "pending" /\ r.attempts = renewed[k].attempts
    BY <1>1, <1>5, RecoverStaleFacts
  <2> QED
    BY <1>2, <1>3, <1>4, <1>5, <2>1 DEF Stale
<1>6. CASE ~Stale(renewed[k])
  <2>1. r = renewed[k]
    BY <1>1, <1>6, RecoverStaleFacts
  <2>2. CASE renewed[k] = jobs[k]
    BY <2>1, <2>2
  <2>3. CASE renewed[k] # jobs[k]
    <3>1. Held(k)
      BY <1>1, <2>3 DEF RenewActive, Held
    <3> QED
      BY <1>2, <1>4, <2>1, <3>1
  <2> QED
    BY <2>2, <2>3
<1> QED
  BY <1>5, <1>6

LEMMA TickKeeps ==
  ASSUME TypeOK, TypeOK', Exclusive, NEW p \in Procs, NEW l \in Loops, Tick(p, l)
  PROVE  Exclusive'
<1> DEFINE rows == RecoverStale(RenewActive(jobs, p))
<1>0. /\ jobs \in [Jobs -> Row] /\ rows \in [Jobs -> Row]
      /\ proc[p].phase = "up" /\ Alive(p) /\ ~Nobody
      /\ handler[p][l].phase = "idle" /\ ~Running(p, l)
      /\ proc' = proc /\ ownership' = ownership /\ charged' = charged
  BY RenewType, RecoverStaleType DEF TypeOK, Tick, Alive, Nobody, Running
<1>1. ASSUME NEW k \in Jobs
      PROVE  \/ rows[k] = jobs[k]
             \/ /\ jobs[k].state = "leased" /\ rows[k].state = "leased"
                /\ rows[k].lease.token = jobs[k].lease.token
                /\ rows[k].lease.owner = jobs[k].lease.owner
                /\ rows[k].attempts = jobs[k].attempts
                /\ rows[k].lease.live => jobs[k].lease.live \/ Held(k)
             \/ /\ jobs[k].state = "leased" /\ ~Held(k) /\ ~Nobody
                /\ rows[k].state = "pending"
                /\ rows[k].attempts = jobs[k].attempts
  BY <1>0, TickRows
<1> HIDE DEF rows
<1>2. CASE jobs' = rows /\ UNCHANGED <<nextToken, handler, newest>>
  <2>1. ASSUME NEW k \in Jobs PROVE Untouched(k) \/ SameHold(k) \/ PutBack(k)
    BY <1>0, <1>1, <1>2 DEF Untouched, SameHold, PutBack
  <2>2. SameDaemons /\ SameHandlers
    BY <1>0, <1>2 DEF SameDaemons, SameHandlers, Running
  <2> QED
    BY <2>1, <2>2, QuietKeeps DEF Quiet
<1>3. ASSUME NEW j \in Jobs, rows[j].state = "pending",
             jobs' = [rows EXCEPT
               ![j].state = "leased", ![j].attempts = @ + 1,
               ![j].lease = [token |-> nextToken, owner |-> proc[p].gen, live |-> TRUE]],
             handler' = [handler EXCEPT
               ![p][l] = [phase |-> "work", token |-> nextToken, job |-> j]],
             nextToken' = nextToken + 1
      PROVE  Exclusive'
  <2>1. \A k \in Jobs \ {j} : jobs'[k] = rows[k]
    BY <1>0, <1>3
  <2>2. /\ jobs'[j].state = "leased" /\ jobs'[j].attempts = rows[j].attempts + 1
        /\ jobs'[j].lease.token = nextToken /\ jobs'[j].lease.owner = proc[p].gen
    <3>1. rows[j] \in Row
      BY <1>0
    <3> QED
      BY <1>0, <1>3, <3>1 DEF Row
  <2>3. handler \in [Procs -> [Loops -> Handler]] /\ nextToken \in Nat
    BY QueueAssumption DEF TypeOK
  <2>4. /\ handler'[p][l] = [phase |-> "work", token |-> nextToken, job |-> j]
        /\ \A q \in Procs, m \in Loops : ~(q = p /\ m = l) => handler'[q][m] = handler[q][m]
    BY <1>3, <2>3
  <2>5. ~Undecided(j) /\ ~Held(j)
    <3>1. jobs[j].state = "pending" \/ (jobs[j].state = "leased" /\ ~Held(j) /\ ~Nobody)
      BY <1>1, <1>3
    <3> QED
      BY <3>1 DEF Undecided, Held, Holds
  <2>6. ASSUME NEW q \in Procs, NEW m \in Loops, Running(q, m)
        PROVE  /\ ~(q = p /\ m = l) /\ handler'[q][m] = handler[q][m]
               /\ handler[q][m].job # j
               /\ Holds(jobs'[handler[q][m].job], handler[q][m].token)
               /\ jobs'[handler[q][m].job].lease.owner = ownership
    <3> DEFINE k == handler[q][m].job
    <3>1. k \in Jobs
      BY <2>3 DEF Handler
    <3>2. Holds(jobs[k], handler[q][m].token) /\ jobs[k].lease.owner = ownership
      BY <2>6 DEF Exclusive, HandlersHoldRows
    <3>3. Held(k)
      BY <2>6, <3>2 DEF Held
    <3>4. k # j
      BY <2>5, <3>3
    <3> QED
      BY <1>0, <1>1, <2>1, <2>4, <2>6, <3>1, <3>2, <3>3, <3>4 DEF Holds
  <2>7. Running(p, l)' /\ Holds(jobs'[j], nextToken)
    BY <2>2, <2>4 DEF Running, Holds
  <2>8. Held(j)'
    BY <2>4, <2>7 DEF Held
  <2>9. ASSUME NEW k \in Jobs, Held(k) PROVE Held(k)'
    <3>1. PICK q \in Procs, m \in Loops :
            Running(q, m) /\ handler[q][m].job = k /\ Holds(jobs[k], handler[q][m].token)
      BY <2>9 DEF Held
    <3>2. Running(q, m)'
      BY <2>6, <3>1 DEF Running
    <3> QED
      BY <2>6, <3>1, <3>2 DEF Held
  <2>10. OneDaemon' /\ ownership # 0 /\ proc[p].gen = ownership
    BY <1>0 DEF Exclusive, OneDaemon, Alive
  <2>11. HandlersHoldRows'
    <3> SUFFICES ASSUME NEW q \in Procs, NEW m \in Loops, Running(q, m)'
                 PROVE  /\ proc'[q].phase \in {"up", "stopping"}
                        /\ handler'[q][m].token < nextToken'
                        /\ Holds(jobs'[handler'[q][m].job], handler'[q][m].token)
                        /\ jobs'[handler'[q][m].job].lease.owner = ownership'
      BY DEF HandlersHoldRows
    <3>1. CASE q = p /\ m = l
      BY <1>0, <1>3, <2>2, <2>3, <2>4, <2>7, <2>10, <3>1
    <3>2. CASE ~(q = p /\ m = l)
      <4>1. Running(q, m)
        BY <2>4, <3>2 DEF Running
      <4>2. handler[q][m].token \in Nat
        BY <2>3, QueueAssumption DEF Handler, Tokens
      <4>3. proc[q].phase \in {"up", "stopping"} /\ handler[q][m].token < nextToken
        BY <4>1 DEF Exclusive, HandlersHoldRows
      <4>4. handler[q][m].token < nextToken'
        BY <1>3, <2>3, <4>2, <4>3
      <4> QED
        BY <1>0, <2>6, <4>1, <4>3, <4>4
    <3> QED
      BY <3>1, <3>2
  <2>12. DistinctTokens'
    <3> SUFFICES ASSUME NEW q \in Procs, NEW m \in Loops, NEW n \in Loops,
                        Running(q, m)', Running(q, n)',
                        handler'[q][m].token = handler'[q][n].token
                 PROVE  m = n
      BY DEF DistinctTokens
    <3>1. ASSUME NEW o \in Loops, Running(q, o)', ~(q = p /\ o = l)
          PROVE  Running(q, o) /\ handler'[q][o] = handler[q][o] /\ handler'[q][o].token # nextToken
      <4>1. Running(q, o) /\ handler'[q][o] = handler[q][o]
        BY <2>4, <3>1 DEF Running
      <4>2. handler[q][o].token < nextToken /\ handler[q][o].token \in Nat
        BY <2>3, <4>1, QueueAssumption DEF Exclusive, HandlersHoldRows, Handler, Tokens
      <4> QED
        BY <2>3, <4>1, <4>2
    <3>2. CASE q = p /\ (m = l \/ n = l)
      BY <2>4, <3>1, <3>2
    <3>3. CASE ~(q = p /\ (m = l \/ n = l))
      BY <3>1, <3>3 DEF Exclusive, DistinctTokens
    <3> QED
      BY <3>2, <3>3
  <2>13. LiveLeasesBacked'
    <3> SUFFICES ASSUME NEW k \in Jobs, jobs'[k].state = "leased", jobs'[k].lease.live
                 PROVE  /\ ownership = jobs'[k].lease.owner
                        /\ Held(k)' /\ ownership # 0
      BY <1>0 DEF LiveLeasesBacked
    <3>1. CASE k = j
      BY <2>2, <2>8, <2>10, <3>1
    <3>2. CASE k # j
      <4>1. /\ jobs[k].state = "leased" /\ jobs'[k].lease.owner = jobs[k].lease.owner
            /\ jobs[k].lease.live \/ Held(k)
        BY <1>1, <2>1, <3>2
      <4>2. jobs[k].lease.owner = ownership /\ Held(k)
        BY <1>0, <4>1, HeldHasOwner DEF Exclusive, LiveLeasesBacked
      <4> QED
        BY <2>9, <2>10, <4>1, <4>2
    <3> QED
      BY <3>1, <3>2
  <2>14. AttemptsAccounted'
    <3> SUFFICES ASSUME NEW k \in Jobs
                 PROVE  jobs'[k].attempts <= charged[k] + (IF Undecided(k)' THEN 1 ELSE 0)
      BY <1>0 DEF AttemptsAccounted
    <3>1. /\ jobs[k].attempts \in Nat /\ charged[k] \in Nat
          /\ jobs'[k].attempts \in Nat /\ rows[k].attempts = jobs[k].attempts
      BY <1>0, <1>1 DEF TypeOK, Row
    <3>2. jobs[k].attempts <= charged[k] + (IF Undecided(k) THEN 1 ELSE 0)
      BY DEF Exclusive, AttemptsAccounted
    <3>3. CASE k = j
      <4>1. Undecided(k)'
        BY <2>2, <2>8, <3>3 DEF Undecided
      <4> QED
        BY <2>2, <2>5, <3>1, <3>2, <3>3, <4>1
    <3>4. CASE k # j
      <4>1. Undecided(k) => Undecided(k)'
        BY <1>0, <1>1, <2>1, <2>9, <3>4 DEF Undecided
      <4> QED
        BY <2>1, <3>1, <3>2, <3>4, <4>1
    <3> QED
      BY <3>3, <3>4
  <2>15. DeadAccounted'
    <3> SUFFICES ASSUME NEW k \in Jobs, jobs'[k].state = "dead" PROVE charged[k] >= MaxAttempts
      BY <1>0 DEF DeadAccounted
    <3>1. jobs[k].state = "dead"
      BY <1>1, <2>1, <2>2
    <3> QED
      BY <3>1 DEF Exclusive, DeadAccounted
  <2> QED
    BY <2>10, <2>11, <2>12, <2>13, <2>14, <2>15 DEF Exclusive
<1>4. Serves[l] \subseteq Jobs
  BY QueueAssumption
<1> QED
  BY <1>2, <1>3, <1>4 DEF Tick, Claimed, First, Claimable, rows

-----------------------------------------------------------------------------
(* Starting, exiting and crashing. *)

LEMMA StartKeeps ==
  ASSUME TypeOK, TypeOK', Exclusive, Legacy = {}, NEW p \in Procs, Start(p)
  PROVE  Exclusive'
<1>0. /\ jobs \in [Jobs -> Row] /\ proc \in [Procs -> Process]
      /\ nextGen # 0 /\ handler' = handler /\ charged' = charged
      /\ ownership' = nextGen
      /\ proc' = [proc EXCEPT ![p] = [phase |-> "booting", gen |-> nextGen]]
  BY QueueAssumption DEF TypeOK, Start
<1>1. Nobody
  BY DEF Start, ProvenDead, Exclusive, OneDaemon, Nobody
<1>2. \A q \in Procs, l \in Loops : ~Running(q, l)
  BY <1>1 DEF Exclusive, HandlersHoldRows, Nobody, Alive
<1>3. \A q \in Procs, l \in Loops : ~Running(q, l)'
  BY <1>0, <1>2 DEF Running
<1>4. OneDaemon'
  BY <1>0, <1>1 DEF OneDaemon, Nobody, Alive
<1>5. HandlersHoldRows' /\ DistinctTokens'
  BY <1>3 DEF HandlersHoldRows, DistinctTokens
<1>6. ASSUME NEW j \in Jobs
      PROVE  \/ jobs'[j] = jobs[j]
             \/ /\ jobs'[j].state = "pending"
                /\ jobs[j].state = "leased"
                /\ jobs'[j].attempts = Refund(jobs[j].attempts)
  BY <1>0, RecoverDeadFacts DEF Start
<1>7. ASSUME NEW j \in Jobs, jobs'[j].state = "leased"
      PROVE  ~jobs[j].lease.live /\ (ownership = 0 \/ jobs[j].lease.owner # ownership)
             /\ jobs'[j] = jobs[j]
  <2>1. CASE ownership = 0
    BY <1>7, <2>1 DEF Start, Stale
  <2>2. CASE ownership # 0
    <3>1. jobs'[j] = jobs[j] /\ jobs[j].lease.owner # ownership
      BY <1>0, <1>7, <2>2, RecoverDeadFacts DEF Start
    <3> QED
      BY <1>7, <2>2, <3>1 DEF Exclusive, LiveLeasesBacked
  <2> QED
    BY <2>1, <2>2
<1>8. LiveLeasesBacked'
  BY <1>7 DEF LiveLeasesBacked
<1>9. AttemptsAccounted'
  <2> SUFFICES ASSUME NEW j \in Jobs
               PROVE  jobs'[j].attempts <= charged[j] + (IF Undecided(j)' THEN 1 ELSE 0)
    BY <1>0 DEF AttemptsAccounted
  <2>1. jobs[j].attempts \in Nat /\ jobs'[j].attempts \in Nat /\ charged[j] \in Nat
    BY DEF TypeOK, Row
  <2>2. jobs[j].attempts <= charged[j] + (IF Undecided(j) THEN 1 ELSE 0)
    BY DEF Exclusive, AttemptsAccounted
  <2>3. ~Held(j)
    BY <1>2 DEF Held
  <2>4. CASE jobs'[j] = jobs[j] /\ jobs[j].state = "done"
    BY <2>1, <2>2, <2>4 DEF Undecided
  <2>5. CASE jobs'[j] = jobs[j] /\ jobs[j].state # "done"
    <3>1. ~Undecided(j)
      BY <1>7, <2>3, <2>5 DEF Undecided
    <3> QED
      BY <2>1, <2>2, <2>5, <3>1
  <2>6. CASE jobs'[j].state = "pending" /\ jobs'[j].attempts = Refund(jobs[j].attempts)
    <3>1. jobs'[j].attempts <= jobs[j].attempts
          /\ (jobs[j].attempts > 0 => jobs'[j].attempts = jobs[j].attempts - 1)
      BY <2>1, <2>6, RefundFacts
    <3> QED
      BY <2>1, <2>2, <3>1
  <2> QED
    BY <1>6, <2>4, <2>5, <2>6
<1>10. DeadAccounted'
  BY <1>0, <1>6 DEF DeadAccounted, Exclusive
<1> QED
  BY <1>4, <1>5, <1>8, <1>9, <1>10 DEF Exclusive

LEMMA EndKeeps ==
  ASSUME TypeOK, TypeOK', Exclusive, NEW p \in Procs, Exit(p) \/ Crash(p)
  PROVE  Exclusive'
<1>0. /\ jobs' = jobs /\ charged' = charged /\ proc \in [Procs -> Process]
      /\ Alive(p) /\ proc' = [proc EXCEPT ![p] = [phase |-> "down", gen |-> 0]]
  BY DEF TypeOK, Exit, Crash, Alive
<1>1. Nobody' /\ ~Nobody
  <2>1. \A q \in Procs : Alive(q) => q = p
    BY <1>0 DEF Exclusive, OneDaemon
  <2> QED
    BY <1>0, <2>1 DEF Nobody, Alive, Process
<1>2. \A q \in Procs, l \in Loops : ~Running(q, l)'
  <2>1. \A q \in Procs, l \in Loops : Running(q, l) => q = p
    BY <1>0 DEF Exclusive, OneDaemon, HandlersHoldRows, Alive
  <2>2. CASE Exit(p)
    BY <2>1, <2>2 DEF Exit, Settled, Running
  <2>3. CASE Crash(p)
    <3>1. handler \in [Procs -> [Loops -> Handler]]
      BY DEF TypeOK
    <3>2. \A l \in Loops : handler'[p][l].phase = "idle"
      BY <2>3, <3>1 DEF Crash, Idle
    <3>3. \A q \in Procs : q # p => handler'[q] = handler[q]
      BY <2>3, <3>1 DEF Crash
    <3>4. \A l \in Loops : ~Running(p, l)'
      BY <3>2 DEF Running
    <3>5. ASSUME NEW q \in Procs, q # p, NEW l \in Loops PROVE ~Running(q, l)'
      BY <2>1, <3>3, <3>5 DEF Running
    <3> QED
      BY <3>4, <3>5
  <2> QED
    BY <2>2, <2>3
<1>3. OneDaemon'
  BY <1>1 DEF OneDaemon, Nobody
<1>4. HandlersHoldRows' /\ DistinctTokens'
  BY <1>2 DEF HandlersHoldRows, DistinctTokens
<1>5. ASSUME NEW j \in Jobs, Held(j)
      PROVE  /\ Crash(p) /\ ownership' = ownership /\ ownership # 0
             /\ jobs[j].lease.owner = ownership
  <2>1. PICK q \in Procs, l \in Loops : Running(q, l)
    BY <1>5 DEF Held
  <2>2. Alive(q)
    BY <2>1 DEF Exclusive, HandlersHoldRows, Alive
  <2>3. q = p
    BY <1>0, <2>2 DEF Exclusive, OneDaemon
  <2>4. ~Exit(p)
    BY <2>1, <2>3 DEF Exit, Settled, Running
  <2> QED
    BY <1>5, <2>4, HeldHasOwner DEF Exclusive, Crash
<1>6. LiveLeasesBacked'
  <2> SUFFICES ASSUME NEW j \in Jobs, jobs[j].state = "leased", jobs[j].lease.live
               PROVE  jobs[j].lease.owner = ownership'
    BY <1>0, <1>1 DEF LiveLeasesBacked
  <2>1. Held(j)
    BY <1>1 DEF Exclusive, LiveLeasesBacked
  <2> QED
    BY <1>5, <2>1
<1>7. AttemptsAccounted'
  <2> SUFFICES ASSUME NEW j \in Jobs
               PROVE  jobs[j].attempts <= charged[j] + (IF Undecided(j)' THEN 1 ELSE 0)
    BY <1>0 DEF AttemptsAccounted
  <2>1. jobs[j].attempts \in Nat /\ charged[j] \in Nat
    BY DEF TypeOK, Row
  <2>2. jobs[j].attempts <= charged[j] + (IF Undecided(j) THEN 1 ELSE 0)
    BY DEF Exclusive, AttemptsAccounted
  <2>3. Undecided(j) => Undecided(j)'
    BY <1>0, <1>1, <1>5 DEF Undecided
  <2> QED
    BY <2>1, <2>2, <2>3
<1>8. DeadAccounted'
  BY <1>0 DEF DeadAccounted, Exclusive
<1> QED
  BY <1>3, <1>4, <1>6, <1>7, <1>8 DEF Exclusive

-----------------------------------------------------------------------------
(* A handler settles. *)

\* One handler stops running; its row ends up where its budget is accounted for.
SettlesOne(p, l) ==
  /\ Running(p, l) /\ ~Running(p, l)'
  /\ \A q \in Procs, m \in Loops : ~(q = p /\ m = l) => handler'[q][m] = handler[q][m]
  /\ proc' = proc /\ ownership' = ownership /\ nextToken' = nextToken
  /\ \A k \in Jobs : k # handler[p][l].job => Untouched(k)
  /\ LET j == handler[p][l].job IN
     /\ \/ jobs'[j].state \in {"pending", "dead"} /\ jobs'[j].attempts <= charged'[j]
        \/ jobs'[j].state = "done" /\ jobs'[j].attempts <= charged'[j] + 1
        \/ jobs'[j] = jobs[j] /\ ~jobs[j].lease.live /\ jobs'[j].attempts <= charged'[j]
     /\ jobs'[j].state = "dead" => charged'[j] >= MaxAttempts

LEMMA SettleKeeps ==
  ASSUME TypeOK, TypeOK', Exclusive, NEW p \in Procs, NEW l \in Loops, SettlesOne(p, l)
  PROVE  Exclusive'
<1> DEFINE j == handler[p][l].job
<1>0. j \in Jobs /\ Alive(p) /\ ~Nobody /\ jobs[j].state = "leased"
  <2>1. j \in Jobs
    BY DEF TypeOK, Handler
  <2>2. Alive(p) /\ jobs[j].state = "leased"
    BY DEF SettlesOne, Exclusive, HandlersHoldRows, Alive, Holds
  <2> QED
    BY <2>1, <2>2 DEF Nobody
<1>1. ASSUME NEW q \in Procs, NEW m \in Loops, Running(q, m)'
      PROVE  /\ ~(q = p /\ m = l) /\ Running(q, m) /\ handler'[q][m] = handler[q][m]
             /\ handler[q][m].job # j /\ handler[q][m].job \in Jobs
             /\ jobs'[handler[q][m].job] = jobs[handler[q][m].job]
  <2>1. ~(q = p /\ m = l)
    BY <1>1 DEF SettlesOne
  <2>2. Running(q, m) /\ handler'[q][m] = handler[q][m]
    BY <1>1, <2>1 DEF SettlesOne, Running
  <2>3. handler[q][m].job # j
    BY <2>1, <2>2, OneHandler DEF SettlesOne, Exclusive
  <2>4. handler[q][m].job \in Jobs
    BY DEF TypeOK, Handler
  <2> QED
    BY <2>1, <2>2, <2>3, <2>4 DEF SettlesOne, Untouched
<1>2. OneDaemon'
  BY DEF OneDaemon, Alive, Exclusive, SettlesOne
<1>3. HandlersHoldRows'
  <2> SUFFICES ASSUME NEW q \in Procs, NEW m \in Loops, Running(q, m)'
               PROVE  /\ proc'[q].phase \in {"up", "stopping"}
                      /\ handler'[q][m].token < nextToken'
                      /\ Holds(jobs'[handler'[q][m].job], handler'[q][m].token)
                      /\ jobs'[handler'[q][m].job].lease.owner = ownership'
    BY DEF HandlersHoldRows
  <2> QED
    BY <1>1 DEF Exclusive, HandlersHoldRows, SettlesOne, Holds
<1>4. DistinctTokens'
  BY <1>1 DEF Exclusive, DistinctTokens
<1>5. ASSUME NEW k \in Jobs, k # j, Held(k) PROVE Held(k)'
  <2>1. PICK q \in Procs, m \in Loops :
          Running(q, m) /\ handler[q][m].job = k /\ Holds(jobs[k], handler[q][m].token)
    BY <1>5 DEF Held
  <2>2. ~(q = p /\ m = l)
    BY <1>5, <2>1
  <2>3. handler'[q][m] = handler[q][m] /\ jobs'[k] = jobs[k]
    BY <1>5, <2>2 DEF SettlesOne, Untouched
  <2>4. Running(q, m)' /\ handler'[q][m].job = k /\ Holds(jobs'[k], handler'[q][m].token)
    BY <2>1, <2>3 DEF Running
  <2> QED
    BY <2>4 DEF Held
<1>6. ~Nobody'
  BY <1>0 DEF Nobody, Alive, SettlesOne
<1>7. LiveLeasesBacked'
  <2> SUFFICES ASSUME NEW k \in Jobs, jobs'[k].state = "leased", jobs'[k].lease.live
               PROVE  ownership' # 0 /\ jobs'[k].lease.owner = ownership' /\ Held(k)'
    BY DEF LiveLeasesBacked
  <2>1. k # j
    BY DEF SettlesOne
  <2>2. jobs'[k] = jobs[k]
    BY <2>1 DEF SettlesOne, Untouched
  <2>3. Held(k) /\ ownership # 0 /\ jobs[k].lease.owner = ownership
    BY <1>0, <2>2 DEF Exclusive, LiveLeasesBacked
  <2> QED
    BY <1>5, <2>1, <2>2, <2>3 DEF SettlesOne
<1>8. AttemptsAccounted'
  <2> SUFFICES ASSUME NEW k \in Jobs
               PROVE  jobs'[k].attempts <= charged'[k] + (IF Undecided(k)' THEN 1 ELSE 0)
    BY DEF AttemptsAccounted
  <2>1. jobs'[k].attempts \in Nat /\ charged'[k] \in Nat
    BY DEF TypeOK, Row
  <2>2. CASE k = j
    <3>1. CASE jobs'[j].attempts <= charged'[j]
      BY <2>1, <2>2, <3>1
    <3>2. CASE jobs'[j].state = "done" /\ jobs'[j].attempts <= charged'[j] + 1
      BY <2>1, <2>2, <3>2 DEF Undecided
    <3> QED
      BY <3>1, <3>2 DEF SettlesOne
  <2>3. CASE k # j
    <3>1. jobs'[k] = jobs[k] /\ charged'[k] = charged[k]
      BY <2>3 DEF SettlesOne, Untouched
    <3>2. Undecided(k) => Undecided(k)'
      BY <1>0, <1>5, <2>3, <3>1 DEF Undecided
    <3>3. jobs[k].attempts <= charged[k] + (IF Undecided(k) THEN 1 ELSE 0)
      BY DEF Exclusive, AttemptsAccounted
    <3> QED
      BY <2>1, <3>1, <3>2, <3>3
  <2> QED
    BY <2>2, <2>3
<1>9. DeadAccounted'
  <2> SUFFICES ASSUME NEW k \in Jobs, jobs'[k].state = "dead" PROVE charged'[k] >= MaxAttempts
    BY DEF DeadAccounted
  <2> QED
    BY DEF SettlesOne, Untouched, Exclusive, DeadAccounted
<1> QED
  BY <1>2, <1>3, <1>4, <1>7, <1>8, <1>9 DEF Exclusive

LEMMA SettleSettlesOne ==
  ASSUME TypeOK, Exclusive, NEW p \in Procs, NEW l \in Loops,
         Finish(p, l) \/ Fail(p, l) \/ Release(p, l) \/ Lost(p, l)
  PROVE  SettlesOne(p, l)
<1> DEFINE h == handler[p][l]
           j == h.job
           row == jobs[j]
<1>0. /\ jobs \in [Jobs -> Row] /\ charged \in [Jobs -> Nat]
      /\ handler \in [Procs -> [Loops -> Handler]] /\ handler[p] \in [Loops -> Handler]
      /\ h \in Handler /\ j \in Jobs /\ row \in Row /\ row.attempts \in Nat /\ charged[j] \in Nat
  BY DEF TypeOK, Handler, Row
<1>1. Running(p, l)
  BY DEF Finish, Fail, Release, Lost, Running
<1>x. PICK X \in {Idle, [h EXCEPT !.phase = "dying"]} : handler' = [handler EXCEPT ![p][l] = X]
  <2>1. CASE Finish(p, l) \/ Release(p, l) \/ Lost(p, l)
    BY <2>1 DEF Finish, Release, Lost
  <2>2. CASE Fail(p, l)
    BY <2>2 DEF Fail
  <2> QED
    BY <2>1, <2>2
<1>2. \A q \in Procs, m \in Loops : ~(q = p /\ m = l) => handler'[q][m] = handler[q][m]
  BY <1>0, <1>x
<1>3. proc' = proc /\ ownership' = ownership /\ nextToken' = nextToken
  BY DEF Finish, Fail, Release, Lost
<1>4. \A k \in Jobs : k # j => Untouched(k)
  BY <1>0 DEF Finish, Fail, Release, Lost, Untouched
<1>5. ~Running(p, l)'
  <2>1. handler'[p][l] = Idle \/ handler'[p][l] = [h EXCEPT !.phase = "dying"]
    BY <1>0, <1>x
  <2> QED
    BY <1>0, <2>1 DEF Running, Idle, Handler
<1>6. row.attempts <= charged[j] + 1
  BY <1>0 DEF Exclusive, AttemptsAccounted
<1>7. CASE Finish(p, l)
  <2>1. jobs'[j].state = "done" /\ jobs'[j].attempts = row.attempts /\ charged'[j] = charged[j]
    BY <1>0, <1>7 DEF Finish, Row
  <2> QED
    BY <1>1, <1>2, <1>3, <1>4, <1>5, <1>6, <2>1 DEF SettlesOne
<1>8. CASE Fail(p, l)
  <2>1. charged'[j] = charged[j] + 1
    BY <1>0, <1>8 DEF Fail
  <2>2. CASE row.attempts >= MaxAttempts
    <3>1. jobs'[j].state = "dead" /\ jobs'[j].attempts = row.attempts
      BY <1>0, <1>8, <2>2 DEF Fail, Row
    <3>2. charged'[j] >= MaxAttempts
      BY <1>0, <1>6, <2>1, <2>2, QueueAssumption
    <3>3. jobs'[j].attempts <= charged'[j]
      BY <1>6, <2>1, <3>1
    <3> QED
      BY <1>1, <1>2, <1>3, <1>4, <1>5, <3>1, <3>2, <3>3 DEF SettlesOne
  <2>3. CASE ~(row.attempts >= MaxAttempts)
    <3> DEFINE back == Pending(row, row.attempts, FALSE)
    <3>1. jobs'[j] = back
      BY <1>0, <1>8, <2>3 DEF Fail
    <3>2. back.state = "pending" /\ back.attempts = row.attempts
      BY <1>0, PendingFacts
    <3>3. jobs'[j].state = "pending" /\ jobs'[j].attempts <= charged'[j]
      BY <1>6, <2>1, <3>1, <3>2
    <3> HIDE DEF back
    <3> QED
      BY <1>1, <1>2, <1>3, <1>4, <1>5, <3>3 DEF SettlesOne
  <2> QED
    BY <2>2, <2>3
<1>9. CASE Release(p, l)
  <2> DEFINE back == Pending(row, Refund(row.attempts), TRUE)
  <2>1. jobs'[j] = back /\ charged'[j] = charged[j]
    BY <1>0, <1>9 DEF Release
  <2>2. back.state = "pending" /\ back.attempts = Refund(row.attempts)
    BY <1>0, PendingFacts
  <2>3. Refund(row.attempts) <= charged[j]
    <3>1. Refund(row.attempts) = IF row.attempts = 0 THEN 0 ELSE row.attempts - 1
      BY DEF Refund
    <3> QED
      BY <1>0, <1>6, <3>1
  <2>4. jobs'[j].state = "pending" /\ jobs'[j].attempts <= charged'[j]
    BY <2>1, <2>2, <2>3
  <2> QED
    BY <1>1, <1>2, <1>3, <1>4, <1>5, <2>4 DEF SettlesOne
<1>10. CASE Lost(p, l)
  <2>1. jobs' = jobs /\ charged'[j] = charged[j] + 1
    BY <1>0, <1>10 DEF Lost
  <2>2. Holds(row, h.token)
    BY <1>1 DEF Exclusive, HandlersHoldRows
  <2>3. ~row.lease.live /\ row.state = "leased"
    BY <1>10, <2>2 DEF Lost, HoldsLive, Holds
  <2> QED
    BY <1>1, <1>2, <1>3, <1>4, <1>5, <1>6, <2>1, <2>3 DEF SettlesOne
<1> QED
  BY <1>7, <1>8, <1>9, <1>10

\* Clearing the row of a dead daemon leaves its leases behind, each one charged.
LEMMA ClearKeeps ==
  ASSUME TypeOK, TypeOK', Exclusive, ClearDead
  PROVE  Exclusive'
<1>0. /\ jobs' = jobs /\ proc' = proc /\ handler' = handler /\ ownership' = 0 /\ ownership # 0
  BY DEF ClearDead
<1>1. Nobody /\ Nobody'
  BY <1>0 DEF ClearDead, ProvenDead, Exclusive, OneDaemon, Nobody, Alive
<1>2. \A q \in Procs, l \in Loops : ~Running(q, l) /\ ~Running(q, l)'
  BY <1>0, <1>1 DEF Exclusive, HandlersHoldRows, Nobody, Alive, Running
<1>3. OneDaemon' /\ HandlersHoldRows' /\ DistinctTokens' /\ LiveLeasesBacked'
  BY <1>0, <1>1, <1>2 DEF OneDaemon, HandlersHoldRows, DistinctTokens, LiveLeasesBacked, Nobody
<1>4. ASSUME NEW j \in Jobs
      PROVE  /\ jobs'[j].attempts <= charged'[j] + (IF Undecided(j)' THEN 1 ELSE 0)
             /\ charged'[j] >= charged[j]
  <2>1. jobs[j].attempts \in Nat /\ charged[j] \in Nat
    BY DEF TypeOK, Row
  <2>2. jobs[j].attempts <= charged[j] + (IF Undecided(j) THEN 1 ELSE 0)
    BY DEF Exclusive, AttemptsAccounted
  <2>3. ~Held(j)
    BY <1>2 DEF Held
  <2>4. CASE jobs[j].state = "leased" /\ jobs[j].lease.owner = ownership
    <3>1. charged'[j] = charged[j] + 1
      BY <2>4 DEF ClearDead
    <3> QED
      BY <1>0, <2>1, <2>2, <3>1
  <2>5. CASE ~(jobs[j].state = "leased" /\ jobs[j].lease.owner = ownership)
    <3>1. charged'[j] = charged[j]
      BY <2>5 DEF ClearDead
    <3>2. Undecided(j) => jobs[j].state = "done"
      BY <2>3, <2>5 DEF Undecided
    <3>3. jobs[j].state = "done" => Undecided(j)'
      BY <1>0 DEF Undecided
    <3> QED
      BY <1>0, <2>1, <2>2, <3>1, <3>2, <3>3
  <2> QED
    BY <2>4, <2>5
<1>5. AttemptsAccounted'
  BY <1>4 DEF AttemptsAccounted
<1>6. DeadAccounted'
  <2> SUFFICES ASSUME NEW j \in Jobs, jobs'[j].state = "dead" PROVE charged'[j] >= MaxAttempts
    BY DEF DeadAccounted
  <2>1. charged[j] >= MaxAttempts /\ charged[j] \in Nat /\ charged'[j] \in Nat
    BY <1>0 DEF Exclusive, DeadAccounted, TypeOK
  <2> QED
    BY <1>4, <2>1, QueueAssumption
<1> QED
  BY <1>3, <1>5, <1>6 DEF Exclusive

LEMMA ExclusiveInit == Legacy = {} /\ Init => Exclusive
<1> SUFFICES ASSUME Legacy = {}, Init PROVE Exclusive
  OBVIOUS
<1>1. ASSUME NEW p \in Procs
      PROVE  ~Alive(p) /\ \A l \in Loops : ~Running(p, l)
  <2>1. proc[p] = [phase |-> "down", gen |-> 0]
    BY DEF Init
  <2>2. \A l \in Loops : handler[p][l].phase = "idle"
    BY DEF Init, Idle
  <2>3. \A l \in Loops : ~Running(p, l)
    BY <2>2 DEF Running
  <2>4. ~Alive(p)
    BY <2>1 DEF Alive
  <2> QED
    BY <2>3, <2>4
<1>2. \A j \in Jobs : jobs[j].state = "absent" /\ jobs[j].attempts = 0 /\ charged[j] = 0
  BY DEF Init
<1> QED
  BY <1>1, <1>2 DEF Exclusive, OneDaemon, HandlersHoldRows, DistinctTokens, LiveLeasesBacked,
                    AttemptsAccounted, DeadAccounted

LEMMA ExclusiveNext ==
  ASSUME Legacy = {}, TypeOK, Exclusive, [Next]_vars
  PROVE  Exclusive'
<1>0. TypeOK'
  BY TypeNext
<1>1. CASE UNCHANGED vars
  <2>1. SameDaemons /\ SameHandlers
    BY <1>1 DEF vars, SameDaemons, SameHandlers, Running
  <2>2. \A j \in Jobs : Untouched(j)
    BY <1>1 DEF vars, Untouched
  <2>3. Quiet
    BY <2>1, <2>2 DEF Quiet
  <2> QED
    BY <1>0, <2>3, QuietKeeps
<1>2. CASE \E j \in Jobs : EnqueueInitial(j) \/ ExpireLease(j) \/ BackoffElapses(j) \/ RetryDead(j)
  BY <1>0, <1>2, QuietQueueSteps, QuietKeeps
<1>3. ASSUME NEW p \in Procs, Start(p) \/ Boot(p) \/ Stop(p) \/ Exit(p) \/ Crash(p)
      PROVE  Exclusive'
  BY <1>0, <1>3, StartKeeps, QuietProcessSteps, QuietKeeps, EndKeeps
<1>4. ASSUME NEW p \in Procs, NEW l \in Loops,
             Tick(p, l) \/ Heartbeat(p, l) \/ Publish(p, l) \/ Settle(p, l)
      PROVE  Exclusive'
  BY <1>0, <1>4, TickKeeps, QuietHandlerSteps, QuietKeeps, SettleSettlesOne, SettleKeeps DEF Settle
<1>5. CASE ClearDead
  BY <1>0, <1>5, ClearKeeps
<1>6. ASSUME NEW j \in Jobs, SessionDone(j) PROVE Exclusive'
  <2>1. SameDaemons /\ SameHandlers
    BY <1>6 DEF SessionDone, SameDaemons, SameHandlers, Running
  <2>2. \A k \in Jobs : Untouched(k)
    BY <1>6 DEF SessionDone, Untouched
  <2>3. Quiet
    BY <2>1, <2>2 DEF Quiet
  <2> QED
    BY <1>0, <2>3, QuietKeeps
<1> QED
  BY <1>1, <1>2, <1>3, <1>4, <1>5, <1>6 DEF Next

\* On a database no legacy daemon shares, at most one daemon is alive, its handlers
\* hold their rows, and every attempt is accounted for.
THEOREM OneDaemonInvariant == Spec => []DaemonInv
<1>1. Init => DaemonInv
  BY ExclusiveInit DEF DaemonInv
<1>2. TypeOK /\ DaemonInv /\ [Next]_vars => DaemonInv'
  BY ExclusiveNext DEF DaemonInv
<1> QED
  BY <1>1, <1>2, TypeCorrect, PTL DEF Spec

\* A daemon never reclaims the row of its own running handler, however long it slept.
THEOREM NoSelfReclaim == Spec => []RunningHandlerOwnsRow
<1>1. DaemonInv => RunningHandlerOwnsRow
  BY DEF DaemonInv, Exclusive, HandlersHoldRows, RunningHandlerOwnsRow
<1> QED
  BY <1>1, OneDaemonInvariant, PTL

\* No job is processed by two handlers at once, over every crash and restart.
THEOREM NoConcurrentHandlers == Spec => []OneHandlerPerJob
<1>1. DaemonInv => OneHandlerPerJob
  BY OneHandler DEF DaemonInv, Exclusive, OneHandlerPerJob
<1> QED
  BY <1>1, OneDaemonInvariant, PTL

\* Crashes, shutdowns and restarts spend no retry budget, unless the ownership row of
\* the dead daemon is cleared first.
THEOREM AttemptsAreCharged == Spec => []BudgetAccounted
<1>1. TypeOK /\ DaemonInv => BudgetAccounted
  <2> SUFFICES ASSUME TypeOK, Exclusive, NEW j \in Jobs
               PROVE  jobs[j].attempts <= charged[j] + InFlight(j)
    BY DEF DaemonInv, BudgetAccounted
  <2>1. jobs[j].attempts \in Nat /\ charged[j] \in Nat
    BY DEF TypeOK, Row
  <2>2. jobs[j].attempts <= charged[j] + (IF Undecided(j) THEN 1 ELSE 0)
    BY DEF Exclusive, AttemptsAccounted
  <2>3. Undecided(j) => InFlight(j) = 1
    BY DEF Undecided, InFlight
  <2>4. InFlight(j) \in {0, 1}
    BY DEF InFlight
  <2> QED
    BY <2>1, <2>2, <2>3, <2>4
<1> QED
  BY <1>1, TypeCorrect, OneDaemonInvariant, PTL

\* A dead job was charged max_attempts times since it was last reset.
THEOREM DeadIsDeserved == Spec => []DeadAfterMaxCharges
<1>1. DaemonInv => DeadAfterMaxCharges
  BY DEF DaemonInv, Exclusive, DeadAccounted, DeadAfterMaxCharges
<1> QED
  BY <1>1, OneDaemonInvariant, PTL

\* A clean exit never leaves a lease that would refuse the next start.
THEOREM CleanExit == Spec => CleanExitLeavesNoLease
<1>1. ASSUME DaemonInv, Legacy = {}, NEW p \in Procs, Exit(p),
             NEW j \in Jobs, jobs[j].state = "leased"
      PROVE  Stale(jobs[j])
  <2>1. Alive(p) /\ ~Nobody
    BY <1>1 DEF Exit, Alive, Nobody
  <2>2. \A q \in Procs, l \in Loops : Running(q, l) => q = p
    BY <1>1, <2>1 DEF DaemonInv, Exclusive, OneDaemon, HandlersHoldRows, Alive
  <2>3. ~Held(j)
    BY <1>1, <2>2 DEF Held, Running, Exit, Settled
  <2> QED
    BY <1>1, <2>1, <2>3 DEF DaemonInv, Exclusive, LiveLeasesBacked, Stale
<1>2. DaemonInv /\ [Next]_vars =>
        [(Legacy = {} /\ \E p \in Procs : Exit(p)) =>
           \A j \in Jobs : jobs[j].state = "leased" => Stale(jobs[j])]_vars
  BY <1>1
<1> QED
  BY <1>2, OneDaemonInvariant, PTL DEF Spec, CleanExitLeavesNoLease

-----------------------------------------------------------------------------
(* The hand-over, and the refinement of FencedWork.  Both need only that     *)
(* tokens are leases, and hold with legacy daemons too.                      *)

\* What an action that is neither a claim nor a publication does to the table:
\* each row stays as it is for the ledger, or its lease is gone.
SameEntry(j) ==
  /\ jobs'[j].state = jobs[j].state
  /\ jobs'[j].lease.token = jobs[j].lease.token
  /\ jobs[j].state # "leased" => jobs'[j].lease = jobs[j].lease

BackInPool(j) ==
  /\ jobs[j].state = "leased"
  /\ jobs'[j].state = "pending" /\ jobs'[j].lease = NoLease

NewInPool(j) ==
  /\ jobs[j].state = "absent"
  /\ jobs'[j].state = "pending" /\ jobs'[j].lease = NoLease

LedgerInv == TokensAreLeases /\ PublishedIsDurable /\ DoneHandedOver

LEMMA LedgerInit == Init => LedgerInv
<1> SUFFICES ASSUME Init PROVE LedgerInv
  OBVIOUS
<1>1. TokensAreLeases /\ DoneHandedOver
  BY DEF Init, TokensAreLeases, DoneHandedOver
<1>2. PublishedIsDurable
  BY DEF Init, PublishedIsDurable, Idle
<1> QED
  BY <1>1, <1>2 DEF LedgerInv

\* A step that decides nothing keeps the hand-over: rows come back, appear or stay,
\* and no handler becomes published.
LEMMA QuietLedger ==
  ASSUME TypeOK, LedgerInv,
         \A j \in Jobs : SameEntry(j) \/ BackInPool(j) \/ NewInPool(j),
         UNCHANGED <<outcome, facts>>,
         \A p \in Procs, l \in Loops :
            handler'[p][l].phase = "published" => handler'[p][l] = handler[p][l]
  PROVE  LedgerInv'
<1>1. TokensAreLeases'
  BY DEF LedgerInv, TokensAreLeases, SameEntry, BackInPool, NewInPool, NoLease
<1>2. \A j \in Jobs : jobs'[j].state = "absent" => jobs[j].state = "absent"
  BY DEF SameEntry, BackInPool, NewInPool
<1>3. \A j \in Jobs : jobs'[j].state = "done" => jobs[j].state = "done"
  BY DEF SameEntry, BackInPool, NewInPool
<1>4. \A j \in Jobs : HandedOver(j) => HandedOver(j)'
  BY <1>2, QueueAssumption DEF HandedOver
<1>5. \A p \in Procs, l \in Loops : handler[p][l].job \in Jobs
  BY DEF TypeOK, Handler
<1>6. PublishedIsDurable'
  BY <1>4, <1>5 DEF LedgerInv, PublishedIsDurable
<1> QED
  BY <1>1, <1>3, <1>4, <1>6 DEF LedgerInv, DoneHandedOver

Returning ==
  /\ \A j \in Jobs : SameEntry(j) \/ BackInPool(j)
  /\ UNCHANGED <<outcome, facts, nextToken>>

Offering ==
  /\ \A j \in Jobs : SameEntry(j) \/ NewInPool(j)
  /\ UNCHANGED <<outcome, facts, nextToken>>

NonePublishes ==
  \A p \in Procs, l \in Loops :
     handler'[p][l].phase = "published" => handler'[p][l] = handler[p][l]

\* The same table, or one in which unexpired or expired leases are renewed.
LEMMA SameTable ==
  ASSUME TypeOK, TokensAreLeases, jobs' = jobs
  PROVE  \A j \in Jobs : SameEntry(j)
BY DEF SameEntry

LEMMA RenewedTable ==
  ASSUME TypeOK, NEW j \in Jobs, jobs[j].state = "leased", NEW b \in BOOLEAN,
         jobs' = [jobs EXCEPT ![j].lease.live = b]
  PROVE  \A k \in Jobs : SameEntry(k)
<1>1. jobs[j] \in Row /\ jobs \in [Jobs -> Row]
  BY DEF TypeOK
<1>2. jobs'[j].state = jobs[j].state /\ jobs'[j].lease.token = jobs[j].lease.token
  BY <1>1 DEF Row, Lease
<1>3. \A k \in Jobs \ {j} : jobs'[k] = jobs[k]
  BY <1>1
<1> QED
  BY <1>2, <1>3 DEF SameEntry

LEMMA ReturningQueueSteps ==
  ASSUME TypeOK, LedgerInv, NEW j \in Jobs, ExpireLease(j) \/ BackoffElapses(j)
  PROVE  Returning /\ NonePublishes
<1>1. CASE ExpireLease(j)
  BY <1>1, RenewedTable DEF ExpireLease, HoldsLive, Holds, Returning, NonePublishes
<1>2. CASE BackoffElapses(j)
  <2>1. jobs[j] \in Row /\ jobs \in [Jobs -> Row]
    BY DEF TypeOK
  <2>2. jobs'[j].state = jobs[j].state /\ jobs'[j].lease = jobs[j].lease
    BY <1>2, <2>1 DEF BackoffElapses, Row
  <2>3. \A k \in Jobs \ {j} : jobs'[k] = jobs[k]
    BY <1>2, <2>1 DEF BackoffElapses
  <2> QED
    BY <1>2, <2>2, <2>3 DEF BackoffElapses, Returning, NonePublishes, SameEntry
<1> QED
  BY <1>1, <1>2

LEMMA OfferingStep ==
  ASSUME TypeOK, LedgerInv, NEW j \in Jobs, EnqueueInitial(j)
  PROVE  Offering /\ NonePublishes
<1>1. jobs \in [Jobs -> Row] /\ jobs' = Enqueue(jobs, {j})
  BY DEF TypeOK, EnqueueInitial
<1>2. \A k \in Jobs : SameEntry(k) \/ NewInPool(k)
  BY <1>1, EnqueueFacts DEF SameEntry, NewInPool
<1> QED
  BY <1>2 DEF EnqueueInitial, Offering, NonePublishes

LEMMA SessionDoneReturns ==
  ASSUME TypeOK, LedgerInv, NEW j \in Jobs, SessionDone(j)
  PROVE  Returning /\ NonePublishes
BY SameTable DEF SessionDone, Returning, NonePublishes, LedgerInv

LEMMA ReturningProcessSteps ==
  ASSUME TypeOK, LedgerInv
  PROVE  /\ ClearDead => Returning /\ NonePublishes
         /\ \A p \in Procs : Start(p) \/ Boot(p) \/ Stop(p) \/ Exit(p) \/ Crash(p)
              => Returning /\ NonePublishes
<1>0. jobs \in [Jobs -> Row]
  BY DEF TypeOK
<1>1. ClearDead => Returning /\ NonePublishes
  BY SameTable DEF ClearDead, Returning, NonePublishes, LedgerInv
<1>2. ASSUME NEW p \in Procs, Start(p) PROVE Returning /\ NonePublishes
  <2>1. \A j \in Jobs : SameEntry(j) \/ BackInPool(j)
    <3>1. CASE jobs' = jobs
      BY <3>1, SameTable DEF LedgerInv
    <3>2. CASE jobs' = RecoverDead(jobs, ownership)
      BY <1>0, <3>2, RecoverDeadFacts DEF SameEntry, BackInPool
    <3> QED
      BY <1>2, <3>1, <3>2 DEF Start
  <2> QED
    BY <1>2, <2>1 DEF Start, Returning, NonePublishes
<1>3. ASSUME NEW p \in Procs, Boot(p) PROVE Returning /\ NonePublishes
  <2>1. \A j \in Jobs : SameEntry(j) \/ BackInPool(j)
    BY <1>0, <1>3, RecoverStaleFacts DEF Boot, SameEntry, BackInPool, Stale
  <2> QED
    BY <1>3, <2>1 DEF Boot, Returning, NonePublishes
<1>4. ASSUME NEW p \in Procs, Stop(p) \/ Exit(p) PROVE Returning /\ NonePublishes
  BY <1>4, SameTable DEF Stop, Exit, Returning, NonePublishes, LedgerInv
<1>5. ASSUME NEW p \in Procs, Crash(p) PROVE Returning /\ NonePublishes
  <2>1. NonePublishes
    BY <1>5 DEF Crash, NonePublishes, TypeOK, Idle
  <2> QED
    BY <1>5, <2>1, SameTable DEF Crash, Returning, LedgerInv
<1> QED
  BY <1>1, <1>2, <1>3, <1>4, <1>5

\* A claim: the row of j is leased under the next token; other rows stay or return.
Taking(j) ==
  /\ jobs[j].state \in {"pending", "leased"}
  /\ jobs'[j].state = "leased" /\ jobs'[j].lease.token = nextToken
  /\ \A k \in Jobs \ {j} : SameEntry(k) \/ BackInPool(k)
  /\ nextToken' = nextToken + 1
  /\ UNCHANGED <<outcome, facts>>

\* The holder of j writes facts and follow-ups under its token.
Acting(j) ==
  /\ jobs[j].state = "leased"
  /\ facts' = [facts EXCEPT ![j] = jobs[j].lease.token]
  /\ \A k \in Jobs : SameEntry(k) \/ NewInPool(k)
  /\ nextToken' = nextToken

\* Row j leaves the state `from` for `to` and carries no token afterwards.
Moving(j, from, to) ==
  /\ jobs[j].state = from
  /\ jobs'[j].state = to /\ jobs'[j].lease = NoLease
  /\ \A k \in Jobs \ {j} : SameEntry(k)
  /\ UNCHANGED <<outcome, facts, nextToken>>

LEMMA TickTable ==
  ASSUME TypeOK, NEW p \in Procs, NEW j \in Jobs
  PROVE  LET r == RecoverStale(RenewActive(jobs, p))[j]
         IN  \/ /\ r.state = jobs[j].state
                /\ r.lease.token = jobs[j].lease.token
                /\ jobs[j].state # "leased" => r.lease = jobs[j].lease
             \/ jobs[j].state = "leased" /\ r.state = "pending" /\ r.lease = NoLease
<1> DEFINE renewed == RenewActive(jobs, p)
           r == RecoverStale(renewed)[j]
<1>1. jobs \in [Jobs -> Row] /\ renewed \in [Jobs -> Row]
  BY RenewType DEF TypeOK
<1>2. /\ renewed[j].state = jobs[j].state
      /\ renewed[j].lease.token = jobs[j].lease.token
      /\ jobs[j].state # "leased" => renewed[j] = jobs[j]
  BY <1>1, RenewFacts
<1>3. CASE Stale(renewed[j])
  BY <1>1, <1>2, <1>3, RecoverStaleFacts DEF Stale
<1>4. CASE ~Stale(renewed[j])
  BY <1>1, <1>2, <1>4, RecoverStaleFacts
<1> QED
  BY <1>3, <1>4

LEMMA TickMoves ==
  ASSUME TypeOK, LedgerInv, NEW p \in Procs, NEW l \in Loops, Tick(p, l)
  PROVE  NonePublishes /\ (Returning \/ \E j \in Jobs : Taking(j))
<1> DEFINE rows == RecoverStale(RenewActive(jobs, p))
<1>0. rows \in [Jobs -> Row] /\ Serves[l] \subseteq Jobs
  BY RenewType, RecoverStaleType, QueueAssumption DEF TypeOK
<1>1. CASE jobs' = rows /\ UNCHANGED <<nextToken, handler, newest>>
  <2>1. \A j \in Jobs : SameEntry(j) \/ BackInPool(j)
    BY <1>1, TickTable DEF SameEntry, BackInPool
  <2> QED
    BY <1>1, <2>1 DEF Tick, Returning, NonePublishes
<1>2. ASSUME NEW j \in First(Claimable(rows, l)),
             jobs' = Claimed(rows, j, nextToken, proc[p].gen),
             handler' = [handler EXCEPT
                ![p][l] = [phase |-> "work", token |-> nextToken, job |-> j]],
             nextToken' = nextToken + 1
      PROVE  NonePublishes /\ Taking(j) /\ j \in Jobs
  <2>1. j \in Jobs /\ rows[j].state = "pending" /\ rows[j] \in Row
    BY <1>0, <1>2 DEF First, Claimable
  <2>3. jobs[j].state \in {"pending", "leased"}
    BY <2>1, TickTable
  <2> HIDE DEF rows
  <2>4. jobs'[j].state = "leased" /\ jobs'[j].lease.token = nextToken
    BY <1>0, <1>2, <2>1 DEF Claimed, Row
  <2>5. \A k \in Jobs \ {j} : jobs'[k] = rows[k]
    BY <1>0, <1>2, <2>1 DEF Claimed
  <2>6. \A k \in Jobs \ {j} : SameEntry(k) \/ BackInPool(k)
    BY <2>5, TickTable DEF SameEntry, BackInPool, rows
  <2>7. NonePublishes
    BY <1>2 DEF NonePublishes, TypeOK
  <2> QED
    BY <1>2, <2>1, <2>3, <2>4, <2>6, <2>7 DEF Taking, Tick
<1> QED
  BY <1>1, <1>2 DEF Tick

\* A row of the table that one handler or the operator changes.
LEMMA OneRow ==
  ASSUME TypeOK, NEW j \in Jobs, NEW row, jobs' = [jobs EXCEPT ![j] = row]
  PROVE  jobs'[j] = row /\ \A k \in Jobs \ {j} : SameEntry(k)
BY DEF TypeOK, SameEntry

LEMMA IdleNone ==
  ASSUME TypeOK, NEW p \in Procs, NEW l \in Loops, handler' = [handler EXCEPT ![p][l] = Idle]
  PROVE  NonePublishes
BY DEF NonePublishes, TypeOK, Idle

LEMMA RetryMoves ==
  ASSUME TypeOK, LedgerInv, NEW j \in Jobs, RetryDead(j)
  PROVE  Moving(j, "dead", "pending") /\ NonePublishes
<1>1. Revived(jobs[j]).state = "pending" /\ Revived(jobs[j]).lease = NoLease
  BY PendingFacts, jobs[j] \in Row DEF TypeOK, Revived
<1> QED
  BY <1>1, OneRow DEF RetryDead, Moving, NonePublishes

LEMMA HandlerMoves ==
  ASSUME TypeOK, LedgerInv, NEW p \in Procs, NEW l \in Loops
  PROVE  LET j == handler[p][l].job IN
         /\ Heartbeat(p, l) \/ Release(p, l) \/ Lost(p, l) \/ Announce(p, l)
              => Returning /\ NonePublishes
         /\ Fail(p, l) => NonePublishes /\ (Returning \/ Moving(j, "leased", "dead"))
         /\ Finish(p, l) => NonePublishes /\ Moving(j, "leased", "done")
         /\ Publish(p, l) => Acting(j)
<1> DEFINE j == handler[p][l].job
<1>0. j \in Jobs /\ jobs \in [Jobs -> Row] /\ jobs[j] \in Row
  BY DEF TypeOK, Handler
<1>1. ASSUME Heartbeat(p, l) PROVE Returning /\ NonePublishes
  BY <1>0, <1>1, RenewedTable DEF Heartbeat, Holds, Returning, NonePublishes
<1>2. ASSUME Lost(p, l) \/ Announce(p, l) PROVE Returning /\ NonePublishes
  <2>1. NonePublishes
    BY <1>2, IdleNone DEF Lost, Announce
  <2> QED
    BY <1>2, <2>1, SameTable DEF Lost, Announce, Returning, LedgerInv
<1>3. ASSUME Release(p, l) PROVE Returning /\ NonePublishes
  <2>1. NonePublishes
    BY <1>3, IdleNone DEF Release
  <2> DEFINE back == Pending(jobs[j], Refund(jobs[j].attempts), TRUE)
  <2>2. /\ jobs' = [jobs EXCEPT ![j] = back] /\ UNCHANGED <<outcome, facts, nextToken>>
        /\ jobs[j].state = "leased"
    BY <1>3 DEF Release, HoldsLive, Holds
  <2>3. back.state = "pending" /\ back.lease = NoLease
    BY <1>0, PendingFacts
  <2> HIDE DEF back
  <2> QED
    BY <1>0, <2>1, <2>2, <2>3, OneRow DEF Returning, BackInPool
<1>4. ASSUME Fail(p, l)
      PROVE  NonePublishes /\ (Returning \/ Moving(j, "leased", "dead"))
  <2> DEFINE row == jobs[j]
             dead == [row EXCEPT !.state = "dead", !.ready = TRUE, !.lease = NoLease]
             back == Pending(row, row.attempts, FALSE)
  <2>1. NonePublishes
    BY <1>4 DEF Fail, NonePublishes, TypeOK, Idle
  <2>2. dead.state = "dead" /\ dead.lease = NoLease
    BY <1>0 DEF Row
  <2>3. back.state = "pending" /\ back.lease = NoLease
    BY <1>0, PendingFacts
  <2>4. row.state = "leased" /\ UNCHANGED <<outcome, facts, nextToken>>
    BY <1>4 DEF Fail, HoldsLive, Holds
  <2>5. CASE jobs' = [jobs EXCEPT ![j] = dead]
    BY <1>0, <2>1, <2>2, <2>4, <2>5, OneRow DEF Moving
  <2>6. CASE jobs' = [jobs EXCEPT ![j] = back]
    BY <1>0, <2>1, <2>3, <2>4, <2>6, OneRow DEF Returning, BackInPool
  <2> QED
    BY <1>4, <2>5, <2>6 DEF Fail
<1>5. ASSUME Finish(p, l) PROVE NonePublishes /\ Moving(j, "leased", "done")
  <2>1. NonePublishes
    BY <1>5, IdleNone DEF Finish
  <2>2. jobs'[j].state = "done" /\ jobs'[j].lease = NoLease
    BY <1>0, <1>5 DEF Finish, Row
  <2>3. \A k \in Jobs \ {j} : SameEntry(k)
    BY <1>0, <1>5 DEF Finish, SameEntry
  <2> QED
    BY <1>5, <2>1, <2>2, <2>3 DEF Finish, Holds, Moving
<1>6. ASSUME Publish(p, l) PROVE Acting(j)
  <2>1. \A k \in Jobs : SameEntry(k) \/ NewInPool(k)
    <3>1. CASE jobs' = jobs
      BY <3>1, SameTable DEF LedgerInv
    <3>2. CASE jobs' = Enqueue(jobs, Follow[j])
      BY <1>0, <3>2, EnqueueFacts DEF SameEntry, NewInPool
    <3> QED
      BY <1>6, <3>1, <3>2 DEF Publish
  <2> QED
    BY <1>6, <2>1 DEF Publish, HoldsLive, Holds, Acting
<1> QED
  BY <1>1, <1>2, <1>3, <1>4, <1>5, <1>6

\* What a publication leaves behind.
LEMMA PublishHandsOver ==
  ASSUME TypeOK, LedgerInv, NEW p \in Procs, NEW l \in Loops, Publish(p, l)
  PROVE  /\ HandedOver(handler[p][l].job)' /\ facts'[handler[p][l].job] # 0
         /\ handler'[p][l].job = handler[p][l].job
         /\ \A k \in Jobs \ {handler[p][l].job} : outcome'[k] = outcome[k] /\ facts'[k] = facts[k]
         /\ \A q \in Procs, m \in Loops : ~(q = p /\ m = l) => handler'[q][m] = handler[q][m]
<1> DEFINE j == handler[p][l].job
<1>0. j \in Jobs /\ jobs \in [Jobs -> Row] /\ Follow[j] \subseteq Jobs
  BY QueueAssumption DEF TypeOK, Handler
<1>1. PICK o \in {"accepted", "rejected"} :
        /\ outcome' = [outcome EXCEPT ![j] = o]
        /\ jobs' = IF o = "accepted" THEN Enqueue(jobs, Follow[j]) ELSE jobs
  BY DEF Publish
<1>2. outcome'[j] = o /\ \A k \in Jobs \ {j} : outcome'[k] = outcome[k]
  BY <1>0, <1>1 DEF TypeOK
<1>3. ASSUME o = "accepted", NEW k \in Follow[j] PROVE jobs'[k].state # "absent"
  <2>1. Pending(jobs[k], 0, TRUE).state = "pending"
    BY <1>0, PendingFacts
  <2> QED
    BY <1>0, <1>1, <1>3, <2>1 DEF Enqueue
<1>4. facts'[j] = handler[p][l].token /\ handler[p][l].token # 0
  BY <1>0 DEF Publish, TypeOK, HoldsLive, Holds, LedgerInv, TokensAreLeases
<1>5. \A k \in Jobs \ {j} : facts'[k] = facts[k]
  BY <1>0 DEF Publish, TypeOK
<1>6. /\ handler'[p][l].job = j
      /\ \A q \in Procs, m \in Loops : ~(q = p /\ m = l) => handler'[q][m] = handler[q][m]
  BY DEF Publish, TypeOK, Handler
<1> QED
  BY <1>2, <1>3, <1>4, <1>5, <1>6 DEF HandedOver

LEMMA LedgerNext == TypeOK /\ LedgerInv /\ [Next]_vars => LedgerInv'
<1> SUFFICES ASSUME TypeOK, LedgerInv, [Next]_vars PROVE LedgerInv'
  OBVIOUS
<1>0. \A p \in Procs, l \in Loops : handler[p][l].job \in Jobs
  BY DEF TypeOK, Handler
<1>1. ASSUME NonePublishes, Returning \/ Offering PROVE LedgerInv'
  BY <1>1, QuietLedger DEF NonePublishes, Returning, Offering
<1>2. ASSUME NonePublishes, NEW j \in Jobs, Taking(j) PROVE LedgerInv'
  <2>1. nextToken # 0
    BY QueueAssumption DEF TypeOK
  <2>2. TokensAreLeases'
    BY <1>2, <2>1 DEF LedgerInv, TokensAreLeases, Taking, SameEntry, BackInPool, NoLease
  <2>3. \A k \in Jobs : /\ jobs'[k].state = "absent" => jobs[k].state = "absent"
                        /\ jobs'[k].state = "done" => jobs[k].state = "done"
    BY <1>2 DEF Taking, SameEntry, BackInPool
  <2>4. \A k \in Jobs : HandedOver(k) => HandedOver(k)'
    BY <1>2, <2>3, QueueAssumption DEF HandedOver, Taking
  <2>5. PublishedIsDurable'
    BY <1>0, <1>2, <2>4 DEF LedgerInv, PublishedIsDurable, NonePublishes, Taking
  <2> QED
    BY <2>2, <2>3, <2>4, <2>5 DEF LedgerInv, DoneHandedOver
<1>3. ASSUME NonePublishes, NEW j \in Jobs, NEW from, NEW to, Moving(j, from, to),
             to \notin {"absent", "leased"}, to = "done" => HandedOver(j)
      PROVE  LedgerInv'
  <2>1. TokensAreLeases'
    BY <1>3 DEF LedgerInv, TokensAreLeases, Moving, SameEntry, NoLease
  <2>2. \A k \in Jobs : jobs'[k].state = "absent" => jobs[k].state = "absent"
    BY <1>3 DEF Moving, SameEntry
  <2>3. \A k \in Jobs : HandedOver(k) => HandedOver(k)'
    BY <1>3, <2>2, QueueAssumption DEF HandedOver, Moving
  <2>4. PublishedIsDurable'
    BY <1>0, <1>3, <2>3 DEF LedgerInv, PublishedIsDurable, NonePublishes, Moving
  <2>5. DoneHandedOver'
    BY <1>3, <2>3 DEF LedgerInv, DoneHandedOver, Moving, SameEntry
  <2> QED
    BY <2>1, <2>4, <2>5 DEF LedgerInv
<1>4. ASSUME NEW p \in Procs, NEW l \in Loops, Publish(p, l) PROVE LedgerInv'
  <2> DEFINE j == handler[p][l].job
  <2>1. j \in Jobs /\ Acting(j)
    BY <1>0, <1>4, HandlerMoves
  <2>2. TokensAreLeases'
    BY <2>1 DEF LedgerInv, TokensAreLeases, Acting, SameEntry, NewInPool, NoLease
  <2>3. \A k \in Jobs : /\ jobs'[k].state = "absent" => jobs[k].state = "absent"
                        /\ jobs'[k].state = "done" => jobs[k].state = "done"
    BY <2>1 DEF Acting, SameEntry, NewInPool
  <2>4. /\ HandedOver(j)' /\ facts'[j] # 0 /\ handler'[p][l].job = j
        /\ \A k \in Jobs \ {j} : outcome'[k] = outcome[k] /\ facts'[k] = facts[k]
        /\ \A q \in Procs, m \in Loops : ~(q = p /\ m = l) => handler'[q][m] = handler[q][m]
    BY <1>4, PublishHandsOver
  <2>5. \A k \in Jobs : HandedOver(k) => HandedOver(k)'
    BY <2>3, <2>4, QueueAssumption DEF HandedOver
  <2>6. PublishedIsDurable'
    BY <1>0, <2>4, <2>5 DEF LedgerInv, PublishedIsDurable
  <2> QED
    BY <2>2, <2>3, <2>5, <2>6 DEF LedgerInv, DoneHandedOver
<1>5. CASE UNCHANGED vars
  BY <1>1, <1>5, SameTable DEF vars, LedgerInv, Returning, NonePublishes
<1>6. ASSUME NEW j \in Jobs,
             EnqueueInitial(j) \/ ExpireLease(j) \/ BackoffElapses(j) \/ RetryDead(j)
      PROVE  LedgerInv'
  BY <1>1, <1>3, <1>6, OfferingStep, ReturningQueueSteps, RetryMoves
<1>7. ASSUME ClearDead \/ \E p \in Procs : Start(p) \/ Boot(p) \/ Stop(p) \/ Exit(p) \/ Crash(p)
      PROVE  LedgerInv'
  BY <1>1, <1>7, ReturningProcessSteps
<1>8. ASSUME NEW p \in Procs, NEW l \in Loops,
             Tick(p, l) \/ Heartbeat(p, l) \/ Publish(p, l) \/ Settle(p, l)
      PROVE  LedgerInv'
  <2>1. CASE Tick(p, l)
    BY <1>1, <1>2, <2>1, TickMoves
  <2>2. CASE Publish(p, l)
    BY <1>4, <2>2
  <2>3. CASE Heartbeat(p, l) \/ Release(p, l) \/ Lost(p, l) \/ Announce(p, l)
    BY <1>1, <2>3, HandlerMoves
  <2>4. CASE Fail(p, l)
    BY <1>0, <1>1, <1>3, <2>4, HandlerMoves
  <2>5. CASE Finish(p, l)
    <3>1. HandedOver(handler[p][l].job)
      BY <2>5 DEF Finish, LedgerInv, PublishedIsDurable
    <3> QED
      BY <1>0, <1>3, <2>5, <3>1, HandlerMoves
  <2> QED
    BY <1>8, <2>1, <2>2, <2>3, <2>4, <2>5 DEF Settle
<1>9. ASSUME NEW j \in Jobs, SessionDone(j) PROVE LedgerInv'
  <2>1. Returning /\ NonePublishes
    BY <1>9, SessionDoneReturns
  <2> QED
    BY <1>1, <2>1
<1> QED
  BY <1>5, <1>6, <1>7, <1>8, <1>9 DEF Next

\* The tokens of the table are its leases, and what a finished handler leaves is
\* durable, with legacy daemons or without.
THEOREM LedgerInvariant == Spec => []LedgerInv
<1>1. Init => LedgerInv
  BY LedgerInit
<1>2. TypeOK /\ LedgerInv /\ [Next]_vars => LedgerInv'
  BY LedgerNext
<1> QED
  BY <1>1, <1>2, TypeCorrect, PTL DEF Spec

\* Whatever crashed in between, a done job has decided its input and handed over.
THEOREM NothingLostAtHandOver == Spec => []DoneHandedOver
<1>1. LedgerInv => DoneHandedOver
  BY DEF LedgerInv
<1> QED
  BY <1>1, LedgerInvariant, PTL

-----------------------------------------------------------------------------
(* Each move of the table is a step of FencedWork. *)

LEMMA StatusValues ==
  /\ StatusOf("absent") = "none"
  /\ StatusOf("pending") = "waiting"
  /\ StatusOf("leased") = "held"
  /\ StatusOf("done") = "settled"
  /\ StatusOf("dead") = "given up"
BY DEF StatusOf

LEMMA ReturningRefines == ASSUME Returning PROVE Ledger!Next
<1>1. PICK K \in SUBSET Jobs :
        /\ \A j \in K : jobs[j].state = "leased" /\ jobs'[j].state = "pending"
                       /\ jobs'[j].lease.token = 0
        /\ \A j \in Jobs \ K : jobs'[j].state = jobs[j].state
                              /\ jobs'[j].lease.token = jobs[j].lease.token
  <2> WITNESS {j \in Jobs : BackInPool(j)} \in SUBSET Jobs
  <2> QED
    BY DEF Returning, SameEntry, BackInPool, NoLease
<1>2. Ledger!Return(K)
  BY <1>1, StatusValues DEF Ledger!Return, Ledger!Held, Returning
<1> QED
  BY <1>2 DEF Ledger!Next

LEMMA OfferingRefines == ASSUME TokensAreLeases, Offering PROVE Ledger!Next
<1> DEFINE K == {j \in Jobs : NewInPool(j)}
<1>1. /\ K \in SUBSET Jobs
      /\ \A j \in K : jobs[j].state = "absent" /\ jobs'[j].state = "pending"
      /\ \A j \in Jobs \ K : jobs'[j].state = jobs[j].state
      /\ \A j \in Jobs : jobs'[j].lease.token = jobs[j].lease.token
  BY DEF Offering, SameEntry, NewInPool, TokensAreLeases
<1> HIDE DEF K
<1>2. Ledger!Offer(K)
  BY <1>1, StatusValues DEF Ledger!Offer, Offering
<1> QED
  BY <1>1, <1>2 DEF Ledger!Next

LEMMA TakingRefines == ASSUME NEW j \in Jobs, Taking(j) PROVE Ledger!Next
<1>1. PICK K \in SUBSET Jobs :
        /\ \A k \in K : jobs[k].state = "leased"
        /\ jobs[j].state = "pending" \/ j \in K
        /\ jobs'[j].state = "leased" /\ jobs'[j].lease.token = nextToken
        /\ \A k \in K \ {j} : jobs'[k].state = "pending" /\ jobs'[k].lease.token = 0
        /\ \A k \in (Jobs \ K) \ {j} : jobs'[k].state = jobs[k].state
                                     /\ jobs'[k].lease.token = jobs[k].lease.token
  <2> WITNESS {k \in Jobs : IF k = j THEN jobs[k].state = "leased" ELSE BackInPool(k)}
        \in SUBSET Jobs
  <2> QED
    BY DEF Taking, SameEntry, BackInPool, NoLease
<1>2. Ledger!Take(j, K)
  BY <1>1, StatusValues DEF Ledger!Take, Ledger!Held, Taking
<1> QED
  BY <1>2 DEF Ledger!Next

LEMMA ActingRefines ==
  ASSUME TokensAreLeases, NEW j \in Jobs, Acting(j)
  PROVE  Ledger!Next
<1> DEFINE K == {k \in Jobs : NewInPool(k)}
<1>1. /\ K \in SUBSET Jobs
      /\ \A k \in K : jobs[k].state = "absent" /\ jobs'[k].state = "pending"
      /\ \A k \in Jobs \ K : jobs'[k].state = jobs[k].state
      /\ \A k \in Jobs : jobs'[k].lease.token = jobs[k].lease.token
  BY DEF Acting, SameEntry, NewInPool, TokensAreLeases
<1> HIDE DEF K
<1>2. Ledger!Act(j, K)
  BY <1>1, StatusValues DEF Ledger!Act, Ledger!Held, Acting
<1> QED
  BY <1>1, <1>2 DEF Ledger!Next

LEMMA MovingRefines ==
  ASSUME TypeOK, TokensAreLeases, NEW j \in Jobs,
         \/ Moving(j, "dead", "pending")
         \/ Moving(j, "leased", "dead")
         \/ Moving(j, "leased", "done") /\ facts[j] # 0
  PROVE  Ledger!Next
<1>1. ASSUME NEW from, NEW to, Moving(j, from, to)
      PROVE  /\ [k \in Jobs |-> StatusOf(jobs'[k].state)]
                   = [[k \in Jobs |-> StatusOf(jobs[k].state)] EXCEPT ![j] = StatusOf(to)]
             /\ [k \in Jobs |-> jobs'[k].lease.token]
                   = [[k \in Jobs |-> jobs[k].lease.token] EXCEPT ![j] = 0]
             /\ jobs[j].state = from
             /\ UNCHANGED <<facts, nextToken>>
  <2>1. \A k \in Jobs :
          /\ jobs'[k].state = IF k = j THEN to ELSE jobs[k].state
          /\ jobs'[k].lease.token = IF k = j THEN 0 ELSE jobs[k].lease.token
    BY <1>1 DEF Moving, SameEntry, NoLease
  <2>2. [k \in Jobs |-> StatusOf(jobs'[k].state)]
          = [[k \in Jobs |-> StatusOf(jobs[k].state)] EXCEPT ![j] = StatusOf(to)]
    BY <2>1
  <2>3. [k \in Jobs |-> jobs'[k].lease.token]
          = [[k \in Jobs |-> jobs[k].lease.token] EXCEPT ![j] = 0]
    BY <2>1
  <2> QED
    BY <1>1, <2>2, <2>3 DEF Moving
<1>2. CASE Moving(j, "dead", "pending")
  <2>1. Ledger!Reopen(j)
    <3>1. [k \in Jobs |-> jobs'[k].lease.token] = [k \in Jobs |-> jobs[k].lease.token]
      BY <1>2 DEF Moving, SameEntry, TokensAreLeases, NoLease
    <3>2. jobs[j].state = "dead" /\ UNCHANGED <<facts, nextToken>>
      BY <1>2 DEF Moving
    <3>3. [k \in Jobs |-> StatusOf(jobs'[k].state)]
            = [[k \in Jobs |-> StatusOf(jobs[k].state)] EXCEPT ![j] = "waiting"]
      <4>1. StatusOf("pending") = "waiting"
        BY StatusValues
      <4>2. Moving(j, "dead", "pending")
        BY <1>2
      <4> QED
        BY <1>1, <4>1, <4>2
    <3> QED
      BY <3>1, <3>2, <3>3, StatusValues DEF Ledger!Reopen
  <2> QED
    BY <2>1 DEF Ledger!Next
<1>3. CASE Moving(j, "leased", "dead")
  <2>0. Moving(j, "leased", "dead")
    BY <1>3
  <2>1. Ledger!GiveUp(j)
    <3>1. [k \in Jobs |-> StatusOf(jobs'[k].state)]
            = [[k \in Jobs |-> StatusOf(jobs[k].state)] EXCEPT ![j] = "given up"]
      <4>1. StatusOf("dead") = "given up"
        BY StatusValues
      <4> QED
        BY <1>1, <2>0, <4>1
    <3>2. [k \in Jobs |-> jobs'[k].lease.token]
            = [[k \in Jobs |-> jobs[k].lease.token] EXCEPT ![j] = 0]
      BY <1>1, <2>0
    <3>3. jobs[j].state = "leased" /\ UNCHANGED <<facts, nextToken>>
      BY <2>0 DEF Moving
    <3> QED
      BY <3>1, <3>2, <3>3, StatusValues DEF Ledger!GiveUp, Ledger!Leave, Ledger!Held
  <2> QED
    BY <2>1 DEF Ledger!Next
<1>4. CASE Moving(j, "leased", "done") /\ facts[j] # 0
  <2>0. Moving(j, "leased", "done") /\ facts[j] # 0
    BY <1>4
  <2>1. Ledger!Leave(j, "settled")
    <3>0. [k \in Jobs |-> StatusOf(jobs'[k].state)]
            = [[k \in Jobs |-> StatusOf(jobs[k].state)] EXCEPT ![j] = "settled"]
      <4>1. StatusOf("done") = "settled"
        BY StatusValues
      <4> QED
        BY <1>1, <2>0, <4>1
    <3>1. [k \in Jobs |-> jobs'[k].lease.token]
            = [[k \in Jobs |-> jobs[k].lease.token] EXCEPT ![j] = 0]
      BY <1>1, <2>0
    <3>2. jobs[j].state = "leased" /\ UNCHANGED <<facts, nextToken>>
      BY <2>0 DEF Moving
    <3> QED
      BY <3>0, <3>1, <3>2, StatusValues DEF Ledger!Leave, Ledger!Held
  <2>2. Ledger!Complete(j)
    BY <2>0, <2>1 DEF Ledger!Complete
  <2> QED
    BY <2>2 DEF Ledger!Next
<1> QED
  BY <1>2, <1>3, <1>4

LEMMA LedgerInitRefines == Init => Ledger!Init
<1> SUFFICES ASSUME Init PROVE Ledger!Init
  OBVIOUS
<1>1. \A j \in Jobs : jobs[j].state = "absent" /\ jobs[j].lease.token = 0
  BY DEF Init, NoLease
<1> QED
  BY <1>1, StatusValues DEF Init, Ledger!Init

LEMMA StepRefines ==
  TypeOK /\ LedgerInv /\ [Next]_vars => [Ledger!Next]_Ledger!fwvars
<1> SUFFICES ASSUME TypeOK, LedgerInv, [Next]_vars
             PROVE  Ledger!Next \/ UNCHANGED Ledger!fwvars
  OBVIOUS
<1>0. TokensAreLeases /\ \A p \in Procs, l \in Loops : handler[p][l].job \in Jobs
  BY DEF TypeOK, Handler, LedgerInv
<1>1. CASE UNCHANGED vars
  BY <1>1 DEF vars, Ledger!fwvars
<1>2. ASSUME NEW j \in Jobs,
             EnqueueInitial(j) \/ ExpireLease(j) \/ BackoffElapses(j) \/ RetryDead(j)
      PROVE  Ledger!Next
  BY <1>0, <1>2, OfferingStep, ReturningQueueSteps, RetryMoves,
     OfferingRefines, ReturningRefines, MovingRefines
<1>3. ASSUME ClearDead \/ \E p \in Procs : Start(p) \/ Boot(p) \/ Stop(p) \/ Exit(p) \/ Crash(p)
      PROVE  Ledger!Next
  BY <1>3, ReturningProcessSteps, ReturningRefines
<1>4. ASSUME NEW p \in Procs, NEW l \in Loops,
             Tick(p, l) \/ Heartbeat(p, l) \/ Publish(p, l) \/ Settle(p, l)
      PROVE  Ledger!Next
  <2>1. CASE Tick(p, l)
    BY <2>1, TickMoves, ReturningRefines, TakingRefines
  <2>2. CASE Publish(p, l)
    BY <1>0, <2>2, HandlerMoves, ActingRefines
  <2>3. CASE Heartbeat(p, l) \/ Release(p, l) \/ Lost(p, l) \/ Announce(p, l)
    BY <2>3, HandlerMoves, ReturningRefines
  <2>4. CASE Fail(p, l)
    BY <1>0, <2>4, HandlerMoves, ReturningRefines, MovingRefines
  <2>5. CASE Finish(p, l)
    <3>1. facts[handler[p][l].job] # 0
      BY <2>5 DEF Finish, LedgerInv, PublishedIsDurable
    <3> QED
      BY <1>0, <2>5, <3>1, HandlerMoves, MovingRefines
  <2> QED
    BY <1>4, <2>1, <2>2, <2>3, <2>4, <2>5 DEF Settle
<1>5. ASSUME NEW j \in Jobs, SessionDone(j) PROVE Ledger!Next
  BY <1>5, SessionDoneReturns, ReturningRefines
<1> QED
  BY <1>1, <1>2, <1>3, <1>4, <1>5 DEF Next

\* The queue implements the ledger: with every crash, expiry, renewal and legacy
\* daemon, its table moves only as FencedWork allows.
THEOREM QueueImplementsLedger == Spec => ImplementsFencedWork
<1>1. Init => Ledger!Init
  BY LedgerInitRefines
<1>2. TypeOK /\ LedgerInv /\ [Next]_vars => [Ledger!Next]_Ledger!fwvars
  BY StepRefines
<1> QED
  BY <1>1, <1>2, TypeCorrect, LedgerInvariant, PTL DEF Spec, ImplementsFencedWork, Ledger!Spec

\* Claims and attempts add up in every reachable state.
THEOREM QueueInvariant == Spec => []QueueInv
<1>1. TypeOK /\ DaemonInv /\ LeaseIsNewest /\ LedgerInv /\ RunningHandlerOwnsRow
        /\ BudgetAccounted /\ DeadAfterMaxCharges => QueueInv
  BY DEF QueueInv, LedgerInv
<1> QED
  BY <1>1, TypeCorrect, OneDaemonInvariant, LedgerInvariant, LeaseCarriesNewestClaim, NoSelfReclaim,
     AttemptsAreCharged, DeadIsDeserved, PTL
=============================================================================
