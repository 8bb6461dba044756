---------------------------- MODULE OutboxProofs ----------------------------
(***************************************************************************)
(* Theorems about Outbox for every set of rows, keys and processes, every  *)
(* retry budget and any number of faults.                                  *)
(***************************************************************************)
EXTENDS Outbox, TLAPS

-----------------------------------------------------------------------------
(* The operators a step is built from, one lemma each. *)

LEMMA IdleType == Idle \in Sender
BY OutboxAssumption DEF Idle, Sender

LEMMA ToType ==
  ASSUME TypeOK, NEW p \in Procs, NEW phase \in {"idle", "next"}, To(p, phase)
  PROVE  sender' \in [Procs -> Sender]
BY IdleType DEF To, TypeOK, Sender

LEMMA RowType ==
  ASSUME TypeOK, NEW p \in Procs
  PROVE  /\ sender[p].row \in Rows
         /\ outbox[sender[p].row] \in Row
         /\ outbox[sender[p].row].attempts \in Nat
BY DEF TypeOK, Sender, Row

\* Defer only disturbs the row of a fenced sender.
LEMMA DeferFacts ==
  ASSUME TypeOK, NEW p \in Procs, Defer(p)
  PROVE  /\ outbox' \in [Rows -> Row]
         /\ \A r \in Rows : r # sender[p].row \/ ~Fenced(p) => outbox'[r] = outbox[r]
         /\ Fenced(p) => /\ outbox'[sender[p].row].state = "pending"
                         /\ outbox'[sender[p].row].attempts = Refund(outbox[sender[p].row].attempts)
                         /\ outbox'[sender[p].row].gen = outbox[sender[p].row].gen
<1>1. Refund(outbox[sender[p].row].attempts) \in Nat
  BY RowType DEF Refund
<1>0. outbox \in [Rows -> Row] /\ sender[p].row \in Rows
  BY RowType DEF TypeOK
<1> DEFINE new == [outbox[sender[p].row] EXCEPT !.state = "pending", !.attempts = Refund(@), !.ready = FALSE]
<1>2. CASE Fenced(p)
  <2>1. outbox' = [outbox EXCEPT ![sender[p].row] = new]
    BY <1>2 DEF Defer
  <2>2. /\ new \in Row /\ new.state = "pending" /\ new.gen = outbox[sender[p].row].gen
        /\ new.attempts = Refund(outbox[sender[p].row].attempts)
    BY <1>1, RowType DEF Row
  <2> QED
    BY <1>0, <1>2, <2>1, <2>2
<1>3. CASE ~Fenced(p)
  BY <1>0, <1>3 DEF Defer
<1> QED
  BY <1>2, <1>3

\* So does MarkFailed, which charges the attempt it leaves spent.
LEMMA MarkFailedFacts ==
  ASSUME TypeOK, NEW p \in Procs, NEW n \in Nat, MarkFailed(p, n)
  PROVE  /\ outbox' \in [Rows -> Row]
         /\ charged' \in [Rows -> Nat]
         /\ \A r \in Rows : r # sender[p].row \/ ~Fenced(p) =>
              outbox'[r] = outbox[r] /\ charged'[r] = charged[r]
         /\ Fenced(p) =>
              /\ outbox'[sender[p].row].state = IF n >= MaxAttempts THEN "dead" ELSE "pending"
              /\ outbox'[sender[p].row].attempts = outbox[sender[p].row].attempts
              /\ outbox'[sender[p].row].gen = outbox[sender[p].row].gen
              /\ charged'[sender[p].row] = charged[sender[p].row] + 1
<1>1. /\ outbox \in [Rows -> Row] /\ sender[p].row \in Rows
      /\ charged \in [Rows -> Nat] /\ (n >= MaxAttempts) \in BOOLEAN
  BY RowType, OutboxAssumption DEF TypeOK
<1>2. CASE Fenced(p)
  <2> DEFINE state == IF n >= MaxAttempts THEN "dead" ELSE "pending"
             new == [outbox[sender[p].row] EXCEPT !.state = state, !.ready = n >= MaxAttempts]
  <2>1. outbox' = [outbox EXCEPT ![sender[p].row] = new]
    BY <1>2 DEF MarkFailed
  <2>2. charged' = [charged EXCEPT ![sender[p].row] = @ + 1]
    BY <1>2 DEF MarkFailed
  <2>3. /\ new \in Row /\ new.state = state /\ new.attempts = outbox[sender[p].row].attempts
        /\ new.gen = outbox[sender[p].row].gen
    BY <1>1, RowType DEF Row
  <2> HIDE DEF new
  <2> QED
    BY <1>1, <1>2, <2>1, <2>2, <2>3
<1>3. CASE ~Fenced(p)
  BY <1>1, <1>3 DEF MarkFailed
<1> QED
  BY <1>2, <1>3

LEMMA LoseAckFacts ==
  ASSUME TypeOK, NEW p \in Procs, LoseAck(p)
  PROVE  /\ unacked' \in [Rows -> Nat]
         /\ \A r \in Rows : unacked'[r] =
              unacked[r] + (IF r = sender[p].row /\ sender[p].phase = "accepted" /\ sender[p].fresh
                              THEN 1 ELSE 0)
BY RowType DEF LoseAck, TypeOK

-----------------------------------------------------------------------------
(* Type correctness *)

LEMMA TypeInit == Init => TypeOK
<1> SUFFICES ASSUME Init PROVE TypeOK
  OBVIOUS
<1>1. outbox \in [Rows -> Row]
  BY DEF Init, Row
<1>2. sender \in [Procs -> Sender]
  BY IdleType DEF Init
<1>3. chat \in Seq(Rows \cup {0})
  BY DEF Init
<1> QED
  BY <1>1, <1>2, <1>3 DEF Init, TypeOK

LEMMA TypeRows ==
  ASSUME TypeOK, NEW r \in Rows,
         Enqueue(r) \/ Supersede(r) \/ BackoffElapses(r) \/ RetryDead(r) \/ Reconcile(r)
  PROVE  TypeOK'
<1>0. outbox[r] \in Row
  BY DEF TypeOK
<1>1. CASE Enqueue(r) \/ Supersede(r) \/ BackoffElapses(r)
  <2>0. outbox \in [Rows -> Row]
    BY DEF TypeOK
  <2>1. outbox' \in [Rows -> Row]
    <3>1. CASE Enqueue(r)
      BY <1>0, <2>0, <3>1 DEF Enqueue, Row
    <3>2. CASE Supersede(r)
      BY <1>0, <2>0, <3>2 DEF Supersede, Row
    <3>3. CASE BackoffElapses(r)
      BY <1>0, <2>0, <3>3 DEF BackoffElapses, Row
    <3> QED
      BY <1>1, <3>1, <3>2, <3>3
  <2> QED
    BY <1>1, <2>1 DEF Enqueue, Supersede, BackoffElapses, TypeOK, history
<1>2. CASE RetryDead(r)
  <2>1. faults' \in Nat
    BY <1>2 DEF RetryDead, Fault, TypeOK
  <2>2. outbox' \in [Rows -> Row]
    BY <1>0, <1>2 DEF RetryDead, TypeOK, Row
  <2> QED
    BY <1>2, <2>1, <2>2 DEF RetryDead, TypeOK
<1>3. CASE Reconcile(r)
  <2>1. outbox[r].attempts - 1 \in Nat
    BY <1>0, <1>3 DEF Reconcile, Reconcilable, Row
  <2>2. outbox' \in [Rows -> Row]
    BY <1>0, <1>3 DEF Reconcile, TypeOK, Row
  <2> QED
    BY <1>3, <2>1, <2>2 DEF Reconcile, TypeOK
<1> QED
  BY <1>1, <1>2, <1>3

\* Startup returns a row in flight or retires it, and spends its attempt.
LEMMA BootRows ==
  ASSUME TypeOK, NEW p \in Procs, Boot(p)
  PROVE  /\ outbox' \in [Rows -> Row]
         /\ \A r \in Rows :
              /\ outbox'[r].attempts = outbox[r].attempts
              /\ outbox'[r].gen = outbox[r].gen
              /\ outbox'[r].state = "sending" => FALSE
              /\ outbox[r].state \in {"absent", "sent", "failed", "dead"} =>
                   outbox'[r].state = outbox[r].state
              /\ outbox'[r].state = "absent" => outbox[r].state = "absent"
              /\ outbox'[r].state \in {"sent", "dead"} => outbox[r].state = outbox'[r].state
<1> DEFINE back == RecoverSending(outbox)
<1>1. ASSUME NEW row \in Row, NEW s \in {"pending", "failed"}
      PROVE  LET new == [row EXCEPT !.state = s]
             IN  new \in Row /\ new.state = s /\ new.attempts = row.attempts /\ new.gen = row.gen
  BY ONLY <1>1 DEF Row
<1>2. outbox \in [Rows -> Row]
  BY DEF TypeOK
<1>3. \A r \in Rows : back[r] = IF outbox[r].state = "sending"
                               THEN [outbox[r] EXCEPT !.state = "pending"] ELSE outbox[r]
  BY DEF RecoverSending
<1>4. \A r \in Rows : /\ back[r] \in Row /\ back[r].attempts = outbox[r].attempts /\ back[r].gen = outbox[r].gen
                      /\ \/ back[r] = outbox[r] /\ outbox[r].state # "sending"
                         \/ back[r].state = "pending" /\ outbox[r].state = "sending"
  <2> SUFFICES ASSUME NEW r \in Rows
               PROVE  /\ back[r] \in Row /\ back[r].attempts = outbox[r].attempts /\ back[r].gen = outbox[r].gen
                      /\ \/ back[r] = outbox[r] /\ outbox[r].state # "sending"
                         \/ back[r].state = "pending" /\ outbox[r].state = "sending"
    OBVIOUS
  <2>1. outbox[r] \in Row
    BY <1>2
  <2>2. CASE outbox[r].state = "sending"
    <3>1. back[r] = [outbox[r] EXCEPT !.state = "pending"]
      BY <1>3, <2>2
    <3> QED
      BY <1>1, <2>1, <2>2, <3>1
  <2>3. CASE outbox[r].state # "sending"
    <3>1. back[r] = outbox[r]
      BY <1>3, <2>3
    <3> QED
      BY <2>1, <2>3, <3>1
  <2> QED
    BY <2>2, <2>3
<1> HIDE DEF back
<1>5. outbox' = [r \in Rows |-> IF r \in Notices /\ back[r].state \in {"pending", "sending"}
                               THEN [back[r] EXCEPT !.state = "failed"] ELSE back[r]]
  BY DEF Boot, RetireStaleNotices, back
<1>6. \A r \in Rows : /\ outbox'[r] \in Row /\ outbox'[r].attempts = back[r].attempts /\ outbox'[r].gen = back[r].gen
                      /\ \/ outbox'[r] = back[r]
                         \/ outbox'[r].state = "failed" /\ back[r].state \in {"pending", "sending"}
  <2> SUFFICES ASSUME NEW r \in Rows
               PROVE  /\ outbox'[r] \in Row /\ outbox'[r].attempts = back[r].attempts /\ outbox'[r].gen = back[r].gen
                      /\ \/ outbox'[r] = back[r]
                         \/ outbox'[r].state = "failed" /\ back[r].state \in {"pending", "sending"}
    OBVIOUS
  <2>1. back[r] \in Row
    BY <1>4
  <2>2. CASE r \in Notices /\ back[r].state \in {"pending", "sending"}
    <3>1. outbox'[r] = [back[r] EXCEPT !.state = "failed"]
      BY <1>5, <2>2
    <3> QED
      BY <1>1, <2>1, <2>2, <3>1
  <2>3. CASE ~(r \in Notices /\ back[r].state \in {"pending", "sending"})
    <3>1. outbox'[r] = back[r]
      BY <1>5, <2>3
    <3> QED
      BY <2>1, <3>1
  <2> QED
    BY <2>2, <2>3
<1>7. outbox' \in [Rows -> Row]
  BY <1>5, <1>6
<1> QED
  BY <1>4, <1>6, <1>7

LEMMA TypeProcess ==
  ASSUME TypeOK, NEW p \in Procs,
         PauseElapses(p) \/ Boot(p) \/ Close(p) \/ Exit(p) \/ Crash(p)
  PROVE  TypeOK'
<1>1. CASE PauseElapses(p) \/ Exit(p)
  BY <1>1 DEF PauseElapses, Exit, TypeOK, table, history
<1>2. CASE Boot(p)
  <2>1. outbox' \in [Rows -> Row]
    BY <1>2, BootRows
  <2>2. charged' \in [Rows -> Nat]
    BY <1>2 DEF Boot, TypeOK
  <2> QED
    BY <1>2, <2>1, <2>2 DEF Boot, TypeOK
<1>3. CASE Close(p)
  BY <1>3 DEF Close, Fault, TypeOK, table, history
<1>4. CASE Crash(p)
  <2>1. faults' \in Nat
    BY <1>4 DEF Crash, Fault, TypeOK
  <2>2. sender' \in [Procs -> Sender]
    BY <1>4, ToType DEF Crash
  <2>3. unacked' \in [Rows -> Nat]
    BY <1>4, LoseAckFacts DEF Crash
  <2> QED
    BY <1>4, <2>1, <2>2, <2>3 DEF Crash, TypeOK, table
<1> QED
  BY <1>1, <1>2, <1>3, <1>4

LEMMA TypeClaim ==
  ASSUME TypeOK, NEW p \in Procs, Claim(p)
  PROVE  TypeOK'
<1>1. PICK r \in Rows :
         /\ outbox' = [outbox EXCEPT ![r].state = "sending", ![r].attempts = @ + 1, ![r].gen = @ + 1]
         /\ sender' = [sender EXCEPT ![p] =
              [phase |-> IF proc[p] = "up" THEN "calling" ELSE "aborted",
               row |-> r, gen |-> outbox[r].gen + 1,
               message |-> IF Key[r] = 0 THEN 0 ELSE message[Key[r]], fresh |-> FALSE]]
  BY DEF Claim
<1>2. outbox \in [Rows -> Row] /\ sender \in [Procs -> Sender]
  BY DEF TypeOK
<1>3. outbox' \in [Rows -> Row]
  BY <1>1, <1>2 DEF Row
<1>4. (IF Key[r] = 0 THEN 0 ELSE message[Key[r]]) \in Nat
  BY DEF TypeOK, Keys
<1>5. sender' \in [Procs -> Sender]
  <2>1. [phase |-> IF proc[p] = "up" THEN "calling" ELSE "aborted",
         row |-> r, gen |-> outbox[r].gen + 1,
         message |-> IF Key[r] = 0 THEN 0 ELSE message[Key[r]], fresh |-> FALSE] \in Sender
    BY <1>2, <1>4 DEF Sender, Row
  <2> QED
    BY <1>1, <1>2, <2>1
<1> QED
  BY <1>3, <1>5 DEF Claim, TypeOK, history

LEMMA AcceptedType ==
  ASSUME NEW senders \in [Procs -> Sender], NEW p \in Procs, NEW m \in Nat
  PROVE  [senders EXCEPT ![p].phase = "accepted", ![p].fresh = TRUE, ![p].message = m]
           \in [Procs -> Sender]
<1>1. senders[p] \in Sender
  OBVIOUS
<1> QED
  BY <1>1 DEF Sender

LEMMA TypeAccept ==
  ASSUME TypeOK, NEW p \in Procs, Accept(p)
  PROVE  TypeOK'
<1>0. /\ sender \in [Procs -> Sender] /\ sender[p] \in Sender /\ sender[p].row \in Rows
      /\ Len(chat) \in Nat
  BY DEF TypeOK, Sender
<1>1. CASE /\ chat' = Append(chat, sender[p].row)
           /\ sender' = [sender EXCEPT ![p].phase = "accepted", ![p].fresh = TRUE,
                                       ![p].message = Len(chat) + 1]
           /\ copies' = [copies EXCEPT ![sender[p].row] = @ + 1]
  <2>1. chat' \in Seq(Rows \cup {0})
    BY <1>0, <1>1 DEF TypeOK
  <2>2. sender' \in [Procs -> Sender]
    <3>1. Len(chat) + 1 \in Nat
      BY <1>0
    <3> QED
      BY <1>0, <1>1, <3>1, AcceptedType
  <2>3. copies' \in [Rows -> Nat]
    BY <1>0, <1>1 DEF TypeOK
  <2> QED
    BY <2>1, <2>2, <2>3 DEF Accept, TypeOK, table
<1>2. CASE /\ chat[sender[p].message] # 0
           /\ chat' = [chat EXCEPT ![sender[p].message] = sender[p].row]
           /\ sender' = [sender EXCEPT ![p].phase = "accepted"]
           /\ UNCHANGED copies
  <2>1. chat' \in Seq(Rows \cup {0})
    <3>0. chat \in Seq(Rows \cup {0})
      BY DEF TypeOK
    <3>1. CASE sender[p].message \in DOMAIN chat
      BY <1>0, <1>2, <3>0, <3>1
    <3>2. CASE sender[p].message \notin DOMAIN chat
      <4>1. chat' = chat
        BY <1>2, <3>0, <3>2
      <4> QED
        BY <3>0, <4>1
    <3> QED
      BY <3>1, <3>2
  <2>2. sender' \in [Procs -> Sender]
    BY <1>0, <1>2 DEF Sender
  <2> QED
    BY <1>2, <2>1, <2>2 DEF Accept, TypeOK, table
<1> QED
  BY <1>1, <1>2 DEF Accept

LEMMA TypeSettle ==
  ASSUME TypeOK, NEW p \in Procs, Settle(p)
  PROVE  TypeOK'
<1>0. sender[p] \in Sender /\ sender[p].message \in Nat
  BY DEF TypeOK, Sender
<1>1. CASE Ack(p)
  <2>1. sender' \in [Procs -> Sender]
    BY <1>1, ToType DEF Ack
  <2>2. CASE UNCHANGED table /\ LoseAck(p)
    BY <1>1, <2>1, <2>2, LoseAckFacts DEF Ack, TypeOK, table
  <2>3. CASE /\ outbox' = [outbox EXCEPT ![sender[p].row].state = "sent"]
             /\ message' = [k \in Keys |-> IF k = Key[sender[p].row] THEN sender[p].message ELSE message[k]]
             /\ UNCHANGED unacked
    <3>1. outbox' \in [Rows -> Row]
      BY <2>3, RowType DEF TypeOK, Row
    <3>2. message' \in [Keys -> Nat]
      BY <1>0, <2>3 DEF TypeOK
    <3> QED
      BY <1>1, <2>1, <2>3, <3>1, <3>2 DEF Ack, TypeOK
  <2> QED
    BY <1>1, <2>2, <2>3 DEF Ack
<1>2. CASE Interrupted(p)
  <2>1. sender' \in [Procs -> Sender]
    BY <1>2, ToType DEF Interrupted
  <2>2. outbox' \in [Rows -> Row] /\ unacked' \in [Rows -> Nat]
    BY <1>2, DeferFacts, LoseAckFacts DEF Interrupted
  <2>3. faults' \in Nat
    BY <1>2 DEF Interrupted, Fault, TypeOK
  <2>4. paused' \in [Procs -> BOOLEAN]
    BY <1>2 DEF Interrupted, TypeOK, Fenced
  <2> QED
    BY <1>2, <2>1, <2>2, <2>3, <2>4 DEF Interrupted, TypeOK
<1>3. CASE RateLimited(p)
  <2>1. sender' \in [Procs -> Sender]
    BY <1>3, ToType DEF RateLimited
  <2>2. outbox' \in [Rows -> Row]
    BY <1>3, DeferFacts DEF RateLimited
  <2>3. faults' \in Nat
    BY <1>3 DEF RateLimited, Fault, TypeOK
  <2>4. paused' \in [Procs -> BOOLEAN]
    BY <1>3 DEF RateLimited, TypeOK, Fenced
  <2> QED
    BY <1>3, <2>1, <2>2, <2>3, <2>4 DEF RateLimited, TypeOK, history
<1>4. CASE Failed(p)
  <2>1. sender' \in [Procs -> Sender]
    BY <1>4, ToType DEF Failed
  <2>2. outbox' \in [Rows -> Row] /\ charged' \in [Rows -> Nat] /\ unacked' \in [Rows -> Nat]
    BY <1>4, RowType, MarkFailedFacts, LoseAckFacts DEF Failed
  <2>3. paused' \in [Procs -> BOOLEAN]
    BY <1>4 DEF Failed, TypeOK, Fenced
  <2> QED
    BY <1>4, <2>1, <2>2, <2>3 DEF Failed, TypeOK
<1>5. CASE Rejected(p)
  <2>1. sender' \in [Procs -> Sender]
    BY <1>5, ToType DEF Rejected
  <2>2. outbox' \in [Rows -> Row] /\ charged' \in [Rows -> Nat] /\ unacked' \in [Rows -> Nat]
    BY <1>5, OutboxAssumption, MarkFailedFacts, LoseAckFacts DEF Rejected
  <2>3. refused' \in [Rows -> BOOLEAN]
    BY <1>5 DEF Rejected, TypeOK, Fenced
  <2> QED
    BY <1>5, <2>1, <2>2, <2>3 DEF Rejected, TypeOK
<1> QED
  BY <1>1, <1>2, <1>3, <1>4, <1>5 DEF Settle

LEMMA TypeStep ==
  ASSUME TypeOK, [Next]_vars
  PROVE  TypeOK'
<1>1. CASE UNCHANGED vars
  BY <1>1 DEF vars, table, history, TypeOK
<1>2. CASE \E r \in Rows : \/ Enqueue(r) \/ Supersede(r) \/ BackoffElapses(r)
                           \/ RetryDead(r) \/ Reconcile(r)
  BY <1>2, TypeRows
<1>3. ASSUME NEW p \in Procs,
             PauseElapses(p) \/ Boot(p) \/ Close(p) \/ Exit(p) \/ Crash(p)
      PROVE  TypeOK'
  BY <1>3, TypeProcess
<1>4. ASSUME NEW p \in Procs, Claim(p) \/ Accept(p) \/ Settle(p)
      PROVE  TypeOK'
  BY <1>4, TypeClaim, TypeAccept, TypeSettle
<1>5. ASSUME NEW p \in Procs, Drained(p)
      PROVE  TypeOK'
  <2>1. sender' \in [Procs -> Sender]
    BY <1>5, ToType DEF Drained
  <2> QED
    BY <1>5, <2>1 DEF Drained, TypeOK, table, history
<1>6. ASSUME NEW p \in Procs, EditGone(p)
      PROVE  TypeOK'
  <2>1. sender' \in [Procs -> Sender]
    <3>1. sender' = [sender EXCEPT ![p] = [sender[p] EXCEPT !.message = 0]]
      BY <1>6 DEF EditGone
    <3>2. [sender[p] EXCEPT !.message = 0] \in Sender /\ sender \in [Procs -> Sender]
      BY DEF TypeOK, Sender
    <3> QED
      BY <3>1, <3>2
  <2> QED
    BY <1>6, <2>1 DEF EditGone, TypeOK, table, history
<1>7. ASSUME NEW m \in DOMAIN chat, Delete(m)
      PROVE  TypeOK'
  <2>1. faults' \in Nat
    BY <1>7 DEF Delete, Fault, TypeOK
  <2>2. chat' \in Seq(Rows \cup {0})
    BY <1>7 DEF Delete, TypeOK
  <2> QED
    BY <1>7, <2>1, <2>2 DEF Delete, TypeOK, table, history
<1> QED
  BY <1>1, <1>2, <1>3, <1>4, <1>5, <1>6, <1>7 DEF Next

\* Every reachable state has the types TypeOK gives.
THEOREM TypeCorrect == Spec => []TypeOK
<1>1. Init => TypeOK
  BY TypeInit
<1>2. TypeOK /\ [Next]_vars => TypeOK'
  BY TypeStep
<1> QED
  BY <1>1, <1>2, PTL DEF Spec

-----------------------------------------------------------------------------
(* The retry budget.  Both parts speak of one row at a time, and a step moves *)
(* attempts, state and the charges of a row together.                         *)

Budget == TypeOK /\ AttemptsAccounted /\ DeadIsDeserved

LEMMA BudgetInit == Init => Budget
BY TypeInit DEF Init, Budget, AttemptsAccounted, DeadIsDeserved

\* A row whose state, attempts, charges and refusal do not change stays accounted.
Frame(r) ==
    /\ outbox'[r].state = outbox[r].state
    /\ outbox'[r].attempts = outbox[r].attempts
    /\ charged'[r] = charged[r]
    /\ refused'[r] = refused[r]

LEMMA FrameAll ==
  ASSUME Budget, \A r \in Rows : Frame(r)
  PROVE  AttemptsAccounted' /\ DeadIsDeserved'
BY DEF Budget, AttemptsAccounted, DeadIsDeserved, Frame

LEMMA BudgetRows ==
  ASSUME Budget, NEW r \in Rows,
         Enqueue(r) \/ Supersede(r) \/ BackoffElapses(r) \/ RetryDead(r) \/ Reconcile(r)
  PROVE  AttemptsAccounted' /\ DeadIsDeserved'
<1>0. /\ outbox \in [Rows -> Row] /\ outbox[r] \in Row
      /\ charged \in [Rows -> Nat] /\ refused \in [Rows -> BOOLEAN]
  BY DEF Budget, TypeOK
<1>1. CASE Enqueue(r) \/ Supersede(r) \/ BackoffElapses(r)
  BY <1>0, <1>1 DEF Enqueue, Supersede, BackoffElapses, history,
                    Budget, AttemptsAccounted, DeadIsDeserved, Row
<1>2. CASE RetryDead(r)
  BY <1>0, <1>2 DEF RetryDead, Budget, AttemptsAccounted, DeadIsDeserved, Row
<1>3. CASE Reconcile(r)
  <2>1. outbox[r].attempts \in Nat /\ outbox[r].attempts > 0
    BY <1>0, <1>3 DEF Reconcile, Reconcilable, Row
  <2> QED
    BY <1>0, <1>3, <2>1 DEF Reconcile, Budget, AttemptsAccounted, DeadIsDeserved, Row
<1> QED
  BY <1>1, <1>2, <1>3

LEMMA BudgetBoot ==
  ASSUME Budget, NEW p \in Procs, Boot(p)
  PROVE  AttemptsAccounted' /\ DeadIsDeserved'
<1>1. SUFFICES ASSUME NEW r \in Rows
               PROVE  /\ outbox'[r].attempts =
                           charged'[r] + (IF outbox'[r].state \in {"sending", "sent"} THEN 1 ELSE 0)
                      /\ outbox'[r].state = "dead" => refused'[r] \/ charged'[r] >= MaxAttempts
  BY DEF AttemptsAccounted, DeadIsDeserved
<1>2. outbox[r] \in Row /\ charged[r] \in Nat
  BY DEF Budget, TypeOK
<1> QED
  <2>1. TypeOK /\ charged'[r] = charged[r] + (IF outbox[r].state = "sending" THEN 1 ELSE 0)
        /\ refused' = refused
    BY <1>2 DEF Boot, Budget
  <2>2. /\ outbox'[r].attempts = outbox[r].attempts
        /\ outbox'[r].state # "sending"
        /\ outbox[r].state \in {"sent", "dead"} => outbox'[r].state = outbox[r].state
        /\ outbox'[r].state \in {"sent", "dead"} => outbox[r].state = outbox'[r].state
    BY <2>1, BootRows
  <2>3. /\ outbox[r].attempts =
             charged[r] + (IF outbox[r].state \in {"sending", "sent"} THEN 1 ELSE 0)
        /\ outbox[r].state = "dead" => refused[r] \/ charged[r] >= MaxAttempts
    BY DEF Budget, AttemptsAccounted, DeadIsDeserved
  <2>4. outbox'[r].attempts = charged'[r] + (IF outbox'[r].state \in {"sending", "sent"} THEN 1 ELSE 0)
    BY <1>2, <2>1, <2>2, <2>3
  <2>5. outbox'[r].state = "dead" => refused'[r] \/ charged'[r] >= MaxAttempts
    BY <1>2, <2>1, <2>2, <2>3
  <2> QED
    BY <2>4, <2>5

LEMMA BudgetClaim ==
  ASSUME Budget, NEW p \in Procs, Claim(p)
  PROVE  AttemptsAccounted' /\ DeadIsDeserved'
<1>1. PICK r \in Rows :
         /\ Claimable(r)
         /\ outbox' = [outbox EXCEPT ![r].state = "sending", ![r].attempts = @ + 1, ![r].gen = @ + 1]
  BY DEF Claim
<1>2. outbox \in [Rows -> Row] /\ outbox[r] \in Row /\ charged \in [Rows -> Nat]
  BY DEF Budget, TypeOK
<1>3. /\ outbox'[r].state = "sending"
      /\ outbox'[r].attempts = outbox[r].attempts + 1
      /\ \A s \in Rows : s # r => outbox'[s] = outbox[s]
  BY <1>1, <1>2 DEF Row
<1>4. outbox[r].state = "pending" /\ charged' = charged /\ refused' = refused
  BY <1>1 DEF Claim, Claimable, history
<1> QED
  BY <1>2, <1>3, <1>4 DEF Budget, AttemptsAccounted, DeadIsDeserved

\* A deferral refunds exactly the attempt of the claim it ends.
LEMMA BudgetDefer ==
  ASSUME Budget, NEW p \in Procs, Defer(p), UNCHANGED <<charged, refused>>
  PROVE  AttemptsAccounted' /\ DeadIsDeserved'
<1>0. TypeOK
  BY DEF Budget
<1>1. CASE Fenced(p)
  <2>1. outbox[sender[p].row].attempts = charged[sender[p].row] + 1
    BY <1>0, <1>1, RowType DEF Budget, AttemptsAccounted, Fenced
  <2>2. charged[sender[p].row] \in Nat
    BY <1>0, RowType DEF TypeOK
  <2>3. Refund(outbox[sender[p].row].attempts) = charged[sender[p].row]
    BY <2>1, <2>2 DEF Refund
  <2> QED
    BY <1>0, <1>1, <2>3, <2>2, RowType, DeferFacts DEF Budget, AttemptsAccounted, DeadIsDeserved
<1>2. CASE ~Fenced(p)
  BY <1>0, <1>2, DeferFacts, FrameAll DEF Frame
<1> QED
  BY <1>1, <1>2

\* A failure charges it, and exhausts the row only on the last one or on a refusal.
LEMMA BudgetMarkFailed ==
  ASSUME Budget, NEW p \in Procs, NEW n \in Nat, MarkFailed(p, n),
         \A r \in Rows : refused'[r] = (refused[r] \/ (r = sender[p].row /\ Fenced(p) /\ refused'[r])),
         Fenced(p) => refused'[sender[p].row] \/ n = outbox[sender[p].row].attempts
  PROVE  AttemptsAccounted' /\ DeadIsDeserved'
<1>0. TypeOK
  BY DEF Budget
<1>1. CASE Fenced(p)
  <2> DEFINE r == sender[p].row
  <2>1. outbox[r].attempts = charged[r] + 1 /\ charged[r] \in Nat /\ MaxAttempts \in Nat
    BY <1>0, <1>1, OutboxAssumption, RowType DEF Budget, AttemptsAccounted, Fenced, TypeOK
  <2>2. /\ outbox'[r].attempts = charged'[r]
        /\ outbox'[r].state \in {"dead", "pending"}
        /\ outbox'[r].state = "dead" => n >= MaxAttempts
        /\ charged'[r] = charged[r] + 1
    BY <1>0, <1>1, <2>1, RowType, MarkFailedFacts
  <2>3. outbox'[r].state = "dead" => refused'[r] \/ charged'[r] >= MaxAttempts
    BY <1>1, <2>1, <2>2
  <2>4. \A s \in Rows : s # r => Frame(s)
    BY <1>0, MarkFailedFacts DEF Frame, TypeOK
  <2> HIDE DEF r
  <2>5. AttemptsAccounted'
    <3>1. SUFFICES ASSUME NEW s \in Rows
                   PROVE  outbox'[s].attempts =
                            charged'[s] + (IF outbox'[s].state \in {"sending", "sent"} THEN 1 ELSE 0)
      BY DEF AttemptsAccounted
    <3>2. CASE s = r
      BY <2>1, <2>2, <3>2
    <3>3. CASE s # r
      BY <2>4, <3>3 DEF Budget, AttemptsAccounted, Frame
    <3> QED
      BY <3>2, <3>3
  <2>6. DeadIsDeserved'
    BY <2>3, <2>4 DEF Budget, DeadIsDeserved, Frame
  <2> QED
    BY <2>5, <2>6
<1>2. CASE ~Fenced(p)
  <2>1. \A r \in Rows : Frame(r)
    BY <1>0, <1>2, MarkFailedFacts DEF Frame, TypeOK
  <2> QED
    BY <2>1, FrameAll
<1> QED
  BY <1>1, <1>2

LEMMA BudgetSettle ==
  ASSUME Budget, NEW p \in Procs, Settle(p)
  PROVE  AttemptsAccounted' /\ DeadIsDeserved'
<1>0. TypeOK
  BY DEF Budget
<1>1. CASE Ack(p)
  <2>1. CASE UNCHANGED table
    BY <1>1, <2>1, FrameAll DEF Ack, Frame, table
  <2>2. CASE Fenced(p) /\ outbox' = [outbox EXCEPT ![sender[p].row].state = "sent"]
    <3>1. charged' = charged /\ refused' = refused
      BY <1>1 DEF Ack
    <3>2. /\ outbox'[sender[p].row].state = "sent" /\ outbox[sender[p].row].state = "sending"
          /\ outbox'[sender[p].row].attempts = outbox[sender[p].row].attempts
          /\ \A r \in Rows : r # sender[p].row => outbox'[r] = outbox[r]
      BY <1>0, <2>2, RowType DEF Fenced, TypeOK, Row
    <3> QED
      BY <3>1, <3>2 DEF Budget, AttemptsAccounted, DeadIsDeserved
  <2> QED
    BY <1>1, <2>1, <2>2 DEF Ack
<1>2. CASE Interrupted(p)
  BY <1>2, BudgetDefer DEF Interrupted
<1>3. CASE RateLimited(p)
  BY <1>3, BudgetDefer DEF RateLimited, history
<1>4. CASE Failed(p)
  <2>1. MarkFailed(p, outbox[sender[p].row].attempts) /\ refused' = refused
    BY <1>4 DEF Failed
  <2>2. refused \in [Rows -> BOOLEAN]
    BY <1>0 DEF TypeOK
  <2>3. \A r \in Rows : refused'[r] = (refused[r] \/ (r = sender[p].row /\ Fenced(p) /\ refused'[r]))
    BY <2>1, <2>2
  <2> QED
    BY <1>0, <2>1, <2>3, RowType, BudgetMarkFailed
<1>5. CASE Rejected(p)
  <2>1. MarkFailed(p, MaxAttempts) /\ refused' = [refused EXCEPT ![sender[p].row] = @ \/ Fenced(p)]
    BY <1>5 DEF Rejected
  <2>2. refused \in [Rows -> BOOLEAN] /\ Fenced(p) \in BOOLEAN
    BY <1>0 DEF TypeOK, Fenced
  <2>3. \A r \in Rows : refused'[r] = (refused[r] \/ (r = sender[p].row /\ Fenced(p) /\ refused'[r]))
    BY <2>1, <2>2
  <2>4. Fenced(p) => refused'[sender[p].row]
    BY <1>0, <2>1, <2>2, RowType
  <2> QED
    BY <2>1, <2>3, <2>4, OutboxAssumption, BudgetMarkFailed
<1> QED
  BY <1>1, <1>2, <1>3, <1>4, <1>5 DEF Settle

LEMMA BudgetStep ==
  ASSUME Budget, [Next]_vars
  PROVE  Budget'
<1>0. SUFFICES AttemptsAccounted' /\ DeadIsDeserved'
  BY TypeStep DEF Budget
<1>1. CASE UNCHANGED vars
  BY <1>1, FrameAll DEF vars, table, history, Frame
<1>2. CASE \E r \in Rows : \/ Enqueue(r) \/ Supersede(r) \/ BackoffElapses(r)
                           \/ RetryDead(r) \/ Reconcile(r)
  BY <1>2, BudgetRows
<1>3. ASSUME NEW p \in Procs,
             \/ PauseElapses(p) \/ Close(p) \/ Exit(p) \/ Crash(p)
             \/ Drained(p) \/ Accept(p) \/ EditGone(p)
      PROVE  AttemptsAccounted' /\ DeadIsDeserved'
  <2>1. UNCHANGED <<outbox, charged, refused>>
    BY <1>3 DEF PauseElapses, Close, Exit, Crash, Drained, Accept, EditGone, table, history
  <2> QED
    BY <2>1, FrameAll DEF Frame
<1>4. ASSUME NEW p \in Procs, Boot(p) \/ Claim(p) \/ Settle(p)
      PROVE  AttemptsAccounted' /\ DeadIsDeserved'
  BY <1>4, BudgetBoot, BudgetClaim, BudgetSettle
<1>5. ASSUME NEW m \in DOMAIN chat, Delete(m)
      PROVE  AttemptsAccounted' /\ DeadIsDeserved'
  <2>1. UNCHANGED <<outbox, charged, refused>>
    BY <1>5 DEF Delete, table, history
  <2> QED
    BY <2>1, FrameAll DEF Frame
<1> QED
  BY <1>1, <1>2, <1>3, <1>4, <1>5 DEF Next

\* The retry budget is exact, with any number of concurrent senders: what was
\* claimed and not refunded is what attempts shows.
THEOREM AttemptsExact == Spec => []AttemptsAccounted
<1>1. Init => Budget
  BY BudgetInit
<1>2. Budget /\ [Next]_vars => Budget'
  BY BudgetStep
<1>3. Budget => AttemptsAccounted
  BY DEF Budget
<1> QED
  BY <1>1, <1>2, <1>3, PTL DEF Spec

\* A delivery is dead only after a permanent error or max_attempts charged claims.
THEOREM DeadDeserved == Spec => []DeadIsDeserved
<1>1. Init => Budget
  BY BudgetInit
<1>2. Budget /\ [Next]_vars => Budget'
  BY BudgetStep
<1>3. Budget => DeadIsDeserved
  BY DEF Budget
<1> QED
  BY <1>1, <1>2, <1>3, PTL DEF Spec

-----------------------------------------------------------------------------
(* One drain at a time, and what it knows of the messages Telegram created. *)

OneDrain == OneAlive /\ SenderHoldsRow /\ CopiesAccounted

\* While p is alive nobody else has a request in flight.
LEMMA OthersIdle ==
  ASSUME OneDrain, NEW p \in Procs, proc[p] # "down", NEW q \in Procs, q # p
  PROVE  ~Busy(q)
BY DEF OneDrain, OneAlive, SenderHoldsRow

LEMMA UnrecordedIsBusy ==
  ASSUME NEW r \in Rows, Unrecorded(r)
  PROVE  \E p \in Procs : Busy(p) /\ sender[p].phase = "accepted" /\ sender[p].fresh /\ sender[p].row = r
BY DEF Unrecorded, Busy

LEMMA NobodyBusy ==
  ASSUME \A p \in Procs : ~Busy(p)
  PROVE  \A r \in Rows : ~Unrecorded(r)
BY DEF Unrecorded, Busy

\* A step that settles a row no sender holds.
LEMMA OffRow ==
  ASSUME TypeOK, OneDrain, NEW r \in Rows,
         UNCHANGED <<proc, sender, copies, unacked>>,
         outbox[r].state # "sending",
         outbox'[r].state = "sent" \/ outbox[r].state # "sent",
         \A s \in Rows : s # r => outbox'[s] = outbox[s]
  PROVE  OneDrain'
<1>1. OneAlive'
  BY DEF OneDrain, OneAlive
<1>2. SenderHoldsRow'
  <2>1. \A p \in Procs : sender[p].row \in Rows
    BY RowType
  <2> QED
    BY <2>1 DEF OneDrain, SenderHoldsRow, Fenced, Busy
<1>3. CopiesAccounted'
  <2>1. SUFFICES ASSUME NEW s \in Rows
                 PROVE  copies[s] <= unacked[s]
                          + (IF outbox'[s].state = "sent" \/ Unrecorded(s) THEN 1 ELSE 0)
    BY DEF CopiesAccounted, Unrecorded
  <2>2. copies[s] \in Nat /\ unacked[s] \in Nat
    BY DEF TypeOK
  <2>3. outbox[s].state = "sent" => outbox'[s].state = "sent"
    OBVIOUS
  <2> QED
    BY <2>2, <2>3 DEF OneDrain, CopiesAccounted
<1> QED
  BY <1>1, <1>2, <1>3 DEF OneDrain

LEMMA DrainRows ==
  ASSUME TypeOK, OneDrain, NEW r \in Rows,
         Enqueue(r) \/ Supersede(r) \/ BackoffElapses(r) \/ RetryDead(r) \/ Reconcile(r)
  PROVE  OneDrain'
<1>1. UNCHANGED <<proc, sender, copies, unacked>>
  BY DEF Enqueue, Supersede, BackoffElapses, RetryDead, Reconcile, history
<1>2. outbox \in [Rows -> Row]
  BY DEF TypeOK
<1>3. \A s \in Rows : s # r => outbox'[s] = outbox[s]
  BY <1>2 DEF Enqueue, Supersede, BackoffElapses, RetryDead, Reconcile
<1>4. outbox[r].state # "sending" \/ Reconcile(r)
  BY DEF Enqueue, Supersede, BackoffElapses, RetryDead
<1>5. CASE Reconcile(r)
  <2>1. \A p \in Procs : ~Busy(p)
    BY <1>5 DEF Reconcile, Stopped, OneDrain, SenderHoldsRow
  <2>2. outbox'[r].state = "sent"
    BY <1>2, <1>5 DEF Reconcile, Row
  <2>3. SenderHoldsRow'
    BY <1>1, <2>1 DEF SenderHoldsRow, Busy
  <2>4. CopiesAccounted'
    <3>1. SUFFICES ASSUME NEW s \in Rows
                   PROVE  copies[s] <= unacked[s]
                            + (IF outbox'[s].state = "sent" \/ Unrecorded(s) THEN 1 ELSE 0)
      BY <1>1 DEF CopiesAccounted, Unrecorded
    <3>2. copies[s] \in Nat /\ unacked[s] \in Nat
      BY DEF TypeOK
    <3>3. outbox[s].state = "sent" => outbox'[s].state = "sent"
      BY <1>3, <2>2
    <3> QED
      BY <3>2, <3>3 DEF OneDrain, CopiesAccounted
  <2> QED
    BY <1>1, <2>3, <2>4 DEF OneDrain, OneAlive
<1>6. CASE ~Reconcile(r)
  <2>1. outbox[r].state # "sent"
    BY <1>6 DEF Enqueue, Supersede, BackoffElapses, RetryDead
  <2> QED
    BY <1>1, <1>3, <1>4, <1>6, <2>1, OffRow
<1> QED
  BY <1>5, <1>6

\* Nothing the invariant speaks of changes, except that nobody comes alive.
LEMMA DrainFrame ==
  ASSUME OneDrain, UNCHANGED <<outbox, sender, copies, unacked>>,
         \A p \in Procs : (proc'[p] # "down") = (proc[p] # "down")
  PROVE  OneDrain'
<1>1. OneAlive'
  BY DEF OneDrain, OneAlive
<1>2. SenderHoldsRow'
  BY DEF OneDrain, SenderHoldsRow, Busy, Fenced
<1>3. CopiesAccounted'
  BY DEF OneDrain, CopiesAccounted, Unrecorded
<1> QED
  BY <1>1, <1>2, <1>3 DEF OneDrain

LEMMA DrainBoot ==
  ASSUME TypeOK, OneDrain, Exclusive, NEW p \in Procs, Boot(p)
  PROVE  OneDrain'
<1>1. \A q \in Procs : proc[q] = "down" /\ ~Busy(q)
  BY DEF Boot, OneDrain, SenderHoldsRow
<1>2. OneAlive'
  BY <1>1 DEF Boot, OneAlive, TypeOK
<1>3. SenderHoldsRow'
  BY <1>1 DEF Boot, SenderHoldsRow, Busy
<1>4. CopiesAccounted'
  <2>1. SUFFICES ASSUME NEW s \in Rows
                 PROVE  copies[s] <= unacked[s]
                          + (IF outbox'[s].state = "sent" \/ Unrecorded(s) THEN 1 ELSE 0)
    BY DEF Boot, CopiesAccounted, Unrecorded
  <2>2. copies[s] \in Nat /\ unacked[s] \in Nat
    BY DEF TypeOK
  <2>3. outbox[s].state = "sent" => outbox'[s].state = "sent"
    BY BootRows
  <2> QED
    BY <2>2, <2>3 DEF OneDrain, CopiesAccounted
<1> QED
  BY <1>2, <1>3, <1>4 DEF OneDrain

LEMMA DrainClaim ==
  ASSUME TypeOK, OneDrain, NEW p \in Procs, Claim(p)
  PROVE  OneDrain'
<1>1. PICK r \in Rows :
         /\ Claimable(r)
         /\ outbox' = [outbox EXCEPT ![r].state = "sending", ![r].attempts = @ + 1, ![r].gen = @ + 1]
         /\ sender' = [sender EXCEPT ![p] =
              [phase |-> IF proc[p] = "up" THEN "calling" ELSE "aborted",
               row |-> r, gen |-> outbox[r].gen + 1,
               message |-> IF Key[r] = 0 THEN 0 ELSE message[Key[r]], fresh |-> FALSE]]
  BY DEF Claim
<1>2. /\ outbox \in [Rows -> Row] /\ outbox[r] \in Row /\ sender \in [Procs -> Sender]
      /\ copies \in [Rows -> Nat] /\ unacked \in [Rows -> Nat]
  BY DEF TypeOK
<1>3. /\ proc[p] # "down" /\ proc' = proc /\ copies' = copies /\ unacked' = unacked
      /\ \A q \in Procs : ~Busy(q)
  <2>1. proc[p] # "down" /\ ~Busy(p) /\ proc' = proc /\ copies' = copies /\ unacked' = unacked
    BY DEF Claim, Busy, history
  <2> QED
    BY <2>1, OthersIdle
<1>4. outbox'[r].state = "sending" /\ outbox'[r].gen = outbox[r].gen + 1
  BY <1>1, <1>2 DEF Row
<1>5. /\ sender'[p].row = r /\ sender'[p].gen = outbox[r].gen + 1 /\ sender'[p].fresh = FALSE
      /\ \A q \in Procs : q # p => sender'[q] = sender[q]
  BY <1>1, <1>2
<1>6. OneAlive'
  BY <1>3 DEF OneDrain, OneAlive
<1>7. SenderHoldsRow'
  BY <1>3, <1>4, <1>5 DEF SenderHoldsRow, Busy, Fenced
<1>8. CopiesAccounted'
  <2>1. SUFFICES ASSUME NEW s \in Rows
                 PROVE  copies[s] <= unacked[s]
                          + (IF outbox'[s].state = "sent" \/ Unrecorded(s)' THEN 1 ELSE 0)
    BY <1>3 DEF CopiesAccounted
  <2>2. outbox[s].state = "sent" => outbox'[s].state = "sent"
    BY <1>1, <1>2 DEF Claimable
  <2>3. ~Unrecorded(s)
    BY <1>3, NobodyBusy
  <2> QED
    BY <1>2, <2>2, <2>3 DEF OneDrain, CopiesAccounted
<1> QED
  BY <1>6, <1>7, <1>8 DEF OneDrain

LEMMA DrainAccept ==
  ASSUME TypeOK, OneDrain, NEW p \in Procs, Accept(p)
  PROVE  OneDrain'
<1>0. /\ sender \in [Procs -> Sender] /\ sender[p] \in Sender /\ sender[p].row \in Rows
      /\ copies \in [Rows -> Nat] /\ unacked \in [Rows -> Nat]
  BY DEF TypeOK, Sender
<1>1. /\ Busy(p) /\ sender[p].phase = "calling"
      /\ UNCHANGED <<outbox, proc, unacked>>
  BY DEF Accept, Busy, table
<1>2. /\ proc[p] # "down" /\ Fenced(p) /\ outbox[sender[p].row].state = "sending"
      /\ \A q \in Procs : q # p => ~Busy(q)
  BY <1>1, OthersIdle DEF OneDrain, SenderHoldsRow, Fenced
<1>3. /\ sender'[p].row = sender[p].row /\ sender'[p].gen = sender[p].gen
      /\ sender'[p].phase = "accepted"
      /\ \A q \in Procs : q # p => sender'[q] = sender[q]
  BY <1>0 DEF Accept, Sender
<1>4. OneAlive'
  BY <1>1 DEF OneDrain, OneAlive
<1>5. SenderHoldsRow'
  BY <1>1, <1>2, <1>3 DEF SenderHoldsRow, Busy, Fenced
<1>6. CopiesAccounted'
  <2>1. SUFFICES ASSUME NEW s \in Rows
                 PROVE  copies'[s] <= unacked[s]
                          + (IF outbox[s].state = "sent" \/ Unrecorded(s)' THEN 1 ELSE 0)
    BY <1>1 DEF CopiesAccounted
  <2>2. ~Unrecorded(s)
    BY <1>1, <1>2 DEF Unrecorded, Busy
  <2>3. copies[s] <= unacked[s] + (IF outbox[s].state = "sent" THEN 1 ELSE 0)
    BY <2>2 DEF OneDrain, CopiesAccounted
  <2>4. CASE UNCHANGED copies
    BY <1>0, <2>3, <2>4
  <2>5. CASE /\ copies' = [copies EXCEPT ![sender[p].row] = @ + 1]
             /\ sender' = [sender EXCEPT ![p].phase = "accepted", ![p].fresh = TRUE,
                                         ![p].message = Len(chat) + 1]
    <3>1. CASE s = sender[p].row
      <4>1. sender'[p].fresh = TRUE
        BY <1>0, <2>5 DEF Sender
      <4>2. Unrecorded(s)'
        BY <1>3, <3>1, <4>1 DEF Unrecorded
      <4>3. copies'[s] = copies[s] + 1
        BY <1>0, <2>5, <3>1
      <4> QED
        BY <1>0, <1>2, <2>3, <3>1, <4>2, <4>3
    <3>2. CASE s # sender[p].row
      BY <1>0, <2>3, <2>5, <3>2
    <3> QED
      BY <3>1, <3>2
  <2> QED
    BY <2>4, <2>5 DEF Accept
<1> QED
  BY <1>4, <1>5, <1>6 DEF OneDrain

LEMMA DrainEditGone ==
  ASSUME TypeOK, OneDrain, NEW p \in Procs, EditGone(p)
  PROVE  OneDrain'
<1>1. /\ sender \in [Procs -> Sender] /\ sender[p] \in Sender
      /\ UNCHANGED <<outbox, proc, copies, unacked>>
  BY DEF TypeOK, EditGone, table, history
<1>2. \A q \in Procs : /\ sender'[q].row = sender[q].row /\ sender'[q].gen = sender[q].gen
                       /\ sender'[q].phase = sender[q].phase /\ sender'[q].fresh = sender[q].fresh
  BY <1>1 DEF EditGone, Sender
<1>3. OneAlive'
  BY <1>1 DEF OneDrain, OneAlive
<1>4. SenderHoldsRow'
  BY <1>1, <1>2 DEF OneDrain, SenderHoldsRow, Busy, Fenced
<1>5. CopiesAccounted'
  BY <1>1, <1>2 DEF OneDrain, CopiesAccounted, Unrecorded
<1> QED
  BY <1>3, <1>4, <1>5 DEF OneDrain

\* However a request ends: its row leaves `sending`, or its process dies, and a
\* message it created is recorded as sent or counted as unacknowledged.
LEMMA DrainEnds ==
  ASSUME TypeOK, OneDrain, NEW p \in Procs,
         proc[p] # "down", copies' = copies,
         \A q \in Procs : q # p => proc'[q] = proc[q],
         To(p, "idle") \/ To(p, "next"),
         \A s \in Rows : s # sender[p].row => outbox'[s] = outbox[s],
         outbox[sender[p].row].state = "sent" => outbox'[sender[p].row].state = "sent",
         \/ LoseAck(p)
         \/ unacked' = unacked /\ sender[p].phase # "accepted"
         \/ unacked' = unacked /\ outbox'[sender[p].row].state = "sent"
  PROVE  OneDrain'
<1>0. /\ sender \in [Procs -> Sender] /\ sender[p].row \in Rows
      /\ copies \in [Rows -> Nat] /\ unacked \in [Rows -> Nat]
  BY DEF TypeOK, Sender
<1>1. /\ sender'[p].phase \in {"idle", "next"}
      /\ \A q \in Procs : q # p => sender'[q] = sender[q]
  BY <1>0, IdleType DEF To, Sender
<1>2. \A q \in Procs : q # p => ~Busy(q)
  BY OthersIdle
<1>3. OneAlive'
  BY DEF OneDrain, OneAlive
<1>4. SenderHoldsRow'
  BY <1>1, <1>2 DEF SenderHoldsRow, Busy
<1>5. CopiesAccounted'
  <2>1. SUFFICES ASSUME NEW s \in Rows
                 PROVE  copies[s] <= unacked'[s] + (IF outbox'[s].state = "sent" THEN 1 ELSE 0)
    <3>1. unacked' \in [Rows -> Nat]
      BY <1>0, LoseAckFacts
    <3> QED
      BY <1>0, <3>1 DEF CopiesAccounted
  <2>2. /\ copies[s] <= unacked[s] + (IF outbox[s].state = "sent" \/ Unrecorded(s) THEN 1 ELSE 0)
        /\ copies[s] \in Nat /\ unacked[s] \in Nat
    BY <1>0 DEF OneDrain, CopiesAccounted
  <2>3. Unrecorded(s) => s = sender[p].row /\ sender[p].phase = "accepted" /\ sender[p].fresh
    BY <1>2 DEF Unrecorded, Busy
  <2>4. outbox[s].state = "sent" => outbox'[s].state = "sent"
    BY <1>0
  <2>5. CASE LoseAck(p)
    BY <2>2, <2>3, <2>4, <2>5, LoseAckFacts
  <2>6. CASE unacked' = unacked /\ sender[p].phase # "accepted"
    BY <2>2, <2>3, <2>4, <2>6
  <2>7. CASE unacked' = unacked /\ outbox'[sender[p].row].state = "sent"
    BY <2>2, <2>3, <2>4, <2>7
  <2> QED
    BY <2>5, <2>6, <2>7
<1> QED
  BY <1>3, <1>4, <1>5 DEF OneDrain

LEMMA DrainSettle ==
  ASSUME TypeOK, OneDrain, NEW p \in Procs, Settle(p)
  PROVE  OneDrain'
<1>0. sender[p].row \in Rows /\ outbox \in [Rows -> Row]
  BY RowType DEF TypeOK
<1>1. Busy(p) /\ copies' = copies /\ proc' = proc
  BY DEF Settle, Ack, Interrupted, RateLimited, Failed, Rejected, Busy, history
<1>2. proc[p] # "down" /\ Fenced(p) /\ outbox[sender[p].row].state = "sending"
  BY <1>1 DEF OneDrain, SenderHoldsRow, Fenced
<1>3. To(p, "idle") \/ To(p, "next")
  BY DEF Settle, Ack, Interrupted, RateLimited, Failed, Rejected
<1>4. \A s \in Rows : s # sender[p].row => outbox'[s] = outbox[s]
  <2>1. CASE Ack(p)
    BY <1>0, <2>1 DEF Ack, table
  <2>2. CASE Interrupted(p) \/ RateLimited(p)
    BY <2>2, DeferFacts DEF Interrupted, RateLimited
  <2>3. CASE Failed(p)
    BY <2>3, RowType, MarkFailedFacts DEF Failed
  <2>4. CASE Rejected(p)
    BY <2>4, OutboxAssumption, MarkFailedFacts DEF Rejected
  <2> QED
    BY <2>1, <2>2, <2>3, <2>4 DEF Settle
<1>5. \/ LoseAck(p)
      \/ unacked' = unacked /\ sender[p].phase # "accepted"
      \/ unacked' = unacked /\ outbox'[sender[p].row].state = "sent"
  <2>1. CASE Ack(p)
    BY <1>0, <1>2, <2>1 DEF Ack, Row
  <2>2. CASE RateLimited(p)
    BY <2>2 DEF RateLimited, history
  <2> QED
    BY <2>1, <2>2 DEF Settle, Interrupted, Failed, Rejected
<1> QED
  BY <1>1, <1>2, <1>3, <1>4, <1>5, DrainEnds

LEMMA DrainStep ==
  ASSUME TypeOK, OneDrain, Exclusive, [Next]_vars
  PROVE  OneDrain'
<1>1. CASE UNCHANGED vars
  BY <1>1, DrainFrame DEF vars, table, history
<1>2. CASE \E r \in Rows : \/ Enqueue(r) \/ Supersede(r) \/ BackoffElapses(r)
                           \/ RetryDead(r) \/ Reconcile(r)
  BY <1>2, DrainRows
<1>3. ASSUME NEW p \in Procs, PauseElapses(p)
      PROVE  OneDrain'
  BY <1>3, DrainFrame DEF PauseElapses, table, history
<1>4. ASSUME NEW p \in Procs, Close(p)
      PROVE  OneDrain'
  BY <1>4, DrainFrame DEF Close, table, history, TypeOK
<1>5. ASSUME NEW p \in Procs, Exit(p)
      PROVE  OneDrain'
  <2>1. UNCHANGED <<outbox, sender, copies, unacked>> /\ sender[p].phase = "idle"
    BY <1>5 DEF Exit, table, history
  <2>2. proc' = [proc EXCEPT ![p] = "down"] /\ proc \in [Procs -> {"down", "up", "closing"}]
    BY <1>5 DEF Exit, TypeOK
  <2>3. OneAlive'
    BY <2>2 DEF OneDrain, OneAlive
  <2>4. SenderHoldsRow'
    BY <2>1, <2>2 DEF OneDrain, SenderHoldsRow, Busy, Fenced
  <2>5. CopiesAccounted'
    BY <2>1 DEF OneDrain, CopiesAccounted, Unrecorded
  <2> QED
    BY <2>3, <2>4, <2>5 DEF OneDrain
<1>6. ASSUME NEW p \in Procs, Crash(p)
      PROVE  OneDrain'
  <2>1. OneAlive'
    BY <1>6 DEF Crash, OneDrain, OneAlive, TypeOK
  <2>2. /\ proc[p] # "down" /\ copies' = copies /\ outbox' = outbox
        /\ To(p, "idle") /\ LoseAck(p)
        /\ \A q \in Procs : q # p => proc'[q] = proc[q]
    BY <1>6 DEF Crash, table, TypeOK
  <2> QED
    BY <2>2, DrainEnds
<1>7. ASSUME NEW p \in Procs, Boot(p) \/ Claim(p) \/ Accept(p) \/ EditGone(p) \/ Settle(p)
      PROVE  OneDrain'
  BY <1>7, DrainBoot, DrainClaim, DrainAccept, DrainEditGone, DrainSettle
<1>8. ASSUME NEW p \in Procs, Drained(p)
      PROVE  OneDrain'
  <2>1. /\ UNCHANGED <<outbox, proc, copies, unacked>> /\ To(p, "idle")
        /\ sender[p].phase = "next"
    BY <1>8 DEF Drained, table, history
  <2>2. sender \in [Procs -> Sender]
    BY DEF TypeOK
  <2>3. \A q \in Procs : /\ q # p => sender'[q] = sender[q]
                         /\ sender'[p].phase = "idle"
    BY <2>1, <2>2, IdleType DEF To, Sender
  <2>4. SenderHoldsRow'
    BY <2>1, <2>3 DEF OneDrain, SenderHoldsRow, Busy, Fenced
  <2>5. \A r \in Rows : Unrecorded(r)' = Unrecorded(r)
    BY <2>1, <2>3 DEF Unrecorded
  <2>6. CopiesAccounted'
    BY <2>1, <2>5 DEF OneDrain, CopiesAccounted
  <2> QED
    BY <2>1, <2>4, <2>6 DEF OneDrain, OneAlive
<1>9. ASSUME NEW m \in DOMAIN chat, Delete(m)
      PROVE  OneDrain'
  BY <1>9, DrainFrame DEF Delete, table, history
<1> QED
  BY <1>1, <1>2, <1>3, <1>4, <1>5, <1>6, <1>7, <1>8, <1>9 DEF Next

LEMMA DrainInit == Init => OneDrain
<1> SUFFICES ASSUME Init PROVE OneDrain
  OBVIOUS
<1>1. \A p \in Procs : proc[p] = "down" /\ sender[p].phase = "idle"
  BY IdleType DEF Init, Idle
<1>2. OneAlive /\ SenderHoldsRow
  BY <1>1 DEF OneAlive, SenderHoldsRow, Busy
<1>3. CopiesAccounted
  <2>1. SUFFICES ASSUME NEW r \in Rows
                 PROVE  copies[r] <= unacked[r] + (IF outbox[r].state = "sent" \/ Unrecorded(r) THEN 1 ELSE 0)
    BY DEF CopiesAccounted
  <2>2. copies[r] = 0 /\ unacked[r] = 0
    BY DEF Init
  <2>3. ~Unrecorded(r)
    BY <1>1 DEF Unrecorded
  <2> QED
    BY <2>2, <2>3
<1> QED
  BY <1>2, <1>3 DEF OneDrain

\* The exclusive daemon drains one request at a time, under a claim that is still
\* its own, and knows of every message it created but for the lost acknowledgements.
THEOREM DrainInvariant == Spec => []DrainInv
<1>1. Init => TypeOK /\ DrainInv
  BY TypeInit, DrainInit DEF DrainInv, OneDrain
<1>2. TypeOK /\ DrainInv /\ [Next]_vars => (TypeOK /\ DrainInv)'
  <2> SUFFICES ASSUME TypeOK, DrainInv, [Next]_vars PROVE TypeOK' /\ DrainInv'
    OBVIOUS
  <2>1. Exclusive => OneDrain'
    BY DrainStep DEF DrainInv, OneDrain
  <2> QED
    BY <2>1, TypeStep DEF DrainInv, OneDrain
<1> QED
  BY <1>1, <1>2, PTL DEF Spec

\* Telegram holds more copies of a row than one only for acknowledgements that
\* were lost, over every crash, timeout, retry and reconciliation.
THEOREM NoSilentDuplicates == Spec => []DuplicatesAreUnacked
<1>1. TypeOK /\ DrainInv => DuplicatesAreUnacked
  <2> SUFFICES ASSUME TypeOK, DrainInv, Exclusive, NEW r \in Rows
               PROVE  copies[r] <= unacked[r]
                        + (IF outbox[r].state \in {"sending", "sent"} THEN 1 ELSE 0)
    BY DEF DuplicatesAreUnacked
  <2>1. Unrecorded(r) => outbox[r].state = "sending"
    BY DEF DrainInv, SenderHoldsRow, Unrecorded, Busy, Fenced
  <2>2. copies[r] \in Nat /\ unacked[r] \in Nat
    BY DEF TypeOK
  <2> QED
    BY <2>1, <2>2 DEF DrainInv, CopiesAccounted
<1> QED
  BY <1>1, TypeCorrect, DrainInvariant, PTL

-----------------------------------------------------------------------------
(* The chat: which text of an event is where.  The exclusive daemon has    *)
(* one request in flight, so only one sender's part of the invariant is    *)
(* ever at stake.                                                          *)

ChatKnown == RecordedIsOwn /\ TargetIsRecorded /\ ShownIsKnown

LEMMA KeysOf ==
  ASSUME NEW r \in Rows, Key[r] # 0
  PROVE  Key[r] \in Keys
BY DEF Keys

LEMMA ChatFrame ==
  ASSUME ChatKnown, UNCHANGED <<message, chat, sender, unacked>>
  PROVE  ChatKnown'
<1>1. RecordedIsOwn'
  BY DEF ChatKnown, RecordedIsOwn
<1>2. TargetIsRecorded'
  BY DEF ChatKnown, TargetIsRecorded, Busy, Gone
<1>3. ShownIsKnown'
  BY DEF ChatKnown, ShownIsKnown, Lost
<1> QED
  BY <1>1, <1>2, <1>3 DEF ChatKnown

LEMMA ChatClaim ==
  ASSUME TypeOK, OneDrain, ChatKnown, NEW p \in Procs, Claim(p)
  PROVE  ChatKnown'
<1>1. PICK r \in Rows :
         sender' = [sender EXCEPT ![p] =
              [phase |-> IF proc[p] = "up" THEN "calling" ELSE "aborted",
               row |-> r, gen |-> outbox[r].gen + 1,
               message |-> IF Key[r] = 0 THEN 0 ELSE message[Key[r]], fresh |-> FALSE]]
  BY DEF Claim
<1>2. sender \in [Procs -> Sender]
  BY DEF TypeOK
<1>3. UNCHANGED <<message, chat, unacked>> /\ \A q \in Procs : ~Busy(q)
  <2>1. proc[p] # "down" /\ ~Busy(p) /\ UNCHANGED <<message, chat, unacked>>
    BY DEF Claim, Busy, history
  <2> QED
    BY <2>1, OthersIdle
<1>4. /\ sender'[p].row = r /\ sender'[p].fresh = FALSE /\ sender'[p].phase \in {"calling", "aborted"}
      /\ sender'[p].message = IF Key[r] = 0 THEN 0 ELSE message[Key[r]]
      /\ \A q \in Procs : q # p => sender'[q] = sender[q]
  BY <1>1, <1>2
<1>5. RecordedIsOwn'
  BY <1>3 DEF ChatKnown, RecordedIsOwn
<1>6. TargetIsRecorded'
  BY <1>3, <1>4 DEF TargetIsRecorded, Busy, Gone
<1>7. ShownIsKnown'
  BY <1>3 DEF ChatKnown, ShownIsKnown, Lost, Busy
<1> QED
  BY <1>5, <1>6, <1>7 DEF ChatKnown

LEMMA ChatAppend ==
  ASSUME TypeOK, NEW r \in Rows, chat' = Append(chat, r)
  PROVE  /\ DOMAIN chat = 1..Len(chat) /\ DOMAIN chat' = 1..(Len(chat) + 1)
         /\ Len(chat) \in Nat
         /\ chat'[Len(chat) + 1] = r
         /\ \A m \in DOMAIN chat : m \in DOMAIN chat' /\ chat'[m] = chat[m]
         /\ \A m \in DOMAIN chat' : m \in DOMAIN chat \/ m = Len(chat) + 1
         /\ \A m \in DOMAIN chat : chat[m] \in Rows \cup {0}
BY DEF TypeOK

LEMMA ChatEdit ==
  ASSUME TypeOK, NEW m \in DOMAIN chat, NEW r \in Rows \cup {0}, chat' = [chat EXCEPT ![m] = r]
  PROVE  /\ DOMAIN chat' = DOMAIN chat
         /\ chat'[m] = r
         /\ \A n \in DOMAIN chat : n # m => chat'[n] = chat[n]
         /\ \A n \in DOMAIN chat : chat[n] \in Rows \cup {0}
         /\ 0 \notin DOMAIN chat
BY DEF TypeOK

\* The two ways a request is accepted.
Created(p) ==
    /\ sender[p].message = 0
    /\ chat' = Append(chat, sender[p].row)
    /\ sender'[p].message = Len(chat) + 1 /\ sender'[p].fresh = TRUE

Edited(p) ==
    /\ sender[p].message # 0 /\ chat[sender[p].message] # 0
    /\ chat' = [chat EXCEPT ![sender[p].message] = sender[p].row]
    /\ sender'[p].message = sender[p].message /\ sender'[p].fresh = sender[p].fresh

LEMMA AcceptFacts ==
  ASSUME TypeOK, OneDrain, NEW p \in Procs, Accept(p)
  PROVE  /\ Created(p) \/ Edited(p)
         /\ sender[p].phase = "calling" /\ sender[p].row \in Rows
         /\ sender'[p].row = sender[p].row /\ sender'[p].phase = "accepted"
         /\ \A q \in Procs : q # p => sender'[q] = sender[q] /\ ~Busy(q)
         /\ Busy(p) /\ Fenced(p)
         /\ UNCHANGED <<outbox, message, unacked, retried>>
<1>1. sender \in [Procs -> Sender] /\ sender[p] \in Sender /\ sender[p].row \in Rows
  BY DEF TypeOK, Sender
<1>2. sender[p].phase = "calling" /\ UNCHANGED <<outbox, message, unacked, retried>>
  BY DEF Accept, table
<1>3. Busy(p) /\ Fenced(p) /\ \A q \in Procs : q # p => ~Busy(q)
  BY <1>2, OthersIdle DEF Busy, OneDrain, SenderHoldsRow
<1>4. CASE /\ sender[p].message = 0 /\ chat' = Append(chat, sender[p].row)
           /\ sender' = [sender EXCEPT ![p].phase = "accepted", ![p].fresh = TRUE,
                                       ![p].message = Len(chat) + 1]
  <2>1. /\ sender'[p].message = Len(chat) + 1 /\ sender'[p].fresh = TRUE
        /\ sender'[p].row = sender[p].row /\ sender'[p].phase = "accepted"
        /\ \A q \in Procs : q # p => sender'[q] = sender[q]
    BY <1>1, <1>4 DEF Sender
  <2> QED
    BY <1>1, <1>2, <1>3, <1>4, <2>1 DEF Created
<1>5. CASE /\ sender[p].message # 0 /\ chat[sender[p].message] # 0
           /\ chat' = [chat EXCEPT ![sender[p].message] = sender[p].row]
           /\ sender' = [sender EXCEPT ![p].phase = "accepted"]
  <2>1. /\ sender'[p].message = sender[p].message /\ sender'[p].fresh = sender[p].fresh
        /\ sender'[p].row = sender[p].row /\ sender'[p].phase = "accepted"
        /\ \A q \in Procs : q # p => sender'[q] = sender[q]
    BY <1>1, <1>5 DEF Sender
  <2> QED
    BY <1>1, <1>2, <1>3, <1>5, <2>1 DEF Edited
<1> QED
  BY <1>4, <1>5 DEF Accept

\* An edit goes to the recorded message of its event.
LEMMA EditedTarget ==
  ASSUME TypeOK, ChatKnown, NEW p \in Procs, sender[p].phase = "calling", sender[p].row \in Rows,
         Edited(p)
  PROVE  /\ Key[sender[p].row] \in Keys
         /\ sender[p].message = message[Key[sender[p].row]]
         /\ sender[p].message \in DOMAIN chat
         /\ ~sender[p].fresh
         /\ \A k \in Keys : message[k] = sender[p].message => k = Key[sender[p].row]
<1>1. /\ ~sender[p].fresh /\ Key[sender[p].row] # 0
      /\ sender[p].message = message[Key[sender[p].row]]
  BY DEF Edited, ChatKnown, TargetIsRecorded, Busy
<1>2. Key[sender[p].row] \in Keys
  BY <1>1, KeysOf
<1>3. \A k \in Keys : message[k] = sender[p].message =>
         message[k] \in DOMAIN chat /\ Key[chat[sender[p].message]] = k
  BY DEF Edited, ChatKnown, RecordedIsOwn
<1> QED
  BY <1>1, <1>2, <1>3

LEMMA ChatAccept ==
  ASSUME TypeOK, OneDrain, ChatKnown, NEW p \in Procs, Accept(p)
  PROVE  ChatKnown'
<1> DEFINE r == sender[p].row
<1>1. /\ Created(p) \/ Edited(p)
      /\ sender[p].phase = "calling" /\ r \in Rows
      /\ sender'[p].row = r /\ sender'[p].phase = "accepted"
      /\ \A q \in Procs : q # p => sender'[q] = sender[q] /\ ~Busy(q)
      /\ Busy(p)
      /\ UNCHANGED <<message, unacked>>
  BY AcceptFacts
<1>2. \A q \in Procs : sender[q].phase # "accepted"
  BY <1>1 DEF Busy
<1>3. CASE Created(p)
  <2>1. chat' = Append(chat, r) /\ sender'[p].message = Len(chat) + 1 /\ sender'[p].fresh = TRUE
    BY <1>3 DEF Created
  <2>2. /\ DOMAIN chat = 1..Len(chat) /\ DOMAIN chat' = 1..(Len(chat) + 1)
        /\ Len(chat) \in Nat /\ chat'[Len(chat) + 1] = r
        /\ \A m \in DOMAIN chat : m \in DOMAIN chat' /\ chat'[m] = chat[m]
        /\ \A m \in DOMAIN chat' : m \in DOMAIN chat \/ m = Len(chat) + 1
    BY <1>1, <2>1, ChatAppend
  <2>3. RecordedIsOwn'
    BY <1>1, <2>2 DEF ChatKnown, RecordedIsOwn
  <2>4. Key[r] # 0 => Gone(Key[r])'
    <3>1. Key[r] # 0 => Gone(Key[r]) /\ Key[r] \in Keys
      BY <1>1, <1>3, KeysOf DEF Created, ChatKnown, TargetIsRecorded, Busy
    <3> QED
      BY <1>1, <2>2, <3>1 DEF Gone, ChatKnown, RecordedIsOwn
  <2>5. TargetIsRecorded'
    <3>1. SUFFICES ASSUME NEW q \in Procs, q = p
                   PROVE  /\ sender'[q].message \in DOMAIN chat'
                          /\ chat'[sender'[q].message] \in {0, sender'[q].row}
                          /\ sender'[q].fresh /\ Key[sender'[q].row] # 0 => Gone(Key[sender[q].row])'
                          /\ sender'[q].fresh
      BY <1>1 DEF TargetIsRecorded, Busy
    <3> QED
      BY <1>1, <2>1, <2>2, <2>4, <3>1
  <2>6. ShownIsKnown'
    <3>1. SUFFICES ASSUME NEW m \in DOMAIN chat', chat'[m] # 0, Key[chat'[m]] # 0
                   PROVE  \/ Lost(Key[chat[m]])'
                          \/ m = message'[Key[chat'[m]]]
                          \/ \E q \in Procs : sender'[q].phase = "accepted" /\ sender'[q].message = m
                                              /\ Key[sender'[q].row] = Key[chat'[m]]
      BY DEF ShownIsKnown
    <3>2. CASE m \in DOMAIN chat
      BY <1>1, <1>2, <2>2, <3>1, <3>2 DEF ChatKnown, ShownIsKnown, Lost
    <3>3. CASE m = Len(chat) + 1
      BY <1>1, <2>1, <2>2, <3>3
    <3> QED
      BY <2>2, <3>2, <3>3
  <2> QED
    BY <2>3, <2>5, <2>6 DEF ChatKnown
<1>4. CASE Edited(p)
  <2>1. /\ chat' = [chat EXCEPT ![sender[p].message] = r]
        /\ sender'[p].message = sender[p].message /\ sender'[p].fresh = sender[p].fresh
    BY <1>4 DEF Edited
  <2>2. /\ Key[r] \in Keys /\ sender[p].message = message[Key[r]]
        /\ sender[p].message \in DOMAIN chat /\ ~sender[p].fresh
        /\ \A k \in Keys : message[k] = sender[p].message => k = Key[r]
    BY <1>1, <1>4, EditedTarget
  <2>3. /\ DOMAIN chat' = DOMAIN chat /\ chat'[sender[p].message] = r
        /\ \A n \in DOMAIN chat : n # sender[p].message => chat'[n] = chat[n]
    BY <1>1, <2>1, <2>2, ChatEdit
  <2>4. RecordedIsOwn'
    BY <1>1, <2>2, <2>3 DEF ChatKnown, RecordedIsOwn
  <2>5. TargetIsRecorded'
    <3>1. SUFFICES ASSUME NEW q \in Procs, q = p
                   PROVE  /\ sender'[q].message \in DOMAIN chat'
                          /\ chat'[sender'[q].message] \in {0, sender'[q].row}
                          /\ ~sender'[q].fresh
                          /\ Key[sender'[q].row] # 0
                          /\ sender'[q].message = message'[Key[sender'[q].row]]
      BY <1>1 DEF TargetIsRecorded, Busy
    <3> QED
      BY <1>1, <2>1, <2>2, <2>3, <3>1 DEF Keys
  <2>6. ShownIsKnown'
    <3>1. SUFFICES ASSUME NEW m \in DOMAIN chat', chat'[m] # 0, Key[chat'[m]] # 0
                   PROVE  Lost(Key[chat[m]])' \/ m = message'[Key[chat'[m]]]
      BY DEF ShownIsKnown
    <3>2. CASE m = sender[p].message
      BY <1>1, <2>2, <2>3, <3>2
    <3>3. CASE m # sender[p].message
      BY <1>1, <1>2, <2>3, <3>1, <3>3 DEF ChatKnown, ShownIsKnown, Lost
    <3> QED
      BY <3>2, <3>3
  <2> QED
    BY <2>4, <2>5, <2>6 DEF ChatKnown
<1> QED
  BY <1>1, <1>3, <1>4

LEMMA ChatEditGone ==
  ASSUME TypeOK, OneDrain, ChatKnown, NEW p \in Procs, EditGone(p)
  PROVE  ChatKnown'
<1>1. /\ sender \in [Procs -> Sender] /\ sender[p] \in Sender
      /\ UNCHANGED <<message, chat, unacked>>
      /\ sender[p].phase = "calling" /\ sender[p].message # 0 /\ chat[sender[p].message] = 0
  BY DEF TypeOK, EditGone, table, history
<1>2. \A q \in Procs : /\ sender'[q].row = sender[q].row /\ sender'[q].phase = sender[q].phase
                       /\ sender'[q].fresh = sender[q].fresh
                       /\ q # p => sender'[q].message = sender[q].message
                       /\ sender'[p].message = 0
  BY <1>1 DEF EditGone, Sender
<1>3. RecordedIsOwn'
  BY <1>1 DEF ChatKnown, RecordedIsOwn
<1>4. /\ ~sender[p].fresh
      /\ Gone(Key[sender[p].row])
  BY <1>1 DEF ChatKnown, TargetIsRecorded, Busy, Gone
<1>5. TargetIsRecorded'
  <2>1. SUFFICES ASSUME NEW q \in Procs, q # p => Busy(q)
                 PROVE  LET s == sender'[q]
                            k == Key[s.row]
                        IN /\ s.phase # "accepted" =>
                                /\ ~s.fresh
                                /\ s.message # 0 => k # 0 /\ s.message = message[k]
                                /\ s.message = 0 /\ k # 0 => Gone(k)
                           /\ s.phase = "accepted" =>
                                /\ s.message \in DOMAIN chat
                                /\ chat[s.message] \in {0, s.row}
                                /\ s.fresh /\ k # 0 => Gone(k)
                                /\ ~s.fresh => k # 0 /\ s.message = message[k]
    BY <1>1, <1>2 DEF TargetIsRecorded, Busy, Gone
  <2>2. CASE q = p
    BY <1>1, <1>2, <1>4, <2>2
  <2>3. CASE q # p
    BY <1>1, <1>2, <2>1, <2>3 DEF ChatKnown, TargetIsRecorded
  <2> QED
    BY <2>2, <2>3
<1>6. ShownIsKnown'
  <2>1. \A q \in Procs : sender[q].phase = "accepted" =>
            sender'[q].phase = "accepted" /\ sender'[q].message = sender[q].message
            /\ sender'[q].row = sender[q].row
    BY <1>1, <1>2
  <2> QED
    BY <1>1, <2>1 DEF ChatKnown, ShownIsKnown, Lost
<1> QED
  BY <1>3, <1>5, <1>6 DEF ChatKnown

\* A request ends without being recorded: what it created may now be lost.
LEMMA ChatEnds ==
  ASSUME TypeOK, OneDrain, ChatKnown, NEW p \in Procs,
         proc[p] # "down", UNCHANGED <<message, chat>>,
         To(p, "idle") \/ To(p, "next"),
         LoseAck(p) \/ (unacked' = unacked /\ sender[p].phase # "accepted")
  PROVE  ChatKnown'
<1>0. /\ sender \in [Procs -> Sender] /\ sender[p].row \in Rows
      /\ unacked \in [Rows -> Nat]
  BY DEF TypeOK, Sender
<1>1. /\ sender'[p].phase \in {"idle", "next"}
      /\ \A q \in Procs : q # p => sender'[q] = sender[q]
  BY <1>0, IdleType DEF To, Sender
<1>2. \A q \in Procs : q # p => ~Busy(q)
  BY OthersIdle
<1>3. \A k : Lost(k) => Lost(k)'
  <2>1. \A r \in Rows : unacked[r] > 0 => unacked'[r] > 0
    BY <1>0, LoseAckFacts
  <2> QED
    BY <2>1 DEF Lost
<1>4. RecordedIsOwn'
  BY DEF ChatKnown, RecordedIsOwn
<1>5. TargetIsRecorded'
  BY <1>1, <1>2 DEF TargetIsRecorded, Busy
<1>6. ShownIsKnown'
  <2>1. SUFFICES ASSUME NEW m \in DOMAIN chat, chat[m] # 0, Key[chat[m]] # 0
                 PROVE  Lost(Key[chat[m]])' \/ m = message[Key[chat[m]]]
    BY DEF ShownIsKnown
  <2>3. CASE Lost(Key[chat[m]]) \/ m = message[Key[chat[m]]]
    BY <1>3, <2>3
  <2>4. CASE \E q \in Procs : /\ sender[q].phase = "accepted" /\ sender[q].message = m
                              /\ Key[sender[q].row] = Key[chat[m]]
    <3>1. /\ sender[p].phase = "accepted" /\ sender[p].message = m
          /\ Key[sender[p].row] = Key[chat[m]]
      BY <1>2, <2>4 DEF Busy
    <3>2. CASE sender[p].fresh
      <4>1. unacked'[sender[p].row] > 0
        BY <1>0, <3>1, <3>2, LoseAckFacts
      <4>2. Lost(Key[chat[m]])'
        BY <1>0, <3>1, <4>1 DEF Lost
      <4> QED
        BY <4>2
    <3>3. CASE ~sender[p].fresh
      BY <3>1, <3>3 DEF ChatKnown, TargetIsRecorded, Busy
    <3> QED
      BY <3>2, <3>3
  <2> QED
    BY <2>1, <2>3, <2>4 DEF ChatKnown, ShownIsKnown
<1> QED
  BY <1>4, <1>5, <1>6 DEF ChatKnown

\* What an acknowledgement records, when the sender holds its row.
LEMMA AckFacts ==
  ASSUME TypeOK, OneDrain, NEW p \in Procs, Ack(p)
  PROVE  /\ sender[p].phase = "accepted" /\ sender[p].row \in Rows
         /\ outbox[sender[p].row].state = "sending"
         /\ outbox' = [outbox EXCEPT ![sender[p].row].state = "sent"]
         /\ \A k \in Keys : message'[k] = IF k = Key[sender[p].row] THEN sender[p].message ELSE message[k]
         /\ \A q \in Procs : ~Busy(q)' /\ (q # p => ~Busy(q))
         /\ UNCHANGED <<chat, unacked, retried>>
<1>0. sender \in [Procs -> Sender] /\ sender[p].row \in Rows
  BY DEF TypeOK, Sender
<1>1. sender[p].phase = "accepted" /\ Busy(p)
  BY DEF Ack, Busy
<1>2. proc[p] # "down" /\ Fenced(p) /\ \A q \in Procs : q # p => ~Busy(q)
  BY <1>1, OthersIdle DEF OneDrain, SenderHoldsRow
<1>3. \A q \in Procs : ~Busy(q)'
  BY <1>0, <1>2, IdleType DEF Ack, To, Busy, Sender
<1> QED
  BY <1>0, <1>1, <1>2, <1>3 DEF Ack, Fenced

LEMMA ChatAck ==
  ASSUME TypeOK, OneDrain, ChatKnown, NEW p \in Procs, Ack(p)
  PROVE  ChatKnown'
<1> DEFINE r == sender[p].row
           m == sender[p].message
<1>1. /\ sender[p].phase = "accepted" /\ r \in Rows
      /\ \A k \in Keys : message'[k] = IF k = Key[r] THEN m ELSE message[k]
      /\ \A q \in Procs : ~Busy(q)' /\ (q # p => ~Busy(q))
      /\ UNCHANGED <<chat, unacked>>
  BY AckFacts
<1>2. /\ m \in DOMAIN chat /\ chat[m] \in {0, r}
      /\ sender[p].fresh /\ Key[r] # 0 => Gone(Key[r])
      /\ ~sender[p].fresh => m = message[Key[r]]
  BY <1>1 DEF ChatKnown, TargetIsRecorded, Busy
<1>3. RecordedIsOwn'
  <2>1. SUFFICES ASSUME NEW k \in Keys, message'[k] # 0
                 PROVE  message'[k] \in DOMAIN chat /\ (chat[message'[k]] # 0 => Key[chat[message'[k]]] = k)
    BY <1>1 DEF RecordedIsOwn
  <2>2. CASE k = Key[r]
    BY <1>1, <1>2, <2>2
  <2>3. CASE k # Key[r]
    BY <1>1, <2>1, <2>3 DEF ChatKnown, RecordedIsOwn
  <2> QED
    BY <2>2, <2>3
<1>4. TargetIsRecorded'
  BY <1>1 DEF TargetIsRecorded
<1>5. ShownIsKnown'
  <2>1. SUFFICES ASSUME NEW n \in DOMAIN chat, chat[n] # 0, Key[chat[n]] # 0
                 PROVE  Lost(Key[chat[n]]) \/ n = message'[Key[chat[n]]]
    BY <1>1 DEF ShownIsKnown, Lost
  <2>2. chat[n] \in Rows /\ Key[chat[n]] \in Keys /\ n # 0
    BY <2>1, KeysOf DEF TypeOK
  <2>3. \/ Lost(Key[chat[n]])
        \/ n = message[Key[chat[n]]]
        \/ n = m /\ Key[r] = Key[chat[n]]
    BY <1>1, <2>1 DEF ChatKnown, ShownIsKnown, Busy
  <2>4. CASE Key[chat[n]] = Key[r]
    <3>1. message'[Key[chat[n]]] = m
      BY <1>1, <2>2, <2>4
    <3>2. n = message[Key[chat[n]]] => n = m
      BY <1>2, <2>1, <2>2, <2>4 DEF Gone
    <3> QED
      BY <2>3, <3>1, <3>2
  <2>5. CASE Key[chat[n]] # Key[r]
    BY <1>1, <2>2, <2>3, <2>5
  <2> QED
    BY <2>4, <2>5
<1> QED
  BY <1>3, <1>4, <1>5 DEF ChatKnown

LEMMA ChatDelete ==
  ASSUME TypeOK, ChatKnown, NEW m \in DOMAIN chat, Delete(m)
  PROVE  ChatKnown'
<1>1. UNCHANGED <<message, sender, unacked>> /\ chat' = [chat EXCEPT ![m] = 0]
  BY DEF Delete, table, history
<1>2. /\ DOMAIN chat' = DOMAIN chat /\ chat'[m] = 0
      /\ \A n \in DOMAIN chat : n # m => chat'[n] = chat[n]
      /\ 0 \notin DOMAIN chat
  BY <1>1, ChatEdit
<1>3. RecordedIsOwn'
  BY <1>1, <1>2 DEF ChatKnown, RecordedIsOwn
<1>4. TargetIsRecorded'
  <2>1. \A k : Gone(k) /\ (message[k] # 0 => message[k] \in DOMAIN chat) => Gone(k)'
    BY <1>1, <1>2 DEF Gone
  <2>2. \A q \in Procs : sender[q].row \in Rows
    BY DEF TypeOK, Sender
  <2>3. \A q \in Procs : Key[sender[q].row] # 0 /\ Gone(Key[sender[q].row]) => Gone(Key[sender[q].row])'
    BY <1>1, <2>1, <2>2, KeysOf DEF ChatKnown, RecordedIsOwn
  <2>4. \A r : \A n \in DOMAIN chat : chat[n] \in {0, r} => n \in DOMAIN chat' /\ chat'[n] \in {0, r}
    BY <1>2
  <2> QED
    BY <1>1, <1>2, <2>3, <2>4 DEF ChatKnown, TargetIsRecorded, Busy
<1>5. ShownIsKnown'
  BY <1>1, <1>2 DEF ChatKnown, ShownIsKnown, Lost
<1> QED
  BY <1>3, <1>4, <1>5 DEF ChatKnown

LEMMA ChatStep ==
  ASSUME TypeOK, OneDrain, ChatKnown, [Next]_vars
  PROVE  ChatKnown'
<1>1. CASE UNCHANGED vars
  BY <1>1, ChatFrame DEF vars, table, history
<1>2. CASE \E r \in Rows : \/ Enqueue(r) \/ Supersede(r) \/ BackoffElapses(r)
                           \/ RetryDead(r) \/ Reconcile(r)
  BY <1>2, ChatFrame DEF Enqueue, Supersede, BackoffElapses, RetryDead, Reconcile, history
<1>3. ASSUME NEW p \in Procs, PauseElapses(p) \/ Boot(p) \/ Close(p) \/ Exit(p)
      PROVE  ChatKnown'
  BY <1>3, ChatFrame DEF PauseElapses, Boot, Close, Exit, table, history
<1>4. ASSUME NEW p \in Procs,
             Crash(p) \/ Interrupted(p) \/ RateLimited(p) \/ Failed(p) \/ Rejected(p)
      PROVE  ChatKnown'
  <2>1. /\ UNCHANGED <<message, chat>> /\ (To(p, "idle") \/ To(p, "next"))
        /\ LoseAck(p) \/ (unacked' = unacked /\ sender[p].phase # "accepted")
    BY <1>4 DEF Crash, Interrupted, RateLimited, Failed, Rejected, table, history
  <2>2. proc[p] # "down"
    BY <1>4 DEF Crash, Interrupted, RateLimited, Failed, Rejected, OneDrain, SenderHoldsRow, Busy
  <2> QED
    BY <2>1, <2>2, ChatEnds
<1>5. ASSUME NEW p \in Procs, Drained(p)
      PROVE  ChatKnown'
  <2>1. /\ UNCHANGED <<message, chat, unacked>> /\ To(p, "idle") /\ sender[p].phase = "next"
    BY <1>5 DEF Drained, table, history
  <2>2. \A q \in Procs : /\ q # p => sender'[q] = sender[q]
                         /\ sender'[p].phase = "idle"
    BY <2>1, IdleType DEF To, Sender, TypeOK
  <2>3. RecordedIsOwn'
    BY <2>1 DEF ChatKnown, RecordedIsOwn
  <2>4. TargetIsRecorded'
    BY <2>1, <2>2 DEF ChatKnown, TargetIsRecorded, Busy, Gone
  <2>5. ShownIsKnown'
    BY <2>1, <2>2 DEF ChatKnown, ShownIsKnown, Lost
  <2> QED
    BY <2>3, <2>4, <2>5 DEF ChatKnown
<1>6. ASSUME NEW p \in Procs, Claim(p) \/ Accept(p) \/ EditGone(p) \/ Ack(p)
      PROVE  ChatKnown'
  BY <1>6, ChatClaim, ChatAccept, ChatEditGone, ChatAck
<1>7. ASSUME NEW m \in DOMAIN chat, Delete(m)
      PROVE  ChatKnown'
  BY <1>7, ChatDelete
<1> QED
  BY <1>1, <1>2, <1>3, <1>4, <1>5, <1>6, <1>7 DEF Next, Settle

-----------------------------------------------------------------------------
(* The order of an event's rows. *)

SettledStates == {"sent", "failed", "dead"}

\* Steps that claim nothing: rows keep their order, and what has a generation or a
\* message in the chat had a generation before.
LEMMA OrderFrame ==
  ASSUME ClaimedInOrder, retried \subseteq retried',
         \A r \in Rows :
           /\ (outbox'[r].state = "absent") = (outbox[r].state = "absent")
           /\ (outbox'[r].gen > 0) = (outbox[r].gen > 0)
           /\ outbox'[r].state \in {"sending", "sent", "dead"} \/ Shown(r)' => outbox[r].gen > 0
           /\ outbox[r].state \in SettledStates => outbox'[r].state \in SettledStates \/ r \in retried'
  PROVE  ClaimedInOrder'
<1>1. \A r, s \in Rows : s < r /\ outbox'[r].state # "absent" => outbox'[s].state # "absent"
  BY DEF ClaimedInOrder
<1>2. \A r \in Rows : outbox'[r].state \in {"sending", "sent", "dead"} \/ Shown(r)' => outbox'[r].gen > 0
  OBVIOUS
<1>3. \A r, s \in Rows : Sibling(r, s) /\ s < r /\ outbox'[r].gen > 0 =>
          outbox'[s].state \in {"sent", "failed", "dead"} \/ s \in retried'
  BY DEF ClaimedInOrder, SettledStates
<1> QED
  BY <1>1, <1>2, <1>3 DEF ClaimedInOrder, Sibling

\* The usual frame: one row changes.
LEMMA OrderRow ==
  ASSUME TypeOK, ClaimedInOrder, NEW r \in Rows, retried \subseteq retried',
         \A s \in Rows : s # r => outbox'[s] = outbox[s],
         outbox[r].state # "absent", outbox'[r].state # "absent",
         outbox[r].gen > 0 => outbox'[r].gen > 0,
         outbox'[r].gen > 0 => outbox[r].gen > 0,
         outbox'[r].state \in {"sending", "sent", "dead"} => outbox[r].gen > 0,
         outbox[r].state \in SettledStates => outbox'[r].state \in SettledStates \/ r \in retried',
         \A s \in Rows : Shown(s)' => Shown(s)
  PROVE  ClaimedInOrder'
<1>1. ASSUME NEW s \in Rows
      PROVE  /\ (outbox'[s].state = "absent") = (outbox[s].state = "absent")
             /\ (outbox'[s].gen > 0) = (outbox[s].gen > 0)
             /\ outbox'[s].state \in {"sending", "sent", "dead"} \/ Shown(s)' => outbox[s].gen > 0
             /\ outbox[s].state \in SettledStates => outbox'[s].state \in SettledStates \/ s \in retried'
  <2>1. /\ outbox[s].state \in {"sending", "sent", "dead"} => outbox[s].gen > 0
        /\ Shown(s)' => outbox[s].gen > 0
    BY DEF ClaimedInOrder
  <2>2. CASE s = r
    BY <2>1, <2>2
  <2>3. CASE s # r
    BY <2>1, <2>3
  <2> QED
    BY <2>2, <2>3
<1> QED
  BY <1>1, OrderFrame

\* No row changes.
LEMMA OrderChat ==
  ASSUME ClaimedInOrder, outbox' = outbox, retried' = retried,
         \A r \in Rows : Shown(r)' => outbox[r].gen > 0
  PROVE  ClaimedInOrder'
BY OrderFrame DEF ClaimedInOrder

LEMMA OrderRows ==
  ASSUME TypeOK, ClaimedInOrder, NEW r \in Rows,
         Enqueue(r) \/ Supersede(r) \/ BackoffElapses(r) \/ RetryDead(r) \/ Reconcile(r)
  PROVE  ClaimedInOrder'
<1>0. outbox \in [Rows -> Row] /\ outbox[r] \in Row /\ chat' = chat
  BY DEF TypeOK, Enqueue, Supersede, BackoffElapses, RetryDead, Reconcile
<1>1. \A s \in Rows : Shown(s)' => Shown(s)
  BY <1>0 DEF Shown
<1>2. CASE Enqueue(r)
  <2>1. /\ outbox[r].state = "absent" /\ outbox'[r].state = "pending" /\ outbox'[r].gen = outbox[r].gen
        /\ \A s \in Rows : s < r => outbox[s].state # "absent"
        /\ \A s \in Rows : s # r => outbox'[s] = outbox[s]
        /\ retried' = retried
    BY <1>0, <1>2 DEF Enqueue, Row, history
  <2>2. \A t, s \in Rows : s < t /\ outbox'[t].state # "absent" => outbox'[s].state # "absent"
    BY <2>1 DEF ClaimedInOrder
  <2>3. \A t \in Rows : outbox'[t].state \in {"sending", "sent", "dead"} \/ Shown(t)' => outbox'[t].gen > 0
    BY <1>1, <2>1 DEF ClaimedInOrder
  <2>4. \A t, s \in Rows : Sibling(t, s) /\ s < t /\ outbox'[t].gen > 0 =>
            outbox'[s].state \in {"sent", "failed", "dead"} \/ s \in retried'
    <3>1. SUFFICES ASSUME NEW t \in Rows, NEW s \in Rows, Sibling(t, s), s < t, outbox'[t].gen > 0
                   PROVE  outbox'[s].state \in {"sent", "failed", "dead"} \/ s \in retried
      BY <2>1
    <3>2. outbox[s].state \in {"sent", "failed", "dead"} \/ s \in retried
      BY <2>1, <3>1 DEF ClaimedInOrder
    <3> QED
      BY <2>1, <3>2
  <2> QED
    BY <2>2, <2>3, <2>4 DEF ClaimedInOrder, Sibling
<1>3. CASE Supersede(r) \/ BackoffElapses(r)
  <2>1. /\ outbox[r].state = "pending" /\ outbox'[r].state \in {"pending", "failed"}
        /\ outbox'[r].gen = outbox[r].gen /\ retried' = retried
        /\ \A s \in Rows : s # r => outbox'[s] = outbox[s]
    BY <1>0, <1>3 DEF Supersede, BackoffElapses, Row, history
  <2> QED
    BY <1>1, <2>1, OrderRow DEF SettledStates
<1>4. CASE RetryDead(r)
  <2>1. /\ outbox[r].state = "dead" /\ outbox'[r].state = "pending"
        /\ outbox'[r].gen = outbox[r].gen + 1 /\ outbox[r].gen \in Nat
        /\ retried' = retried \cup {r}
        /\ \A s \in Rows : s # r => outbox'[s] = outbox[s]
    BY <1>0, <1>4 DEF RetryDead, Row
  <2>2. outbox[r].gen > 0
    BY <2>1 DEF ClaimedInOrder
  <2> QED
    BY <1>1, <2>1, <2>2, OrderRow
<1>5. CASE Reconcile(r)
  <2>1. /\ outbox[r].state \in {"pending", "sending", "failed", "dead"} /\ outbox'[r].state = "sent"
        /\ outbox'[r].gen = outbox[r].gen /\ retried' = retried /\ Shown(r)
        /\ \A s \in Rows : s # r => outbox'[s] = outbox[s]
    BY <1>0, <1>5 DEF Reconcile, Reconcilable, Row
  <2>2. outbox[r].gen > 0
    BY <2>1 DEF ClaimedInOrder
  <2> QED
    BY <1>1, <2>1, <2>2, OrderRow DEF SettledStates
<1> QED
  BY <1>2, <1>3, <1>4, <1>5

LEMMA OrderBoot ==
  ASSUME TypeOK, ClaimedInOrder, NEW p \in Procs, Boot(p)
  PROVE  ClaimedInOrder'
<1>1. chat' = chat /\ retried' = retried
  BY DEF Boot
<1>2. \A r \in Rows :
        /\ (outbox'[r].state = "absent") = (outbox[r].state = "absent")
        /\ outbox'[r].gen = outbox[r].gen
        /\ outbox'[r].state \in {"sending", "sent", "dead"} => outbox[r].state = outbox'[r].state
        /\ outbox[r].state \in SettledStates => outbox'[r].state \in SettledStates
  BY BootRows DEF SettledStates
<1>3. \A r \in Rows : Shown(r)' => Shown(r)
  BY <1>1 DEF Shown
<1>4. \A r \in Rows :
        outbox[r].state \in {"sending", "sent", "dead"} \/ Shown(r) => outbox[r].gen > 0
  BY DEF ClaimedInOrder
<1> QED
  BY <1>1, <1>2, <1>3, <1>4, OrderFrame

\* claimNext takes a row behind settled siblings only.
LEMMA OrderClaim ==
  ASSUME TypeOK, ClaimedInOrder, NEW p \in Procs, Claim(p)
  PROVE  ClaimedInOrder'
<1>1. PICK r \in Rows :
         /\ Claimable(r)
         /\ outbox' = [outbox EXCEPT ![r].state = "sending", ![r].attempts = @ + 1, ![r].gen = @ + 1]
  BY DEF Claim
<1>2. /\ outbox \in [Rows -> Row] /\ outbox[r].state = "pending" /\ outbox[r].gen \in Nat
      /\ chat' = chat /\ retried' = retried
  BY <1>1 DEF TypeOK, Row, Claim, Claimable, history
<1>3. /\ outbox'[r].state = "sending" /\ outbox'[r].gen = outbox[r].gen + 1
      /\ \A s \in Rows : s # r => outbox'[s] = outbox[s]
  BY <1>1, <1>2 DEF Row
<1>4. \A t, s \in Rows : s < t /\ outbox'[t].state # "absent" => outbox'[s].state # "absent"
  BY <1>2, <1>3 DEF ClaimedInOrder
<1>5. \A t \in Rows : outbox'[t].state \in {"sending", "sent", "dead"} \/ Shown(t)' => outbox'[t].gen > 0
  BY <1>2, <1>3 DEF ClaimedInOrder, Shown
<1>6. \A t, s \in Rows : Sibling(t, s) /\ s < t /\ outbox'[t].gen > 0 =>
          outbox'[s].state \in {"sent", "failed", "dead"} \/ s \in retried'
  <2>1. SUFFICES ASSUME NEW t \in Rows, NEW s \in Rows, Sibling(t, s), s < t, outbox'[t].gen > 0
                 PROVE  outbox'[s].state \in {"sent", "failed", "dead"} \/ s \in retried
    BY <1>2
  <2>2. CASE t = r
    <3>1. outbox[s].state \notin {"absent", "sending"} /\ ~(outbox[s].state = "pending" /\ s < r)
      <4>1. outbox[s].state # "absent"
        BY <1>2, <2>1, <2>2 DEF ClaimedInOrder
      <4>2. outbox[s].state # "sending" /\ (outbox[s].state = "pending" => s > r)
        BY <1>1, <2>1, <2>2 DEF Claimable
      <4>3. r \in Nat /\ s \in Nat
        BY OutboxAssumption
      <4> QED
        BY <4>1, <4>2, <4>3
    <3>2. outbox[s].state \in {"absent", "pending", "sending", "sent", "failed", "dead"}
      BY <1>2 DEF Row
    <3>3. s # r /\ s < r
      BY <2>1, <2>2 DEF Sibling
    <3> QED
      BY <1>3, <3>1, <3>2, <3>3
  <2>3. CASE t # r
    <3>1. outbox[s].state \in {"sent", "failed", "dead"} \/ s \in retried
      BY <1>3, <2>1, <2>3 DEF ClaimedInOrder
    <3> QED
      BY <1>2, <1>3, <3>1
  <2> QED
    BY <2>2, <2>3
<1> QED
  BY <1>4, <1>5, <1>6 DEF ClaimedInOrder, Sibling

LEMMA OrderAccept ==
  ASSUME TypeOK, OneDrain, ChatKnown, ClaimedInOrder, NEW p \in Procs, Accept(p)
  PROVE  ClaimedInOrder'
<1> DEFINE r == sender[p].row
<1>1. /\ Created(p) \/ Edited(p)
      /\ sender[p].phase = "calling" /\ r \in Rows
      /\ outbox[r].state = "sending"
      /\ UNCHANGED <<outbox, retried>>
  BY AcceptFacts DEF Fenced
<1>2. \A s \in Rows : Shown(s)' => s = r \/ Shown(s)
  <2>1. CASE Created(p)
    <3>1. /\ \A m \in DOMAIN chat : chat'[m] = chat[m]
          /\ \A m \in DOMAIN chat' : m \in DOMAIN chat \/ m = Len(chat) + 1
          /\ chat'[Len(chat) + 1] = r
      BY <1>1, <2>1, ChatAppend DEF Created
    <3> QED
      BY <3>1 DEF Shown
  <2>2. CASE Edited(p)
    <3>1. sender[p].message \in DOMAIN chat /\ chat' = [chat EXCEPT ![sender[p].message] = r]
      BY <1>1, <2>2, EditedTarget DEF Edited
    <3>2. /\ DOMAIN chat' = DOMAIN chat /\ chat'[sender[p].message] = r
          /\ \A n \in DOMAIN chat : n # sender[p].message => chat'[n] = chat[n]
      BY <1>1, <3>1, ChatEdit
    <3> QED
      BY <3>2 DEF Shown
  <2> QED
    BY <1>1, <2>1, <2>2
<1>3. \A s \in Rows : Shown(s)' => outbox[s].gen > 0
  BY <1>1, <1>2 DEF ClaimedInOrder
<1> QED
  BY <1>1, <1>3, OrderChat

\* How a request that is still claimed leaves its row.
LEMMA OrderSettle ==
  ASSUME TypeOK, OneDrain, ClaimedInOrder, NEW p \in Procs, Settle(p)
  PROVE  ClaimedInOrder'
<1> DEFINE r == sender[p].row
<1>0. r \in Rows /\ outbox \in [Rows -> Row] /\ outbox[r] \in Row
  BY RowType DEF TypeOK
<1>1. Busy(p) /\ chat' = chat /\ retried' = retried
  BY DEF Settle, Ack, Interrupted, RateLimited, Failed, Rejected, Busy, history
<1>2. Fenced(p) /\ outbox[r].state = "sending"
  BY <1>1 DEF OneDrain, SenderHoldsRow, Fenced
<1>3. /\ \A s \in Rows : s # r => outbox'[s] = outbox[s]
      /\ outbox'[r].gen = outbox[r].gen /\ outbox'[r].state \in {"sent", "pending", "dead"}
  <2>1. CASE Ack(p)
    <3>1. outbox' = [outbox EXCEPT ![r].state = "sent"]
      BY <2>1, AckFacts
    <3> QED
      BY <1>0, <3>1 DEF Row
  <2>2. CASE Interrupted(p) \/ RateLimited(p)
    BY <1>0, <1>2, <2>2, DeferFacts DEF Interrupted, RateLimited
  <2>3. CASE Failed(p)
    BY <1>0, <1>2, <2>3, RowType, MarkFailedFacts DEF Failed
  <2>4. CASE Rejected(p)
    BY <1>0, <1>2, <2>4, OutboxAssumption, MarkFailedFacts DEF Rejected
  <2> QED
    BY <2>1, <2>2, <2>3, <2>4 DEF Settle
<1>4. outbox[r].gen > 0
  BY <1>0, <1>2 DEF ClaimedInOrder
<1>5. \A s \in Rows : Shown(s)' => Shown(s)
  BY <1>1 DEF Shown
<1> QED
  BY <1>0, <1>1, <1>2, <1>3, <1>4, <1>5, OrderRow DEF SettledStates

LEMMA OrderStep ==
  ASSUME TypeOK, OneDrain, ChatKnown, ClaimedInOrder, [Next]_vars
  PROVE  ClaimedInOrder'
<1>0. \A r \in Rows : Shown(r) => outbox[r].gen > 0
  BY DEF ClaimedInOrder
<1>1. CASE UNCHANGED <<outbox, chat, retried>>
  BY <1>0, <1>1, OrderChat DEF Shown
<1>2. CASE \E r \in Rows : \/ Enqueue(r) \/ Supersede(r) \/ BackoffElapses(r)
                           \/ RetryDead(r) \/ Reconcile(r)
  BY <1>2, OrderRows
<1>3. ASSUME NEW p \in Procs, Boot(p) \/ Claim(p) \/ Accept(p) \/ Settle(p)
      PROVE  ClaimedInOrder'
  BY <1>3, OrderBoot, OrderClaim, OrderAccept, OrderSettle
<1>4. ASSUME NEW p \in Procs, \/ PauseElapses(p) \/ Close(p) \/ Exit(p) \/ Crash(p)
                              \/ Drained(p) \/ EditGone(p)
      PROVE  UNCHANGED <<outbox, chat, retried>>
  BY <1>4 DEF PauseElapses, Close, Exit, Crash, Drained, EditGone, table, history
<1>5. ASSUME NEW m \in DOMAIN chat, Delete(m)
      PROVE  ClaimedInOrder'
  <2>1. chat' = [chat EXCEPT ![m] = 0] /\ UNCHANGED <<outbox, retried>>
    BY <1>5 DEF Delete, table, history
  <2>2. \A r \in Rows : r # 0 /\ (Shown(r)' => Shown(r))
    <3>1. /\ DOMAIN chat' = DOMAIN chat /\ chat'[m] = 0
          /\ \A n \in DOMAIN chat : n # m => chat'[n] = chat[n]
      BY <2>1, ChatEdit
    <3> QED
      BY <3>1, OutboxAssumption DEF Shown
  <2> QED
    BY <1>0, <2>1, <2>2, OrderChat
<1>6. CASE UNCHANGED vars
  BY <1>1, <1>6 DEF vars, table, history
<1> QED
  BY <1>1, <1>2, <1>3, <1>4, <1>5, <1>6 DEF Next

-----------------------------------------------------------------------------
(* The newest text. *)

\* Steps that record no message and show no text of another row.
LEMMA CurrentFrame ==
  ASSUME ShownIsCurrent, message' = message, retried \subseteq retried',
         \A k \in Keys : message[k] # 0 => chat'[message[k]] \in {chat[message[k]], 0},
         \A r \in Rows : outbox'[r].state = "sent" \/ Shown(r)' => outbox[r].state = "sent" \/ Shown(r)
  PROVE  ShownIsCurrent'
<1>1. SUFFICES ASSUME NEW r \in Rows, outbox'[r].state = "sent" \/ Shown(r)',
                      Key[r] # 0, message[Key[r]] # 0
               PROVE  \/ chat'[message[Key[r]]] = 0
                      \/ chat'[message[Key[r]]] >= r
                      \/ chat'[message[Key[r]]] \in retried'
  BY DEF ShownIsCurrent
<1>2. \/ chat[message[Key[r]]] = 0
      \/ chat[message[Key[r]]] >= r
      \/ chat[message[Key[r]]] \in retried
  BY <1>1 DEF ShownIsCurrent
<1>3. chat'[message[Key[r]]] \in {chat[message[Key[r]]], 0}
  BY <1>1, KeysOf
<1> QED
  BY <1>2, <1>3

\* While r is in flight, a younger row of its event that reached the chat or was
\* recorded means that an operator retried r.
LEMMA YoungerMeansRetried ==
  ASSUME ClaimedInOrder, NEW r \in Rows, NEW t \in Rows,
         outbox[r].state = "sending", Key[r] = Key[t], Key[r] # 0, r < t,
         outbox[t].state = "sent" \/ Shown(t)
  PROVE  r \in retried
<1>1. outbox[t].gen > 0
  BY DEF ClaimedInOrder
<1>2. Sibling(t, r)
  BY OutboxAssumption DEF Sibling
<1> QED
  BY <1>1, <1>2 DEF ClaimedInOrder

LEMMA CurrentAccept ==
  ASSUME TypeOK, OneDrain, ChatKnown, ClaimedInOrder, ShownIsCurrent, NEW p \in Procs, Accept(p)
  PROVE  ShownIsCurrent'
<1> DEFINE r == sender[p].row
<1>1. /\ Created(p) \/ Edited(p)
      /\ sender[p].phase = "calling" /\ r \in Rows /\ Busy(p)
      /\ outbox[r].state = "sending"
      /\ UNCHANGED <<outbox, message, retried>>
  BY AcceptFacts DEF Fenced
<1>2. SUFFICES ASSUME NEW t \in Rows, outbox[t].state = "sent" \/ Shown(t)',
                      Key[t] # 0, message[Key[t]] # 0
               PROVE  \/ chat'[message[Key[t]]] = 0
                      \/ chat'[message[Key[t]]] >= t
                      \/ chat'[message[Key[t]]] \in retried
  BY <1>1 DEF ShownIsCurrent
<1>3. Key[t] \in Keys /\ message[Key[t]] \in DOMAIN chat
  BY <1>2, KeysOf DEF ChatKnown, RecordedIsOwn
<1>4. outbox[t].state = "sent" \/ Shown(t) =>
        \/ chat[message[Key[t]]] = 0
        \/ chat[message[Key[t]]] >= t
        \/ chat[message[Key[t]]] \in retried
  BY <1>2 DEF ShownIsCurrent
<1>5. r \in Nat /\ t \in Nat
  BY <1>1, OutboxAssumption
<1>6. CASE Created(p)
  <2>1. /\ \A m \in DOMAIN chat : chat'[m] = chat[m]
        /\ \A m \in DOMAIN chat' : m \in DOMAIN chat \/ m = Len(chat) + 1
        /\ chat'[Len(chat) + 1] = r
    BY <1>1, <1>6, ChatAppend DEF Created
  <2>2. CASE t = r
    <3>1. Gone(Key[r])
      BY <1>1, <1>2, <1>6, <2>2 DEF Created, ChatKnown, TargetIsRecorded
    <3> QED
      BY <1>2, <1>3, <2>1, <2>2, <3>1 DEF Gone
  <2>3. CASE t # r
    <3>1. outbox[t].state = "sent" \/ Shown(t)
      BY <1>2, <2>1, <2>3 DEF Shown
    <3> QED
      BY <1>3, <1>4, <2>1, <3>1
  <2> QED
    BY <2>2, <2>3
<1>7. CASE Edited(p)
  <2>1. /\ chat' = [chat EXCEPT ![sender[p].message] = r]
        /\ sender[p].message = message[Key[r]] /\ sender[p].message \in DOMAIN chat
        /\ \A k \in Keys : message[k] = sender[p].message => k = Key[r]
    BY <1>1, <1>7, EditedTarget DEF Edited
  <2>2. /\ DOMAIN chat' = DOMAIN chat /\ chat'[sender[p].message] = r
        /\ \A n \in DOMAIN chat : n # sender[p].message => chat'[n] = chat[n]
    BY <1>1, <2>1, ChatEdit
  <2>3. t = r \/ outbox[t].state = "sent" \/ Shown(t)
    BY <1>2, <2>2 DEF Shown
  <2>4. CASE Key[t] = Key[r]
    <3>1. chat'[message[Key[t]]] = r
      BY <2>1, <2>2, <2>4
    <3>2. CASE t <= r
      BY <1>5, <3>1, <3>2
    <3>3. CASE r < t
      BY <1>1, <1>2, <1>5, <2>3, <2>4, <3>1, <3>3, YoungerMeansRetried
    <3> QED
      BY <1>5, <3>2, <3>3
  <2>5. CASE Key[t] # Key[r]
    <3>1. chat'[message[Key[t]]] = chat[message[Key[t]]]
      BY <1>3, <2>1, <2>2, <2>5
    <3> QED
      BY <1>4, <2>3, <2>5, <3>1
  <2> QED
    BY <2>4, <2>5
<1> QED
  BY <1>1, <1>6, <1>7

LEMMA CurrentAck ==
  ASSUME TypeOK, OneDrain, ChatKnown, ClaimedInOrder, ShownIsCurrent, NEW p \in Procs, Ack(p)
  PROVE  ShownIsCurrent'
<1> DEFINE r == sender[p].row
           m == sender[p].message
<1>1. /\ sender[p].phase = "accepted" /\ r \in Rows
      /\ outbox[r].state = "sending"
      /\ outbox' = [outbox EXCEPT ![r].state = "sent"]
      /\ \A k \in Keys : message'[k] = IF k = Key[r] THEN m ELSE message[k]
      /\ UNCHANGED <<chat, retried>>
  BY AckFacts
<1>2. m \in DOMAIN chat /\ chat[m] \in {0, r}
  BY <1>1 DEF ChatKnown, TargetIsRecorded, Busy
<1>3. SUFFICES ASSUME NEW t \in Rows, outbox'[t].state = "sent" \/ Shown(t),
                      Key[t] # 0, message'[Key[t]] # 0
               PROVE  \/ chat[message'[Key[t]]] = 0
                      \/ chat[message'[Key[t]]] >= t
                      \/ chat[message'[Key[t]]] \in retried
  BY <1>1 DEF ShownIsCurrent, Shown
<1>4. Key[t] \in Keys /\ r \in Nat /\ t \in Nat
  BY <1>1, <1>3, KeysOf, OutboxAssumption
<1>5. t = r \/ outbox[t].state = "sent" \/ Shown(t)
  <2>1. t # r => outbox'[t] = outbox[t]
    BY <1>1 DEF TypeOK
  <2> QED
    BY <1>3, <2>1
<1>6. CASE Key[t] = Key[r]
  <2>1. message'[Key[t]] = m
    BY <1>1, <1>4, <1>6
  <2>2. CASE t <= r
    BY <1>2, <1>4, <2>1, <2>2
  <2>3. CASE r < t
    <3>1. r \in retried
      BY <1>1, <1>3, <1>4, <1>5, <1>6, <2>3, YoungerMeansRetried
    <3> QED
      BY <1>2, <2>1, <3>1
  <2> QED
    BY <1>4, <2>2, <2>3
<1>7. CASE Key[t] # Key[r]
  <2>1. message'[Key[t]] = message[Key[t]]
    BY <1>1, <1>4, <1>7
  <2> QED
    BY <1>3, <1>5, <1>7, <2>1 DEF ShownIsCurrent
<1> QED
  BY <1>6, <1>7

LEMMA CurrentStep ==
  ASSUME TypeOK, OneDrain, ChatKnown, ClaimedInOrder, ShownIsCurrent, [Next]_vars
  PROVE  ShownIsCurrent'
<1>0. outbox \in [Rows -> Row]
  BY DEF TypeOK
<1>1. CASE /\ UNCHANGED <<chat, message>> /\ retried \subseteq retried'
           /\ \A r \in Rows : outbox'[r].state = "sent" => outbox[r].state = "sent" \/ Shown(r)
  <2>1. \A r \in Rows : outbox'[r].state = "sent" \/ Shown(r)' => outbox[r].state = "sent" \/ Shown(r)
    BY <1>1 DEF Shown
  <2> QED
    BY <1>1, <2>1, CurrentFrame
<1>2. ASSUME NEW r \in Rows, \/ Enqueue(r) \/ Supersede(r) \/ BackoffElapses(r)
                             \/ RetryDead(r) \/ Reconcile(r)
      PROVE  ShownIsCurrent'
  <2>1. UNCHANGED <<chat, message>> /\ retried \subseteq retried'
    BY <1>2 DEF Enqueue, Supersede, BackoffElapses, RetryDead, Reconcile, history
  <2>2. /\ \A s \in Rows : s # r => outbox'[s] = outbox[s]
        /\ outbox'[r].state = "sent" => Shown(r)
    <3>0. outbox[r] \in Row
      BY <1>0
    <3>1. CASE Enqueue(r) \/ Supersede(r) \/ BackoffElapses(r) \/ RetryDead(r)
      BY <1>0, <3>0, <3>1 DEF Enqueue, Supersede, BackoffElapses, RetryDead, Row
    <3>2. CASE Reconcile(r)
      BY <1>0, <3>2 DEF Reconcile
    <3> QED
      BY <1>2, <3>1, <3>2
  <2> QED
    BY <1>1, <2>1, <2>2
<1>3. ASSUME NEW p \in Procs, Boot(p)
      PROVE  ShownIsCurrent'
  BY <1>1, <1>3, BootRows DEF Boot
<1>4. ASSUME NEW p \in Procs, Claim(p)
      PROVE  ShownIsCurrent'
  <2>1. PICK r \in Rows : 
          outbox' = [outbox EXCEPT ![r].state = "sending", ![r].attempts = @ + 1, ![r].gen = @ + 1]
    BY <1>4 DEF Claim
  <2>2. outbox'[r].state = "sending" /\ \A s \in Rows : s # r => outbox'[s] = outbox[s]
    BY <1>0, <2>1 DEF Row
  <2> QED
    BY <1>1, <1>4, <2>2 DEF Claim, history
<1>5. ASSUME NEW p \in Procs, Interrupted(p) \/ RateLimited(p) \/ Failed(p) \/ Rejected(p)
      PROVE  ShownIsCurrent'
  <2>1. UNCHANGED <<chat, message, retried>>
    BY <1>5 DEF Interrupted, RateLimited, Failed, Rejected, history
  <2>2. \A r \in Rows : outbox'[r].state = "sent" => outbox[r].state = "sent"
    <3>1. CASE Interrupted(p) \/ RateLimited(p)
      <4>1. Defer(p)
        BY <3>1 DEF Interrupted, RateLimited
      <4> QED
        BY <4>1, DeferFacts
    <3>2. CASE Failed(p)
      BY <3>2, RowType, MarkFailedFacts DEF Failed
    <3>3. CASE Rejected(p)
      BY <3>3, OutboxAssumption, MarkFailedFacts DEF Rejected
    <3> QED
      BY <1>5, <3>1, <3>2, <3>3
  <2> QED
    BY <1>1, <2>1, <2>2
<1>6. ASSUME NEW p \in Procs, Accept(p) \/ Ack(p)
      PROVE  ShownIsCurrent'
  BY <1>6, CurrentAccept, CurrentAck
<1>7. ASSUME NEW p \in Procs, \/ PauseElapses(p) \/ Close(p) \/ Exit(p) \/ Crash(p)
                              \/ Drained(p) \/ EditGone(p)
      PROVE  ShownIsCurrent'
  BY <1>1, <1>7 DEF PauseElapses, Close, Exit, Crash, Drained, EditGone, table, history
<1>8. ASSUME NEW m \in DOMAIN chat, Delete(m)
      PROVE  ShownIsCurrent'
  <2>1. chat' = [chat EXCEPT ![m] = 0] /\ UNCHANGED <<outbox, message, retried>>
    BY <1>8 DEF Delete, table, history
  <2>2. /\ DOMAIN chat' = DOMAIN chat /\ chat'[m] = 0
        /\ \A n \in DOMAIN chat : n # m => chat'[n] = chat[n]
    BY <2>1, ChatEdit
  <2>3. \A r \in Rows : Shown(r)' => Shown(r)
    BY <2>2, OutboxAssumption DEF Shown
  <2>4. \A k \in Keys : message[k] # 0 => chat'[message[k]] \in {chat[message[k]], 0}
    BY <2>2 DEF ChatKnown, RecordedIsOwn
  <2> QED
    BY <2>1, <2>3, <2>4, CurrentFrame
<1>9. CASE UNCHANGED vars
  BY <1>1, <1>9 DEF vars, table, history
<1> QED
  BY <1>2, <1>3, <1>4, <1>5, <1>6, <1>7, <1>8, <1>9 DEF Next, Settle

-----------------------------------------------------------------------------

EventParts == ChatKnown /\ ClaimedInOrder /\ ShownIsCurrent

LEMMA EventInit == Init => EventParts
<1> SUFFICES ASSUME Init PROVE EventParts
  OBVIOUS
<1>1. /\ \A p \in Procs : sender[p].phase = "idle"
      /\ \A k \in Keys : message[k] = 0
      /\ DOMAIN chat = {}
      /\ \A r \in Rows : outbox[r].state = "absent" /\ outbox[r].gen = 0
  <2>1. \A p \in Procs : sender[p].phase = "idle"
    BY DEF Init, Idle
  <2>2. DOMAIN chat = 1..0
    BY DEF Init
  <2>3. \A r \in Rows : outbox[r].state = "absent" /\ outbox[r].gen = 0
    BY DEF Init
  <2>4. \A k \in Keys : message[k] = 0
    BY DEF Init
  <2> QED
    BY <2>1, <2>2, <2>3, <2>4
<1>2. ChatKnown
  BY <1>1 DEF ChatKnown, RecordedIsOwn, TargetIsRecorded, ShownIsKnown, Busy
<1>3. ClaimedInOrder
  BY <1>1 DEF ClaimedInOrder, Shown
<1>4. ShownIsCurrent
  BY <1>1 DEF ShownIsCurrent, Shown
<1> QED
  BY <1>2, <1>3, <1>4 DEF EventParts

\* The chat and the table agree about every event: which message is its own, which
\* text that message shows, and that its rows went out in order.
THEOREM EventInvariant == Spec => []EventInv
<1>1. Init => TypeOK /\ DrainInv /\ EventInv
  BY TypeInit, DrainInit, EventInit DEF DrainInv, OneDrain, EventInv, EventParts, ChatKnown
<1>2. TypeOK /\ DrainInv /\ EventInv /\ [Next]_vars => (TypeOK /\ DrainInv /\ EventInv)'
  <2> SUFFICES ASSUME TypeOK, DrainInv, EventInv, [Next]_vars
               PROVE  TypeOK' /\ DrainInv' /\ EventInv'
    OBVIOUS
  <2>1. TypeOK'
    BY TypeStep
  <2>2. ASSUME Exclusive PROVE OneDrain' /\ ChatKnown' /\ ClaimedInOrder' /\ ShownIsCurrent'
    <3>1. OneDrain /\ ChatKnown /\ ClaimedInOrder /\ ShownIsCurrent
      BY <2>2 DEF DrainInv, OneDrain, EventInv, ChatKnown
    <3> QED
      BY <2>2, <3>1, DrainStep, ChatStep, OrderStep, CurrentStep
  <2> QED
    BY <2>1, <2>2 DEF DrainInv, OneDrain, EventInv, ChatKnown
<1> QED
  BY <1>1, <1>2, PTL DEF Spec

\* Two messages of one event are in the chat only after an acknowledgement of one
\* created for it was lost, whatever was retried, edited or deleted in between.
THEOREM OneMessageUnlessUnacked == Spec => []OneMessagePerEvent
<1>1. TypeOK /\ DrainInv /\ EventInv => OneMessagePerEvent
  <2> SUFFICES ASSUME TypeOK, DrainInv, EventInv, Exclusive,
                      NEW m \in DOMAIN chat, NEW n \in DOMAIN chat,
                      m # n, chat[m] # 0, chat[n] # 0, Sibling(chat[m], chat[n])
               PROVE  \E r \in Rows : Key[r] = Key[chat[m]] /\ unacked[r] > 0
    BY DEF OneMessagePerEvent
  <2> DEFINE k == Key[chat[m]]
             Kept(l) == \E p \in Procs : /\ sender[p].phase = "accepted" /\ sender[p].message = l
                                         /\ Key[sender[p].row] = k
  <2>1. OneDrain /\ RecordedIsOwn /\ TargetIsRecorded /\ ShownIsKnown
    BY DEF DrainInv, OneDrain, EventInv
  <2>2. k # 0 /\ Key[chat[n]] = k
    BY DEF Sibling
  <2>3. \A l \in {m, n} : Lost(k) \/ l = message[k] \/ Kept(l)
    BY <2>1, <2>2 DEF ShownIsKnown
  <2>4. SUFFICES ASSUME ~Lost(k) PROVE FALSE
    BY DEF Lost
  <2>5. PICK p \in Procs, l \in {m, n} :
          /\ sender[p].phase = "accepted" /\ sender[p].message = l /\ Key[sender[p].row] = k
          /\ l # message[k]
    BY <2>3, <2>4
  <2>6. Busy(p) /\ \A q \in Procs : q # p => ~Busy(q)
    BY <2>1, <2>5, OthersIdle DEF Busy, OneDrain, SenderHoldsRow
  <2>7. PICK o \in {m, n} : o # l
    BY <2>5
  <2>8. o = message[k]
    BY <2>3, <2>4, <2>5, <2>6, <2>7 DEF Busy
  <2>9. Gone(k)
    BY <2>1, <2>2, <2>5, <2>6 DEF TargetIsRecorded
  <2>10. chat[o] # 0 /\ o # 0
    BY <2>7 DEF TypeOK
  <2> QED
    BY <2>8, <2>9, <2>10 DEF Gone
<1> QED
  BY <1>1, TypeCorrect, DrainInvariant, EventInvariant, PTL

\* The recorded message never falls back to an older text than one recorded as sent,
\* but by an operator's retry.
THEOREM RecordedMessageIsCurrent == Spec => []StatusIsCurrent
<1>1. EventInv => StatusIsCurrent
  BY DEF EventInv, ShownIsCurrent, StatusIsCurrent
<1> QED
  BY <1>1, EventInvariant, PTL

-----------------------------------------------------------------------------
(* The fence. *)

\* Every way to settle a request changes only a fenced row and ends the request.
LEMMA SettleIsFenced ==
  ASSUME TypeOK, NEW p \in Procs, Settle(p), NEW r \in Rows, outbox'[r] # outbox[r]
  PROVE  Busy(p) /\ sender[p].row = r /\ Fenced(p) /\ ~Busy(p)'
<1>1. Busy(p)
  BY DEF Settle, Ack, Interrupted, RateLimited, Failed, Rejected, Busy
<1>2. ~Busy(p)'
  <2>1. ASSUME NEW phase \in {"idle", "next"}, To(p, phase) PROVE ~Busy(p)'
    BY <2>1 DEF To, Busy, TypeOK, Idle
  <2> QED
    BY <2>1 DEF Settle, Ack, Interrupted, RateLimited, Failed, Rejected
<1>3. outbox'[r] = outbox[r] \/ (sender[p].row = r /\ Fenced(p))
  <2>1. CASE Ack(p)
    BY <2>1 DEF Ack, table, TypeOK
  <2>2. CASE Interrupted(p) \/ RateLimited(p)
    BY <2>2, DeferFacts DEF Interrupted, RateLimited
  <2>3. CASE Failed(p)
    BY <2>3, MarkFailedFacts, RowType DEF Failed
  <2>4. CASE Rejected(p)
    BY <2>4, MarkFailedFacts, OutboxAssumption DEF Rejected
  <2> QED
    BY <2>1, <2>2, <2>3, <2>4 DEF Settle
<1> QED
  BY <1>1, <1>2, <1>3

\* With any number of concurrent senders, a claimed row leaves 'sending' only by the
\* answer to its newest claim, by a startup, or by an operator while none runs.
THEOREM LateAnswersDecideNothing == Spec => SettledByNewestSender
<1> DEFINE Settled(r) ==
      \/ \E p \in Procs : Busy(p) /\ sender[p].row = r /\ sender[p].gen = outbox[r].gen /\ ~Busy(p)'
      \/ \E p \in Procs : proc[p] = "down" /\ proc'[p] = "up"
      \/ Stopped
<1>1. ASSUME TypeOK, Next, NEW r \in Rows,
             outbox[r].state = "sending", outbox'[r].state # "sending"
      PROVE  Settled(r)
  <2>1. CASE \E s \in Rows : Enqueue(s) \/ Supersede(s) \/ BackoffElapses(s)
    BY <1>1, <2>1 DEF Enqueue, Supersede, BackoffElapses, TypeOK
  <2>2. CASE \E s \in Rows : RetryDead(s) \/ Reconcile(s)
    BY <2>2 DEF RetryDead, Reconcile
  <2>3. CASE \E p \in Procs : Boot(p)
    <3>1. PICK p \in Procs : proc[p] = "down" /\ proc' = [proc EXCEPT ![p] = "up"]
      BY <2>3, ZenonT(30) DEF Boot
    <3> QED
      BY <1>1, <3>1 DEF TypeOK
  <2>4. CASE \E p \in Procs : Claim(p)
    BY <1>1, <2>4 DEF Claim, TypeOK
  <2>5. CASE \E p \in Procs : \/ PauseElapses(p) \/ Close(p) \/ Exit(p) \/ Crash(p)
                              \/ Drained(p) \/ Accept(p) \/ EditGone(p)
    BY <1>1, <2>5 DEF PauseElapses, Close, Exit, Crash, Drained, Accept, EditGone, table
  <2>6. CASE \E p \in Procs : Settle(p)
    BY <1>1, <2>6, SettleIsFenced DEF Fenced
  <2>7. CASE \E m \in DOMAIN chat : Delete(m)
    BY <1>1, <2>7 DEF Delete, table
  <2> QED
    BY <1>1, <2>1, <2>2, <2>3, <2>4, <2>5, <2>6, <2>7 DEF Next
<1>2. TypeOK /\ [Next]_vars =>
        [\A r \in Rows : (outbox[r].state = "sending" /\ outbox'[r].state # "sending") => Settled(r)]_vars
  BY <1>1
<1> QED
  BY <1>2, TypeCorrect, PTL DEF Spec, SettledByNewestSender

\* Budget, copies and events are accounted for in every reachable state.
THEOREM DeliveryInvariant == Spec => []DeliveryInv
<1>1. TypeOK /\ AttemptsAccounted /\ DeadIsDeserved /\ DrainInv /\ EventInv => DeliveryInv
  BY DEF DeliveryInv
<1> QED
  BY <1>1, TypeCorrect, AttemptsExact, DeadDeserved, DrainInvariant, EventInvariant, PTL
=============================================================================
