------------------------------- MODULE Outbox -------------------------------
(***************************************************************************)
(* The Telegram outbox (src/telegram/outbox.ts): rows claimed in order by  *)
(* the daemon's serialized drain, sent or edited at Telegram, and settled  *)
(* under the generation of their claim.  Rows are their rowids.  Rows with *)
(* the same event key are successive texts of one Telegram message.        *)
(*                                                                         *)
(* Telegram is modelled by what the client can observe of it: a request is *)
(* accepted or not before the client's answer, and the answer may be lost. *)
(* A request the client gave up on is not accepted later.                  *)
(***************************************************************************)
EXTENDS Naturals, Sequences

CONSTANTS
    Rows,         \* telegram_outbox rowids, in the order of enqueueing
    Key,          \* Key[r]: event_key of r, 0 when it is NULL
    Notices,      \* rows retireStaleNotices retires at the next startup
    Superseded,   \* rows a newer state retires while they are pending
    MaxAttempts,  \* telegram_outbox.max_attempts
    Procs,        \* processes that can run the daemon
    Exclusive,    \* whether daemon ownership keeps them apart
    MaxFaults     \* bound: crashes, stops, timeouts, 429s, deletions, manual retries

ASSUME OutboxAssumption ==
    /\ Rows # {} /\ Rows \subseteq Nat \ {0}
    /\ Key \in [Rows -> Nat]
    /\ Notices \subseteq Rows
    /\ Superseded \subseteq Rows
    /\ MaxAttempts \in Nat \ {0}
    /\ Exclusive \in BOOLEAN
    /\ MaxFaults \in Nat

VARIABLES
    outbox,   \* the telegram_outbox table
    proc,     \* proc[p]: "down", "up", or "closing" once the client is closed
    sender,   \* sender[p]: the drain of p
    paused,   \* paused[p]: channelBlockedUntil > now, in memory
    message,  \* telegram_event_messages: message[k], 0 when there is none
    chat,     \* chat[m]: the row Telegram message m shows, 0 once deleted
    faults,   \* faults so far
    copies,   \* history: messages Telegram created for a row
    unacked,  \* history: those whose acknowledgement was lost
    charged,  \* history: claims of a row, since it was last reset, not refunded
    refused,  \* history: rows that met a permanent error
    retried   \* history: rows an operator retried

table == <<outbox, message>>
history == <<copies, unacked, charged, refused, retried>>
vars == <<table, proc, sender, paused, chat, faults, history>>

Keys == {Key[r] : r \in Rows} \ {0}

Row == [state : {"absent", "pending", "sending", "sent", "failed", "dead"},
        attempts : Nat, ready : BOOLEAN, gen : Nat]
Sender == [phase : {"idle", "next", "calling", "aborted", "accepted"},
           row : Rows, gen : Nat, message : Nat, fresh : BOOLEAN]

Idle == [phase |-> "idle", row |-> CHOOSE r \in Rows : TRUE, gen |-> 0,
         message |-> 0, fresh |-> FALSE]

TypeOK ==
    /\ outbox \in [Rows -> Row]
    /\ proc \in [Procs -> {"down", "up", "closing"}]
    /\ sender \in [Procs -> Sender]
    /\ paused \in [Procs -> BOOLEAN]
    /\ message \in [Keys -> Nat]
    /\ chat \in Seq(Rows \cup {0})
    /\ faults \in Nat
    /\ copies \in [Rows -> Nat]
    /\ unacked \in [Rows -> Nat]
    /\ charged \in [Rows -> Nat]
    /\ refused \in [Rows -> BOOLEAN]
    /\ retried \subseteq Rows

Init ==
    /\ outbox = [r \in Rows |-> [state |-> "absent", attempts |-> 0, ready |-> TRUE, gen |-> 0]]
    /\ proc = [p \in Procs |-> "down"]
    /\ sender = [p \in Procs |-> Idle]
    /\ paused = [p \in Procs |-> FALSE]
    /\ message = [k \in Keys |-> 0]
    /\ chat = <<>>
    /\ faults = 0
    /\ copies = [r \in Rows |-> 0]
    /\ unacked = [r \in Rows |-> 0]
    /\ charged = [r \in Rows |-> 0]
    /\ refused = [r \in Rows |-> FALSE]
    /\ retried = {}

-----------------------------------------------------------------------------
(* Claims and their fence *)

Sibling(r, s) == s # r /\ Key[s] = Key[r] /\ Key[r] # 0

\* Mutants: the rows of an event in any order, or behind a dead one.
ClaimableUnordered(r) == outbox[r].state = "pending" /\ outbox[r].ready

ClaimableBehindDead(r) ==
    /\ outbox[r].state = "pending" /\ outbox[r].ready
    /\ \A s \in Rows : Sibling(r, s) =>
         /\ outbox[s].state # "sending"
         /\ outbox[s].state \in {"pending", "dead"} => s > r

\* The WHERE clause of claimNext: the rows of an event go one at a time, in order.
Claimable(r) ==
    /\ outbox[r].state = "pending" /\ outbox[r].ready
    /\ \A s \in Rows : Sibling(r, s) =>
         /\ outbox[s].state # "sending"
         /\ outbox[s].state = "pending" => s > r

\* Mutant: no generation in the WHERE clause.
FencedByState(p) == outbox[sender[p].row].state = "sending"

\* state = 'sending' AND claim_generation = ?: without it the answer is 'lost'.
Fenced(p) == outbox[sender[p].row].state = "sending" /\ outbox[sender[p].row].gen = sender[p].gen

Busy(p) == sender[p].phase \in {"calling", "aborted", "accepted"}

\* Mutants: the whole budget is refunded, or nothing.
RefundAll(n) == n - MaxAttempts

RefundNothing(n) == n

\* MAX(0, attempts - 1)
Refund(n) == IF n = 0 THEN 0 ELSE n - 1

\* defer: back to pending later, without burning the attempt.
Defer(p) ==
    outbox' = IF Fenced(p)
                THEN [outbox EXCEPT ![sender[p].row].state = "pending",
                                    ![sender[p].row].attempts = Refund(@),
                                    ![sender[p].row].ready = FALSE]
                ELSE outbox

\* Mutant: dead one attempt early.
MarkFailedEarly(p, attempts) ==
    /\ outbox' =
         IF Fenced(p)
           THEN [outbox EXCEPT
                   ![sender[p].row].state = IF attempts + 1 >= MaxAttempts THEN "dead" ELSE "pending",
                   ![sender[p].row].ready = attempts + 1 >= MaxAttempts]
           ELSE outbox
    /\ charged' = [charged EXCEPT ![sender[p].row] = @ + (IF Fenced(p) THEN 1 ELSE 0)]

\* markFailed, with the attempts it is told were spent.
MarkFailed(p, attempts) ==
    /\ outbox' =
         IF Fenced(p)
           THEN [outbox EXCEPT
                   ![sender[p].row].state = IF attempts >= MaxAttempts THEN "dead" ELSE "pending",
                   ![sender[p].row].ready = attempts >= MaxAttempts]
           ELSE outbox
    /\ charged' = [charged EXCEPT ![sender[p].row] = @ + (IF Fenced(p) THEN 1 ELSE 0)]

\* A message whose acceptance the outbox never records.
LoseAck(p) ==
    unacked' = [unacked EXCEPT ![sender[p].row] =
                  @ + (IF sender[p].phase = "accepted" /\ sender[p].fresh THEN 1 ELSE 0)]

Fault == faults < MaxFaults /\ faults' = faults + 1

To(p, phase) == sender' = [sender EXCEPT ![p] = [Idle EXCEPT !.phase = phase]]

-----------------------------------------------------------------------------
(* Producers, time and the daemon *)

Enqueue(r) ==
    /\ outbox[r].state = "absent"
    /\ \A s \in Rows : s < r => outbox[s].state # "absent"
    /\ outbox' = [outbox EXCEPT ![r].state = "pending"]
    /\ UNCHANGED <<proc, sender, paused, message, chat, faults, history>>

\* Mutant: retires a row whatever its state.
SupersedeAny(r) ==
    /\ r \in Superseded
    /\ outbox[r].state # "absent"
    /\ outbox' = [outbox EXCEPT ![r].state = "failed"]
    /\ UNCHANGED <<proc, sender, paused, message, chat, faults, history>>

\* retirePendingAlertDeliveries, and prepareAsrRetry for the failure notice.
Supersede(r) ==
    /\ r \in Superseded
    /\ outbox[r].state = "pending"
    /\ outbox' = [outbox EXCEPT ![r].state = "failed"]
    /\ UNCHANGED <<proc, sender, paused, message, chat, faults, history>>

BackoffElapses(r) ==
    /\ outbox[r].state = "pending" /\ ~outbox[r].ready
    /\ outbox' = [outbox EXCEPT ![r].ready = TRUE]
    /\ UNCHANGED <<proc, sender, paused, message, chat, faults, history>>

PauseElapses(p) ==
    /\ paused[p]
    /\ paused' = [paused EXCEPT ![p] = FALSE]
    /\ UNCHANGED <<table, proc, sender, chat, faults, history>>

\* recoverSending: rows whose sender died go back to pending, their attempt spent.
RecoverSending(rows) ==
    [r \in Rows |-> IF rows[r].state = "sending" THEN [rows[r] EXCEPT !.state = "pending"] ELSE rows[r]]

\* retireStaleNotices
RetireStaleNotices(rows) ==
    [r \in Rows |-> IF r \in Notices /\ rows[r].state \in {"pending", "sending"}
                    THEN [rows[r] EXCEPT !.state = "failed"]
                    ELSE rows[r]]

\* Startup: recoverSending, then retireStaleNotices; the client comes after both.
Boot(p) ==
    /\ proc[p] = "down"
    /\ Exclusive => \A q \in Procs : proc[q] = "down"
    /\ outbox' = RetireStaleNotices(RecoverSending(outbox))
    /\ charged' = [r \in Rows |-> charged[r] + (IF outbox[r].state = "sending" THEN 1 ELSE 0)]
    /\ proc' = [proc EXCEPT ![p] = "up"]
    /\ paused' = [paused EXCEPT ![p] = FALSE]
    /\ UNCHANGED <<sender, message, chat, faults, copies, unacked, refused, retried>>

\* #closeTelegramClient aborts the request in flight and refuses every later one.
Close(p) ==
    /\ proc[p] = "up"
    /\ Fault
    /\ proc' = [proc EXCEPT ![p] = "closing"]
    /\ UNCHANGED <<table, sender, paused, chat, history>>

Exit(p) ==
    /\ proc[p] = "closing"
    /\ sender[p].phase = "idle"
    /\ proc' = [proc EXCEPT ![p] = "down"]
    /\ UNCHANGED <<table, sender, paused, chat, faults, history>>

Crash(p) ==
    /\ proc[p] # "down"
    /\ Fault
    /\ proc' = [proc EXCEPT ![p] = "down"]
    /\ To(p, "idle")
    /\ LoseAck(p)
    /\ UNCHANGED <<table, paused, chat, copies, charged, refused, retried>>

-----------------------------------------------------------------------------
(* The drain *)

\* claimNext and the read of eventMessageId.  A drain that outlives its client
\* claims once more before the closed client refuses the request.
Claim(p) ==
    /\ \/ proc[p] = "up" /\ sender[p].phase \in {"idle", "next"}
       \/ proc[p] = "closing" /\ sender[p].phase = "next"
    /\ ~paused[p]
    /\ \E r \in Rows :
         /\ Claimable(r)
         /\ \A s \in Rows : Claimable(s) => r <= s
         /\ outbox' = [outbox EXCEPT ![r].state = "sending", ![r].attempts = @ + 1, ![r].gen = @ + 1]
         /\ sender' = [sender EXCEPT ![p] =
              [phase |-> IF proc[p] = "up" THEN "calling" ELSE "aborted",
               row |-> r, gen |-> outbox[r].gen + 1,
               message |-> IF Key[r] = 0 THEN 0 ELSE message[Key[r]], fresh |-> FALSE]]
    /\ UNCHANGED <<proc, paused, message, chat, faults, history>>

\* The budget is spent, or claimNext found nothing.
Drained(p) ==
    /\ sender[p].phase = "next"
    /\ To(p, "idle")
    /\ UNCHANGED <<table, proc, paused, chat, faults, history>>

\* Telegram creates the message, or edits the event's message to the new text.
Accept(p) ==
    LET s == sender[p] IN
    /\ s.phase = "calling"
    /\ \/ /\ s.message = 0
          /\ chat' = Append(chat, s.row)
          /\ sender' = [sender EXCEPT ![p].phase = "accepted", ![p].fresh = TRUE,
                                      ![p].message = Len(chat) + 1]
          /\ copies' = [copies EXCEPT ![s.row] = @ + 1]
       \/ /\ s.message # 0
          /\ chat[s.message] # 0
          /\ chat' = [chat EXCEPT ![s.message] = s.row]
          /\ sender' = [sender EXCEPT ![p].phase = "accepted"]
          /\ UNCHANGED copies
    /\ UNCHANGED <<table, proc, paused, faults, unacked, charged, refused, retried>>

\* Mutant: any failed edit sends a new message.
EditFailed(p) ==
    /\ sender[p].phase = "calling"
    /\ sender[p].message # 0
    /\ sender' = [sender EXCEPT ![p].message = 0]
    /\ UNCHANGED <<table, proc, paused, chat, faults, history>>

\* "message to edit not found": sendEventText sends a new message instead.
EditGone(p) ==
    /\ sender[p].phase = "calling"
    /\ sender[p].message # 0
    /\ chat[sender[p].message] = 0
    /\ sender' = [sender EXCEPT ![p].message = 0]
    /\ UNCHANGED <<table, proc, paused, chat, faults, history>>

\* markSent, with recordEventMessage in its transaction.
Ack(p) ==
    LET s == sender[p] IN
    /\ s.phase = "accepted"
    /\ \/ /\ Fenced(p)
          /\ outbox' = [outbox EXCEPT ![s.row].state = "sent"]
          /\ message' = [k \in Keys |-> IF k = Key[s.row] THEN s.message ELSE message[k]]
          /\ UNCHANGED unacked
       \/ /\ ~Fenced(p)
          /\ LoseAck(p)
          /\ UNCHANGED table
    /\ To(p, "next")
    /\ UNCHANGED <<proc, paused, chat, faults, copies, charged, refused, retried>>

\* shouldRetryWithoutAttempt: a local deadline, or the shutdown of the client.
Interrupted(p) ==
    /\ Busy(p)
    /\ \/ proc[p] = "up" /\ Fault
       \/ proc[p] = "closing" /\ UNCHANGED faults
    /\ Defer(p)
    /\ LoseAck(p)
    /\ paused' = [paused EXCEPT ![p] = @ \/ (Fenced(p) /\ proc[p] = "up")]
    /\ To(p, "idle")
    /\ UNCHANGED <<proc, message, chat, copies, charged, refused, retried>>

\* HTTP 429 with retry_after.
RateLimited(p) ==
    /\ sender[p].phase = "calling"
    /\ Fault
    /\ Defer(p)
    /\ paused' = [paused EXCEPT ![p] = @ \/ Fenced(p)]
    /\ To(p, "idle")
    /\ UNCHANGED <<proc, message, chat, history>>

\* A network error or a 5xx stops the drain; a failure on this side (the file, the
\* delivery facts of an accepted message) lets it go on.
Failed(p) ==
    /\ sender[p].phase \in {"calling", "accepted"}
    /\ proc[p] = "up"
    /\ MarkFailed(p, outbox[sender[p].row].attempts)
    /\ LoseAck(p)
    /\ \/ To(p, "idle") /\ paused' = [paused EXCEPT ![p] = @ \/ Fenced(p)]
       \/ To(p, "next") /\ UNCHANGED paused
    /\ UNCHANGED <<proc, message, chat, faults, copies, refused, retried>>

\* A 4xx other than 429, or an answer of another status that is not JSON.
Rejected(p) ==
    /\ sender[p].phase \in {"calling", "accepted"}
    /\ MarkFailed(p, MaxAttempts)
    /\ LoseAck(p)
    /\ refused' = [refused EXCEPT ![sender[p].row] = @ \/ Fenced(p)]
    /\ To(p, "next")
    /\ UNCHANGED <<proc, paused, message, chat, faults, copies, retried>>

-----------------------------------------------------------------------------
(* The user and the operator; the offline commands need a stopped daemon. *)

Delete(m) ==
    /\ chat[m] # 0
    /\ Fault
    /\ chat' = [chat EXCEPT ![m] = 0]
    /\ UNCHANGED <<table, proc, sender, paused, history>>

Stopped == \A p \in Procs : proc[p] = "down"

\* retryDeadOutbox: `openmurmur outbox retry`.
RetryDead(r) ==
    /\ Stopped
    /\ outbox[r].state = "dead"
    /\ Fault
    /\ outbox' = [outbox EXCEPT ![r] = [state |-> "pending", attempts |-> 0, ready |-> TRUE,
                                        gen |-> @.gen + 1]]
    /\ charged' = [charged EXCEPT ![r] = 0]
    /\ refused' = [refused EXCEPT ![r] = FALSE]
    /\ retried' = retried \cup {r}
    /\ UNCHANGED <<proc, sender, paused, message, chat, copies, unacked>>

\* blockedReason of reconcile-delivery.ts
Reconcilable(r) ==
    /\ outbox[r].state \in {"pending", "sending", "failed", "dead"}
    /\ outbox[r].attempts > 0

Shown(r) == \E m \in DOMAIN chat : chat[m] = r

\* applyTelegramDeliveryReconciliation: the operator saw the message in the chat.
Reconcile(r) ==
    /\ Stopped
    /\ Reconcilable(r)
    /\ Shown(r)
    /\ outbox' = [outbox EXCEPT ![r].state = "sent"]
    /\ charged' = [charged EXCEPT ![r] = outbox[r].attempts - 1]
    /\ UNCHANGED <<proc, sender, paused, message, chat, faults, copies, unacked, refused, retried>>

-----------------------------------------------------------------------------

Settle(p) == Ack(p) \/ Interrupted(p) \/ RateLimited(p) \/ Failed(p) \/ Rejected(p)

Next ==
    \/ \E r \in Rows : Enqueue(r) \/ Supersede(r) \/ BackoffElapses(r) \/ RetryDead(r) \/ Reconcile(r)
    \/ \E p \in Procs :
         \/ PauseElapses(p) \/ Boot(p) \/ Close(p) \/ Exit(p) \/ Crash(p)
         \/ Claim(p) \/ Drained(p) \/ Accept(p) \/ EditGone(p) \/ Settle(p)
    \/ \E m \in DOMAIN chat : Delete(m)

Spec == Init /\ [][Next]_vars

-----------------------------------------------------------------------------
(* What the outbox promises *)

\* The retry budget, to the attempt, even with several senders: a 429, a timeout
\* or a shutdown costs nothing, and a stale sender neither refunds nor charges.
AttemptsAccounted ==
    \A r \in Rows : outbox[r].attempts =
        charged[r] + (IF outbox[r].state \in {"sending", "sent"} THEN 1 ELSE 0)

\* TELEGRAM.md, Reliability: only a permanent error or max_attempts charged claims
\* make a delivery dead.
DeadIsDeserved ==
    \A r \in Rows : outbox[r].state = "dead" => refused[r] \/ charged[r] >= MaxAttempts

\* Telegram holds a second copy of a row only when the acknowledgement of an
\* earlier one was lost, and never creates another once a row is recorded as sent.
DuplicatesAreUnacked ==
    Exclusive => \A r \in Rows :
        copies[r] <= unacked[r] + (IF outbox[r].state \in {"sending", "sent"} THEN 1 ELSE 0)

\* An event has one message in the chat, unless the acknowledgement of a message
\* created for it was lost.
OneMessagePerEvent ==
    \A m, n \in DOMAIN chat :
        (Exclusive /\ m # n /\ chat[m] # 0 /\ chat[n] # 0 /\ Sibling(chat[m], chat[n])) =>
            \E r \in Rows : Key[r] = Key[chat[m]] /\ unacked[r] > 0

\* The message recorded for an event shows a text at least as new as the newest one
\* recorded as sent, unless an operator retried an older one.
StatusIsCurrent ==
    \A r \in Rows :
        (Exclusive /\ outbox[r].state = "sent" /\ Key[r] # 0 /\ message[Key[r]] # 0) =>
            \/ chat[message[Key[r]]] = 0
            \/ chat[message[Key[r]]] >= r
            \/ chat[message[Key[r]]] \in retried

\* BACKLOG.md: "sent outbox rows commit their domain callback in the same
\* transaction or remain explicitly reconcilable as remote-unknown": a row whose
\* message is in the chat can be reconciled once the daemon is stopped.
LostAckReconcilable ==
    Stopped => \A r \in Rows : Shown(r) /\ outbox[r].state # "sent" => Reconcilable(r)

\* DATA_MODEL.md, claim_generation: while senders run side by side, a claimed row is
\* settled by the sender of its newest claim or returned by a startup; a late answer
\* to an older claim decides nothing.
SettledByNewestSender ==
    [][\A r \in Rows : (outbox[r].state = "sending" /\ outbox'[r].state # "sending") =>
         \/ \E p \in Procs : Busy(p) /\ sender[p].row = r /\ sender[p].gen = outbox[r].gen /\ ~Busy(p)'
         \/ \E p \in Procs : proc[p] = "down" /\ proc'[p] = "up"
         \/ Stopped]_vars

-----------------------------------------------------------------------------
(* The inductive invariant behind DuplicatesAreUnacked. *)

OneAlive == \A p, q \in Procs : proc[p] # "down" /\ proc[q] # "down" => p = q

\* A request in flight belongs to a live daemon that still holds its row.
SenderHoldsRow == \A p \in Procs : Busy(p) => proc[p] # "down" /\ Fenced(p)

\* A message of r was created and its acknowledgement is still to be recorded.
Unrecorded(r) ==
    \E p \in Procs : sender[p].phase = "accepted" /\ sender[p].fresh /\ sender[p].row = r

CopiesAccounted ==
    \A r \in Rows :
        copies[r] <= unacked[r] + (IF outbox[r].state = "sent" \/ Unrecorded(r) THEN 1 ELSE 0)

\* One drain at a time: every part holds in every reachable state of the exclusive daemon.
DrainInv == Exclusive => OneAlive /\ SenderHoldsRow /\ CopiesAccounted

-----------------------------------------------------------------------------
(* The inductive invariant behind OneMessagePerEvent and StatusIsCurrent. *)

\* An acknowledgement of a message created for event k was lost.
Lost(k) == \E r \in Rows : Key[r] = k /\ unacked[r] > 0

\* There is no recorded message of event k that an edit could reach.
Gone(k) == message[k] = 0 \/ chat[message[k]] = 0

\* A recorded message exists and shows a text of its event.
RecordedIsOwn ==
    \A k \in Keys : message[k] # 0 =>
        /\ message[k] \in DOMAIN chat
        /\ chat[message[k]] # 0 => Key[chat[message[k]]] = k

\* A request edits the recorded message of its event, or creates one because there
\* is none to edit; what it was accepted as is still there, or deleted.
TargetIsRecorded ==
    \A p \in Procs : Busy(p) =>
        LET s == sender[p]
            k == Key[s.row]
        IN /\ s.phase # "accepted" =>
                /\ ~s.fresh
                /\ s.message # 0 => k # 0 /\ s.message = message[k]
                /\ s.message = 0 /\ k # 0 => Gone(k)
           /\ s.phase = "accepted" =>
                /\ s.message \in DOMAIN chat
                /\ chat[s.message] \in {0, s.row}
                /\ s.fresh /\ k # 0 => Gone(k)
                /\ ~s.fresh => k # 0 /\ s.message = message[k]

\* A text of an event is in its recorded message, in one about to be recorded, or
\* an acknowledgement was lost.
ShownIsKnown ==
    \A m \in DOMAIN chat : (chat[m] # 0 /\ Key[chat[m]] # 0) =>
        \/ Lost(Key[chat[m]])
        \/ m = message[Key[chat[m]]]
        \/ \E p \in Procs : sender[p].phase = "accepted" /\ sender[p].message = m
                            /\ Key[sender[p].row] = Key[chat[m]]

\* Rows appear in order, what was claimed has a generation, and then its elder
\* siblings are settled, but for those an operator retried.
ClaimedInOrder ==
    /\ \A r, s \in Rows : s < r /\ outbox[r].state # "absent" => outbox[s].state # "absent"
    /\ \A r \in Rows : outbox[r].state \in {"sending", "sent", "dead"} \/ Shown(r) => outbox[r].gen > 0
    /\ \A r, s \in Rows : Sibling(r, s) /\ s < r /\ outbox[r].gen > 0 =>
          outbox[s].state \in {"sent", "failed", "dead"} \/ s \in retried

\* StatusIsCurrent for every text that was ever in the chat, recorded as sent or not.
ShownIsCurrent ==
    \A r \in Rows :
        ((outbox[r].state = "sent" \/ Shown(r)) /\ Key[r] # 0 /\ message[Key[r]] # 0) =>
            \/ chat[message[Key[r]]] = 0
            \/ chat[message[Key[r]]] >= r
            \/ chat[message[Key[r]]] \in retried

EventInv ==
    Exclusive =>
        RecordedIsOwn /\ TargetIsRecorded /\ ShownIsKnown /\ ClaimedInOrder /\ ShownIsCurrent

\* The retry budget and the copies in the chat are accounted for, and only a refused
\* or spent delivery is dead (claimNext, markFailed, defer, the refund at shutdown).
DeliveryInv == TypeOK /\ AttemptsAccounted /\ DeadIsDeserved /\ DrainInv /\ EventInv

-----------------------------------------------------------------------------
(* Liveness: the daemon restarts and its drain runs, delays pass, every request *)
(* is answered or times out; timeouts and 429s stop (MaxFaults).                *)

Fairness ==
    /\ WF_vars(\E p \in Procs : Boot(p))
    /\ \A r \in Rows : WF_vars(BackoffElapses(r))
    /\ \A p \in Procs :
         /\ WF_vars(PauseElapses(p)) /\ WF_vars(Exit(p)) /\ WF_vars(Claim(p)) /\ WF_vars(Drained(p))
         /\ WF_vars(Settle(p))

LiveSpec == Spec /\ Fairness

\* No row is blocked for ever behind its siblings, a pause, a crash or a stop.
RowsSettle ==
    \A r \in Rows : outbox[r].state = "pending" ~> outbox[r].state \in {"sent", "failed", "dead"}
=============================================================================
