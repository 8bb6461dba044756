------------------------------- MODULE Alerts -------------------------------
(***************************************************************************)
(* Health alerts: the evaluator (src/health/alerts.ts), the health loop    *)
(* that feeds it and the outbox rows it leaves (Daemon.#tickHealth,        *)
(* #processHealthAlert, recordCaptureAvailabilityAlert and                 *)
(* recordKeychainAccessAlert of src/cli/daemon.ts).                        *)
(*                                                                         *)
(* A behaviour is about one condition, or about the two that share the     *)
(* chat's recording message: recorder_stale and capture_failed.  The       *)
(* messages of one event are sent in order (Outbox), each an edit of the   *)
(* last.  Time passes in steps of the smallest of the intervals.           *)
(***************************************************************************)
EXTENDS Naturals, Sequences, FiniteSets

CONSTANTS
    Plays,       \* the sets of alerts a behaviour may be about
    Debounce,    \* health.alertDebounceSeconds
    Cooldown,    \* health.alertCooldownMinutes
    Stale,       \* health.recorderStaleSeconds
    FirstFrame,  \* FIRST_SOURCE_FRAME_TIMEOUT_MS
    Stall,       \* SOURCE_FRAME_STALL_TIMEOUT_MS
    MaxChanges,  \* bound: changes of the condition
    MaxFaults    \* bound: restarts, failing transactions and failing sends

Recording == {"recorder_stale", "capture_failed"}
Fingerprinted == {"llm_unavailable", "worker_crashed", "capture_failed"}
Local == {"telegram_delivery", "keychain_unavailable"}
AlertIds == Recording \cup Fingerprinted \cup Local \cup {"disk_low"}
Key(a) == IF a \in Recording THEN "recording" ELSE a
Faulty == {"f1", "f2"}             \* what is wrong, as far as the chat can tell
Seen == {"ok"} \cup Faulty
Shown == Seen \cup {"flows"}       \* "flows": the recorder is not stale any more

AlertAssumption ==
    /\ \A ids \in Plays : ids = Recording \/ \E a \in AlertIds \ Recording : ids = {a}
    /\ {Debounce, Cooldown, Stale, MaxChanges, MaxFaults} \subseteq Nat
    /\ {FirstFrame, Stall} \subseteq Nat \ {0}

VARIABLES
    ids,      \* the alerts of this behaviour
    cond,     \* the condition itself, as a check would find it
    row,      \* alert_state: raised or not, its fingerprint, time since it was sent (no reminder
              \* of a fingerprinted alert depends on it, so that it stands still there)
    pending,  \* what the evaluator waits to see confirmed, in memory
    steady,   \* since when the health loop has seen the same
    sample,   \* what the health loop has collected and not evaluated
    queue,    \* unsent outbox rows, oldest first
    chat,     \* what the message of an event says
    dropped,  \* the last row of an event failed for good
    frame,    \* time since the last source frame, Never before the first one
    age,      \* time since the daemon started, while no frame has come
    running,  \* the recorder runs
    broken,   \* its failure is taken up (#recorderFailure)
    up,       \* the daemon runs
    changes, faults \* bound counters

memory == <<pending, steady, sample>>
source == <<frame, age, running, broken, up>>
bounds == <<changes, faults>>
vars == <<ids, cond, row, memory, queue, chat, dropped, source, bounds>>

Never == Stall + 1
Oldest == IF Debounce > Cooldown THEN Debounce ELSE Cooldown
Keys == {Key(a) : a \in AlertIds}
NoSample == [a \in AlertIds |-> "none"]
Blank == [known |-> FALSE, active |-> FALSE, fp |-> "ok", age |-> 0]
Settled == [on |-> FALSE, active |-> FALSE, age |-> 0]

TypeOK ==
    /\ ids \in Plays
    /\ cond \in [AlertIds -> Seen \cup {"recovering"}]
    /\ row \in [AlertIds -> [known : BOOLEAN, active : BOOLEAN, fp : Seen, age : 0 .. Oldest]]
    /\ \A a \in AlertIds : (row[a].fp = "ok") = ~row[a].active
    /\ pending \in [AlertIds -> [on : BOOLEAN, active : BOOLEAN, age : 0 .. Oldest]]
    /\ steady \in [AlertIds -> [active : BOOLEAN, age : 0 .. Oldest]]
    /\ sample \in [AlertIds -> Seen \cup {"recovering", "none"}]
    /\ queue \in
          Seq([alert : AlertIds, shows : Shown, notice : BOOLEAN, state : {"pending", "sending", "left"}])
    /\ Cardinality({i \in DOMAIN queue : queue[i].state = "sending"}) <= 1
    /\ chat \in [Keys -> Shown \cup {"none"}] /\ dropped \subseteq Keys
    /\ frame \in 0 .. Never /\ age \in 0 .. FirstFrame
    /\ running \in BOOLEAN /\ broken \in BOOLEAN /\ up \in BOOLEAN
    /\ (running => up /\ ~broken) /\ (broken => up)
    /\ changes \in 0 .. MaxChanges /\ faults \in 0 .. MaxFaults

Init ==
    /\ ids \in Plays
    /\ cond = [a \in AlertIds |-> "ok"]
    /\ row = [a \in AlertIds |-> Blank]
    /\ pending = [a \in AlertIds |-> Settled]
    /\ steady = [a \in AlertIds |-> [active |-> FALSE, age |-> 0]]
    /\ sample = NoSample
    /\ queue = <<>> /\ chat = [k \in Keys |-> "none"] /\ dropped = {}
    /\ frame = Never /\ age = 0 /\ running = TRUE /\ broken = FALSE /\ up = TRUE
    /\ changes = 0 /\ faults = 0

-----------------------------------------------------------------------------
(* AlertEvaluator.evaluate: what becomes of the row, of the debounce and of  *)
(* the chat when alert a is seen as s.                                       *)

\* Mutant: a cleared row keeps what it was raised for.
RaisedKeepsFault(a, s) ==
    [known |-> TRUE, active |-> s # "ok", fp |-> IF s = "ok" THEN row[a].fp ELSE s, age |-> 0]

Raised(a, s) == [known |-> TRUE, active |-> s # "ok", fp |-> s, age |-> 0]
Outcome(r, p, t) == [row |-> r, pending |-> p, transition |-> t]

\* Mutant: a reminder is due whenever the condition is seen again.
StillActiveAlways(a, s) == Outcome(Raised(a, s), Settled, "repeated")

StillActive(a, s) ==
    IF a \in Fingerprinted
    THEN IF row[a].fp = s THEN Outcome(row[a], Settled, "none")
         ELSE Outcome(Raised(a, s), Settled, "changed")
    ELSE IF row[a].age < Cooldown THEN Outcome(row[a], Settled, "none")
         ELSE Outcome([row[a] EXCEPT !.age = 0], Settled, "repeated")

Decide(a, s) ==
    LET active == s # "ok" IN
    IF row[a].active # active THEN Outcome(Raised(a, s), Settled, IF active THEN "raised" ELSE "cleared")
    ELSE IF active THEN StillActive(a, s)
    ELSE Outcome([row[a] EXCEPT !.known = TRUE], Settled, "none")

\* Mutant: an observation that agrees with the row leaves the wait as it was.
DebounceForever(a, s) ==
    LET active == s # "ok"
        wait == IF pending[a].on /\ pending[a].active = active THEN pending[a]
                ELSE [on |-> TRUE, active |-> active, age |-> 0] IN
    IF a = "capture_failed" \/ Debounce = 0 THEN Decide(a, s)
    ELSE IF row[a].active = active THEN [Decide(a, s) EXCEPT !.pending = pending[a]]
    ELSE IF wait.age < Debounce THEN Outcome(row[a], wait, "none") ELSE Decide(a, s)

Evaluated(a, s) ==
    LET active == s # "ok"
        wait == IF pending[a].on /\ pending[a].active = active THEN pending[a]
                ELSE [on |-> TRUE, active |-> active, age |-> 0] IN
    IF a = "capture_failed" \/ Debounce = 0 \/ row[a].active = active THEN Decide(a, s)
    ELSE IF wait.age < Debounce THEN Outcome(row[a], wait, "none") ELSE Decide(a, s)

-----------------------------------------------------------------------------
(* The notices *)

\* The rows at these positions of the queue, in their order: what an UPDATE of the others
\* leaves unsent. Said without a recursion, for the proofs.
Rows(kept) ==
    [n \in 1 .. Cardinality(kept) |->
        queue[CHOOSE i \in kept : Cardinality({j \in kept : j <= i}) = n]]

Notice(a, s) ==
    [alert |-> a, shows |-> IF a = "recorder_stale" /\ s = "ok" THEN "flows" ELSE s,
     notice |-> FALSE, state |-> "pending"]

\* Mutant: an unsent notice of the same alert stays in the queue.
RetireNone(a) == queue

RetirePending(a) ==
    Rows({i \in DOMAIN queue :
            ~(queue[i].alert = a /\ ~queue[i].notice /\ queue[i].state = "pending")})

\* Mutant: an outage of Telegram is reported to Telegram.
EnqueuedAnyway(a, s, t) == t # "none"

\* shouldEnqueueHealthAlert, and the access of recordKeychainAccessAlert.
Enqueued(a, s, t) == t # "none" /\ (a \in Local => t = "cleared")

\* processHealthAlert retires first, and so does a raised telegram_delivery.
HealthNotice(a, s, t) ==
    IF Enqueued(a, s, t) THEN Append(RetirePending(a), Notice(a, s))
    ELSE IF a = "telegram_delivery" /\ s # "ok" THEN RetirePending(a) ELSE queue

\* recordCaptureAvailabilityAlert retires nothing.
CaptureNotice(q, s, t) == IF t = "none" THEN q ELSE Append(q, Notice("capture_failed", s))

-----------------------------------------------------------------------------
(* The health loop *)

StaleSeen == IF ~running \/ (frame # Never /\ frame > Stale) THEN "f1" ELSE "ok"

Change ==
    /\ changes < MaxChanges /\ changes' = changes + 1
    /\ \E a \in ids \ Recording, s \in Seen \cup {"recovering"} :
         /\ s # cond[a] /\ (s = "recovering" => a = "worker_crashed")
         /\ (s = "f2" => a \in Fingerprinted)
         /\ cond' = [cond EXCEPT ![a] = s]
    /\ UNCHANGED <<ids, row, memory, queue, chat, dropped, source, faults>>

\* The inputs are collected before the last of the checks is awaited.
Collect ==
    /\ up /\ sample = NoSample
    /\ sample' = [a \in AlertIds |->
         IF a \notin ids \/ a = "capture_failed" THEN "none"
         ELSE IF a = "recorder_stale" THEN StaleSeen ELSE cond[a]]
    /\ LET now(a) == sample'[a] # "ok" IN
       steady' = [a \in AlertIds |->
         IF sample'[a] \in {"none", "recovering"} \/ steady[a].active = now(a) THEN steady[a]
         ELSE [active |-> now(a), age |-> 0]]
    /\ UNCHANGED <<ids, cond, row, pending, queue, chat, dropped, source, bounds>>

\* Mutant: the row is written although its notice was not.
StoresAlone(a, s) ==
    /\ row' = [row EXCEPT ![a] = Evaluated(a, s).row]
    /\ pending' = [pending EXCEPT ![a] = Settled]
    /\ UNCHANGED queue

Confirmed(a, s) == row[a].active = (s # "ok") \/ Debounce = 0 \/ pending[a].age >= Debounce

\* The transaction fails: the edge is not consumed and stays confirmed.
RollsBack(a, s) ==
    /\ Confirmed(a, s)
    /\ pending' = IF row[a].active = (s # "ok") THEN [pending EXCEPT ![a] = Settled] ELSE pending
    /\ UNCHANGED <<row, queue>>

\* A recovering worker is neither a failure nor a recovery: no evaluation.
TickHealth ==
    /\ up /\ sample # NoSample
    /\ \E a \in ids \ {"capture_failed"} :
         LET s == sample[a]  o == Evaluated(a, s) IN
         \/ /\ s = "recovering"
            /\ UNCHANGED <<row, pending, queue, faults>>
         \/ /\ s # "recovering"
            /\ row' = [row EXCEPT ![a] = o.row]
            /\ pending' = [pending EXCEPT ![a] = o.pending]
            /\ queue' = HealthNotice(a, s, o.transition)
            /\ UNCHANGED faults
         \/ /\ s # "recovering" /\ faults < MaxFaults /\ faults' = faults + 1
            /\ RollsBack(a, s)
    /\ sample' = NoSample
    /\ UNCHANGED <<ids, cond, steady, chat, dropped, source, changes>>

-----------------------------------------------------------------------------
(* Recording *)

\* recordCaptureAvailability, whose failure is only logged.
RecordCapture(s) ==
    LET o == Evaluated("capture_failed", s) IN
    \/ /\ row' = [row EXCEPT !["capture_failed"] = o.row]
       /\ queue' = CaptureNotice(queue, s, o.transition)
       /\ UNCHANGED faults
    \/ /\ faults < MaxFaults /\ faults' = faults + 1
       /\ UNCHANGED <<row, queue>>

Started == [alert |-> "recorder_stale", shows |-> "ok", notice |-> TRUE, state |-> "pending"]

\* Mutant: the notice of a start is sent although the clear was not recorded.
StartedAnyway ==
    /\ ids = Recording /\ running /\ frame = Never
    /\ frame' = 0 /\ age' = 0
    /\ LET o == Evaluated("capture_failed", "ok") IN
       \/ /\ row' = [row EXCEPT !["capture_failed"] = o.row]
          /\ queue' = IF o.transition = "cleared" THEN CaptureNotice(queue, "ok", o.transition)
                      ELSE Append(queue, Started)
          /\ UNCHANGED faults
       \/ /\ faults < MaxFaults /\ faults' = faults + 1
          /\ queue' = Append(queue, Started)
          /\ UNCHANGED row
    /\ UNCHANGED <<ids, cond, memory, chat, dropped, running, broken, up, changes>>

\* announceRecordingStarted, at the first frame of this run: a clear takes the
\* place of the notice, and a failed one keeps it back.
FirstFrameArrives ==
    /\ ids = Recording /\ running /\ frame = Never
    /\ frame' = 0 /\ age' = 0
    /\ LET o == Evaluated("capture_failed", "ok") IN
       \/ /\ row' = [row EXCEPT !["capture_failed"] = o.row]
          /\ queue' = IF o.transition = "cleared" THEN CaptureNotice(queue, "ok", o.transition)
                      ELSE Append(queue, Started)
          /\ UNCHANGED faults
       \/ /\ faults < MaxFaults /\ faults' = faults + 1
          /\ UNCHANGED <<row, queue>>
    /\ UNCHANGED <<ids, cond, memory, chat, dropped, running, broken, up, changes>>

FrameArrives ==
    /\ ids = Recording /\ running /\ frame \in 1 .. Stall
    /\ frame' = 0
    /\ UNCHANGED <<ids, cond, row, memory, queue, chat, dropped, age, running, broken, up, bounds>>

\* The health loop tries again what announceRecordingStarted could not record.
ClearCapture ==
    /\ ids = Recording /\ up /\ ~broken /\ frame # Never
    /\ row["capture_failed"].active
    /\ RecordCapture("ok")
    /\ UNCHANGED <<ids, cond, memory, chat, dropped, source, changes>>

TimedOut == running /\ IF frame = Never THEN age >= FirstFrame ELSE frame >= Stall

\* The watchdog, or any other end of the capture stream: SessionRecorder.run
\* closes the session and drains its finalizers, while the health loop goes on.
CaptureEnds ==
    /\ ids = Recording /\ running
    /\ TimedOut \/ changes < MaxChanges
    /\ changes' = IF TimedOut THEN changes ELSE changes + 1
    /\ running' = FALSE
    /\ UNCHANGED <<ids, cond, row, memory, queue, chat, dropped, frame, age, broken, up, faults>>

\* The failure is recorded, and the outbox drained before the process ends. What
\* ends for the system's sleep records none, and its text is not of this message.
CaptureFails ==
    /\ ids = Recording /\ up /\ ~running /\ ~broken
    /\ broken' = TRUE
    /\ RecordCapture("f1") \/ UNCHANGED <<row, queue, faults>>
    /\ UNCHANGED <<ids, cond, memory, chat, dropped, frame, age, running, up, changes>>

\* The process ends after a failure of capture, or is stopped or killed: its
\* claim is left in the table.
Exit ==
    /\ up /\ up' = FALSE /\ running' = FALSE /\ broken' = FALSE
    /\ faults < MaxFaults /\ faults' = faults + 1
    /\ queue' = [i \in DOMAIN queue |->
                   IF queue[i].state = "sending" THEN [queue[i] EXCEPT !.state = "left"] ELSE queue[i]]
    /\ UNCHANGED <<ids, cond, row, memory, chat, dropped, frame, age, changes>>

\* Mutant: startup leaves the claims of the run before.
StartKeepsClaims ==
    /\ ~up /\ up' = TRUE /\ running' = TRUE /\ frame' = Never /\ age' = 0
    /\ pending' = [a \in AlertIds |-> Settled]
    /\ sample' = NoSample
    /\ queue' = Rows({i \in DOMAIN queue : ~queue[i].notice})
    /\ UNCHANGED <<ids, cond, row, steady, chat, dropped, broken, bounds>>

\* Startup: claims return, and the notices of the run before are retired.
Start ==
    /\ ~up /\ up' = TRUE /\ running' = TRUE /\ frame' = Never /\ age' = 0
    /\ pending' = [a \in AlertIds |-> Settled]
    /\ sample' = NoSample
    /\ queue' = LET kept == Rows({i \in DOMAIN queue : ~queue[i].notice}) IN
                [i \in DOMAIN kept |-> [kept[i] EXCEPT !.state = "pending"]]
    /\ UNCHANGED <<ids, cond, row, steady, chat, dropped, broken, bounds>>

-----------------------------------------------------------------------------
(* Time, and the outbox *)

Later(n) == IF n < Oldest THEN n + 1 ELSE n

\* Time does not pass a deadline of the watchdog. It passes while a capture that
\* ended is drained and while its failure is sent.
Tick ==
    /\ ~TimedOut
    /\ row' = [a \in AlertIds |->
                 IF row[a].active /\ a \notin Fingerprinted THEN [row[a] EXCEPT !.age = Later(@)] ELSE row[a]]
    /\ pending' = [a \in AlertIds |->
                     IF pending[a].on THEN [pending[a] EXCEPT !.age = Later(@)] ELSE pending[a]]
    /\ steady' = [a \in AlertIds |-> [steady[a] EXCEPT !.age = Later(@)]]
    /\ frame' = IF ids = Recording /\ running /\ frame < Stall THEN frame + 1 ELSE frame
    /\ age' = IF ids = Recording /\ running /\ frame = Never THEN age + 1 ELSE age
    /\ UNCHANGED <<ids, cond, sample, queue, chat, dropped, running, broken, up, bounds>>

Heads == {i \in DOMAIN queue : \A j \in 1 .. i - 1 : Key(queue[j].alert) # Key(queue[i].alert)}

ClaimNotice ==
    /\ up /\ \A i \in DOMAIN queue : queue[i].state # "sending"
    /\ \E i \in Heads :
         queue[i].state = "pending" /\ queue' = [queue EXCEPT ![i].state = "sending"]
    /\ UNCHANGED <<ids, cond, row, memory, chat, dropped, source, bounds>>

\* Sent, released for a retry, or given up.
NoticeSettles ==
    /\ up
    /\ \E i \in DOMAIN queue :
         LET k == Key(queue[i].alert) IN
         /\ queue[i].state = "sending"
         /\ \/ /\ chat' = [chat EXCEPT ![k] = queue[i].shows]
               /\ queue' = Rows(DOMAIN queue \ {i}) /\ dropped' = dropped \ {k}
               /\ UNCHANGED faults
            \/ /\ faults < MaxFaults /\ faults' = faults + 1
               /\ queue' = [queue EXCEPT ![i].state = "pending"]
               /\ UNCHANGED <<chat, dropped>>
            \/ /\ faults < MaxFaults /\ faults' = faults + 1
               /\ queue' = Rows(DOMAIN queue \ {i}) /\ dropped' = dropped \cup {k}
               /\ UNCHANGED chat
    /\ UNCHANGED <<ids, cond, row, memory, source, changes>>

Next ==
    \/ Change \/ Collect \/ TickHealth
    \/ FirstFrameArrives \/ FrameArrives \/ ClearCapture
    \/ CaptureEnds \/ CaptureFails
    \/ Exit \/ Start
    \/ Tick \/ ClaimNotice \/ NoticeSettles

Spec == Init /\ [][Next]_vars

Fairness ==
    /\ WF_vars(Collect) /\ WF_vars(TickHealth)
    /\ WF_vars(Tick) /\ WF_vars(Start)
    /\ WF_vars(ClaimNotice) /\ WF_vars(NoticeSettles)

LiveSpec == Spec /\ Fairness

-----------------------------------------------------------------------------
(* Properties *)

Plain == ids \ (Recording \cup Local)
Unsent(k) == {i \in DOMAIN queue : Key(queue[i].alert) = k}

\* When nothing about an alert waits to be sent, the chat says what the table
\* says: raised with this fault, or recovered. A failed transaction, a retry,
\* a restart or a newer edge cannot leave the message behind
\* (evaluate with onSend in its transaction, retirePendingAlertDeliveries).
ChatAgrees ==
    \A a \in Plain :
        Unsent(a) = {} /\ a \notin dropped =>
            chat[a] = IF row[a].active THEN row[a].fp
                      ELSE IF chat[a] = "none" THEN "none" ELSE "ok"

\* "A newer pending state supersedes the older unsent alert instead of
\* accumulating cooldown reminders": one waits behind the one being sent, or
\* behind the one whose send just failed.
NothingAccumulates == \A a \in ids \ Recording : Cardinality(Unsent(a)) <= 2

\* An outage of Telegram or of the Keychain is never announced in the chat,
\* only its end is (shouldEnqueueHealthAlert).
OutageStaysLocal ==
    \A a \in ids \cap Local : chat[a] \in {"none", "ok"} /\ \A i \in Unsent(a) : queue[i].shows = "ok"

\* A row is raised or cleared only after the loop has seen nothing else for as
\* long as it must, whatever it saw before or in an earlier run (#pending).
EdgeIsSteady ==
    [][\A a \in AlertIds \ {"capture_failed"} :
         row'[a].active # row[a].active =>
             steady[a].active = row'[a].active /\ steady[a].age >= Debounce]_vars

\* A reminder of a plain condition comes no sooner than the cooldown allows.
RemindersAreRare ==
    [][\A a \in ids \ (Fingerprinted \cup Recording) :
         row[a].active /\ row'[a].active /\ row'[a].age < row[a].age => row[a].age >= Cooldown]_vars

\* The last of the words about recording, where one is waiting.
LastWord(k) == {queue[i].shows : i \in {n \in Unsent(k) : \A m \in Unsent(k) : m <= n}}

Reads(k, said) == IF Unsent(k) = {} THEN k \notin dropped /\ chat[k] \in said ELSE LastWord(k) \subseteq said

\* While an incident is open, the last word about recording is neither that it was started
\* nor that the failure is over: over failed transactions, lost sends and restarts
\* (shouldSendRecordingStartedNotice, the retirement of startup notices, recordCaptureAvailabilityAlert).
IncidentStaysRed == row["capture_failed"].active => ~Reads("recording", {"ok"})

\* "Only a real frame from a replacement generation is authoritative recovery for that
\* incident": before one, the chat does not read that recording is well.
NoGreenBeforeFrame ==
    row["capture_failed"].active /\ up /\ frame = Never => ~Reads("recording", {"ok", "flows"})

-----------------------------------------------------------------------------
(* The facts behind them *)

\* The queue is about these alerts; a row that is none of them says that recording goes on.
AboutThese ==
    \A i \in DOMAIN queue :
        queue[i].alert \in ids /\ (queue[i].notice => ids = Recording /\ queue[i].shows = "ok")

\* The row being sent is the first, and only a process that ended leaves a claim.
ClaimsInOrder ==
    \A i \in DOMAIN queue :
        (queue[i].state = "sending" => i = 1) /\ (queue[i].state = "left" => ~up)

FewWait == ids # Recording => Len(queue) <= 2

\* What is evaluated was seen, and a condition without fingerprint has one fault.
Sampled ==
    /\ sample # NoSample => \A a \in ids \ {"capture_failed"} : sample[a] # "none"
    /\ \A a \in AlertIds : a \notin ids \ {"capture_failed"} => sample[a] = "none"
    /\ \A a \in AlertIds \ Fingerprinted : "f2" \notin {cond[a], sample[a], row[a].fp}
    /\ \A a \in AlertIds \ ids : ~row[a].active

\* The newest row says what the table says.
LastAgrees ==
    \A a \in Plain : queue # <<>> => queue[Len(queue)].shows = row[a].fp

\* An edge waits no longer than the loop has seen the other side of it.
WaitsForEdge ==
    \A a \in AlertIds :
        /\ sample[a] \in Seen => steady[a].active = (sample[a] # "ok")
        /\ pending[a].on =>
              /\ a # "capture_failed" /\ pending[a].active # row[a].active
              /\ sample[a] \in {"none", "recovering"} => steady[a].active = pending[a].active
              /\ steady[a].active = pending[a].active => pending[a].age <= steady[a].age

-----------------------------------------------------------------------------
(* What must happen *)

\* What stays as it is, good or bad, is what the chat says in the end, unless
\* the last message about it was given up.
SteadyIsTold ==
    \A a \in {"llm_unavailable", "worker_crashed", "disk_low"}, s \in Seen :
        <>[](a \in ids /\ cond[a] = s) =>
            <>[](a \in dropped \/ chat[a] = s \/ (s = "ok" /\ chat[a] = "none"))
=============================================================================
