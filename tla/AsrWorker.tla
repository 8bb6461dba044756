----------------------------- MODULE AsrWorker -----------------------------
(***************************************************************************)
(* The long-lived Python workers: WorkerProcess (src/asr/worker-process.ts)*)
(* and its owner MlxAsr (src/asr/mlx.ts), which loads the model once per   *)
(* process.  The worker answers requests strictly in order.  A caller      *)
(* repeats a request under the same id (an incoming file's), so an answer  *)
(* is matched by id and generation only.  Promise continuations run before *)
(* the next event, so a call goes from a settled await to the next one in  *)
(* one action.                                                             *)
(***************************************************************************)
EXTENDS Naturals, Sequences, FiniteSets

CONSTANTS
    Callers,   \* who may have a request in flight
    MaxGens,   \* bound: processes; a call starts at most one
    MaxCalls   \* bound: calls of all callers

WorkerAssumption ==
    /\ IsFiniteSet(Callers) /\ {"load", "shutdown"} \cap Callers = {}
    /\ MaxCalls \in Nat \ {0} /\ MaxGens \in Nat /\ MaxGens >= MaxCalls

Ids == Callers \cup {"load", "shutdown"}
Gens == 1 .. MaxGens
Ops == {"transcribe", "vad", "load", "shutdown"}

VARIABLES
    proc,      \* a process: none, spawning, alive, exited, closed (event seen)
    stage,     \* the signal it was last sent; "left" once nobody joins it any more
    queue,     \* what it was sent and has not answered
    out,       \* answers it has written
    model,     \* it has the model in memory
    child,     \* #child, 0 for null
    spawning,  \* #startPromise is pending
    stopping,  \* #stopping, generations being joined
    idle,      \* the idle timer of the current generation is armed
    notified,  \* generations whose exit the owner was told of
    pending,   \* #pending: the generation a request was sent to, 0 for none
    pc,        \* a caller's place
    op,        \* the operation it called
    calls,     \* calls it has made
    answer,    \* the call it was answered for
    why,       \* why its last call failed
    load,      \* #loadState
    unready,   \* #readinessFailure is set
    crashed,   \* #workerFailed
    closing    \* the stage of close()

processes == <<proc, stage, queue, out, model>>
worker == <<child, spawning, stopping, idle, notified, pending>>
callers == <<pc, op, calls, answer, why>>
owner == <<load, unready, crashed>>
vars == <<processes, worker, callers, owner, closing>>

Closed == closing # "no"
Waiting == {"parked", "starting", "loading", "asked"}
Request(id, o, n) == [id |-> id, op |-> o, call |-> n]

TypeOK ==
    /\ proc \in [Gens -> {"none", "spawning", "alive", "exited", "closed"}]
    /\ stage \in [Gens -> {"none", "term", "kill", "left"}]
    /\ queue \in [Gens -> Seq([id : Ids, op : Ops, call : 0 .. MaxCalls])]
    /\ out \in [Gens -> Seq([id : Ids, op : Ops, call : 0 .. MaxCalls, ok : BOOLEAN])]
    /\ model \in [Gens -> BOOLEAN]
    /\ child \in 0 .. MaxGens /\ (child # 0 => proc[child] \notin {"none", "closed"})
    /\ spawning \in BOOLEAN /\ idle \in BOOLEAN
    /\ stopping \subseteq Gens /\ notified \subseteq Gens /\ child \notin stopping \cup notified
    /\ pending \in [Ids -> {0, child}]
    /\ pc \in [Callers -> {"free", "ok", "failed"} \cup Waiting]
    /\ \A c \in Callers : (pc[c] = "asked") = (pending[c] # 0)
    /\ op \in [Callers -> {"transcribe", "vad"}] /\ calls \in [Callers -> 0 .. MaxCalls]
    /\ answer \in [Callers -> 0 .. MaxCalls]
    /\ why \in [Callers -> {"none", "answer", "gone", "idle", "closed"}]
    /\ load \in {"idle", "loading", "loaded", "failed"}
    /\ unready \in BOOLEAN /\ crashed \in BOOLEAN
    /\ closing \in {"no", "begun", "asked", "joining", "done"}

Init ==
    /\ proc = [g \in Gens |-> "none"] /\ stage = [g \in Gens |-> "none"]
    /\ queue = [g \in Gens |-> <<>>] /\ out = [g \in Gens |-> <<>>]
    /\ model = [g \in Gens |-> FALSE]
    /\ child = 0 /\ spawning = FALSE /\ stopping = {} /\ idle = FALSE /\ notified = {}
    /\ pending = [i \in Ids |-> 0]
    /\ pc = [c \in Callers |-> "free"] /\ op = [c \in Callers |-> "vad"]
    /\ calls = [c \in Callers |-> 0] /\ answer = [c \in Callers |-> 0]
    /\ why = [c \in Callers |-> "none"]
    /\ load = "idle" /\ unready = FALSE /\ crashed = FALSE
    /\ closing = "no"

-----------------------------------------------------------------------------
(* What a generation's end does *)

\* Mutant: the generation stays the current one.
WithoutNothing(g) == child

\* The current generation once g is gone.
Without(g) == IF child = g THEN 0 ELSE child

\* Mutant: the owner goes on as if the model were loaded.
TellOwnerNothing(g, reason) ==
    /\ notified' = notified \cup {g}
    /\ UNCHANGED owner

\* #notifyExit and the owner's onExit, once for a generation.
TellOwner(g, reason) ==
    /\ notified' = notified \cup {g}
    /\ IF g \in notified THEN UNCHANGED owner
       ELSE /\ load' = "idle"
            /\ unready' = (reason = "gone") /\ crashed' = (reason = "gone")

\* Mutant: who waits for the load is not told.
FailOwnRequests(g, reason) ==
    LET failed == {c \in Callers : pending[c] = g} IN
    /\ pending' = [i \in Ids |-> IF pending[i] = g THEN 0 ELSE pending[i]]
    /\ pc' = [c \in Callers |-> IF c \in failed THEN "failed" ELSE pc[c]]
    /\ why' = [c \in Callers |-> IF c \in failed THEN reason ELSE why[c]]
    /\ UNCHANGED <<op, calls, answer>>

\* #failGeneration: its requests are rejected, and so are those that wait for
\* the load it was asked for.
FailGeneration(g, reason) ==
    LET failed == {c \in Callers : pending[c] = g \/ (pc[c] = "loading" /\ pending["load"] = g)} IN
    /\ pending' = [i \in Ids |-> IF pending[i] = g THEN 0 ELSE pending[i]]
    /\ pc' = [c \in Callers |-> IF c \in failed THEN "failed" ELSE pc[c]]
    /\ why' = [c \in Callers |-> IF c \in failed THEN reason ELSE why[c]]
    /\ UNCHANGED <<op, calls, answer>>

\* Mutant: a request that timed out is rejected and its worker kept.
RecycleNothing(g, reason) ==
    /\ FailGeneration(g, reason)
    /\ UNCHANGED <<child, idle, stopping, stage, notified, owner>>

\* #recycle: the generation is fenced, then terminated and joined.
Recycle(g, reason) ==
    /\ child' = Without(g)
    /\ idle' = IF child = g THEN FALSE ELSE idle
    /\ stopping' = IF proc[g] = "closed" THEN stopping ELSE stopping \cup {g}
    /\ stage' = IF stage[g] = "none" THEN [stage EXCEPT ![g] = "term"] ELSE stage
    /\ FailGeneration(g, reason)
    /\ TellOwner(g, reason)

-----------------------------------------------------------------------------
(* A call *)

Sent(g, requests) == [queue EXCEPT ![g] = @ \o requests]

\* The worker runs (generation g): a transcription first needs the model.
Proceed(c, o, g, n) ==
    IF o = "vad" \/ load = "loaded"
    THEN /\ pc' = [pc EXCEPT ![c] = "asked"]
         /\ pending' = [pending EXCEPT ![c] = g]
         /\ queue' = Sent(g, <<Request(c, o, n)>>)
         /\ UNCHANGED load
    ELSE /\ pc' = [pc EXCEPT ![c] = "loading"]
         /\ IF pending["load"] # 0 THEN UNCHANGED <<pending, queue, load>>
            ELSE /\ pending' = [pending EXCEPT !["load"] = g]
                 /\ queue' = Sent(g, <<Request("load", "load", 0)>>)
                 /\ load' = "loading"

\* Mutant: a new worker is started beside the one that is being joined.
MustWaitForNone == FALSE

MustWait == stopping # {}

Spawn(c) ==
    \E g \in Gens :
        /\ proc[g] = "none" /\ \A h \in Gens : h < g => proc[h] # "none"
        /\ proc' = [proc EXCEPT ![g] = "spawning"]
        /\ child' = g /\ spawning' = TRUE
        /\ pc' = [pc EXCEPT ![c] = "starting"]
        /\ UNCHANGED <<queue, pending, load, idle, why>>

\* ensureStarted
EnsureStarted(c, o, n) ==
    \/ /\ Closed
       /\ pc' = [pc EXCEPT ![c] = "failed"] /\ why' = [why EXCEPT ![c] = "closed"]
       /\ UNCHANGED <<proc, child, spawning, queue, pending, load, idle>>
    \/ /\ ~Closed /\ child # 0
       /\ idle' = FALSE
       /\ Proceed(c, o, child, n)
       /\ UNCHANGED <<proc, child, spawning, why>>
    \/ /\ ~Closed /\ child = 0 /\ MustWait
       /\ pc' = [pc EXCEPT ![c] = "parked"]
       /\ UNCHANGED <<proc, child, spawning, queue, pending, load, idle, why>>
    \/ /\ ~Closed /\ child = 0 /\ ~MustWait
       /\ Spawn(c)

Made == {call \in Callers \X (1 .. MaxCalls) : call[2] <= calls[call[1]]}

\* transcribe, or vadSegments and diarize, which need no model.
Call(c) ==
    /\ pc[c] \in {"free", "ok", "failed"}
    /\ Cardinality(Made) < MaxCalls
    /\ \E o \in {"transcribe", "vad"} :
         /\ op' = [op EXCEPT ![c] = o]
         /\ calls' = [calls EXCEPT ![c] = @ + 1]
         /\ EnsureStarted(c, o, calls[c] + 1)
    /\ UNCHANGED <<stage, out, model, stopping, notified, answer, unready, crashed, closing>>

\* The join it waited for is over.
TryAgain(c) ==
    /\ pc[c] = "parked" /\ stopping = {}
    /\ EnsureStarted(c, op[c], calls[c])
    /\ UNCHANGED <<stage, out, model, stopping, notified, op, calls, answer, unready, crashed, closing>>

Starting == {c \in Callers : pc[c] = "starting"}

\* The spawn event: the caller that waited for it goes on, or finds close().
Spawned ==
    /\ spawning /\ child # 0 /\ proc[child] = "spawning"
    /\ proc' = [proc EXCEPT ![child] = "alive"] /\ spawning' = FALSE
    /\ \E c \in Starting :
         IF Closed
         THEN /\ pc' = [pc EXCEPT ![c] = "failed"] /\ why' = [why EXCEPT ![c] = "closed"]
              /\ UNCHANGED <<pending, queue, load>>
         ELSE Proceed(c, op[c], child, calls[c]) /\ UNCHANGED why
    /\ UNCHANGED <<stage, out, model, child, stopping, idle, notified, op, calls, answer,
                   unready, crashed, closing>>

\* There is no such program: the error event, and then the close event.
SpawnFails ==
    /\ spawning /\ child # 0 /\ proc[child] = "spawning"
    /\ proc' = [proc EXCEPT ![child] = "exited"] /\ spawning' = FALSE
    /\ LET g == child IN
       /\ child' = 0 /\ idle' = FALSE
       /\ stopping' = stopping \cup {g} /\ stage' = [stage EXCEPT ![g] = "term"]
       /\ pending' = [i \in Ids |-> IF pending[i] = g THEN 0 ELSE pending[i]]
       /\ LET failed == {c \in Callers : pending[c] = g \/ pc[c] \in {"starting", "loading"}} IN
          /\ pc' = [c \in Callers |-> IF c \in failed THEN "failed" ELSE pc[c]]
          /\ why' = [c \in Callers |-> IF c \in failed THEN "gone" ELSE why[c]]
       /\ TellOwner(g, "gone")
    /\ UNCHANGED <<queue, out, model, op, calls, answer, closing>>

-----------------------------------------------------------------------------
(* The process *)

\* It answers the oldest request, well or with an error.
Serves(g) ==
    /\ proc[g] = "alive" /\ queue[g] # <<>>
    /\ \E ok \in BOOLEAN :
         LET r == Head(queue[g]) IN
         /\ r.op = "shutdown" => ok
         /\ queue' = [queue EXCEPT ![g] = Tail(@)]
         /\ out' = [out EXCEPT ![g] = Append(@, [id |-> r.id, op |-> r.op, call |-> r.call, ok |-> ok])]
         /\ model' = IF r.op = "load" /\ ok THEN [model EXCEPT ![g] = TRUE] ELSE model
         /\ proc' = IF r.op = "shutdown" THEN [proc EXCEPT ![g] = "exited"] ELSE proc
    /\ UNCHANGED <<stage, worker, callers, owner, closing>>

\* It obeys a signal, or crashes.
Dies(g) ==
    /\ proc[g] = "alive"
    /\ proc' = [proc EXCEPT ![g] = "exited"] /\ queue' = [queue EXCEPT ![g] = <<>>]
    /\ UNCHANGED <<stage, out, model, worker, callers, owner, closing>>

\* Mutant: SIGTERM is all it gets.
GraceForever(g) == FALSE /\ UNCHANGED vars

\* The grace after SIGTERM, and then the one after SIGKILL, ends without the close event.
\* #terminateAndJoin then gives up, and the generation is no longer waited for.
GraceEnds(g) ==
    /\ proc[g] \in {"alive", "exited"}
    /\ \/ /\ stage[g] = "term"
          /\ stage' = [stage EXCEPT ![g] = "kill"]
          /\ UNCHANGED stopping
       \/ /\ stage[g] = "kill"
          /\ stage' = [stage EXCEPT ![g] = "left"]
          /\ stopping' = stopping \ {g}
    /\ UNCHANGED <<proc, queue, out, model, child, spawning, idle, notified, pending, callers, owner, closing>>

\* The close event, after the last of its output.
CloseEvent(g) ==
    /\ proc[g] = "exited" /\ out[g] = <<>>
    /\ proc' = [proc EXCEPT ![g] = "closed"] /\ stage' = [stage EXCEPT ![g] = "none"]
    /\ queue' = [queue EXCEPT ![g] = <<>>] /\ model' = [model EXCEPT ![g] = FALSE]
    /\ child' = Without(g)
    /\ idle' = IF child = g THEN FALSE ELSE idle
    /\ stopping' = stopping \ {g}
    /\ FailGeneration(g, "gone")
    /\ TellOwner(g, IF Closed THEN "closed" ELSE "gone")
    /\ UNCHANGED <<out, spawning, closing>>

\* A request does not reach a process that has exited.
WriteFails ==
    /\ child # 0 /\ proc[child] = "exited" /\ \E i \in Ids : pending[i] = child
    /\ Recycle(child, IF Closed THEN "closed" ELSE "gone")
    /\ UNCHANGED <<proc, queue, out, model, spawning, closing>>

-----------------------------------------------------------------------------
(* Answers and timers *)

\* Mutant: the model counts as loaded whatever the worker answered.
LoadedAnyway(ok) == TRUE

LoadSucceeds(ok) == ok

\* The load was answered: its callers go on, or fail with it.
LoadAnswered(g, ok) ==
    LET waiting == {c \in Callers : pc[c] = "loading"}
        sent == [c \in waiting |-> Request(c, "transcribe", calls[c])] IN
    /\ pending' = [i \in Ids |-> IF i = "load" THEN 0
                                 ELSE IF LoadSucceeds(ok) /\ i \in waiting THEN g ELSE pending[i]]
    /\ IF LoadSucceeds(ok)
       THEN /\ pc' = [c \in Callers |-> IF c \in waiting THEN "asked" ELSE pc[c]]
            /\ \E order \in [1 .. Cardinality(waiting) -> waiting] :
                 /\ \A i, j \in DOMAIN order : i # j => order[i] # order[j]
                 /\ queue' = Sent(g, [i \in DOMAIN order |-> sent[order[i]]])
            /\ load' = "loaded" /\ unready' = FALSE /\ crashed' = FALSE
            /\ UNCHANGED why
       ELSE /\ pc' = [c \in Callers |-> IF c \in waiting THEN "failed" ELSE pc[c]]
            /\ why' = [c \in Callers |-> IF c \in waiting THEN "answer" ELSE why[c]]
            /\ load' = "failed" /\ unready' = TRUE
            /\ UNCHANGED <<queue, crashed>>
    /\ UNCHANGED answer

\* #dispatch: an answer that nobody of its generation waits for is dropped.
\* close() goes on from the spawn event before any other.
Dispatch(g) ==
    /\ out[g] # <<>> /\ ~(closing = "begun" /\ ~spawning)
    /\ out' = [out EXCEPT ![g] = Tail(@)]
    /\ UNCHANGED <<op, calls>>
    /\ LET r == Head(out[g]) IN
       IF pending[r.id] # g THEN UNCHANGED <<pending, pc, answer, why, queue, owner, idle>>
       ELSE /\ idle' = (~Closed /\ ~(r.id = "load" /\ LoadSucceeds(r.ok)))
            /\ IF r.id = "load" THEN LoadAnswered(g, r.ok)
               ELSE /\ pending' = [pending EXCEPT ![r.id] = 0]
                    /\ IF r.id = "shutdown" THEN UNCHANGED <<pc, answer, why>>
                       ELSE /\ pc' = [pc EXCEPT ![r.id] = IF r.ok THEN "ok" ELSE "failed"]
                            /\ answer' = [answer EXCEPT ![r.id] = r.call]
                            /\ why' = [why EXCEPT ![r.id] = IF r.ok THEN @ ELSE "answer"]
                    /\ UNCHANGED <<queue, owner>>
    /\ UNCHANGED <<proc, stage, model, child, spawning, stopping, notified, closing>>

\* A request of the current generation takes too long.  The worker is single
\* threaded: those behind it are blocked as well.  The spawn event, which comes
\* within milliseconds, is not that late.
TimesOut ==
    /\ ~spawning
    /\ \E i \in Ids : pending[i] # 0 /\ Recycle(pending[i], IF Closed THEN "closed" ELSE "gone")
    /\ UNCHANGED <<proc, queue, out, model, spawning, closing>>

\* Mutant: the timer does not look for requests in flight.
RetiredAlways == TRUE

Retired == \A i \in Ids : pending[i] = 0

IdleFires ==
    /\ idle /\ ~Closed /\ child # 0
    /\ IF Retired THEN Recycle(child, "idle")
       ELSE idle' = FALSE /\ UNCHANGED <<child, stopping, stage, notified, pending, callers, owner>>
    /\ UNCHANGED <<proc, queue, out, model, spawning, closing>>

-----------------------------------------------------------------------------
(* close *)

\* Requests in flight are rejected, and the worker is asked to shut down.
AskToShutDown ==
    IF child = 0
    THEN closing' = "joining" /\ UNCHANGED <<queue, idle, pending, pc, why, load, unready>>
    ELSE LET failed == {c \in Callers : pending[c] = child \/ pc[c] = "loading"} IN
         /\ closing' = "asked"
         /\ idle' = FALSE
         /\ pending' = [i \in Ids |-> IF i = "shutdown" THEN child ELSE 0]
         /\ pc' = [c \in Callers |-> IF c \in failed THEN "failed" ELSE pc[c]]
         /\ why' = [c \in Callers |-> IF c \in failed THEN "closed" ELSE why[c]]
         /\ queue' = Sent(child, <<Request("shutdown", "shutdown", 0)>>)
         /\ load' = IF pending["load"] = child THEN "failed" ELSE load
         /\ unready' = (unready \/ pending["load"] = child)

\* close(), which first waits for a spawn event.
Close ==
    /\ closing = "no" \/ (closing = "begun" /\ ~spawning)
    /\ IF spawning THEN closing' = "begun" /\ UNCHANGED <<queue, idle, pending, pc, why, load, unready>>
       ELSE AskToShutDown
    /\ UNCHANGED <<proc, stage, out, model, child, spawning, stopping, notified, op, calls, answer, crashed>>

\* Mutant: a worker that was asked to shut down is left to do so.
Trusted ==
    /\ closing = "asked" /\ pending["shutdown"] = 0 /\ closing' = "joining"
    /\ UNCHANGED <<proc, queue, out, model, spawning, child, idle, stopping, stage, pending,
                   callers, notified, owner>>

\* It has answered, or it never will.
ShutDown ==
    /\ closing = "asked" /\ pending["shutdown"] = 0 /\ closing' = "joining"
    /\ IF child # 0 THEN Recycle(child, "closed")
       ELSE UNCHANGED <<child, idle, stopping, stage, pending, callers, notified, owner>>
    /\ UNCHANGED <<proc, queue, out, model, spawning>>

CloseEnds ==
    /\ closing = "joining" /\ stopping = {} /\ closing' = "done"
    /\ load' = "idle"
    /\ UNCHANGED <<processes, worker, callers, unready, crashed>>

Next ==
    \/ \E c \in Callers : Call(c) \/ TryAgain(c)
    \/ Spawned \/ SpawnFails
    \/ \E g \in Gens : Serves(g) \/ Dies(g) \/ GraceEnds(g) \/ CloseEvent(g) \/ Dispatch(g)
    \/ WriteFails \/ TimesOut \/ IdleFires
    \/ Close \/ ShutDown \/ CloseEnds

Spec == Init /\ [][Next]_vars

\* Timers fire, the spawn and output events arrive and continuations run; a process
\* need neither answer, nor obey a signal, nor ever be seen to close.
Fairness ==
    /\ \A c \in Callers : WF_vars(TryAgain(c))
    /\ WF_vars(Spawned \/ SpawnFails)
    /\ \A g \in Gens :
         WF_vars(GraceEnds(g)) /\ WF_vars(Dispatch(g))
    /\ WF_vars(WriteFails) /\ WF_vars(TimesOut)
    /\ WF_vars(Closed /\ Close) /\ WF_vars(ShutDown) /\ WF_vars(CloseEnds)

LiveSpec == Spec /\ Fairness

-----------------------------------------------------------------------------
(* Properties *)

\* A process that was sent SIGKILL and outlived the grace after it.
Abandoned(g) == stage[g] = "left"

\* A fresh worker never runs beside one that is being terminated: two models in
\* memory, two workers that answer (ensureStarted waits for #stopping).  Only a
\* process that outlived SIGKILL may run beside it.
OneWorker == Cardinality({g \in Gens : proc[g] \in {"spawning", "alive"} /\ ~Abandoned(g)}) <= 1

\* What a caller is given is the answer to the call it waits for, though a call
\* that timed out had the same id and its answer was under way (#dispatch).
AnswerIsForThisCall == \A c \in Callers : pc[c] = "ok" => answer[c] = calls[c]

\* No worker is asked to transcribe before it has loaded the model: a replaced
\* process starts without it (MlxAsr.#ensureLoaded, onExit).
TranscribesWithModel ==
    \A g \in Gens : \A i \in DOMAIN queue[g] : queue[g][i].op = "transcribe" => model[g]

HealthOk == ~Closed /\ ~unready /\ (child = 0 => ~crashed) /\ (child # 0 => load = "loaded")

\* health(): a running worker that is reported well has the model in memory, and
\* a model in memory takes back the failure reported before.
HealthIsHonest ==
    child # 0 => (HealthOk => model[child]) /\ (load = "loaded" /\ ~Closed => HealthOk)

\* No call fails because its worker was idle (#scheduleIdleRetirement).
IdleHarmsNoCall == \A c \in Callers : why[c] # "idle"

\* close() leaves no process behind but one that outlived SIGKILL.
CloseLeavesNothing == closing = "done" => \A g \in Gens : proc[g] \in {"none", "closed"} \/ Abandoned(g)

-----------------------------------------------------------------------------
(* The facts behind them: with those above, an inductive invariant *)

\* A generation that is not closed or given up is the current one or the one being
\* joined, and there is never one of each; one that has not begun was sent nothing.
Generations ==
    /\ child # 0 => stopping = {}
    /\ \A g, h \in stopping : g = h
    /\ \A g \in Gens : proc[g] \in {"spawning", "alive", "exited"} => g = child \/ g \in stopping \/ Abandoned(g)
    /\ spawning = (child # 0 /\ proc[child] = "spawning")
    /\ idle => child # 0 /\ ~spawning
    /\ \A g \in Gens : proc[g] = "none" => g \notin notified /\ queue[g] = <<>>
    /\ \A g \in Gens : proc[g] \in {"none", "spawning"} => out[g] = <<>>

\* The owner takes the model for loaded only when the current worker has it.
ModelKnown ==
    /\ \A g \in Gens : \A i \in DOMAIN queue[g] :
         \A o \in {"load", "shutdown"} : queue[g][i].op = o <=> queue[g][i].id = o
    /\ \A g \in Gens : \A i \in DOMAIN out[g] : out[g][i].id = "load" /\ out[g][i].ok => model[g]
    /\ load = "loaded" => child # 0 /\ model[child] /\ (Closed \/ ~unready)

\* A close that has asked the worker to shut down leaves no request in flight, and
\* one that joins it no current worker.
Dismissed ==
    /\ closing \in {"asked", "joining", "done"} =>
         ~spawning /\ \A i \in Ids : i # "shutdown" => pending[i] = 0
    /\ closing \in {"joining", "done"} => child = 0

\* Before that, what the current worker was sent and has written is one message for
\* each id that has a request in flight, about the call the caller waits for.
Current(m) == pending[m.id] = child /\ (m.id \in Callers => m.call = calls[m.id])

Matched ==
    child # 0 /\ closing \in {"no", "begun"} =>
        /\ \A i \in DOMAIN queue[child] : Current(queue[child][i])
        /\ \A i \in DOMAIN out[child] : Current(out[child][i])
        /\ \A i, j \in DOMAIN queue[child] : queue[child][i].id = queue[child][j].id => i = j
        /\ \A i, j \in DOMAIN out[child] : out[child][i].id = out[child][j].id => i = j
        /\ \A i \in DOMAIN queue[child] : \A j \in DOMAIN out[child] :
             queue[child][i].id # out[child][j].id

-----------------------------------------------------------------------------
(* What must happen *)

\* Every call ends, whatever the worker does and whenever it is closed.
NoCallLost == \A c \in Callers : pc[c] \in Waiting ~> pc[c] \in {"ok", "failed"}

\* close() returns, although the worker may ignore the request to shut down and
\* both signals.
CloseReturns == Closed ~> closing = "done"
=============================================================================
