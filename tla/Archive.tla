------------------------------- MODULE Archive -------------------------------
(***************************************************************************)
(* From the open part to the finalized archive: the storage side of the    *)
(* recorder (src/sessionizer/recorder.ts, PartWriter, the finalization     *)
(* journal) and the startup recovery that repairs what a crash left        *)
(* between the journal, the rename and the database                        *)
(* (src/capture/recovery.ts).                                              *)
(*                                                                         *)
(* The capture lane applies the intents of Sessionizer one mutation at a   *)
(* time; detached finalizers close, publish and commit parts beside it.    *)
(***************************************************************************)
EXTENDS Naturals, FiniteSets

CONSTANTS
    NSessions,  \* sessions recorded, in this order
    NParts,     \* parts a session may reach
    MaxCrashes, \* bound: crashes and clean stops
    MaxFaults   \* bound: failing encoders, inserts and commits, those of outcomes too

Capacity == 2

Sessions == 1 .. NSessions
PartsOf(s) == {s} \X (1 .. NParts)
Parts == Sessions \X (1 .. NParts)
None == <<0, 0>>
InitialJobs == {"deliver_audio", "asr"}

ASSUME ArchiveAssumption ==
    /\ {NSessions, NParts} \subseteq Nat \ {0}
    /\ {MaxCrashes, MaxFaults} \subseteq Nat

VARIABLES
    session,   \* audio_sessions.state; "HELD" is FAILED with audio_finalize_failed
    exact,     \* timing_exact
    count,     \* part_count as the outcome wrote it
    row,       \* audio_parts: "open" until finalized = 1, "gone" once deleted_at is set
    journal,   \* audio_finalization_journal: for a part, or for the part that ends the session
    temp,      \* .flac.part files
    archive,   \* published files
    jobs,      \* initial jobs of the session
    current,   \* the session being recorded
    wanted,    \* the open_part intent being applied
    open,      \* openPart
    discarding, \* discardingSessionId
    reserved,  \* reservedFinalizers
    fin,       \* detached finalizers: what each is about to do
    due,       \* finalizers that ended and have queued a look at the deferred outcome
    outcome,   \* pendingSessionOutcomes, with storageDiscarded
    phase,     \* the daemon: recovering "parts", then "sessions", "up", "stopping", "down"
    crashes, faults \* bound counters

database == <<session, exact, count, row, journal, jobs>>
files == <<temp, archive>>
lane == <<current, wanted, open, discarding>>
bounds == <<crashes, faults>>
vars == <<database, files, lane, reserved, fin, due, outcome, phase, bounds>>

TypeOK ==
    /\ session \in [Sessions -> {"none", "ACTIVE", "FINALIZING", "PROCESSING", "REJECTED", "HELD", "FAILED"}]
    /\ exact \in [Sessions -> BOOLEAN]
    /\ count \in [Sessions -> 0 .. NParts]
    /\ row \in [Parts -> {"none", "open", "final", "gone"}]
    /\ journal \in [Parts -> {"none", "part", "end"}]
    /\ temp \subseteq Parts /\ archive \subseteq Parts
    /\ jobs \in [Sessions -> SUBSET InitialJobs]
    /\ current \in 0 .. NSessions /\ discarding \in 0 .. NSessions
    /\ wanted \in Parts \cup {None} /\ open \in Parts \cup {None}
    /\ reserved \in 0 .. Capacity
    /\ fin \in [Parts -> {"no", "close", "commit", "abort"}] /\ due \subseteq Parts
    /\ outcome \in [Sessions -> {"none", "finalized", "rejected", "discarded"}]
    /\ phase \in {"parts", "sessions", "up", "stopping", "down"}
    /\ crashes \in 0 .. MaxCrashes /\ faults \in 0 .. MaxFaults

\* A release that enqueued the initial jobs after its transaction may have left session 1
\* in PROCESSING without some of them.
Init ==
    /\ \E legacy \in BOOLEAN, J \in SUBSET InitialJobs :
        /\ session = [s \in Sessions |-> IF legacy /\ s = 1 THEN "PROCESSING" ELSE "none"]
        /\ row = [p \in Parts |-> IF legacy /\ p = <<1, 1>> THEN "final" ELSE "none"]
        /\ archive = IF legacy THEN {<<1, 1>>} ELSE {}
        /\ count = [s \in Sessions |-> IF legacy /\ s = 1 THEN 1 ELSE 0]
        /\ jobs = [s \in Sessions |-> IF legacy /\ s = 1 THEN J ELSE {}]
    /\ exact = [s \in Sessions |-> FALSE]
    /\ journal = [p \in Parts |-> "none"]
    /\ temp = {}
    /\ current = 0 /\ wanted = None /\ open = None /\ discarding = 0
    /\ reserved = 0
    /\ fin = [p \in Parts |-> "no"] /\ due = {}
    /\ outcome = [s \in Sessions |-> "none"]
    /\ phase = "down"
    /\ crashes = 0 /\ faults = 0

Fault == faults < MaxFaults /\ faults' = faults + 1
Working == {p \in Parts : fin[p] # "no"}
Finalizing(s) == {p \in PartsOf(s) : fin[p] # "no"}
Finalized(s) == {p \in PartsOf(s) : row[p] = "final"}
EndJournal(s) == {p \in PartsOf(s) : journal[p] = "end"}

-----------------------------------------------------------------------------
(* The capture lane *)

StartSession(s) ==
    /\ phase = "up" /\ current = 0 /\ session[s] = "none"
    /\ \A r \in Sessions : r < s => session[r] # "none"
    /\ session' = [session EXCEPT ![s] = "ACTIVE"]
    /\ current' = s /\ wanted' = <<s, 1>>
    /\ UNCHANGED <<exact, count, row, journal, jobs, files, open, discarding, reserved, fin, due, outcome, phase, bounds>>

\* Mutant: the capacity is off by one.
OneMoreSlot == reserved <= Capacity

HasSlot == reserved < Capacity

\* openNewPart: a slot is reserved before the row exists, or the session is discarded.
OpenPart ==
    LET p == wanted
        s == wanted[1] IN
    /\ wanted # None
    /\ wanted' = None
    /\ \/ /\ discarding = s
          /\ UNCHANGED <<row, temp, open, discarding, reserved, fin, faults>>
       \/ /\ discarding # s /\ ~HasSlot
          /\ discarding' = s
          /\ UNCHANGED <<row, temp, open, reserved, fin, faults>>
       \/ /\ discarding # s /\ HasSlot
          /\ reserved' = reserved + 1
          /\ temp' = temp \cup {p}
          /\ \/ row' = [row EXCEPT ![p] = "open"] /\ open' = p /\ UNCHANGED <<discarding, fin, faults>>
             \/ Fault /\ discarding' = s /\ fin' = [fin EXCEPT ![p] = "abort"] /\ UNCHANGED <<row, open>>
    /\ UNCHANGED <<session, exact, count, journal, archive, jobs, current, due, outcome, phase, crashes>>

\* closeOpenPart: journal and, for the last part, FINALIZING are durable before the part
\* leaves the lane; a part that cannot be journalled is abandoned.
CloseOpenPart(last) ==
    IF open = None THEN UNCHANGED <<session, journal, open, fin, faults>>
    ELSE
    /\ open' = None
    /\ \/ /\ journal' = [journal EXCEPT ![open] = IF last THEN "end" ELSE "part"]
          /\ session' = IF last THEN [session EXCEPT ![open[1]] = "FINALIZING"] ELSE session
          /\ fin' = [fin EXCEPT ![open] = "close"]
          /\ UNCHANGED faults
       \/ /\ Fault
          /\ fin' = [fin EXCEPT ![open] = "abort"]
          /\ UNCHANGED <<session, journal>>

Rotate ==
    /\ phase = "up" /\ current # 0 /\ wanted = None /\ open # None /\ open[2] < NParts
    /\ wanted' = <<current, open[2] + 1>>
    /\ CloseOpenPart(FALSE)
    /\ UNCHANGED <<exact, count, row, jobs, files, current, discarding, reserved, due, outcome, phase, crashes>>

-----------------------------------------------------------------------------
(* The outcome of a session *)

\* Mutant: a published part that is not in the database yet is not looked for.
ProvenByCount(s, discarded) ==
    /\ ~discarded
    /\ Finalized(s) # {}
    /\ session[s] = "FINALIZING"

\* proveSessionStorage
Proven(s, discarded) ==
    /\ ~discarded
    /\ Finalized(s) # {}
    /\ \A p \in PartsOf(s) : journal[p] # "none" => row[p] = "final"
    /\ session[s] = "FINALIZING"

\* settleFinalizedSession, settleRejectedSession, failSessionStorage
Settle(s, kind) ==
    LET proven == Proven(s, kind = "discarded") IN
    /\ session' = [session EXCEPT ![s] = IF ~proven THEN "HELD"
                                         ELSE IF kind = "finalized" THEN "PROCESSING" ELSE "REJECTED"]
    /\ exact' = [exact EXCEPT ![s] = TRUE]
    /\ count' = [count EXCEPT ![s] = Cardinality(Finalized(s))]
    /\ journal' = [p \in Parts |-> IF p \in EndJournal(s) \cap Finalized(s) THEN "none" ELSE journal[p]]
    /\ jobs' = IF proven /\ kind = "finalized" THEN [jobs EXCEPT ![s] = InitialJobs] ELSE jobs

\* Mutant: the outcome does not wait for the finalizers of the session.
NothingToWaitFor(s) == TRUE

AllDetachedDone(s) == Finalizing(s) = {}

\* The session ends: the last part is closed, then its outcome is settled or deferred.  A
\* transaction that fails here ends the run, and the daemon with it.
EndSession(verdict) ==
    LET s == current
        kind == IF discarding = s THEN "discarded" ELSE verdict IN
    /\ phase \in {"up", "stopping"} /\ current # 0 /\ wanted = None
    /\ current' = 0
    /\ discarding' = IF discarding = s THEN 0 ELSE discarding
    /\ \/ /\ open = None /\ AllDetachedDone(s)
          /\ Settle(s, kind)
          /\ UNCHANGED <<open, fin, outcome, phase, faults>>
       \/ /\ open = None /\ AllDetachedDone(s) /\ Fault
          /\ phase' = "stopping"
          /\ UNCHANGED <<session, exact, count, journal, jobs, open, fin, outcome>>
       \/ /\ open # None \/ ~AllDetachedDone(s)
          /\ CloseOpenPart(TRUE)
          /\ outcome' = [outcome EXCEPT ![s] = kind]
          /\ UNCHANGED <<exact, count, jobs, phase>>
    /\ UNCHANGED <<row, files, wanted, reserved, due, crashes>>

SettleOutcome(s) ==
    /\ Settle(s, outcome[s])
    /\ outcome' = [outcome EXCEPT ![s] = "none"]

\* The look a finalizer queues when it ends.  A transaction that fails is logged, the
\* outcome is kept, and nothing looks again before the drain.
SettleDeferred(p) ==
    LET s == p[1] IN
    /\ p \in due
    /\ due' = due \ {p}
    /\ IF outcome[s] # "none" /\ AllDetachedDone(s)
       THEN \/ SettleOutcome(s) /\ UNCHANGED faults
            \/ Fault /\ UNCHANGED <<session, exact, count, journal, jobs, outcome>>
       ELSE UNCHANGED <<session, exact, count, journal, jobs, outcome, faults>>
    /\ UNCHANGED <<row, files, lane, reserved, fin, phase, crashes>>

-----------------------------------------------------------------------------
(* Detached finalizers: PartWriter.close, finalizePartFromJournal, PartWriter.abort *)

\* Mutant: a finalizer that ended keeps its slot.
SlotLeaked(p) == fin' = [fin EXCEPT ![p] = "no"] /\ due' = due \cup {p} /\ reserved' = reserved

Finished(p) == fin' = [fin EXCEPT ![p] = "no"] /\ due' = due \cup {p} /\ reserved' = reserved - 1

\* The checksum precedes the rename, so a close that throws has published nothing.
WriterClose(p) ==
    /\ fin[p] = "close"
    /\ temp' = temp \ {p}
    /\ \/ /\ archive' = archive \cup {p}
          /\ fin' = [fin EXCEPT ![p] = "commit"]
          /\ UNCHANGED <<journal, reserved, due, faults>>
       \/ /\ Fault
          /\ journal' = [journal EXCEPT ![p] = "none"]
          /\ Finished(p)
          /\ UNCHANGED archive
    /\ UNCHANGED <<session, exact, count, row, jobs, lane, outcome, phase, crashes>>

\* What a part's finalization leaves of its journal; a session's waits for its outcome.
JournalAfter(p) ==
    IF journal[p] = "end" /\ ~(exact[p[1]] /\ session[p[1]] \notin {"ACTIVE", "FINALIZING"})
    THEN journal ELSE [journal EXCEPT ![p] = "none"]

FinalizePartFromJournal(p) ==
    /\ fin[p] = "commit"
    /\ Finished(p)
    /\ \/ row' = [row EXCEPT ![p] = "final"] /\ journal' = JournalAfter(p) /\ UNCHANGED faults
       \/ Fault /\ UNCHANGED <<row, journal>>
    /\ UNCHANGED <<session, exact, count, jobs, files, lane, outcome, phase, crashes>>

WriterAbort(p) ==
    /\ fin[p] = "abort"
    /\ temp' = temp \ {p}
    /\ Finished(p)
    /\ UNCHANGED <<database, archive, lane, outcome, phase, bounds>>

-----------------------------------------------------------------------------
(* The life of the daemon, and recoverAfterCrash *)

Forget ==
    /\ current' = 0 /\ wanted' = None /\ open' = None /\ discarding' = 0 /\ reserved' = 0
    /\ fin' = [p \in Parts |-> "no"] /\ due' = {} /\ outcome' = [s \in Sessions |-> "none"]

Crash ==
    /\ phase # "down" /\ crashes < MaxCrashes
    /\ crashes' = crashes + 1
    /\ phase' = "down"
    /\ Forget
    /\ UNCHANGED <<database, files, faults>>

Stop ==
    /\ phase = "up" /\ crashes < MaxCrashes
    /\ crashes' = crashes + 1
    /\ phase' = "stopping"
    /\ UNCHANGED <<database, files, lane, reserved, fin, due, outcome, faults>>

\* drainStorageFinalizers: when every finalizer and every look is done, the outcomes that
\* are left are settled in their order; one that fails leaves the rest to the next start.
Draining == phase = "stopping" /\ current = 0 /\ due = {} /\ \A s \in Sessions : AllDetachedDone(s)

DrainOutcome(s) ==
    /\ Draining /\ outcome[s] # "none"
    /\ \A r \in Sessions : r < s => outcome[r] = "none"
    /\ \/ SettleOutcome(s) /\ UNCHANGED <<lane, reserved, fin, due, phase, faults>>
       \/ Fault /\ phase' = "down" /\ Forget /\ UNCHANGED <<session, exact, count, journal, jobs>>
    /\ UNCHANGED <<row, files, crashes>>

Drained ==
    /\ Draining /\ \A s \in Sessions : outcome[s] = "none"
    /\ phase' = "down"
    /\ UNCHANGED <<database, files, lane, reserved, fin, due, outcome, bounds>>

\* The end of the run: what is open is closed, then the finalizers are drained.
Closing ==
    /\ phase = "stopping"
    /\ \/ OpenPart \/ Drained
       \/ \E verdict \in {"finalized", "rejected"} : EndSession(verdict)
       \/ \E s \in Sessions : DrainOutcome(s)

Restart ==
    /\ phase = "down"
    /\ phase' = "parts"
    /\ UNCHANGED <<database, files, lane, reserved, fin, due, outcome, bounds>>

\* reconcilePublishedParts: the archive proves a part, and only a part of a held session
\* without journal is given up.
Recoverable(p) == row[p] = "open" /\ p \in archive
Missing(p) == row[p] = "open" /\ p \notin archive /\ session[p[1]] = "HELD" /\ journal[p] = "none"

RecoverPublishedPart(p) ==
    /\ phase = "parts" /\ Recoverable(p)
    /\ row' = [row EXCEPT ![p] = "final"]
    /\ journal' = JournalAfter(p)
    /\ UNCHANGED <<session, exact, count, jobs, files, lane, reserved, fin, due, outcome, phase, bounds>>

SettleMissingPart(p) ==
    /\ phase = "parts" /\ Missing(p)
    /\ row' = [row EXCEPT ![p] = "gone"]
    /\ UNCHANGED <<session, exact, count, journal, jobs, files, lane, reserved, fin, due, outcome, phase, bounds>>

PartsReconciled == \A p \in Parts : ~Recoverable(p) /\ ~Missing(p)

NextPhase ==
    /\ phase = "parts" /\ PartsReconciled
    /\ phase' = "sessions"
    /\ UNCHANGED <<database, files, lane, reserved, fin, due, outcome, bounds>>

\* Mutant: only sessions that were still being recorded count as stalled.
StalledActive(s) == session[s] = "ACTIVE" \/ (session[s] = "HELD" /\ Finalized(s) # {})

\* Mutant: sessions held by the recorder are not looked at again.
StalledLive(s) == session[s] \in {"ACTIVE", "FINALIZING"}

Stalled(s) == session[s] \in {"ACTIVE", "FINALIZING"} \/ (session[s] = "HELD" /\ Finalized(s) # {})

ReconcileStalledSession(s) ==
    /\ phase = "sessions" /\ Stalled(s)
    /\ exact' = [exact EXCEPT ![s] = @ \/ EndJournal(s) # {}]
    /\ journal' = [p \in Parts |-> IF p[1] = s THEN "none" ELSE journal[p]]
    /\ IF Finalized(s) # {}
       THEN /\ session' = [session EXCEPT ![s] = "PROCESSING"]
            /\ count' = [count EXCEPT ![s] = Cardinality(Finalized(s))]
            /\ jobs' = [jobs EXCEPT ![s] = InitialJobs]
       ELSE /\ session' = [session EXCEPT ![s] = "FAILED"]
            /\ UNCHANGED <<count, jobs>>
    /\ UNCHANGED <<row, files, lane, reserved, fin, due, outcome, phase, bounds>>

\* Mutant: a session that has one of its jobs is taken for repaired.
MissingBoth(s) == session[s] = "PROCESSING" /\ jobs[s] = {}

MissingJobs(s) == session[s] = "PROCESSING" /\ jobs[s] # InitialJobs

\* reconcileMissingProcessingJobs, for sessions without later progress
RestoreInitialJobs(s) ==
    /\ phase = "sessions" /\ MissingJobs(s) /\ Finalized(s) # {}
    /\ \A r \in Sessions : ~Stalled(r)
    /\ jobs' = [jobs EXCEPT ![s] = InitialJobs]
    /\ count' = [count EXCEPT ![s] = Cardinality(Finalized(s))]
    /\ UNCHANGED <<session, exact, row, journal, files, lane, reserved, fin, due, outcome, phase, bounds>>

\* The orphaned temporary files go last, and recording begins.
Recovered ==
    /\ phase = "sessions" /\ \A s \in Sessions : ~Stalled(s) /\ ~MissingJobs(s)
    /\ temp' = {}
    /\ phase' = "up"
    /\ UNCHANGED <<database, archive, lane, reserved, fin, due, outcome, bounds>>

Recovery ==
    \/ NextPhase \/ Recovered
    \/ \E p \in Parts : RecoverPublishedPart(p) \/ SettleMissingPart(p)
    \/ \E s \in Sessions : ReconcileStalledSession(s) \/ RestoreInitialJobs(s)

Next ==
    \/ OpenPart \/ Rotate
    \/ \E s \in Sessions : StartSession(s) \/ DrainOutcome(s)
    \/ \E verdict \in {"finalized", "rejected"} : EndSession(verdict)
    \/ \E p \in Parts : WriterClose(p) \/ FinalizePartFromJournal(p) \/ WriterAbort(p) \/ SettleDeferred(p)
    \/ Crash \/ Stop \/ Drained \/ Restart \/ Recovery

Spec == Init /\ [][Next]_vars

\* Finalizers end and the looks they queue are taken, a run that ends is drained, a dead
\* daemon is started again and its recovery proceeds.  Nobody has to stop talking.
Fairness ==
    /\ \A p \in Parts :
        /\ WF_vars(WriterClose(p)) /\ WF_vars(FinalizePartFromJournal(p)) /\ WF_vars(WriterAbort(p))
        /\ WF_vars(SettleDeferred(p))
    /\ WF_vars(Closing) /\ WF_vars(Restart) /\ WF_vars(Recovery)

LiveSpec == Spec /\ Fairness

-----------------------------------------------------------------------------
(* Properties *)

\* Every finalizer and the open part own a reserved slot, so the throw "storage finalizer
\* reservation invariant violated" is out of reach.
SlotsReserved == reserved = Cardinality(Working) + (IF open = None THEN 0 ELSE 1)

\* A session is only handed to the pipeline with every part it published: none waits
\* outside the database for a later recovery to find.
HandedOverWhole ==
    \A s \in Sessions : session[s] = "PROCESSING" =>
        \A p \in PartsOf(s) \cap archive : row[p] = "final"

\* The part count of a settled session is the number of its finalized parts, whether it
\* was settled at once, deferred, or recovered.
CountIsTrue ==
    \A s \in Sessions : session[s] \in {"PROCESSING", "REJECTED"} => count[s] = Cardinality(Finalized(s))

\* After recovery a session is open or being finalized only if this process records it or
\* holds its outcome.
NothingStranded ==
    phase = "up" => \A s \in Sessions :
        session[s] \in {"ACTIVE", "FINALIZING"} => s = current \/ outcome[s] # "none"

\* Once recovery is done, sessions in the pipeline have both initial jobs, and sessions
\* that were rejected or lost have none.
JobsMatchOutcome ==
    \A s \in Sessions :
        /\ phase = "up" /\ session[s] = "PROCESSING" => jobs[s] = InitialJobs
        /\ session[s] \in {"REJECTED", "FAILED"} => jobs[s] = {}

Settled(s) == session[s] \in {"PROCESSING", "REJECTED", "HELD", "FAILED"}

\* The outcome of the session is kept, and no look at it is left to come.
Missed(s) == outcome[s] # "none" /\ AllDetachedDone(s) /\ \A p \in due : p[1] # s

\* A session whose recording ended is eventually settled, over crashes and failures, unless
\* the transaction of its outcome failed and the daemon keeps the outcome for its drain.
EndedSessionSettles ==
    \A s \in Sessions :
        session[s] = "FINALIZING" \/ outcome[s] # "none" ~> Settled(s) \/ Missed(s)

\* Still open, or held with audio in the archive.
Unsettled(s) == session[s] \in {"ACTIVE", "FINALIZING"} \/ (session[s] = "HELD" /\ Finalized(s) # {})

\* What a run leaves behind when it ends, a kept outcome too, is settled by its drain or by
\* the recovery of the next start, which takes up a held session with audio.
LeftoverIsTakenUp == \A s \in Sessions : phase # "up" /\ Unsettled(s) ~> ~Unsettled(s)

\* What the journal is for: the exact timing of a session that reached FINALIZING is
\* there when recovery hands it to the pipeline.
TimingSurvives ==
    [][\A s \in Sessions : session[s] = "FINALIZING" /\ session'[s] = "PROCESSING" => exact'[s]]_vars
-----------------------------------------------------------------------------
(* The facts behind them *)

\* A published part is in the database, or its journal still says that it must be.
PublishedIsKnown ==
    \A p \in archive : row[p] = "final" \/ (row[p] = "open" /\ journal[p] # "none")

\* A finalizer works for the session being recorded or for an outcome that waits for it,
\* and what it is about to publish is journalled.
FinalizersAreOwned ==
    \A p \in Parts :
        /\ fin[p] # "no" => p[1] = current \/ outcome[p[1]] # "none"
        /\ fin[p] = "close" => row[p] = "open" /\ journal[p] # "none" /\ p \notin archive

\* The lane holds one part of the session it records, and no finalizer has that part yet.
LaneInOrder ==
    /\ current # 0 => session[current] = "ACTIVE"
    /\ wanted # None => open = None /\ current # 0 /\ wanted[1] = current
    /\ open # None =>
        /\ current # 0 /\ open[1] = current
        /\ row[open] = "open" /\ journal[open] = "none" /\ open \notin archive /\ fin[open] = "no"

\* An outcome is pending only for a session that ended and is not settled.
OutcomesPending ==
    \A s \in Sessions :
        outcome[s] # "none" => s # current /\ session[s] \in {"ACTIVE", "FINALIZING"}

\* Nothing is known of a part before the lane opens it.
Untouched(p) == row[p] = "none" /\ journal[p] = "none" /\ fin[p] = "no" /\ p \notin archive

Ahead(p) ==
    \/ session[p[1]] = "none"
    \/ p[1] = current /\ wanted # None /\ p[2] >= wanted[2]
    \/ p[1] = current /\ open # None /\ p[2] > open[2]

PartsAhead == \A p \in Parts : Ahead(p) => Untouched(p)

\* Recovery runs with nothing in flight, and sessions are repaired after their parts.
RecoveryIsAlone ==
    /\ phase \in {"parts", "sessions", "down"} =>
        /\ current = 0 /\ wanted = None /\ open = None
        /\ \A p \in Parts : fin[p] = "no"
        /\ \A s \in Sessions : outcome[s] = "none"
    /\ phase = "sessions" => \A p \in Parts : ~Recoverable(p)

\* Jobs exist only in the pipeline, and what a running daemon left there has them all.
PipelineIsWhole ==
    \A s \in Sessions :
        /\ session[s] # "PROCESSING" => jobs[s] = {}
        /\ session[s] \in {"PROCESSING", "REJECTED"} => \A p \in PartsOf(s) \cap archive : row[p] = "final"
        /\ phase \in {"up", "stopping"} /\ session[s] = "PROCESSING" => jobs[s] = InitialJobs
        /\ phase = "up" /\ session[s] \in {"ACTIVE", "FINALIZING"} => s = current \/ outcome[s] # "none"
=============================================================================
