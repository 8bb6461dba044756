--------------------------- MODULE DaemonOwnership ---------------------------
(***************************************************************************)
(* Who owns a data root: src/cli/daemon-ownership.ts.                      *)
(*                                                                         *)
(* A generation is one process that claims the root, as the daemon or for  *)
(* maintenance.  Its record (pid, start, process birth) is its number.     *)
(* The authority is the row of daemon_ownership, replaced only by compare  *)
(* and swap; the PID mirror, the heartbeat and the job leases are evidence *)
(* of generations that the row may not know, of an earlier release above   *)
(* all.  Every await between reading evidence and acting on it is a step   *)
(* boundary, and an operating system may give the pid of a process that    *)
(* ended to a stranger.                                                    *)
(***************************************************************************)
EXTENDS Naturals, FiniteSets

CONSTANTS
    NGens,       \* bound: processes that ever claim the root
    Pids,        \* process ids of the operating system
    Roles,       \* what a new process wants to be
    Commands,    \* commands an operator gives: "stop", "mutate"
    LegacyStarts, \* whether a daemon of the release before the row may start
    MaxTries,    \* attempts of one claim (4 in the code)
    MaxReuse     \* bound: strangers that take a pid

Gens == 1 .. NGens

ASSUME OwnershipAssumption ==
    /\ NGens \in Nat \ {0} /\ MaxTries \in Nat \ {0} /\ MaxReuse \in Nat
    /\ Roles \subseteq {"daemon", "maintenance"} /\ Commands \subseteq {"stop", "mutate"}
    /\ LegacyStarts \in BOOLEAN /\ Pids # {}

VARIABLES
    alive,     \* generations whose process runs
    pid, role, \* of every generation that was started
    strangers, \* pids that unrelated processes hold
    reused,    \* bound counter
    phase,     \* what the code of a generation does next
    seen, obs, \* the row and the mirror its claim has read, 0 for none
    tries,     \* failed attempts of its claim
    row,       \* daemon_ownership, 0 when there is no row
    mirror,    \* the PID file, 0 when there is none
    heartbeat, \* daemon_heartbeat
    lease,     \* whether a generation holds job leases, and whether they ran out
    op         \* the command an operator runs: what it has read and decided

process == <<alive, pid, role, strangers, reused>>
claim == <<phase, seen, obs, tries>>
evidence == <<row, mirror, heartbeat, lease>>
vars == <<process, claim, evidence, op>>

Phases == {"none", "read", "mirror", "inspect", "heartbeat", "leases", "conflict", "beat", "swap",
           "publish", "up", "gone"}
NoOp == [cmd |-> "none", step |-> "idle", rec |-> 0]
OpSteps == {"idle", "read", "inspect", "clear", "signal", "write", "hit", "wrote"}

TypeOK ==
    /\ alive \subseteq Gens /\ strangers \subseteq Pids /\ reused \in 0 .. MaxReuse
    /\ pid \in [Gens -> Pids] /\ role \in [Gens -> {"daemon", "maintenance", "legacy"}]
    /\ phase \in [Gens -> Phases] /\ tries \in [Gens -> 0 .. MaxTries]
    /\ seen \in [Gens -> 0 .. NGens] /\ obs \in [Gens -> 0 .. NGens]
    /\ row \in 0 .. NGens /\ mirror \in 0 .. NGens /\ heartbeat \in 0 .. NGens
    /\ lease \in [Gens -> {"none", "fresh", "expired"}]
    /\ op \in [cmd : {"none", "stop", "mutate"}, step : OpSteps, rec : 0 .. NGens]

\* Generation 1 may be a daemon of the earlier release, which knows nothing of the row and is
\* known by its mirror or its heartbeat.
Init ==
    /\ \E old \in {"absent", "running", "crashed"} :
        /\ alive = IF old = "running" THEN {1} ELSE {}
        /\ phase = [g \in Gens |-> IF g = 1 /\ old = "running" THEN "up"
                                   ELSE IF g = 1 /\ old = "crashed" THEN "gone" ELSE "none"]
        /\ role = [g \in Gens |-> IF g = 1 /\ old # "absent" THEN "legacy" ELSE "daemon"]
        /\ mirror \in {0, 1} /\ heartbeat \in {0, 1}
        /\ old = "absent" => mirror = 0 /\ heartbeat = 0
        /\ old = "running" => mirror = 1 \/ heartbeat = 1
        /\ \E state \in {"none", "fresh", "expired"} :
            /\ lease = [g \in Gens |-> IF g = 1 THEN state ELSE "none"]
            /\ old = "absent" => state = "none"
            /\ old = "running" => state # "expired"
    /\ \E p \in Pids : pid = [g \in Gens |-> p]
    /\ strangers = {} /\ reused = 0
    /\ seen = [g \in Gens |-> 0] /\ obs = [g \in Gens |-> 0] /\ tries = [g \in Gens |-> 0]
    /\ row = 0 /\ op = NoOp

-----------------------------------------------------------------------------
(* The operating system *)

Free(p) == p \notin strangers /\ \A g \in alive : pid[g] # p

NextGen(g) == phase[g] = "none" /\ \A h \in Gens : h < g => phase[h] # "none"

Spawn(g) ==
    /\ NextGen(g)
    /\ \E p \in Pids, r \in Roles :
        /\ Free(p)
        /\ pid' = [pid EXCEPT ![g] = p] /\ role' = [role EXCEPT ![g] = r]
    /\ alive' = alive \cup {g}
    /\ phase' = [phase EXCEPT ![g] = "read"]
    /\ UNCHANGED <<strangers, reused, seen, obs, tries, evidence, op>>

\* The start of the earlier release respects a mirror that names a live process, and its own
\* kind.  It knows no row.
SpawnLegacy(g) ==
    /\ LegacyStarts /\ NextGen(g)
    /\ mirror # 0 => Free(pid[mirror])
    /\ \A h \in alive : role[h] # "legacy"
    /\ \E p \in Pids : Free(p) /\ pid' = [pid EXCEPT ![g] = p]
    /\ role' = [role EXCEPT ![g] = "legacy"]
    /\ alive' = alive \cup {g}
    /\ phase' = [phase EXCEPT ![g] = "up"]
    /\ mirror' = g
    /\ UNCHANGED <<strangers, reused, seen, obs, tries, row, heartbeat, lease, op>>

StrangerTakes(p) ==
    /\ Free(p) /\ reused < MaxReuse
    /\ strangers' = strangers \cup {p} /\ reused' = reused + 1
    /\ UNCHANGED <<alive, pid, role, claim, evidence, op>>

StrangerLeaves(p) ==
    /\ p \in strangers /\ strangers' = strangers \ {p}
    /\ UNCHANGED <<alive, pid, role, reused, claim, evidence, op>>

Ends(g) ==
    /\ alive' = alive \ {g}
    /\ phase' = [phase EXCEPT ![g] = "gone"]
    /\ UNCHANGED <<pid, role, strangers, reused, seen, obs, tries>>

Crash(g) ==
    /\ g \in alive
    /\ Ends(g)
    /\ UNCHANGED <<evidence, op>>

\* A lease is renewed while its process lives.
LeaseExpires(g) ==
    /\ g \notin alive /\ lease[g] = "fresh"
    /\ lease' = [lease EXCEPT ![g] = "expired"]
    /\ UNCHANGED <<process, claim, row, mirror, heartbeat, op>>

-----------------------------------------------------------------------------
(* inspectDaemonProcess: kill(pid, 0), and ps for the birth of the process *)

PidLive(g) == ~Free(pid[g])

\* A pid that answers is taken for the daemon of the record, whoever holds it now.
DaemonGone(g) == ~PidLive(g)

\* Mutant: a birth that ps does not report counts as a birth that differs.
MaintenanceUnknown(g) == TRUE

\* inspectMaintenanceAuthority: a birth that differs proves the holder gone as well.
MaintenanceGone(g) == g \notin alive

Gone(g) == IF role[g] = "maintenance" THEN MaintenanceGone(g) ELSE DaemonGone(g)

\* Mutant: a claim waits for the owner to end.
Waits(g) == FALSE

\* ps may report nothing, and a pid that answers is then not given up.
MayRefuse(g) == PidLive(g)

-----------------------------------------------------------------------------
(* claimDaemonPid and tryClaimDaemonMaintenance, read by read *)

Claiming(g, at) == g \in alive /\ phase[g] = at
Go(g, next) == phase' = [phase EXCEPT ![g] = next]

Refuse(g) == Ends(g) /\ UNCHANGED <<evidence, op>>

ReadAuthority(g) ==
    /\ Claiming(g, "read")
    /\ seen' = [seen EXCEPT ![g] = row]
    /\ Go(g, IF row = 0 THEN "mirror" ELSE "inspect")
    /\ UNCHANGED <<process, obs, tries, evidence, op>>

\* readDaemonPidForClaim
ReadMirror(g) ==
    /\ Claiming(g, "mirror")
    /\ obs' = [obs EXCEPT ![g] = mirror]
    /\ Go(g, IF mirror = 0 THEN "heartbeat" ELSE "inspect")
    /\ UNCHANGED <<process, seen, tries, evidence, op>>

\* The record whose process decides: that of the row, or of the mirror when there is no row.
Target(g) == IF seen[g] # 0 THEN seen[g] ELSE obs[g]

Inspect(g) ==
    /\ Claiming(g, "inspect")
    /\ \/ /\ Gone(Target(g))
          /\ Go(g, IF seen[g] = 0 THEN "swap" ELSE "conflict")
          /\ UNCHANGED <<process, seen, obs, tries, evidence, op>>
       \/ MayRefuse(Target(g)) /\ Refuse(g)

HeartbeatGone == heartbeat # 0 => DaemonGone(heartbeat)

\* assertNoAmbiguousLegacyDaemon: the heartbeat, then the leases
CheckHeartbeat(g) ==
    /\ Claiming(g, "heartbeat")
    /\ \/ /\ HeartbeatGone /\ Go(g, "leases")
          /\ UNCHANGED <<process, seen, obs, tries, evidence, op>>
       \/ ~HeartbeatGone /\ Refuse(g)

NoFreshLease == \A h \in Gens : lease[h] # "fresh"

CheckLeases(g) ==
    /\ Claiming(g, "leases")
    /\ \/ /\ NoFreshLease /\ Go(g, "swap")
          /\ UNCHANGED <<process, seen, obs, tries, evidence, op>>
       \/ ~NoFreshLease /\ Refuse(g)

\* assertNoConflictingLiveDaemon: no evidence names another process that lives.
NoConflict(g, record) == record \notin {0, seen[g]} => DaemonGone(record)

CheckMirror(g) ==
    /\ Claiming(g, "conflict")
    /\ \/ /\ NoConflict(g, mirror)
          /\ obs' = [obs EXCEPT ![g] = mirror]
          /\ Go(g, "beat")
          /\ UNCHANGED <<process, seen, tries, evidence, op>>
       \/ ~NoConflict(g, mirror) /\ Refuse(g)

CheckBeat(g) ==
    /\ Claiming(g, "beat")
    /\ \/ /\ NoConflict(g, heartbeat)
          /\ Go(g, "swap")
          /\ UNCHANGED <<process, seen, obs, tries, evidence, op>>
       \/ ~NoConflict(g, heartbeat) /\ Refuse(g)

\* Mutant: the attempts are compared before this one counts.
RetryOnceMore(g) ==
    /\ IF tries[g] < MaxTries
       THEN Go(g, "read") /\ UNCHANGED alive
       ELSE Go(g, "gone") /\ alive' = alive \ {g}
    /\ tries' = [tries EXCEPT ![g] = @ + 1]
    /\ UNCHANGED <<pid, role, strangers, reused, seen, obs, evidence, op>>

Retry(g) ==
    /\ IF tries[g] + 1 < MaxTries
       THEN Go(g, "read") /\ UNCHANGED alive
       ELSE Go(g, "gone") /\ alive' = alive \ {g}
    /\ tries' = [tries EXCEPT ![g] = @ + 1]
    /\ UNCHANGED <<pid, role, strangers, reused, seen, obs, evidence, op>>

\* Mutant: the row is replaced whatever it has become.
AlwaysCurrent(g) == TRUE

\* The compare of insertDaemonOwnership and replaceDaemonOwnership
RowUnchanged(g) == row = seen[g]

\* assertNoPredecessorLeases: maintenance leaves the work of a dead daemon to the next daemon.
\* A predecessor that was itself maintenance has no leases to look for.
Blocked(g) ==
    /\ role[g] = "maintenance" /\ Target(g) # 0
    /\ role[Target(g)] # "maintenance" /\ lease[Target(g)] # "none"

\* Mutant: the leases of the predecessor are left to a later step.
LeasesLeft(g) == lease

\* recoverLeasesAfterProvenDaemonDeath, in the same transaction
LeasesReturned(g) ==
    IF role[g] = "daemon" /\ Target(g) # 0 THEN [lease EXCEPT ![Target(g)] = "none"] ELSE lease

Swap(g) ==
    /\ Claiming(g, "swap")
    /\ \/ ~RowUnchanged(g) /\ Retry(g)
       \/ RowUnchanged(g) /\ Blocked(g) /\ Refuse(g)
       \/ RowUnchanged(g) /\ ~Blocked(g) /\ mirror # obs[g] /\ Retry(g)
       \/ /\ RowUnchanged(g) /\ ~Blocked(g) /\ mirror = obs[g]
          /\ row' = g /\ mirror' = 0
          /\ lease' = LeasesReturned(g)
          /\ Go(g, IF role[g] = "daemon" THEN "publish" ELSE "up")
          /\ UNCHANGED <<process, seen, obs, tries, heartbeat, op>>

\* The mirror is removed inside the transaction, and the process dies before it commits.
SwapTorn(g) ==
    /\ Claiming(g, "swap") /\ RowUnchanged(g) /\ ~Blocked(g)
    /\ mirror = obs[g] /\ mirror # 0
    /\ mirror' = 0
    /\ Ends(g)
    /\ UNCHANGED <<row, heartbeat, lease, op>>

\* Mutant: a release removes the mirror whatever it names.
DeleteAnyMirror(g) ==
    /\ row' = IF row = g THEN 0 ELSE row
    /\ mirror' = 0

\* deleteDaemonOwnership
Delete(g) ==
    /\ row' = IF row = g THEN 0 ELSE row
    /\ mirror' = IF row = g /\ mirror = g THEN 0 ELSE mirror

\* Mutant: the mirror replaces one that appeared meanwhile.
ReplaceMirror(g) == TRUE

\* link never replaces an existing file.
NoMirror(g) == mirror = 0

\* writeTextAtomically, and the release of a claim whose mirror could not be published
Publish(g) ==
    /\ Claiming(g, "publish")
    /\ IF row = g /\ NoMirror(g)
       THEN mirror' = g /\ Go(g, "up") /\ UNCHANGED <<process, seen, obs, tries, row>>
       ELSE Delete(g) /\ Ends(g)
    /\ UNCHANGED <<heartbeat, lease, op>>

-----------------------------------------------------------------------------
(* The owner at work *)

Up(g) == g \in alive /\ phase[g] = "up"

\* JobQueue.claim, and the heartbeat of the daemon
Work(g) ==
    /\ Up(g) /\ role[g] # "maintenance" /\ lease[g] = "none"
    /\ lease' = [lease EXCEPT ![g] = "fresh"]
    /\ UNCHANGED <<process, claim, row, mirror, heartbeat, op>>

WriteHeartbeat(g) ==
    /\ Up(g) /\ role[g] # "maintenance" /\ heartbeat # g
    /\ heartbeat' = g
    /\ UNCHANGED <<process, claim, row, mirror, lease, op>>

\* recoverStaleLeases
RecoverStaleLeases(g) ==
    /\ Up(g) /\ role[g] # "maintenance" /\ \E h \in Gens : lease[h] = "expired"
    /\ lease' = [h \in Gens |-> IF lease[h] = "expired" THEN "none" ELSE lease[h]]
    /\ UNCHANGED <<process, claim, row, mirror, heartbeat, op>>

\* The daemon drains its handlers and releases the root; maintenance releases it when its
\* action is over.
Release(g) ==
    /\ Up(g)
    /\ lease' = [lease EXCEPT ![g] = "none"]
    /\ IF role[g] = "legacy"
       THEN mirror' = (IF mirror = g THEN 0 ELSE mirror) /\ UNCHANGED row
       ELSE Delete(g)
    /\ Ends(g)
    /\ UNCHANGED <<heartbeat, op>>

ReleaseTorn(g) ==
    /\ Up(g) /\ role[g] # "legacy" /\ row = g /\ mirror = g
    /\ mirror' = 0
    /\ lease' = [lease EXCEPT ![g] = "none"]
    /\ Ends(g)
    /\ UNCHANGED <<row, heartbeat, op>>

-----------------------------------------------------------------------------
(* Commands: stopOwnedDaemon, and a mutation that requires a stopped daemon *)

Give(cmd) ==
    /\ op.step \in {"idle", "hit", "wrote"} /\ cmd \in Commands
    /\ op' = [cmd |-> cmd, step |-> "read", rec |-> 0]
    /\ UNCHANGED <<process, claim, evidence>>

OpTo(step) == op' = [op EXCEPT !.step = step] /\ UNCHANGED <<process, claim, evidence>>

\* inspectDaemonControl.  A command refuses what is ambiguous, as a claim does.
ReadControl ==
    /\ op.step = "read"
    /\ \/ row # 0 /\ op' = [op EXCEPT !.step = "inspect", !.rec = row]
       \/ row = 0 /\ mirror # 0 /\ op' = [op EXCEPT !.step = "inspect", !.rec = mirror]
       \/ /\ row = 0 /\ mirror = 0
          /\ op' = IF op.cmd = "mutate" /\ HeartbeatGone /\ NoFreshLease
                   THEN [op EXCEPT !.step = "write"] ELSE NoOp
    /\ UNCHANGED <<process, claim, evidence>>

\* What was read is still what is recorded.
StillCurrent == IF role[op.rec] = "legacy" THEN row = 0 /\ mirror = op.rec ELSE row = op.rec

\* A maintenance holder never matches; a record without a birth does not match either.
IdentityMatches == op.rec \in alive /\ role[op.rec] = "daemon"

InspectControl ==
    /\ op.step = "inspect"
    /\ IF ~StillCurrent THEN OpTo("read")
       ELSE \/ Gone(op.rec) /\ OpTo("clear")
            \/ /\ PidLive(op.rec) /\ op.cmd = "stop" /\ IdentityMatches
               /\ OpTo("signal")
            \/ PidLive(op.rec) /\ op' = NoOp /\ UNCHANGED <<process, claim, evidence>>

\* clearDeadDaemonControl: a dead owner is released by its exact record, a legacy one left.
ClearDead ==
    /\ op.step = "clear"
    /\ IF role[op.rec] = "legacy" THEN UNCHANGED <<row, mirror>> ELSE Delete(op.rec)
    /\ op' = IF role[op.rec] # "legacy" /\ row # op.rec THEN [op EXCEPT !.step = "read"]
             ELSE IF op.cmd = "mutate" THEN [op EXCEPT !.step = "write"] ELSE NoOp
    /\ UNCHANGED <<process, claim, heartbeat, lease>>

\* process.kill(pid, SIGTERM): whoever holds the pid now is signalled.
Signal ==
    /\ op.step = "signal"
    /\ IF StillCurrent THEN OpTo("hit") ELSE OpTo("read")

\* Mutant: the transaction of the mutation trusts the inspection.
TrustInspection == TRUE

NoOwnerRow == row = 0

\* retryDeadOutbox and its like check for the row in their own transaction.
Mutate ==
    /\ op.step = "write"
    /\ IF NoOwnerRow THEN OpTo("wrote") ELSE op' = NoOp /\ UNCHANGED <<process, claim, evidence>>

-----------------------------------------------------------------------------

ClaimStep(g) ==
    \/ ReadAuthority(g) \/ ReadMirror(g) \/ Inspect(g) \/ CheckHeartbeat(g) \/ CheckLeases(g)
    \/ CheckMirror(g) \/ CheckBeat(g) \/ Swap(g) \/ Publish(g)

OwnerStep(g) ==
    Work(g) \/ WriteHeartbeat(g) \/ RecoverStaleLeases(g) \/ Release(g) \/ ReleaseTorn(g)

Command ==
    \/ \E cmd \in Commands : Give(cmd)
    \/ ReadControl \/ InspectControl \/ ClearDead \/ Signal \/ Mutate

Next ==
    \/ \E g \in Gens : Spawn(g) \/ SpawnLegacy(g) \/ Crash(g) \/ LeaseExpires(g)
    \/ \E p \in Pids : StrangerTakes(p) \/ StrangerLeaves(p)
    \/ \E g \in Gens : ClaimStep(g) \/ SwapTorn(g) \/ OwnerStep(g)
    \/ Command

Spec == Init /\ [][Next]_vars

Fairness == \A g \in Gens : WF_vars(ClaimStep(g))

LiveSpec == Spec /\ Fairness

-----------------------------------------------------------------------------
(* Properties *)

\* A generation that has won the root keeps the row until it releases it or dies: no claim
\* and no command, however old the evidence it acts on, replaces or deletes the row of a live
\* owner.
AuthorityHeld ==
    \A g \in Gens : g \in alive /\ phase[g] \in {"publish", "up"} /\ role[g] # "legacy" => row = g

\* One owner at work, counting daemons of the release that knows no row.
OneOwner == \A g, h \in Gens : Up(g) /\ Up(h) => g = h

\* The mirror of a running daemon names it.
MirrorNamesOwner == \A g \in Gens : Up(g) /\ role[g] = "daemon" => mirror = g

\* An owner starts with no unexpired lease of another generation: a dead daemon's leases were
\* returned with the row, and maintenance refuses to start over them.
NoStrandedWork ==
    \A g, h \in Gens : Up(g) /\ role[g] # "legacy" /\ lease[h] = "fresh" => g = h

\* A mutation for a stopped daemon commits only while nobody owns the root.
MutatesAlone == [][op'.step = "wrote" /\ op.step = "write" => \A g \in Gens : ~Up(g)]_vars

\* A claim ends: the process owns the root or is gone.
ClaimEnds == \A g \in Gens : phase[g] = "read" ~> phase[g] \in {"up", "gone"}

\* Stated by the documentation: a stale pid, held by another process now, is not signalled.
SignalsOwner ==
    [][op'.step = "hit" /\ op.step = "signal" => op.rec \in alive \/ ~PidLive(op.rec)]_vars

-----------------------------------------------------------------------------
(* The inductive invariant behind AuthorityHeld. *)

\* A process runs from its start until its code ends.
AliveIsRunning == \A g \in Gens : g \in alive <=> phase[g] \notin {"none", "gone"}

\* A claim that has not ended has attempts left.
TriesLeft == \A g \in Gens : phase[g] # "gone" => tries[g] < MaxTries

\* A record, wherever it was read, names a process that was started.
RecordsAreStarted ==
    /\ \A rec \in {row, mirror, heartbeat, op.rec} : rec # 0 => phase[rec] # "none"
    /\ \A g \in Gens : \A rec \in {seen[g], obs[g]} : rec # 0 => phase[rec] # "none"

\* Who acts on the death of a recorded owner, a claim or a command, is right about it.
JudgedDead ==
    /\ \A g \in Gens :
        /\ phase[g] \in {"mirror", "heartbeat", "leases"} => seen[g] = 0
        /\ phase[g] = "inspect" => Target(g) # 0
        /\ phase[g] \in {"conflict", "beat"} => seen[g] # 0
        /\ phase[g] \in {"conflict", "beat", "swap"} /\ seen[g] # 0 => phase[seen[g]] = "gone"
    /\ op.step \in {"inspect", "clear", "signal"} => op.rec # 0
    /\ op.step = "clear" => phase[op.rec] = "gone"

AuthorityInv ==
    /\ TypeOK /\ AliveIsRunning /\ TriesLeft
    /\ RecordsAreStarted /\ JudgedDead /\ AuthorityHeld
=============================================================================
