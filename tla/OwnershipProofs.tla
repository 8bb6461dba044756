--------------------------- MODULE OwnershipProofs ---------------------------
(***************************************************************************)
(* Theorems about DaemonOwnership for any number of processes, pids,       *)
(* attempts and strangers: the authority row is never taken from a live    *)
(* owner, one owner works at a time, and it starts with no other's work.   *)
(***************************************************************************)
EXTENDS MCDaemonOwnership, TLAPS

-----------------------------------------------------------------------------
(* Type correctness *)

LEMMA GensAreNats == Gens \subseteq Nat /\ 0 \notin Gens /\ Gens \subseteq 0 .. NGens /\ 1 \in Gens
BY OwnershipAssumption DEF Gens

LEMMA TypeInit == Init => TypeOK
<1> SUFFICES ASSUME Init PROVE TypeOK
  OBVIOUS
<1>1. alive \subseteq Gens /\ phase \in [Gens -> Phases]
  BY GensAreNats DEF Init, Phases
<1>2. role \in [Gens -> {"daemon", "maintenance", "legacy"}]
  BY DEF Init
<1>3. mirror \in 0 .. NGens /\ heartbeat \in 0 .. NGens
  BY GensAreNats, OwnershipAssumption DEF Init
<1>4. lease \in [Gens -> {"none", "fresh", "expired"}]
  BY DEF Init
<1>5. pid \in [Gens -> Pids]
  BY DEF Init
<1>6. op \in [cmd : {"none", "stop", "mutate"}, step : OpSteps, rec : 0 .. NGens]
  BY OwnershipAssumption DEF Init, NoOp, OpSteps
<1>7. /\ strangers \subseteq Pids /\ reused \in 0 .. MaxReuse /\ row \in 0 .. NGens
      /\ tries \in [Gens -> 0 .. MaxTries] /\ seen \in [Gens -> 0 .. NGens] /\ obs \in [Gens -> 0 .. NGens]
  BY OwnershipAssumption DEF Init
<1> QED
  BY <1>1, <1>2, <1>3, <1>4, <1>5, <1>6, <1>7 DEF TypeOK

LEMMA TypeSystem ==
  ASSUME TypeOK, NEW g \in Gens,
         Spawn(g) \/ SpawnLegacy(g) \/ Crash(g) \/ LeaseExpires(g)
  PROVE  TypeOK'
<1>1. CASE Spawn(g)
  BY <1>1, OwnershipAssumption DEF Spawn, TypeOK, Phases, evidence
<1>2. CASE SpawnLegacy(g)
  BY <1>2, GensAreNats DEF SpawnLegacy, TypeOK, Phases
<1>3. CASE Crash(g)
  BY <1>3 DEF Crash, Ends, TypeOK, Phases, evidence
<1>4. CASE LeaseExpires(g)
  BY <1>4 DEF LeaseExpires, TypeOK, process, claim
<1> QED
  BY <1>1, <1>2, <1>3, <1>4

LEMMA TypeStranger ==
  ASSUME TypeOK, NEW p \in Pids, StrangerTakes(p) \/ StrangerLeaves(p)
  PROVE  TypeOK'
BY OwnershipAssumption DEF StrangerTakes, StrangerLeaves, TypeOK, claim, evidence

LEMMA TypeRefuse ==
  ASSUME TypeOK, NEW g \in Gens, Refuse(g)
  PROVE  TypeOK'
BY DEF Refuse, Ends, TypeOK, Phases, evidence

LEMMA TypeRetry ==
  ASSUME TypeOK, NEW g \in Gens, tries[g] < MaxTries, Retry(g)
  PROVE  TypeOK'
<1>1. phase' \in [Gens -> Phases] /\ alive' \subseteq Gens
  BY DEF Retry, Go, TypeOK, Phases
<1>2. tries[g] + 1 \in 0 .. MaxTries
  BY OwnershipAssumption DEF TypeOK
<1>3. tries' \in [Gens -> 0 .. MaxTries]
  BY <1>2 DEF Retry, TypeOK
<1> QED
  BY <1>1, <1>3 DEF Retry, TypeOK, evidence

LEMMA TypeReads ==
  ASSUME TypeOK, NEW g \in Gens,
         \/ ReadAuthority(g) \/ ReadMirror(g) \/ Inspect(g) \/ CheckHeartbeat(g)
         \/ CheckLeases(g) \/ CheckMirror(g) \/ CheckBeat(g)
  PROVE  TypeOK'
<1>1. CASE Refuse(g)
  BY <1>1, TypeRefuse
<1>2. CASE /\ UNCHANGED <<process, tries, evidence, op>>
           /\ seen' \in [Gens -> 0 .. NGens] /\ obs' \in [Gens -> 0 .. NGens]
           /\ phase' \in [Gens -> Phases]
  BY <1>2 DEF TypeOK, process, evidence
<1>3. phase \in [Gens -> Phases] /\ seen \in [Gens -> 0 .. NGens] /\ obs \in [Gens -> 0 .. NGens]
      /\ row \in 0 .. NGens /\ mirror \in 0 .. NGens
  BY DEF TypeOK
<1>4. CASE ReadAuthority(g) \/ ReadMirror(g)
  BY <1>2, <1>3, <1>4 DEF ReadAuthority, ReadMirror, Go, Phases
<1>5. CASE Inspect(g) \/ CheckHeartbeat(g) \/ CheckLeases(g) \/ CheckMirror(g) \/ CheckBeat(g)
  BY <1>1, <1>2, <1>3, <1>5 DEF Inspect, CheckHeartbeat, CheckLeases, CheckMirror, CheckBeat, Go, Phases
<1> QED
  BY <1>4, <1>5

LEMMA TypeSwap ==
  ASSUME TypeOK, TriesLeft, NEW g \in Gens, Swap(g) \/ SwapTorn(g) \/ Publish(g)
  PROVE  TypeOK'
<1>0. g \in 0 .. NGens /\ 0 \in 0 .. NGens
  BY GensAreNats, OwnershipAssumption
<1>1. CASE Swap(g) /\ (Retry(g) \/ Refuse(g))
  <2>1. tries[g] < MaxTries
    BY <1>1 DEF Swap, Claiming, TriesLeft
  <2> QED
    BY <1>1, <2>1, TypeRetry, TypeRefuse
<1>2. CASE /\ row' = g /\ mirror' = 0 /\ lease' = LeasesReturned(g)
           /\ Go(g, IF role[g] = "daemon" THEN "publish" ELSE "up")
           /\ UNCHANGED <<process, seen, obs, tries, heartbeat, op>>
  <2>1. lease' \in [Gens -> {"none", "fresh", "expired"}]
    BY <1>2 DEF LeasesReturned, TypeOK
  <2>2. phase' \in [Gens -> Phases]
    BY <1>2 DEF Go, TypeOK, Phases
  <2> QED
    BY <1>0, <1>2, <2>1, <2>2 DEF TypeOK, process
<1>3. CASE SwapTorn(g)
  BY <1>0, <1>3 DEF SwapTorn, Ends, TypeOK, Phases
<1>4. CASE Publish(g)
  <2>1. row' \in 0 .. NGens /\ mirror' \in 0 .. NGens
    BY <1>0, <1>4 DEF Publish, Delete, TypeOK
  <2>2. /\ phase' \in [Gens -> Phases] /\ alive' \subseteq Gens
        /\ UNCHANGED <<pid, role, strangers, reused, seen, obs, tries>>
    BY <1>4 DEF Publish, Go, Ends, TypeOK, Phases, process
  <2> QED
    BY <1>4, <2>1, <2>2 DEF Publish, TypeOK
<1> QED
  BY <1>1, <1>2, <1>3, <1>4 DEF Swap

LEMMA TypeOwner ==
  ASSUME TypeOK, NEW g \in Gens, OwnerStep(g)
  PROVE  TypeOK'
<1>0. g \in 0 .. NGens /\ 0 \in 0 .. NGens
  BY GensAreNats, OwnershipAssumption
<1>1. CASE Work(g)
  BY <1>1 DEF Work, TypeOK, process, claim
<1>2. CASE WriteHeartbeat(g)
  BY <1>0, <1>2 DEF WriteHeartbeat, TypeOK, process, claim
<1>3. CASE RecoverStaleLeases(g)
  BY <1>3 DEF RecoverStaleLeases, TypeOK, process, claim
<1>4. CASE Release(g) \/ ReleaseTorn(g)
  <2>1. row' \in 0 .. NGens /\ mirror' \in 0 .. NGens
    BY <1>0, <1>4 DEF Release, ReleaseTorn, Delete, TypeOK
  <2>2. Ends(g) /\ lease' = [lease EXCEPT ![g] = "none"] /\ UNCHANGED <<heartbeat, op>>
    BY <1>4 DEF Release, ReleaseTorn
  <2>3. phase' \in [Gens -> Phases] /\ alive' \subseteq Gens
    BY <2>2 DEF Ends, TypeOK, Phases
  <2> QED
    BY <2>1, <2>2, <2>3 DEF Ends, TypeOK
<1> QED
  BY <1>1, <1>2, <1>3, <1>4 DEF OwnerStep

\* How a command goes on.
Ops == [cmd : {"none", "stop", "mutate"}, step : OpSteps, rec : 0 .. NGens]

LEMMA OpMoves ==
  ASSUME TypeOK, NEW s \in OpSteps, NEW r \in 0 .. NGens
  PROVE  /\ [op EXCEPT !.step = s] \in Ops
         /\ [op EXCEPT !.step = s].step = s /\ [op EXCEPT !.step = s].rec = op.rec
         /\ [op EXCEPT !.step = s, !.rec = r] \in Ops
         /\ [op EXCEPT !.step = s, !.rec = r].step = s /\ [op EXCEPT !.step = s, !.rec = r].rec = r
BY DEF TypeOK, Ops

LEMMA OpToMoves ==
  ASSUME TypeOK, NEW s \in OpSteps, OpTo(s)
  PROVE  /\ op' \in Ops /\ op'.step = s /\ op'.rec = op.rec
         /\ UNCHANGED <<process, claim, evidence>>
BY DEF TypeOK, Ops, OpTo

LEMMA NoOpMoves == NoOp \in Ops /\ NoOp.step = "idle" /\ NoOp.rec = 0
BY OwnershipAssumption DEF NoOp, Ops, OpSteps

LEMMA StepNames ==
  {"idle", "read", "inspect", "clear", "signal", "write", "hit", "wrote"} \subseteq OpSteps
BY DEF OpSteps

\* A command ends, or reads again, or acts on what it has read: one lemma for each step.
LEMMA GiveMoves ==
  ASSUME TypeOK, NEW cmd \in Commands, Give(cmd)
  PROVE  op' \in Ops /\ op'.step = "read" /\ op'.rec = 0 /\ UNCHANGED <<process, claim, evidence>>
BY OwnershipAssumption DEF Give, Ops, OpSteps

LEMMA ReadControlMoves ==
  ASSUME TypeOK, ReadControl
  PROVE  /\ op' \in Ops /\ UNCHANGED <<process, claim, evidence>>
         /\ \/ op'.step = "inspect" /\ op'.rec = row /\ row # 0
            \/ op'.step = "inspect" /\ op'.rec = mirror /\ mirror # 0 /\ row = 0
            \/ /\ op'.step = "write" /\ op'.rec = op.rec
               /\ row = 0 /\ mirror = 0 /\ HeartbeatGone /\ NoFreshLease
            \/ op'.step = "idle" /\ op'.rec = 0
<1>0. row \in 0 .. NGens /\ mirror \in 0 .. NGens /\ "inspect" \in OpSteps /\ "write" \in OpSteps
  BY StepNames DEF TypeOK
<1>1. CASE row # 0 /\ op' = [op EXCEPT !.step = "inspect", !.rec = row]
  BY <1>0, <1>1, OpMoves DEF ReadControl
<1>2. CASE row = 0 /\ mirror # 0 /\ op' = [op EXCEPT !.step = "inspect", !.rec = mirror]
  BY <1>0, <1>2, OpMoves DEF ReadControl
<1>3. CASE row = 0 /\ mirror = 0 /\ op' = [op EXCEPT !.step = "write"] /\ HeartbeatGone /\ NoFreshLease
  BY <1>0, <1>3, OpMoves DEF ReadControl
<1>4. CASE op' = NoOp
  BY <1>4, NoOpMoves DEF ReadControl
<1> QED
  BY <1>1, <1>2, <1>3, <1>4 DEF ReadControl

LEMMA InspectControlMoves ==
  ASSUME TypeOK, InspectControl
  PROVE  /\ op' \in Ops /\ UNCHANGED <<process, claim, evidence>>
         /\ op.step = "inspect"
         /\ \/ op'.step \in {"read", "signal"} /\ op'.rec = op.rec
            \/ op'.step = "clear" /\ op'.rec = op.rec /\ Gone(op.rec) /\ StillCurrent
            \/ op'.step = "idle" /\ op'.rec = 0
<1>1. CASE OpTo("read") \/ OpTo("signal")
  BY <1>1, StepNames, OpToMoves DEF InspectControl
<1>2. CASE OpTo("clear") /\ Gone(op.rec) /\ StillCurrent
  BY <1>2, StepNames, OpToMoves DEF InspectControl
<1>3. CASE op' = NoOp /\ UNCHANGED <<process, claim, evidence>>
  BY <1>3, NoOpMoves DEF InspectControl
<1> QED
  BY <1>1, <1>2, <1>3 DEF InspectControl

LEMMA ClearDeadMoves ==
  ASSUME TypeOK, ClearDead
  PROVE  /\ op' \in Ops /\ op.step = "clear" /\ UNCHANGED <<process, claim, heartbeat, lease>>
         /\ row' \in {row, 0} /\ (row' # row => row = op.rec)
         /\ mirror' \in {mirror, 0} /\ (mirror' # mirror => row = op.rec /\ mirror = op.rec)
         /\ row' # row /\ mirror = row => mirror' = 0
         /\ \/ op'.step \in {"read", "write"} /\ op'.rec = op.rec
            \/ op'.step = "idle" /\ op'.rec = 0
<1>0. 0 \in 0 .. NGens
  BY OwnershipAssumption
<1>1. /\ row' \in {row, 0} /\ (row' # row => row = op.rec)
      /\ mirror' \in {mirror, 0} /\ (mirror' # mirror => row = op.rec /\ mirror = op.rec)
      /\ row' # row /\ mirror = row => mirror' = 0
      /\ op.step = "clear" /\ UNCHANGED <<process, claim, heartbeat, lease>>
  BY DEF ClearDead, Delete
<1>2. CASE op' = [op EXCEPT !.step = "read"]
  BY <1>0, <1>1, <1>2, StepNames, OpMoves
<1>3. CASE op' = [op EXCEPT !.step = "write"]
  BY <1>0, <1>1, <1>3, StepNames, OpMoves
<1>4. CASE op' = NoOp
  BY <1>1, <1>4, NoOpMoves
<1> QED
  BY <1>2, <1>3, <1>4 DEF ClearDead

LEMMA EndMoves ==
  ASSUME TypeOK, Signal \/ Mutate
  PROVE  /\ op' \in Ops /\ op.step \in {"signal", "write"} /\ UNCHANGED <<process, claim, evidence>>
         /\ \/ op'.step \in {"hit", "read", "wrote"} /\ op'.rec = op.rec
            \/ op'.step = "idle" /\ op'.rec = 0
         /\ op'.step = "wrote" => op.step = "write" /\ NoOwnerRow
<1>1. CASE (OpTo("hit") \/ OpTo("read")) /\ Signal
  BY <1>1, StepNames, OpToMoves DEF Signal
<1>2. CASE OpTo("wrote") /\ Mutate /\ NoOwnerRow
  BY <1>2, StepNames, OpToMoves DEF Mutate
<1>3. CASE op' = NoOp /\ UNCHANGED <<process, claim, evidence>> /\ Mutate
  BY <1>3, NoOpMoves DEF Mutate
<1> QED
  BY <1>1, <1>2, <1>3 DEF Signal, Mutate

LEMMA TypeCommand ==
  ASSUME TypeOK, Command
  PROVE  TypeOK'
<1>1. /\ op' \in Ops /\ row' \in {row, 0} /\ mirror' \in {mirror, 0}
      /\ UNCHANGED <<process, claim, heartbeat, lease>>
  <2>1. CASE UNCHANGED <<process, claim, evidence>> /\ op' \in Ops
    BY <2>1 DEF evidence
  <2> QED
    BY <2>1, GiveMoves, ReadControlMoves, InspectControlMoves, ClearDeadMoves, EndMoves DEF Command
<1>2. 0 \in 0 .. NGens
  BY OwnershipAssumption
<1> QED
  BY <1>1, <1>2 DEF TypeOK, Ops, process, claim

LEMMA TypeStep ==
  ASSUME TypeOK, TriesLeft, [Next]_vars
  PROVE  TypeOK'
<1>1. CASE UNCHANGED vars
  BY <1>1 DEF TypeOK, vars, process, claim, evidence
<1>2. CASE Next
  BY <1>2, TypeSystem, TypeStranger, TypeReads, TypeSwap, TypeOwner, TypeCommand DEF Next, ClaimStep
<1> QED
  BY <1>1, <1>2

-----------------------------------------------------------------------------
(* The course of a process: it is started once, and once gone it stays gone. *)

\* What every step does to every process.
Course ==
    /\ \A h \in Gens : phase[h] = "gone" => phase'[h] = "gone"
    /\ \A h \in Gens : phase[h] # "none" => phase'[h] # "none" /\ role'[h] = role[h]

Lives == TypeOK /\ AliveIsRunning /\ TriesLeft

\* A process goes on, or ends.
Goes(g, next) ==
    /\ phase' = [phase EXCEPT ![g] = next]
    /\ alive' = IF next = "gone" THEN alive \ {g} ELSE alive
    /\ role' = role

LEMMA GoesFacts ==
  ASSUME Lives, NEW g \in Gens, g \in alive, NEW next \in Phases \ {"none"}, Goes(g, next),
         tries' = tries \/ (tries' = [tries EXCEPT ![g] = @ + 1] /\ (next = "gone" \/ tries[g] + 1 < MaxTries))
  PROVE  /\ Course /\ AliveIsRunning' /\ TriesLeft'
         /\ phase'[g] = next /\ \A h \in Gens : h # g => phase'[h] = phase[h]
<1>1. /\ phase \in [Gens -> Phases] /\ tries \in [Gens -> 0 .. MaxTries] /\ alive \subseteq Gens
      /\ phase[g] \notin {"none", "gone"}
  BY DEF Lives, TypeOK, AliveIsRunning
<1>2. phase'[g] = next /\ \A h \in Gens : h # g => phase'[h] = phase[h]
  BY <1>1 DEF Goes
<1>3. Course
  BY <1>1, <1>2 DEF Course, Goes
<1>4. AliveIsRunning'
  BY <1>1, <1>2 DEF Lives, AliveIsRunning, Goes
<1>5. TriesLeft'
  BY <1>1, <1>2 DEF Lives, TriesLeft
<1> QED
  BY <1>2, <1>3, <1>4, <1>5

LEMMA StillFacts ==
  ASSUME Lives, UNCHANGED <<alive, phase, role, tries>>
  PROVE  Course /\ AliveIsRunning' /\ TriesLeft'
BY DEF Lives, Course, AliveIsRunning, TriesLeft

LEMMA StartFacts ==
  ASSUME Lives, NEW g \in Gens, phase[g] = "none", NEW next \in {"read", "up"},
         phase' = [phase EXCEPT ![g] = next], alive' = alive \cup {g},
         NEW r, role' = [role EXCEPT ![g] = r], tries' = tries
  PROVE  /\ Course /\ AliveIsRunning' /\ TriesLeft'
         /\ phase'[g] = next /\ \A h \in Gens : h # g => phase'[h] = phase[h]
<1>1. phase \in [Gens -> Phases] /\ role \in [Gens -> {"daemon", "maintenance", "legacy"}]
  BY DEF Lives, TypeOK
<1>2. phase'[g] = next /\ \A h \in Gens : h # g => phase'[h] = phase[h] /\ role'[h] = role[h]
  BY <1>1
<1> QED
  BY <1>2 DEF Lives, Course, AliveIsRunning, TriesLeft

\* The steps of a claim and of an owner, as moves of their process.
LEMMA RefuseGoes ==
  ASSUME NEW g \in Gens, Refuse(g)
  PROVE  Goes(g, "gone") /\ UNCHANGED <<tries, seen, obs, evidence, op>>
BY DEF Refuse, Ends, Goes

LEMMA GoGoes ==
  ASSUME NEW g \in Gens, NEW next, next # "gone", Go(g, next), UNCHANGED process
  PROVE  Goes(g, next)
BY DEF Go, Goes, process

LEMMA ReadsCourse ==
  ASSUME Lives, NEW g \in Gens,
         \/ ReadAuthority(g) \/ ReadMirror(g) \/ Inspect(g) \/ CheckHeartbeat(g)
         \/ CheckLeases(g) \/ CheckMirror(g) \/ CheckBeat(g)
  PROVE  Course /\ AliveIsRunning' /\ TriesLeft'
<1>1. g \in alive /\ tries' = tries
  BY DEF ReadAuthority, ReadMirror, Inspect, CheckHeartbeat, CheckLeases, CheckMirror, CheckBeat,
         Claiming, Refuse, Ends
<1>2. CASE Refuse(g)
  BY <1>1, <1>2, RefuseGoes, GoesFacts DEF Phases
<1>3. CASE /\ UNCHANGED process
           /\ \/ Go(g, "mirror") \/ Go(g, "inspect") \/ Go(g, "heartbeat") \/ Go(g, "swap") \/ Go(g, "conflict")
              \/ Go(g, "leases") \/ Go(g, "beat")
  <2>1. PICK next \in Phases \ {"none", "gone"} : Go(g, next)
    BY <1>3 DEF Phases
  <2>2. Goes(g, next)
    BY <1>3, <2>1, GoGoes
  <2> QED
    BY <1>1, <2>2, GoesFacts
<1> QED
  BY <1>2, <1>3 DEF ReadAuthority, ReadMirror, Inspect, CheckHeartbeat, CheckLeases, CheckMirror, CheckBeat

LEMMA RetryGoes ==
  ASSUME Lives, NEW g \in Gens, Retry(g)
  PROVE  /\ \/ Goes(g, "read") /\ tries[g] + 1 < MaxTries
            \/ Goes(g, "gone")
         /\ tries' = [tries EXCEPT ![g] = @ + 1]
         /\ UNCHANGED <<seen, obs, evidence, op>>
BY DEF Retry, Go, Goes

LEMMA WonGoes ==
  ASSUME NEW g \in Gens, Go(g, IF role[g] = "daemon" THEN "publish" ELSE "up"), UNCHANGED process
  PROVE  Goes(g, "publish") \/ Goes(g, "up")
BY DEF Go, Goes, process

LEMMA SwapCourse ==
  ASSUME Lives, NEW g \in Gens, Swap(g) \/ SwapTorn(g) \/ Publish(g)
  PROVE  Course /\ AliveIsRunning' /\ TriesLeft'
<1>1. g \in alive /\ {"read", "gone", "publish", "up"} \subseteq Phases \ {"none"}
  BY DEF Swap, SwapTorn, Publish, Claiming, Phases
<1>2. CASE Retry(g)
  BY <1>1, <1>2, RetryGoes, GoesFacts
<1>3. CASE Goes(g, "gone") /\ tries' = tries
  BY <1>1, <1>3, GoesFacts
<1>4. CASE (Goes(g, "publish") \/ Goes(g, "up")) /\ tries' = tries
  BY <1>1, <1>4, GoesFacts
<1>5. CASE Swap(g)
  BY <1>2, <1>3, <1>4, <1>5, RefuseGoes, WonGoes DEF Swap
<1>6. CASE SwapTorn(g)
  BY <1>3, <1>6 DEF SwapTorn, Ends, Goes
<1>7. CASE Publish(g)
  BY <1>3, <1>4, <1>7 DEF Publish, Ends, Goes, Go, process
<1> QED
  BY <1>5, <1>6, <1>7

LEMMA OwnerCourse ==
  ASSUME Lives, NEW g \in Gens, OwnerStep(g)
  PROVE  Course /\ AliveIsRunning' /\ TriesLeft'
<1>1. CASE Work(g) \/ WriteHeartbeat(g) \/ RecoverStaleLeases(g)
  BY <1>1, StillFacts DEF Work, WriteHeartbeat, RecoverStaleLeases, process, claim
<1>2. CASE Release(g) \/ ReleaseTorn(g)
  <2>1. g \in alive /\ Goes(g, "gone") /\ tries' = tries /\ "gone" \in Phases \ {"none"}
    BY <1>2 DEF Release, ReleaseTorn, Up, Ends, Goes, Phases
  <2> QED
    BY <2>1, GoesFacts
<1> QED
  BY <1>1, <1>2 DEF OwnerStep

LEMMA SystemCourse ==
  ASSUME Lives, NEW g \in Gens, Spawn(g) \/ SpawnLegacy(g) \/ Crash(g) \/ LeaseExpires(g)
  PROVE  Course /\ AliveIsRunning' /\ TriesLeft'
<1>1. CASE Spawn(g)
  <2>1. PICK r \in Roles : role' = [role EXCEPT ![g] = r]
    BY <1>1 DEF Spawn
  <2> QED
    BY <1>1, <2>1, StartFacts DEF Spawn, NextGen
<1>2. CASE SpawnLegacy(g)
  BY <1>2, StartFacts DEF SpawnLegacy, NextGen
<1>3. CASE Crash(g)
  <2>1. g \in alive /\ Goes(g, "gone") /\ tries' = tries /\ "gone" \in Phases \ {"none"}
    BY <1>3 DEF Crash, Ends, Goes, Phases
  <2> QED
    BY <2>1, GoesFacts
<1>4. CASE LeaseExpires(g)
  BY <1>4, StillFacts DEF LeaseExpires, process, claim
<1> QED
  BY <1>1, <1>2, <1>3, <1>4

LEMMA CourseStep ==
  ASSUME Lives, [Next]_vars
  PROVE  Course /\ Lives'
<1>0. TypeOK'
  BY TypeStep DEF Lives
<1>1. CASE UNCHANGED vars
  BY <1>0, <1>1, StillFacts DEF Lives, vars, process, claim
<1>2. ASSUME Command \/ \E p \in Pids : StrangerTakes(p) \/ StrangerLeaves(p)
      PROVE  UNCHANGED <<alive, phase, role, tries>>
  BY <1>2 DEF StrangerTakes, StrangerLeaves, claim, Command, Give, ReadControl, InspectControl, ClearDead,
              Signal, Mutate, OpTo, process
<1> QED
  BY <1>0, <1>1, <1>2, StillFacts, SystemCourse, ReadsCourse, SwapCourse, OwnerCourse DEF Next, ClaimStep, Lives

-----------------------------------------------------------------------------
(* The authority. *)

\* A step records only what was recorded, or a process that runs.
Named(rec) == \/ rec \in {0, row, mirror, heartbeat, op.rec}
              \/ rec \in Gens /\ phase'[rec] # "none"

LEMMA RecordsStep ==
  ASSUME Lives, Course, RecordsAreStarted,
         Named(row'), Named(mirror'), Named(heartbeat'), Named(op'.rec),
         \A g \in Gens : seen'[g] \in {seen[g], row} /\ obs'[g] \in {obs[g], mirror}
  PROVE  RecordsAreStarted'
<1>1. \A rec \in 0 .. NGens : rec # 0 => rec \in Gens
  BY OwnershipAssumption DEF Gens
<1>2. \A rec \in {row, mirror, heartbeat, op.rec} : rec \in 0 .. NGens
  BY DEF Lives, TypeOK
<1>3. \A rec \in {row, mirror, heartbeat, op.rec} : rec # 0 => phase'[rec] # "none"
  BY <1>1, <1>2 DEF Course, RecordsAreStarted
<1>4. \A g \in Gens : seen[g] \in 0 .. NGens /\ obs[g] \in 0 .. NGens
  BY DEF Lives, TypeOK
<1>5. \A g \in Gens : \A rec \in {seen[g], obs[g]} : rec # 0 => phase'[rec] # "none"
  BY <1>1, <1>4 DEF Course, RecordsAreStarted
<1>6. \A rec \in {row', mirror', heartbeat', op'.rec} : rec # 0 => phase'[rec] # "none"
  BY <1>3 DEF Named
<1>7. \A g \in Gens : \A rec \in {seen'[g], obs'[g]} : rec # 0 => phase'[rec] # "none"
  BY <1>3, <1>5
<1> QED
  BY <1>6, <1>7 DEF RecordsAreStarted

\* What is judged gone is gone: a pid that answers nobody is not that of a live process.
LEMMA GoneIsGone ==
  ASSUME Lives, NEW h \in Gens, phase[h] # "none", Gone(h) \/ DaemonGone(h)
  PROVE  phase[h] = "gone"
<1>1. h \notin alive
  BY DEF Gone, DaemonGone, MaintenanceGone, PidLive, Free
<1> QED
  BY <1>1 DEF Lives, AliveIsRunning

LEMMA RecordTypes ==
  ASSUME Lives, RecordsAreStarted
  PROVE  /\ \A rec \in {row, mirror, heartbeat, op.rec} : rec = 0 \/ (rec \in Gens /\ phase[rec] # "none")
         /\ \A g \in Gens : \A rec \in {seen[g], obs[g]} : rec = 0 \/ (rec \in Gens /\ phase[rec] # "none")
<1>1. \A rec \in 0 .. NGens : rec # 0 => rec \in Gens
  BY OwnershipAssumption DEF Gens
<1>2. \A rec \in {row, mirror, heartbeat, op.rec} : rec \in 0 .. NGens
  BY DEF Lives, TypeOK
<1>3. \A g \in Gens : seen[g] \in 0 .. NGens /\ obs[g] \in 0 .. NGens
  BY DEF Lives, TypeOK
<1> QED
  BY <1>1, <1>2, <1>3 DEF RecordsAreStarted

Authority == Lives /\ RecordsAreStarted /\ JudgedDead /\ AuthorityHeld

\* The part of JudgedDead about the claim of g, and that of the command.
ClaimJudged(g) ==
    /\ phase[g] \in {"mirror", "heartbeat", "leases"} => seen[g] = 0
    /\ phase[g] = "inspect" => Target(g) # 0
    /\ phase[g] \in {"conflict", "beat"} => seen[g] # 0
    /\ phase[g] \in {"conflict", "beat", "swap"} /\ seen[g] # 0 => phase[seen[g]] = "gone"

OpJudged ==
    /\ op.step \in {"inspect", "clear", "signal"} => op.rec # 0
    /\ op.step = "clear" => phase[op.rec] = "gone"

LEMMA ClaimStays ==
  ASSUME Authority, Course, NEW g \in Gens,
         phase'[g] = phase[g], seen'[g] = seen[g], obs'[g] = obs[g]
  PROVE  ClaimJudged(g)'
<1>1. seen[g] # 0 => seen[g] \in Gens
  BY RecordTypes DEF Authority
<1> QED
  BY <1>1 DEF Authority, JudgedDead, ClaimJudged, Course, Target

LEMMA ClaimOut ==
  ASSUME NEW g \in Gens, phase'[g] \in {"none", "read", "publish", "up", "gone"}
  PROVE  ClaimJudged(g)'
BY DEF ClaimJudged

LEMMA OpStays ==
  ASSUME Authority, Course, op' = op
  PROVE  OpJudged'
<1>1. op.rec # 0 => op.rec \in Gens
  BY RecordTypes DEF Authority
<1> QED
  BY <1>1 DEF Authority, JudgedDead, OpJudged, Course

LEMMA JudgedParts ==
  ASSUME \A g \in Gens : ClaimJudged(g)', OpJudged'
  PROVE  JudgedDead'
BY DEF ClaimJudged, OpJudged, JudgedDead, Target

\* Who holds the root: a step that changes neither the row nor who has won it.
LEMMA HeldStays ==
  ASSUME Authority, Course, row' = row,
         \A g \in Gens : phase'[g] \in {"publish", "up"} /\ role'[g] # "legacy" =>
            phase[g] \in {"publish", "up"}
  PROVE  AuthorityHeld'
<1>1. SUFFICES ASSUME NEW g \in Gens, g \in alive', phase'[g] \in {"publish", "up"}, role'[g] # "legacy"
               PROVE  row = g
  BY DEF AuthorityHeld
<1>2. phase[g] \in {"publish", "up"} /\ role'[g] = role[g]
  BY <1>1 DEF Course
<1>3. g \in alive
  BY <1>2 DEF Authority, Lives, AliveIsRunning
<1> QED
  BY <1>1, <1>2, <1>3 DEF Authority, AuthorityHeld

\* A process that leaves the root to the others: it ends, and the row loses only its name.
LEMMA HeldLeaves ==
  ASSUME Authority, Course, NEW g \in Gens,
         row' = row \/ (row = g /\ row' = 0),
         phase'[g] = "gone", \A h \in Gens : h # g => phase'[h] = phase[h]
  PROVE  AuthorityHeld'
<1>1. SUFFICES ASSUME NEW h \in Gens, h \in alive', phase'[h] \in {"publish", "up"}, role'[h] # "legacy"
               PROVE  row' = h
  BY DEF AuthorityHeld
<1>2. h # g /\ phase[h] \in {"publish", "up"} /\ role'[h] = role[h]
  BY <1>1 DEF Course
<1>3. row = h
  BY <1>1, <1>2 DEF Authority, AuthorityHeld, Lives, AliveIsRunning
<1> QED
  BY <1>2, <1>3

\* A process ends, whatever it was doing, and leaves the mirror or not.
LEMMA AuthorityEnds ==
  ASSUME Authority, NEW g \in Gens, g \in alive, Goes(g, "gone"), tries' = tries \/ Retry(g), Lives',
         UNCHANGED <<seen, obs, heartbeat, op>>,
         row' = row \/ (row = g /\ row' = 0), mirror' \in {mirror, 0}
  PROVE  Authority'
<1>1. /\ Course /\ phase'[g] = "gone" /\ \A h \in Gens : h # g => phase'[h] = phase[h]
  <2>1. "gone" \in Phases \ {"none"} /\ Lives
    BY DEF Phases, Authority
  <2>2. tries' = tries \/ tries' = [tries EXCEPT ![g] = @ + 1]
    BY DEF Retry
  <2> QED
    BY <2>1, <2>2, GoesFacts
<1>2. RecordsAreStarted'
  BY <1>1, RecordsStep DEF Authority, Named
<1>3. JudgedDead'
  BY <1>1, ClaimStays, ClaimOut, OpStays, JudgedParts
<1>4. AuthorityHeld'
  BY <1>1, HeldLeaves
<1> QED
  BY <1>2, <1>3, <1>4 DEF Authority

LEMMA AuthorityReads ==
  ASSUME Authority, NEW g \in Gens, Lives',
         \/ ReadAuthority(g) \/ ReadMirror(g) \/ Inspect(g) \/ CheckHeartbeat(g)
         \/ CheckLeases(g) \/ CheckMirror(g) \/ CheckBeat(g)
  PROVE  Authority'
<1>1. CASE Refuse(g)
  <2>1. g \in alive
    BY DEF ReadAuthority, ReadMirror, Inspect, CheckHeartbeat, CheckLeases, CheckMirror, CheckBeat, Claiming
  <2> QED
    BY <1>1, <2>1, RefuseGoes, AuthorityEnds DEF evidence
<1>2. CASE ~Refuse(g)
  <2>1. /\ Course /\ phase \in [Gens -> Phases] /\ seen \in [Gens -> 0 .. NGens] /\ obs \in [Gens -> 0 .. NGens]
    BY ReadsCourse DEF Authority, Lives, TypeOK
  <2>2. /\ UNCHANGED <<alive, role, row, mirror, heartbeat, op>>
        /\ \A h \in Gens : seen'[h] \in {seen[h], row} /\ obs'[h] \in {obs[h], mirror}
        /\ \A h \in Gens : h # g => phase'[h] = phase[h] /\ seen'[h] = seen[h] /\ obs'[h] = obs[h]
    BY <1>2, <2>1 DEF ReadAuthority, ReadMirror, Inspect, CheckHeartbeat, CheckLeases, CheckMirror, CheckBeat,
         Go, process, evidence
  <2>3. RecordsAreStarted'
    BY <2>1, <2>2, RecordsStep DEF Authority, Named
  <2>4. ClaimJudged(g)'
    <3>1. CASE ReadAuthority(g)
      BY <2>1, <3>1 DEF ReadAuthority, Go, ClaimJudged, Target
    <3>2. CASE ReadMirror(g)
      BY <2>1, <3>2 DEF ReadMirror, Go, ClaimJudged, Target, Claiming, Authority, JudgedDead
    <3>3. CASE Inspect(g)
      <4>1. phase[g] = "inspect" /\ Gone(Target(g)) /\ seen' = seen
            /\ phase'[g] = IF seen[g] = 0 THEN "swap" ELSE "conflict"
        BY <1>2, <2>1, <3>3 DEF Inspect, Claiming, Go
      <4>2. seen[g] # 0 => seen[g] \in Gens /\ phase[seen[g]] # "none" /\ Gone(seen[g])
        BY <4>1, RecordTypes DEF Target, Authority
      <4>3. seen[g] # 0 => phase[seen[g]] = "gone" /\ seen[g] \in Gens
        BY <4>2, GoneIsGone DEF Authority
      <4> QED
        BY <2>1, <4>1, <4>3 DEF ClaimJudged, Course
    <3>4. CASE CheckHeartbeat(g) \/ CheckLeases(g)
      BY <1>2, <2>1, <3>4 DEF CheckHeartbeat, CheckLeases, Go, Claiming, ClaimJudged, Authority, JudgedDead
    <3>5. CASE CheckMirror(g) \/ CheckBeat(g)
      <4>1. phase[g] \in {"conflict", "beat"} /\ seen' = seen /\ phase'[g] \in {"beat", "swap"}
        BY <1>2, <2>1, <3>5 DEF CheckMirror, CheckBeat, Go, Claiming
      <4>2. seen[g] # 0 /\ phase[seen[g]] = "gone" /\ seen[g] \in Gens
        BY <4>1, RecordTypes DEF Authority, JudgedDead
      <4> QED
        BY <2>1, <4>1, <4>2 DEF ClaimJudged, Course
    <3> QED
      BY <3>1, <3>2, <3>3, <3>4, <3>5
  <2>5. JudgedDead'
    BY <2>1, <2>2, <2>4, ClaimStays, OpStays, JudgedParts
  <2>6. AuthorityHeld'
    <3>1. phase'[g] \notin {"publish", "up"}
      BY <1>2, <2>1 DEF ReadAuthority, ReadMirror, Inspect, CheckHeartbeat, CheckLeases, CheckMirror, CheckBeat, Go
    <3> QED
      BY <2>1, <2>2, <3>1, HeldStays
  <2> QED
    BY <2>3, <2>5, <2>6 DEF Authority
<1> QED
  BY <1>1, <1>2

\* A claim commits only over a row whose owner it found dead: nobody alive loses it.
LEMMA NobodyDispossessed ==
  ASSUME Authority, NEW g \in Gens, g \in alive, phase[g] = "swap", row = seen[g],
         NEW h \in Gens, h \in alive, phase[h] \in {"publish", "up"}
  PROVE  role[h] = "legacy"
<1>1. SUFFICES ASSUME role[h] # "legacy" PROVE FALSE
  OBVIOUS
<1>2. seen[g] = h /\ h # 0
  BY <1>1, GensAreNats DEF Authority, AuthorityHeld
<1>3. phase[h] = "gone"
  BY <1>2 DEF Authority, JudgedDead
<1> QED
  BY <1>3

\* A claim that commits, and a daemon that publishes itself.
Wins(g) ==
    /\ row' = g /\ mirror' = 0 /\ lease' = LeasesReturned(g)
    /\ Go(g, IF role[g] = "daemon" THEN "publish" ELSE "up")
    /\ UNCHANGED <<process, seen, obs, tries, heartbeat, op>>

LEMMA AuthorityWins ==
  ASSUME Authority, NEW g \in Gens, Lives', Claiming(g, "swap"), RowUnchanged(g), Wins(g)
  PROVE  Authority'
<1>1. PICK next \in {"publish", "up"} : Goes(g, next)
  BY WonGoes DEF Wins
<1>2. /\ Course /\ phase'[g] = next /\ \A h \in Gens : h # g => phase'[h] = phase[h]
  BY <1>1, GoesFacts DEF Phases, Authority, Claiming, Wins
<1>3. RecordsAreStarted'
  <2>1. UNCHANGED <<seen, obs, heartbeat, op>> /\ row' = g /\ mirror' = 0
    BY DEF Wins
  <2> QED
    BY <1>2, <2>1, RecordsStep DEF Authority, Named
<1>4. JudgedDead'
  BY <1>2, ClaimStays, ClaimOut, OpStays, JudgedParts DEF Wins
<1>5. AuthorityHeld'
  <2>1. SUFFICES ASSUME NEW h \in Gens, h \in alive', phase'[h] \in {"publish", "up"}, role'[h] # "legacy",
                        h # g
                 PROVE  FALSE
    BY DEF AuthorityHeld, Wins
  <2>2. phase[h] \in {"publish", "up"} /\ role'[h] = role[h] /\ h \in alive
    BY <1>2, <2>1 DEF Wins, process
  <2> QED
    BY <2>1, <2>2, NobodyDispossessed DEF Claiming, RowUnchanged
<1> QED
  BY <1>3, <1>4, <1>5 DEF Authority

LEMMA AuthorityClaims ==
  ASSUME Authority, NEW g \in Gens, Lives', Swap(g) \/ SwapTorn(g) \/ Publish(g)
  PROVE  Authority'
<1>0. Lives /\ g \in alive
  BY DEF Authority, Swap, SwapTorn, Publish, Claiming
<1>1. CASE Claiming(g, "swap") /\ RowUnchanged(g) /\ Wins(g)
  BY <1>1, AuthorityWins
<1>2. CASE Refuse(g)
  BY <1>0, <1>2, RefuseGoes, AuthorityEnds DEF evidence
<1>3. CASE Swap(g) /\ Retry(g)
  <2>1. CASE Goes(g, "gone")
    BY <1>0, <1>3, <2>1, RetryGoes, AuthorityEnds DEF evidence
  <2>2. CASE Goes(g, "read") /\ tries[g] + 1 < MaxTries
    <3>1. /\ Course /\ phase'[g] = "read" /\ \A h \in Gens : h # g => phase'[h] = phase[h]
          /\ UNCHANGED <<seen, obs, row, mirror, heartbeat, op>>
      BY <1>0, <1>3, <2>2, RetryGoes, GoesFacts DEF Phases, evidence
    <3>2. RecordsAreStarted'
      BY <3>1, RecordsStep DEF Authority, Named
    <3>3. JudgedDead'
      BY <3>1, ClaimStays, ClaimOut, OpStays, JudgedParts
    <3>4. AuthorityHeld'
      BY <3>1, HeldStays
    <3> QED
      BY <3>2, <3>3, <3>4 DEF Authority
  <2> QED
    BY <1>0, <1>3, <2>1, <2>2, RetryGoes
<1>4. CASE SwapTorn(g)
  <2>1. Goes(g, "gone") /\ tries' = tries /\ UNCHANGED <<seen, obs, heartbeat, op, row>> /\ mirror' = 0
    BY <1>4 DEF SwapTorn, Ends, Goes
  <2> QED
    BY <1>0, <2>1, AuthorityEnds
<1>5. CASE Publish(g)
  <2>1. CASE Delete(g) /\ Ends(g)
    <3>1. /\ Goes(g, "gone") /\ tries' = tries /\ UNCHANGED <<seen, obs, heartbeat, op>>
          /\ row' = row \/ (row = g /\ row' = 0)
          /\ mirror' \in {mirror, 0}
      BY <1>5, <2>1 DEF Publish, Ends, Goes, Delete
    <3> QED
      BY <1>0, <3>1, AuthorityEnds
  <2>2. CASE mirror' = g /\ Go(g, "up") /\ UNCHANGED <<process, seen, obs, tries, row>>
    <3>1. Goes(g, "up") /\ "up" \in Phases \ {"none"} /\ phase[g] = "publish" /\ UNCHANGED <<heartbeat, op>>
      BY <1>5, <2>2, GoGoes DEF Phases, Publish, Claiming
    <3>2. /\ Course /\ phase'[g] = "up" /\ \A h \in Gens : h # g => phase'[h] = phase[h]
      BY <1>0, <2>2, <3>1, GoesFacts
    <3>3. RecordsAreStarted'
      BY <2>2, <3>1, <3>2, RecordsStep DEF Authority, Named
    <3>4. JudgedDead'
      BY <2>2, <3>1, <3>2, ClaimStays, ClaimOut, OpStays, JudgedParts
    <3>5. AuthorityHeld'
      BY <2>2, <3>1, <3>2, HeldStays
    <3> QED
      BY <3>3, <3>4, <3>5 DEF Authority
  <2> QED
    BY <1>5, <2>1, <2>2 DEF Publish
<1> QED
  BY <1>1, <1>2, <1>3, <1>4, <1>5 DEF Swap, Wins

LEMMA AuthorityOwner ==
  ASSUME Authority, NEW g \in Gens, Lives', OwnerStep(g)
  PROVE  Authority'
<1>1. CASE Work(g) \/ WriteHeartbeat(g) \/ RecoverStaleLeases(g)
  <2>1. UNCHANGED <<alive, phase, role, tries, seen, obs, row, mirror, op>> /\ heartbeat' \in {heartbeat, g}
    BY <1>1 DEF Work, WriteHeartbeat, RecoverStaleLeases, process, claim
  <2>2. Course /\ phase'[g] # "none"
    BY <1>1, <2>1, StillFacts DEF Authority, Work, WriteHeartbeat, RecoverStaleLeases, Up
  <2>3. RecordsAreStarted'
    BY <2>1, <2>2, RecordsStep DEF Authority, Named
  <2>4. JudgedDead'
    BY <2>1, <2>2, ClaimStays, OpStays, JudgedParts
  <2>5. AuthorityHeld'
    BY <2>1, <2>2, HeldStays
  <2> QED
    BY <2>3, <2>4, <2>5 DEF Authority
<1>2. CASE Release(g) \/ ReleaseTorn(g)
  <2>1. /\ g \in alive /\ Goes(g, "gone") /\ tries' = tries /\ UNCHANGED <<seen, obs, heartbeat, op>>
        /\ row' = row \/ (row = g /\ row' = 0)
        /\ mirror' \in {mirror, 0}
    BY <1>2 DEF Release, ReleaseTorn, Up, Ends, Goes, Delete
  <2> QED
    BY <2>1, AuthorityEnds
<1> QED
  BY <1>1, <1>2 DEF OwnerStep

LEMMA AuthoritySystem ==
  ASSUME Authority, NEW g \in Gens, Lives', Spawn(g) \/ SpawnLegacy(g) \/ Crash(g) \/ LeaseExpires(g)
  PROVE  Authority'
<1>1. CASE Spawn(g) \/ SpawnLegacy(g)
  <2>1. PICK r : role' = [role EXCEPT ![g] = r] /\ (SpawnLegacy(g) => r = "legacy")
    BY <1>1 DEF Spawn, SpawnLegacy
  <2>2. PICK next \in {"read", "up"} : phase' = [phase EXCEPT ![g] = next] /\ (next = "up" => SpawnLegacy(g))
    BY <1>1 DEF Spawn, SpawnLegacy
  <2>3. /\ phase[g] = "none" /\ alive' = alive \cup {g} /\ tries' = tries
        /\ UNCHANGED <<seen, obs, row, heartbeat, op>> /\ mirror' \in {mirror, g}
    BY <1>1 DEF Spawn, SpawnLegacy, NextGen, evidence
  <2>4. /\ Course /\ phase'[g] = next /\ \A h \in Gens : h # g => phase'[h] = phase[h]
    BY <2>1, <2>2, <2>3, StartFacts DEF Authority
  <2>5. RecordsAreStarted'
    BY <2>3, <2>4, RecordsStep DEF Authority, Named
  <2>6. JudgedDead'
    BY <2>3, <2>4, ClaimStays, ClaimOut, OpStays, JudgedParts
  <2>7. AuthorityHeld'
    <3>1. phase'[g] = "up" => role'[g] = "legacy"
      BY <2>1, <2>2, <2>4 DEF Authority, Lives, TypeOK
    <3> QED
      BY <2>3, <2>4, <3>1, HeldStays
  <2> QED
    BY <2>5, <2>6, <2>7 DEF Authority
<1>2. CASE Crash(g)
  <2>1. g \in alive /\ Goes(g, "gone") /\ tries' = tries /\ UNCHANGED <<seen, obs, row, mirror, heartbeat, op>>
    BY <1>2 DEF Crash, Ends, Goes, evidence
  <2> QED
    BY <2>1, AuthorityEnds
<1>3. CASE LeaseExpires(g)
  <2>1. UNCHANGED <<alive, phase, role, tries, seen, obs, row, mirror, heartbeat, op>>
    BY <1>3 DEF LeaseExpires, process, claim
  <2>2. Course
    BY <2>1, StillFacts DEF Authority
  <2> QED
    BY <2>1, <2>2, RecordsStep, ClaimStays, OpStays, JudgedParts, HeldStays DEF Authority, Named
<1> QED
  BY <1>1, <1>2, <1>3

\* A command deletes the row of a dead owner only.
LEMMA AuthorityCommand ==
  ASSUME Authority, Lives', Command
  PROVE  Authority'
<1>0. TypeOK
  BY DEF Authority, Lives
<1>1. /\ UNCHANGED <<process, claim, heartbeat, lease>>
      /\ (row' = row /\ mirror' = mirror) \/ ClearDead
  BY <1>0, GiveMoves, ReadControlMoves, InspectControlMoves, EndMoves DEF Command, evidence, ClearDead
<1>2. /\ UNCHANGED <<alive, phase, role, tries, seen, obs, heartbeat>>
      /\ row' \in {row, 0} /\ mirror' \in {mirror, 0}
      /\ row' # row => op.step = "clear" /\ row = op.rec
  BY <1>0, <1>1, ClearDeadMoves DEF process, claim
<1>3. Course
  BY <1>2, StillFacts DEF Authority
<1>4. /\ op'.rec \in {op.rec, 0, row, mirror}
      /\ OpJudged'
  <2>1. CASE \E cmd \in Commands : Give(cmd)
    BY <1>0, <2>1, GiveMoves DEF OpJudged
  <2>2. CASE ReadControl
    BY <1>0, <2>2, ReadControlMoves DEF OpJudged
  <2>3. CASE InspectControl
    <3>1. op.step = "inspect" /\ op.rec # 0 /\ op.rec \in Gens /\ phase[op.rec] # "none"
      BY <1>0, <2>3, InspectControlMoves, RecordTypes DEF Authority, JudgedDead
    <3>2. op'.step = "clear" => op'.rec = op.rec /\ phase[op.rec] = "gone"
      BY <1>0, <2>3, <3>1, InspectControlMoves, GoneIsGone DEF Authority
    <3>3. op'.step \in {"read", "signal", "clear", "idle"} /\ op'.rec \in {op.rec, 0}
          /\ (op'.step # "idle" => op'.rec = op.rec)
      BY <1>0, <2>3, InspectControlMoves
    <3> QED
      BY <1>2, <3>1, <3>2, <3>3 DEF OpJudged
  <2>4. CASE ClearDead
    BY <1>0, <2>4, ClearDeadMoves DEF OpJudged
  <2>5. CASE Signal \/ Mutate
    BY <1>0, <2>5, EndMoves DEF OpJudged
  <2> QED
    BY <2>1, <2>2, <2>3, <2>4, <2>5 DEF Command
<1>5. RecordsAreStarted'
  BY <1>2, <1>3, <1>4, RecordsStep DEF Authority, Named
<1>6. JudgedDead'
  BY <1>2, <1>3, <1>4, ClaimStays, JudgedParts
<1>7. AuthorityHeld'
  <2>1. CASE row' = row
    BY <1>2, <1>3, <2>1, HeldStays
  <2>2. CASE row' # row
    <3>1. phase[row] = "gone"
      BY <1>2, <2>2 DEF Authority, JudgedDead
    <3>2. \A h \in Gens : h \in alive /\ phase[h] \in {"publish", "up"} => role[h] = "legacy"
      BY <3>1 DEF Authority, AuthorityHeld
    <3> QED
      BY <1>2, <3>2 DEF AuthorityHeld
  <2> QED
    BY <2>1, <2>2
<1> QED
  BY <1>5, <1>6, <1>7 DEF Authority

LEMMA AuthorityStep ==
  ASSUME Authority, [Next]_vars
  PROVE  Authority' /\ Course
<1>0. Lives' /\ Course
  BY CourseStep DEF Authority
<1>1. CASE UNCHANGED <<alive, phase, role, tries, seen, obs, row, mirror, heartbeat, op>>
  BY <1>0, <1>1, RecordsStep, ClaimStays, OpStays, JudgedParts, HeldStays DEF Authority, Named
<1>2. CASE UNCHANGED vars
  BY <1>1, <1>2 DEF vars, process, claim, evidence
<1>3. ASSUME NEW p \in Pids, StrangerTakes(p) \/ StrangerLeaves(p)
      PROVE  Authority'
  BY <1>1, <1>3 DEF StrangerTakes, StrangerLeaves, claim, evidence
<1> QED
  BY <1>0, <1>2, <1>3, AuthoritySystem, AuthorityReads, AuthorityClaims, AuthorityOwner, AuthorityCommand
     DEF Next, ClaimStep

LEMMA AuthorityInit == Init => Authority
<1> SUFFICES ASSUME Init PROVE Authority
  OBVIOUS
<1>1. TypeOK
  BY TypeInit
<1>2. AliveIsRunning
  BY GensAreNats DEF Init, AliveIsRunning
<1>3. TriesLeft
  BY OwnershipAssumption DEF Init, TriesLeft
<1>4. RecordsAreStarted
  <2>1. mirror # 0 \/ heartbeat # 0 => phase[1] \in {"up", "gone"}
    BY GensAreNats DEF Init
  <2>2. /\ row = 0 /\ mirror \in {0, 1} /\ heartbeat \in {0, 1} /\ op.rec = 0
        /\ \A g \in Gens : seen[g] = 0 /\ obs[g] = 0
    BY DEF Init, NoOp
  <2> QED
    BY <2>1, <2>2 DEF RecordsAreStarted
<1>5. \A g \in Gens : phase[g] \in {"none", "up", "gone"} /\ (phase[g] = "up" => role[g] = "legacy")
  BY DEF Init
<1>6. JudgedDead
  BY <1>5 DEF JudgedDead, Init, NoOp
<1>7. AuthorityHeld
  BY <1>5 DEF AuthorityHeld
<1> QED
  BY <1>1, <1>2, <1>3, <1>4, <1>6, <1>7 DEF Authority, Lives

\* A claim that acts on the death of an owner is right about it, whatever pids strangers
\* took, and nobody alive loses the root to a claim or to a command.
THEOREM AuthorityInvariant == Spec => []AuthorityInv
<1>1. Init => Authority
  BY AuthorityInit
<1>2. Authority /\ [Next]_vars => Authority'
  BY AuthorityStep
<1>3. Authority => AuthorityInv
  BY DEF Authority, Lives, AuthorityInv
<1> QED
  BY <1>1, <1>2, <1>3, PTL DEF Spec

-----------------------------------------------------------------------------
(* What a step can do to the row, the mirror, the heartbeat and the owners, *)
(* one lemma each: the invariants below follow from these and not from the  *)
(* two dozen actions.                                                       *)

\* A claim about to commit: what it read is still there.
Commits(k) == k \in alive /\ phase[k] = "swap" /\ row = seen[k] /\ mirror = obs[k]

MirrorMoves ==
    \/ mirror' = mirror
    \/ \E k \in Gens : Commits(k) /\ mirror' = 0
    \/ \E k \in Gens : /\ k \in alive /\ phase[k] = "publish" /\ mirror = 0
                       /\ mirror' = k /\ row = k /\ phase'[k] = "up"
    \/ \E k \in Gens : k \in alive /\ mirror = k /\ phase'[k] = "gone" /\ mirror' = 0
    \/ \E k \in Gens : SpawnLegacy(k)
    \/ mirror # 0 /\ phase[mirror] = "gone" /\ mirror' = 0

\* A process gives up the row it holds, with its mirror and its leases.
LeavesRow(g) ==
    /\ row = g /\ row' = 0
    /\ mirror = g => mirror' = 0
    /\ phase[g] = "publish" \/ lease'[g] = "none"

RowMoves ==
    \/ row' = row
    \/ \E k \in Gens : Commits(k) /\ row' = k /\ mirror' = 0 /\ ~Blocked(k) /\ lease' = LeasesReturned(k)
    \/ row # 0 /\ row \in alive /\ phase'[row] = "gone" /\ LeavesRow(row)
    \/ /\ row # 0 /\ row' = 0 /\ (mirror = row => mirror' = 0)
       /\ op.step = "clear" /\ ClearDead

UpMoves ==
    \A g \in Gens : phase'[g] = "up" =>
        \/ phase[g] = "up"
        \/ phase[g] = "publish" /\ row = g /\ mirror = 0 /\ mirror' = g /\ g \in alive
        \/ Commits(g) /\ role[g] # "daemon"
        \/ SpawnLegacy(g)

HeartbeatMoves == heartbeat' = heartbeat \/ Up(heartbeat')

\* A claim reads on, or leaves the claim, or stays where it is.
Reads(g) ==
    \/ ReadAuthority(g) \/ ReadMirror(g) \/ Inspect(g) \/ CheckHeartbeat(g)
    \/ CheckLeases(g) \/ CheckMirror(g) \/ CheckBeat(g)

ClaimMoves ==
    \A g \in Gens :
        \/ phase'[g] = phase[g] /\ seen'[g] = seen[g] /\ obs'[g] = obs[g]
        \/ phase'[g] \in {"read", "up", "gone"}
        \/ phase'[g] = "publish" /\ Commits(g)
        \/ Reads(g) /\ phase'[g] # "gone"

LEMMA QuietMoves ==
  ASSUME Authority, UNCHANGED <<phase, seen, obs, row, mirror>>, heartbeat' = heartbeat \/ Up(heartbeat')
  PROVE  MirrorMoves /\ RowMoves /\ UpMoves /\ HeartbeatMoves /\ ClaimMoves
BY DEF MirrorMoves, RowMoves, UpMoves, HeartbeatMoves, ClaimMoves

\* A process ends: it takes away nothing but its own name, or the mirror it was about to
\* replace.
LEMMA EndsMoves ==
  ASSUME Authority, NEW g \in Gens, g \in alive, Ends(g), heartbeat' = heartbeat,
         row' = row \/ LeavesRow(g),
         mirror' = mirror \/ ((mirror = g \/ Commits(g)) /\ mirror' = 0)
  PROVE  MirrorMoves /\ RowMoves /\ UpMoves /\ HeartbeatMoves /\ ClaimMoves
<1>1. /\ phase'[g] = "gone" /\ \A h \in Gens : h # g => phase'[h] = phase[h]
      /\ seen' = seen /\ obs' = obs
  BY DEF Ends, Authority, Lives, TypeOK
<1>2. MirrorMoves
  BY <1>1 DEF MirrorMoves
<1>3. RowMoves
  BY <1>1, GensAreNats DEF RowMoves, LeavesRow
<1>4. UpMoves
  BY <1>1 DEF UpMoves
<1>5. ClaimMoves
  BY <1>1 DEF ClaimMoves
<1> QED
  BY <1>2, <1>3, <1>4, <1>5 DEF HeartbeatMoves

LEMMA ReadsMove ==
  ASSUME Authority, NEW g \in Gens, Reads(g)
  PROVE  MirrorMoves /\ RowMoves /\ UpMoves /\ HeartbeatMoves /\ ClaimMoves
<1>1. CASE Refuse(g)
  <2>1. g \in alive
    BY DEF Reads, ReadAuthority, ReadMirror, Inspect, CheckHeartbeat, CheckLeases, CheckMirror, CheckBeat, Claiming
  <2> QED
    BY <1>1, <2>1, EndsMoves DEF Refuse, evidence
<1>2. CASE ~Refuse(g)
  <2>1. /\ UNCHANGED <<row, mirror, heartbeat>>
        /\ \A h \in Gens : h # g => phase'[h] = phase[h] /\ seen'[h] = seen[h] /\ obs'[h] = obs[h]
        /\ phase'[g] \notin {"up", "gone"}
    BY <1>2 DEF Reads, ReadAuthority, ReadMirror, Inspect, CheckHeartbeat, CheckLeases, CheckMirror, CheckBeat,
         Go, evidence, Authority, Lives, TypeOK
  <2> QED
    BY <2>1 DEF MirrorMoves, RowMoves, UpMoves, HeartbeatMoves, ClaimMoves
<1> QED
  BY <1>1, <1>2

LEMMA ClaimsMove ==
  ASSUME Authority, NEW g \in Gens, Swap(g) \/ SwapTorn(g) \/ Publish(g)
  PROVE  MirrorMoves /\ RowMoves /\ UpMoves /\ HeartbeatMoves /\ ClaimMoves
<1>0. g \in alive /\ phase \in [Gens -> Phases]
  BY DEF Swap, SwapTorn, Publish, Claiming, Authority, Lives, TypeOK
<1>1. CASE Refuse(g)
  BY <1>0, <1>1, EndsMoves DEF Refuse, evidence
<1>2. CASE Retry(g)
  <2>1. /\ UNCHANGED <<seen, obs, row, mirror, heartbeat>> /\ phase'[g] \in {"read", "gone"}
        /\ \A h \in Gens : h # g => phase'[h] = phase[h]
    BY <1>0, <1>2 DEF Retry, Go, evidence
  <2> QED
    BY <2>1 DEF MirrorMoves, RowMoves, UpMoves, HeartbeatMoves, ClaimMoves
<1>3. CASE Claiming(g, "swap") /\ RowUnchanged(g) /\ ~Blocked(g) /\ mirror = obs[g] /\ Wins(g)
  <2>1. Commits(g) /\ row' = g /\ mirror' = 0 /\ lease' = LeasesReturned(g) /\ heartbeat' = heartbeat
    BY <1>3 DEF Commits, Claiming, RowUnchanged, Wins
  <2>2. /\ phase'[g] = IF role[g] = "daemon" THEN "publish" ELSE "up"
        /\ \A h \in Gens : h # g => phase'[h] = phase[h]
        /\ UNCHANGED <<seen, obs>>
    BY <1>0, <1>3 DEF Wins, Go
  <2>3. MirrorMoves /\ RowMoves
    BY <1>3, <2>1 DEF MirrorMoves, RowMoves
  <2>4. UpMoves /\ ClaimMoves
    BY <2>1, <2>2 DEF UpMoves, ClaimMoves
  <2> QED
    BY <2>1, <2>3, <2>4 DEF HeartbeatMoves
<1>4. CASE SwapTorn(g)
  <2>1. Commits(g) /\ Ends(g) /\ mirror' = 0 /\ row' = row /\ heartbeat' = heartbeat
    BY <1>4 DEF SwapTorn, Commits, Claiming, RowUnchanged
  <2> QED
    BY <1>0, <2>1, EndsMoves
<1>5. CASE Publish(g) /\ Delete(g) /\ Ends(g)
  <2>1. /\ row' = row \/ LeavesRow(g)
        /\ mirror' = mirror \/ (mirror = g /\ mirror' = 0)
        /\ heartbeat' = heartbeat
    BY <1>5 DEF Publish, Claiming, Delete, LeavesRow
  <2> QED
    BY <1>0, <1>5, <2>1, EndsMoves
<1>6. CASE Publish(g) /\ row = g /\ NoMirror(g) /\ mirror' = g /\ Go(g, "up") /\ UNCHANGED <<process, seen, obs, tries, row>>
  <2>1. /\ phase[g] = "publish" /\ phase'[g] = "up" /\ mirror = 0 /\ row = g /\ mirror' = g /\ row' = row
        /\ heartbeat' = heartbeat /\ seen' = seen /\ obs' = obs
        /\ \A h \in Gens : h # g => phase'[h] = phase[h]
    BY <1>0, <1>6 DEF Publish, Claiming, NoMirror, Go
  <2>2. MirrorMoves
    BY <1>0, <2>1 DEF MirrorMoves
  <2>3. UpMoves
    BY <1>0, <2>1 DEF UpMoves
  <2> QED
    BY <2>1, <2>2, <2>3 DEF RowMoves, HeartbeatMoves, ClaimMoves
<1> QED
  BY <1>1, <1>2, <1>3, <1>4, <1>5, <1>6 DEF Swap, Publish, Wins

LEMMA OwnersMove ==
  ASSUME Authority, NEW g \in Gens, OwnerStep(g)
  PROVE  MirrorMoves /\ RowMoves /\ UpMoves /\ HeartbeatMoves /\ ClaimMoves
<1>1. CASE Work(g) \/ WriteHeartbeat(g) \/ RecoverStaleLeases(g)
  <2>1. UNCHANGED <<phase, seen, obs, row, mirror>>
    BY <1>1 DEF Work, WriteHeartbeat, RecoverStaleLeases, process, claim
  <2>2. heartbeat' = heartbeat \/ (heartbeat' = g /\ Up(g))
    BY <1>1 DEF Work, WriteHeartbeat, RecoverStaleLeases
  <2>3. heartbeat' = heartbeat \/ Up(heartbeat')
    BY <2>2 DEF Up
  <2> QED
    BY <2>1, <2>3, QuietMoves
<1>2. CASE Release(g) \/ ReleaseTorn(g)
  <2>1. /\ g \in alive /\ Ends(g) /\ heartbeat' = heartbeat
        /\ mirror' = mirror \/ (mirror = g /\ mirror' = 0)
    BY <1>2 DEF Release, ReleaseTorn, Up, Delete
  <2>2. lease'[g] = "none"
    BY <1>2 DEF Release, ReleaseTorn, Authority, Lives, TypeOK
  <2>3. row' = row \/ LeavesRow(g)
    BY <1>2, <2>2 DEF Release, ReleaseTorn, Delete, LeavesRow
  <2> QED
    BY <2>1, <2>3, EndsMoves
<1> QED
  BY <1>1, <1>2 DEF OwnerStep

LEMMA SystemMoves ==
  ASSUME Authority, NEW g \in Gens, Spawn(g) \/ SpawnLegacy(g) \/ Crash(g) \/ LeaseExpires(g)
  PROVE  MirrorMoves /\ RowMoves /\ UpMoves /\ HeartbeatMoves /\ ClaimMoves
<1>1. CASE Crash(g)
  BY <1>1, EndsMoves DEF Crash, evidence
<1>2. CASE LeaseExpires(g)
  BY <1>2, QuietMoves DEF LeaseExpires, claim
<1>3. CASE Spawn(g)
  <2>1. /\ UNCHANGED <<row, mirror, heartbeat, seen, obs>> /\ phase'[g] = "read"
        /\ \A h \in Gens : h # g => phase'[h] = phase[h]
    BY <1>3 DEF Spawn, evidence, Authority, Lives, TypeOK
  <2> QED
    BY <2>1 DEF MirrorMoves, RowMoves, UpMoves, HeartbeatMoves, ClaimMoves
<1>4. CASE SpawnLegacy(g)
  <2>1. /\ UNCHANGED <<row, heartbeat, seen, obs>> /\ phase'[g] = "up"
        /\ \A h \in Gens : h # g => phase'[h] = phase[h]
    BY <1>4 DEF SpawnLegacy, Authority, Lives, TypeOK
  <2> QED
    BY <1>4, <2>1 DEF MirrorMoves, RowMoves, UpMoves, HeartbeatMoves, ClaimMoves
<1> QED
  BY <1>1, <1>2, <1>3, <1>4

LEMMA CommandMoves ==
  ASSUME Authority, Command
  PROVE  MirrorMoves /\ RowMoves /\ UpMoves /\ HeartbeatMoves /\ ClaimMoves
<1>0. TypeOK
  BY DEF Authority, Lives
<1>1. CASE UNCHANGED <<process, claim, evidence>>
  BY <1>1, QuietMoves DEF claim, evidence
<1>2. CASE ClearDead
  <2>1. /\ op.step = "clear" /\ UNCHANGED <<phase, seen, obs, heartbeat>>
        /\ row' \in {row, 0} /\ (row' # row => row = op.rec)
        /\ mirror' \in {mirror, 0} /\ (mirror' # mirror => row = op.rec /\ mirror = op.rec)
        /\ (row' # row /\ mirror = row => mirror' = 0)
    BY <1>0, <1>2, ClearDeadMoves DEF claim
  <2>2. op.rec # 0 /\ phase[op.rec] = "gone"
    BY <2>1 DEF Authority, JudgedDead
  <2>3. MirrorMoves
    BY <2>1, <2>2 DEF MirrorMoves
  <2>4. RowMoves
    BY <1>2, <2>1, <2>2 DEF RowMoves
  <2> QED
    BY <2>1, <2>3, <2>4 DEF UpMoves, HeartbeatMoves, ClaimMoves
<1> QED
  BY <1>0, <1>1, <1>2, GiveMoves, ReadControlMoves, InspectControlMoves, EndMoves DEF Command

LEMMA StepMoves ==
  ASSUME Authority, [Next]_vars
  PROVE  MirrorMoves /\ RowMoves /\ UpMoves /\ HeartbeatMoves /\ ClaimMoves
<1>1. CASE UNCHANGED vars
  BY <1>1, QuietMoves DEF vars, claim, evidence
<1>2. ASSUME NEW p \in Pids, StrangerTakes(p) \/ StrangerLeaves(p)
      PROVE  UNCHANGED <<claim, evidence>>
  BY <1>2 DEF StrangerTakes, StrangerLeaves
<1>3. CASE UNCHANGED <<claim, evidence>>
  BY <1>3, QuietMoves DEF claim, evidence
<1> QED
  BY <1>1, <1>2, <1>3, SystemMoves, ReadsMove, ClaimsMove, OwnersMove, CommandMoves DEF Next, ClaimStep, Reads

\* One process moves at a time; an owner ends and does not claim again; nobody is made a daemon
\* of the earlier release after its start.
OneMoves ==
    /\ \E k \in Gens : \A h \in Gens : h # k => phase'[h] = phase[h]
    /\ \A h \in Gens : phase[h] = "up" => phase'[h] \in {"up", "gone"}
    /\ \A h \in Gens : role'[h] = "legacy" => role[h] = "legacy" \/ SpawnLegacy(h)

LEMMA OneStays ==
  ASSUME Authority, phase' = phase, role' = role
  PROVE  OneMoves
BY GensAreNats DEF OneMoves

LEMMA OneGoes ==
  ASSUME Authority, NEW g \in Gens, phase[g] # "up" \/ phase'[g] \in {"up", "gone"}, role' = role,
         \A h \in Gens : h # g => phase'[h] = phase[h]
  PROVE  OneMoves
BY DEF OneMoves

LEMMA EndGoes ==
  ASSUME Authority, NEW g \in Gens, Ends(g)
  PROVE  OneMoves
<1>1. role' = role /\ phase'[g] = "gone" /\ \A h \in Gens : h # g => phase'[h] = phase[h]
  BY DEF Ends, Authority, Lives, TypeOK
<1> QED
  BY <1>1, OneGoes

LEMMA ClaimGoes ==
  ASSUME Authority, NEW g \in Gens, Reads(g) \/ Swap(g) \/ SwapTorn(g) \/ Publish(g)
  PROVE  OneMoves
<1>1. CASE Ends(g)
  BY <1>1, EndGoes
<1>2. CASE ~Ends(g)
  <2>1. phase[g] \in {"read", "mirror", "inspect", "heartbeat", "leases", "conflict", "beat", "swap", "publish"}
    BY DEF Reads, ReadAuthority, ReadMirror, Inspect, CheckHeartbeat, CheckLeases, CheckMirror, CheckBeat,
           Swap, SwapTorn, Publish, Claiming
  <2>2. role' = role
    BY <1>2 DEF Reads, ReadAuthority, ReadMirror, Inspect, CheckHeartbeat, CheckLeases, CheckMirror, CheckBeat,
           Swap, SwapTorn, Publish, Refuse, Retry, process
  <2>4. \A h \in Gens : h # g => phase'[h] = phase[h]
    <3>1. CASE Retry(g)
      BY <3>1 DEF Retry, Go, Authority, Lives, TypeOK
    <3>2. CASE ~Retry(g)
      BY <1>2, <3>2 DEF Reads, ReadAuthority, ReadMirror, Inspect, CheckHeartbeat, CheckLeases, CheckMirror, CheckBeat,
           Swap, SwapTorn, Publish, Refuse, Go, Authority, Lives, TypeOK
    <3> QED
      BY <3>1, <3>2
  <2> QED
    BY <2>1, <2>2, <2>4, OneGoes
<1> QED
  BY <1>1, <1>2

LEMMA SpawnGoes ==
  ASSUME Authority, NEW g \in Gens, Spawn(g) \/ SpawnLegacy(g)
  PROVE  OneMoves
<1>1. phase[g] = "none" /\ \A h \in Gens : h # g => phase'[h] = phase[h] /\ role'[h] = role[h]
  BY DEF Spawn, SpawnLegacy, NextGen, Authority, Lives, TypeOK
<1>2. CASE SpawnLegacy(g)
  BY <1>1, <1>2 DEF OneMoves
<1>3. CASE Spawn(g)
  <2>1. role'[g] # "legacy"
    BY <1>3, OwnershipAssumption DEF Spawn, Authority, Lives, TypeOK
  <2> QED
    BY <1>1, <2>1 DEF OneMoves
<1> QED
  BY <1>2, <1>3

LEMMA OneStep ==
  ASSUME Authority, [Next]_vars
  PROVE  OneMoves
<1>1. CASE UNCHANGED <<phase, role>>
  BY <1>1, OneStays
<1>2. CASE UNCHANGED vars
  BY <1>1, <1>2 DEF vars, process, claim
<1>3. ASSUME NEW p \in Pids, StrangerTakes(p) \/ StrangerLeaves(p)
      PROVE  UNCHANGED <<phase, role>>
  BY <1>3 DEF StrangerTakes, StrangerLeaves, claim
<1>4. ASSUME Command
      PROVE  UNCHANGED <<phase, role>>
  <2>1. UNCHANGED <<process, claim>>
    BY <1>4, GiveMoves, ReadControlMoves, InspectControlMoves, ClearDeadMoves, EndMoves DEF Command, Authority, Lives
  <2> QED
    BY <2>1 DEF process, claim
<1>5. ASSUME NEW g \in Gens, Crash(g) \/ LeaseExpires(g) \/ OwnerStep(g)
      PROVE  OneMoves
  <2>1. CASE Ends(g)
    BY <2>1, EndGoes
  <2>2. CASE ~Ends(g)
    BY <1>1, <1>5, <2>2 DEF Crash, LeaseExpires, OwnerStep, Work, WriteHeartbeat, RecoverStaleLeases, Release,
       ReleaseTorn, process, claim
  <2> QED
    BY <2>1, <2>2
<1> QED
  BY <1>1, <1>2, <1>3, <1>4, <1>5, ClaimGoes, SpawnGoes DEF Next, ClaimStep, Reads

-----------------------------------------------------------------------------
(* What a step does to the leases. *)

LeaseMoves ==
    \A h \in Gens :
        /\ lease'[h] # "none" => lease[h] # "none" \/ (Up(h) /\ role[h] # "maintenance")
        /\ lease'[h] = "fresh" =>
            lease[h] = "fresh" \/ (Up(h) /\ role[h] # "maintenance" /\ row' = row)

LEMMA LeaseStep ==
  ASSUME Authority, [Next]_vars
  PROVE  LeaseMoves
<1>0. lease \in [Gens -> {"none", "fresh", "expired"}]
  BY DEF Authority, Lives, TypeOK
<1>1. CASE lease' = lease
  BY <1>1 DEF LeaseMoves
<1>2. CASE UNCHANGED vars
  BY <1>1, <1>2 DEF vars, evidence
<1>3. ASSUME NEW p \in Pids, StrangerTakes(p) \/ StrangerLeaves(p)
      PROVE  lease' = lease
  BY <1>3 DEF StrangerTakes, StrangerLeaves, evidence
<1>4. ASSUME Command
      PROVE  lease' = lease
  BY <1>4, GiveMoves, ReadControlMoves, InspectControlMoves, ClearDeadMoves, EndMoves DEF Command, Authority, Lives,
     evidence
<1>5. ASSUME NEW g \in Gens, Spawn(g) \/ SpawnLegacy(g) \/ Crash(g) \/ LeaseExpires(g)
      PROVE  LeaseMoves
  BY <1>0, <1>5 DEF LeaseMoves, Spawn, SpawnLegacy, Crash, LeaseExpires, evidence
<1>6. ASSUME NEW g \in Gens, Reads(g) \/ SwapTorn(g) \/ Publish(g)
      PROVE  lease' = lease
  BY <1>6 DEF Reads, ReadAuthority, ReadMirror, Inspect, CheckHeartbeat, CheckLeases, CheckMirror, CheckBeat,
         SwapTorn, Publish, Refuse, evidence
<1>7. ASSUME NEW g \in Gens, Swap(g)
      PROVE  LeaseMoves
  BY <1>0, <1>7 DEF LeaseMoves, Swap, Retry, Refuse, LeasesReturned, evidence
<1>8. ASSUME NEW g \in Gens, OwnerStep(g)
      PROVE  LeaseMoves
  <2>1. CASE Work(g)
    BY <1>0, <2>1 DEF Work, LeaseMoves
  <2>2. CASE WriteHeartbeat(g) \/ RecoverStaleLeases(g) \/ Release(g) \/ ReleaseTorn(g)
    BY <1>0, <2>2 DEF WriteHeartbeat, RecoverStaleLeases, Release, ReleaseTorn, LeaseMoves
  <2> QED
    BY <1>8, <2>1, <2>2 DEF OwnerStep
<1> QED
  BY <1>1, <1>2, <1>3, <1>4, <1>5, <1>6, <1>7, <1>8 DEF Next, ClaimStep, Reads

-----------------------------------------------------------------------------
(* One owner at work. *)

Root == Authority /\ RootInv

\* What a step of the system is, for the invariants of this section.
Moves ==
    /\ Course /\ MirrorMoves /\ RowMoves /\ UpMoves /\ HeartbeatMoves /\ ClaimMoves
    /\ OneMoves /\ LeaseMoves

LEMMA MovesStep ==
  ASSUME Authority, [Next]_vars
  PROVE  Authority' /\ Moves
BY AuthorityStep, StepMoves, OneStep, LeaseStep DEF Moves

LEMMA LegacyIsUp ==
  ASSUME Root, NEW g \in Gens, NEW l \in Gens, LegacyUp(l)
  PROVE  /\ l # 0 /\ phase[l] = "up"
         /\ mirror = l \/ (mirror = 0 /\ heartbeat = l)
         /\ phase[g] \in {"leases", "publish"} => mirror = l
         /\ phase[g] = "swap" => mirror # obs[g]
         /\ ~Commits(g)
BY GensAreNats DEF Root, RootInv, LegacyShown, ClaimsFoundNobody, LegacyUp, Up, Commits

\* Nobody takes the mirror of a daemon of the earlier release that runs, and none of its kind
\* starts beside it.
LEMMA LegacyStays ==
  ASSUME Root, Moves, NEW l \in Gens, LegacyUp(l), phase'[l] = "up"
  PROVE  /\ mirror' = mirror /\ heartbeat' \in {heartbeat, l}
         /\ row = 0 => row' = 0
         /\ \A k \in Gens : ~SpawnLegacy(k)
<1>1. \A k \in Gens : ~Commits(k)
  BY LegacyIsUp
<1>2. \A k \in Gens : ~SpawnLegacy(k)
  BY DEF LegacyUp, Up, SpawnLegacy
<1>3. mirror \in {0, l} /\ l # 0 /\ phase[l] = "up" /\ \A k \in Gens : phase[k] = "publish" => mirror = l
  BY LegacyIsUp
<1>4. mirror' = mirror
  BY <1>1, <1>2, <1>3 DEF Moves, MirrorMoves
<1>5. heartbeat' = heartbeat \/ heartbeat' = l
  <2>1. heartbeat' = heartbeat \/ Up(heartbeat')
    BY DEF Moves, HeartbeatMoves
  <2>2. Up(heartbeat') => heartbeat' = l
    BY DEF Root, RootInv, OneOwner, LegacyUp, Up, Authority, Lives, TypeOK
  <2> QED
    BY <2>1, <2>2
<1>6. row = 0 => row' = 0
  BY <1>1 DEF Moves, RowMoves
<1> QED
  BY <1>2, <1>4, <1>5, <1>6

\* Nobody takes the mirror of an owner at work.
LEMMA OwnerMirrorStays ==
  ASSUME Root, Moves, NEW g \in Gens, Up(g), role[g] = "daemon", phase'[g] = "up"
  PROVE  mirror' = mirror /\ mirror = g
<1>1. mirror = g /\ g # 0 /\ g \in alive /\ phase[g] = "up"
  BY GensAreNats DEF Root, RootInv, MirrorNamesOwner, Up
<1>2. \A k \in Gens : ~Commits(k)
  BY <1>1, NobodyDispossessed DEF Commits, Root
<1>3. \A k \in Gens : ~SpawnLegacy(k)
  BY <1>1 DEF SpawnLegacy, Free
<1> QED
  BY <1>1, <1>2, <1>3 DEF Moves, MirrorMoves

LEMMA UpBefore ==
  ASSUME Root, Moves, NEW g \in Gens, Up(g)', phase[g] = "up"
  PROVE  Up(g) /\ role'[g] = role[g]
BY DEF Root, Authority, Lives, AliveIsRunning, Up, Moves, Course

\* Who comes to own the root finds no other owner.
LEMMA WinsAlone ==
  ASSUME Root, Moves, Apart', legacy' = (legacy \/ \E k \in alive' \ alive : role'[k] = "legacy"),
         NEW g \in Gens, Up(g)', phase[g] # "up", NEW h \in Gens, Up(h)', phase[h] = "up"
  PROVE  FALSE
<1>1. Up(h) /\ role'[h] = role[h] /\ h \in alive /\ phase[h] = "up" /\ h # g
  BY UpBefore DEF Up
<1>2. role[h] # "legacy" => row = h
  BY <1>1 DEF Root, Authority, AuthorityHeld
<1>3. CASE phase[g] = "publish" /\ row = g /\ mirror = 0
  <2>1. LegacyUp(h)
    BY <1>1, <1>2, <1>3 DEF LegacyUp
  <2> QED
    BY <1>3, <2>1, LegacyIsUp
<1>4. CASE Commits(g)
  <2>1. LegacyUp(h)
    BY <1>1, <1>4, NobodyDispossessed DEF Root, Commits, LegacyUp
  <2> QED
    BY <1>4, <2>1, LegacyIsUp
<1>5. CASE SpawnLegacy(g)
  <2>1. role[h] # "legacy"
    BY <1>1, <1>5 DEF SpawnLegacy
  <2>2. legacy'
    <3>1. g \in alive' /\ role'[g] = "legacy"
      BY <1>5 DEF SpawnLegacy, Root, Authority, Lives, TypeOK
    <3>2. g \notin alive
      BY <1>5 DEF SpawnLegacy, NextGen, Root, Authority, Lives, AliveIsRunning
    <3> QED
      BY <3>1, <3>2
  <2>3. role[h] # "maintenance"
    BY <1>1, <2>2 DEF Apart, Up
  <2>4. role[h] = "daemon"
    BY <2>1, <2>3 DEF Root, Authority, Lives, TypeOK
  <2>5. mirror = h /\ h # 0
    BY <1>1, <2>4, GensAreNats DEF Root, RootInv, MirrorNamesOwner
  <2> QED
    BY <1>1, <1>5, <2>5 DEF SpawnLegacy, Free
<1> QED
  BY <1>3, <1>4, <1>5 DEF Moves, UpMoves, Up

LEMMA OneOwnerStep ==
  ASSUME Root, Moves, Apart', legacy' = (legacy \/ \E k \in alive' \ alive : role'[k] = "legacy")
  PROVE  OneOwner'
<1>1. SUFFICES ASSUME NEW g \in Gens, NEW h \in Gens, Up(g)', Up(h)'
               PROVE  g = h
  BY DEF OneOwner
<1>2. CASE phase[g] = "up" /\ phase[h] = "up"
  BY <1>1, <1>2, UpBefore DEF Root, RootInv, OneOwner
<1>3. CASE phase[g] # "up" /\ phase[h] # "up"
  BY <1>1, <1>3 DEF Moves, OneMoves, Up
<1> QED
  BY <1>1, <1>2, <1>3, WinsAlone

LEMMA MirrorNamesOwnerStep ==
  ASSUME Root, Moves
  PROVE  MirrorNamesOwner'
<1>1. SUFFICES ASSUME NEW g \in Gens, Up(g)', role'[g] = "daemon"
               PROVE  mirror' = g
  BY DEF MirrorNamesOwner
<1>2. CASE phase[g] = "up"
  <2>1. Up(g) /\ role[g] = "daemon" /\ phase'[g] = "up"
    BY <1>1, <1>2, UpBefore DEF Up
  <2> QED
    BY <2>1, OwnerMirrorStays
<1>3. CASE Commits(g) /\ role[g] # "daemon"
  BY <1>1, <1>3 DEF Moves, Course, Commits
<1>4. CASE SpawnLegacy(g)
  BY <1>1, <1>4 DEF SpawnLegacy, Root, Authority, Lives, TypeOK
<1> QED
  BY <1>1, <1>2, <1>3, <1>4 DEF Moves, UpMoves, Up

LEMMA LegacyClaimsNothingStep ==
  ASSUME Root, Moves
  PROVE  LegacyClaimsNothing'
<1>1. SUFFICES ASSUME NEW l \in Gens, role'[l] = "legacy"
               PROVE  phase'[l] \in {"up", "gone"}
  BY DEF LegacyClaimsNothing
<1>2. CASE SpawnLegacy(l)
  BY <1>2 DEF SpawnLegacy, Root, Authority, Lives, TypeOK
<1>3. CASE role[l] = "legacy"
  BY <1>3 DEF Root, RootInv, LegacyClaimsNothing, Moves, Course, OneMoves
<1> QED
  BY <1>1, <1>2, <1>3 DEF Moves, OneMoves

\* A daemon of the earlier release runs after a step: it ran before it, or it starts, with
\* its mirror.
LEMMA LegacyBefore ==
  ASSUME Root, Moves, Authority', NEW l \in Gens, LegacyUp(l)'
  PROVE  \/ LegacyUp(l) /\ phase'[l] = "up"
         \/ SpawnLegacy(l) /\ ~LegacyUp(l) /\ phase[l] = "none" /\ mirror' = l
<1>1. phase'[l] = "up" /\ role'[l] = "legacy" /\ l \in alive'
  BY DEF LegacyUp, Up
<1>2. CASE SpawnLegacy(l)
  BY <1>2 DEF SpawnLegacy, NextGen, LegacyUp, Up
<1>3. CASE role[l] = "legacy" /\ ~SpawnLegacy(l)
  <2>1. phase[l] \in {"up", "gone"}
    BY <1>3 DEF Root, RootInv, LegacyClaimsNothing
  <2>2. phase[l] = "up"
    BY <1>1, <2>1 DEF Moves, Course
  <2> QED
    BY <1>1, <1>3, <2>2 DEF LegacyUp, Up, Root, Authority, Lives, AliveIsRunning
<1> QED
  BY <1>1, <1>2, <1>3 DEF Moves, OneMoves

\* What a step does to the command.
OpGoes ==
    /\ op'.rec \in {op.rec, 0, row, mirror}
    /\ op'.step = "write" => op.step \in {"write", "clear"} \/ (row = 0 /\ mirror = 0 /\ HeartbeatGone)
    /\ op.step = "idle" => op'.step \in {"idle", "read"}

LEMMA OpStep ==
  ASSUME Authority, [Next]_vars
  PROVE  OpGoes
<1>1. CASE op' = op
  BY <1>1 DEF OpGoes
<1>2. CASE UNCHANGED vars
  BY <1>1, <1>2 DEF vars
<1>3. ASSUME NEW p \in Pids, StrangerTakes(p) \/ StrangerLeaves(p)
      PROVE  op' = op
  BY <1>3 DEF StrangerTakes, StrangerLeaves
<1>4. ASSUME NEW g \in Gens, Spawn(g) \/ SpawnLegacy(g) \/ Crash(g) \/ LeaseExpires(g)
      PROVE  op' = op
  BY <1>4 DEF Spawn, SpawnLegacy, Crash, LeaseExpires
<1>5. ASSUME NEW g \in Gens, Reads(g) \/ Swap(g) \/ SwapTorn(g) \/ Publish(g)
      PROVE  op' = op
  BY <1>5 DEF Reads, ReadAuthority, ReadMirror, Inspect, CheckHeartbeat, CheckLeases, CheckMirror, CheckBeat,
         Swap, SwapTorn, Publish, Refuse, Retry
<1>6. ASSUME NEW g \in Gens, OwnerStep(g)
      PROVE  op' = op
  BY <1>6 DEF OwnerStep, Work, WriteHeartbeat, RecoverStaleLeases, Release, ReleaseTorn
<1>7. ASSUME Command
      PROVE  OpGoes
  <2>0. TypeOK
    BY DEF Authority, Lives
  <2>1. CASE \E cmd \in Commands : Give(cmd)
    BY <2>0, <2>1, GiveMoves DEF OpGoes, Give
  <2>2. CASE ReadControl
    BY <2>0, <2>2, ReadControlMoves DEF OpGoes, ReadControl
  <2>3. CASE InspectControl
    BY <2>0, <2>3, InspectControlMoves DEF OpGoes
  <2>4. CASE ClearDead
    BY <2>0, <2>4, ClearDeadMoves DEF OpGoes
  <2>5. CASE Signal \/ Mutate
    BY <2>0, <2>5, EndMoves DEF OpGoes
  <2> QED
    BY <1>7, <2>1, <2>2, <2>3, <2>4, <2>5 DEF Command
<1> QED
  BY <1>1, <1>2, <1>3, <1>4, <1>5, <1>6, <1>7 DEF Next, ClaimStep, Reads

LEMMA ApartStep ==
  ASSUME Root, OpGoes, Histories, LegacyAmongDaemons
  PROVE  Apart'
BY DEF Root, RootInv, Apart, OpGoes, Histories, LegacyAmongDaemons

LEMMA LegacyShownStep ==
  ASSUME Root, Moves, Authority', Apart', OpGoes, Histories
  PROVE  LegacyShown'
<1>1. SUFFICES ASSUME NEW l \in Gens, LegacyUp(l)'
               PROVE  /\ mirror' = l \/ (mirror' = 0 /\ heartbeat' = l)
                      /\ ~legacy' => row' = 0 /\ op'.rec \in {0, l}
                      /\ op'.step # "write"
  BY DEF LegacyShown
<1>2. legacy' => op'.step = "idle"
  BY DEF Apart
<1>3. CASE SpawnLegacy(l) /\ ~LegacyUp(l) /\ phase[l] = "none" /\ mirror' = l
  <2>1. role'[l] = "legacy" /\ l \in alive' /\ l \notin alive
    BY <1>1, <1>3 DEF LegacyUp, Up, Root, Authority, Lives, AliveIsRunning
  <2>2. legacy'
    BY <2>1 DEF Histories
  <2> QED
    BY <1>2, <1>3, <2>2
<1>4. CASE LegacyUp(l) /\ phase'[l] = "up"
  <2>1. /\ l # 0 /\ phase[l] = "up"
        /\ mirror = l \/ (mirror = 0 /\ heartbeat = l)
    BY <1>4, LegacyIsUp
  <2>2. mirror' = mirror /\ heartbeat' \in {heartbeat, l} /\ (row = 0 => row' = 0)
    BY <1>4, LegacyStays
  <2>3. mirror' = l \/ (mirror' = 0 /\ heartbeat' = l)
    BY <2>1, <2>2
  <2>4. ~legacy' => ~legacy /\ row = 0 /\ op.rec \in {0, l} /\ op.step # "write"
    BY <1>4 DEF Histories, Root, RootInv, LegacyShown
  <2>5. ~legacy' => row' = 0 /\ op'.rec \in {0, l}
    BY <2>1, <2>2, <2>4 DEF OpGoes
  <2>6. ~legacy' => op'.step # "write"
    <3>1. SUFFICES ASSUME ~legacy', op'.step = "write" PROVE FALSE
      OBVIOUS
    <3>2. CASE op.step = "clear"
      <4>1. op.rec # 0 /\ phase[op.rec] = "gone"
        BY <3>2 DEF Root, Authority, JudgedDead
      <4> QED
        BY <2>1, <2>4, <3>1, <4>1
    <3>3. CASE mirror = 0 /\ HeartbeatGone
      <4>1. heartbeat = l /\ DaemonGone(l)
        BY <2>1, <3>3 DEF HeartbeatGone
      <4>2. phase[l] = "gone"
        BY <2>1, <4>1, GoneIsGone DEF Root, Authority
      <4> QED
        BY <2>1, <4>2
    <3> QED
      BY <2>4, <3>1, <3>2, <3>3 DEF OpGoes
  <2> QED
    BY <1>2, <2>3, <2>5, <2>6
<1> QED
  BY <1>1, <1>3, <1>4, LegacyBefore

-----------------------------------------------------------------------------
(* What the claims have found. *)

FoundNobody(g) ==
    /\ phase[g] \in {"heartbeat", "leases"} => obs[g] = 0
    /\ phase[g] \in {"beat", "swap"} /\ obs[g] # 0 => phase[obs[g]] = "gone"

LetsPastNobody(g) ==
    \A l \in Gens : LegacyUp(l) =>
        /\ phase[g] \in {"leases", "publish"} => mirror = l
        /\ phase[g] = "swap" => mirror # obs[g]

LEMMA FoundParts == ClaimsFoundNobody <=> \A g \in Gens : FoundNobody(g) /\ LetsPastNobody(g)
BY DEF ClaimsFoundNobody, FoundNobody, LetsPastNobody

\* A claim that reads on.
LEMMA ReadsFind ==
  ASSUME Root, Moves, Authority', NEW g \in Gens, Reads(g), phase'[g] # "gone"
  PROVE  FoundNobody(g)' /\ LetsPastNobody(g)'
<1>0. /\ ~Refuse(g) /\ phase \in [Gens -> Phases] /\ seen \in [Gens -> 0 .. NGens] /\ obs \in [Gens -> 0 .. NGens]
  BY DEF Refuse, Ends, Root, Authority, Lives, TypeOK
<1>1. FoundNobody(g) /\ LetsPastNobody(g)
  BY FoundParts DEF Root, RootInv
<1>2. /\ UNCHANGED <<mirror, heartbeat, alive, role>> /\ Course
      /\ \A l \in Gens : LegacyUp(l)' => LegacyUp(l)
  <2>1. UNCHANGED <<mirror, heartbeat, alive, role>> /\ phase'[g] # "up"
    BY <1>0 DEF Reads, ReadAuthority, ReadMirror, Inspect, CheckHeartbeat, CheckLeases, CheckMirror, CheckBeat,
       Go, evidence, process
  <2>2. \A h \in Gens : h # g => phase'[h] = phase[h]
    BY <1>0 DEF Reads, ReadAuthority, ReadMirror, Inspect, CheckHeartbeat, CheckLeases, CheckMirror, CheckBeat, Go
  <2> QED
    BY <2>1, <2>2 DEF LegacyUp, Up, Moves
<1>3. \A rec \in {mirror, heartbeat, seen[g], obs[g]} : rec = 0 \/ (rec \in Gens /\ phase[rec] # "none")
  BY RecordTypes DEF Root, Authority
<1>4. \A rec \in Gens : phase[rec] = "gone" => phase'[rec] = "gone"
  BY DEF Moves, Course
<1>5. CASE ReadAuthority(g)
  BY <1>0, <1>5 DEF ReadAuthority, Go, FoundNobody, LetsPastNobody
<1>6. CASE ReadMirror(g)
  BY <1>0, <1>6 DEF ReadMirror, Go, FoundNobody, LetsPastNobody
<1>7. CASE Inspect(g)
  <2>1. /\ phase[g] = "inspect" /\ Gone(Target(g)) /\ seen' = seen /\ obs' = obs
        /\ phase'[g] = IF seen[g] = 0 THEN "swap" ELSE "conflict"
    BY <1>0, <1>7 DEF Inspect, Claiming, Go
  <2>2. Target(g) # 0
    BY <2>1 DEF Root, Authority, JudgedDead
  <2>3. seen[g] = 0 => obs[g] # 0 /\ obs[g] \in Gens /\ phase[obs[g]] = "gone"
    BY <1>3, <2>1, <2>2, GoneIsGone DEF Target, Root, Authority
  <2>4. FoundNobody(g)'
    BY <1>4, <2>1, <2>3 DEF FoundNobody
  <2>5. LetsPastNobody(g)'
    <3>1. SUFFICES ASSUME NEW l \in Gens, LegacyUp(l), seen[g] = 0 PROVE mirror # obs[g]
      BY <1>2, <2>1 DEF LetsPastNobody
    <3>2. mirror \in {0, l} /\ phase[l] = "up"
      BY <3>1, LegacyIsUp
    <3> QED
      BY <2>3, <3>1, <3>2
  <2> QED
    BY <2>4, <2>5
<1>8. CASE CheckHeartbeat(g)
  <2>1. /\ phase[g] = "heartbeat" /\ HeartbeatGone /\ obs' = obs /\ phase'[g] = "leases"
    BY <1>0, <1>8 DEF CheckHeartbeat, Claiming, Go
  <2>2. LetsPastNobody(g)'
    <3>1. SUFFICES ASSUME NEW l \in Gens, LegacyUp(l) PROVE mirror = l
      BY <1>2, <2>1 DEF LetsPastNobody
    <3>2. l # 0 /\ (mirror = l \/ heartbeat = l) /\ phase[l] = "up"
      BY <3>1, LegacyIsUp
    <3>3. heartbeat # l
      BY <2>1, <3>1, <3>2, GoneIsGone DEF HeartbeatGone, Root, Authority
    <3> QED
      BY <3>2, <3>3
  <2> QED
    BY <1>1, <2>1, <2>2 DEF FoundNobody
<1>9. CASE CheckLeases(g)
  <2>1. /\ phase[g] = "leases" /\ obs' = obs /\ phase'[g] = "swap" /\ obs[g] = 0
    BY <1>0, <1>1, <1>9 DEF CheckLeases, Claiming, Go, FoundNobody
  <2>2. LetsPastNobody(g)'
    BY <1>1, <1>2, <2>1, GensAreNats DEF LetsPastNobody
  <2> QED
    BY <2>1, <2>2 DEF FoundNobody
<1>10. CASE CheckMirror(g)
  <2>1. /\ phase[g] = "conflict" /\ NoConflict(g, mirror) /\ obs'[g] = mirror /\ phase'[g] = "beat"
    BY <1>0, <1>10 DEF CheckMirror, Claiming, Go
  <2>2. seen[g] # 0 /\ phase[seen[g]] = "gone"
    BY <2>1 DEF Root, Authority, JudgedDead
  <2>3. mirror # 0 => mirror \in Gens /\ phase[mirror] = "gone"
    BY <1>3, <2>1, <2>2, GoneIsGone DEF NoConflict, Root, Authority
  <2> QED
    BY <1>4, <2>1, <2>3 DEF FoundNobody, LetsPastNobody
<1>11. CASE CheckBeat(g)
  <2>1. /\ phase[g] = "beat" /\ NoConflict(g, heartbeat) /\ obs' = obs /\ phase'[g] = "swap"
    BY <1>0, <1>11 DEF CheckBeat, Claiming, Go
  <2>2. seen[g] # 0 /\ phase[seen[g]] = "gone"
    BY <2>1 DEF Root, Authority, JudgedDead
  <2>3. obs[g] # 0 => obs[g] \in Gens /\ phase[obs[g]] = "gone"
    BY <1>1, <1>3, <2>1 DEF FoundNobody
  <2>4. LetsPastNobody(g)'
    <3>1. SUFFICES ASSUME NEW l \in Gens, LegacyUp(l) PROVE mirror # obs[g]
      BY <1>2, <2>1 DEF LetsPastNobody
    <3>2. l # 0 /\ (mirror = l \/ (mirror = 0 /\ heartbeat = l)) /\ phase[l] = "up"
      BY <3>1, LegacyIsUp
    <3>3. heartbeat # l
      BY <2>1, <2>2, <3>1, <3>2, GoneIsGone DEF NoConflict, Root, Authority
    <3> QED
      BY <2>3, <3>2, <3>3
  <2> QED
    BY <1>4, <2>1, <2>3, <2>4 DEF FoundNobody
<1> QED
  BY <1>5, <1>6, <1>7, <1>8, <1>9, <1>10, <1>11 DEF Reads

LEMMA ClaimsFoundNobodyStep ==
  ASSUME Root, Moves, Authority'
  PROVE  ClaimsFoundNobody'
<1>1. SUFFICES ASSUME NEW g \in Gens PROVE FoundNobody(g)' /\ LetsPastNobody(g)'
  BY DEF ClaimsFoundNobody, FoundNobody, LetsPastNobody
<1>2. CASE Reads(g) /\ phase'[g] # "gone"
  BY <1>2, ReadsFind
<1>3. CASE phase'[g] \in {"read", "up", "gone"}
  BY <1>3 DEF FoundNobody, LetsPastNobody
<1>4. CASE phase'[g] = "publish" /\ Commits(g)
  <2>1. FoundNobody(g)'
    BY <1>4 DEF FoundNobody
  <2>2. SUFFICES ASSUME NEW l \in Gens, LegacyUp(l)' PROVE FALSE
    BY <2>1 DEF LetsPastNobody
  <2>3. ~LegacyUp(l)
    BY <1>4, LegacyIsUp
  <2>4. SpawnLegacy(l) /\ phase[l] = "none"
    BY <2>2, <2>3, LegacyBefore
  <2>5. phase'[g] = phase[g]
    BY <1>4, <2>4 DEF SpawnLegacy, Root, Authority, Lives, TypeOK, Commits
  <2> QED
    BY <1>4, <2>5 DEF Commits
<1>5. CASE phase'[g] = phase[g] /\ seen'[g] = seen[g] /\ obs'[g] = obs[g]
  <2>1. FoundNobody(g) /\ LetsPastNobody(g)
    BY FoundParts DEF Root, RootInv
  <2>2. obs[g] = 0 \/ (obs[g] \in Gens /\ phase[obs[g]] # "none")
    BY RecordTypes DEF Root, Authority
  <2>3. FoundNobody(g)'
    BY <1>5, <2>1, <2>2 DEF FoundNobody, Moves, Course
  <2>4. ASSUME NEW l \in Gens, LegacyUp(l)'
        PROVE  /\ phase[g] \in {"leases", "publish"} => mirror' = l
               /\ phase[g] = "swap" => mirror' # obs[g]
    <3>1. CASE LegacyUp(l) /\ phase'[l] = "up"
      BY <3>1, LegacyStays, LegacyIsUp
    <3>2. CASE phase[l] = "none" /\ mirror' = l
      BY <2>2, <3>2, GensAreNats
    <3> QED
      BY <2>4, <3>1, <3>2, LegacyBefore
  <2> QED
    BY <1>5, <2>3, <2>4 DEF LetsPastNobody
<1> QED
  BY <1>2, <1>3, <1>4, <1>5 DEF Moves, ClaimMoves

LEMMA RootStep ==
  ASSUME Root, [RootNext]_<<vars, given, legacy, cleared>>
  PROVE  Root'
<1>1. CASE UNCHANGED <<vars, given, legacy, cleared>>
  <2>1. Authority'
    BY <1>1, AuthorityStep DEF Root
  <2>2. UNCHANGED <<alive, pid, role, phase, seen, obs, row, mirror, heartbeat, op, given, legacy>>
    BY <1>1 DEF vars, process, claim, evidence
  <2>3. RootInv'
    BY <2>2 DEF Root, RootInv, Apart, LegacyClaimsNothing, LegacyShown, ClaimsFoundNobody, LegacyUp, Up,
       OneOwner, MirrorNamesOwner
  <2> QED
    BY <2>1, <2>3 DEF Root
<1>2. CASE RootNext
  <2>1. Authority' /\ Moves /\ OpGoes /\ Histories /\ LegacyAmongDaemons
    BY <1>2, MovesStep, OpStep DEF Root, RootNext
  <2>2. Apart'
    BY <2>1, ApartStep
  <2>3. OneOwner'
    BY <2>1, <2>2, OneOwnerStep DEF Histories
  <2> QED
    BY <2>1, <2>2, <2>3, LegacyClaimsNothingStep, LegacyShownStep, ClaimsFoundNobodyStep, MirrorNamesOwnerStep
       DEF Root, RootInv
<1> QED
  BY <1>1, <1>2

-----------------------------------------------------------------------------
(* The leases. *)

Whole == Root /\ LeaseInv

LEMMA LeasesOfOwnersStep ==
  ASSUME Whole, Moves
  PROVE  LeasesOfOwners'
<1>1. SUFFICES ASSUME NEW h \in Gens, lease'[h] # "none"
               PROVE  phase'[h] \in {"up", "gone"} /\ role'[h] # "maintenance"
  BY DEF LeasesOfOwners
<1>2. phase[h] \in {"up", "gone"} /\ role[h] # "maintenance"
  BY <1>1 DEF Whole, LeaseInv, LeasesOfOwners, Moves, LeaseMoves, Up
<1> QED
  BY <1>2 DEF Moves, Course, OneMoves

\* What the histories leave out: nobody of the earlier release starts, and no row is cleared.
LEMMA NoLegacyStarts ==
  ASSUME Whole, Authority', Histories, ~legacy', NEW l \in Gens
  PROVE  ~legacy /\ ~SpawnLegacy(l)
<1>1. SUFFICES ASSUME SpawnLegacy(l) PROVE FALSE
  BY DEF Histories
<1>2. role'[l] = "legacy" /\ l \in alive' /\ phase[l] = "none"
  BY <1>1 DEF SpawnLegacy, NextGen, Whole, Root, Authority, Lives, TypeOK
<1>3. l \notin alive
  BY <1>2 DEF Whole, Root, Authority, Lives, AliveIsRunning
<1> QED
  BY <1>2, <1>3 DEF Histories

LEMMA FirstIsLegacyStep ==
  ASSUME Whole, Moves, Authority', Histories, ~legacy'
  PROVE  FirstIsLegacy'
<1>0. ~legacy /\ FirstIsLegacy /\ \A k \in Gens : ~SpawnLegacy(k)
  BY NoLegacyStarts, GensAreNats DEF Whole, LeaseInv
<1>1. \A l \in Gens : role'[l] = "legacy" => l = 1
  BY <1>0 DEF FirstIsLegacy, Moves, OneMoves
<1>2. mirror' \in {0, row'} \/ (row' = 0 /\ role'[mirror'] = "legacy")
  <2>1. CASE mirror' = 0
    BY <2>1
  <2>2. CASE mirror' # 0 /\ mirror' = mirror
    <3>1. mirror \in Gens /\ phase[mirror] # "none" /\ role'[mirror] = role[mirror]
      BY <2>2, RecordTypes DEF Whole, Root, Authority, Moves, Course
    <3>2. CASE row' = row
      BY <1>0, <2>2, <3>1, <3>2 DEF FirstIsLegacy
    <3>3. CASE row # 0 /\ (mirror = row => mirror' = 0)
      BY <1>0, <2>2, <3>3 DEF FirstIsLegacy
    <3> QED
      BY <2>2, <3>2, <3>3 DEF Moves, RowMoves, LeavesRow
  <2>3. CASE mirror' # 0 /\ mirror' # mirror
    <3>1. PICK k \in Gens : /\ k \in alive /\ phase[k] = "publish" /\ mirror = 0
                            /\ mirror' = k /\ row = k /\ phase'[k] = "up"
      BY <1>0, <2>3 DEF Moves, MirrorMoves
    <3>2. row' = row
      <4>1. CASE ClearDead
        <5>1. phase' = phase
          BY <4>1, ClearDeadMoves DEF Whole, Root, Authority, Lives, claim
        <5> QED
          BY <3>1, <5>1
      <4> QED
        BY <2>3, <3>1, <4>1 DEF Moves, RowMoves
    <3> QED
      BY <3>1, <3>2
  <2> QED
    BY <2>1, <2>2, <2>3
<1> QED
  BY <1>1, <1>2 DEF FirstIsLegacy

\* What a claim that found no mirror knows of the predecessor.
NoLease(g, l) ==
    (phase[g] \in {"heartbeat", "leases", "swap"} /\ seen[g] = 0 /\ obs[g] = 0 /\ role[l] = "legacy") =>
        /\ Up(l) => mirror = 0
        /\ phase[g] = "swap" => lease[l] # "fresh"

LEMMA ReadsFindNoLease ==
  ASSUME Whole, Moves, Authority', ~legacy, NEW g \in Gens, NEW l \in Gens, Reads(g), phase'[g] # "gone",
         role[l] = "legacy" \/ role'[l] # "legacy"
  PROVE  NoLease(g, l)'
<1>0. ~Refuse(g) /\ phase \in [Gens -> Phases] /\ seen \in [Gens -> 0 .. NGens] /\ obs \in [Gens -> 0 .. NGens]
  BY DEF Refuse, Ends, Whole, Root, Authority, Lives, TypeOK
<1>1. NoLease(g, l)
  BY DEF NoLease, Whole, LeaseInv, ClaimsFoundNoLease
<1>2. UNCHANGED <<mirror, lease, alive, role>> /\ phase'[g] # "up" /\ \A h \in Gens : h # g => phase'[h] = phase[h]
  BY <1>0 DEF Reads, ReadAuthority, ReadMirror, Inspect, CheckHeartbeat, CheckLeases, CheckMirror, CheckBeat,
       Go, evidence, process
<1>3. Up(l)' => Up(l)
  BY <1>2 DEF Up
<1>4. CASE ReadAuthority(g)
  BY <1>0, <1>4 DEF ReadAuthority, Go, NoLease
<1>5. CASE ReadMirror(g)
  BY <1>0, <1>2, <1>5 DEF ReadMirror, Go, NoLease
<1>6. CASE Inspect(g)
  <2>1. phase[g] = "inspect" /\ seen' = seen /\ obs' = obs /\ Target(g) # 0
    BY <1>0, <1>6 DEF Inspect, Claiming, Whole, Root, Authority, JudgedDead
  <2> QED
    BY <2>1 DEF Target, NoLease
<1>7. CASE CheckHeartbeat(g)
  BY <1>0, <1>1, <1>2, <1>3, <1>7 DEF CheckHeartbeat, Claiming, Go, NoLease
<1>8. CASE CheckLeases(g)
  BY <1>0, <1>1, <1>2, <1>3, <1>8 DEF CheckLeases, NoFreshLease, Claiming, Go, NoLease
<1>9. CASE CheckMirror(g) \/ CheckBeat(g)
  <2>1. seen' = seen /\ seen[g] # 0
    BY <1>0, <1>9 DEF CheckMirror, CheckBeat, Claiming, Whole, Root, Authority, JudgedDead
  <2> QED
    BY <2>1 DEF NoLease
<1> QED
  BY <1>4, <1>5, <1>6, <1>7, <1>8, <1>9 DEF Reads

LEMMA ClaimsFoundNoLeaseStep ==
  ASSUME Whole, Moves, Authority', Histories, ~legacy'
  PROVE  ClaimsFoundNoLease'
<1>0. ~legacy /\ \A k \in Gens : ~SpawnLegacy(k)
  BY NoLegacyStarts, GensAreNats
<1>1. SUFFICES ASSUME NEW g \in Gens, NEW l \in Gens PROVE NoLease(g, l)'
  BY DEF ClaimsFoundNoLease, NoLease
<1>2. role'[l] = "legacy" => role[l] = "legacy"
  BY <1>0 DEF Moves, OneMoves
<1>3. CASE Reads(g) /\ phase'[g] # "gone"
  BY <1>0, <1>2, <1>3, ReadsFindNoLease
<1>4. CASE phase'[g] \in {"read", "up", "gone", "publish"}
  BY <1>4 DEF NoLease
<1>5. CASE phase'[g] = phase[g] /\ seen'[g] = seen[g] /\ obs'[g] = obs[g]
  <2>1. SUFFICES ASSUME phase[g] \in {"heartbeat", "leases", "swap"}, seen[g] = 0, obs[g] = 0, role'[l] = "legacy"
                 PROVE  /\ Up(l)' => mirror' = 0
                        /\ phase[g] = "swap" => lease'[l] # "fresh"
    BY <1>5 DEF NoLease
  <2>2. (Up(l) => mirror = 0) /\ (phase[g] = "swap" => lease[l] # "fresh") /\ role[l] = "legacy"
    BY <1>0, <1>2, <2>1 DEF Whole, LeaseInv, ClaimsFoundNoLease
  <2>3. Up(l)' => mirror' = 0
    <3>1. SUFFICES ASSUME Up(l)' PROVE mirror' = 0
      OBVIOUS
    <3>2. LegacyUp(l)'
      BY <2>1, <3>1 DEF LegacyUp
    <3>3. LegacyUp(l) /\ phase'[l] = "up"
      BY <1>0, <3>2, LegacyBefore DEF Whole
    <3> QED
      BY <2>2, <3>3, LegacyStays DEF LegacyUp, Whole
  <2>4. ASSUME phase[g] = "swap" PROVE lease'[l] # "fresh"
    <3>1. ~Up(l)
      BY <2>1, <2>2, <2>4, LegacyIsUp DEF LegacyUp, Whole
    <3> QED
      BY <2>2, <2>4, <3>1 DEF Moves, LeaseMoves
  <2> QED
    BY <2>3, <2>4
<1> QED
  BY <1>3, <1>4, <1>5 DEF Moves, ClaimMoves

LEMMA FreshIsRecordedStep ==
  ASSUME Whole, Moves, Authority', Histories, ~legacy', ~cleared'
  PROVE  FreshIsRecorded'
<1>0. ~legacy /\ ~cleared /\ FreshIsRecorded /\ FirstIsLegacy /\ ClaimsFoundNoLease
  BY DEF Histories, Whole, LeaseInv
<1>1. SUFFICES ASSUME NEW h \in Gens, lease'[h] = "fresh"
               PROVE  row' = h \/ (row' = 0 /\ role'[h] = "legacy")
  BY DEF FreshIsRecorded
<1>2. /\ h # 0 /\ phase[h] \in {"up", "gone"} /\ role[h] # "maintenance" /\ role'[h] = role[h]
  BY <1>1, GensAreNats DEF Whole, LeaseInv, LeasesOfOwners, Moves, LeaseMoves, Up, Course
<1>3. CASE Up(h) /\ row' = row
  <2>1. CASE role[h] = "legacy"
    BY <1>0, <1>2, <1>3, <2>1 DEF Whole, Root, RootInv, LegacyShown, LegacyUp
  <2>2. CASE role[h] # "legacy"
    BY <1>2, <1>3, <2>2 DEF Whole, Root, Authority, AuthorityHeld, Up
  <2> QED
    BY <2>1, <2>2
<1>4. CASE lease[h] = "fresh"
  <2>1. row = h \/ (row = 0 /\ role[h] = "legacy")
    BY <1>0, <1>4 DEF FreshIsRecorded
  <2>2. CASE row' = row
    BY <1>2, <2>1, <2>2
  <2>3. ASSUME NEW k \in Gens, Commits(k), ~Blocked(k), lease' = LeasesReturned(k)
        PROVE  FALSE
    <3>1. phase[k] = "swap" /\ row = seen[k] /\ mirror = obs[k]
      BY <2>3 DEF Commits
    <3>2. Target(k) = h
      <4>1. CASE row = h
        BY <1>2, <3>1, <4>1 DEF Target
      <4>2. CASE row = 0 /\ role[h] = "legacy"
        <5>1. obs[k] # 0
          BY <1>0, <1>4, <3>1, <4>2 DEF ClaimsFoundNoLease
        <5>2. mirror \in Gens /\ role[mirror] = "legacy"
          BY <1>0, <3>1, <4>2, <5>1, RecordTypes DEF FirstIsLegacy, Whole, Root, Authority
        <5>3. mirror = h
          BY <1>0, <4>2, <5>2 DEF FirstIsLegacy
        <5> QED
          BY <3>1, <4>2, <5>3 DEF Target
      <4> QED
        BY <2>1, <4>1, <4>2
    <3>3. role[k] \in {"daemon", "maintenance"}
      BY <3>1 DEF Whole, Root, RootInv, LegacyClaimsNothing, Authority, Lives, TypeOK
    <3>4. CASE role[k] = "daemon"
      <4>1. lease' = [lease EXCEPT ![h] = "none"] /\ lease \in [Gens -> {"none", "fresh", "expired"}]
        BY <1>2, <2>3, <3>2, <3>4 DEF LeasesReturned, Whole, Root, Authority, Lives, TypeOK
      <4> QED
        BY <1>1, <4>1
    <3>5. CASE role[k] = "maintenance"
      BY <1>2, <1>4, <2>3, <3>2, <3>5 DEF Blocked
    <3> QED
      BY <3>3, <3>4, <3>5
  <2>4. CASE row \in alive /\ LeavesRow(row)
    <3>1. row = h
      BY <2>1, <2>4 DEF LeavesRow, Whole, Root, Authority, Lives, TypeOK, Gens
    <3> QED
      BY <1>1, <1>2, <2>4, <3>1 DEF LeavesRow
  <2>5. CASE row # 0 /\ row' = 0 /\ op.step = "clear"
    BY <2>5 DEF Histories
  <2> QED
    BY <2>2, <2>3, <2>4, <2>5 DEF Moves, RowMoves
<1> QED
  BY <1>1, <1>3, <1>4 DEF Moves, LeaseMoves

LEMMA WholeStep ==
  ASSUME Whole, [RootNext]_<<vars, given, legacy, cleared>>
  PROVE  Whole'
<1>1. Root'
  BY RootStep DEF Whole
<1>2. CASE UNCHANGED <<vars, given, legacy, cleared>>
  <2>1. UNCHANGED <<alive, role, phase, seen, obs, row, mirror, lease, legacy, cleared>>
    BY <1>2 DEF vars, process, claim, evidence
  <2>2. LeaseInv'
    BY <2>1 DEF Whole, LeaseInv, LeasesOfOwners, FirstIsLegacy, ClaimsFoundNoLease, FreshIsRecorded, Up
  <2> QED
    BY <1>1, <2>2 DEF Whole
<1>3. CASE RootNext
  <2>1. Authority' /\ Moves /\ Histories
    BY <1>3, MovesStep DEF Whole, Root, RootNext
  <2>2. LeaseInv'
    BY <2>1, LeasesOfOwnersStep, FirstIsLegacyStep, ClaimsFoundNoLeaseStep, FreshIsRecordedStep DEF LeaseInv
  <2> QED
    BY <1>1, <2>2 DEF Whole
<1> QED
  BY <1>2, <1>3

LEMMA WholeInit == MCInit => Whole
<1> SUFFICES ASSUME MCInit PROVE Whole
  OBVIOUS
<1>1. Authority
  BY AuthorityInit DEF MCInit
<1>2. /\ op = NoOp /\ row = 0 /\ ~given /\ ~legacy
      /\ \A g \in Gens : phase[g] \in {"none", "up", "gone"} /\ obs[g] = 0 /\ seen[g] = 0
      /\ \A g \in Gens : phase[g] = "up" => g = 1 /\ role[g] = "legacy" /\ (mirror = 1 \/ (mirror = 0 /\ heartbeat = 1))
      /\ \A g \in Gens : role[g] = "legacy" => g = 1 /\ phase[g] \in {"up", "gone"}
      /\ mirror = 0 \/ (mirror = 1 /\ role[1] = "legacy")
      /\ \A g \in Gens : lease[g] # "none" => g = 1 /\ role[g] = "legacy" /\ phase[g] \in {"up", "gone"}
  BY GensAreNats DEF MCInit, Init
<1>3. Apart /\ LegacyClaimsNothing
  BY <1>2 DEF Apart, LegacyClaimsNothing, NoOp
<1>4. LegacyShown
  BY <1>2 DEF LegacyShown, LegacyUp, Up, NoOp
<1>5. ClaimsFoundNobody /\ OneOwner /\ MirrorNamesOwner
  BY <1>2 DEF ClaimsFoundNobody, OneOwner, MirrorNamesOwner, Up
<1>6. LeasesOfOwners /\ FirstIsLegacy /\ ClaimsFoundNoLease /\ FreshIsRecorded
  BY <1>2 DEF LeasesOfOwners, FirstIsLegacy, ClaimsFoundNoLease, FreshIsRecorded
<1> QED
  BY <1>1, <1>3, <1>4, <1>5, <1>6 DEF Whole, Root, RootInv, LeaseInv

LEMMA NothingStranded ==
  ASSUME Whole
  PROVE  cleared \/ legacy \/ NoStrandedWork
<1>1. SUFFICES ASSUME ~cleared, ~legacy, NEW g \in Gens, NEW h \in Gens,
                      Up(g), role[g] # "legacy", lease[h] = "fresh"
               PROVE  g = h
  BY DEF NoStrandedWork
<1>2. row = g /\ g # 0
  BY <1>1, GensAreNats DEF Whole, Root, Authority, AuthorityHeld, Up
<1>3. row = h \/ row = 0
  BY <1>1 DEF Whole, LeaseInv, FreshIsRecorded
<1> QED
  BY <1>2, <1>3

LEMMA WholeIsOwnership == Whole => OwnershipInv
BY NothingStranded DEF Whole, Root, Authority, Lives, OwnershipInv, AuthorityInv

\* One process owns the root at a time, whatever dies, is restarted or is found by whom, and
\* it starts with no unexpired lease of another.
THEOREM OwnershipInvariant == RootSpec => []OwnershipInv
<1>1. MCInit => Whole
  BY WholeInit
<1>2. Whole /\ [RootNext]_<<vars, given, legacy, cleared>> => Whole'
  BY WholeStep
<1>3. Whole => OwnershipInv
  BY WholeIsOwnership
<1> QED
  BY <1>1, <1>2, <1>3, PTL DEF RootSpec

LEMMA NobodyUpWhenWritten ==
  ASSUME Whole, [RootNext]_<<vars, given, legacy, cleared>>
  PROVE  [op'.step = "wrote" /\ op.step = "write" => \A g \in Gens : ~Up(g)]_vars
<1>1. SUFFICES ASSUME RootNext, op'.step = "wrote", op.step = "write", NEW g \in Gens, Up(g)
               PROVE  FALSE
  BY DEF vars
<1>2. row = 0
  <2>1. Mutate
    <3>1. op' # op
      BY <1>1
    <3>2. Next /\ TypeOK
      BY <1>1 DEF RootNext, Whole, Root, Authority, Lives
    <3>3. Command
      BY <3>1, <3>2 DEF Next, Spawn, SpawnLegacy, Crash, LeaseExpires, StrangerTakes, StrangerLeaves, ClaimStep,
         SwapTorn, ReadAuthority, ReadMirror, Inspect, CheckHeartbeat, CheckLeases, CheckMirror, CheckBeat,
         Swap, Publish, Refuse, Retry, OwnerStep, Work, WriteHeartbeat, RecoverStaleLeases, Release, ReleaseTorn
    <3> QED
      BY <1>1, <3>3 DEF Command, Give, ReadControl, InspectControl, ClearDead, Signal
  <2> QED
    BY <1>1, <2>1, EndMoves DEF NoOwnerRow, Whole, Root, Authority, Lives
<1>3. CASE role[g] = "legacy"
  BY <1>1, <1>3 DEF Whole, Root, RootInv, LegacyShown, LegacyUp
<1>4. CASE role[g] # "legacy"
  BY <1>1, <1>2, <1>4, GensAreNats DEF Whole, Root, Authority, AuthorityHeld, Up
<1> QED
  BY <1>3, <1>4

\* A command that mutates a root it takes for stopped commits only while nobody owns it.
THEOREM NoMutationUnderOwner == RootSpec => MutatesAlone
<1>1. MCInit => Whole
  BY WholeInit
<1>2. Whole /\ [RootNext]_<<vars, given, legacy, cleared>> => Whole'
  BY WholeStep
<1>3. Whole /\ [RootNext]_<<vars, given, legacy, cleared>>
        => [op'.step = "wrote" /\ op.step = "write" => \A g \in Gens : ~Up(g)]_vars
  BY NobodyUpWhenWritten
<1> QED
  BY <1>1, <1>2, <1>3, PTL DEF RootSpec, MutatesAlone
=============================================================================
