----------------------------- MODULE DigestProofs -----------------------------
(***************************************************************************)
(* Proofs about the daily digest: where a local day begins, in every zone  *)
(* and for every date (DigestDay), and that the snapshot of a day is       *)
(* complete, written once and the only one on disk and in the chat, for    *)
(* any number of sessions, days, revisions and faults (Digest).  Then the  *)
(* proofs about the health alerts (Alerts): the chat agrees with the       *)
(* table, and an open incident of recording stays red.                     *)
(***************************************************************************)
EXTENDS MCDigest, MCAlerts, FiniteSetTheorems, TLAPS

-----------------------------------------------------------------------------
(* The first instant of a day *)

\* The bracket: what lies at its lower end is before the day, what lies at its
\* upper end is not.
Bracketed ==
    outcome # "unbracketed" => zone[before] < target /\ target <= zone[atOrAfter]

Closed == outcome \in {"found", "skipped"} => atOrAfter = before + 1

Answered ==
    /\ outcome = "found" => zone[atOrAfter] = target
    /\ outcome = "skipped" => zone[atOrAfter] # target

IInv == TypeOK /\ Bracketed /\ Closed /\ Answered

LEMMA InitIInv == Init => IInv
  BY ZoneAssumption DEF Init, IInv, TypeOK, Bracketed, Closed, Answered, Instants, Nominal

\* The candidate lies strictly inside a bracket that is wider than one instant.
LEMMA CandidateInside ==
  ASSUME IInv, atOrAfter - before > 1
  PROVE  Candidate \in Instants /\ before < Candidate /\ Candidate < atOrAfter
<1>1. before \in Int /\ atOrAfter \in Int /\ Lo \in Int /\ Hi \in Int
  BY ZoneAssumption DEF IInv, TypeOK, Instants
<1>2. Candidate \in Int /\ before < Candidate /\ Candidate < atOrAfter
  BY <1>1 DEF Candidate
<1> QED
  BY <1>1, <1>2 DEF IInv, TypeOK, Instants

LEMMA SearchIInv == IInv /\ Search => IInv'
<1> SUFFICES ASSUME IInv, Search PROVE IInv'
  OBVIOUS
<1>1. Candidate \in Instants /\ before < Candidate /\ Candidate < atOrAfter
  BY CandidateInside DEF Search
<1>2. zone[Candidate] \in Int /\ target \in Int
  BY <1>1, ZoneAssumption DEF IInv, TypeOK
<1>3. CASE zone[Candidate] < target
  BY <1>1, <1>2, <1>3 DEF Search, Narrow, IInv, TypeOK, Bracketed, Closed, Answered
<1>4. CASE ~(zone[Candidate] < target)
  BY <1>1, <1>2, <1>4 DEF Search, Narrow, IInv, TypeOK, Bracketed, Closed, Answered
<1> QED
  BY <1>3, <1>4

LEMMA FinishIInv == IInv /\ Finish => IInv'
<1> SUFFICES ASSUME IInv, Finish PROVE IInv'
  OBVIOUS
<1>1. before \in Int /\ atOrAfter \in Int
  BY ZoneAssumption DEF IInv, TypeOK, Instants
<1> QED
  BY <1>1 DEF Finish, IInv, TypeOK, Bracketed, Closed, Answered

LEMMA SpecIInv == Spec => []IInv
<1>1. IInv /\ UNCHANGED vars => IInv'
  BY DEF IInv, TypeOK, Bracketed, Closed, Answered, vars
<1> QED
  BY InitIInv, SearchIInv, FinishIInv, <1>1, PTL DEF Spec, Next

\* Every variable keeps its type, and the bracket never closes up or turns.
THEOREM TypeCorrect == Spec => []TypeOK
<1>1. IInv => TypeOK
  BY DEF IInv
<1> QED
  BY SpecIInv, <1>1, PTL

\* In every zone and for every date, the answer is exact.
THEOREM ExactCorrect == Spec => []Exact
<1>1. IInv => Exact
  <2> SUFFICES ASSUME IInv PROVE Exact
    OBVIOUS
  <2>1. /\ before \in Int /\ atOrAfter \in Int /\ target \in Int
        /\ before \in Instants /\ atOrAfter \in Instants
        /\ \A i \in Instants : i \in Int /\ zone[i] \in Int
    BY ZoneAssumption DEF IInv, TypeOK, Instants
  <2>2. ASSUME outcome \in {"found", "skipped"}
        PROVE  atOrAfter = before + 1 /\ atOrAfter - 1 = before
               /\ zone[before] < target /\ target <= zone[atOrAfter]
    BY <2>1, <2>2 DEF IInv, Closed, Bracketed
  <2>3. ASSUME outcome \in {"found", "skipped"}, Orderly,
               NEW i \in Instants, zone[i] = target
        PROVE  atOrAfter <= i
    <3>1. ~(i <= before)
      BY <2>1, <2>2, <2>3 DEF Orderly
    <3> QED
      BY <2>1, <2>2, <2>3, <3>1
  <2>4. outcome = "found" => zone[atOrAfter] = target /\ zone[atOrAfter - 1] < target
    BY <2>2 DEF IInv, Answered
  <2>5. ASSUME outcome = "skipped", Orderly, NEW i \in Instants, zone[i] = target
        PROVE  FALSE
    <3>1. atOrAfter <= i
      BY <2>3, <2>5
    <3>2. zone[atOrAfter] <= zone[i] /\ zone[atOrAfter] # target
      BY <2>1, <2>5, <3>1 DEF Orderly, IInv, Answered
    <3> QED
      BY <2>1, <2>2, <2>5, <3>2
  <2> QED
    BY <2>3, <2>4, <2>5 DEF Exact
<1> QED
  BY SpecIInv, <1>1, PTL

-----------------------------------------------------------------------------
(* The snapshot of a day *)

USE DEF D!clock, D!pair, D!disk

SessionRecord ==
    [state : D!Unfinished \cup D!Ended \cup {"none"}, day : 0 .. LastDay,
     revision : 0 .. MaxRevision, summary : 0 .. MaxRevision]
Activity == [stage : D!Stages, day : 0 .. LastDay, view : D!Views]
OutboxStates == {"none", "pending", "sending", "sent", "dead"}

LEMMA Sizes ==
  /\ LastDay \in Nat \ {0} /\ MaxRevision \in Nat \ {0} /\ MaxFaults \in Nat /\ InlineRows \in Nat
  /\ D!Days \subseteq Nat /\ 1 \in D!Days /\ D!Days \subseteq 0 .. LastDay /\ 0 \notin D!Days
  /\ {} \in D!Views /\ D!Builders \subseteq D!Agents /\ "outbox" \in D!Agents
BY SnapshotAssumed DEF D!DigestAssumption, D!Days, D!Views, D!Builders, D!Agents

SnapshotCore ==
    /\ D!TypeOK /\ D!OnlyWinnerOnDisk /\ D!UploadedIsSnapshot
    /\ D!PairWritten /\ D!WinnerInHand /\ D!DayAtStart

\* The fields of the invariant, one by one
LEMMA Types ==
  ASSUME SnapshotCore
  PROVE  /\ today \in D!Days /\ due \in BOOLEAN /\ session \in [Sessions -> SessionRecord]
         /\ stored \subseteq D!Days /\ digests \in [D!Days -> D!Views] /\ payload \in [D!Days -> D!Views]
         /\ outbox \in [D!Days -> OutboxStates] /\ files \subseteq D!Days \X D!Views \X D!Contents
         /\ temps \subseteq (D!Agents \cup {"orphan"}) \X D!Days \X D!Views
         /\ agent \in [D!Agents -> Activity] /\ up \in BOOLEAN
         /\ uploaded \in [D!Days -> D!Received] /\ faults \in 0 .. MaxFaults
BY DEF SnapshotCore, D!TypeOK, SessionRecord, Activity, OutboxStates

\* What a step leaves of the stored digests and of what was received: the rows of a stored
\* digest, and a new one complete.
Published ==
    \A d \in D!Days :
        /\ d \in stored' /\ d \notin stored => D!Settled(d) /\ digests'[d] = D!Facts(d)
        /\ d \in stored => d \in stored' /\ digests'[d] = digests[d]

\* What an agent may go on with
Sound(next) ==
    \/ next.stage = "idle"
    \/ next.stage \in {"build", "publish"} /\ next.day \in D!Days
    \/ next.day \in stored /\ next.view = payload[next.day]

AgentsMove ==
    /\ agent' \in [D!Agents -> Activity]
    /\ \A a \in D!Agents : agent'[a] = agent[a] \/ \E next \in Activity : agent'[a] = next /\ Sound(next)

\* Steps of the agents that publish nothing: the digests stay, and what is on disk or in
\* hand is still the winner's.
Handled ==
    /\ UNCHANGED <<session, digests, stored, payload>>
    /\ today' \in D!Days /\ due' \in BOOLEAN /\ up' \in BOOLEAN /\ faults' \in 0 .. MaxFaults
    /\ outbox' \in [D!Days -> OutboxStates] /\ \A d \in D!Days \ stored : outbox'[d] = outbox[d]
    /\ uploaded' \in [D!Days -> D!Received] /\ \A d \in D!Days : uploaded'[d] \in {uploaded[d], "snapshot"}
    /\ AgentsMove
    /\ temps' \subseteq (D!Agents \cup {"orphan"}) \X D!Days \X D!Views
    /\ \A t \in temps' : t[2] \in stored /\ t[3] = digests[t[2]]
    /\ files' \subseteq D!Days \X D!Views \X D!Contents
    /\ \A f \in files' : f[1] \in stored /\ f[2] = digests[f[1]]
    /\ \A f, g \in files' : f[1] = g[1] /\ f[2] = g[2] => f = g

LEMMA HandledKeeps ==
  ASSUME SnapshotCore, Handled
  PROVE  SnapshotCore' /\ Published
<1>1. D!TypeOK'
  <2>1. session' \in [Sessions -> SessionRecord] /\ \A s \in Sessions : session'[s].summary <= session'[s].revision
    BY Types DEF Handled, SnapshotCore, D!TypeOK
  <2>2. agent' \in [D!Agents -> Activity]
    BY DEF Handled, AgentsMove
  <2>3. /\ stored' \subseteq D!Days /\ digests' \in [D!Days -> D!Views] /\ payload' \in [D!Days -> D!Views]
        /\ outbox' \in [D!Days -> OutboxStates] /\ uploaded' \in [D!Days -> D!Received]
    BY Types DEF Handled
  <2> QED
    BY <2>1, <2>2, <2>3 DEF Handled, D!TypeOK, SessionRecord, Activity, OutboxStates
<1>2. D!OnlyWinnerOnDisk'
  BY DEF Handled, D!OnlyWinnerOnDisk
<1>3. D!UploadedIsSnapshot'
  BY DEF Handled, SnapshotCore, D!UploadedIsSnapshot
<1>4. D!PairWritten' /\ D!DayAtStart'
  BY DEF Handled, SnapshotCore, D!PairWritten, D!DayAtStart
<1>5. D!WinnerInHand'
  <2>1. ASSUME NEW a \in D!Agents, agent'[a].stage # "idle"
        PROVE  /\ agent'[a].day \in D!Days
               /\ agent'[a].stage \notin {"build", "publish"} =>
                    agent'[a].day \in stored' /\ agent'[a].view = payload'[agent'[a].day]
    <3>1. UNCHANGED <<stored, payload>> /\ stored \subseteq D!Days
      BY Types DEF Handled
    <3>2. CASE agent'[a] = agent[a]
      BY <2>1, <3>1, <3>2 DEF SnapshotCore, D!WinnerInHand
    <3>3. CASE \E next \in Activity : agent'[a] = next /\ Sound(next)
      BY <2>1, <3>1, <3>3 DEF Sound
    <3> QED
      BY <3>2, <3>3 DEF Handled, AgentsMove
  <2> QED
    BY <2>1 DEF D!WinnerInHand
<1>6. Published
  BY DEF Handled, Published
<1> QED
  BY <1>1, <1>2, <1>3, <1>4, <1>5, <1>6 DEF SnapshotCore

\* What the invariant says of what is on disk and in hand
LEMMA Winner ==
  ASSUME SnapshotCore
  PROVE  /\ payload = digests
         /\ \A f \in files : f[1] \in stored /\ f[2] = digests[f[1]]
         /\ \A t \in temps : t[2] \in stored /\ t[3] = digests[t[2]]
         /\ \A f, g \in files : f[1] = g[1] /\ f[2] = g[2] => f = g
         /\ \A d \in D!Days : outbox[d] # "none" => d \in stored
         /\ \A a \in D!Agents : agent[a].stage \notin {"idle", "build", "publish"} =>
               agent[a].day \in stored /\ agent[a].view = payload[agent[a].day]
<1>1. \A t \in temps : <<t[2], t[3], "right">> \in files \cup {<<u[2], u[3], "right">> : u \in temps}
  OBVIOUS
<1>2. \A t \in temps : t[2] \in stored /\ t[3] = digests[t[2]]
  BY <1>1 DEF SnapshotCore, D!OnlyWinnerOnDisk
<1> QED
  BY <1>2, Types DEF SnapshotCore, D!OnlyWinnerOnDisk, D!TypeOK, D!PairWritten, D!WinnerInHand

LEMMA FactsAreRows == \A d : SnapshotCore => D!Facts(d) \in D!Views
BY Types, Sizes DEF D!Facts, D!Views, D!Rows, SessionRecord

\* One agent goes on with something sound.
LEMMA OneAgentMoves ==
  ASSUME SnapshotCore, NEW a \in D!Agents, NEW next \in Activity, Sound(next), agent' = [agent EXCEPT ![a] = next]
  PROVE  AgentsMove
BY Types DEF AgentsMove

LEMMA IdleIsSound == D!Idle \in Activity /\ Sound(D!Idle)
BY Sizes DEF D!Idle, Activity, D!Stages, Sound

\* An agent takes its document to another stage.
LEMMA InHandIsSound ==
  ASSUME SnapshotCore, NEW a \in D!Agents, agent[a].stage \notin {"idle", "build", "publish"},
         NEW stage \in D!Stages
  PROVE  /\ [stage |-> stage, day |-> agent[a].day, view |-> agent[a].view] \in Activity
         /\ Sound([stage |-> stage, day |-> agent[a].day, view |-> agent[a].view])
<1>1. agent[a] \in Activity
  BY Types
<1>2. agent[a].day \in 0 .. LastDay /\ agent[a].view \in D!Views
  BY <1>1 DEF Activity
<1>3. [stage |-> stage, day |-> agent[a].day, view |-> agent[a].view] \in Activity
  BY <1>2 DEF Activity
<1> QED
  BY <1>3, Winner DEF Sound

LEMMA ClockHandles ==
  ASSUME SnapshotCore, D!Tick \/ D!HourRepeats
  PROVE  Handled
<1>1. /\ UNCHANGED <<session, digests, stored, payload>>
      /\ today' \in D!Days /\ due' \in BOOLEAN /\ up' \in BOOLEAN /\ faults' \in 0 .. MaxFaults
  <2>1. today' \in D!Days
    BY Types, Sizes DEF D!Tick, D!HourRepeats, D!Days
  <2>2. faults' \in 0 .. MaxFaults
    BY Types, Sizes DEF D!Tick, D!HourRepeats
  <2>3. due' \in BOOLEAN /\ up' = up /\ UNCHANGED <<session, digests, stored, payload>>
    BY DEF D!Tick, D!HourRepeats
  <2> QED
    BY <2>1, <2>2, <2>3, Types
<1>2. /\ outbox' \in [D!Days -> OutboxStates]
      /\ \A e \in D!Days \ stored : outbox'[e] = outbox[e]
  BY Types DEF D!Tick, D!HourRepeats
<1>3. /\ uploaded' \in [D!Days -> D!Received]
      /\ \A e \in D!Days : uploaded'[e] \in {uploaded[e], "snapshot"}
  BY Types DEF D!Tick, D!HourRepeats
<1>4. AgentsMove
  BY Types DEF AgentsMove, D!Tick, D!HourRepeats
<1>5. /\ temps' \subseteq (D!Agents \cup {"orphan"}) \X D!Days \X D!Views
      /\ \A t \in temps' : t[2] \in stored /\ t[3] = digests[t[2]]
  BY Types, Winner DEF D!Tick, D!HourRepeats
<1>6. /\ files' \subseteq D!Days \X D!Views \X D!Contents
      /\ \A f \in files' : f[1] \in stored /\ f[2] = digests[f[1]]
      /\ \A f, g \in files' : f[1] = g[1] /\ f[2] = g[2] => f = g
  BY Types, Winner DEF D!Tick, D!HourRepeats
<1> QED
  BY <1>1, <1>2, <1>3, <1>4, <1>5, <1>6 DEF Handled

LEMMA BeginHandles ==
  ASSUME SnapshotCore, NEW b \in D!Builders, D!Begin(b)
  PROVE  Handled
<1>1. /\ UNCHANGED <<session, digests, stored, payload>>
      /\ today' \in D!Days /\ due' \in BOOLEAN /\ up' \in BOOLEAN /\ faults' \in 0 .. MaxFaults
  BY Types DEF D!Begin, D!EnsureOrBuild
<1>2. /\ outbox' \in [D!Days -> OutboxStates]
      /\ \A e \in D!Days \ stored : outbox'[e] = outbox[e]
  BY Types DEF D!Begin, D!EnsureOrBuild
<1>3. /\ uploaded' \in [D!Days -> D!Received]
      /\ \A e \in D!Days : uploaded'[e] \in {uploaded[e], "snapshot"}
  BY Types DEF D!Begin, D!EnsureOrBuild
<1>4. AgentsMove
  <2>1. b \in D!Agents
    BY Sizes
  <2>2. PICK d \in D!Days : D!EnsureOrBuild(b, d)
    BY DEF D!Begin
  <2>3. CASE d \in stored
    <3>1. PICK next \in Activity : next = [stage |-> "verify", day |-> d, view |-> payload[d]]
      BY Types, Sizes DEF Activity, D!Stages
    <3> QED
      BY <2>1, <2>2, <2>3, <3>1, OneAgentMoves DEF D!EnsureOrBuild, D!Goto, Sound
  <2>4. CASE d \notin stored
    <3>1. PICK next \in Activity : next = [stage |-> "build", day |-> d, view |-> {}]
      BY Sizes DEF Activity, D!Stages
    <3> QED
      BY <2>1, <2>2, <2>4, <3>1, OneAgentMoves DEF D!EnsureOrBuild, D!Goto, Sound
  <2> QED
    BY <2>3, <2>4
<1>5. /\ temps' \subseteq (D!Agents \cup {"orphan"}) \X D!Days \X D!Views
      /\ \A t \in temps' : t[2] \in stored /\ t[3] = digests[t[2]]
  BY Types, Winner DEF D!Begin, D!EnsureOrBuild
<1>6. /\ files' \subseteq D!Days \X D!Views \X D!Contents
      /\ \A f \in files' : f[1] \in stored /\ f[2] = digests[f[1]]
      /\ \A f, g \in files' : f[1] = g[1] /\ f[2] = g[2] => f = g
  BY Types, Winner DEF D!Begin, D!EnsureOrBuild
<1> QED
  BY <1>1, <1>2, <1>3, <1>4, <1>5, <1>6 DEF Handled

LEMMA BuildHandles ==
  ASSUME SnapshotCore, NEW b \in D!Builders, D!BuildDigest(b)
  PROVE  Handled
<1>1. /\ UNCHANGED <<session, digests, stored, payload>>
      /\ today' \in D!Days /\ due' \in BOOLEAN /\ up' \in BOOLEAN /\ faults' \in 0 .. MaxFaults
  BY Types DEF D!BuildDigest
<1>2. /\ outbox' \in [D!Days -> OutboxStates]
      /\ \A e \in D!Days \ stored : outbox'[e] = outbox[e]
  BY Types DEF D!BuildDigest
<1>3. /\ uploaded' \in [D!Days -> D!Received]
      /\ \A e \in D!Days : uploaded'[e] \in {uploaded[e], "snapshot"}
  BY Types DEF D!BuildDigest
<1>4. AgentsMove
  <2>1. b \in D!Agents /\ agent[b].day \in D!Days
    BY Sizes DEF SnapshotCore, D!WinnerInHand, D!BuildDigest
  <2>2. PICK next \in Activity : next = [stage |-> "publish", day |-> agent[b].day, view |-> D!Facts(agent[b].day)]
    BY <2>1, Sizes, FactsAreRows DEF Activity, D!Stages
  <2> QED
    BY <2>1, <2>2, OneAgentMoves DEF D!BuildDigest, D!Goto, Sound
<1>5. /\ temps' \subseteq (D!Agents \cup {"orphan"}) \X D!Days \X D!Views
      /\ \A t \in temps' : t[2] \in stored /\ t[3] = digests[t[2]]
  BY Types, Winner DEF D!BuildDigest
<1>6. /\ files' \subseteq D!Days \X D!Views \X D!Contents
      /\ \A f \in files' : f[1] \in stored /\ f[2] = digests[f[1]]
      /\ \A f, g \in files' : f[1] = g[1] /\ f[2] = g[2] => f = g
  BY Types, Winner DEF D!BuildDigest
<1> QED
  BY <1>1, <1>2, <1>3, <1>4, <1>5, <1>6 DEF Handled

LEMMA VerifyHandles ==
  ASSUME SnapshotCore, NEW a \in D!Agents, D!Verify(a) \/ D!Reverify(a)
  PROVE  Handled
<1>1. /\ UNCHANGED <<session, digests, stored, payload>>
      /\ today' \in D!Days /\ due' \in BOOLEAN /\ up' \in BOOLEAN /\ faults' \in 0 .. MaxFaults
  BY Types DEF D!Verify, D!Reverify
<1>2. /\ outbox' \in [D!Days -> OutboxStates]
      /\ \A e \in D!Days \ stored : outbox'[e] = outbox[e]
  <2>1. agent[a].day \in stored
    BY Winner DEF D!Verify, D!Reverify
  <2>2. outbox' = outbox \/ \E x \in OutboxStates : outbox' = [outbox EXCEPT ![agent[a].day] = x]
    BY DEF OutboxStates, D!Verify, D!Reverify, D!Proved, D!Refuted, D!Failed
  <2> QED
    BY <2>1, <2>2, Types
<1>3. /\ uploaded' \in [D!Days -> D!Received]
      /\ \A e \in D!Days : uploaded'[e] \in {uploaded[e], "snapshot"}
  BY Types DEF D!Verify, D!Reverify
<1>4. AgentsMove
  <2>1. agent[a].stage \notin {"idle", "build", "publish"}
    BY DEF D!Verify, D!Reverify
  <2>2. \/ agent' = [agent EXCEPT ![a] = D!Idle]
        \/ \E stage \in {"send", "write"} :
              agent' = [agent EXCEPT ![a] = [stage |-> stage, day |-> agent[a].day, view |-> agent[a].view]]
    BY DEF D!Verify, D!Reverify, D!Proved, D!Refuted, D!Failed, D!Finish, D!Goto
  <2>3. CASE agent' = [agent EXCEPT ![a] = D!Idle]
    BY <2>3, IdleIsSound, OneAgentMoves
  <2>4. ASSUME NEW stage \in {"send", "write"},
               agent' = [agent EXCEPT ![a] = [stage |-> stage, day |-> agent[a].day, view |-> agent[a].view]]
        PROVE  AgentsMove
    <3>1. PICK next \in Activity : next = [stage |-> stage, day |-> agent[a].day, view |-> agent[a].view] /\ Sound(next)
      BY <2>1, InHandIsSound DEF D!Stages
    <3> QED
      BY <2>4, <3>1, OneAgentMoves
  <2> QED
    BY <2>2, <2>3, <2>4
<1>5. /\ temps' \subseteq (D!Agents \cup {"orphan"}) \X D!Days \X D!Views
      /\ \A t \in temps' : t[2] \in stored /\ t[3] = digests[t[2]]
  BY Types, Winner DEF D!Verify, D!Reverify
<1>6. /\ files' \subseteq D!Days \X D!Views \X D!Contents
      /\ \A f \in files' : f[1] \in stored /\ f[2] = digests[f[1]]
      /\ \A f, g \in files' : f[1] = g[1] /\ f[2] = g[2] => f = g
  BY Types, Winner DEF D!Verify, D!Reverify
<1> QED
  BY <1>1, <1>2, <1>3, <1>4, <1>5, <1>6 DEF Handled

LEMMA WriteHandles ==
  ASSUME SnapshotCore, NEW a \in D!Agents, D!WriteTemp(a)
  PROVE  Handled
<1>1. /\ UNCHANGED <<session, digests, stored, payload>>
      /\ today' \in D!Days /\ due' \in BOOLEAN /\ up' \in BOOLEAN /\ faults' \in 0 .. MaxFaults
  BY Types DEF D!WriteTemp
<1>2. /\ outbox' \in [D!Days -> OutboxStates]
      /\ \A e \in D!Days \ stored : outbox'[e] = outbox[e]
  BY Types DEF D!WriteTemp
<1>3. /\ uploaded' \in [D!Days -> D!Received]
      /\ \A e \in D!Days : uploaded'[e] \in {uploaded[e], "snapshot"}
  BY Types DEF D!WriteTemp
<1>4. AgentsMove
  BY Types, Winner DEF AgentsMove, Sound, Activity, D!Stages, D!WriteTemp, D!Goto
<1>5. /\ temps' \subseteq (D!Agents \cup {"orphan"}) \X D!Days \X D!Views
      /\ \A t \in temps' : t[2] \in stored /\ t[3] = digests[t[2]]
  BY Types, Winner DEF D!WriteTemp
<1>6. /\ files' \subseteq D!Days \X D!Views \X D!Contents
      /\ \A f \in files' : f[1] \in stored /\ f[2] = digests[f[1]]
      /\ \A f, g \in files' : f[1] = g[1] /\ f[2] = g[2] => f = g
  BY Types, Winner DEF D!WriteTemp
<1> QED
  BY <1>1, <1>2, <1>3, <1>4, <1>5, <1>6 DEF Handled

LEMMA LinkHandles ==
  ASSUME SnapshotCore, NEW a \in D!Agents, D!Link(a)
  PROVE  Handled
<1>1. /\ UNCHANGED <<session, digests, stored, payload>>
      /\ today' \in D!Days /\ due' \in BOOLEAN /\ up' \in BOOLEAN /\ faults' \in 0 .. MaxFaults
  BY Types DEF D!Link
<1>2. /\ outbox' \in [D!Days -> OutboxStates]
      /\ \A e \in D!Days \ stored : outbox'[e] = outbox[e]
  BY Types DEF D!Link
<1>3. /\ uploaded' \in [D!Days -> D!Received]
      /\ \A e \in D!Days : uploaded'[e] \in {uploaded[e], "snapshot"}
  BY Types DEF D!Link
<1>4. AgentsMove
  BY Types, Winner DEF AgentsMove, Sound, Activity, D!Stages, D!Link, D!Goto
<1>5. /\ temps' \subseteq (D!Agents \cup {"orphan"}) \X D!Days \X D!Views
      /\ \A t \in temps' : t[2] \in stored /\ t[3] = digests[t[2]]
  BY Types, Winner DEF D!Link
<1>6. /\ files' \subseteq D!Days \X D!Views \X D!Contents
      /\ \A f \in files' : f[1] \in stored /\ f[2] = digests[f[1]]
      /\ \A f, g \in files' : f[1] = g[1] /\ f[2] = g[2] => f = g
  BY Types, Winner DEF D!Contents, D!Link, D!ContentAt
<1> QED
  BY <1>1, <1>2, <1>3, <1>4, <1>5, <1>6 DEF Handled

LEMMA ClaimHandles ==
  ASSUME SnapshotCore, D!ClaimDigest
  PROVE  Handled
<1>1. /\ UNCHANGED <<session, digests, stored, payload>>
      /\ today' \in D!Days /\ due' \in BOOLEAN /\ up' \in BOOLEAN /\ faults' \in 0 .. MaxFaults
  BY Types DEF D!ClaimDigest
<1>2. /\ outbox' \in [D!Days -> OutboxStates]
      /\ \A e \in D!Days \ stored : outbox'[e] = outbox[e]
  BY Types, Winner DEF OutboxStates, D!ClaimDigest
<1>3. /\ uploaded' \in [D!Days -> D!Received]
      /\ \A e \in D!Days : uploaded'[e] \in {uploaded[e], "snapshot"}
  BY Types DEF D!ClaimDigest
<1>4. AgentsMove
  BY Types, Sizes, Winner DEF AgentsMove, Sound, Activity, D!Stages, D!ClaimDigest, D!Goto
<1>5. /\ temps' \subseteq (D!Agents \cup {"orphan"}) \X D!Days \X D!Views
      /\ \A t \in temps' : t[2] \in stored /\ t[3] = digests[t[2]]
  BY Types, Winner DEF D!ClaimDigest
<1>6. /\ files' \subseteq D!Days \X D!Views \X D!Contents
      /\ \A f \in files' : f[1] \in stored /\ f[2] = digests[f[1]]
      /\ \A f, g \in files' : f[1] = g[1] /\ f[2] = g[2] => f = g
  BY Types, Winner DEF D!ClaimDigest
<1> QED
  BY <1>1, <1>2, <1>3, <1>4, <1>5, <1>6 DEF Handled

LEMMA SendHandles ==
  ASSUME SnapshotCore, D!SendPayload
  PROVE  Handled
<1>1. /\ UNCHANGED <<session, digests, stored, payload>>
      /\ today' \in D!Days /\ due' \in BOOLEAN /\ up' \in BOOLEAN /\ faults' \in 0 .. MaxFaults
  BY Types DEF D!SendPayload
<1>2. /\ outbox' \in [D!Days -> OutboxStates]
      /\ \A e \in D!Days \ stored : outbox'[e] = outbox[e]
  <2>1. agent["outbox"].day \in stored
    BY Winner, Sizes DEF D!SendPayload
  <2>2. \E x \in OutboxStates : outbox' = [outbox EXCEPT ![agent["outbox"].day] = x]
    BY DEF OutboxStates, D!SendPayload, D!Upload, D!Refuted, D!Failed
  <2> QED
    BY <2>1, <2>2, Types
<1>3. /\ uploaded' \in [D!Days -> D!Received]
      /\ \A e \in D!Days : uploaded'[e] \in {uploaded[e], "snapshot"}
  BY Types, Sizes, Winner DEF D!Received, D!SendPayload, D!Upload
<1>4. AgentsMove
  <2>1. agent' = [agent EXCEPT !["outbox"] = D!Idle]
    BY DEF D!SendPayload, D!Upload, D!Refuted, D!Failed, D!Finish
  <2> QED
    BY <2>1, Sizes, IdleIsSound, OneAgentMoves
<1>5. /\ temps' \subseteq (D!Agents \cup {"orphan"}) \X D!Days \X D!Views
      /\ \A t \in temps' : t[2] \in stored /\ t[3] = digests[t[2]]
  BY Types, Winner DEF D!SendPayload
<1>6. /\ files' \subseteq D!Days \X D!Views \X D!Contents
      /\ \A f \in files' : f[1] \in stored /\ f[2] = digests[f[1]]
      /\ \A f, g \in files' : f[1] = g[1] /\ f[2] = g[2] => f = g
  BY Types, Winner DEF D!SendPayload
<1> QED
  BY <1>1, <1>2, <1>3, <1>4, <1>5, <1>6 DEF Handled

LEMMA CrashHandles ==
  ASSUME SnapshotCore, NEW A \in SUBSET D!Agents, D!CrashOf(A)
  PROVE  Handled
<1>1. /\ UNCHANGED <<session, digests, stored, payload>>
      /\ today' \in D!Days /\ due' \in BOOLEAN /\ up' \in BOOLEAN /\ faults' \in 0 .. MaxFaults
  BY Types, Sizes DEF D!CrashOf, D!Fault
<1>2. /\ outbox' \in [D!Days -> OutboxStates]
      /\ \A e \in D!Days \ stored : outbox'[e] = outbox[e]
  BY Types, Winner DEF OutboxStates, D!CrashOf
<1>3. /\ uploaded' \in [D!Days -> D!Received]
      /\ \A e \in D!Days : uploaded'[e] \in {uploaded[e], "snapshot"}
  BY Types DEF D!CrashOf
<1>4. AgentsMove
  <2>1. agent' = [c \in D!Agents |-> IF c \in A THEN D!Idle ELSE agent[c]]
    BY DEF D!CrashOf
  <2> QED
    BY <2>1, Types, IdleIsSound DEF AgentsMove
<1>5. /\ temps' \subseteq (D!Agents \cup {"orphan"}) \X D!Days \X D!Views
      /\ \A t \in temps' : t[2] \in stored /\ t[3] = digests[t[2]]
  BY Types, Winner DEF D!CrashOf, D!Orphaned
<1>6. /\ files' \subseteq D!Days \X D!Views \X D!Contents
      /\ \A f \in files' : f[1] \in stored /\ f[2] = digests[f[1]]
      /\ \A f, g \in files' : f[1] = g[1] /\ f[2] = g[2] => f = g
  BY Types, Winner DEF D!CrashOf
<1> QED
  BY <1>1, <1>2, <1>3, <1>4, <1>5, <1>6 DEF Handled

LEMMA CleanupHandles ==
  ASSUME SnapshotCore, D!CleanupDurableDigestTemps
  PROVE  Handled
<1>1. /\ UNCHANGED <<session, digests, stored, payload>>
      /\ today' \in D!Days /\ due' \in BOOLEAN /\ up' \in BOOLEAN /\ faults' \in 0 .. MaxFaults
  BY Types DEF D!CleanupDurableDigestTemps
<1>2. /\ outbox' \in [D!Days -> OutboxStates]
      /\ \A e \in D!Days \ stored : outbox'[e] = outbox[e]
  BY Types DEF D!CleanupDurableDigestTemps
<1>3. /\ uploaded' \in [D!Days -> D!Received]
      /\ \A e \in D!Days : uploaded'[e] \in {uploaded[e], "snapshot"}
  BY Types DEF D!CleanupDurableDigestTemps
<1>4. AgentsMove
  BY Types DEF AgentsMove, D!CleanupDurableDigestTemps
<1>5. /\ temps' \subseteq (D!Agents \cup {"orphan"}) \X D!Days \X D!Views
      /\ \A t \in temps' : t[2] \in stored /\ t[3] = digests[t[2]]
  BY Winner DEF D!CleanupDurableDigestTemps
<1>6. /\ files' \subseteq D!Days \X D!Views \X D!Contents
      /\ \A f \in files' : f[1] \in stored /\ f[2] = digests[f[1]]
      /\ \A f, g \in files' : f[1] = g[1] /\ f[2] = g[2] => f = g
  BY Types, Winner DEF D!CleanupDurableDigestTemps
<1> QED
  BY <1>1, <1>2, <1>3, <1>4, <1>5, <1>6 DEF Handled

LEMMA FileChangesHandles ==
  ASSUME SnapshotCore, D!FileChanges
  PROVE  Handled
<1>1. /\ UNCHANGED <<session, digests, stored, payload>>
      /\ today' \in D!Days /\ due' \in BOOLEAN /\ up' \in BOOLEAN /\ faults' \in 0 .. MaxFaults
  BY Types, Sizes DEF D!FileChanges, D!Fault
<1>2. /\ outbox' \in [D!Days -> OutboxStates]
      /\ \A e \in D!Days \ stored : outbox'[e] = outbox[e]
  BY Types DEF D!FileChanges
<1>3. /\ uploaded' \in [D!Days -> D!Received]
      /\ \A e \in D!Days : uploaded'[e] \in {uploaded[e], "snapshot"}
  BY Types DEF D!FileChanges
<1>4. AgentsMove
  BY Types DEF AgentsMove, D!FileChanges
<1>5. /\ temps' \subseteq (D!Agents \cup {"orphan"}) \X D!Days \X D!Views
      /\ \A t \in temps' : t[2] \in stored /\ t[3] = digests[t[2]]
  BY Types, Winner DEF D!FileChanges
<1>6. /\ files' \subseteq D!Days \X D!Views \X D!Contents
      /\ \A f \in files' : f[1] \in stored /\ f[2] = digests[f[1]]
      /\ \A f, g \in files' : f[1] = g[1] /\ f[2] = g[2] => f = g
  <2>1. PICK d \in stored : \/ files' = {f \in files : f[1] # d} \cup {<<d, payload[d], "foreign">>}
                           \/ files' = {f \in files : f[1] # d}
    BY DEF D!FileChanges
  <2>2. d \in D!Days /\ payload[d] \in D!Views /\ payload[d] = digests[d]
    BY Types, Winner
  <2>3. <<d, payload[d], "foreign">> \in D!Days \X D!Views \X D!Contents
    BY <2>2 DEF D!Contents
  <2>4. \A f \in files' : (f \in files /\ f[1] # d) \/ f = <<d, payload[d], "foreign">>
    BY <2>1
  <2> QED
    BY <2>2, <2>3, <2>4, Types, Winner
<1> QED
  BY <1>1, <1>2, <1>3, <1>4, <1>5, <1>6 DEF Handled

LEMMA StepFailsHandles ==
  ASSUME SnapshotCore, NEW a \in D!Agents, D!StepFails(a)
  PROVE  Handled
<1>1. /\ UNCHANGED <<session, digests, stored, payload>>
      /\ today' \in D!Days /\ due' \in BOOLEAN /\ up' \in BOOLEAN /\ faults' \in 0 .. MaxFaults
  BY Types, Sizes DEF D!StepFails, D!Fault
<1>2. /\ outbox' \in [D!Days -> OutboxStates]
      /\ \A e \in D!Days \ stored : outbox'[e] = outbox[e]
  <2>1. agent[a].day \in stored
    BY Winner DEF D!StepFails
  <2>2. outbox' = outbox \/ outbox' = [outbox EXCEPT ![agent[a].day] = "pending"]
    BY DEF D!StepFails, D!Failed
  <2> QED
    BY <2>1, <2>2, Types DEF OutboxStates
<1>3. /\ uploaded' \in [D!Days -> D!Received]
      /\ \A e \in D!Days : uploaded'[e] \in {uploaded[e], "snapshot"}
  BY Types DEF D!StepFails
<1>4. AgentsMove
  BY IdleIsSound, OneAgentMoves DEF D!StepFails, D!Failed, D!Finish
<1>5. /\ temps' \subseteq (D!Agents \cup {"orphan"}) \X D!Days \X D!Views
      /\ \A t \in temps' : t[2] \in stored /\ t[3] = digests[t[2]]
  BY Types, Winner DEF D!StepFails
<1>6. /\ files' \subseteq D!Days \X D!Views \X D!Contents
      /\ \A f \in files' : f[1] \in stored /\ f[2] = digests[f[1]]
      /\ \A f, g \in files' : f[1] = g[1] /\ f[2] = g[2] => f = g
  BY Types, Winner DEF D!StepFails
<1> QED
  BY <1>1, <1>2, <1>3, <1>4, <1>5, <1>6 DEF Handled

LEMMA RetryHandles ==
  ASSUME SnapshotCore, D!RetryDead
  PROVE  Handled
<1>1. /\ UNCHANGED <<session, digests, stored, payload>>
      /\ today' \in D!Days /\ due' \in BOOLEAN /\ up' \in BOOLEAN /\ faults' \in 0 .. MaxFaults
  BY Types, Sizes DEF D!RetryDead, D!Fault
<1>2. /\ outbox' \in [D!Days -> OutboxStates]
      /\ \A e \in D!Days \ stored : outbox'[e] = outbox[e]
  BY Types, Winner DEF OutboxStates, D!RetryDead
<1>3. /\ uploaded' \in [D!Days -> D!Received]
      /\ \A e \in D!Days : uploaded'[e] \in {uploaded[e], "snapshot"}
  BY Types DEF D!RetryDead
<1>4. AgentsMove
  BY Types DEF AgentsMove, D!RetryDead
<1>5. /\ temps' \subseteq (D!Agents \cup {"orphan"}) \X D!Days \X D!Views
      /\ \A t \in temps' : t[2] \in stored /\ t[3] = digests[t[2]]
  BY Types, Winner DEF D!RetryDead
<1>6. /\ files' \subseteq D!Days \X D!Views \X D!Contents
      /\ \A f \in files' : f[1] \in stored /\ f[2] = digests[f[1]]
      /\ \A f, g \in files' : f[1] = g[1] /\ f[2] = g[2] => f = g
  BY Types, Winner DEF D!RetryDead
<1> QED
  BY <1>1, <1>2, <1>3, <1>4, <1>5, <1>6 DEF Handled

Moved(next) == next \in SessionRecord /\ next.summary <= next.revision /\ next.state # "none"

LEMMA SessionStep ==
  ASSUME SnapshotCore, NEW s \in Sessions, D!SessionMoves(s) \/ D!JobsRetry(s)
  PROVE  SnapshotCore' /\ Published
<1> DEFINE r == session[s]
<1>1. r \in SessionRecord /\ r.summary <= r.revision /\ (r.state = "none" => r.day = 0) /\ today \in 0 .. LastDay
  BY Types, Sizes DEF SnapshotCore, D!TypeOK, D!DayAtStart
<1>2. PICK next : session' = [session EXCEPT ![s] = next] /\ Moved(next)
  <2>1. r.state = "none" => Moved([r EXCEPT !.state = "ACTIVE", !.day = today])
    BY <1>1 DEF Moved, SessionRecord, D!Unfinished, D!Ended
  <2>2. \A x \in {"FAILED", "LOST", "FINALIZING", "PROCESSING", "DONE"} : Moved([r EXCEPT !.state = x])
    BY <1>1 DEF Moved, SessionRecord, D!Unfinished, D!Ended
  <2>3. LET n == IF r.revision = 0 THEN 1 ELSE r.revision IN
        \A m \in {r.summary, n} : Moved([r EXCEPT !.state = "DELIVERING", !.revision = n, !.summary = m])
    <3> DEFINE n == IF r.revision = 0 THEN 1 ELSE r.revision
    <3>1. n \in 0 .. MaxRevision /\ r.summary \in 0 .. MaxRevision /\ r.summary <= n
      BY <1>1, Sizes DEF SessionRecord
    <3> HIDE DEF n
    <3>2. \A m \in {r.summary, n} : Moved([r EXCEPT !.state = "DELIVERING", !.revision = n, !.summary = m])
      <4> SUFFICES ASSUME NEW m \in {r.summary, n}
                   PROVE  Moved([r EXCEPT !.state = "DELIVERING", !.revision = n, !.summary = m])
        OBVIOUS
      <4> DEFINE q == [r EXCEPT !.state = "DELIVERING", !.revision = n, !.summary = m]
      <4>1. m \in 0 .. MaxRevision /\ m <= n
        BY <3>1
      <4>2. "DELIVERING" \in D!Unfinished \cup D!Ended \cup {"none"}
        BY DEF D!Unfinished
      <4> QED
        <5>1. q \in SessionRecord
          BY <1>1, <3>1, <4>1, <4>2 DEF SessionRecord
        <5>2. q.summary = m /\ q.revision = n /\ q.state = "DELIVERING"
          BY <1>1 DEF SessionRecord
        <5> QED
          BY <4>1, <5>1, <5>2 DEF Moved
    <3> QED
      BY <3>2 DEF n
  <2>4. r.state = "DONE" /\ r.revision < MaxRevision => Moved([r EXCEPT !.revision = r.revision + 1])
    BY <1>1, Sizes DEF Moved, SessionRecord
  <2>5. r.state = "DONE" => Moved([r EXCEPT !.summary = r.revision])
    BY <1>1 DEF Moved, SessionRecord
  <2>6. r.state \in DOMAIN D!Follows => D!Follows[r.state] \in {"FINALIZING", "PROCESSING", "DONE"}
    BY DEF D!Follows
  <2>7. D!JobsRetry(s) => session' = [session EXCEPT ![s] = [r EXCEPT !.state = "PROCESSING"]]
    BY DEF D!JobsRetry
  <2> QED
    BY <2>1, <2>2, <2>3, <2>4, <2>5, <2>6, <2>7 DEF D!SessionMoves
<1>3. /\ UNCHANGED <<today, due, digests, stored, outbox, payload, files, temps, agent, up, uploaded>>
      /\ faults' \in 0 .. MaxFaults
  BY Types, Sizes DEF D!SessionMoves, D!JobsRetry
<1>4. session' \in [Sessions -> SessionRecord] /\ \A t \in Sessions : session'[t].summary <= session'[t].revision
  BY <1>2, Types DEF SnapshotCore, D!TypeOK, Moved
<1>5. D!TypeOK'
  BY <1>3, <1>4 DEF SnapshotCore, D!TypeOK, SessionRecord
<1>6. D!OnlyWinnerOnDisk' /\ D!UploadedIsSnapshot' /\ D!PairWritten' /\ D!WinnerInHand'
  BY <1>3 DEF SnapshotCore, D!OnlyWinnerOnDisk, D!UploadedIsSnapshot, D!PairWritten, D!WinnerInHand
<1>7. D!DayAtStart'
  BY <1>2 DEF SnapshotCore, D!DayAtStart, Moved
<1>8. Published
  BY <1>3 DEF Published
<1> QED
  BY <1>5, <1>6, <1>7, <1>8 DEF SnapshotCore

LEMMA SettledWhenCurrent ==
  ASSUME SnapshotCore, NEW d \in D!Days, D!UnfinishedOn(d) = {}
  PROVE  D!Settled(d)
<1>1. ASSUME NEW s \in Sessions, session[s].day = d
      PROVE  session[s].state \in D!Ended
  <2>1. session[s] \in SessionRecord
    BY Types
  <2>2. session[s].state \in D!Unfinished \cup D!Ended \cup {"none"}
    BY <2>1 DEF SessionRecord
  <2>3. session[s].state # "none"
    BY <1>1, Sizes DEF SnapshotCore, D!DayAtStart
  <2>4. session[s].state \notin D!Unfinished
    BY <1>1 DEF D!UnfinishedOn
  <2> QED
    BY <2>2, <2>3, <2>4
<1> QED
  BY <1>1 DEF D!Settled

LEMMA PublishStep ==
  ASSUME SnapshotCore, NEW b \in D!Builders, D!PublishDigestSnapshot(b)
  PROVE  SnapshotCore' /\ Published
<1>1. b \in D!Agents /\ agent[b].stage = "publish" /\ agent[b].day \in D!Days
  BY Sizes DEF SnapshotCore, D!WinnerInHand, D!PublishDigestSnapshot
<1>2. PICK d \in D!Days : d = agent[b].day
  BY <1>1
<1>3. agent[b].view \in D!Views
  BY <1>1, Types DEF Activity
<1>4. PICK view \in D!Views : view = agent[b].view
  BY <1>3
<1>5. UNCHANGED <<today, due, session, files, temps, up, uploaded, faults>>
  BY DEF D!PublishDigestSnapshot
<1>6. ASSUME UNCHANGED <<digests, stored, outbox, payload>>, AgentsMove
      PROVE  SnapshotCore' /\ Published
  <2>1. Handled
    BY <1>5, <1>6, Types, Winner DEF Handled
  <2> QED
    BY <2>1, HandledKeeps
<1>7. CASE /\ d \notin stored /\ D!UnfinishedOn(d) = {} /\ view = D!Facts(d)
           /\ stored' = stored \cup {d} /\ digests' = [digests EXCEPT ![d] = view]
           /\ outbox' = [outbox EXCEPT ![d] = "pending"] /\ payload' = [payload EXCEPT ![d] = view]
           /\ agent' = [agent EXCEPT ![b] = [stage |-> "verify", day |-> d, view |-> view]]
  <2>1. /\ stored' = stored \cup {d} /\ digests' = [digests EXCEPT ![d] = view]
        /\ payload' = [payload EXCEPT ![d] = view] /\ outbox' = [outbox EXCEPT ![d] = "pending"]
        /\ view = D!Facts(d) /\ D!Settled(d)
    BY <1>7, SettledWhenCurrent
  <2>2. [stage |-> "verify", day |-> d, view |-> view] \in Activity
    BY Sizes DEF Activity, D!Stages
  <2>3. PICK next \in Activity : next = [stage |-> "verify", day |-> d, view |-> view]
    BY <2>2
  <2>4. agent' = [agent EXCEPT ![b] = next] /\ next.day = d /\ next.view = view
    BY <1>7, <2>3
  <2>5. /\ agent' \in [D!Agents -> Activity] /\ stored' \subseteq D!Days
        /\ digests' \in [D!Days -> D!Views] /\ payload' \in [D!Days -> D!Views]
        /\ outbox' \in [D!Days -> OutboxStates]
    BY <2>1, <2>4, Types DEF OutboxStates
  <2>6. D!TypeOK'
    BY <1>5, <2>5 DEF SnapshotCore, D!TypeOK, Activity, OutboxStates
  <2>7. \A e \in stored : e # d /\ digests'[e] = digests[e] /\ payload'[e] = payload[e]
    BY <1>7, <2>1
  <2>8. D!OnlyWinnerOnDisk'
    <3>1. \A f \in files \cup {<<t[2], t[3], "right">> : t \in temps} : f[1] \in stored /\ f[2] = digests[f[1]]
      BY DEF SnapshotCore, D!OnlyWinnerOnDisk
    <3> QED
      BY <1>5, <2>1, <2>7, <3>1 DEF D!OnlyWinnerOnDisk
  <2>9. D!UploadedIsSnapshot' /\ D!DayAtStart'
    BY <1>5 DEF SnapshotCore, D!UploadedIsSnapshot, D!DayAtStart
  <2>10. D!PairWritten'
    BY <2>1 DEF SnapshotCore, D!PairWritten
  <2>11. D!WinnerInHand'
    <3>1. ASSUME NEW a \in D!Agents, agent'[a].stage # "idle"
          PROVE  /\ agent'[a].day \in D!Days
                 /\ agent'[a].stage \notin {"build", "publish"} =>
                      agent'[a].day \in stored' /\ agent'[a].view = payload'[agent'[a].day]
      <4>1. CASE a = b
        BY <1>1, <2>1, <2>4, <4>1, Types
      <4>2. CASE a # b
        <5>1. agent'[a] = agent[a]
          BY <2>4, <4>2
        <5> QED
          BY <2>1, <2>7, <3>1, <5>1 DEF SnapshotCore, D!WinnerInHand
      <4> QED
        BY <4>1, <4>2
    <3> QED
      BY <3>1 DEF D!WinnerInHand
  <2>12. Published
    BY <2>1, <2>7, Types DEF Published
  <2> QED
    BY <2>6, <2>8, <2>9, <2>10, <2>11, <2>12 DEF SnapshotCore
<1>8. CASE agent[b].day \in stored
  <2>1. /\ UNCHANGED <<digests, stored, outbox, payload>>
        /\ agent' = [agent EXCEPT ![b] = [stage |-> "verify", day |-> d, view |-> payload[d]]]
    BY <1>2, <1>8 DEF D!PublishDigestSnapshot, D!Goto
  <2>2. PICK next \in Activity : next = [stage |-> "verify", day |-> d, view |-> payload[d]]
    BY Types, Sizes DEF Activity, D!Stages
  <2>3. AgentsMove
    BY <1>1, <1>2, <1>8, <2>1, <2>2, OneAgentMoves DEF Sound
  <2> QED
    BY <1>6, <2>1, <2>3
<1>9. CASE agent[b].day \notin stored /\ ~D!StillCurrent(agent[b].day, agent[b].view)
  <2>1. UNCHANGED <<digests, stored, outbox, payload>> /\ agent' = [agent EXCEPT ![b] = D!Idle]
    BY <1>9 DEF D!PublishDigestSnapshot, D!Finish
  <2>2. AgentsMove
    BY <1>1, <2>1, IdleIsSound, OneAgentMoves
  <2> QED
    BY <1>6, <2>1, <2>2
<1>10. CASE agent[b].day \notin stored /\ D!StillCurrent(agent[b].day, agent[b].view)
  <2>1. /\ stored' = stored \cup {d} /\ digests' = [digests EXCEPT ![d] = view]
        /\ outbox' = [outbox EXCEPT ![d] = "pending"] /\ payload' = [payload EXCEPT ![d] = view]
        /\ agent' = [agent EXCEPT ![b] = [stage |-> "verify", day |-> d, view |-> view]]
    BY <1>2, <1>4, <1>10 DEF D!PublishDigestSnapshot, D!Insert, D!Goto
  <2>2. d \notin stored /\ D!UnfinishedOn(d) = {} /\ view = D!Facts(d)
    BY <1>2, <1>4, <1>10 DEF D!StillCurrent
  <2> QED
    BY <1>7, <2>1, <2>2
<1> QED
  BY <1>8, <1>9, <1>10

LEMMA SnapshotStep ==
  ASSUME SnapshotCore, D!Next
  PROVE  SnapshotCore' /\ Published
<1>1. CASE D!Tick \/ D!HourRepeats
  BY <1>1, ClockHandles, HandledKeeps
<1>2. CASE \E s \in Sessions : D!SessionMoves(s) \/ D!JobsRetry(s)
  BY <1>2, SessionStep
<1>3. CASE \E b \in D!Builders : D!Builds(b)
  BY <1>3, BeginHandles, BuildHandles, PublishStep, HandledKeeps DEF D!Builds
<1>4. CASE \E a \in D!Agents : D!Ensures(a) \/ D!StepFails(a)
  BY <1>4, VerifyHandles, WriteHandles, LinkHandles, StepFailsHandles, HandledKeeps DEF D!Ensures
<1>5. CASE D!ClaimDigest \/ D!SendPayload
  BY <1>5, ClaimHandles, SendHandles, HandledKeeps
<1>6. CASE D!Crash
  <2>1. \A A \in {{"daemon", "outbox"}, {"launchd"}, {"command"}} : A \in SUBSET D!Agents
    BY DEF D!Agents, D!Builders
  <2> QED
    BY <1>6, <2>1, CrashHandles, HandledKeeps DEF D!Crash
<1>7. CASE D!CleanupDurableDigestTemps \/ D!FileChanges \/ D!RetryDead
  BY <1>7, CleanupHandles, FileChangesHandles, RetryHandles, HandledKeeps
<1> QED
  BY <1>1, <1>2, <1>3, <1>4, <1>5, <1>6, <1>7 DEF D!Next

LEMMA SnapshotStays == SnapshotCore /\ UNCHANGED dvars => SnapshotCore' /\ Published
BY DEF dvars, SnapshotCore, D!TypeOK, D!OnlyWinnerOnDisk, D!UploadedIsSnapshot, D!PairWritten, D!WinnerInHand,
   D!DayAtStart, Published

LEMMA SnapshotStarts == D!Init => SnapshotCore
<1> SUFFICES ASSUME D!Init PROVE SnapshotCore
  OBVIOUS
<1>1. D!Idle \in Activity
  BY IdleIsSound
<1>2. D!TypeOK
  <2>1. session \in [Sessions -> SessionRecord] /\ \A s \in Sessions : session[s].summary <= session[s].revision
    BY Sizes DEF D!Init, SessionRecord
  <2>2. /\ agent \in [D!Agents -> Activity] /\ outbox \in [D!Days -> OutboxStates]
        /\ digests \in [D!Days -> D!Views] /\ payload \in [D!Days -> D!Views]
        /\ uploaded \in [D!Days -> D!Received]
    BY <1>1, Sizes DEF D!Init, D!Received, OutboxStates
  <2>3. today \in D!Days /\ faults \in 0 .. MaxFaults
    BY Sizes DEF D!Init
  <2>4. due \in BOOLEAN /\ up \in BOOLEAN
    BY DEF D!Init
  <2> QED
    BY <2>1, <2>2, <2>3, <2>4 DEF D!Init, D!TypeOK, SessionRecord, Activity
<1>3. D!OnlyWinnerOnDisk /\ D!UploadedIsSnapshot /\ D!PairWritten /\ D!DayAtStart
  BY DEF D!Init, D!OnlyWinnerOnDisk, D!UploadedIsSnapshot, D!PairWritten, D!DayAtStart
<1>4. D!WinnerInHand
  BY DEF D!Init, D!WinnerInHand, D!Idle
<1> QED
  BY <1>2, <1>3, <1>4 DEF SnapshotCore

\* MCSpec runs one half and leaves the other where it began.
BothCore == (half = "boundary" => IInv) /\ SnapshotCore

LEMMA BothStart == MCInit => BothCore
BY InitIInv, SnapshotStarts DEF MCInit, BothCore

LEMMA BothStep ==
  ASSUME BothCore, [MCNext]_<<half, vars, dvars>>
  PROVE  BothCore' /\ Published
<1>1. CASE half = "boundary" /\ Next /\ UNCHANGED <<half, dvars>>
  <2>1. IInv'
    BY <1>1, SearchIInv, FinishIInv DEF BothCore, Next
  <2> QED
    BY <1>1, <2>1, SnapshotStays DEF BothCore
<1>2. CASE half = "snapshot" /\ D!Next /\ UNCHANGED <<half, vars>>
  BY <1>2, SnapshotStep DEF BothCore
<1>3. CASE UNCHANGED <<half, vars, dvars>>
  <2>1. IInv => IInv'
    BY <1>3 DEF vars, IInv, TypeOK, Bracketed, Closed, Answered
  <2> QED
    BY <1>3, <2>1, SnapshotStays DEF BothCore
<1> QED
  BY <1>1, <1>2, <1>3 DEF MCNext

\* The winner's snapshot is the only one: every document and temporary file is the one the
\* stored digest of its day names, and what Telegram received is that snapshot
\* (publishDigestSnapshot, ensureDigestDeliveryArtifact).
THEOREM DigestInvariant == MCSpec => []DigestInv
<1>1. BothCore => DigestInv
  BY DEF BothCore, SnapshotCore, IInv, DigestInv
<1>2. BothCore /\ [MCNext]_<<half, vars, dvars>> => BothCore'
  BY BothStep
<1> QED
  BY <1>1, <1>2, BothStart, PTL DEF MCSpec

\* The rows of a digest are written once, with every session of the day settled, and are
\* then exactly the finished ones (digestSnapshotStillCurrent, storeDigest).
THEOREM SnapshotWrittenOnce == MCSpec => SnapshotIsComplete
<1>1. BothCore /\ [MCNext]_<<half, vars, dvars>> => BothCore' /\ [Published]_(D!vars)
  BY BothStep
<1>2. MCSpec => [][Published]_(D!vars)
  BY <1>1, BothStart, PTL DEF MCSpec
<1>3. [Published]_(D!vars) =>
        [\A d \in D!Days :
           (d \in stored' /\ d \notin stored => D!Settled(d) /\ digests'[d] = D!Facts(d))
           /\ (d \in stored => d \in stored' /\ digests'[d] = digests[d])]_(D!vars)
  BY DEF Published
<1> QED
  BY <1>2, <1>3, PTL DEF SnapshotIsComplete, D!SnapshotIsComplete

-----------------------------------------------------------------------------
(* The alerts *)

LEMMA AlertSettings ==
  /\ \A play \in Plays : play = H!Recording \/ \E al \in H!AlertIds \ H!Recording : play = {al}
  /\ Debounce \in Nat /\ Cooldown \in Nat /\ Stale \in Nat /\ MaxChanges \in Nat /\ MaxFailures \in Nat
  /\ FirstFrame \in Nat /\ FirstFrame > 0 /\ Stall \in Nat /\ Stall > 0
  /\ H!Oldest \in Nat /\ Debounce <= H!Oldest /\ Cooldown <= H!Oldest
BY AlertsAssumed DEF H!AlertAssumption, H!Oldest

\* The module of the alerts counts sets like this one
LEMMA SizeIsSize == \A S : H!Cardinality(S) = Cardinality(S)
BY DEF H!Cardinality, Cardinality

\* The rows at some positions of the queue, in their order: each is the row of one of these
\* positions, none comes before what preceded it, the first stays first and the last last.
LEMMA RowsAre ==
  ASSUME NEW T, queue \in Seq(T), NEW kept \in SUBSET DOMAIN queue
  PROVE  /\ H!Rows(kept) \in Seq(T)
         /\ \A m \in DOMAIN H!Rows(kept) :
              \E i \in kept : H!Rows(kept)[m] = queue[i] /\ m <= i /\ (i = 1 => m = 1)
         /\ kept = {} => H!Rows(kept) = <<>>
         /\ Len(queue) \in kept =>
              H!Rows(kept) # <<>> /\ H!Rows(kept)[Len(H!Rows(kept))] = queue[Len(queue)]
         /\ \A m \in DOMAIN H!Rows(kept) :
              \E i \in kept :
                 /\ H!Rows(kept)[m] = queue[i]
                 /\ \A j \in kept : i < j => \E n \in DOMAIN H!Rows(kept) : m < n /\ H!Rows(kept)[n] = queue[j]
         /\ \A j \in kept : \E n \in DOMAIN H!Rows(kept) : H!Rows(kept)[n] = queue[j]
<1> DEFINE size == Cardinality(kept)
           upto(i) == {j \in kept : j <= i}
           rank == [i \in kept |-> Cardinality(upto(i))]
           at(m) == CHOOSE i \in kept : Cardinality({j \in kept : j <= i}) = m
<1>1. Len(queue) \in Nat /\ DOMAIN queue = 1 .. Len(queue) /\ kept \subseteq 1 .. Len(queue)
  OBVIOUS
<1>2. IsFiniteSet(kept) /\ size \in Nat
  <2>1. IsFiniteSet(1 .. Len(queue))
    BY <1>1, FS_Interval
  <2>2. IsFiniteSet(kept)
    BY <1>1, <2>1, FS_Subset
  <2> QED
    BY <2>2, FS_CardinalityType
<1>3. \A i \in kept : IsFiniteSet(upto(i)) /\ rank[i] \in 1 .. size
  <2> TAKE i \in kept
  <2>1. upto(i) \in SUBSET kept /\ i \in upto(i)
    BY <1>1
  <2>2. IsFiniteSet(upto(i)) /\ Cardinality(upto(i)) <= size /\ Cardinality(upto(i)) \in Nat
    <3> HIDE DEF upto
    <3> QED BY <1>2, <2>1, FS_Subset, FS_CardinalityType
  <2>3. Cardinality(upto(i)) # 0
    <3> HIDE DEF upto
    <3> QED BY <2>1, <2>2, FS_EmptySet
  <2>4. rank[i] = Cardinality(upto(i))
    OBVIOUS
  <2> QED
    <3> HIDE DEF upto, rank
    <3> QED BY <1>2, <2>2, <2>3, <2>4
<1>4. \A i, j \in kept : i < j => rank[i] < rank[j]
  <2> TAKE i, j \in kept
  <2> HAVE i < j
  <2>1. upto(i) \in SUBSET upto(j) /\ j \in upto(j) /\ j \notin upto(i)
    BY <1>1
  <2>2. Cardinality(upto(i)) <= Cardinality(upto(j)) /\ Cardinality(upto(i)) # Cardinality(upto(j))
    <3>1. IsFiniteSet(upto(j))
      BY <1>3
    <3> HIDE DEF upto
    <3> QED BY <2>1, <3>1, FS_Subset
  <2>3. rank[i] = Cardinality(upto(i)) /\ rank[j] = Cardinality(upto(j))
    OBVIOUS
  <2>4. rank[i] \in 1 .. size /\ rank[j] \in 1 .. size
    BY <1>3
  <2> HIDE DEF upto, rank
  <2> QED
    BY <1>2, <2>2, <2>3, <2>4
<1>5. \A i, j \in kept : rank[i] = rank[j] => i = j
  <2> SUFFICES ASSUME NEW i \in kept, NEW j \in kept, rank[i] = rank[j], i # j PROVE FALSE
    OBVIOUS
  <2>1. i < j \/ j < i
    BY <1>1
  <2>2. rank[i] < rank[j] \/ rank[j] < rank[i]
    <3> HIDE DEF rank
    <3> QED BY <1>4, <2>1
  <2>3. rank[i] \in Nat /\ rank[j] \in Nat
    <3>1. rank[i] \in 1 .. size /\ rank[j] \in 1 .. size
      BY <1>3
    <3> HIDE DEF rank, size
    <3> QED BY <1>2, <3>1
  <2> HIDE DEF rank
  <2> QED BY <2>2, <2>3
<1>6. \A m \in 1 .. size : \E i \in kept : rank[i] = m
  <2>1. rank \in Injection(kept, 1 .. size)
    <3>1. rank \in [kept -> 1 .. size]
      <4>1. rank = [i \in kept |-> rank[i]]
        OBVIOUS
      <4> HIDE DEF rank
      <4> QED BY <1>3, <4>1
    <3> HIDE DEF rank
    <3> QED BY <1>5, <3>1 DEF Injection, IsInjective
  <2>2. IsFiniteSet(1 .. size) /\ Cardinality(1 .. size) = size
    BY <1>2, FS_Interval
  <2>3. rank \in Surjection(kept, 1 .. size)
    <3> HIDE DEF rank
    <3> QED BY <2>1, <2>2, FS_Injection
  <2> QED
    <3> HIDE DEF rank
    <3> QED BY <2>3 DEF Surjection
<1>7. \A m \in 1 .. size : at(m) \in kept /\ rank[at(m)] = m
  <2> TAKE m \in 1 .. size
  <2>1. \E i \in kept : Cardinality({j \in kept : j <= i}) = m
    BY <1>6
  <2>2. at(m) \in kept /\ Cardinality({j \in kept : j <= at(m)}) = m
    BY <2>1
  <2> QED
    BY <2>2
<1>8. H!Rows(kept) = [m \in 1 .. size |-> queue[at(m)]]
  BY DEF H!Rows, H!Cardinality, Cardinality
<1> HIDE DEF rank, at, size
<1>9. \A m \in 1 .. size : m <= at(m) /\ (at(m) = 1 => m = 1)
  <2> TAKE m \in 1 .. size
  <2>1. at(m) \in kept /\ rank[at(m)] = m
    BY <1>7
  <2>2. upto(at(m)) \in SUBSET (1 .. at(m))
    BY <1>1
  <2>3. IsFiniteSet(1 .. at(m)) /\ Cardinality(1 .. at(m)) = at(m)
    BY <1>1, <2>1, FS_Interval
  <2>4. Cardinality(upto(at(m))) <= at(m)
    <3> HIDE DEF upto
    <3> QED BY <2>2, <2>3, FS_Subset
  <2>5. Cardinality(upto(at(m))) = m
    BY <2>1 DEF rank
  <2>6. m \in Nat /\ m >= 1 /\ at(m) \in Nat
    BY <1>1, <1>2, <2>1
  <2>7. m <= at(m)
    BY <2>4, <2>5
  <2> QED
    BY <2>6, <2>7
<1>10. \A m \in 1 .. size : queue[at(m)] \in T
  BY <1>1, <1>7
<1>11. H!Rows(kept) \in Seq(T) /\ DOMAIN H!Rows(kept) = 1 .. size /\ Len(H!Rows(kept)) = size
  <2>1. H!Rows(kept) \in [1 .. size -> T]
    BY <1>8, <1>10
  <2> QED
    BY <1>2, <2>1, <1>8
<1>12. ASSUME kept = {} PROVE H!Rows(kept) = <<>>
  <2>1. size = 0
    BY <1>12, FS_EmptySet DEF size
  <2> QED
    BY <1>11, <2>1
<1>13. ASSUME Len(queue) \in kept
       PROVE  H!Rows(kept) # <<>> /\ H!Rows(kept)[Len(H!Rows(kept))] = queue[Len(queue)]
  <2>1. rank[Len(queue)] \in 1 .. size
    BY <1>3, <1>13
  <2>2. size \in 1 .. size
    BY <1>2, <2>1
  <2>3. at(size) \in kept /\ rank[at(size)] = size
    BY <1>7, <2>2
  <2>4. ~ (at(size) < Len(queue))
    BY <1>2, <1>4, <1>13, <2>1, <2>3
  <2>5. at(size) = Len(queue)
    BY <1>1, <2>3, <2>4
  <2> QED
    BY <1>8, <1>11, <2>2, <2>5
<1>14. \A m \in DOMAIN H!Rows(kept) :
         \E i \in kept : H!Rows(kept)[m] = queue[i] /\ m <= i /\ (i = 1 => m = 1)
  <2> TAKE m \in DOMAIN H!Rows(kept)
  <2>1. m \in 1 .. size
    BY <1>11
  <2>2. at(m) \in kept /\ H!Rows(kept)[m] = queue[at(m)] /\ m <= at(m) /\ (at(m) = 1 => m = 1)
    BY <1>7, <1>8, <1>9, <2>1
  <2> QED
    BY <2>2
<1>15. \A j \in kept : rank[j] \in DOMAIN H!Rows(kept) /\ H!Rows(kept)[rank[j]] = queue[j]
  <2> TAKE j \in kept
  <2>1. rank[j] \in 1 .. size
    BY <1>3
  <2>2. at(rank[j]) \in kept /\ rank[at(rank[j])] = rank[j]
    BY <1>7, <2>1
  <2>3. at(rank[j]) = j
    BY <1>5, <2>2
  <2> QED
    BY <1>8, <1>11, <2>1, <2>3
<1>16. \A m \in DOMAIN H!Rows(kept) :
         \E i \in kept :
            /\ H!Rows(kept)[m] = queue[i]
            /\ \A j \in kept : i < j => \E n \in DOMAIN H!Rows(kept) : m < n /\ H!Rows(kept)[n] = queue[j]
  <2> TAKE m \in DOMAIN H!Rows(kept)
  <2>1. m \in 1 .. size
    BY <1>11
  <2>2. at(m) \in kept /\ H!Rows(kept)[m] = queue[at(m)] /\ rank[at(m)] = m
    BY <1>7, <1>8, <2>1
  <2>3. \A j \in kept : at(m) < j => m < rank[j]
    BY <1>4, <2>2
  <2> QED
    BY <1>15, <2>2, <2>3
<1>17. \A j \in kept : \E n \in DOMAIN H!Rows(kept) : H!Rows(kept)[n] = queue[j]
  BY <1>15
<1> QED
  BY <1>11, <1>12, <1>13, <1>14, <1>16, <1>17

\* The rows of the two tables, and the entries of the evaluator
States == [known : BOOLEAN, active : BOOLEAN, fp : H!Seen, age : 0 .. H!Oldest]
Waits == [on : BOOLEAN, active : BOOLEAN, age : 0 .. H!Oldest]
Messages == [alert : H!AlertIds, shows : H!Shown, notice : BOOLEAN,
             state : {"pending", "sending", "left"}]

LEMMA StateIs ==
  ASSUME H!TypeOK, NEW al \in H!AlertIds
  PROVE  /\ row[al] \in States /\ pending[al] \in Waits
         /\ row[al].known \in BOOLEAN /\ row[al].active \in BOOLEAN /\ row[al].fp \in H!Seen
         /\ row[al].age \in 0 .. H!Oldest
         /\ pending[al].on \in BOOLEAN /\ pending[al].active \in BOOLEAN
         /\ pending[al].age \in 0 .. H!Oldest
         /\ (row[al].fp = "ok" <=> ~row[al].active)
BY DEF H!TypeOK, States, Waits

\* What evaluate makes of one observation, without the debounce
LEMMA DecideIs ==
  ASSUME H!TypeOK, NEW al \in H!AlertIds, NEW s \in H!Seen, NEW o, o = H!Decide(al, s)
  PROVE  /\ o.row \in States /\ (o.row.fp = "ok" <=> ~o.row.active) /\ o.row.active \in BOOLEAN
         /\ o.pending = H!Settled
         /\ o.transition \in {"none", "raised", "cleared", "repeated", "changed"}
         /\ (o.row.active <=> s # "ok")
         /\ ~(o.row.active <=> row[al].active) => o.transition \in {"raised", "cleared"} /\ o.row.fp = s
         /\ o.transition = "none" => o.row.fp = row[al].fp
         /\ o.row.fp \in {s, row[al].fp}
         /\ o.transition # "none" /\ al \in H!Fingerprinted => o.row.fp = s
         /\ o.transition = "cleared" <=> s = "ok" /\ row[al].active
         /\ s = "ok" /\ ~row[al].active => o.transition = "none"
         /\ o.row.age < row[al].age =>
              ~(o.row.active <=> row[al].active) \/ al \in H!Fingerprinted \/ row[al].age >= Cooldown
<1>1. /\ row[al] \in States /\ row[al].known \in BOOLEAN /\ row[al].active \in BOOLEAN
      /\ row[al].fp \in H!Seen /\ row[al].age \in 0 .. H!Oldest
      /\ (row[al].fp = "ok" <=> ~row[al].active)
  BY StateIs
<1>2. H!Oldest \in Nat /\ Cooldown \in Nat
  BY AlertSettings
<1>3. CASE ~(row[al].active <=> s # "ok")
  <2>1. o = H!Outcome(H!Raised(al, s), H!Settled, IF s # "ok" THEN "raised" ELSE "cleared")
    BY <1>3 DEF H!Decide
  <2>2. /\ o.row = [known |-> TRUE, active |-> s # "ok", fp |-> s, age |-> 0] /\ o.pending = H!Settled
        /\ o.transition = IF s # "ok" THEN "raised" ELSE "cleared"
    BY <2>1 DEF H!Outcome, H!Raised
  <2>3. o.row \in States
    BY <1>2, <2>2 DEF States
  <2>4. o.row.fp = s /\ o.row.active = (s # "ok") /\ o.row.active \in BOOLEAN
    BY <2>2
  <2>5. o.row.active <=> s # "ok"
    BY <2>4
  <2> HIDE DEF States
  <2> QED
    BY <1>1, <1>3, <2>2, <2>3, <2>4, <2>5
<1>4. CASE (row[al].active <=> s # "ok") /\ s = "ok"
  <2>0. row[al].active = FALSE
    BY <1>1, <1>4
  <2>1. o = H!Outcome([row[al] EXCEPT !.known = TRUE], H!Settled, "none")
    BY <1>4, <2>0 DEF H!Decide
  <2>2. /\ o.row = [row[al] EXCEPT !.known = TRUE] /\ o.pending = H!Settled /\ o.transition = "none"
    BY <2>1 DEF H!Outcome
  <2>3. o.row \in States /\ o.row.active = row[al].active /\ o.row.fp = row[al].fp
        /\ o.row.age = row[al].age
    BY <1>1, <2>2 DEF States
  <2> QED
    BY <1>1, <1>2, <1>4, <2>2, <2>3
<1>5. CASE (row[al].active <=> s # "ok") /\ s # "ok"
  <2>1. o = H!StillActive(al, s)
    BY <1>5 DEF H!Decide
  <2>2. CASE al \in H!Fingerprinted /\ row[al].fp # s
    <3>1. /\ o.row = [known |-> TRUE, active |-> s # "ok", fp |-> s, age |-> 0] /\ o.pending = H!Settled
          /\ o.transition = "changed"
      BY <2>1, <2>2 DEF H!StillActive, H!Outcome, H!Raised
    <3>2. o.row \in States
      BY <1>2, <3>1 DEF States
    <3> QED
      BY <1>1, <1>5, <2>2, <3>1, <3>2
  <2>3. CASE al \notin H!Fingerprinted /\ ~(row[al].age < Cooldown)
    <3>1. o.row = [row[al] EXCEPT !.age = 0] /\ o.pending = H!Settled /\ o.transition = "repeated"
      BY <2>1, <2>3 DEF H!StillActive, H!Outcome
    <3>2. o.row \in States /\ o.row.active = row[al].active /\ o.row.fp = row[al].fp
      BY <1>1, <1>2, <3>1 DEF States
    <3> QED
      BY <1>1, <1>2, <1>5, <2>3, <3>1, <3>2
  <2>4. CASE (al \in H!Fingerprinted /\ row[al].fp = s) \/ (al \notin H!Fingerprinted /\ row[al].age < Cooldown)
    <3>1. o.row = row[al] /\ o.pending = H!Settled /\ o.transition = "none"
      BY <2>1, <2>4 DEF H!StillActive, H!Outcome
    <3> QED
      BY <1>1, <1>2, <1>5, <3>1
  <2> QED
    BY <2>2, <2>3, <2>4
<1> QED
  BY <1>1, <1>3, <1>4, <1>5

\* The same behind the debounce: an observation counts at once, after a wait, or not yet.
LEMMA EvaluatedIs ==
  ASSUME H!TypeOK, NEW al \in H!AlertIds, NEW s \in H!Seen, NEW o, o = H!Evaluated(al, s)
  PROVE  \/ /\ o = H!Decide(al, s)
            /\ ~(row[al].active <=> s # "ok") /\ al # "capture_failed" =>
                 \/ Debounce = 0
                 \/ pending[al].on /\ (pending[al].active <=> s # "ok") /\ pending[al].age >= Debounce
         \/ /\ al # "capture_failed" /\ ~(row[al].active <=> s # "ok") /\ 0 < Debounce
            /\ o.row = row[al] /\ o.transition = "none"
            /\ o.pending \in Waits /\ o.pending.on /\ (o.pending.active <=> s # "ok")
            /\ \/ o.pending = pending[al]
               \/ o.pending.age = 0
<1>1. /\ pending[al] \in Waits /\ row[al].active \in BOOLEAN /\ pending[al].on \in BOOLEAN
      /\ pending[al].active \in BOOLEAN /\ pending[al].age \in 0 .. H!Oldest
  BY StateIs
<1>2. H!Oldest \in Nat /\ Debounce \in Nat
  BY AlertSettings
<1>3. CASE al = "capture_failed" \/ Debounce = 0 \/ (row[al].active <=> s # "ok")
  <2>0. (row[al].active <=> s # "ok") => row[al].active = (s # "ok")
    BY <1>1
  <2>1. o = H!Decide(al, s)
    BY <1>3, <2>0 DEF H!Evaluated
  <2> QED
    BY <1>1, <1>3, <2>1
<1>4. CASE ~(al = "capture_failed" \/ Debounce = 0 \/ (row[al].active <=> s # "ok"))
  <2> DEFINE wait == IF pending[al].on /\ pending[al].active = (s # "ok") THEN pending[al]
                     ELSE [on |-> TRUE, active |-> s # "ok", age |-> 0]
  <2>0. row[al].active # (s # "ok")
    BY <1>1, <1>4
  <2>1. o = IF wait.age < Debounce THEN H!Outcome(row[al], wait, "none") ELSE H!Decide(al, s)
    <3>1. H!Evaluated(al, s) = IF wait.age < Debounce THEN H!Outcome(row[al], wait, "none")
                                                      ELSE H!Decide(al, s)
      BY <1>1, <1>4, <2>0 DEF H!Evaluated
    <3> QED BY <3>1
  <2>2. CASE pending[al].on /\ (pending[al].active <=> s # "ok")
    <3>1. wait = pending[al]
      BY <1>1, <2>2
    <3> HIDE DEF wait
    <3>2. CASE wait.age < Debounce
      <4>1. o.row = row[al] /\ o.pending = pending[al] /\ o.transition = "none"
        BY <2>1, <3>1, <3>2 DEF H!Outcome
      <4> QED
        BY <1>1, <1>2, <1>4, <2>2, <4>1
    <3>3. CASE ~(wait.age < Debounce)
      BY <1>1, <1>2, <1>4, <2>1, <2>2, <3>1, <3>3
    <3> QED
      BY <3>2, <3>3
  <2>3. CASE ~(pending[al].on /\ (pending[al].active <=> s # "ok"))
    <3>1. wait = [on |-> TRUE, active |-> s # "ok", age |-> 0]
      BY <1>1, <2>3
    <3>2. wait \in Waits /\ wait.on /\ (wait.active <=> s # "ok") /\ wait.age = 0
      <4> HIDE DEF wait
      <4>1. wait.on = TRUE /\ wait.active = (s # "ok") /\ wait.age = 0
        BY <3>1
      <4>2. (s # "ok") \in BOOLEAN /\ 0 \in 0 .. H!Oldest
        BY <1>2
      <4>3. wait \in Waits
        BY <3>1, <4>2 DEF Waits
      <4> QED BY <4>1, <4>3
    <3> HIDE DEF wait
    <3>3. wait.age < Debounce
      BY <1>2, <1>4, <3>2
    <3>4. o.row = row[al] /\ o.pending = wait /\ o.transition = "none"
      BY <2>1, <3>3 DEF H!Outcome
    <3> QED
      BY <1>2, <1>4, <3>2, <3>4
  <2> QED
    BY <2>2, <2>3
<1> QED
  BY <1>3, <1>4

-----------------------------------------------------------------------------
(* The queue of the alerts *)

\* The inductive invariant.  All of ChatInv follows: a queue about one event is empty or
\* has a last row.
StatesOK ==
    /\ ids \in Plays /\ cond \in [H!AlertIds -> H!Seen \cup {"recovering"}]
    /\ row \in [H!AlertIds -> States]
    /\ \A al \in H!AlertIds : row[al].fp = "ok" <=> ~row[al].active
    /\ pending \in [H!AlertIds -> Waits]
    /\ steady \in [H!AlertIds -> [active : BOOLEAN, age : 0 .. H!Oldest]]
    /\ sample \in [H!AlertIds -> H!Seen \cup {"recovering", "none"}]
    /\ chat \in [H!Keys -> H!Shown \cup {"none"}] /\ dropped \subseteq H!Keys
    /\ frame \in 0 .. H!Never /\ age \in 0 .. FirstFrame
    /\ running \in BOOLEAN /\ broken \in BOOLEAN /\ alive \in BOOLEAN
    /\ (running => alive /\ ~broken) /\ (broken => alive)
    /\ changes \in 0 .. MaxChanges /\ failures \in 0 .. MaxFailures

QueueOK == queue \in Seq(Messages) /\ H!AboutThese /\ H!ClaimsInOrder /\ H!FewWait

Told ==
    \A al \in H!Plain :
        /\ queue # <<>> => queue[Len(queue)].shows = row[al].fp
        /\ queue = <<>> /\ al \notin dropped => chat[al] = row[al].fp \/ (chat[al] = "none" /\ row[al].fp = "ok")

Outage ==
    \A al \in ids \cap H!Local :
        chat[al] \in {"none", "ok"} /\ \A i \in DOMAIN queue : queue[i].shows = "ok"

AlertsCore == StatesOK /\ QueueOK /\ H!Sampled

LEMMA OneSending ==
  ASSUME NEW q, q \in Seq(Messages), \A i \in DOMAIN q : q[i].state = "sending" => i = 1
  PROVE  H!Cardinality({i \in DOMAIN q : q[i].state = "sending"}) <= 1
<1> DEFINE S == {i \in DOMAIN q : q[i].state = "sending"}
<1>1. S = {} \/ S = {1}
  OBVIOUS
<1>2. Cardinality(S) <= 1
  <2> HIDE DEF S
  <2>1. Cardinality({}) = 0 /\ Cardinality({1}) = 1
    <3>1. Cardinality({}) = 0
      BY FS_EmptySet
    <3>2. Cardinality({1}) = 1
      BY FS_Singleton
    <3> QED BY <3>1, <3>2
  <2>2. CASE S = {}
    BY <2>1, <2>2
  <2>3. CASE S = {1}
    BY <2>1, <2>3
  <2> QED BY <1>1, <2>2, <2>3
<1> QED
  BY <1>2, SizeIsSize

LEMMA TypesFollow == StatesOK /\ QueueOK => H!TypeOK
<1> SUFFICES ASSUME StatesOK, QueueOK PROVE H!TypeOK
  OBVIOUS
<1>1. H!Cardinality({i \in DOMAIN queue : queue[i].state = "sending"}) <= 1
  BY OneSending DEF QueueOK, H!ClaimsInOrder
<1>2. \A al \in H!AlertIds : (row[al].fp = "ok") = ~row[al].active
  BY DEF StatesOK, States
<1> QED
  BY <1>1, <1>2 DEF StatesOK, QueueOK, H!TypeOK, States, Waits, Messages

\* A behaviour is about one event
LEMMA OneEvent ==
  ASSUME StatesOK
  PROVE  /\ ids \subseteq H!AlertIds
         /\ ids = H!Recording \/ \E al \in H!AlertIds \ H!Recording : ids = {al}
         /\ \A al, other \in ids : H!Key(al) = H!Key(other)
         /\ \A al \in ids \ H!Recording : ids = {al} /\ H!Key(al) = al
<1>1. ids = H!Recording \/ \E al \in H!AlertIds \ H!Recording : ids = {al}
  BY AlertSettings DEF StatesOK
<1> QED
  BY <1>1 DEF H!AlertIds, H!Key, H!Recording

LEMMA Recordings ==
  /\ "capture_failed" \in H!Recording /\ "recorder_stale" \in H!Recording
  /\ H!Recording \subseteq H!AlertIds /\ H!Local \subseteq H!AlertIds
  /\ H!Fingerprinted \subseteq H!AlertIds /\ H!Local \cap H!Recording = {}
  /\ \A al \in H!Recording : H!Key(al) = "recording"
  /\ \A al \in H!AlertIds \ H!Recording : H!Key(al) = al
  /\ \A al \in H!AlertIds : H!Key(al) \in H!Keys
  /\ "recording" \in H!Keys
BY DEF H!Recording, H!AlertIds, H!Local, H!Fingerprinted, H!Key, H!Keys

\* What is left of the queue when rows are taken out
LeftOver(q) ==
    /\ q \in Seq(Messages)
    /\ \A m \in DOMAIN q : \E i \in DOMAIN queue : q[m] = queue[i] /\ m <= i /\ (i = 1 => m = 1)

\* A row that may join it
Joins(n) ==
    /\ n \in Messages /\ n.state = "pending" /\ n.alert \in ids
    /\ n.notice => ids = H!Recording /\ n.shows = "ok"

LEMMA Joined ==
  ASSUME NEW T, NEW q, q \in Seq(T), NEW n \in T
  PROVE  /\ Append(q, n) \in Seq(T) /\ Len(Append(q, n)) = Len(q) + 1
         /\ DOMAIN Append(q, n) = 1 .. Len(q) + 1 /\ Append(q, n)[Len(q) + 1] = n
         /\ \A m \in 1 .. Len(q) + 1 : (m \in DOMAIN q /\ Append(q, n)[m] = q[m]) \/ Append(q, n)[m] = n
OBVIOUS

\* Rows leave and one may join
LEMMA QueueKeeps ==
  ASSUME QueueOK, ids' = ids, alive' = alive, NEW q, LeftOver(q),
         \/ queue' = q
         \/ /\ ids # H!Recording => Len(q) <= 1
            /\ \E n : Joins(n) /\ queue' = Append(q, n)
  PROVE  QueueOK'
<1>1. queue \in Seq(Messages) /\ q \in Seq(Messages) /\ Len(q) \in Nat /\ DOMAIN q = 1 .. Len(q)
      /\ Len(queue) \in Nat /\ DOMAIN queue = 1 .. Len(queue)
  BY DEF QueueOK, LeftOver
<1>2. \A m \in DOMAIN q : /\ q[m].alert \in ids
                          /\ q[m].notice => ids = H!Recording /\ q[m].shows = "ok"
                          /\ q[m].state = "sending" => m = 1
                          /\ q[m].state = "left" => ~alive
  BY DEF QueueOK, LeftOver, H!AboutThese, H!ClaimsInOrder
<1>3. Len(q) <= Len(queue)
  BY <1>1 DEF LeftOver
<1>4. CASE queue' = q
  <2>1. H!AboutThese' /\ H!ClaimsInOrder'
    BY <1>2, <1>4 DEF H!AboutThese, H!ClaimsInOrder
  <2>2. H!FewWait'
    BY <1>1, <1>3, <1>4 DEF QueueOK, H!FewWait
  <2> QED
    BY <1>1, <1>4, <2>1, <2>2 DEF QueueOK
<1>5. ASSUME NEW n, Joins(n), queue' = Append(q, n), ids # H!Recording => Len(q) <= 1 PROVE QueueOK'
  <2>1. /\ n \in Messages /\ queue' \in Seq(Messages) /\ Len(queue') = Len(q) + 1
        /\ DOMAIN queue' = 1 .. Len(q) + 1
        /\ \A m \in DOMAIN queue' : (m \in DOMAIN q /\ queue'[m] = q[m]) \/ queue'[m] = n
    <3>1. n \in Messages
      BY <1>5 DEF Joins
    <3>2. queue' = Append(q, n) /\ q \in Seq(Messages)
      BY <1>1, <1>5
    <3>3. /\ Append(q, n) \in Seq(Messages) /\ Len(Append(q, n)) = Len(q) + 1
          /\ DOMAIN Append(q, n) = 1 .. Len(q) + 1
          /\ \A m \in 1 .. Len(q) + 1 : (m \in DOMAIN q /\ Append(q, n)[m] = q[m]) \/ Append(q, n)[m] = n
      BY <3>1, <3>2, Joined
    <3> QED
      BY <3>1, <3>2, <3>3
  <2>2. H!AboutThese'
    BY <1>2, <1>5, <2>1 DEF H!AboutThese, Joins
  <2>3. H!ClaimsInOrder'
    BY <1>2, <1>5, <2>1 DEF H!ClaimsInOrder, Joins
  <2>4. H!FewWait'
    <3>1. ids' # H!Recording => Len(q) <= 1
      BY <1>5
    <3>2. Len(queue') = Len(q) + 1
      BY <2>1
    <3> QED
      BY <1>1, <3>1, <3>2 DEF H!FewWait
  <2> QED
    BY <2>1, <2>2, <2>3, <2>4 DEF QueueOK
<1> QED
  BY <1>4, <1>5

LEMMA QueueItself == QueueOK => LeftOver(queue)
BY DEF QueueOK, LeftOver

\* Rows keep all but their state
LEMMA QueueRestated ==
  ASSUME QueueOK, ids' = ids, queue' \in Seq(Messages), Len(queue') = Len(queue),
         \A i \in DOMAIN queue :
            /\ queue'[i].alert = queue[i].alert /\ queue'[i].notice = queue[i].notice
            /\ queue'[i].shows = queue[i].shows
            /\ queue'[i].state = "sending" => i = 1
            /\ queue'[i].state = "left" => ~alive'
  PROVE  QueueOK'
<1>1. DOMAIN queue' = DOMAIN queue
  BY DEF QueueOK
<1> QED
  BY <1>1 DEF QueueOK, H!AboutThese, H!ClaimsInOrder, H!FewWait

\* What retiring leaves
LEMMA RetireIs ==
  ASSUME AlertsCore, alive, NEW al \in ids
  PROVE  LeftOver(H!RetirePending(al)) /\ (ids # H!Recording => Len(H!RetirePending(al)) <= 1)
<1> DEFINE kept == {i \in DOMAIN queue :
                      ~(queue[i].alert = al /\ ~queue[i].notice /\ queue[i].state = "pending")}
           q == H!RetirePending(al)
<1>1. queue \in Seq(Messages) /\ kept \in SUBSET DOMAIN queue
  BY DEF AlertsCore, QueueOK
<1>2. q = H!Rows(kept)
  BY DEF H!RetirePending
<1>3. /\ q \in Seq(Messages)
      /\ \A m \in DOMAIN q : \E i \in kept : q[m] = queue[i] /\ m <= i /\ (i = 1 => m = 1)
  <2> HIDE DEF kept, q
  <2> QED BY <1>1, <1>2, RowsAre
<1>4. LeftOver(q)
  BY <1>3 DEF LeftOver
<1>5. ASSUME ids # H!Recording PROVE Len(q) <= 1
  <2>1. ids = {al}
    BY <1>5, OneEvent DEF AlertsCore
  <2>2. \A i \in kept : i = 1
    <3> TAKE i \in kept
    <3>1. queue[i] \in Messages /\ queue[i].alert = al /\ ~queue[i].notice
      BY <1>1, <1>5, <2>1 DEF AlertsCore, QueueOK, H!AboutThese
    <3>2. queue[i].state # "pending" /\ queue[i].state # "left"
      BY <3>1 DEF AlertsCore, QueueOK, H!ClaimsInOrder
    <3>3. queue[i].state = "sending"
      BY <3>1, <3>2 DEF Messages
    <3> QED
      BY <3>3 DEF AlertsCore, QueueOK, H!ClaimsInOrder
  <2>3. \A m \in DOMAIN q : m = 1
    <3> HIDE DEF kept, q
    <3> QED BY <1>3, <2>2
  <2> HIDE DEF kept, q
  <2> QED
    BY <1>3, <2>3
<1> QED
  BY <1>4, <1>5

-----------------------------------------------------------------------------
(* The steps that leave the queue alone *)

AlertsInd == AlertsCore /\ Told /\ Outage /\ H!WaitsForEdge

LEMMA QueueSame == QueueOK /\ ids' = ids /\ queue' = queue /\ alive' = alive => QueueOK'
BY QueueItself, QueueKeeps

\* What the chat is told of depends on these alone
LEMMA ToldSame ==
  ASSUME Told, Outage, UNCHANGED <<ids, queue, chat, dropped>>,
         \A al \in H!Plain : row'[al].fp = row[al].fp
  PROVE  Told' /\ Outage'
BY DEF Told, Outage, H!Plain

LEMMA WaitsSame ==
  H!WaitsForEdge /\ UNCHANGED <<sample, steady, pending>> /\ (\A al \in H!AlertIds : row'[al].active = row[al].active)
     => H!WaitsForEdge'
BY DEF H!WaitsForEdge

LEMMA PlainAre == StatesOK => \A al \in H!Plain : al \in H!AlertIds /\ ids = {al} /\ al \notin H!Recording /\ al \notin H!Local
BY OneEvent DEF H!Plain

LEMMA HealthChangeKeeps == ASSUME AlertsInd, H!Change PROVE AlertsInd'
<1>1. PICK al \in ids \ H!Recording, s \in H!Seen \cup {"recovering"} :
        (s = "f2" => al \in H!Fingerprinted) /\ cond' = [cond EXCEPT ![al] = s]
  BY DEF H!Change
<1>2. /\ changes < MaxChanges /\ changes' = changes + 1
      /\ UNCHANGED <<ids, row, pending, steady, sample, queue, chat, dropped, frame, age, running, broken, alive, failures>>
  BY DEF H!Change, H!memory, H!source
<1>3. al \in H!AlertIds
  BY OneEvent DEF AlertsInd, AlertsCore
<1>4. StatesOK'
  <2>1. cond' \in [H!AlertIds -> H!Seen \cup {"recovering"}]
    BY <1>1, <1>3 DEF AlertsInd, AlertsCore, StatesOK
  <2>2. changes' \in 0 .. MaxChanges
    BY <1>2, AlertSettings DEF AlertsInd, AlertsCore, StatesOK
  <2> QED
    BY <1>2, <2>1, <2>2 DEF AlertsInd, AlertsCore, StatesOK
<1>5. H!Sampled'
  <2>1. \A other \in H!AlertIds \ H!Fingerprinted : cond'[other] # "f2"
    BY <1>1, <1>3 DEF AlertsInd, AlertsCore, StatesOK, H!Sampled
  <2> QED
    BY <1>2, <2>1 DEF AlertsInd, AlertsCore, H!Sampled
<1> QED
  BY <1>2, <1>4, <1>5, QueueSame, ToldSame, WaitsSame DEF AlertsInd, AlertsCore

LEMMA FrameKeeps == ASSUME AlertsInd, H!FrameArrives PROVE AlertsInd'
<1>1. /\ frame' = 0
      /\ UNCHANGED <<ids, cond, row, pending, steady, sample, queue, chat, dropped, age, running, broken, alive, changes, failures>>
  BY DEF H!FrameArrives, H!memory, H!bounds
<1>2. StatesOK'
  <2>1. frame' \in 0 .. H!Never
    BY <1>1, AlertSettings DEF H!Never
  <2> QED
    BY <1>1, <2>1 DEF AlertsInd, AlertsCore, StatesOK
<1>3. H!Sampled'
  BY <1>1 DEF AlertsInd, AlertsCore, H!Sampled
<1> QED
  BY <1>1, <1>2, <1>3, QueueSame, ToldSame, WaitsSame DEF AlertsInd, AlertsCore

\* What a check collects
LEMMA CollectIs ==
  ASSUME StatesOK, H!Sampled, H!Collect
  PROVE  /\ alive /\ \A al \in H!AlertIds : sample[al] = "none"
         /\ UNCHANGED <<ids, cond, row, pending, queue, chat, dropped, frame, age, running, broken, alive, changes, failures>>
         /\ sample' \in [H!AlertIds -> H!Seen \cup {"recovering", "none"}]
         /\ steady' \in [H!AlertIds -> [active : BOOLEAN, age : 0 .. H!Oldest]]
         /\ \A al \in H!AlertIds :
              /\ al \notin ids \ {"capture_failed"} => sample'[al] = "none"
              /\ al \in ids \ {"capture_failed"} => sample'[al] # "none"
              /\ al \notin H!Fingerprinted => sample'[al] # "f2"
              /\ al = "recorder_stale" /\ al \in ids => sample'[al] = H!StaleSeen
              /\ IF sample'[al] \in {"none", "recovering"} \/ steady[al].active = (sample'[al] # "ok")
                 THEN steady'[al] = steady[al]
                 ELSE steady'[al].active = (sample'[al] # "ok") /\ steady'[al].age = 0
<1>1. /\ alive /\ sample = H!NoSample
      /\ sample' = [al \in H!AlertIds |->
           IF al \notin ids \/ al = "capture_failed" THEN "none"
           ELSE IF al = "recorder_stale" THEN H!StaleSeen ELSE cond[al]]
      /\ steady' = [al \in H!AlertIds |->
           IF sample'[al] \in {"none", "recovering"} \/ steady[al].active = (sample'[al] # "ok") THEN steady[al]
           ELSE [active |-> sample'[al] # "ok", age |-> 0]]
      /\ UNCHANGED <<ids, cond, row, pending, queue, chat, dropped, frame, age, running, broken, alive, changes, failures>>
  BY DEF H!Collect, H!source, H!bounds
<1>2. \A al \in H!AlertIds : sample[al] = "none"
  BY <1>1 DEF H!NoSample
<1>3. H!StaleSeen \in {"ok", "f1"}
  BY DEF H!StaleSeen
<1>4. \A al \in H!AlertIds : cond[al] \in {"ok", "f1", "f2", "recovering"}
  BY DEF StatesOK, H!Seen, H!Faulty
<1>5. sample' \in [H!AlertIds -> H!Seen \cup {"recovering", "none"}]
  BY <1>1, <1>3, <1>4 DEF H!Seen, H!Faulty
<1>6. \A al \in H!AlertIds :
              /\ al \notin ids \ {"capture_failed"} => sample'[al] = "none"
              /\ al \in ids \ {"capture_failed"} => sample'[al] # "none"
              /\ al \notin H!Fingerprinted => sample'[al] # "f2"
              /\ al = "recorder_stale" /\ al \in ids => sample'[al] = H!StaleSeen
  BY <1>1, <1>3, <1>4 DEF H!Sampled
<1>7. \A al \in H!AlertIds :
         IF sample'[al] \in {"none", "recovering"} \/ steady[al].active = (sample'[al] # "ok")
         THEN steady'[al] = steady[al]
         ELSE steady'[al].active = (sample'[al] # "ok") /\ steady'[al].age = 0
  BY <1>1
<1>8. steady' \in [H!AlertIds -> [active : BOOLEAN, age : 0 .. H!Oldest]]
  <2>1. 0 \in 0 .. H!Oldest
    BY AlertSettings
  <2>2. \A al \in H!AlertIds : (sample'[al] # "ok") \in BOOLEAN
    OBVIOUS
  <2> QED
    BY <1>1, <2>1, <2>2 DEF StatesOK
<1> QED
  BY <1>1, <1>2, <1>5, <1>6, <1>7, <1>8

LEMMA CollectKeeps == ASSUME AlertsInd, H!Collect PROVE AlertsInd'
<1>1. /\ \A al \in H!AlertIds : sample[al] = "none"
      /\ UNCHANGED <<ids, cond, row, pending, queue, chat, dropped, frame, age, running, broken, alive, changes, failures>>
      /\ sample' \in [H!AlertIds -> H!Seen \cup {"recovering", "none"}]
      /\ steady' \in [H!AlertIds -> [active : BOOLEAN, age : 0 .. H!Oldest]]
      /\ \A al \in H!AlertIds :
              /\ al \notin ids \ {"capture_failed"} => sample'[al] = "none"
              /\ al \in ids \ {"capture_failed"} => sample'[al] # "none"
              /\ al \notin H!Fingerprinted => sample'[al] # "f2"
              /\ IF sample'[al] \in {"none", "recovering"} \/ steady[al].active = (sample'[al] # "ok")
                 THEN steady'[al] = steady[al]
                 ELSE steady'[al].active = (sample'[al] # "ok") /\ steady'[al].age = 0
  BY CollectIs DEF AlertsInd, AlertsCore
<1>2. StatesOK'
  BY <1>1 DEF AlertsInd, AlertsCore, StatesOK
<1>3. H!Sampled'
  <2>1. ids \subseteq H!AlertIds
    BY OneEvent DEF AlertsInd, AlertsCore
  <2> QED
    BY <1>1, <2>1 DEF AlertsInd, AlertsCore, H!Sampled
<1>4. H!WaitsForEdge'
  <2> SUFFICES ASSUME NEW al \in H!AlertIds
               PROVE  /\ sample'[al] \in H!Seen => steady'[al].active = (sample'[al] # "ok")
                      /\ pending[al].on =>
                           /\ al # "capture_failed" /\ pending[al].active # row[al].active
                           /\ sample'[al] \in {"none", "recovering"} => steady'[al].active = pending[al].active
                           /\ steady'[al].active = pending[al].active => pending[al].age <= steady'[al].age
    BY <1>1 DEF H!WaitsForEdge
  <2>1. pending[al].on => /\ al # "capture_failed" /\ pending[al].active # row[al].active /\ steady[al].active = pending[al].active
                          /\ pending[al].age <= steady[al].age
    BY <1>1 DEF AlertsInd, H!WaitsForEdge
  <2>2. "none" \notin H!Seen /\ "recovering" \notin H!Seen
    BY DEF H!Seen, H!Faulty
  <2>3. CASE sample'[al] \in {"none", "recovering"} \/ steady[al].active = (sample'[al] # "ok")
    <3>1. steady'[al] = steady[al]
      BY <1>1, <2>3
    <3> QED
      BY <2>1, <2>2, <2>3, <3>1
  <2>4. CASE ~(sample'[al] \in {"none", "recovering"} \/ steady[al].active = (sample'[al] # "ok"))
    <3>1. steady'[al].active = (sample'[al] # "ok") /\ steady[al].active # steady'[al].active
      BY <1>1, <2>4
    <3> QED
      BY <2>1, <2>2, <2>4, <3>1
  <2> QED
    BY <2>3, <2>4
<1> QED
  BY <1>1, <1>2, <1>3, <1>4, QueueSame, ToldSame DEF AlertsInd, AlertsCore

\* Time passes for the table, for what waits and for what is steady alike
LEMMA HealthTickKeeps == ASSUME AlertsInd, H!Tick PROVE AlertsInd'
<1>1. /\ ~H!TimedOut
      /\ row' = [al \in H!AlertIds |-> IF row[al].active /\ al \notin H!Fingerprinted
                                            THEN [row[al] EXCEPT !.age = H!Later(@)] ELSE row[al]]
      /\ pending' = [al \in H!AlertIds |->
                     IF pending[al].on THEN [pending[al] EXCEPT !.age = H!Later(@)] ELSE pending[al]]
      /\ steady' = [al \in H!AlertIds |-> [steady[al] EXCEPT !.age = H!Later(@)]]
      /\ frame' = IF ids = H!Recording /\ running /\ frame < Stall THEN frame + 1 ELSE frame
      /\ age' = IF ids = H!Recording /\ running /\ frame = H!Never THEN age + 1 ELSE age
      /\ UNCHANGED <<ids, cond, sample, queue, chat, dropped, running, broken, alive, changes, failures>>
  BY DEF H!Tick, H!bounds
<1>2. \A n \in 0 .. H!Oldest : H!Later(n) \in 0 .. H!Oldest /\ n <= H!Later(n)
  BY AlertSettings DEF H!Later
<1>3. \A m, n \in 0 .. H!Oldest : m <= n => H!Later(m) <= H!Later(n)
  BY AlertSettings DEF H!Later
<1>4. \A al \in H!AlertIds :
        /\ row[al] \in States /\ pending[al] \in Waits
        /\ steady[al] \in [active : BOOLEAN, age : 0 .. H!Oldest]
  BY DEF AlertsInd, AlertsCore, StatesOK
<1>5. \A al \in H!AlertIds :
        /\ row'[al] \in States /\ row'[al].active = row[al].active /\ row'[al].fp = row[al].fp
        /\ pending'[al] \in Waits /\ pending'[al].on = pending[al].on
        /\ pending'[al].active = pending[al].active
        /\ pending[al].on => pending'[al].age = H!Later(pending[al].age)
        /\ steady'[al] \in [active : BOOLEAN, age : 0 .. H!Oldest]
        /\ steady'[al].active = steady[al].active /\ steady'[al].age = H!Later(steady[al].age)
  <2> TAKE al \in H!AlertIds
  <2>1. row'[al] \in States /\ row'[al].active = row[al].active /\ row'[al].fp = row[al].fp
    BY <1>1, <1>2, <1>4 DEF States
  <2>2. /\ pending'[al] \in Waits /\ pending'[al].on = pending[al].on
        /\ pending'[al].active = pending[al].active
        /\ pending[al].on => pending'[al].age = H!Later(pending[al].age)
    BY <1>1, <1>2, <1>4 DEF Waits
  <2>3. /\ steady'[al] \in [active : BOOLEAN, age : 0 .. H!Oldest]
        /\ steady'[al].active = steady[al].active /\ steady'[al].age = H!Later(steady[al].age)
    BY <1>1, <1>2, <1>4
  <2> QED
    BY <2>1, <2>2, <2>3
<1>6. StatesOK'
  <2>1. row' \in [H!AlertIds -> States] /\ pending' \in [H!AlertIds -> Waits]
        /\ steady' \in [H!AlertIds -> [active : BOOLEAN, age : 0 .. H!Oldest]]
    BY <1>1, <1>5
  <2>2. frame' \in 0 .. H!Never
    BY <1>1, AlertSettings DEF AlertsInd, AlertsCore, StatesOK, H!Never
  <2>3. age' \in 0 .. FirstFrame
    <3>1. running /\ frame = H!Never => ~(age >= FirstFrame)
      BY <1>1 DEF H!TimedOut
    <3> QED
      BY <1>1, <3>1, AlertSettings DEF AlertsInd, AlertsCore, StatesOK
  <2>4. \A al \in H!AlertIds : row'[al].fp = "ok" <=> ~row'[al].active
    BY <1>5 DEF AlertsInd, AlertsCore, StatesOK
  <2>5. /\ ids' \in Plays /\ cond' \in [H!AlertIds -> H!Seen \cup {"recovering"}]
        /\ sample' \in [H!AlertIds -> H!Seen \cup {"recovering", "none"}]
        /\ chat' \in [H!Keys -> H!Shown \cup {"none"}] /\ dropped' \subseteq H!Keys
        /\ running' \in BOOLEAN /\ broken' \in BOOLEAN /\ alive' \in BOOLEAN
        /\ (running' => alive' /\ ~broken') /\ (broken' => alive')
        /\ changes' \in 0 .. MaxChanges /\ failures' \in 0 .. MaxFailures
    BY <1>1 DEF AlertsInd, AlertsCore, StatesOK
  <2> QED
    BY <2>1, <2>2, <2>3, <2>4, <2>5 DEF StatesOK
<1>7. H!Sampled'
  BY <1>1, <1>5 DEF AlertsInd, AlertsCore, H!Sampled
<1>8. H!WaitsForEdge'
  <2>1. \A al \in H!AlertIds : pending[al].age \in 0 .. H!Oldest /\ steady[al].age \in 0 .. H!Oldest
    BY <1>4 DEF Waits
  <2>2. \A al \in H!AlertIds : pending[al].on /\ pending[al].age <= steady[al].age
                               => pending'[al].age <= steady'[al].age
    BY <1>3, <1>5, <2>1
  <2>3. \A al \in H!AlertIds :
          /\ pending'[al].on = pending[al].on /\ pending'[al].active = pending[al].active
          /\ steady'[al].active = steady[al].active /\ row'[al].active = row[al].active
          /\ sample'[al] = sample[al]
    BY <1>1, <1>5
  <2> QED
    BY <2>2, <2>3 DEF AlertsInd, H!WaitsForEdge
<1>9. Told' /\ Outage'
  <2>1. H!Plain \subseteq H!AlertIds
    BY PlainAre DEF AlertsInd, AlertsCore
  <2> QED
    BY <1>1, <1>5, <2>1, ToldSame DEF AlertsInd
<1> QED
  BY <1>1, <1>6, <1>7, <1>8, <1>9, QueueSame DEF AlertsInd, AlertsCore

-----------------------------------------------------------------------------
(* The evaluation *)

\* What an evaluation leaves of the row and of the wait, and when it has something to say
LEMMA EvaluationIs ==
  ASSUME StatesOK, QueueOK, H!Sampled, NEW al \in H!AlertIds, NEW s \in H!Seen,
         al \notin H!Fingerprinted => s # "f2",
         NEW o, o = H!Evaluated(al, s)
  PROVE  /\ o.row \in States /\ (o.row.fp = "ok" <=> ~o.row.active) /\ o.row.fp \in {s, row[al].fp}
         /\ o.pending \in Waits
         /\ o.transition = "none" => o.row.fp = row[al].fp /\ (o.row.active <=> row[al].active)
         /\ o.transition # "none" => o.row.fp = s /\ (o.row.active <=> s # "ok")
         /\ o.transition = "cleared" => s = "ok"
         /\ s = "ok" /\ ~row[al].active => o.transition = "none"
         /\ ~(o.row.active <=> row[al].active) =>
              /\ o.row.active <=> s # "ok"
              /\ ~o.pending.on
              /\ al # "capture_failed" =>
                   \/ Debounce = 0
                   \/ pending[al].on /\ (pending[al].active <=> s # "ok") /\ pending[al].age >= Debounce
         /\ o.pending.on => /\ (o.pending.active <=> s # "ok") /\ ~(row[al].active <=> s # "ok")
                            /\ (o.row.active <=> row[al].active)
                            /\ o.pending = pending[al] \/ o.pending.age = 0
         /\ o.row.active /\ row[al].active /\ o.row.age < row[al].age =>
              al \in H!Fingerprinted \/ row[al].age >= Cooldown
<1>1. H!TypeOK
  BY TypesFollow
<1>2. /\ row[al] \in States /\ row[al].active \in BOOLEAN /\ row[al].fp \in H!Seen
      /\ (row[al].fp = "ok" <=> ~row[al].active) /\ row[al].age \in 0 .. H!Oldest
  BY <1>1, StateIs
<1>3. al \notin H!Fingerprinted => row[al].fp # "f2"
  BY DEF H!Sampled
<1>4. ~H!Settled.on /\ H!Settled \in Waits
  BY AlertSettings DEF H!Settled, Waits
<1>5. CASE o = H!Decide(al, s) /\ (~(row[al].active <=> s # "ok") /\ al # "capture_failed" =>
                 \/ Debounce = 0
                 \/ pending[al].on /\ (pending[al].active <=> s # "ok") /\ pending[al].age >= Debounce)
  <2>1. /\ o.row \in States /\ (o.row.fp = "ok" <=> ~o.row.active) /\ o.row.active \in BOOLEAN
        /\ o.pending = H!Settled /\ (o.row.active <=> s # "ok")
        /\ o.transition = "none" => o.row.fp = row[al].fp
        /\ o.row.fp \in {s, row[al].fp}
        /\ o.transition # "none" /\ al \in H!Fingerprinted => o.row.fp = s
        /\ o.transition = "cleared" <=> s = "ok" /\ row[al].active
        /\ s = "ok" /\ ~row[al].active => o.transition = "none"
        /\ o.row.age < row[al].age =>
              ~(o.row.active <=> row[al].active) \/ al \in H!Fingerprinted \/ row[al].age >= Cooldown
    BY <1>1, <1>5, DecideIs
  <2>2. ASSUME al \notin H!Fingerprinted PROVE o.row.fp = s
    <3>1. s \in {"ok", "f1"} /\ row[al].fp \in {"ok", "f1"}
      BY <1>2, <1>3, <2>2 DEF H!Seen, H!Faulty
    <3> QED
      BY <2>1, <3>1
  <2>3. o.transition = "none" => (o.row.active <=> row[al].active)
    BY <1>2, <2>1
  <2>4. ~o.pending.on /\ o.pending \in Waits
    BY <1>4, <2>1
  <2>5. ~(o.row.active <=> row[al].active) => ~(row[al].active <=> s # "ok")
    BY <2>1
  <2> HIDE DEF States, Waits
  <2> QED
    BY <1>5, <2>1, <2>2, <2>3, <2>4, <2>5
<1>6. CASE /\ al # "capture_failed" /\ ~(row[al].active <=> s # "ok") /\ 0 < Debounce
           /\ o.row = row[al] /\ o.transition = "none"
           /\ o.pending \in Waits /\ o.pending.on /\ (o.pending.active <=> s # "ok")
           /\ \/ o.pending = pending[al]
              \/ o.pending.age = 0
  <2>1. ~(o.row.age < row[al].age)
    BY <1>2, <1>6, AlertSettings
  <2> HIDE DEF States, Waits
  <2> QED
    BY <1>2, <1>6, <2>1
<1> QED
  BY <1>1, <1>5, <1>6, EvaluatedIs

\* One alert is evaluated; of the others nothing was collected
LEMMA TickHealthIs ==
  ASSUME AlertsInd, H!TickHealth
  PROVE  /\ alive /\ sample' = H!NoSample /\ \A al \in H!AlertIds : sample'[al] = "none"
         /\ UNCHANGED <<ids, cond, steady, chat, dropped, frame, age, running, broken, alive, changes>>
         /\ \E al \in ids \ {"capture_failed"} :
              /\ al \in H!AlertIds /\ sample[al] \in H!Seen \cup {"recovering"}
              /\ al \notin H!Fingerprinted => sample[al] # "f2"
              /\ \A other \in H!AlertIds : other # al => sample[other] = "none"
              /\ \/ sample[al] = "recovering" /\ UNCHANGED <<row, pending, queue, failures>>
                 \/ /\ sample[al] # "recovering"
                    /\ row' = [row EXCEPT ![al] = H!Evaluated(al, sample[al]).row]
                    /\ pending' = [pending EXCEPT ![al] = H!Evaluated(al, sample[al]).pending]
                    /\ queue' = H!HealthNotice(al, sample[al], H!Evaluated(al, sample[al]).transition)
                    /\ UNCHANGED failures
                 \/ /\ sample[al] # "recovering" /\ failures < MaxFailures /\ failures' = failures + 1
                    /\ H!RollsBack(al, sample[al])
<1>1. /\ alive /\ sample # H!NoSample /\ sample' = H!NoSample
      /\ UNCHANGED <<ids, cond, steady, chat, dropped, frame, age, running, broken, alive, changes>>
  BY DEF H!TickHealth, H!source
<1>2. \A al \in H!AlertIds : sample'[al] = "none"
  BY <1>1 DEF H!NoSample
<1>3. PICK al \in ids \ {"capture_failed"} :
              \/ sample[al] = "recovering" /\ UNCHANGED <<row, pending, queue, failures>>
              \/ /\ sample[al] # "recovering"
                 /\ row' = [row EXCEPT ![al] = H!Evaluated(al, sample[al]).row]
                 /\ pending' = [pending EXCEPT ![al] = H!Evaluated(al, sample[al]).pending]
                 /\ queue' = H!HealthNotice(al, sample[al], H!Evaluated(al, sample[al]).transition)
                 /\ UNCHANGED failures
              \/ /\ sample[al] # "recovering" /\ failures < MaxFailures /\ failures' = failures + 1
                 /\ H!RollsBack(al, sample[al])
  BY DEF H!TickHealth
<1>4. al \in H!AlertIds /\ \A other \in ids \ {"capture_failed"} : other = al
  BY OneEvent DEF AlertsInd, AlertsCore, H!Recording
<1>5. sample[al] \in H!Seen \cup {"recovering"} /\ (al \notin H!Fingerprinted => sample[al] # "f2")
  BY <1>1, <1>4 DEF AlertsInd, AlertsCore, StatesOK, H!Sampled
<1>6. \A other \in H!AlertIds : other # al => sample[other] = "none"
  BY <1>4 DEF AlertsInd, AlertsCore, H!Sampled
<1> QED
  BY <1>1, <1>2, <1>3, <1>4, <1>5, <1>6

\* The wait of an alert after a sample of it was dealt with
LEMMA WaitsAfter ==
  ASSUME AlertsInd, NEW al \in H!AlertIds, al # "capture_failed",
         \A other \in H!AlertIds : sample'[other] = "none",
         steady' = steady, row' \in [H!AlertIds -> States],
         \A other \in H!AlertIds : other # al => sample[other] = "none" /\ row'[other].active = row[other].active
                                                /\ pending'[other] = pending[other],
         pending'[al].on => /\ pending'[al].active # row'[al].active
                            /\ steady[al].active = pending'[al].active
                            /\ pending'[al].age <= steady[al].age
  PROVE  H!WaitsForEdge'
BY DEF AlertsInd, H!WaitsForEdge, H!Seen, H!Faulty

LEMMA SkippedKeeps ==
  ASSUME AlertsInd, H!TickHealth, NEW al \in H!AlertIds, sample[al] = "recovering",
         \A other \in H!AlertIds : other # al => sample[other] = "none",
         UNCHANGED <<row, pending, queue, failures>>
  PROVE  AlertsInd'
<1>1. /\ \A other \in H!AlertIds : sample'[other] = "none"
      /\ sample' = H!NoSample
      /\ UNCHANGED <<ids, cond, steady, chat, dropped, frame, age, running, broken, alive, changes>>
  BY TickHealthIs
<1>2. sample' \in [H!AlertIds -> H!Seen \cup {"recovering", "none"}]
  BY <1>1 DEF H!NoSample
<1>3. StatesOK'
  BY <1>1, <1>2 DEF AlertsInd, AlertsCore, StatesOK
<1>4. H!Sampled'
  BY <1>1 DEF AlertsInd, AlertsCore, H!Sampled
<1>5. H!WaitsForEdge'
  BY <1>1 DEF AlertsInd, H!WaitsForEdge, H!Seen, H!Faulty
<1> QED
  BY <1>1, <1>3, <1>4, <1>5, QueueSame, ToldSame DEF AlertsInd, AlertsCore

LEMMA RollsBackKeeps ==
  ASSUME AlertsInd, H!TickHealth, NEW al \in ids, al # "capture_failed", al \in H!AlertIds, sample[al] \in H!Seen,
         \A other \in H!AlertIds : other # al => sample[other] = "none",
         failures < MaxFailures, failures' = failures + 1, H!RollsBack(al, sample[al])
  PROVE  AlertsInd'
<1>1. /\ \A other \in H!AlertIds : sample'[other] = "none"
      /\ sample' = H!NoSample
      /\ UNCHANGED <<ids, cond, steady, chat, dropped, frame, age, running, broken, alive, changes>>
  BY TickHealthIs
<1>2. /\ row' = row /\ queue' = queue
      /\ pending' = IF row[al].active = (sample[al] # "ok") THEN [pending EXCEPT ![al] = H!Settled] ELSE pending
  BY DEF H!RollsBack
<1>3. H!Settled \in Waits /\ ~H!Settled.on
  BY AlertSettings DEF H!Settled, Waits
<1>4. pending' \in [H!AlertIds -> Waits]
  BY <1>2, <1>3 DEF AlertsInd, AlertsCore, StatesOK
<1>5. sample' \in [H!AlertIds -> H!Seen \cup {"recovering", "none"}]
  BY <1>1 DEF H!NoSample
<1>6. failures' \in 0 .. MaxFailures
  BY AlertSettings DEF AlertsInd, AlertsCore, StatesOK
<1>7. StatesOK'
  BY <1>1, <1>2, <1>4, <1>5, <1>6 DEF AlertsInd, AlertsCore, StatesOK
<1>8. H!Sampled'
  BY <1>1, <1>2 DEF AlertsInd, AlertsCore, H!Sampled
<1>9. pending'[al].on => /\ pending'[al].active # row'[al].active
                         /\ steady[al].active = pending'[al].active
                         /\ pending'[al].age <= steady[al].age
  <2>1. CASE row[al].active = (sample[al] # "ok")
    <3>1. pending'[al] = H!Settled
      BY <1>2, <2>1 DEF AlertsInd, AlertsCore, StatesOK
    <3> QED
      BY <1>3, <3>1
  <2>2. CASE row[al].active # (sample[al] # "ok")
    <3>1. pending' = pending /\ row' = row
      BY <1>2, <2>2
    <3>2. pending[al].active \in BOOLEAN /\ row[al].active \in BOOLEAN
      BY DEF AlertsInd, AlertsCore, StatesOK, States, Waits
    <3>3. pending[al].on => /\ pending[al].active # row[al].active
                            /\ steady[al].active = pending[al].active => pending[al].age <= steady[al].age
      BY DEF AlertsInd, H!WaitsForEdge
    <3>4. steady[al].active = (sample[al] # "ok")
      BY DEF AlertsInd, H!WaitsForEdge
    <3> QED
      BY <2>2, <3>1, <3>2, <3>3, <3>4
  <2> QED
    BY <2>1, <2>2
<1>10. H!WaitsForEdge'
  <2>1. \A other \in H!AlertIds : other # al => pending'[other] = pending[other]
    BY <1>2 DEF AlertsInd, AlertsCore, StatesOK
  <2>2. row' \in [H!AlertIds -> States]
    BY <1>7 DEF StatesOK
  <2> QED
    BY <1>1, <1>2, <1>9, <2>1, <2>2, WaitsAfter
<1> QED
  BY <1>1, <1>2, <1>7, <1>8, <1>10, QueueSame, ToldSame DEF AlertsInd, AlertsCore

\* What the notice of an observation says
Says(al, s) == H!Notice(al, s).shows

LEMMA SaysWhat ==
  ASSUME NEW al \in H!AlertIds, NEW s \in H!Seen
  PROVE  /\ Says(al, s) \in H!Shown
         /\ al # "recorder_stale" => Says(al, s) = s
         /\ al = "recorder_stale" => Says(al, s) # "ok"
BY DEF Says, H!Notice, H!Shown

\* What the queue is after an evaluation
LEMMA HealthNoticeIs ==
  ASSUME AlertsCore, alive, UNCHANGED <<ids, alive>>, NEW al \in ids, NEW s \in H!Seen, NEW t,
         queue' = H!HealthNotice(al, s, t)
  PROVE  /\ QueueOK'
         /\ \A m \in DOMAIN queue' : \/ \E i \in DOMAIN queue : queue'[m].shows = queue[i].shows
                                     \/ H!Enqueued(al, s, t) /\ queue'[m].shows = Says(al, s)
         /\ H!Enqueued(al, s, t) => queue' # <<>> /\ queue'[Len(queue')].shows = Says(al, s)
         /\ ~H!Enqueued(al, s, t) /\ al # "telegram_delivery" => queue' = queue
<1>1. al \in H!AlertIds /\ queue \in Seq(Messages)
  BY OneEvent DEF AlertsCore, QueueOK
<1>2. LeftOver(H!RetirePending(al)) /\ (ids # H!Recording => Len(H!RetirePending(al)) <= 1)
  BY RetireIs
<1>3. Joins(H!Notice(al, s)) /\ H!Notice(al, s).shows = Says(al, s) /\ H!Notice(al, s) \in Messages
  <2>1. Says(al, s) \in H!Shown
    BY <1>1, SaysWhat
  <2> QED
    BY <1>1, <2>1 DEF Joins, H!Notice, Says, Messages
<1>4. CASE H!Enqueued(al, s, t)
  <2> DEFINE q == H!RetirePending(al)
             n == H!Notice(al, s)
  <2>1. queue' = Append(q, n)
    BY <1>4 DEF H!HealthNotice
  <2>2. QueueOK'
    <3> HIDE DEF q, n
    <3>1. Joins(n) /\ LeftOver(q) /\ (ids # H!Recording => Len(q) <= 1)
      BY <1>2, <1>3 DEF q, n
    <3> QED BY <2>1, <3>1, QueueKeeps DEF AlertsCore
  <2>3. q \in Seq(Messages) /\ n \in Messages /\ n.shows = Says(al, s)
        /\ \A m \in DOMAIN q : \E i \in DOMAIN queue : q[m] = queue[i]
    BY <1>2, <1>3 DEF LeftOver
  <2> HIDE DEF q, n
  <2>4. /\ Append(q, n) \in Seq(Messages) /\ Len(Append(q, n)) = Len(q) + 1 /\ Append(q, n)[Len(q) + 1] = n
        /\ DOMAIN Append(q, n) = 1 .. Len(q) + 1 /\ Len(q) \in Nat
        /\ \A m \in 1 .. Len(q) + 1 : (m \in DOMAIN q /\ Append(q, n)[m] = q[m]) \/ Append(q, n)[m] = n
    BY <2>3, Joined
  <2>5. queue' # <<>> /\ queue'[Len(queue')].shows = Says(al, s)
    BY <2>1, <2>3, <2>4
  <2>6. \A m \in DOMAIN queue' : \/ \E i \in DOMAIN queue : queue'[m].shows = queue[i].shows
                                 \/ queue'[m].shows = Says(al, s)
    BY <2>1, <2>3, <2>4
  <2> QED
    BY <1>4, <2>2, <2>5, <2>6
<1>5. CASE ~H!Enqueued(al, s, t) /\ al = "telegram_delivery" /\ s # "ok"
  <2>1. queue' = H!RetirePending(al)
    BY <1>5 DEF H!HealthNotice
  <2>2. QueueOK'
    BY <1>2, <2>1, QueueKeeps DEF AlertsCore
  <2> QED
    BY <1>2, <1>5, <2>1, <2>2 DEF LeftOver
<1>6. CASE ~H!Enqueued(al, s, t) /\ ~(al = "telegram_delivery" /\ s # "ok")
  <2>1. queue' = queue
    BY <1>6 DEF H!HealthNotice
  <2>2. QueueOK'
    BY <2>1, QueueSame DEF AlertsCore
  <2> QED
    BY <1>6, <2>1, <2>2
<1> QED
  BY <1>4, <1>5, <1>6

LEMMA EvaluationKeeps ==
  ASSUME AlertsInd, H!TickHealth, NEW al \in ids, al # "capture_failed", al \in H!AlertIds, sample[al] \in H!Seen,
         al \notin H!Fingerprinted => sample[al] # "f2",
         \A other \in H!AlertIds : other # al => sample[other] = "none",
         row' = [row EXCEPT ![al] = H!Evaluated(al, sample[al]).row],
         pending' = [pending EXCEPT ![al] = H!Evaluated(al, sample[al]).pending],
         queue' = H!HealthNotice(al, sample[al], H!Evaluated(al, sample[al]).transition),
         UNCHANGED failures
  PROVE  AlertsInd'
<1> DEFINE o == H!Evaluated(al, sample[al])
           s == sample[al]
<1>1. /\ alive /\ \A other \in H!AlertIds : sample'[other] = "none"
      /\ sample' = H!NoSample
      /\ UNCHANGED <<ids, cond, steady, chat, dropped, frame, age, running, broken, alive, changes>>
  BY TickHealthIs
<1>2. /\ o.row \in States /\ (o.row.fp = "ok" <=> ~o.row.active) /\ o.row.fp \in {s, row[al].fp}
      /\ o.pending \in Waits
      /\ o.transition = "none" => o.row.fp = row[al].fp /\ (o.row.active <=> row[al].active)
      /\ o.transition # "none" => o.row.fp = s /\ (o.row.active <=> s # "ok")
      /\ o.transition = "cleared" => s = "ok"
      /\ ~(o.row.active <=> row[al].active) => ~o.pending.on
      /\ o.pending.on => /\ (o.pending.active <=> s # "ok") /\ ~(row[al].active <=> s # "ok")
                         /\ (o.row.active <=> row[al].active)
                         /\ o.pending = pending[al] \/ o.pending.age = 0
  <2> HIDE DEF o
  <2>1. o = H!Evaluated(al, s)
    BY DEF o
  <2> QED
    BY <2>1, EvaluationIs DEF AlertsInd, AlertsCore
<1>3. /\ row' = [row EXCEPT ![al] = o.row] /\ pending' = [pending EXCEPT ![al] = o.pending]
      /\ queue' = H!HealthNotice(al, s, o.transition)
  OBVIOUS
<1> HIDE DEF o
<1>4. /\ row' \in [H!AlertIds -> States] /\ row'[al] = o.row
      /\ \A other \in H!AlertIds : other # al => row'[other] = row[other]
  BY <1>2, <1>3 DEF AlertsInd, AlertsCore, StatesOK
<1>5. /\ pending' \in [H!AlertIds -> Waits] /\ pending'[al] = o.pending
      /\ \A other \in H!AlertIds : other # al => pending'[other] = pending[other]
  BY <1>2, <1>3 DEF AlertsInd, AlertsCore, StatesOK
<1>6. sample' \in [H!AlertIds -> H!Seen \cup {"recovering", "none"}]
  BY <1>1 DEF H!NoSample
<1>7. StatesOK'
  <2>1. \A other \in H!AlertIds : row'[other].fp = "ok" <=> ~row'[other].active
    BY <1>2, <1>4 DEF AlertsInd, AlertsCore, StatesOK
  <2> QED
    BY <1>1, <1>4, <1>5, <1>6, <2>1 DEF AlertsInd, AlertsCore, StatesOK
<1>8. H!Sampled'
  <2>1. \A other \in H!AlertIds \ H!Fingerprinted : row'[other].fp # "f2"
    BY <1>2, <1>4 DEF AlertsInd, AlertsCore, H!Sampled
  <2>2. \A other \in H!AlertIds \ ids : ~row'[other].active
    BY <1>4 DEF AlertsInd, AlertsCore, H!Sampled
  <2> QED
    BY <1>1, <2>1, <2>2 DEF AlertsInd, AlertsCore, H!Sampled
<1>9. pending'[al].on => /\ pending'[al].active # row'[al].active
                         /\ steady[al].active = pending'[al].active
                         /\ pending'[al].age <= steady[al].age
  <2> SUFFICES ASSUME o.pending.on
               PROVE  /\ o.pending.active # o.row.active /\ steady[al].active = o.pending.active
                      /\ o.pending.age <= steady[al].age
    BY <1>4, <1>5
  <2>1. o.pending.active \in BOOLEAN /\ o.row.active \in BOOLEAN /\ pending[al].active \in BOOLEAN
        /\ row[al].active \in BOOLEAN /\ steady[al].active \in BOOLEAN /\ steady[al].age \in 0 .. H!Oldest
    BY <1>2 DEF AlertsInd, AlertsCore, StatesOK, States, Waits
  <2>2. steady[al].active = (s # "ok")
    BY DEF AlertsInd, H!WaitsForEdge
  <2>3. (o.pending.active <=> s # "ok") /\ ~(row[al].active <=> s # "ok") /\ (o.row.active <=> row[al].active)
        /\ (o.pending = pending[al] \/ o.pending.age = 0)
    BY <1>2
  <2>4. o.pending.active # o.row.active /\ steady[al].active = o.pending.active
    BY <2>1, <2>2, <2>3
  <2>5. CASE o.pending = pending[al]
    BY <2>4, <2>5 DEF AlertsInd, H!WaitsForEdge
  <2>6. CASE o.pending.age = 0
    BY <2>1, <2>4, <2>6, AlertSettings
  <2> QED
    BY <2>3, <2>4, <2>5, <2>6
<1>10. H!WaitsForEdge'
  <2>1. \A other \in H!AlertIds : other # al => row'[other].active = row[other].active
    BY <1>4
  <2> QED
    BY <1>1, <1>4, <1>5, <1>9, <2>1, WaitsAfter
<1>11. /\ QueueOK'
       /\ \A m \in DOMAIN queue' : \/ \E i \in DOMAIN queue : queue'[m].shows = queue[i].shows
                                   \/ H!Enqueued(al, s, o.transition) /\ queue'[m].shows = Says(al, s)
       /\ H!Enqueued(al, s, o.transition) => queue' # <<>> /\ queue'[Len(queue')].shows = Says(al, s)
       /\ ~H!Enqueued(al, s, o.transition) /\ al # "telegram_delivery" => queue' = queue
  <2> DEFINE t == o.transition
  <2>1. queue' = H!HealthNotice(al, s, t)
    BY <1>3
  <2> HIDE DEF t
  <2>2. /\ QueueOK'
        /\ \A m \in DOMAIN queue' : \/ \E i \in DOMAIN queue : queue'[m].shows = queue[i].shows
                                    \/ H!Enqueued(al, s, t) /\ queue'[m].shows = Says(al, s)
        /\ H!Enqueued(al, s, t) => queue' # <<>> /\ queue'[Len(queue')].shows = Says(al, s)
        /\ ~H!Enqueued(al, s, t) /\ al # "telegram_delivery" => queue' = queue
    BY <1>1, <2>1, HealthNoticeIs DEF AlertsInd
  <2> QED
    BY <2>2 DEF t
<1>12. Told'
  <2> SUFFICES ASSUME NEW other \in H!Plain
               PROVE  /\ queue' # <<>> => queue'[Len(queue')].shows = row'[other].fp
                      /\ queue' = <<>> /\ other \notin dropped
                           => chat[other] = row'[other].fp \/ (chat[other] = "none" /\ row'[other].fp = "ok")
    BY <1>1 DEF Told, H!Plain
  <2>1. other = al /\ al \notin H!Local /\ al \notin H!Recording /\ al # "telegram_delivery"
    BY PlainAre DEF AlertsInd, AlertsCore, H!Local
  <2>2. H!Enqueued(al, s, o.transition) <=> o.transition # "none"
    BY <2>1 DEF H!Enqueued
  <2>3. CASE o.transition = "none"
    BY <1>2, <1>4, <1>11, <2>1, <2>2, <2>3 DEF AlertsInd, Told
  <2>4. CASE o.transition # "none"
    <3>1. Says(al, s) = s
      BY <2>1, SaysWhat, Recordings
    <3> QED
      BY <1>2, <1>4, <1>11, <2>1, <2>2, <2>4, <3>1
  <2> QED
    BY <2>3, <2>4
<1>13. Outage'
  <2> SUFFICES ASSUME NEW other \in ids \cap H!Local
               PROVE  chat[other] \in {"none", "ok"} /\ \A i \in DOMAIN queue' : queue'[i].shows = "ok"
    BY <1>1 DEF Outage
  <2>1. other = al
    <3>1. other \notin H!Recording
      BY Recordings
    <3> QED
      BY <3>1, OneEvent DEF AlertsInd, AlertsCore
  <2>2. H!Enqueued(al, s, o.transition) => s = "ok"
    BY <1>2, <2>1 DEF H!Enqueued
  <2>3. Says(al, s) = s
    BY <2>1, SaysWhat, Recordings
  <2> QED
    BY <1>11, <2>1, <2>2, <2>3 DEF AlertsInd, Outage
<1> QED
  BY <1>7, <1>8, <1>10, <1>11, <1>12, <1>13 DEF AlertsInd, AlertsCore

LEMMA TickHealthKeeps == ASSUME AlertsInd, H!TickHealth PROVE AlertsInd'
<1>1. PICK al \in ids \ {"capture_failed"} :
              /\ al \in H!AlertIds /\ sample[al] \in H!Seen \cup {"recovering"}
              /\ al \notin H!Fingerprinted => sample[al] # "f2"
              /\ \A other \in H!AlertIds : other # al => sample[other] = "none"
              /\ \/ sample[al] = "recovering" /\ UNCHANGED <<row, pending, queue, failures>>
                 \/ /\ sample[al] # "recovering"
                    /\ row' = [row EXCEPT ![al] = H!Evaluated(al, sample[al]).row]
                    /\ pending' = [pending EXCEPT ![al] = H!Evaluated(al, sample[al]).pending]
                    /\ queue' = H!HealthNotice(al, sample[al], H!Evaluated(al, sample[al]).transition)
                    /\ UNCHANGED failures
                 \/ /\ sample[al] # "recovering" /\ failures < MaxFailures /\ failures' = failures + 1
                    /\ H!RollsBack(al, sample[al])
  BY TickHealthIs
<1>2. CASE sample[al] = "recovering" /\ UNCHANGED <<row, pending, queue, failures>>
  BY <1>1, <1>2, SkippedKeeps
<1>3. CASE /\ sample[al] # "recovering"
           /\ row' = [row EXCEPT ![al] = H!Evaluated(al, sample[al]).row]
           /\ pending' = [pending EXCEPT ![al] = H!Evaluated(al, sample[al]).pending]
           /\ queue' = H!HealthNotice(al, sample[al], H!Evaluated(al, sample[al]).transition)
           /\ UNCHANGED failures
  BY <1>1, <1>3, EvaluationKeeps
<1>4. CASE /\ sample[al] # "recovering" /\ failures < MaxFailures /\ failures' = failures + 1
           /\ H!RollsBack(al, sample[al])
  BY <1>1, <1>4, RollsBackKeeps
<1> QED
  BY <1>1, <1>2, <1>3, <1>4

-----------------------------------------------------------------------------
(* Recording *)

\* In a behaviour about recording nothing else is told
LEMMA RecordingTold == ids' = H!Recording => Told' /\ Outage'
BY Recordings DEF Told, Outage, H!Plain

\* Capture is evaluated, recorded and told of; or that fails, or there is nothing to say
LEMMA CaptureRecorded ==
  ASSUME AlertsInd, ids = H!Recording, UNCHANGED <<ids, alive, cond, sample, steady, pending>>,
         NEW s \in {"ok", "f1"},
         \/ row' = row
         \/ row' = [row EXCEPT !["capture_failed"] = H!Evaluated("capture_failed", s).row],
         \/ queue' = queue
         \/ queue' = Append(queue, H!Notice("capture_failed", s))
         \/ queue' = Append(queue, H!Started)
  PROVE  /\ QueueOK' /\ H!Sampled' /\ H!WaitsForEdge' /\ Told' /\ Outage'
         /\ row' \in [H!AlertIds -> States]
         /\ \A al \in H!AlertIds : row'[al].fp = "ok" <=> ~row'[al].active
<1> DEFINE o == H!Evaluated("capture_failed", s)
<1>1. /\ "capture_failed" \in H!AlertIds /\ "recorder_stale" \in H!AlertIds /\ s \in H!Seen
      /\ "capture_failed" \in H!Fingerprinted /\ "capture_failed" \in ids /\ "recorder_stale" \in ids
  BY DEF H!AlertIds, H!Fingerprinted, H!Recording, H!Seen, H!Faulty
<1>2. o.row \in States /\ (o.row.fp = "ok" <=> ~o.row.active)
  <2> HIDE DEF o
  <2>1. o = H!Evaluated("capture_failed", s)
    BY DEF o
  <2> QED
    BY <1>1, <2>1, EvaluationIs DEF AlertsInd, AlertsCore
<1>3. row' = row \/ row' = [row EXCEPT !["capture_failed"] = o.row]
  OBVIOUS
<1> HIDE DEF o
<1>4. /\ row' \in [H!AlertIds -> States]
      /\ \A al \in H!AlertIds : al # "capture_failed" => row'[al] = row[al]
      /\ row'["capture_failed"] \in {row["capture_failed"], o.row}
  BY <1>1, <1>2, <1>3 DEF AlertsInd, AlertsCore, StatesOK
<1>5. \A al \in H!AlertIds : row'[al].fp = "ok" <=> ~row'[al].active
  BY <1>1, <1>2, <1>4 DEF AlertsInd, AlertsCore, StatesOK
<1>6. H!Sampled'
  BY <1>1, <1>4 DEF AlertsInd, AlertsCore, H!Sampled
<1>7. H!WaitsForEdge'
  BY <1>1, <1>4 DEF AlertsInd, H!WaitsForEdge
<1>8. QueueOK'
  <2>1. Joins(H!Notice("capture_failed", s)) /\ Joins(H!Started)
    BY <1>1 DEF Joins, H!Notice, H!Started, Messages, H!Seen, H!Faulty, H!Shown
  <2>2. LeftOver(queue) /\ QueueOK
    BY QueueItself DEF AlertsInd, AlertsCore
  <2>3. queue' = queue \/ \E n : Joins(n) /\ queue' = Append(queue, n)
    BY <2>1
  <2> QED
    BY <2>2, <2>3, QueueKeeps
<1> QED
  BY <1>4, <1>5, <1>6, <1>7, <1>8, RecordingTold

LEMMA FirstFrameIs ==
  ASSUME H!FirstFrameArrives
  PROVE  /\ ids = H!Recording /\ running /\ frame = H!Never /\ frame' = 0 /\ age' = 0
         /\ UNCHANGED <<ids, cond, pending, steady, sample, chat, dropped, running, broken, alive, changes>>
         /\ \/ /\ row' = [row EXCEPT !["capture_failed"] = H!Evaluated("capture_failed", "ok").row]
               /\ queue' = IF H!Evaluated("capture_failed", "ok").transition = "cleared"
                           THEN Append(queue, H!Notice("capture_failed", "ok")) ELSE Append(queue, H!Started)
               /\ failures' = failures
            \/ failures < MaxFailures /\ failures' = failures + 1 /\ row' = row /\ queue' = queue
BY DEF H!FirstFrameArrives, H!CaptureNotice, H!memory

LEMMA FirstFrameKeeps == ASSUME AlertsInd, H!FirstFrameArrives PROVE AlertsInd'
<1>1. /\ ids = H!Recording /\ running /\ frame = H!Never /\ frame' = 0 /\ age' = 0
      /\ UNCHANGED <<ids, cond, pending, steady, sample, chat, dropped, running, broken, alive, changes>>
      /\ \/ row' = row
         \/ row' = [row EXCEPT !["capture_failed"] = H!Evaluated("capture_failed", "ok").row]
      /\ \/ queue' = queue
         \/ queue' = Append(queue, H!Notice("capture_failed", "ok"))
         \/ queue' = Append(queue, H!Started)
      /\ failures' = failures \/ (failures < MaxFailures /\ failures' = failures + 1)
  BY FirstFrameIs
<1>2. /\ QueueOK' /\ H!Sampled' /\ H!WaitsForEdge' /\ Told' /\ Outage'
      /\ row' \in [H!AlertIds -> States]
      /\ \A al \in H!AlertIds : row'[al].fp = "ok" <=> ~row'[al].active
  BY <1>1, CaptureRecorded
<1>3. frame' \in 0 .. H!Never /\ age' \in 0 .. FirstFrame /\ failures' \in 0 .. MaxFailures
  BY <1>1, AlertSettings DEF AlertsInd, AlertsCore, StatesOK, H!Never
<1>4. StatesOK'
  BY <1>1, <1>2, <1>3 DEF AlertsInd, AlertsCore, StatesOK
<1> QED
  BY <1>2, <1>4 DEF AlertsInd, AlertsCore

LEMMA RecordCaptureIs ==
  ASSUME NEW s, H!RecordCapture(s)
  PROVE  \/ /\ row' = [row EXCEPT !["capture_failed"] = H!Evaluated("capture_failed", s).row]
            /\ queue' = IF H!Evaluated("capture_failed", s).transition = "none" THEN queue
                        ELSE Append(queue, H!Notice("capture_failed", s))
            /\ failures' = failures
         \/ failures < MaxFailures /\ failures' = failures + 1 /\ row' = row /\ queue' = queue
BY DEF H!RecordCapture, H!CaptureNotice

LEMMA ClearCaptureKeeps == ASSUME AlertsInd, H!ClearCapture PROVE AlertsInd'
<1>1. /\ ids = H!Recording /\ alive /\ H!RecordCapture("ok")
      /\ UNCHANGED <<ids, cond, pending, steady, sample, chat, dropped, frame, age, running, broken, alive, changes>>
  BY DEF H!ClearCapture, H!memory, H!source
<1>2. /\ \/ row' = row
         \/ row' = [row EXCEPT !["capture_failed"] = H!Evaluated("capture_failed", "ok").row]
      /\ \/ queue' = queue
         \/ queue' = Append(queue, H!Notice("capture_failed", "ok"))
      /\ failures' = failures \/ (failures < MaxFailures /\ failures' = failures + 1)
  BY <1>1, RecordCaptureIs
<1>3. /\ QueueOK' /\ H!Sampled' /\ H!WaitsForEdge' /\ Told' /\ Outage'
      /\ row' \in [H!AlertIds -> States]
      /\ \A al \in H!AlertIds : row'[al].fp = "ok" <=> ~row'[al].active
  BY <1>1, <1>2, CaptureRecorded
<1>4. failures' \in 0 .. MaxFailures
  BY <1>2, AlertSettings DEF AlertsInd, AlertsCore, StatesOK
<1>5. StatesOK'
  BY <1>1, <1>3, <1>4 DEF AlertsInd, AlertsCore, StatesOK
<1> QED
  BY <1>3, <1>5 DEF AlertsInd, AlertsCore

LEMMA CaptureEndsKeeps == ASSUME AlertsInd, H!CaptureEnds PROVE AlertsInd'
<1>1. /\ ids = H!Recording /\ running /\ running' = FALSE
      /\ changes' = changes \/ (changes < MaxChanges /\ changes' = changes + 1)
      /\ UNCHANGED <<ids, cond, row, pending, steady, sample, queue, chat, dropped, frame, age, broken, alive, failures>>
  BY DEF H!CaptureEnds, H!memory
<1>2. changes' \in 0 .. MaxChanges
  BY <1>1, AlertSettings DEF AlertsInd, AlertsCore, StatesOK
<1>3. StatesOK'
  BY <1>1, <1>2 DEF AlertsInd, AlertsCore, StatesOK
<1>4. H!Sampled' /\ H!WaitsForEdge'
  BY <1>1, WaitsSame DEF AlertsInd, AlertsCore, H!Sampled
<1> QED
  BY <1>1, <1>3, <1>4, QueueSame, ToldSame DEF AlertsInd, AlertsCore

LEMMA CaptureFailsIs ==
  ASSUME H!CaptureFails
  PROVE  /\ ids = H!Recording /\ alive /\ ~running /\ ~broken /\ broken' = TRUE
         /\ UNCHANGED <<ids, cond, pending, steady, sample, chat, dropped, frame, age, running, alive, changes>>
         /\ \/ /\ row' = [row EXCEPT !["capture_failed"] = H!Evaluated("capture_failed", "f1").row]
               /\ queue' = IF H!Evaluated("capture_failed", "f1").transition = "none" THEN queue
                           ELSE Append(queue, H!Notice("capture_failed", "f1"))
               /\ failures' = failures
            \/ /\ failures' = failures \/ (failures < MaxFailures /\ failures' = failures + 1)
               /\ row' = row /\ queue' = queue
<1>1. /\ ids = H!Recording /\ alive /\ ~running /\ ~broken /\ broken' = TRUE
      /\ UNCHANGED <<ids, cond, pending, steady, sample, chat, dropped, frame, age, running, alive, changes>>
      /\ H!RecordCapture("f1") \/ UNCHANGED <<row, queue, failures>>
  BY DEF H!CaptureFails, H!memory
<1> QED
  BY <1>1, RecordCaptureIs

LEMMA CaptureFailsKeeps == ASSUME AlertsInd, H!CaptureFails PROVE AlertsInd'
<1>1. /\ ids = H!Recording /\ alive /\ ~running /\ broken' = TRUE
      /\ UNCHANGED <<ids, cond, pending, steady, sample, chat, dropped, frame, age, running, alive, changes>>
      /\ \/ row' = row
         \/ row' = [row EXCEPT !["capture_failed"] = H!Evaluated("capture_failed", "f1").row]
      /\ \/ queue' = queue
         \/ queue' = Append(queue, H!Notice("capture_failed", "f1"))
      /\ failures' = failures \/ (failures < MaxFailures /\ failures' = failures + 1)
  BY CaptureFailsIs
<1>2. /\ QueueOK' /\ H!Sampled' /\ H!WaitsForEdge' /\ Told' /\ Outage'
      /\ row' \in [H!AlertIds -> States]
      /\ \A al \in H!AlertIds : row'[al].fp = "ok" <=> ~row'[al].active
  BY <1>1, CaptureRecorded
<1>3. failures' \in 0 .. MaxFailures
  BY <1>1, AlertSettings DEF AlertsInd, AlertsCore, StatesOK
<1>4. StatesOK'
  BY <1>1, <1>2, <1>3 DEF AlertsInd, AlertsCore, StatesOK
<1> QED
  BY <1>2, <1>4 DEF AlertsInd, AlertsCore

-----------------------------------------------------------------------------
(* The process, and the outbox *)

\* What the queue tells is not a matter of the state of its rows
LEMMA RestatedTold ==
  ASSUME AlertsCore, Told, Outage, UNCHANGED <<ids, row, chat, dropped>>,
         queue' \in Seq(Messages), Len(queue') = Len(queue),
         \A i \in DOMAIN queue : queue'[i].shows = queue[i].shows
  PROVE  Told' /\ Outage'
<1>1. /\ queue \in Seq(Messages) /\ Len(queue) \in Nat /\ DOMAIN queue = 1 .. Len(queue)
      /\ DOMAIN queue' = DOMAIN queue /\ (queue' = <<>> <=> queue = <<>>)
      /\ queue # <<>> => Len(queue) \in DOMAIN queue
  BY DEF AlertsCore, QueueOK
<1>2. queue # <<>> => queue'[Len(queue')].shows = queue[Len(queue)].shows
  BY <1>1
<1> QED
  BY <1>1, <1>2 DEF Told, Outage, H!Plain

LEMMA HealthExitKeeps == ASSUME AlertsInd, H!Exit PROVE AlertsInd'
<1>1. /\ alive' = FALSE /\ running' = FALSE /\ broken' = FALSE /\ failures < MaxFailures /\ failures' = failures + 1
      /\ queue' = [i \in DOMAIN queue |->
                     IF queue[i].state = "sending" THEN [queue[i] EXCEPT !.state = "left"] ELSE queue[i]]
      /\ UNCHANGED <<ids, cond, row, pending, steady, sample, chat, dropped, frame, age, changes>>
  BY DEF H!Exit, H!memory
<1>2. queue \in Seq(Messages) /\ Len(queue) \in Nat /\ DOMAIN queue = 1 .. Len(queue)
  BY DEF AlertsInd, AlertsCore, QueueOK
<1>3. \A i \in DOMAIN queue : /\ queue'[i] \in Messages /\ queue'[i].alert = queue[i].alert
                              /\ queue'[i].notice = queue[i].notice /\ queue'[i].shows = queue[i].shows
                              /\ queue'[i].state # "sending"
  <2> TAKE i \in DOMAIN queue
  <2>1. queue[i] \in Messages
    BY <1>2
  <2>2. queue'[i] = IF queue[i].state = "sending" THEN [queue[i] EXCEPT !.state = "left"] ELSE queue[i]
    BY <1>1
  <2> QED
    BY <2>1, <2>2 DEF Messages
<1>4. queue' \in Seq(Messages) /\ Len(queue') = Len(queue)
  BY <1>1, <1>2, <1>3
<1>5. QueueOK'
  BY <1>1, <1>3, <1>4, QueueRestated DEF AlertsInd, AlertsCore
<1>6. Told' /\ Outage'
  BY <1>1, <1>3, <1>4, RestatedTold DEF AlertsInd
<1>7. StatesOK'
  <2>1. failures' \in 0 .. MaxFailures
    BY <1>1, AlertSettings DEF AlertsInd, AlertsCore, StatesOK
  <2> QED
    BY <1>1, <2>1 DEF AlertsInd, AlertsCore, StatesOK
<1>8. H!Sampled' /\ H!WaitsForEdge'
  BY <1>1, WaitsSame DEF AlertsInd, AlertsCore, H!Sampled
<1> QED
  BY <1>5, <1>6, <1>7, <1>8 DEF AlertsInd, AlertsCore

\* What a start leaves of the queue: the notices of the run before go, an alert stays
LEMMA StartIs ==
  ASSUME AlertsCore, H!Start
  PROVE  /\ ~alive /\ alive' = TRUE /\ running' = TRUE /\ frame' = H!Never /\ age' = 0
         /\ pending' = [al \in H!AlertIds |-> H!Settled] /\ sample' = H!NoSample
         /\ UNCHANGED <<ids, cond, row, steady, chat, dropped, broken, changes, failures>>
         /\ queue' \in Seq(Messages)
         /\ \A m \in DOMAIN queue' :
              \E i \in DOMAIN queue :
                 /\ queue'[m].alert = queue[i].alert /\ queue'[m].shows = queue[i].shows
                 /\ ~queue'[m].notice /\ queue'[m].state = "pending" /\ m <= i
         /\ queue = <<>> => queue' = <<>>
         /\ queue # <<>> /\ ~queue[Len(queue)].notice =>
              queue' # <<>> /\ queue'[Len(queue')].shows = queue[Len(queue)].shows
<1> DEFINE kept == {i \in DOMAIN queue : ~queue[i].notice}
           q == H!Rows(kept)
<1>1. /\ ~alive /\ alive' = TRUE /\ running' = TRUE /\ frame' = H!Never /\ age' = 0
      /\ pending' = [al \in H!AlertIds |-> H!Settled] /\ sample' = H!NoSample
      /\ UNCHANGED <<ids, cond, row, steady, chat, dropped, broken, changes, failures>>
      /\ queue' = [i \in DOMAIN q |-> [q[i] EXCEPT !.state = "pending"]]
  BY DEF H!Start, H!bounds
<1>2. queue \in Seq(Messages) /\ kept \in SUBSET DOMAIN queue /\ \A i \in kept : ~queue[i].notice
  BY DEF AlertsCore, QueueOK
<1>3. queue # <<>> /\ ~queue[Len(queue)].notice => Len(queue) \in kept
  BY <1>2
<1>4. queue = <<>> => kept = {}
  OBVIOUS
<1> HIDE DEF kept
<1>5. /\ q \in Seq(Messages)
      /\ \A m \in DOMAIN q : \E i \in kept : q[m] = queue[i] /\ m <= i
      /\ kept = {} => q = <<>>
      /\ Len(queue) \in kept => q # <<>> /\ q[Len(q)] = queue[Len(queue)]
  BY <1>2, RowsAre
<1> HIDE DEF q
<1>6. Len(q) \in Nat /\ DOMAIN q = 1 .. Len(q) /\ DOMAIN queue' = 1 .. Len(q)
  BY <1>1, <1>5
<1>7. \A m \in DOMAIN q :
        /\ queue'[m] \in Messages /\ queue'[m].alert = q[m].alert /\ queue'[m].shows = q[m].shows
        /\ queue'[m].notice = q[m].notice /\ queue'[m].state = "pending"
  <2> TAKE m \in DOMAIN q
  <2>1. q[m] \in Messages
    BY <1>5
  <2>2. queue'[m] = [q[m] EXCEPT !.state = "pending"]
    BY <1>1
  <2> QED
    BY <2>1, <2>2 DEF Messages
<1>8. queue' \in Seq(Messages) /\ Len(queue') = Len(q)
  BY <1>1, <1>6, <1>7
<1>9. \A m \in DOMAIN queue' :
        \E i \in DOMAIN queue :
           /\ queue'[m].alert = queue[i].alert /\ queue'[m].shows = queue[i].shows
           /\ ~queue'[m].notice /\ queue'[m].state = "pending" /\ m <= i
  BY <1>2, <1>5, <1>6, <1>7
<1>10. queue = <<>> => queue' = <<>>
  BY <1>4, <1>5, <1>8
<1>11. ASSUME queue # <<>>, ~queue[Len(queue)].notice
       PROVE  queue' # <<>> /\ queue'[Len(queue')].shows = queue[Len(queue)].shows
  <2>1. q # <<>> /\ q[Len(q)] = queue[Len(queue)]
    BY <1>3, <1>5, <1>11
  <2>2. Len(q) \in DOMAIN q
    BY <1>5, <2>1
  <2> QED
    BY <1>6, <1>7, <1>8, <2>1, <2>2
<1> QED
  BY <1>1, <1>8, <1>9, <1>10, <1>11

LEMMA HealthStartKeeps == ASSUME AlertsInd, H!Start PROVE AlertsInd'
<1>1. /\ ~alive /\ alive' = TRUE /\ running' = TRUE /\ frame' = H!Never /\ age' = 0
      /\ pending' = [al \in H!AlertIds |-> H!Settled] /\ sample' = H!NoSample
      /\ UNCHANGED <<ids, cond, row, steady, chat, dropped, broken, changes, failures>>
      /\ queue' \in Seq(Messages)
      /\ \A m \in DOMAIN queue' :
           \E i \in DOMAIN queue :
              /\ queue'[m].alert = queue[i].alert /\ queue'[m].shows = queue[i].shows
              /\ ~queue'[m].notice /\ queue'[m].state = "pending" /\ m <= i
      /\ queue = <<>> => queue' = <<>>
      /\ queue # <<>> /\ ~queue[Len(queue)].notice =>
           queue' # <<>> /\ queue'[Len(queue')].shows = queue[Len(queue)].shows
  BY StartIs DEF AlertsInd
<1>2. queue \in Seq(Messages) /\ Len(queue) \in Nat /\ DOMAIN queue = 1 .. Len(queue)
  BY DEF AlertsInd, AlertsCore, QueueOK
<1>3. Len(queue') <= Len(queue)
  <2>1. Len(queue') \in Nat /\ DOMAIN queue' = 1 .. Len(queue')
    BY <1>1
  <2>2. CASE Len(queue') = 0
    BY <1>2, <2>2
  <2>3. CASE Len(queue') # 0
    <3>1. Len(queue') \in DOMAIN queue'
      BY <2>1, <2>3
    <3> QED
      BY <1>1, <1>2, <2>1, <3>1
  <2> QED
    BY <2>2, <2>3
<1>4. QueueOK'
  <2>1. H!AboutThese' /\ H!ClaimsInOrder'
    BY <1>1 DEF AlertsInd, AlertsCore, QueueOK, H!AboutThese, H!ClaimsInOrder
  <2>2. H!FewWait'
    <3>1. Len(queue') \in Nat
      BY <1>1
    <3> QED
      BY <1>1, <1>2, <1>3, <3>1 DEF AlertsInd, AlertsCore, QueueOK, H!FewWait
  <2> QED
    BY <1>1, <2>1, <2>2 DEF QueueOK
<1>5. H!Settled \in Waits /\ ~H!Settled.on
  BY AlertSettings DEF H!Settled, Waits
<1>6. StatesOK'
  <2>1. pending' \in [H!AlertIds -> Waits]
    BY <1>1, <1>5
  <2>2. sample' \in [H!AlertIds -> H!Seen \cup {"recovering", "none"}]
    BY <1>1 DEF H!NoSample
  <2>3. frame' \in 0 .. H!Never /\ age' \in 0 .. FirstFrame
    BY <1>1, AlertSettings DEF H!Never
  <2> QED
    BY <1>1, <2>1, <2>2, <2>3 DEF AlertsInd, AlertsCore, StatesOK
<1>7. \A al \in H!AlertIds : sample'[al] = "none" /\ ~pending'[al].on
  BY <1>1, <1>5 DEF H!NoSample
<1>8. H!Sampled' /\ H!WaitsForEdge'
  BY <1>1, <1>7 DEF AlertsInd, AlertsCore, H!Sampled, H!WaitsForEdge, H!Seen, H!Faulty
<1>9. Told'
  <2> SUFFICES ASSUME NEW al \in H!Plain
               PROVE  /\ queue' # <<>> => queue'[Len(queue')].shows = row[al].fp
                      /\ queue' = <<>> /\ al \notin dropped => chat[al] = row[al].fp \/ (chat[al] = "none" /\ row[al].fp = "ok")
    BY <1>1 DEF Told, H!Plain
  <2>1. ids = {al} /\ al \notin H!Recording
    BY PlainAre DEF AlertsInd, AlertsCore
  <2>2. ids # H!Recording
    BY <2>1, Recordings
  <2>3. queue # <<>> => ~queue[Len(queue)].notice
    BY <1>2, <2>2 DEF AlertsInd, AlertsCore, QueueOK, H!AboutThese
  <2> QED
    BY <1>1, <2>3 DEF AlertsInd, Told
<1>10. Outage'
  BY <1>1 DEF AlertsInd, Outage
<1> QED
  BY <1>4, <1>6, <1>8, <1>9, <1>10 DEF AlertsInd, AlertsCore

\* The claim is of the first row
LEMMA ClaimIs ==
  ASSUME AlertsCore, H!ClaimNotice
  PROVE  /\ alive /\ queue # <<>> /\ queue' = [queue EXCEPT ![1].state = "sending"]
         /\ UNCHANGED <<ids, cond, row, pending, steady, sample, chat, dropped, frame, age, running, broken, alive, changes, failures>>
<1>1. /\ alive
      /\ UNCHANGED <<ids, cond, row, pending, steady, sample, chat, dropped, frame, age, running, broken, alive, changes, failures>>
  BY DEF H!ClaimNotice, H!memory, H!source, H!bounds
<1>2. PICK i \in H!Heads : queue' = [queue EXCEPT ![i].state = "sending"]
  BY DEF H!ClaimNotice
<1>3. queue \in Seq(Messages) /\ Len(queue) \in Nat /\ DOMAIN queue = 1 .. Len(queue) /\ i \in DOMAIN queue
  BY DEF AlertsCore, QueueOK, H!Heads
<1>4. \A j \in 1 .. i - 1 : H!Key(queue[j].alert) # H!Key(queue[i].alert)
  BY DEF H!Heads
<1>5. \A j \in DOMAIN queue : H!Key(queue[j].alert) = H!Key(queue[i].alert)
  BY <1>3, OneEvent DEF AlertsCore, QueueOK, H!AboutThese
<1>6. i = 1
  <2> SUFFICES ASSUME i # 1 PROVE FALSE
    OBVIOUS
  <2>1. 1 \in 1 .. i - 1 /\ 1 \in DOMAIN queue
    BY <1>3
  <2> QED
    BY <1>4, <1>5, <2>1
<1> QED
  BY <1>1, <1>2, <1>3, <1>6

LEMMA ClaimNoticeKeeps == ASSUME AlertsInd, H!ClaimNotice PROVE AlertsInd'
<1>1. /\ alive /\ queue # <<>> /\ queue' = [queue EXCEPT ![1].state = "sending"]
      /\ UNCHANGED <<ids, cond, row, pending, steady, sample, chat, dropped, frame, age, running, broken, alive, changes, failures>>
  BY ClaimIs DEF AlertsInd
<1>2. queue \in Seq(Messages) /\ Len(queue) \in Nat /\ DOMAIN queue = 1 .. Len(queue) /\ 1 \in DOMAIN queue
  BY <1>1 DEF AlertsInd, AlertsCore, QueueOK
<1>3. \A i \in DOMAIN queue : /\ queue'[i] \in Messages /\ queue'[i].alert = queue[i].alert
                              /\ queue'[i].notice = queue[i].notice /\ queue'[i].shows = queue[i].shows
                              /\ i = 1 => queue'[i].state = "sending"
                              /\ i # 1 => queue'[i].state = queue[i].state
  <2> TAKE i \in DOMAIN queue
  <2>1. queue[i] \in Messages
    BY <1>2
  <2>2. queue'[i] = IF i = 1 THEN [queue[i] EXCEPT !.state = "sending"] ELSE queue[i]
    BY <1>1, <1>2
  <2> QED
    BY <2>1, <2>2 DEF Messages
<1>4. queue' \in Seq(Messages) /\ Len(queue') = Len(queue)
  BY <1>1, <1>2, <1>3
<1>5. \A i \in DOMAIN queue : (queue'[i].state = "sending" => i = 1) /\ (queue'[i].state = "left" => ~alive')
  BY <1>1, <1>3 DEF AlertsInd, AlertsCore, QueueOK, H!ClaimsInOrder
<1>6. QueueOK'
  BY <1>1, <1>3, <1>4, <1>5, QueueRestated DEF AlertsInd, AlertsCore
<1>7. Told' /\ Outage'
  BY <1>1, <1>3, <1>4, RestatedTold DEF AlertsInd
<1>8. StatesOK' /\ H!Sampled' /\ H!WaitsForEdge'
  BY <1>1, WaitsSame DEF AlertsInd, AlertsCore, StatesOK, H!Sampled
<1> QED
  BY <1>6, <1>7, <1>8 DEF AlertsInd, AlertsCore

\* The row that was sent, or that is given up, leaves from the front
LEMMA SettlesIs ==
  ASSUME AlertsCore, H!NoticeSettles
  PROVE  LET k == H!Key(queue[1].alert) IN
         /\ queue # <<>> /\ k \in H!Keys /\ \A al \in ids : H!Key(al) = k
         /\ UNCHANGED <<ids, cond, row, pending, steady, sample, frame, age, running, broken, alive, changes>>
         /\ \/ /\ chat' = [chat EXCEPT ![k] = queue[1].shows] /\ dropped' = dropped \ {k}
               /\ queue' = H!Rows(DOMAIN queue \ {1}) /\ failures' = failures
            \/ /\ failures < MaxFailures /\ failures' = failures + 1
               /\ queue' = [queue EXCEPT ![1].state = "pending"] /\ UNCHANGED <<chat, dropped>>
            \/ /\ failures < MaxFailures /\ failures' = failures + 1
               /\ queue' = H!Rows(DOMAIN queue \ {1}) /\ dropped' = dropped \cup {k} /\ chat' = chat
<1>1. UNCHANGED <<ids, cond, row, pending, steady, sample, frame, age, running, broken, alive, changes>>
  BY DEF H!NoticeSettles, H!memory, H!source
<1>2. PICK i \in DOMAIN queue :
         LET k == H!Key(queue[i].alert) IN
         /\ queue[i].state = "sending"
         /\ \/ /\ chat' = [chat EXCEPT ![k] = queue[i].shows]
               /\ queue' = H!Rows(DOMAIN queue \ {i}) /\ dropped' = dropped \ {k}
               /\ UNCHANGED failures
            \/ /\ failures < MaxFailures /\ failures' = failures + 1
               /\ queue' = [queue EXCEPT ![i].state = "pending"]
               /\ UNCHANGED <<chat, dropped>>
            \/ /\ failures < MaxFailures /\ failures' = failures + 1
               /\ queue' = H!Rows(DOMAIN queue \ {i}) /\ dropped' = dropped \cup {k}
               /\ UNCHANGED chat
  BY DEF H!NoticeSettles
<1>3. i = 1 /\ queue # <<>>
  BY <1>2 DEF AlertsCore, QueueOK, H!ClaimsInOrder
<1>4. queue[1].alert \in ids
  BY <1>2, <1>3 DEF AlertsCore, QueueOK, H!AboutThese
<1>5. H!Key(queue[1].alert) \in H!Keys /\ \A al \in ids : H!Key(al) = H!Key(queue[1].alert)
  BY <1>4, OneEvent, Recordings DEF AlertsCore
<1> QED
  BY <1>1, <1>2, <1>3, <1>5

\* What is left when the first row leaves
LEMMA FirstLeaves ==
  ASSUME QueueOK, queue # <<>>, queue' = H!Rows(DOMAIN queue \ {1})
  PROVE  /\ LeftOver(queue')
         /\ queue' = <<>> => queue[Len(queue)] = queue[1]
         /\ queue' # <<>> => queue'[Len(queue')] = queue[Len(queue)]
<1> DEFINE kept == DOMAIN queue \ {1}
           q == H!Rows(kept)
<1>1. /\ queue \in Seq(Messages) /\ Len(queue) \in Nat /\ DOMAIN queue = 1 .. Len(queue) /\ Len(queue) # 0
      /\ kept \in SUBSET DOMAIN queue /\ queue' = q
  BY DEF QueueOK
<1>2. (Len(queue) = 1 => kept = {}) /\ (Len(queue) # 1 => Len(queue) \in kept)
  BY <1>1
<1> HIDE DEF kept
<1>3. /\ q \in Seq(Messages)
      /\ \A m \in DOMAIN q : \E i \in kept : q[m] = queue[i] /\ m <= i /\ (i = 1 => m = 1)
      /\ kept = {} => q = <<>>
      /\ Len(queue) \in kept => q # <<>> /\ q[Len(q)] = queue[Len(queue)]
  BY <1>1, RowsAre
<1>4. LeftOver(q)
  BY <1>1, <1>3 DEF LeftOver
<1> HIDE DEF q
<1> QED
  BY <1>1, <1>2, <1>3, <1>4

LEMMA SettlesKeeps == ASSUME AlertsInd, H!NoticeSettles PROVE AlertsInd'
<1> DEFINE k == H!Key(queue[1].alert)
<1>1. /\ queue # <<>> /\ k \in H!Keys /\ \A al \in ids : H!Key(al) = k
      /\ UNCHANGED <<ids, cond, row, pending, steady, sample, frame, age, running, broken, alive, changes>>
      /\ \/ /\ chat' = [chat EXCEPT ![k] = queue[1].shows] /\ dropped' = dropped \ {k}
            /\ queue' = H!Rows(DOMAIN queue \ {1}) /\ failures' = failures
         \/ /\ failures < MaxFailures /\ failures' = failures + 1
            /\ queue' = [queue EXCEPT ![1].state = "pending"] /\ UNCHANGED <<chat, dropped>>
         \/ /\ failures < MaxFailures /\ failures' = failures + 1
            /\ queue' = H!Rows(DOMAIN queue \ {1}) /\ dropped' = dropped \cup {k} /\ chat' = chat
  BY SettlesIs DEF AlertsInd
<1> HIDE DEF k
<1>2. queue \in Seq(Messages) /\ Len(queue) \in Nat /\ DOMAIN queue = 1 .. Len(queue) /\ 1 \in DOMAIN queue
      /\ queue[1] \in Messages /\ queue[1].shows \in H!Shown
  <2>1. queue \in Seq(Messages) /\ queue # <<>>
    BY <1>1 DEF AlertsInd, AlertsCore, QueueOK
  <2>2. Len(queue) \in Nat /\ DOMAIN queue = 1 .. Len(queue) /\ Len(queue) # 0
    BY <2>1
  <2>3. 1 \in DOMAIN queue /\ queue[1] \in Messages
    BY <2>1, <2>2
  <2> QED
    BY <2>1, <2>2, <2>3 DEF Messages
<1>3. StatesOK'
  <2>1. chat' \in [H!Keys -> H!Shown \cup {"none"}] /\ dropped' \subseteq H!Keys
    BY <1>1, <1>2 DEF AlertsInd, AlertsCore, StatesOK
  <2>2. failures' \in 0 .. MaxFailures
    BY <1>1, AlertSettings DEF AlertsInd, AlertsCore, StatesOK
  <2> QED
    BY <1>1, <2>1, <2>2 DEF AlertsInd, AlertsCore, StatesOK
<1>4. H!Sampled' /\ H!WaitsForEdge'
  BY <1>1, WaitsSame DEF AlertsInd, AlertsCore, H!Sampled
<1>5. CASE queue' = [queue EXCEPT ![1].state = "pending"] /\ UNCHANGED <<chat, dropped>>
  <2>1. \A i \in DOMAIN queue : /\ queue'[i] \in Messages /\ queue'[i].alert = queue[i].alert
                                /\ queue'[i].notice = queue[i].notice /\ queue'[i].shows = queue[i].shows
                                /\ queue'[i].state \in {"pending", queue[i].state}
    <3> TAKE i \in DOMAIN queue
    <3>1. queue[i] \in Messages
      BY <1>2
    <3>2. queue'[i] = IF i = 1 THEN [queue[i] EXCEPT !.state = "pending"] ELSE queue[i]
      BY <1>2, <1>5
    <3> QED
      BY <3>1, <3>2 DEF Messages
  <2>2. queue' \in Seq(Messages) /\ Len(queue') = Len(queue)
    BY <1>2, <1>5, <2>1
  <2>3. \A i \in DOMAIN queue : (queue'[i].state = "sending" => i = 1) /\ (queue'[i].state = "left" => ~alive')
    BY <1>1, <2>1 DEF AlertsInd, AlertsCore, QueueOK, H!ClaimsInOrder
  <2>4. QueueOK'
    BY <1>1, <2>1, <2>2, <2>3, QueueRestated DEF AlertsInd, AlertsCore
  <2>5. Told' /\ Outage'
    BY <1>1, <1>5, <2>1, <2>2, RestatedTold DEF AlertsInd
  <2> QED
    BY <1>3, <1>4, <2>4, <2>5 DEF AlertsInd, AlertsCore
<1>6. CASE /\ queue' = H!Rows(DOMAIN queue \ {1})
           /\ \/ chat' = [chat EXCEPT ![k] = queue[1].shows] /\ dropped' = dropped \ {k}
              \/ dropped' = dropped \cup {k} /\ chat' = chat
  <2>1. /\ LeftOver(queue')
        /\ queue' = <<>> => queue[Len(queue)] = queue[1]
        /\ queue' # <<>> => queue'[Len(queue')] = queue[Len(queue)]
    BY <1>1, <1>6, FirstLeaves DEF AlertsInd, AlertsCore
  <2>2. QueueOK'
    <3> DEFINE q == queue'
    <3>1. LeftOver(q) /\ queue' = q
      BY <2>1
    <3> HIDE DEF q
    <3> QED BY <1>1, <3>1, QueueKeeps DEF AlertsInd, AlertsCore
  <2>3. chat \in [H!Keys -> H!Shown \cup {"none"}]
    BY DEF AlertsInd, AlertsCore, StatesOK
  <2>4. Told'
    <3> SUFFICES ASSUME NEW al \in H!Plain
                 PROVE  /\ queue' # <<>> => queue'[Len(queue')].shows = row[al].fp
                        /\ queue' = <<>> /\ al \notin dropped' =>
                             chat'[al] = row[al].fp \/ (chat'[al] = "none" /\ row[al].fp = "ok")
      BY <1>1 DEF Told, H!Plain
    <3>1. k = al
      BY <1>1, PlainAre, Recordings DEF AlertsInd, AlertsCore
    <3>2. queue[Len(queue)].shows = row[al].fp
      BY <1>1 DEF AlertsInd, Told
    <3> QED
      BY <1>1, <1>6, <2>1, <2>3, <3>1, <3>2
  <2>5. Outage'
    <3> SUFFICES ASSUME NEW al \in ids \cap H!Local
                 PROVE  chat'[al] \in {"none", "ok"} /\ \A m \in DOMAIN queue' : queue'[m].shows = "ok"
      BY <1>1 DEF Outage
    <3>1. queue[1].shows = "ok" /\ chat[al] \in {"none", "ok"}
      BY <1>2 DEF AlertsInd, Outage
    <3>2. chat'[al] \in {"none", "ok"}
      <4>1. al \in H!Keys
        BY Recordings
      <4> QED
        BY <1>6, <2>3, <3>1, <4>1
    <3>3. \A m \in DOMAIN queue' : queue'[m].shows = "ok"
      BY <2>1 DEF AlertsInd, Outage, LeftOver
    <3> QED
      BY <3>2, <3>3
  <2> QED
    BY <1>3, <1>4, <2>2, <2>4, <2>5 DEF AlertsInd, AlertsCore
<1> QED
  BY <1>1, <1>5, <1>6

LEMMA AlertsStart == H!Init => AlertsInd
<1> SUFFICES ASSUME H!Init PROVE AlertsInd
  OBVIOUS
<1>1. /\ ids \in Plays /\ cond = [al \in H!AlertIds |-> "ok"] /\ row = [al \in H!AlertIds |-> H!Blank]
      /\ pending = [al \in H!AlertIds |-> H!Settled]
      /\ steady = [al \in H!AlertIds |-> [active |-> FALSE, age |-> 0]]
      /\ sample = H!NoSample /\ queue = <<>> /\ chat = [k \in H!Keys |-> "none"] /\ dropped = {}
      /\ frame = H!Never /\ age = 0 /\ running = TRUE /\ broken = FALSE /\ alive = TRUE /\ changes = 0 /\ failures = 0
  BY DEF H!Init
<1>2. \A al \in H!AlertIds : /\ row[al] = H!Blank /\ pending[al] = H!Settled /\ sample[al] = "none"
                             /\ cond[al] = "ok" /\ steady[al] = [active |-> FALSE, age |-> 0]
  BY <1>1 DEF H!NoSample
<1>3. /\ H!Blank \in States /\ H!Blank.fp = "ok" /\ ~H!Blank.active /\ H!Settled \in Waits /\ ~H!Settled.on
      /\ "ok" \in H!Seen /\ "none" \notin H!Seen
  BY AlertSettings DEF H!Blank, H!Settled, States, Waits, H!Seen, H!Faulty
<1>4. StatesOK
  <2>1. /\ row \in [H!AlertIds -> States] /\ pending \in [H!AlertIds -> Waits]
        /\ cond \in [H!AlertIds -> H!Seen \cup {"recovering"}]
        /\ \A al \in H!AlertIds : row[al].fp = "ok" <=> ~row[al].active
    BY <1>1, <1>2, <1>3
  <2>2. steady \in [H!AlertIds -> [active : BOOLEAN, age : 0 .. H!Oldest]]
    <3>1. [active |-> FALSE, age |-> 0] \in [active : BOOLEAN, age : 0 .. H!Oldest]
      BY AlertSettings
    <3> QED
      BY <1>1, <3>1
  <2>3. sample \in [H!AlertIds -> H!Seen \cup {"recovering", "none"}] /\ chat \in [H!Keys -> H!Shown \cup {"none"}]
        /\ dropped \subseteq H!Keys
    BY <1>1 DEF H!NoSample
  <2>4. /\ frame \in 0 .. H!Never /\ age \in 0 .. FirstFrame /\ running \in BOOLEAN /\ broken \in BOOLEAN /\ alive \in BOOLEAN
        /\ (running => alive /\ ~broken) /\ (broken => alive)
        /\ changes \in 0 .. MaxChanges /\ failures \in 0 .. MaxFailures
    <3>1. frame \in 0 .. H!Never /\ age \in 0 .. FirstFrame
      BY <1>1, AlertSettings DEF H!Never
    <3>2. changes \in 0 .. MaxChanges /\ failures \in 0 .. MaxFailures
      BY <1>1, AlertSettings
    <3>3. running \in BOOLEAN /\ broken \in BOOLEAN /\ alive \in BOOLEAN
      BY <1>1
    <3>4. running /\ ~broken /\ alive
      BY <1>1
    <3> QED
      BY <3>1, <3>2, <3>3, <3>4
  <2> QED
    BY <1>1, <2>1, <2>2, <2>3, <2>4 DEF StatesOK
<1>5. QueueOK
  BY <1>1 DEF QueueOK, H!AboutThese, H!ClaimsInOrder, H!FewWait
<1>6. H!Sampled
  BY <1>1, <1>2, <1>3 DEF H!Sampled, H!Fingerprinted, H!AlertIds
<1>7. H!Plain \subseteq H!AlertIds /\ \A al \in H!Plain : chat[al] = "none"
  <2>1. \A al \in H!Plain : al \in H!AlertIds /\ al \notin H!Recording
    BY <1>4, PlainAre
  <2>2. \A al \in H!Plain : al \in H!Keys
    BY <2>1, Recordings
  <2> QED
    BY <1>1, <2>1, <2>2
<1>8. Told
  BY <1>1, <1>2, <1>3, <1>7 DEF Told
<1>9. Outage
  <2>1. \A al \in ids \cap H!Local : al \in H!Keys
    BY Recordings
  <2> QED
    BY <1>1, <2>1 DEF Outage
<1>10. H!WaitsForEdge
  BY <1>2, <1>3 DEF H!WaitsForEdge
<1> QED
  BY <1>4, <1>5, <1>6, <1>8, <1>9, <1>10 DEF AlertsInd, AlertsCore

LEMMA AlertsUnchanged == AlertsInd /\ UNCHANGED H!vars => AlertsInd'
<1> SUFFICES ASSUME AlertsInd, UNCHANGED H!vars PROVE AlertsInd'
  OBVIOUS
<1>1. UNCHANGED <<ids, cond, row, pending, steady, sample, queue, chat, dropped, frame, age, running, broken, alive, changes, failures>>
  BY DEF H!vars, H!memory, H!source, H!bounds
<1>2. StatesOK' /\ H!Sampled' /\ H!WaitsForEdge'
  BY <1>1, WaitsSame DEF AlertsInd, AlertsCore, StatesOK, H!Sampled
<1> QED
  BY <1>1, <1>2, QueueSame, ToldSame DEF AlertsInd, AlertsCore

LEMMA AlertsStep == AlertsInd /\ H!Next => AlertsInd'
BY HealthChangeKeeps, CollectKeeps, TickHealthKeeps, FirstFrameKeeps, FrameKeeps, ClearCaptureKeeps,
   CaptureEndsKeeps, CaptureFailsKeeps, HealthExitKeeps, HealthStartKeeps, HealthTickKeeps, ClaimNoticeKeeps, SettlesKeeps
   DEF H!Next

LEMMA AlertsAlways == H!Spec => []AlertsInd
<1> QED
  BY AlertsStart, AlertsStep, AlertsUnchanged, PTL DEF H!Spec

-----------------------------------------------------------------------------
(* The incident stays red: a row that says that recording is well is followed by the *)
(* row of the failure, for as long as one waits.                                     *)

IsRed(r) == r.alert = "capture_failed" /\ r.shows # "ok"
HasRed(q) == \E j \in DOMAIN q : IsRed(q[j])
Covered(q) == \A i \in DOMAIN q : q[i].shows = "ok" => \E j \in DOMAIN q : i < j /\ IsRed(q[j])

Red ==
    row["capture_failed"].active =>
        /\ Covered(queue)
        /\ chat["recording"] = "ok" => "recording" \in dropped \/ HasRed(queue)

Incident == AlertsInd /\ Red

LEMMA IncidentIs ==
  ASSUME Incident
  PROVE  /\ AlertsInd /\ AlertsCore /\ StatesOK /\ QueueOK /\ H!Sampled /\ Red /\ H!TypeOK
         /\ "capture_failed" \in H!AlertIds /\ "recorder_stale" \in H!AlertIds
         /\ row["capture_failed"] \in States /\ row["capture_failed"].active \in BOOLEAN
         /\ row["capture_failed"].active => ids = H!Recording
<1>1. AlertsInd /\ AlertsCore /\ StatesOK /\ QueueOK /\ H!Sampled /\ Red
  BY DEF Incident, AlertsInd, AlertsCore
<1>2. H!TypeOK
  BY <1>1, TypesFollow
<1>3. "capture_failed" \in H!AlertIds /\ "recorder_stale" \in H!AlertIds
  BY Recordings
<1>4. row["capture_failed"] \in States
  BY <1>1, <1>3 DEF StatesOK
<1>5. row["capture_failed"].active => "capture_failed" \in ids
  BY <1>1, <1>3 DEF H!Sampled
<1>6. row["capture_failed"].active => ids = H!Recording
  BY <1>1, <1>5, OneEvent, Recordings
<1> QED
  BY <1>1, <1>2, <1>3, <1>4, <1>6 DEF States

LEMMA RedSame ==
  Red /\ UNCHANGED <<queue, chat, dropped>> /\ (row'["capture_failed"].active => row["capture_failed"].active) => Red'
BY DEF Red, Covered, HasRed

\* Rows leave, but none of the failure that follows another
LEMMA RedLeft ==
  ASSUME QueueOK, NEW kept \in SUBSET DOMAIN queue,
         \A i, j \in DOMAIN queue : i < j /\ IsRed(queue[j]) => j \in kept,
         Covered(queue), NEW q, q = H!Rows(kept)
  PROVE  /\ q \in Seq(Messages) /\ Covered(q)
         /\ \A j \in kept : IsRed(queue[j]) => HasRed(q)
<1>1. queue \in Seq(Messages) /\ DOMAIN queue = 1 .. Len(queue) /\ Len(queue) \in Nat
  BY DEF QueueOK
<1>2. /\ q \in Seq(Messages)
      /\ \A m \in DOMAIN q :
           \E i \in kept :
              /\ q[m] = queue[i]
              /\ \A j \in kept : i < j => \E n \in DOMAIN q : m < n /\ q[n] = queue[j]
      /\ \A j \in kept : \E n \in DOMAIN q : q[n] = queue[j]
  BY <1>1, RowsAre
<1>3. Covered(q)
  <2> SUFFICES ASSUME NEW m \in DOMAIN q, q[m].shows = "ok"
               PROVE  \E n \in DOMAIN q : m < n /\ IsRed(q[n])
    BY DEF Covered
  <2>1. PICK i \in kept :
          /\ q[m] = queue[i]
          /\ \A j \in kept : i < j => \E n \in DOMAIN q : m < n /\ q[n] = queue[j]
    BY <1>2
  <2>2. PICK j \in DOMAIN queue : i < j /\ IsRed(queue[j])
    BY <2>1 DEF Covered
  <2>3. j \in kept
    BY <2>2
  <2>4. PICK n \in DOMAIN q : m < n /\ q[n] = queue[j]
    BY <2>1, <2>2, <2>3
  <2> QED
    BY <2>2, <2>4
<1>4. \A j \in kept : IsRed(queue[j]) => HasRed(q)
  BY <1>2 DEF HasRed
<1> QED
  BY <1>2, <1>3, <1>4

\* A row joins that does not say that recording is well
LEMMA RedJoined ==
  ASSUME NEW q \in Seq(Messages), NEW n \in Messages, n.shows # "ok", Covered(q) \/ IsRed(n)
  PROVE  Covered(Append(q, n)) /\ (HasRed(q) \/ IsRed(n) => HasRed(Append(q, n)))
<1> DEFINE new == Append(q, n)
<1>1. /\ DOMAIN new = 1 .. Len(q) + 1 /\ new[Len(q) + 1] = n /\ Len(q) \in Nat /\ DOMAIN q = 1 .. Len(q)
      /\ \A m \in DOMAIN q : m \in DOMAIN new /\ m < Len(q) + 1 /\ new[m] = q[m]
      /\ \A m \in DOMAIN new : m \in DOMAIN q \/ new[m] = n
  OBVIOUS
<1> HIDE DEF new
<1>2. Covered(new)
  <2> SUFFICES ASSUME NEW m \in DOMAIN new, new[m].shows = "ok"
               PROVE  \E j \in DOMAIN new : m < j /\ IsRed(new[j])
    BY DEF Covered
  <2>1. m \in DOMAIN q /\ new[m] = q[m]
    BY <1>1
  <2>2. CASE IsRed(n)
    <3>1. Len(q) + 1 \in DOMAIN new
      BY <1>1
    <3> QED
      BY <1>1, <2>1, <2>2, <3>1
  <2>3. CASE Covered(q)
    <3>1. PICK j \in DOMAIN q : m < j /\ IsRed(q[j])
      BY <2>1, <2>3 DEF Covered
    <3> QED
      BY <1>1, <3>1
  <2> QED
    BY <2>2, <2>3
<1>3. HasRed(q) \/ IsRed(n) => HasRed(new)
  <2>1. Len(q) + 1 \in DOMAIN new
    BY <1>1
  <2> QED
    BY <1>1, <2>1 DEF HasRed
<1> QED
  BY <1>2, <1>3 DEF new

\* What the rows tell is not a matter of their state
LEMMA RedRestated ==
  ASSUME NEW q, NEW new, DOMAIN new = DOMAIN q,
         \A i \in DOMAIN q : new[i].alert = q[i].alert /\ new[i].shows = q[i].shows
  PROVE  /\ Covered(q) => Covered(new)
         /\ HasRed(q) => HasRed(new)
BY DEF Covered, HasRed, IsRed

\* What evaluate makes of a recording that works, or fails: it does not wait
LEMMA CaptureDecided ==
  ASSUME Incident, NEW s \in {"ok", "f1"}, NEW o, o = H!Evaluated("capture_failed", s)
  PROVE  /\ o.row \in States /\ (o.row.active <=> s # "ok")
         /\ o.transition = "none" => (o.row.active <=> row["capture_failed"].active)
<1>1. s \in H!Seen
  BY DEF H!Seen, H!Faulty
<1>2. o = H!Decide("capture_failed", s)
  BY <1>1, IncidentIs, EvaluatedIs
<1>3. /\ o.row \in States /\ (o.row.active <=> s # "ok")
      /\ ~(o.row.active <=> row["capture_failed"].active) => o.transition \in {"raised", "cleared"}
  BY <1>1, <1>2, IncidentIs, DecideIs
<1> QED
  BY <1>3

\* The check for staleness retires its own rows, and does not say that recording is well
LEMMA TickHealthStaysRed == ASSUME Incident, H!TickHealth PROVE Red'
<1>1. /\ alive /\ UNCHANGED <<ids, chat, dropped, alive>>
      /\ \E al \in ids \ {"capture_failed"} :
           /\ al \in H!AlertIds /\ sample[al] \in H!Seen \cup {"recovering"}
           /\ \/ UNCHANGED <<row, queue>>
              \/ /\ sample[al] # "recovering"
                 /\ row' = [row EXCEPT ![al] = H!Evaluated(al, sample[al]).row]
                 /\ queue' = H!HealthNotice(al, sample[al], H!Evaluated(al, sample[al]).transition)
              \/ H!RollsBack(al, sample[al])
  BY IncidentIs, TickHealthIs
<1>2. PICK al \in ids \ {"capture_failed"} :
        /\ al \in H!AlertIds /\ sample[al] \in H!Seen \cup {"recovering"}
        /\ \/ UNCHANGED <<row, queue>>
           \/ /\ sample[al] # "recovering"
              /\ row' = [row EXCEPT ![al] = H!Evaluated(al, sample[al]).row]
              /\ queue' = H!HealthNotice(al, sample[al], H!Evaluated(al, sample[al]).transition)
           \/ H!RollsBack(al, sample[al])
  BY <1>1
<1>3. CASE UNCHANGED <<row, queue>> \/ H!RollsBack(al, sample[al])
  BY <1>1, <1>3, RedSame, IncidentIs DEF H!RollsBack
<1>4. CASE /\ sample[al] # "recovering"
           /\ row' = [row EXCEPT ![al] = H!Evaluated(al, sample[al]).row]
           /\ queue' = H!HealthNotice(al, sample[al], H!Evaluated(al, sample[al]).transition)
  <2> DEFINE s == sample[al]
             t == H!Evaluated(al, s).transition
             kept == {i \in DOMAIN queue :
                        ~(queue[i].alert = al /\ ~queue[i].notice /\ queue[i].state = "pending")}
             q == H!Rows(kept)
             n == H!Notice(al, s)
  <2>1. row'["capture_failed"] = row["capture_failed"]
    BY <1>2, <1>4, IncidentIs DEF StatesOK
  <2>2. SUFFICES ASSUME row["capture_failed"].active
                 PROVE  Covered(queue') /\ (HasRed(queue) => HasRed(queue'))
    BY <1>1, <2>1, IncidentIs DEF Red
  <2>3. al = "recorder_stale" /\ al # "telegram_delivery"
    BY <1>2, <2>2, IncidentIs DEF H!Recording
  <2>4. queue' = Append(q, n) \/ queue' = queue
    BY <1>4, <2>3 DEF H!HealthNotice, H!RetirePending
  <2>5. Covered(queue) /\ QueueOK
    BY <2>2, IncidentIs DEF Red
  <2>6. kept \in SUBSET DOMAIN queue /\ \A j \in DOMAIN queue : IsRed(queue[j]) => j \in kept
    BY <2>3 DEF IsRed
  <2>7. s \in H!Seen
    BY <1>2, <1>4
  <2>8. n \in Messages /\ n.shows # "ok"
    <3>1. Says(al, s) \in H!Shown /\ Says(al, s) # "ok" /\ n.shows = Says(al, s)
      BY <1>2, <2>3, <2>7, SaysWhat DEF Says
    <3> QED
      BY <1>2, <3>1 DEF H!Notice, Says, Messages
  <2> HIDE DEF kept, n, s, t
  <2>9. q \in Seq(Messages) /\ Covered(q) /\ (HasRed(queue) => HasRed(q))
    <3>1. /\ q \in Seq(Messages) /\ Covered(q)
          /\ \A j \in kept : IsRed(queue[j]) => HasRed(q)
      BY <2>5, <2>6, RedLeft
    <3> HIDE DEF q
    <3> QED
      BY <2>6, <3>1 DEF HasRed
  <2> HIDE DEF q
  <2>10. Covered(Append(q, n)) /\ (HasRed(q) => HasRed(Append(q, n)))
    BY <2>8, <2>9, RedJoined
  <2> QED
    BY <2>4, <2>5, <2>9, <2>10
<1> QED
  BY <1>2, <1>3, <1>4

\* The incident is over, or nothing was said
LEMMA WellStaysRed ==
  ASSUME Incident, UNCHANGED <<chat, dropped>>,
         \/ row' = [row EXCEPT !["capture_failed"] = H!Evaluated("capture_failed", "ok").row]
         \/ row' = row /\ queue' = queue
  PROVE  Red'
<1> DEFINE o == H!Evaluated("capture_failed", "ok")
<1>1. o.row \in States /\ ~o.row.active
  BY CaptureDecided
<1>2. row' = [row EXCEPT !["capture_failed"] = o.row] \/ (row' = row /\ queue' = queue)
  OBVIOUS
<1> HIDE DEF o
<1>3. CASE row' = [row EXCEPT !["capture_failed"] = o.row]
  <2>1. ~row'["capture_failed"].active
    BY <1>1, <1>3, IncidentIs DEF StatesOK
  <2> QED
    BY <2>1 DEF Red
<1>4. CASE row' = row /\ queue' = queue
  BY <1>4, RedSame, IncidentIs
<1> QED
  BY <1>2, <1>3, <1>4

LEMMA FirstFrameStaysRed == ASSUME Incident, H!FirstFrameArrives PROVE Red'
BY FirstFrameIs, WellStaysRed

LEMMA ClearCaptureStaysRed == ASSUME Incident, H!ClearCapture PROVE Red'
<1>1. UNCHANGED <<chat, dropped>> /\ H!RecordCapture("ok")
  BY DEF H!ClearCapture
<1> QED
  BY <1>1, RecordCaptureIs, WellStaysRed

\* The failure is the last word, or its row is as it was
LEMMA CaptureFailsStaysRed == ASSUME Incident, H!CaptureFails PROVE Red'
<1> DEFINE o == H!Evaluated("capture_failed", "f1")
           n == H!Notice("capture_failed", "f1")
<1>1. /\ UNCHANGED <<chat, dropped>>
      /\ \/ /\ row' = [row EXCEPT !["capture_failed"] = o.row]
            /\ queue' = IF o.transition = "none" THEN queue ELSE Append(queue, n)
         \/ row' = row /\ queue' = queue
  BY CaptureFailsIs
<1>2. /\ o.row \in States
      /\ o.transition = "none" => row["capture_failed"].active
  BY CaptureDecided
<1>3. n \in Messages /\ n.shows # "ok" /\ IsRed(n)
  BY IncidentIs DEF H!Notice, Messages, H!Shown, H!Seen, H!Faulty, IsRed
<1> HIDE DEF o, n
<1>4. CASE queue' = queue /\ (row["capture_failed"].active \/ row' = row)
  BY <1>1, <1>4, RedSame, IncidentIs
<1>5. CASE queue' = Append(queue, n)
  <2>1. queue \in Seq(Messages)
    BY IncidentIs DEF QueueOK
  <2>2. Covered(queue') /\ HasRed(queue')
    BY <1>3, <1>5, <2>1, RedJoined
  <2> QED
    BY <2>2 DEF Red, Covered, HasRed
<1> QED
  BY <1>1, <1>2, <1>4, <1>5

\* Rows get another state
LEMMA StateStaysRed ==
  ASSUME Red, UNCHANGED <<row, chat, dropped>>, DOMAIN queue' = DOMAIN queue,
         \A i \in DOMAIN queue : queue'[i].alert = queue[i].alert /\ queue'[i].shows = queue[i].shows
  PROVE  Red'
<1>1. (Covered(queue) => Covered(queue')) /\ (HasRed(queue) => HasRed(queue'))
  BY RedRestated
<1> QED
  BY <1>1 DEF Red, Covered, HasRed

LEMMA ExitStaysRed == ASSUME Incident, H!Exit PROVE Red'
<1>1. /\ queue' = [i \in DOMAIN queue |->
                     IF queue[i].state = "sending" THEN [queue[i] EXCEPT !.state = "left"] ELSE queue[i]]
      /\ UNCHANGED <<row, chat, dropped>>
  BY DEF H!Exit
<1>2. \A i \in DOMAIN queue : queue'[i].alert = queue[i].alert /\ queue'[i].shows = queue[i].shows
  <2> TAKE i \in DOMAIN queue
  <2>1. queue[i] \in Messages
    BY IncidentIs DEF QueueOK
  <2> QED
    BY <1>1, <2>1 DEF Messages
<1> QED
  BY <1>1, <1>2, StateStaysRed, IncidentIs

\* The notices of the run before say that recording is well, and only they go
LEMMA StartStaysRed == ASSUME Incident, H!Start PROVE Red'
<1> DEFINE kept == {i \in DOMAIN queue : ~queue[i].notice}
           q == H!Rows(kept)
<1>1. /\ UNCHANGED <<row, chat, dropped>>
      /\ queue' = [i \in DOMAIN q |-> [q[i] EXCEPT !.state = "pending"]]
  BY DEF H!Start
<1>2. queue \in Seq(Messages) /\ H!AboutThese /\ QueueOK
  BY IncidentIs DEF QueueOK
<1>3. kept \in SUBSET DOMAIN queue /\ \A j \in DOMAIN queue : IsRed(queue[j]) => j \in kept
  BY <1>2 DEF H!AboutThese, IsRed
<1> HIDE DEF kept
<1>4. SUFFICES ASSUME row["capture_failed"].active
               PROVE  Covered(queue') /\ (HasRed(queue) => HasRed(queue'))
  BY <1>1, IncidentIs DEF Red
<1>5. Covered(queue)
  BY <1>4, IncidentIs DEF Red
<1>6. q \in Seq(Messages) /\ Covered(q) /\ (HasRed(queue) => HasRed(q))
  <2>1. /\ q \in Seq(Messages) /\ Covered(q)
        /\ \A j \in kept : IsRed(queue[j]) => HasRed(q)
    BY <1>2, <1>3, <1>5, RedLeft
  <2> HIDE DEF q
  <2> QED
    BY <1>3, <2>1 DEF HasRed
<1> HIDE DEF q
<1>7. DOMAIN queue' = DOMAIN q
  BY <1>1
<1>8. \A i \in DOMAIN q : queue'[i].alert = q[i].alert /\ queue'[i].shows = q[i].shows
  <2> TAKE i \in DOMAIN q
  <2>1. q[i] \in Messages
    BY <1>6
  <2> QED
    BY <1>1, <2>1 DEF Messages
<1>9. (Covered(q) => Covered(queue')) /\ (HasRed(q) => HasRed(queue'))
  BY <1>7, <1>8, RedRestated
<1> QED
  BY <1>6, <1>9

LEMMA TickStaysRed == ASSUME Incident, H!Tick PROVE Red'
<1>1. /\ row' = [al \in H!AlertIds |->
                   IF row[al].active /\ al \notin H!Fingerprinted THEN [row[al] EXCEPT !.age = H!Later(@)] ELSE row[al]]
      /\ UNCHANGED <<queue, chat, dropped>>
  BY DEF H!Tick
<1>2. row'["capture_failed"] = row["capture_failed"]
  BY <1>1, IncidentIs DEF H!Fingerprinted
<1> QED
  BY <1>1, <1>2, RedSame, IncidentIs

LEMMA ClaimStaysRed == ASSUME Incident, H!ClaimNotice PROVE Red'
<1>1. /\ queue # <<>> /\ queue' = [queue EXCEPT ![1].state = "sending"]
      /\ UNCHANGED <<row, chat, dropped>>
  BY IncidentIs, ClaimIs
<1>2. queue \in Seq(Messages) /\ DOMAIN queue' = DOMAIN queue
  BY <1>1, IncidentIs DEF QueueOK
<1>3. \A i \in DOMAIN queue : queue'[i].alert = queue[i].alert /\ queue'[i].shows = queue[i].shows
  <2> TAKE i \in DOMAIN queue
  <2>1. queue[i] \in Messages
    BY <1>2
  <2>2. queue'[i] = IF i = 1 THEN [queue[i] EXCEPT !.state = "sending"] ELSE queue[i]
    BY <1>1, <1>2
  <2> QED
    BY <2>1, <2>2 DEF Messages
<1> QED
  BY <1>1, <1>2, <1>3, StateStaysRed, IncidentIs

\* The first row is sent, or given up: one that says that recording is well has the failure behind it
LEMMA SettlesStaysRed == ASSUME Incident, H!NoticeSettles PROVE Red'
<1> DEFINE k == H!Key(queue[1].alert)
<1>1. /\ queue # <<>> /\ k \in H!Keys /\ \A al \in ids : H!Key(al) = k
      /\ UNCHANGED <<ids, row>>
      /\ \/ /\ chat' = [chat EXCEPT ![k] = queue[1].shows] /\ dropped' = dropped \ {k}
            /\ queue' = H!Rows(DOMAIN queue \ {1})
         \/ queue' = [queue EXCEPT ![1].state = "pending"] /\ UNCHANGED <<chat, dropped>>
         \/ queue' = H!Rows(DOMAIN queue \ {1}) /\ dropped' = dropped \cup {k} /\ chat' = chat
  BY SettlesIs, IncidentIs
<1> HIDE DEF k
<1>2. queue \in Seq(Messages) /\ Len(queue) \in Nat /\ DOMAIN queue = 1 .. Len(queue) /\ 1 \in DOMAIN queue
  <2>1. queue \in Seq(Messages) /\ queue # <<>>
    BY <1>1, IncidentIs DEF QueueOK
  <2> QED
    BY <2>1
<1>3. CASE queue' = [queue EXCEPT ![1].state = "pending"] /\ UNCHANGED <<chat, dropped>>
  <2>1. DOMAIN queue' = DOMAIN queue
    BY <1>2, <1>3
  <2>2. \A i \in DOMAIN queue : queue'[i].alert = queue[i].alert /\ queue'[i].shows = queue[i].shows
    <3> TAKE i \in DOMAIN queue
    <3>1. queue[i] \in Messages
      BY <1>2
    <3>2. queue'[i] = IF i = 1 THEN [queue[i] EXCEPT !.state = "pending"] ELSE queue[i]
      BY <1>2, <1>3
    <3> QED
      BY <3>1, <3>2 DEF Messages
  <2> QED
    BY <1>1, <1>3, <2>1, <2>2, StateStaysRed, IncidentIs
<1>4. CASE /\ queue' = H!Rows(DOMAIN queue \ {1})
           /\ \/ chat' = [chat EXCEPT ![k] = queue[1].shows] /\ dropped' = dropped \ {k}
              \/ dropped' = dropped \cup {k} /\ chat' = chat
  <2> DEFINE kept == DOMAIN queue \ {1}
             q == H!Rows(kept)
  <2>1. SUFFICES ASSUME row["capture_failed"].active
                 PROVE  Covered(queue') /\ (chat'["recording"] = "ok" => "recording" \in dropped' \/ HasRed(queue'))
    BY <1>1 DEF Red, Covered, HasRed
  <2>2. k = "recording"
    BY <1>1, <2>1, IncidentIs, Recordings
  <2>3. Covered(queue) /\ QueueOK
    BY <2>1, IncidentIs DEF Red
  <2>4. kept \in SUBSET DOMAIN queue /\ \A i, j \in DOMAIN queue : i < j => j \in kept
    BY <1>2
  <2> HIDE DEF kept
  <2>5. Covered(q) /\ \A j \in kept : IsRed(queue[j]) => HasRed(q)
    BY <2>3, <2>4, RedLeft
  <2>6. queue' = q
    BY <1>4 DEF kept
  <2> HIDE DEF q
  <2>7. chat \in [H!Keys -> H!Shown \cup {"none"}] /\ "recording" \in H!Keys
    BY IncidentIs, Recordings DEF StatesOK
  <2>8. CASE chat' = [chat EXCEPT ![k] = queue[1].shows]
    <3>1. chat'["recording"] = queue[1].shows
      BY <2>2, <2>7, <2>8
    <3>2. queue[1].shows = "ok" => \E j \in DOMAIN queue : 1 < j /\ IsRed(queue[j])
      BY <1>2, <2>3 DEF Covered
    <3>3. queue[1].shows = "ok" => HasRed(q)
      BY <1>2, <2>4, <2>5, <3>2
    <3> QED
      BY <2>5, <2>6, <3>1, <3>3
  <2>9. CASE dropped' = dropped \cup {k} /\ chat' = chat
    BY <2>2, <2>5, <2>6, <2>9
  <2> QED
    BY <1>4, <2>8, <2>9
<1> QED
  BY <1>1, <1>3, <1>4

LEMMA IncidentStep == Incident /\ H!Next => Red'
<1> SUFFICES ASSUME Incident, H!Next PROVE Red'
  OBVIOUS
<1>1. CASE H!Change \/ H!FrameArrives \/ H!CaptureEnds
  BY <1>1, RedSame, IncidentIs DEF H!Change, H!FrameArrives, H!CaptureEnds
<1>2. CASE H!Collect
  BY <1>2, RedSame, CollectIs, IncidentIs
<1> QED
  BY <1>1, <1>2, TickHealthStaysRed, FirstFrameStaysRed, ClearCaptureStaysRed, CaptureFailsStaysRed,
     ExitStaysRed, StartStaysRed, TickStaysRed, ClaimStaysRed, SettlesStaysRed DEF H!Next

LEMMA IncidentAlways == H!Spec => []Incident
<1>1. H!Init => Incident
  <2> SUFFICES ASSUME H!Init PROVE Red
    BY AlertsStart DEF Incident
  <2>1. row["capture_failed"] = H!Blank
    BY Recordings DEF H!Init
  <2> QED
    BY <2>1 DEF Red, H!Blank
<1>2. Incident /\ H!Next => Incident'
  BY AlertsStep, IncidentStep DEF Incident
<1>3. Incident /\ UNCHANGED H!vars => Incident'
  <2> SUFFICES ASSUME Incident, UNCHANGED H!vars PROVE Incident'
    OBVIOUS
  <2>1. UNCHANGED <<row, queue, chat, dropped>>
    BY DEF H!vars
  <2> QED
    BY <2>1, AlertsUnchanged, RedSame, IncidentIs DEF Incident
<1> QED
  BY <1>1, <1>2, <1>3, PTL DEF H!Spec

\* What the facts say of the properties
LEMMA PromisesFollow ==
  ASSUME AlertsInd
  PROVE  /\ H!TypeOK /\ H!ChatAgrees /\ H!NothingAccumulates /\ H!OutageStaysLocal
         /\ H!AboutThese /\ H!ClaimsInOrder /\ H!FewWait /\ H!Sampled /\ H!LastAgrees /\ H!WaitsForEdge
<1>1. /\ StatesOK /\ QueueOK /\ H!Sampled /\ Told /\ Outage /\ H!WaitsForEdge
      /\ H!AboutThese /\ H!ClaimsInOrder /\ H!FewWait
      /\ queue \in Seq(Messages) /\ Len(queue) \in Nat /\ DOMAIN queue = 1 .. Len(queue)
  BY DEF AlertsInd, AlertsCore, QueueOK
<1>2. H!TypeOK
  BY <1>1, TypesFollow
<1>3. H!LastAgrees
  BY <1>1 DEF H!LastAgrees, Told
<1>4. H!ChatAgrees
  <2> SUFFICES ASSUME NEW al \in H!Plain, H!Unsent(al) = {}, al \notin dropped
               PROVE  chat[al] = IF row[al].active THEN row[al].fp
                                 ELSE IF chat[al] = "none" THEN "none" ELSE "ok"
    BY DEF H!ChatAgrees
  <2>1. ids = {al} /\ al \in H!AlertIds /\ H!Key(al) = al
    BY <1>1, PlainAre, Recordings
  <2>2. queue = <<>>
    <3> SUFFICES ASSUME queue # <<>> PROVE FALSE
      OBVIOUS
    <3>1. 1 \in DOMAIN queue
      BY <1>1
    <3>2. queue[1].alert = al
      BY <1>1, <2>1, <3>1 DEF H!AboutThese
    <3> QED
      BY <2>1, <3>1, <3>2 DEF H!Unsent
  <2>3. chat[al] = row[al].fp \/ (chat[al] = "none" /\ row[al].fp = "ok")
    BY <1>1, <2>2 DEF Told
  <2>4. row[al].fp = "ok" <=> ~row[al].active
    BY <1>1, <2>1 DEF StatesOK
  <2>5. row[al].fp \in H!Seen /\ "none" \notin H!Seen
    BY <1>1, <2>1 DEF StatesOK, States, H!Seen, H!Faulty
  <2> QED
    BY <2>3, <2>4, <2>5
<1>5. H!NothingAccumulates
  <2> SUFFICES ASSUME NEW al \in ids \ H!Recording PROVE H!Cardinality(H!Unsent(al)) <= 2
    BY DEF H!NothingAccumulates
  <2>1. ids # H!Recording
    OBVIOUS
  <2>2. Len(queue) <= 2
    BY <1>1, <2>1 DEF H!FewWait
  <2> DEFINE S == H!Unsent(al)
  <2>3. S \subseteq 1 .. 2
    BY <1>1, <2>2 DEF H!Unsent
  <2> HIDE DEF S
  <2>4. IsFiniteSet(1 .. 2) /\ Cardinality(1 .. 2) = 2
    <3>1. 1 \in Int /\ 2 \in Int
      OBVIOUS
    <3>2. IsFiniteSet(1 .. 2) /\ Cardinality(1 .. 2) = IF 1 > 2 THEN 0 ELSE 2 - 1 + 1
      BY <3>1, FS_Interval
    <3> DEFINE c == Cardinality(1 .. 2)
    <3>3. c = IF 1 > 2 THEN 0 ELSE 2 - 1 + 1
      BY <3>2
    <3> HIDE DEF c
    <3>4. c = 2
      BY <3>3
    <3> QED
      BY <3>2, <3>4 DEF c
  <2>5. Cardinality(S) <= 2
    <3>1. Cardinality(S) <= Cardinality(1 .. 2)
      BY <2>3, <2>4, FS_Subset
    <3> QED
      BY <2>4, <3>1
  <2>6. H!Cardinality(S) = Cardinality(S)
    BY SizeIsSize
  <2> QED
    BY <2>5, <2>6 DEF S
<1>6. H!OutageStaysLocal
  <2> SUFFICES ASSUME NEW al \in ids \cap H!Local
               PROVE  chat[al] \in {"none", "ok"} /\ \A i \in H!Unsent(al) : queue[i].shows = "ok"
    BY DEF H!OutageStaysLocal
  <2> QED
    BY <1>1 DEF Outage, H!Unsent
<1> QED
  BY <1>1, <1>2, <1>3, <1>4, <1>5, <1>6

\* The last of the rows about recording is covered by none
LEMMA RedIsRed == ASSUME Incident PROVE H!IncidentStaysRed
<1> DEFINE all == H!Unsent("recording")
<1> SUFFICES ASSUME row["capture_failed"].active, H!Reads("recording", {"ok"}) PROVE FALSE
  BY DEF H!IncidentStaysRed
<1>1. /\ queue \in Seq(Messages) /\ Len(queue) \in Nat /\ DOMAIN queue = 1 .. Len(queue)
      /\ H!AboutThese /\ ids = H!Recording
  BY IncidentIs DEF QueueOK
<1>2. all = DOMAIN queue
  BY <1>1, Recordings DEF H!Unsent, H!AboutThese
<1>3. Covered(queue) /\ (chat["recording"] = "ok" => "recording" \in dropped \/ HasRed(queue))
  BY IncidentIs DEF Red
<1> HIDE DEF all
<1>4. CASE queue = <<>>
  <2>1. all = {} /\ DOMAIN queue = {}
    BY <1>1, <1>2, <1>4
  <2>2. "recording" \notin dropped /\ chat["recording"] = "ok"
    BY <2>1 DEF H!Reads, all
  <2> QED
    BY <1>3, <2>1, <2>2 DEF HasRed
<1>5. CASE queue # <<>>
  <2>1. Len(queue) \in DOMAIN queue /\ \A m \in all : m <= Len(queue)
    BY <1>1, <1>2, <1>5
  <2>2. queue[Len(queue)].shows \in H!LastWord("recording")
    BY <1>2, <2>1 DEF H!LastWord, all
  <2>3. all # {}
    BY <1>2, <2>1
  <2>4. queue[Len(queue)].shows = "ok"
    BY <2>2, <2>3 DEF H!Reads, all
  <2>5. \E j \in DOMAIN queue : Len(queue) < j
    BY <1>3, <2>1, <2>4 DEF Covered
  <2> QED
    BY <1>1, <2>5
<1> QED
  BY <1>4, <1>5

\* Whatever the settings and the faults: the chat agrees with the table about every plain
\* alert, no more than two messages of an alert wait, and an outage of the chat or the Keychain
\* is not announced in it (HealthAlerts.evaluate, onSend, retirePendingAlertDeliveries).
THEOREM AlertsInvariant ==
  H!Spec => [](H!TypeOK /\ H!ChatAgrees /\ H!NothingAccumulates /\ H!OutageStaysLocal)
<1> QED
  BY AlertsAlways, PromisesFollow, PTL

\* An open failure of capture is not covered by the notice of a start, nor by its own recovery:
\* over failed transactions, lost sends, a capture that ends without a word and restarts
\* (Daemon.#announceRecordingStarted, recordCaptureAvailabilityAlert, retireStaleNotices).
THEOREM ChatInvariant == H!Spec => []ChatInv
<1>1. Incident => ChatInv
  BY RedIsRed, IncidentIs, PromisesFollow DEF ChatInv
<1> QED
  BY <1>1, IncidentAlways, PTL

\* A row is raised or cleared by what the loop saw without a break for as long as the debounce
\* (the branch on debounceSeconds in HealthAlerts.evaluate).
THEOREM EdgesAreSteady == H!Spec => H!EdgeIsSteady
<1> DEFINE E == \A a \in H!AlertIds \ {"capture_failed"} :
                  row'[a].active # row[a].active =>
                    steady[a].active = row'[a].active /\ steady[a].age >= Debounce
<1>1. ASSUME AlertsInd, H!Next PROVE E
  <2>1. CASE H!TickHealth
    <3>1. /\ UNCHANGED <<ids, steady>> /\ StatesOK /\ QueueOK /\ H!Sampled /\ H!WaitsForEdge
          /\ row \in [H!AlertIds -> States] /\ pending \in [H!AlertIds -> Waits]
          /\ steady \in [H!AlertIds -> [active : BOOLEAN, age : 0 .. H!Oldest]]
      BY <1>1, <2>1, TickHealthIs DEF AlertsInd, AlertsCore, StatesOK
    <3>2. PICK al \in ids \ {"capture_failed"} :
            /\ al \in H!AlertIds /\ sample[al] \in H!Seen \cup {"recovering"}
            /\ al \notin H!Fingerprinted => sample[al] # "f2"
            /\ \/ row' = row
               \/ sample[al] # "recovering" /\ row' = [row EXCEPT ![al] = H!Evaluated(al, sample[al]).row]
      BY <1>1, <2>1, TickHealthIs DEF H!RollsBack
    <3> SUFFICES ASSUME NEW a \in H!AlertIds \ {"capture_failed"}, row'[a].active # row[a].active
                 PROVE  steady[a].active = row'[a].active /\ steady[a].age >= Debounce
      OBVIOUS
    <3>3. a = al /\ sample[al] \in H!Seen /\ row'[al] = H!Evaluated(al, sample[al]).row
      BY <3>1, <3>2
    <3> DEFINE o == H!Evaluated(al, sample[al])
    <3>4. /\ o.row \in States
          /\ ~(o.row.active <=> row[al].active) =>
               /\ o.row.active <=> sample[al] # "ok"
               /\ \/ Debounce = 0
                  \/ pending[al].on /\ (pending[al].active <=> sample[al] # "ok") /\ pending[al].age >= Debounce
      BY <3>1, <3>2, <3>3, EvaluationIs
    <3> HIDE DEF o
    <3>5. ~(o.row.active <=> row[al].active) /\ row'[al] = o.row
      BY <3>1, <3>2, <3>3, <3>4 DEF o, States
    <3>6. /\ pending[al] \in Waits /\ steady[al].active \in BOOLEAN /\ steady[al].age \in Nat
      BY <3>1, <3>2, AlertSettings
    <3>7. steady[al].active <=> sample[al] # "ok"
      BY <3>1, <3>2, <3>3, <3>6 DEF H!WaitsForEdge
    <3>8. steady[al].active = o.row.active
      BY <3>4, <3>5, <3>6, <3>7 DEF States
    <3>9. steady[al].age >= Debounce
      <4>1. CASE Debounce = 0
        BY <3>6, <4>1
      <4>2. CASE pending[al].on /\ (pending[al].active <=> sample[al] # "ok") /\ pending[al].age >= Debounce
        <5>1. steady[al].active = pending[al].active
          BY <3>6, <3>7, <4>2 DEF Waits
        <5>2. pending[al].age <= steady[al].age
          BY <3>1, <3>2, <4>2, <5>1 DEF H!WaitsForEdge
        <5>3. pending[al].age \in Nat /\ Debounce \in Nat
          BY <3>6, AlertSettings DEF Waits
        <5> QED
          BY <3>6, <4>2, <5>2, <5>3
      <4> QED
        BY <3>4, <3>5, <4>1, <4>2
    <3> QED
      BY <3>3, <3>5, <3>8, <3>9
  <2>2. CASE \A a \in H!AlertIds \ {"capture_failed"} : row'[a].active = row[a].active
    BY <2>2
  <2>3. row \in [H!AlertIds -> States]
    BY <1>1 DEF AlertsInd, AlertsCore, StatesOK
  <2>4. H!Tick => \A a \in H!AlertIds : row'[a].active = row[a].active
    <3> SUFFICES ASSUME H!Tick, NEW a \in H!AlertIds PROVE row'[a].active = row[a].active
      OBVIOUS
    <3>1. row[a] \in States
      BY <2>3
    <3>2. row'[a] = IF row[a].active /\ a \notin H!Fingerprinted
                    THEN [row[a] EXCEPT !.age = H!Later(row[a].age)] ELSE row[a]
      BY DEF H!Tick
    <3> QED
      BY <3>1, <3>2 DEF States
  <2>5. H!RecordCapture("ok") \/ H!RecordCapture("f1") \/ H!FirstFrameArrives
          => \A a \in H!AlertIds \ {"capture_failed"} : row'[a] = row[a]
    BY <2>3 DEF H!RecordCapture, H!FirstFrameArrives
  <2>6. H!ClearCapture \/ H!CaptureFails => H!RecordCapture("ok") \/ H!RecordCapture("f1") \/ row' = row
    BY DEF H!ClearCapture, H!CaptureFails
  <2>7. H!Change \/ H!Collect \/ H!FrameArrives \/ H!CaptureEnds \/ H!Exit \/ H!Start \/ H!ClaimNotice \/ H!NoticeSettles => row' = row
    BY DEF H!Change, H!Collect, H!FrameArrives, H!CaptureEnds, H!Exit, H!Start, H!ClaimNotice, H!NoticeSettles
  <2> QED
    BY <1>1, <2>1, <2>2, <2>4, <2>5, <2>6, <2>7 DEF H!Next
<1>2. AlertsInd /\ [H!Next]_(H!vars) => [\A a \in H!AlertIds \ {"capture_failed"} :
                  row'[a].active # row[a].active =>
                    steady[a].active = row'[a].active /\ steady[a].age >= Debounce]_(H!vars)
  BY <1>1
<1> QED
  BY <1>2, AlertsAlways, PTL DEF H!Spec, H!EdgeIsSteady

\* A plain row that stays raised is sent again only after the cooldown (the reminder of
\* HealthAlerts.evaluate), whatever restarts and failing transactions come between.
THEOREM RemindersComeLate == H!Spec => H!RemindersAreRare
<1>1. ASSUME AlertsInd, H!Next
      PROVE  \A a \in ids \ (H!Fingerprinted \cup H!Recording) :
               row[a].active /\ row'[a].active /\ row'[a].age < row[a].age => row[a].age >= Cooldown
  <2> SUFFICES ASSUME NEW a \in ids \ (H!Fingerprinted \cup H!Recording),
                      row[a].active, row'[a].active, row'[a].age < row[a].age
               PROVE  row[a].age >= Cooldown
    OBVIOUS
  <2>1. /\ StatesOK /\ QueueOK /\ H!Sampled /\ row \in [H!AlertIds -> States]
    BY <1>1 DEF AlertsInd, AlertsCore, StatesOK
  <2>2. a \in H!AlertIds /\ a \notin H!Fingerprinted /\ a \notin H!Recording /\ a # "capture_failed"
    BY <2>1, OneEvent, Recordings
  <2>3. row[a] \in States /\ row[a].age \in Nat /\ ~(row[a].age < row[a].age)
    BY <2>1, <2>2, AlertSettings DEF States
  <2>4. row'[a] # row[a]
    BY <2>3
  <2>5. CASE H!TickHealth
    <3>1. PICK al \in ids \ {"capture_failed"} :
            /\ al \in H!AlertIds /\ sample[al] \in H!Seen \cup {"recovering"}
            /\ al \notin H!Fingerprinted => sample[al] # "f2"
            /\ \/ row' = row
               \/ sample[al] # "recovering" /\ row' = [row EXCEPT ![al] = H!Evaluated(al, sample[al]).row]
      BY <1>1, <2>5, TickHealthIs DEF H!RollsBack
    <3>2. a = al /\ sample[al] \in H!Seen /\ row'[al] = H!Evaluated(al, sample[al]).row
      BY <2>1, <2>2, <2>4, <3>1
    <3> DEFINE o == H!Evaluated(al, sample[al])
    <3>3. o.row.active /\ row[al].active /\ o.row.age < row[al].age =>
            al \in H!Fingerprinted \/ row[al].age >= Cooldown
      BY <2>1, <3>1, <3>2, EvaluationIs
    <3> QED
      BY <2>2, <3>2, <3>3
  <2>6. CASE H!Tick
    <3>1. row'[a] = [row[a] EXCEPT !.age = H!Later(row[a].age)]
      BY <2>2, <2>6 DEF H!Tick
    <3>2. row'[a].age = H!Later(row[a].age)
      BY <2>3, <3>1 DEF States
    <3> QED
      BY <2>3, <3>2 DEF H!Later
  <2>7. H!RecordCapture("ok") \/ H!RecordCapture("f1") \/ H!FirstFrameArrives => row'[a] = row[a]
    BY <2>1, <2>2 DEF H!RecordCapture, H!FirstFrameArrives
  <2>8. H!ClearCapture \/ H!CaptureFails => H!RecordCapture("ok") \/ H!RecordCapture("f1") \/ row' = row
    BY DEF H!ClearCapture, H!CaptureFails
  <2>9. H!Change \/ H!Collect \/ H!FrameArrives \/ H!CaptureEnds \/ H!Exit \/ H!Start \/ H!ClaimNotice \/ H!NoticeSettles => row' = row
    BY DEF H!Change, H!Collect, H!FrameArrives, H!CaptureEnds, H!Exit, H!Start, H!ClaimNotice, H!NoticeSettles
  <2> QED
    BY <1>1, <2>4, <2>5, <2>6, <2>7, <2>8, <2>9 DEF H!Next
<1>2. AlertsInd /\ [H!Next]_(H!vars) =>
        [\A a \in ids \ (H!Fingerprinted \cup H!Recording) :
           row[a].active /\ row'[a].active /\ row'[a].age < row[a].age => row[a].age >= Cooldown]_(H!vars)
  BY <1>1
<1> QED
  BY <1>2, AlertsAlways, PTL DEF H!Spec, H!RemindersAreRare
=============================================================================
