------------------------------- MODULE Digest -------------------------------
(***************************************************************************)
(* The daily digest (src/digest/daily.ts, src/digest/delivery.ts): two     *)
(* schedulers and a command build the same day's snapshot, the first to    *)
(* commit wins, and what is published and uploaded is the winner's.        *)
(*                                                                         *)
(* An agent is a process or a loop that may be in the middle of the work:  *)
(* the daemon's scheduler, the launchd fallback (`digest scheduled`), the  *)
(* command (`digest DATE`) and the outbox sender.  The daemon's builder is *)
(* synchronous up to its commit, so no session of its own process moves    *)
(* meanwhile; the other processes interleave with everything.              *)
(***************************************************************************)
EXTENDS Naturals, FiniteSets

CONSTANTS
    Sessions,
    LastDay,     \* bound: calendar days
    MaxRevision, \* bound: transcript revisions of a session
    InlineRows,  \* a digest of at most so many sessions is sent as text
    MaxFaults    \* bound: crashes, changed files, failing writes, manual retries, clock set back

Days == 1 .. LastDay
Builders == {"daemon", "launchd", "command"}
Agents == Builders \cup {"outbox"}
Unfinished == {"ACTIVE", "FINALIZING", "PROCESSING", "DELIVERING"}
Ended == {"DONE", "FAILED", "LOST"}    \* LOST: failed with nothing to recognise again
Rows == Sessions \X (0 .. MaxRevision)
Views == SUBSET Rows
Pending == [day |-> 0, view |-> {}]

DigestAssumption ==
    /\ IsFiniteSet(Sessions)
    /\ {InlineRows, MaxFaults} \subseteq Nat
    /\ {LastDay, MaxRevision} \subseteq Nat \ {0}

VARIABLES
    today, due, \* the local date, and whether digest.atLocalTime has passed
    session,    \* audio_sessions, with its current revision and the one summarised
    digests,    \* the rows of the stored digest of a day
    stored,     \* the days that have one
    outbox,     \* state of the row digest:<date>
    payload,    \* the view its payload was rendered from
    files,      \* content of the documents, by day and content address
    temps,      \* private temporary files, by the agent writing them
    agent,      \* what each agent is doing, for which day, with which view
    up,         \* the daemon runs
    uploaded,   \* what Telegram received for a day
    faults      \* bound counter

clock == <<today, due>>
pair == <<digests, stored, outbox, payload>>
disk == <<files, temps>>
vars == <<clock, session, pair, disk, agent, up, uploaded, faults>>

Stages == {"idle", "build", "publish", "verify", "write", "link", "reverify", "send"}
Contents == {"right", "foreign"}
Received == {"none", "snapshot", "other"}

TypeOK ==
    /\ today \in Days /\ due \in BOOLEAN
    /\ session \in [Sessions ->
          [state : Unfinished \cup Ended \cup {"none"}, day : 0 .. LastDay,
           revision : 0 .. MaxRevision, summary : 0 .. MaxRevision]]
    /\ \A s \in Sessions : session[s].summary <= session[s].revision
    /\ stored \subseteq Days
    /\ digests \in [Days -> Views] /\ payload \in [Days -> Views]
    /\ outbox \in [Days -> {"none", "pending", "sending", "sent", "dead"}]
    /\ files \subseteq Days \X Views \X Contents
    /\ \A f, g \in files : f[1] = g[1] /\ f[2] = g[2] => f = g
    /\ temps \subseteq (Agents \cup {"orphan"}) \X Days \X Views
    /\ agent \in [Agents -> [stage : Stages, day : 0 .. LastDay, view : Views]]
    /\ up \in BOOLEAN
    /\ uploaded \in [Days -> Received]
    /\ faults \in 0 .. MaxFaults

Idle == [stage |-> "idle", day |-> 0, view |-> {}]

Init ==
    /\ today = 1 /\ due = FALSE
    /\ session = [s \in Sessions |-> [state |-> "none", day |-> 0, revision |-> 0, summary |-> 0]]
    /\ digests = [d \in Days |-> {}] /\ stored = {}
    /\ outbox = [d \in Days |-> "none"] /\ payload = [d \in Days |-> {}]
    /\ files = {} /\ temps = {}
    /\ agent = [a \in Agents |-> Idle]
    /\ up = TRUE
    /\ uploaded = [d \in Days |-> "none"]
    /\ faults = 0

-----------------------------------------------------------------------------
(* The clock and the sessions *)

Tick ==
    /\ \/ ~due /\ due' = TRUE /\ UNCHANGED today
       \/ due /\ today < LastDay /\ today' = today + 1 /\ due' = FALSE
    /\ UNCHANGED <<session, pair, disk, agent, up, uploaded, faults>>

\* The hour that repeats when summer time ends.
HourRepeats ==
    /\ due /\ faults < MaxFaults
    /\ due' = FALSE /\ faults' = faults + 1
    /\ UNCHANGED <<today, session, pair, disk, agent, up, uploaded>>

DaemonFree == up /\ agent["daemon"].stage \notin {"build", "publish"}

Follows == [ACTIVE |-> "FINALIZING", FINALIZING |-> "PROCESSING", DELIVERING |-> "DONE"]

\* Recognition yields the first revision, with or without a summary, or finds the one
\* it left before it failed; a finished session may get another revision, and the
\* summary of it later.
SessionMoves(s) ==
    LET r == session[s]
        recognised == IF r.revision = 0 THEN 1 ELSE r.revision
        Becomes(next) == session' = [session EXCEPT ![s] = next] IN
    /\ DaemonFree
    /\ \/ r.state = "none" /\ Becomes([r EXCEPT !.state = "ACTIVE", !.day = today])
       \/ r.state \in {"ACTIVE", "FINALIZING"} /\ Becomes([r EXCEPT !.state = "LOST"])
       \/ r.state \in {"PROCESSING", "DELIVERING"} /\ Becomes([r EXCEPT !.state = "FAILED"])
       \/ r.state \in DOMAIN Follows /\ Becomes([r EXCEPT !.state = Follows[r.state]])
       \/ r.state = "PROCESSING" /\ \E m \in {r.summary, recognised} :
            Becomes([r EXCEPT !.state = "DELIVERING", !.revision = recognised, !.summary = m])
       \/ r.state = "DONE" /\ r.revision < MaxRevision /\ Becomes([r EXCEPT !.revision = @ + 1])
       \/ r.state = "DONE" /\ r.summary # r.revision /\ Becomes([r EXCEPT !.summary = r.revision])
    /\ UNCHANGED <<clock, pair, disk, agent, up, uploaded, faults>>

\* `jobs retry` of a dead recognition, at any moment, after the digest of the day too.
JobsRetry(s) ==
    /\ session[s].state = "FAILED" /\ faults < MaxFaults
    /\ session' = [session EXCEPT ![s].state = "PROCESSING"] /\ faults' = faults + 1
    /\ UNCHANGED <<clock, pair, disk, agent, up, uploaded>>

-----------------------------------------------------------------------------
(* Building and publishing the snapshot *)

\* Mutant: a failed session counts as one that may still finish.
NotDoneOn(d) == {s \in Sessions : session[s].day = d /\ session[s].state \in Unfinished \cup {"FAILED", "LOST"}}

UnfinishedOn(d) == {s \in Sessions : session[s].day = d /\ session[s].state \in Unfinished}

\* A summary counts only for the current revision.
Facts(d) ==
    {<<s, IF session[s].summary = session[s].revision THEN session[s].summary ELSE 0>> :
       s \in {t \in Sessions : session[t].day = d /\ session[t].state = "DONE"}}

ScheduledDate == IF due THEN today ELSE today - 1

Goto(a, stage, d, view) == agent' = [agent EXCEPT ![a] = [stage |-> stage, day |-> d, view |-> view]]
Finish(a) == agent' = [agent EXCEPT ![a] = Idle]

\* A stored digest, or rather its document, is only verified.
EnsureOrBuild(b, d) ==
    /\ IF d \in stored THEN Goto(b, "verify", d, payload[d])
       ELSE /\ b # "command" => UnfinishedOn(d) = {}
            /\ Goto(b, "build", d, {})
    /\ UNCHANGED <<clock, session, pair, disk, up, uploaded, faults>>

\* #tickDigest and `digest scheduled`; `digest DATE` may name any day.
Begin(b) ==
    /\ agent[b] = Idle
    /\ b = "daemon" => up
    /\ \E d \in Days :
         /\ b # "command" => d = ScheduledDate
         /\ EnsureOrBuild(b, d)

BuildDigest(b) ==
    /\ agent[b].stage = "build"
    /\ Goto(b, "publish", agent[b].day, Facts(agent[b].day))
    /\ UNCHANGED <<clock, session, pair, disk, up, uploaded, faults>>

\* Mutant: the publication compares only the sessions of the snapshot.
CurrentRows(d, view) == view = Facts(d)

StillCurrent(d, view) == UnfinishedOn(d) = {} /\ view = Facts(d)

Insert(d, view) ==
    /\ stored' = stored \cup {d}
    /\ digests' = [digests EXCEPT ![d] = view]
    /\ outbox' = [outbox EXCEPT ![d] = "pending"]
    /\ payload' = [payload EXCEPT ![d] = view]

\* Mutant: the loser goes on with the document it built.
LoserPublishes(b) ==
    /\ agent[b].stage = "publish"
    /\ LET d == agent[b].day  view == agent[b].view IN
         \/ d \in stored /\ Goto(b, "verify", d, view) /\ UNCHANGED pair
         \/ d \notin stored /\ ~StillCurrent(d, view) /\ Finish(b) /\ UNCHANGED pair
         \/ d \notin stored /\ StillCurrent(d, view) /\ Insert(d, view) /\ Goto(b, "verify", d, view)
    /\ UNCHANGED <<clock, session, disk, up, uploaded, faults>>

\* 'exists', 'stale' or 'inserted'; whoever lost goes on with the winner's row.
PublishDigestSnapshot(b) ==
    /\ agent[b].stage = "publish"
    /\ LET d == agent[b].day  view == agent[b].view IN
         \/ d \in stored /\ Goto(b, "verify", d, payload[d]) /\ UNCHANGED pair
         \/ d \notin stored /\ ~StillCurrent(d, view) /\ Finish(b) /\ UNCHANGED pair
         \/ d \notin stored /\ StillCurrent(d, view) /\ Insert(d, view) /\ Goto(b, "verify", d, view)
    /\ UNCHANGED <<clock, session, disk, up, uploaded, faults>>

-----------------------------------------------------------------------------
(* The document: ensureDigestDeliveryArtifact, by a builder or by the sender *)

Inline(view) == Cardinality(view) <= InlineRows

ContentAt(d, view) ==
    IF <<d, view, "right">> \in files THEN "right"
    ELSE IF <<d, view, "foreign">> \in files THEN "foreign" ELSE "absent"

\* What follows an artifact proved good, and one proved wrong (409, for good).
Proved(a) ==
    /\ IF a = "outbox" THEN Goto(a, "send", agent[a].day, agent[a].view) ELSE Finish(a)
    /\ UNCHANGED outbox

Refuted(a) ==
    /\ Finish(a)
    /\ IF a = "outbox" THEN outbox' = [outbox EXCEPT ![agent[a].day] = "dead"] ELSE UNCHANGED outbox

\* Any other failure: the sender tries again later, a builder at its next run.
Failed(a) ==
    /\ Finish(a)
    /\ IF a = "outbox" THEN outbox' = [outbox EXCEPT ![agent[a].day] = "pending"] ELSE UNCHANGED outbox

Verify(a) ==
    /\ agent[a].stage = "verify"
    /\ LET d == agent[a].day  view == agent[a].view  found == ContentAt(d, view) IN
         \/ (Inline(view) \/ found = "right") /\ Proved(a)
         \/ ~Inline(view) /\ found = "foreign" /\ Refuted(a)
         \/ ~Inline(view) /\ found = "absent" /\ Goto(a, "write", d, view) /\ UNCHANGED outbox
    /\ UNCHANGED <<clock, session, digests, stored, payload, disk, up, uploaded, faults>>

\* The temporary file is named for the process and a random number.
WriteTemp(a) ==
    /\ agent[a].stage = "write"
    /\ temps' = temps \cup {<<a, agent[a].day, agent[a].view>>}
    /\ Goto(a, "link", agent[a].day, agent[a].view)
    /\ UNCHANGED <<clock, session, pair, files, up, uploaded, faults>>

\* Mutant: the existing path is not looked at.
LinkBeside(a) ==
    LET d == agent[a].day  view == agent[a].view  mine == <<a, d, view>> IN
    /\ agent[a].stage = "link"
    /\ files' = IF mine \in temps THEN files \cup {<<d, view, "right">>} ELSE files
    /\ temps' = temps \ {mine}
    /\ Goto(a, "reverify", d, view)
    /\ UNCHANGED <<clock, session, pair, up, uploaded, faults>>

\* link refuses an existing path, and a temporary file somebody removed.
Link(a) ==
    LET d == agent[a].day  view == agent[a].view  mine == <<a, d, view>> IN
    /\ agent[a].stage = "link"
    /\ files' = IF mine \in temps /\ ContentAt(d, view) = "absent"
                THEN files \cup {<<d, view, "right">>} ELSE files
    /\ temps' = temps \ {mine}
    /\ Goto(a, "reverify", d, view)
    /\ UNCHANGED <<clock, session, pair, up, uploaded, faults>>

Reverify(a) ==
    /\ agent[a].stage = "reverify"
    /\ CASE ContentAt(agent[a].day, agent[a].view) = "right" -> Proved(a)
         [] ContentAt(agent[a].day, agent[a].view) = "foreign" -> Refuted(a)
         [] OTHER -> Failed(a)
    /\ UNCHANGED <<clock, session, digests, stored, payload, disk, up, uploaded, faults>>

-----------------------------------------------------------------------------
(* The outbox sender *)

ClaimDigest ==
    /\ up /\ agent["outbox"] = Idle
    /\ \E d \in Days :
         /\ outbox[d] = "pending"
         /\ outbox' = [outbox EXCEPT ![d] = "sending"]
         /\ Goto("outbox", "verify", d, payload[d])
    /\ UNCHANGED <<clock, session, digests, stored, payload, disk, up, uploaded, faults>>

Upload(d, view, bytes) ==
    /\ Finish("outbox")
    /\ outbox' = [outbox EXCEPT ![d] = "sent"]
    /\ uploaded' = [uploaded EXCEPT ![d] =
         IF bytes = "right" /\ d \in stored /\ digests[d] = view THEN "snapshot" ELSE "other"]

\* Mutant: the bytes are not read again after the proof.
SendPath ==
    LET d == agent["outbox"].day  view == agent["outbox"].view IN
    /\ agent["outbox"].stage = "send"
    /\ IF Inline(view) \/ ContentAt(d, view) = "right" THEN Upload(d, view, "right")
       ELSE IF ContentAt(d, view) = "foreign" THEN Upload(d, view, "foreign")
       ELSE Failed("outbox") /\ UNCHANGED uploaded
    /\ UNCHANGED <<clock, session, digests, stored, payload, disk, up, faults>>

\* The bytes are read once, compared with the row, and those bytes are sent.
SendPayload ==
    LET d == agent["outbox"].day  view == agent["outbox"].view IN
    /\ agent["outbox"].stage = "send"
    /\ IF Inline(view) \/ ContentAt(d, view) = "right" THEN Upload(d, view, "right")
       ELSE /\ IF ContentAt(d, view) = "foreign" THEN Refuted("outbox") ELSE Failed("outbox")
            /\ UNCHANGED uploaded
    /\ UNCHANGED <<clock, session, digests, stored, payload, disk, up, faults>>

-----------------------------------------------------------------------------
(* Faults, all of them bounded together *)

Fault == faults < MaxFaults /\ faults' = faults + 1

Orphaned(A) == {<<IF t[1] \in A THEN "orphan" ELSE t[1], t[2], t[3]>> : t \in temps}

\* Mutant: a restart leaves the claim of the sender as it was.
CrashKeepsClaim(A) ==
    /\ Fault
    /\ agent' = [a \in Agents |-> IF a \in A THEN Idle ELSE agent[a]]
    /\ temps' = Orphaned(A)
    /\ up' = (up /\ "daemon" \notin A)
    /\ UNCHANGED <<clock, session, pair, files, uploaded>>

\* A process ends; the claim of the sender returns at the next start (recoverSending).
CrashOf(A) ==
    /\ Fault
    /\ agent' = [a \in Agents |-> IF a \in A THEN Idle ELSE agent[a]]
    /\ temps' = Orphaned(A)
    /\ up' = (up /\ "daemon" \notin A)
    /\ outbox' = [d \in Days |-> IF "outbox" \in A /\ outbox[d] = "sending" THEN "pending" ELSE outbox[d]]
    /\ UNCHANGED <<clock, session, digests, stored, payload, files, uploaded>>

Crash == CrashOf({"daemon", "outbox"}) \/ CrashOf({"launchd"}) \/ CrashOf({"command"})

\* Startup removes the temporary files of stored digests, whoever is writing them.
CleanupDurableDigestTemps ==
    /\ ~up
    /\ up' = TRUE
    /\ temps' = {t \in temps : ~(t[2] \in stored /\ payload[t[2]] = t[3])}
    /\ UNCHANGED <<clock, session, pair, files, agent, uploaded, faults>>

\* Somebody changes the document or puts a file in its place, or removes it.
FileChanges ==
    /\ Fault
    /\ \E d \in stored :
         \/ files' = {f \in files : f[1] # d} \cup {<<d, payload[d], "foreign">>}
         \/ files' = {f \in files : f[1] # d}
    /\ UNCHANGED <<clock, session, pair, temps, agent, up, uploaded>>

\* A file cannot be opened, written or linked, or Telegram does not answer.
StepFails(a) ==
    /\ Fault
    /\ agent[a].stage \in {"verify", "write", "link", "reverify", "send"}
    /\ Failed(a)
    /\ temps' = {t \in temps : t[1] # a}
    /\ UNCHANGED <<clock, session, digests, stored, payload, files, up, uploaded>>

\* `outbox retry` of a digest that failed for good.
RetryDead ==
    /\ Fault
    /\ \E d \in Days : outbox[d] = "dead" /\ outbox' = [outbox EXCEPT ![d] = "pending"]
    /\ UNCHANGED <<clock, session, digests, stored, payload, disk, agent, up, uploaded>>

Builds(b) == Begin(b) \/ BuildDigest(b) \/ PublishDigestSnapshot(b)
Ensures(a) == Verify(a) \/ WriteTemp(a) \/ Link(a) \/ Reverify(a)

Next ==
    \/ Tick \/ HourRepeats
    \/ \E s \in Sessions : SessionMoves(s) \/ JobsRetry(s)
    \/ \E b \in Builders : Builds(b)
    \/ \E a \in Agents : Ensures(a) \/ StepFails(a)
    \/ ClaimDigest \/ SendPayload
    \/ Crash \/ CleanupDurableDigestTemps \/ FileChanges \/ RetryDead

Spec == Init /\ [][Next]_vars

\* The daemon is restarted and its loops run; a session moves on until it is
\* settled. Neither launchd nor the command is relied on.
Fairness ==
    /\ WF_vars(Tick)
    /\ WF_vars(CleanupDurableDigestTemps)
    /\ WF_vars(Builds("daemon")) /\ WF_vars(Ensures("daemon"))
    /\ WF_vars(Ensures("outbox") \/ SendPayload) /\ SF_vars(ClaimDigest)
    /\ \A s \in Sessions :
         WF_vars(SessionMoves(s) /\ session[s].state \in Unfinished)

LiveSpec == Spec /\ Fairness

-----------------------------------------------------------------------------
(* Properties *)

Settled(d) == \A s \in Sessions : session[s].day = d => session[s].state \in Ended

\* The rows of a digest are written once, when no session of the day is in
\* progress, and are then exactly its finished sessions with the summaries of
\* their current revisions, however long ago they were read
\* (digestSnapshotStillCurrent inside the transaction, storeDigest).
SnapshotIsComplete ==
    [][\A d \in Days :
         (d \in stored' /\ d \notin stored => Settled(d) /\ digests'[d] = Facts(d))
         /\ (d \in stored => d \in stored' /\ digests'[d] = digests[d])]_vars

\* "A concurrent loser creates no artifact": every document the program wrote
\* is the one the stored digest of its day names.
OnlyWinnerOnDisk ==
    \A f \in files \cup {<<t[2], t[3], "right">> : t \in temps} :
        f[1] \in stored /\ f[2] = digests[f[1]]

\* What Telegram received for a day is the stored snapshot of that day,
\* whatever happened to the document between its proof and the upload.
UploadedIsSnapshot == \A d \in Days : uploaded[d] \in {"none", "snapshot"}

\* When the clock stays on a day whose digest is due and its sessions settle,
\* its digest is stored.
LastDayDigested ==
    <>[](ScheduledDate = LastDay /\ Settled(LastDay)) => <>(LastDay \in stored)

\* A stored digest reaches the chat, or is given up over a document that
\* somebody else changed; it is never left claimed or waiting for a file.
StoredIsDelivered ==
    \A d \in Days : d \in stored ~> outbox[d] \in {"sent", "dead"}
-----------------------------------------------------------------------------
(* The facts behind them *)

\* The row and its payload are written together, for a day that gets a digest.
PairWritten ==
    /\ payload = digests
    /\ \A d \in Days : d \notin stored => outbox[d] = "none"

\* Whoever handles a document handles the one the stored digest of its day names.
WinnerInHand ==
    \A a \in Agents :
        /\ agent[a].stage # "idle" => agent[a].day \in Days
        /\ agent[a].stage \notin {"idle", "build", "publish"} =>
            agent[a].day \in stored /\ agent[a].view = payload[agent[a].day]

\* A session gets its day when it starts.
DayAtStart == \A s \in Sessions : session[s].state = "none" => session[s].day = 0
=============================================================================
