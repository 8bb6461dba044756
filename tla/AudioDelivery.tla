---------------------------- MODULE AudioDelivery ----------------------------
(***************************************************************************)
(* The deliver_audio job of one session (src/jobs/delivery.ts): every      *)
(* finalized part becomes one outbox document, or, when it exceeds the     *)
(* upload limit, a manifest of losslessly split pieces in temporary files. *)
(* The job is claimed, reclaimed and replayed; a handler that lost its     *)
(* lease keeps running beside its successor until its next lease check.    *)
(*                                                                         *)
(* The queue and the outbox appear by what they promise (JobQueue, Outbox):*)
(* only the newest claim passes assertLease, and a pending row is sent,    *)
(* dies, and may be revived by the operator.                               *)
(***************************************************************************)
EXTENDS Naturals, FiniteSets

CONSTANTS
    NParts,      \* finalized parts of the session, numbered by part_index
    Size,        \* Size[p]: bytes of part p, in units of the smallest limit
    Limits,      \* values telegram.maxOutgoingBytes takes over the restarts
    MostPieces,  \* bound: pieces of the largest part under the smallest limit
    MaxClaims,   \* bound: claims of the job
    MaxRestarts  \* bound: crashes and restarts, each with a limit of its own

Parts == 1 .. NParts

Pieces(p, max) == (Size[p] + max - 1) \div max

AudioAssumption ==
    /\ NParts \in Nat
    /\ Size \in [Parts -> Nat \ {0}]
    /\ Limits # {} /\ Limits \subseteq Nat \ {0}
    /\ MostPieces \in Nat /\ \A p \in Parts, l \in Limits : Pieces(p, l) <= MostPieces
    /\ MaxClaims \in Nat
    /\ MaxRestarts \in Nat

VARIABLES
    limit,      \* the configured upload limit
    source,     \* source[p]: "present", "deleted" by retention (deleted_at), or "vanished"
    job,        \* the deliver_audio job, without its lease
    claims,     \* generation of the newest claim; it holds the lease while job = "leased"
    worker,     \* worker[g]: the handler of claim g, which may have lost its lease
    rows,       \* telegram_outbox: the document for a piece of a part
    files,      \* split artifacts in tempDir
    delivered,  \* audio_parts.delivered
    chat,       \* history: pieces of audio in the chat
    restarts    \* bound counter

vars == <<limit, source, job, claims, worker, rows, files, delivered, chat, restarts>>

\* Piece 0 is the whole file (audio:ID); piece i + 1 is audio:ID:split<i>.
Piece == 0 .. MostPieces
Gens == 1 .. MaxClaims

\* `of` is the number of pieces of the split the row belongs to; `gen` names its file.
Row == [state : {"absent", "pending", "sent", "dead"}, of : 0 .. MostPieces, gen : 0 .. MaxClaims]
NoRow == [state |-> "absent", of |-> 0, gen |-> 0]

\* Mutant: reclaimed workers share the derived paths.
SharedArtifact(p, i, g) == <<p, i, 1>>

\* Artifacts carry the claim in their name (generatedStem).
Artifact(p, i, g) == <<p, i, g>>

Idle == [pc |-> "idle", at |-> 1, parts |-> {}, cut |-> 0]
Worker == [pc : {"idle", "preflight", "publish", "split", "commit"}, at : 1 .. NParts + 1,
           parts : SUBSET Parts, cut : 0 .. MostPieces]

TypeOK ==
    /\ limit \in Limits
    /\ source \in [Parts -> {"present", "deleted", "vanished"}]
    /\ job \in {"pending", "leased", "done", "dead"}
    /\ claims \in 0 .. MaxClaims
    /\ worker \in [Gens -> Worker]
    /\ rows \in [Parts -> [Piece -> Row]]
    /\ files \subseteq Parts \X Piece \X Gens
    /\ delivered \in [Parts -> BOOLEAN]
    /\ chat \subseteq Parts \X Piece \X (0 .. MostPieces)
    /\ restarts \in 0 .. MaxRestarts

Init ==
    /\ limit \in Limits
    /\ source = [p \in Parts |-> "present"]
    /\ job = "pending"
    /\ claims = 0
    /\ worker = [g \in Gens |-> Idle]
    /\ rows = [p \in Parts |-> [i \in Piece |-> NoRow]]
    /\ files = {}
    /\ delivered = [p \in Parts |-> FALSE]
    /\ chat = {}
    /\ restarts = 0

-----------------------------------------------------------------------------
(* The job *)

\* assertLease, as JobQueue!PublishedByNewestClaim promises it
Current(g) == job = "leased" /\ g = claims

Claim ==
    /\ job = "pending" /\ claims < MaxClaims
    /\ claims' = claims + 1
    /\ job' = "leased"
    /\ worker' = [worker EXCEPT ![claims + 1] =
                    [Idle EXCEPT !.pc = "preflight", !.parts = {p \in Parts : source[p] # "deleted"}]]
    /\ UNCHANGED <<limit, source, rows, files, delivered, chat, restarts>>

\* The lease of a handler that still runs is returned.
LoseLease ==
    /\ job = "leased"
    /\ job' = "pending"
    /\ UNCHANGED <<limit, source, claims, worker, rows, files, delivered, chat, restarts>>

\* The process dies; the next one may run with another configuration.
Restart ==
    /\ restarts < MaxRestarts
    /\ restarts' = restarts + 1
    /\ limit' \in Limits
    /\ worker' = [g \in Gens |-> Idle]
    /\ job' = IF job = "leased" THEN "pending" ELSE job
    /\ UNCHANGED <<source, claims, rows, files, delivered, chat>>

\* The handler throws: a current claim is retried or, its attempts spent, dead.
Throws(g, left) ==
    /\ worker' = [worker EXCEPT ![g] = Idle]
    /\ files' = left
    /\ IF Current(g) THEN job' \in {"pending", "dead"} ELSE job' = job
    /\ UNCHANGED <<limit, source, claims, rows, delivered, chat, restarts>>

RetryJob ==
    /\ job = "dead" /\ claims < MaxClaims
    /\ job' = "pending"
    /\ UNCHANGED <<limit, source, claims, worker, rows, files, delivered, chat, restarts>>

-----------------------------------------------------------------------------
(* enqueueSessionAudio *)

\* Mutant: a part is skipped.
AdvanceTwice(g, pc) == worker' = [worker EXCEPT ![g].pc = pc, ![g].at = @ + 2]

Advance(g, pc) == worker' = [worker EXCEPT ![g].pc = pc, ![g].at = @ + 1]

\* stat of each part's source, before any row is published
Preflight(g) ==
    LET p == worker[g].at IN
    /\ worker[g].pc = "preflight"
    /\ IF p > NParts
       THEN /\ worker' = [worker EXCEPT ![g].pc = "publish", ![g].at = 1]
            /\ UNCHANGED <<job, files>>
       ELSE IF p \in worker[g].parts /\ (source[p] # "present" \/ ~Current(g))
       THEN Throws(g, files)
       ELSE Advance(g, "preflight") /\ UNCHANGED <<job, files>>
    /\ UNCHANGED <<limit, source, claims, rows, delivered, chat, restarts>>

\* replayUsesExistingAudioDeliveries: throws for a live unsplit row or a lost artifact.
Replays(p) == \E i \in Piece : rows[p][i].state # "absent"
ReplayThrows(p) ==
    \/ rows[p][0].state = "pending"
    \/ \E i \in Piece \ {0} : rows[p][i].state = "pending" /\ Artifact(p, i, rows[p][i].gen) \notin files

PublishDirect(g) ==
    LET p == worker[g].at IN
    /\ worker[g].pc = "publish" /\ p \in worker[g].parts /\ Size[p] <= limit
    /\ IF Current(g)
       THEN /\ rows' = IF rows[p][0].state = "absent"
                       THEN [rows EXCEPT ![p][0] = [NoRow EXCEPT !.state = "pending"]]
                       ELSE rows
            /\ Advance(g, "publish")
            /\ UNCHANGED <<limit, source, job, claims, files, delivered, chat, restarts>>
       ELSE Throws(g, files)

Oversize(g) ==
    LET p == worker[g].at IN
    /\ worker[g].pc = "publish" /\ p \in worker[g].parts /\ Size[p] > limit
    /\ IF ~Current(g) \/ (Replays(p) /\ ReplayThrows(p))
       THEN Throws(g, files)
       ELSE /\ IF Replays(p) THEN Advance(g, "publish") ELSE worker' = [worker EXCEPT ![g].pc = "split"]
            /\ UNCHANGED <<limit, source, job, claims, rows, files, delivered, chat, restarts>>

\* splitFlacLossless: leftovers of this stem are removed, then ffmpeg writes the pieces.
Own(p, g) == {Artifact(p, i, g) : i \in Piece \ {0}}

Split(g) ==
    LET p == worker[g].at
        n == Pieces(p, limit) IN
    /\ worker[g].pc = "split"
    /\ \/ /\ source[p] = "present"
          /\ files' = (files \ Own(p, g)) \cup {Artifact(p, i, g) : i \in 1 .. n}
          /\ worker' = [worker EXCEPT ![g].pc = "commit", ![g].cut = n]
          /\ UNCHANGED <<limit, source, job, claims, rows, delivered, chat, restarts>>
       \/ Throws(g, files \ Own(p, g))

\* Mutant: each piece is published by a transaction of its own, and the handler may die between.
CommitFirst(g) ==
    LET p == worker[g].at IN
    /\ worker[g].pc = "commit" /\ Current(g)
    /\ rows' = [rows EXCEPT ![p][1] = [state |-> "pending", of |-> worker[g].cut, gen |-> g]]
    /\ Advance(g, "publish")
    /\ UNCHANGED <<limit, source, job, claims, files, delivered, chat, restarts>>

\* The transaction that publishes the whole manifest, and what follows it outside.
CommitSplit(g) ==
    LET p == worker[g].at
        cut == 1 .. worker[g].cut
        Conflict(i) == rows[p][i].state # "absent" IN
    /\ worker[g].pc = "commit"
    /\ IF ~Current(g) \/ \E i \in cut : rows[p][i].state = "pending"
       THEN Throws(g, files \ Own(p, g))
       ELSE /\ rows' = [rows EXCEPT ![p] =
                 [i \in Piece |-> IF i \in cut /\ ~Conflict(i)
                                  THEN [state |-> "pending", of |-> worker[g].cut, gen |-> g]
                                  ELSE rows[p][i]]]
            /\ files' = files \ {Artifact(p, i, g) : i \in {k \in cut : Conflict(k)}}
            /\ Advance(g, "publish")
            /\ UNCHANGED <<limit, source, job, claims, delivered, chat, restarts>>

SkipPart(g) ==
    /\ worker[g].pc = "publish" /\ worker[g].at \in Parts \ worker[g].parts
    /\ Advance(g, "publish")
    /\ UNCHANGED <<limit, source, job, claims, rows, files, delivered, chat, restarts>>

Finish(g) ==
    /\ worker[g].pc = "publish" /\ worker[g].at > NParts
    /\ worker' = [worker EXCEPT ![g] = Idle]
    /\ job' = IF Current(g) THEN "done" ELSE job
    /\ UNCHANGED <<limit, source, claims, rows, files, delivered, chat, restarts>>

-----------------------------------------------------------------------------
(* The outbox and the delivery facts *)

Existing(r, p) == {i \in Piece : r[p][i].state # "absent"}

\* Mutant: any acknowledged piece counts for the part.
PieceSent(r, p) == \E i \in Piece : r[p][i].state = "sent"

\* markAudioDelivered: the manifest of the part is one sent document or sent pieces 0 .. n-1.
ManifestSent(r, p) ==
    LET all == Existing(r, p) IN
    /\ all # {}
    /\ \A i \in all : r[p][i].state = "sent"
    /\ all = {0} \/ all = 1 .. Cardinality(all)

MarkAudioDelivered(r, p) == [delivered EXCEPT ![p] = @ \/ ManifestSent(r, p)]

\* An ephemeral file is removed after the commit, unless the process dies first.
Send(p, i) ==
    LET row == rows[p][i]
        after == [rows EXCEPT ![p][i].state = "sent"] IN
    /\ row.state = "pending"
    /\ IF i = 0 THEN source[p] = "present" /\ Size[p] <= limit
                ELSE Artifact(p, i, row.gen) \in files
    /\ rows' = after
    /\ chat' = chat \cup {<<p, i, row.of>>}
    /\ delivered' = MarkAudioDelivered(after, p)
    /\ files' \in {files, files \ {Artifact(p, i, row.gen)}}
    /\ UNCHANGED <<limit, source, job, claims, worker, restarts>>

\* A permanent error (the file over the limit among them) or a spent budget
Dies(p, i) ==
    /\ rows[p][i].state = "pending"
    /\ rows' = [rows EXCEPT ![p][i].state = "dead"]
    /\ UNCHANGED <<limit, source, job, claims, worker, files, delivered, chat, restarts>>

\* `outbox retry`, which verifies the file the row refers to
RetryRow(p, i) ==
    /\ rows[p][i].state = "dead"
    /\ IF i = 0 THEN source[p] = "present" ELSE Artifact(p, i, rows[p][i].gen) \in files
    /\ rows' = [rows EXCEPT ![p][i].state = "pending"]
    /\ UNCHANGED <<limit, source, job, claims, worker, files, delivered, chat, restarts>>

\* Retention deletes only what was delivered; anything else is an accident.
SourceGone(p) ==
    /\ source[p] = "present"
    /\ source' = [source EXCEPT ![p] = IF delivered[p] THEN "deleted" ELSE "vanished"]
    /\ UNCHANGED <<limit, job, claims, worker, rows, files, delivered, chat, restarts>>

Handler(g) ==
    \/ Preflight(g) \/ PublishDirect(g) \/ Oversize(g) \/ Split(g) \/ CommitSplit(g)
    \/ SkipPart(g) \/ Finish(g)

Next ==
    \/ Claim \/ LoseLease \/ Restart \/ RetryJob
    \/ \E g \in Gens : Handler(g)
    \/ \E p \in Parts : SourceGone(p)
    \/ \E p \in Parts, i \in Piece : Send(p, i) \/ Dies(p, i) \/ RetryRow(p, i)

Spec == Init /\ [][Next]_vars

-----------------------------------------------------------------------------
(* Properties *)

\* A part is only marked delivered, which retention takes as permission to delete its
\* source, when the chat holds the whole file or every piece of one split of it.
DeliveredWasHeard ==
    \A p \in Parts : delivered[p] =>
        \/ <<p, 0, 0>> \in chat
        \/ \E n \in 1 .. MostPieces : \A i \in 1 .. n : <<p, i, n>> \in chat

\* A queued piece always has its file: no reclaimed handler, failed split or replay of
\* the job removes or replaces an artifact that a row of another claim refers to.
QueuedPieceHasFile ==
    \A p \in Parts, i \in Piece \ {0} :
        rows[p][i].state = "pending" => Artifact(p, i, rows[p][i].gen) \in files

\* A finished delivery job has published every part that retention had not deleted, as
\* the whole file or as all pieces of one split, over all crashes and reclaims.
DoneJobPublishedAll ==
    job = "done" => \A p \in Parts : source[p] # "deleted" =>
        \/ rows[p][0].state # "absent"
        \/ \E i \in Piece \ {0} : /\ rows[p][i].state # "absent"
                                  /\ \A k \in 1 .. rows[p][i].of : rows[p][k].of = rows[p][i].of

\* What delivery.ts says of a retried job: it never publishes a second manifest of a
\* part.  The code refuses one direction only, a limit that was lowered.
OneManifestPerPart ==
    \A p \in Parts : ~(rows[p][0].state # "absent" /\ \E i \in Piece \ {0} : rows[p][i].state # "absent")

-----------------------------------------------------------------------------
(* The inductive invariant behind DeliveredWasHeard, QueuedPieceHasFile and  *)
(* DoneJobPublishedAll.                                                      *)

\* Handlers and rows are of claims that were made.
ClaimsCounted ==
    /\ \A g \in Gens : worker[g].pc # "idle" => g <= claims
    /\ \A p \in Parts, i \in Piece : rows[p][i].gen <= claims

\* A handler that splits is at a part of its claim, and never cuts it into nothing.
SplitsAPart ==
    \A g \in Gens :
        /\ worker[g].pc \in {"split", "commit"} => worker[g].at \in worker[g].parts
        /\ worker[g].pc = "commit" => worker[g].cut >= 1

\* The manifests of a handler that still runs are of parts it has left behind.
OwnRowsBehind ==
    \A g \in Gens, p \in Parts, i \in Piece :
        worker[g].pc # "idle" /\ rows[p][i].gen = g => worker[g].pc # "preflight" /\ p < worker[g].at

\* While the claim is current, nobody else publishes the part its handler splits.
SplitsUnpublished ==
    \A g \in Gens : Current(g) /\ worker[g].pc \in {"split", "commit"} => ~Replays(worker[g].at)

\* The pieces in the outbox are those of one split, and all of them.
WholeSplits ==
    \A p \in Parts, i \in Piece \ {0} : rows[p][i].state # "absent" =>
        /\ rows[p][i].of >= 1
        /\ \A k \in Piece \ {0} :
            /\ rows[p][k].state # "absent" <=> k <= rows[p][i].of
            /\ rows[p][k].state # "absent" => rows[p][k].of = rows[p][i].of

\* What Telegram acknowledged is in the chat, the whole file as piece 0 of none.
SentIsHeard ==
    \A p \in Parts, i \in Piece :
        /\ rows[p][i].state = "sent" => <<p, i, rows[p][i].of>> \in chat
        /\ rows[p][0].of = 0

\* The files of a split stay until its rows refer to them.
CutHasFiles ==
    \A g \in Gens : worker[g].pc = "commit" =>
        \A i \in 1 .. worker[g].cut : Artifact(worker[g].at, i, g) \in files

\* A handler leaves no part behind that retention had not deleted when it was claimed.
PublishedBehind ==
    \A g \in Gens : worker[g].pc # "idle" =>
        /\ \A q \in Parts \ worker[g].parts : source[q] = "deleted"
        /\ worker[g].pc # "preflight" => \A q \in worker[g].parts : q < worker[g].at => Replays(q)

DonePublished == job = "done" => \A q \in Parts : source[q] # "deleted" => Replays(q)

ManifestInv ==
    /\ ClaimsCounted /\ SplitsAPart /\ OwnRowsBehind /\ SplitsUnpublished /\ WholeSplits
    /\ SentIsHeard /\ CutHasFiles /\ PublishedBehind /\ DonePublished
=============================================================================
