-------------------------- MODULE MCDaemonOwnership --------------------------
(***************************************************************************)
(* Instances of DaemonOwnership for TLC.  Three processes race over a dead *)
(* predecessor, or two among commands and strangers: Crowd bounds the      *)
(* processes of a behaviour that has one of those.  A daemon of the        *)
(* earlier release starts among daemons only: maintenance shows it nothing *)
(* that it would respect, and neither does a command.                      *)
(***************************************************************************)
EXTENDS DaemonOwnership

CONSTANT Crowd \* bound: with a command given or a pid taken over, this process never starts

VARIABLES
    given,  \* history: a command has been given
    legacy, \* history: a daemon of the earlier release has started
    cleared \* history: a command has cleared the row of a dead owner

MCPids == {101, 102}
MCBoth == {"daemon", "maintenance"}
MCDaemons == {"daemon"}
MCCommands == {"stop", "mutate"}
MCStop == {"stop"}
MCNone == {}

MCInit == Init /\ given = FALSE /\ legacy = FALSE /\ cleared = FALSE

Histories ==
    /\ given' = (given \/ op'.step = "read")
    /\ legacy' = (legacy \/ \E g \in alive' \ alive : role'[g] = "legacy")
    /\ cleared' = (cleared \/ (op.step = "clear" /\ row' # row))

LegacyAmongDaemons ==
    legacy' => ~given' /\ \A g \in Gens : phase'[g] # "none" => role'[g] # "maintenance"

RootNext == Next /\ Histories /\ LegacyAmongDaemons

\* The system without bounds.
RootSpec == MCInit /\ [][RootNext]_<<vars, given, legacy, cleared>>

MCNext ==
    /\ RootNext
    /\ given' \/ reused' > 0 => \A g \in Gens : g >= Crowd => phase'[g] = "none"

MCSpec == MCInit /\ [][MCNext]_<<vars, given, legacy, cleared>> /\ Fairness

-----------------------------------------------------------------------------
(* The inductive invariant behind OneOwner and MutatesAlone. *)

LegacyUp(l) == Up(l) /\ role[l] = "legacy"

Apart ==
    /\ ~given => op.step = "idle"
    /\ legacy => ~given /\ \A g \in Gens : phase[g] # "none" => role[g] # "maintenance"

\* A daemon of the earlier release claims nothing.
LegacyClaimsNothing == \A l \in Gens : role[l] = "legacy" => phase[l] \in {"up", "gone"}

\* A daemon of the earlier release is shown by its mirror or, before any claim, its heartbeat.
LegacyShown ==
    \A l \in Gens : LegacyUp(l) =>
        /\ mirror = l \/ (mirror = 0 /\ heartbeat = l)
        /\ ~legacy => row = 0 /\ op.rec \in {0, l}
        /\ op.step # "write"

\* What a claim found lets it past no daemon of the earlier release that runs now.
ClaimsFoundNobody ==
    \A g \in Gens :
        /\ phase[g] \in {"heartbeat", "leases"} => obs[g] = 0
        /\ phase[g] \in {"beat", "swap"} /\ obs[g] # 0 => phase[obs[g]] = "gone"
        /\ \A l \in Gens : LegacyUp(l) =>
            /\ phase[g] \in {"leases", "publish"} => mirror = l
            /\ phase[g] = "swap" => mirror # obs[g]

RootInv ==
    /\ Apart /\ LegacyClaimsNothing /\ LegacyShown /\ ClaimsFoundNobody
    /\ OneOwner /\ MirrorNamesOwner

-----------------------------------------------------------------------------
(* The inductive invariant behind NoStrandedWork. *)

LeasesOfOwners ==
    \A h \in Gens : lease[h] # "none" => phase[h] \in {"up", "gone"} /\ role[h] # "maintenance"

\* Until one starts, the only daemon of the earlier release is the predecessor, and its mirror
\* lasts until the first claim.
FirstIsLegacy ==
    /\ \A l \in Gens : role[l] = "legacy" => l = 1
    /\ mirror \in {0, row} \/ (row = 0 /\ role[mirror] = "legacy")

\* A claim that found no mirror has seen the predecessor end and its leases run out.
ClaimsFoundNoLease ==
    \A g, l \in Gens :
        (phase[g] \in {"heartbeat", "leases", "swap"} /\ seen[g] = 0 /\ obs[g] = 0 /\ role[l] = "legacy") =>
            /\ Up(l) => mirror = 0
            /\ phase[g] = "swap" => lease[l] # "fresh"

\* An unexpired lease is the recorded owner's, or the predecessor's before the first claim.
FreshIsRecorded ==
    \A h \in Gens : lease[h] = "fresh" => row = h \/ (row = 0 /\ role[h] = "legacy")

LeaseInv ==
    /\ LeasesOfOwners
    /\ ~legacy => FirstIsLegacy /\ ClaimsFoundNoLease
    /\ cleared \/ legacy \/ FreshIsRecorded

-----------------------------------------------------------------------------

\* One owner at work, who keeps the row and is named by the mirror.  It starts with no
\* unexpired lease of another, unless a command cleared the row of a dead owner or a daemon
\* that knows no row started (claimDaemonOwnership, publishMirror, release).
OwnershipInv ==
    /\ AuthorityInv /\ RootInv /\ LeaseInv
    /\ cleared \/ legacy \/ NoStrandedWork
=============================================================================
