----------------------------- MODULE FencedWork -----------------------------
(***************************************************************************)
(* What a leased queue promises, without leases, clocks or processes: work *)
(* is held by one generation at a time, generations only grow, an effect   *)
(* belongs to the generation that holds the work, and work is settled only *)
(* after it took effect, once and for all.                                 *)
(***************************************************************************)
EXTENDS Naturals

CONSTANT Work

VARIABLES
    status,   \* where each piece of work stands
    holder,   \* the generation that holds it, 0 when nobody does
    effect,   \* the generation its last durable effect belongs to
    issued    \* generations below this one have been issued

fwvars == <<status, holder, effect, issued>>

Held(w) == status[w] = "held"

Init ==
    /\ status = [w \in Work |-> "none"]
    /\ holder = [w \in Work |-> 0]
    /\ effect = [w \in Work |-> 0]
    /\ issued = 1

\* New work appears; work that already exists is not disturbed.
Offer(K) ==
    /\ \A w \in K : status[w] = "none"
    /\ status' = [w \in Work |-> IF w \in K THEN "waiting" ELSE status[w]]
    /\ UNCHANGED <<holder, effect, issued>>

\* The holders of K lose their entitlement.
Return(K) ==
    /\ \A w \in K : Held(w)
    /\ status' = [w \in Work |-> IF w \in K THEN "waiting" ELSE status[w]]
    /\ holder' = [w \in Work |-> IF w \in K THEN 0 ELSE holder[w]]
    /\ UNCHANGED <<effect, issued>>

\* A fresh generation takes w, possibly out of the hands of K's holders.
Take(w, K) ==
    /\ \A k \in K : Held(k)
    /\ status[w] = "waiting" \/ w \in K
    /\ status' = [v \in Work |-> IF v = w THEN "held" ELSE IF v \in K THEN "waiting" ELSE status[v]]
    /\ holder' = [v \in Work |-> IF v = w THEN issued ELSE IF v \in K THEN 0 ELSE holder[v]]
    /\ issued' = issued + 1
    /\ UNCHANGED effect

\* The holder of w acts; the same transaction may offer follow-up work.
Act(w, K) ==
    /\ Held(w)
    /\ \A k \in K : status[k] = "none"
    /\ effect' = [effect EXCEPT ![w] = holder[w]]
    /\ status' = [v \in Work |-> IF v \in K THEN "waiting" ELSE status[v]]
    /\ UNCHANGED <<holder, issued>>

Leave(w, end) ==
    /\ Held(w)
    /\ status' = [status EXCEPT ![w] = end]
    /\ holder' = [holder EXCEPT ![w] = 0]
    /\ UNCHANGED <<effect, issued>>

Complete(w) == effect[w] # 0 /\ Leave(w, "settled")

GiveUp(w) == Leave(w, "given up")

Reopen(w) ==
    /\ status[w] = "given up"
    /\ status' = [status EXCEPT ![w] = "waiting"]
    /\ UNCHANGED <<holder, effect, issued>>

Next ==
    \/ \E K \in SUBSET Work : Offer(K) \/ Return(K)
    \/ \E w \in Work, K \in SUBSET Work : Take(w, K) \/ Act(w, K)
    \/ \E w \in Work : Complete(w) \/ GiveUp(w) \/ Reopen(w)

Spec == Init /\ [][Next]_fwvars
=============================================================================
