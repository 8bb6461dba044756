------------------------------ MODULE DigestDay ------------------------------
(***************************************************************************)
(* Where a local calendar day begins (startOfLocalDate and localDayBounds  *)
(* of src/digest/daily.ts): a binary search over the instants around the   *)
(* day's nominal midnight, in a zone known only through the local date it  *)
(* gives an instant.  An instant is whatever the clock counts, the search  *)
(* needs no finer unit; a date is a number that grows by one per day.      *)
(***************************************************************************)
EXTENDS Integers

CONSTANTS
    Lo, Hi,    \* the instants the zones are defined on
    Zones,     \* local date of an instant, one function per zone history
    Dates,     \* the dates asked for
    DayLength, \* instants in a day of the nominal calendar
    Reach      \* the search starts so far before and after nominal midnight

Instants == Lo .. Hi
Nominal(d) == d * DayLength

ASSUME ZoneAssumption ==
    /\ Lo \in Int /\ Hi \in Int
    /\ DayLength \in Nat \ {0} /\ Reach \in Nat \ {0}
    /\ Zones \subseteq [Instants -> Int]
    /\ Dates \subseteq Int
    /\ \A d \in Dates : Nominal(d) - Reach >= Lo /\ Nominal(d) + Reach <= Hi

VARIABLES
    zone, target,      \* the arguments
    before, atOrAfter, \* the bracket
    outcome            \* "searching", "found", "unbracketed" or "skipped"

vars == <<zone, target, before, atOrAfter, outcome>>

TypeOK ==
    /\ zone \in Zones /\ target \in Dates
    /\ before \in Instants /\ atOrAfter \in Instants
    /\ before < atOrAfter
    /\ outcome \in {"searching", "found", "unbracketed", "skipped"}

Init ==
    /\ zone \in Zones
    /\ target \in Dates
    /\ before = Nominal(target) - Reach /\ atOrAfter = Nominal(target) + Reach
    /\ outcome = IF zone[before] >= target \/ zone[atOrAfter] < target
                 THEN "unbracketed" ELSE "searching"

Candidate == (before + atOrAfter) \div 2

\* Mutant: an instant of the day itself is still before it.
NarrowPast ==
    IF zone[Candidate] <= target THEN before' = Candidate /\ UNCHANGED atOrAfter
    ELSE atOrAfter' = Candidate /\ UNCHANGED before

\* Mutant: the lower end moves past the instant that was looked at.
NarrowBeyond ==
    IF zone[Candidate] < target THEN before' = Candidate + 1 /\ UNCHANGED atOrAfter
    ELSE atOrAfter' = Candidate /\ UNCHANGED before

Narrow ==
    IF zone[Candidate] < target THEN before' = Candidate /\ UNCHANGED atOrAfter
    ELSE atOrAfter' = Candidate /\ UNCHANGED before

Search ==
    /\ outcome = "searching" /\ atOrAfter - before > 1
    /\ Narrow
    /\ UNCHANGED <<zone, target, outcome>>

\* Mutant: the two ends are expected to meet.
FinishWhenEqual ==
    /\ outcome = "searching" /\ atOrAfter - before <= 0
    /\ outcome' = IF zone[atOrAfter] = target THEN "found" ELSE "skipped"
    /\ UNCHANGED <<zone, target, before, atOrAfter>>

Finish ==
    /\ outcome = "searching" /\ atOrAfter - before <= 1
    /\ outcome' = IF zone[atOrAfter] = target THEN "found" ELSE "skipped"
    /\ UNCHANGED <<zone, target, before, atOrAfter>>

Next == Search \/ Finish

Spec == Init /\ [][Next]_vars
LiveSpec == Spec /\ WF_vars(Next)

-----------------------------------------------------------------------------
(* Properties *)

\* A zone in which the date never goes back, which an hour repeated within a
\* day does not make it do; one repeated across midnight does.
Orderly == \A i, j \in Instants : i <= j => zone[i] <= zone[j]

\* The answer is an instant of the day whose predecessor is not; in an orderly
\* zone it is the first of the day, and a day is skipped only when no instant
\* within reach has its date (the loop and the checks around it).
Exact ==
    /\ outcome = "found" =>
         /\ zone[atOrAfter] = target /\ zone[atOrAfter - 1] < target
         /\ Orderly => \A i \in Instants : zone[i] = target => atOrAfter <= i
    /\ outcome = "skipped" /\ Orderly => \A i \in Instants : zone[i] # target

\* The search ends, in every zone.
Terminates == <>(outcome # "searching")
=============================================================================
