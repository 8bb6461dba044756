----------------------------- MODULE MCRetention -----------------------------
(* Instances of Retention for TLC.                                            *)
EXTENDS Retention, TLC

CONSTANTS s1, f1
OneSession == {s1}
OneFile == {f1}
NoneOfThem == {}

\* Sessions and files meet in a plan only: TLC takes a session beside a file that was
\* deleted before, and a file beside a session that was.
Start == Init /\ (partDeleted = Parts \/ fileDeleted = Files)
Apart == Start /\ [][Next]_vars /\ Fairness

\* What is marked deleted is gone, also when an unlink or the commit fails, and no
\* part leaves the disk before Telegram has it (applyCandidateGroup).
RetentionInv ==
    /\ TypeOK /\ DeletedMeansGone /\ LastCopySafe
    /\ DeliveredIsSent /\ UntranscribedHasAudio /\ SilentHasNoWork /\ DeletedFileIsAnswered /\ PlanOfThePast

\* Deletion comes neither before the window of the audio is over nor never
\* (planRetention, the hourly loop).
DeletionTimely == WindowHeld /\ EligibleIsDeleted
=============================================================================
