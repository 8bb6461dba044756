------------------------------ MODULE MCAlerts ------------------------------
(* Instances of Alerts for TLC.                                             *)
EXTENDS Naturals, Sequences, FiniteSets

CONSTANTS Plays, Debounce, Cooldown, Stale, FirstFrame, Stall, MaxChanges, MaxFailures

VARIABLES ids, cond, row, pending, steady, sample, queue, chat, dropped, frame, age, running,
          broken, alive, changes, failures

H == INSTANCE Alerts WITH up <- alive, faults <- failures, MaxFaults <- MaxFailures

ASSUME AlertsAssumed == H!AlertAssumption

MCConditions == {{"llm_unavailable"}, {"worker_crashed"}, {"disk_low"}, {"telegram_delivery"}}
MCRecording == {{"recorder_stale", "capture_failed"}}

MCAll == MCConditions \cup MCRecording

AlertsSpec == H!Spec
AlertsLive == H!LiveSpec

NoGreenBeforeFrame == H!NoGreenBeforeFrame

\* The chat says what the table says, a few messages wait at most, an outage is not
\* announced to itself, and an incident stays red (HealthAlerts.evaluate, onSend).
ChatInv ==
    /\ H!TypeOK /\ H!ChatAgrees /\ H!NothingAccumulates /\ H!OutageStaysLocal /\ H!IncidentStaysRed
    /\ H!AboutThese /\ H!ClaimsInOrder /\ H!FewWait /\ H!Sampled /\ H!LastAgrees
    /\ H!WaitsForEdge

\* An edge waits until the condition is steady, reminders are rare, and what stays
\* as it is is told in the end.
AlertsSteady == H!EdgeIsSteady /\ H!RemindersAreRare /\ H!SteadyIsTold
=============================================================================
