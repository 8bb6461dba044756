----------------------------- MODULE MCJobQueue -----------------------------
(* Instances of JobQueue for TLC: a transcription job that hands over to a   *)
(* transcript delivery and a summary, as enqueuePostAsrJobs does.            *)
EXTENDS JobQueue, TLC

CONSTANTS asr, transcript, delivery, speech

MCInitial == {asr}
MCFollow == [j \in Jobs |-> IF j = asr THEN Jobs \ {asr} ELSE {}]
MCPriority == [j \in Jobs |-> IF j = transcript THEN 1 ELSE 2]
MCServes == [l \in Loops |-> IF l = speech THEN {asr} ELSE Jobs \ {asr}]
=============================================================================
