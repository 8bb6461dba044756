----------------------------- MODULE MCRecorder -----------------------------
(***************************************************************************)
(* Instances of the recorder for TLC: the state machine that turns frames  *)
(* into intents (Sessionizer) and the storage that carries them out        *)
(* (Archive).  Archive takes its intents in any order the machine may give *)
(* them, so the two are checked apart: a behaviour runs one of them, and   *)
(* the other stays where it began.                                         *)
(***************************************************************************)
EXTENDS Archive

CONSTANTS PreRoll, Candidate, Silence, MaxPart, MinSpeech, Gap, MaxTime

VARIABLES state, now, ring, candidate, speech, sessionStart, partStart, lastSpeech, partIndex,
          held, part, written, closed, ended,
          half \* the part that runs

M == INSTANCE Sessionizer

ASSUME MachineAssumed == M!SessionizerAssumption

machine == <<state, now, ring, candidate, speech, sessionStart, partStart, lastSpeech, partIndex,
             held, part, written, closed, ended>>

MCInit == Init /\ M!Init /\ half \in {"storage", "machine"}

MCNext ==
    \/ half = "storage" /\ Next /\ UNCHANGED <<half, machine>>
    \/ half = "machine" /\ M!Next /\ UNCHANGED <<half, vars>>

MCSpec ==
    /\ MCInit /\ [][MCNext]_<<half, vars, machine>>
    /\ half = "machine" \/ (half = "storage" /\ Fairness)

\* Slots are reserved for what uses them, part counts and initial jobs agree
\* with the outcome, and nothing but the session being recorded or deferred is
\* left open (startFinalizer, completeDeferredSession, recoverDatabase).
ArchiveInv ==
    /\ TypeOK /\ SlotsReserved /\ CountIsTrue /\ NothingStranded /\ JobsMatchOutcome
    /\ PublishedIsKnown /\ FinalizersAreOwned /\ LaneInOrder /\ OutcomesPending
    /\ PartsAhead /\ RecoveryIsAlone /\ PipelineIsWhole

\* An ended session is settled over crashes and failures, or its outcome is kept
\* after a failed transaction (settleDeferredSessionOutcome); what a run leaves
\* behind when it ends is settled by its drain or the next start.
SessionsSettle == half = "storage" => EndedSessionSettles /\ LeftoverIsTakenUp

\* Sessions never overlap, parts overrun by less than a silence, speech is no
\* longer than its session, and the audio of a part is as long as its journalled
\* length, up to the frame a rotation writes to the next part (Sessionizer:
\* onFrame, the pre-roll ring, rotation).
MachineInv ==
    /\ M!TypeOK /\ M!SessionsDisjoint /\ M!PartOverrunBounded
    /\ M!SpeechWithinDuration /\ M!AudioMatchesClock
    /\ M!WindowsAgree /\ M!TimesInOrder /\ M!SpeechCounted /\ M!SilenceBounded

\* Sessionizer!SpeechWithinDuration by itself, for pre-rolls shorter than the candidate.
SpeechWithinDuration == M!SpeechWithinDuration
=============================================================================
