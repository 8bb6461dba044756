----------------------------- MODULE Sessionizer -----------------------------
(***************************************************************************)
(* The session state machine (src/sessionizer/machine.ts) and the pre-roll *)
(* the recorder keeps beside it (src/sessionizer/recorder.ts): voice       *)
(* activity, frame by frame, becomes sessions cut into parts.              *)
(*                                                                         *)
(* Time is counted in frames.  The frame buffer stamps the frames of one   *)
(* stream back to back and marks every gap, so a frame ends one unit after *)
(* the one before it unless a gap was marked.                              *)
(***************************************************************************)
EXTENDS Integers

CONSTANTS
    PreRoll,    \* preRollSeconds
    Candidate,  \* speechCandidateMs
    Silence,    \* silenceTimeoutSeconds
    MaxPart,    \* maxPartSeconds
    MinSpeech,  \* minSpeechSeconds
    Gap,        \* length of a source gap
    MaxTime     \* bound: the end of a run

\* What validateConfig demands of the five settings
SessionizerAssumption ==
    /\ {PreRoll, Candidate, Silence, MaxPart, Gap} \subseteq Nat \ {0}
    /\ {MinSpeech, MaxTime} \subseteq Nat
    /\ MaxPart > Silence

VARIABLES
    state,         \* SessionState; the states of the pipeline are never entered
    now,           \* end of the newest frame
    ring,          \* frames in the machine's pre-roll ring
    candidate,     \* candidateSpeechMs
    speech,        \* speechMs
    sessionStart, partStart, lastSpeech, partIndex,
    held,          \* frames in the recorder's pre-roll
    part,          \* the recorder's part: "none", "open", or "discarded" for want of storage
    written,       \* frames written to the open part
    closed,        \* history: the part closed last
    ended          \* history: the session ended last

clock == <<sessionStart, partStart, lastSpeech, partIndex>>
recorder == <<part, written, closed>>
vars == <<state, now, ring, candidate, speech, clock, held, recorder, ended>>

TypeOK ==
    /\ state \in {"IDLE", "SPEECH_CANDIDATE", "ACTIVE", "SILENCE_GRACE"}
    /\ now \in Nat /\ ring \in 0 .. PreRoll /\ held \in 0 .. PreRoll
    /\ candidate \in 0 .. Candidate /\ speech \in Nat /\ partIndex \in Nat
    /\ sessionStart \in Nat /\ partStart \in Nat /\ lastSpeech \in Nat
    /\ part \in {"none", "open", "discarded"}
    /\ written \in Nat
    /\ closed \in [length : Nat, written : Nat]
    /\ ended \in [outcome : {"none", "finalized", "rejected"}, at : Nat, duration : Nat,
                  speech : Nat, parts : Nat]

Init ==
    /\ state = "IDLE" /\ now = 0 /\ ring = 0 /\ candidate = 0 /\ speech = 0
    /\ sessionStart = 0 /\ partStart = 0 /\ lastSpeech = 0 /\ partIndex = 0
    /\ held = 0 /\ part = "none" /\ written = 0
    /\ closed = [length |-> 0, written |-> 0]
    /\ ended = [outcome |-> "none", at |-> 0, duration |-> 0, speech |-> 0, parts |-> 0]

-----------------------------------------------------------------------------
\* Mutant: the ring is never trimmed.
BufferAll(n) == n + 1

\* bufferPreRoll: whole frames up to the capacity, and always the newest
BufferPreRoll(n) == IF n + 1 > PreRoll THEN PreRoll ELSE n + 1

\* Mutant: the recorder makes room for a frame before it is over its capacity.
HoldShort(n) == IF n + 1 >= PreRoll THEN PreRoll - 1 ELSE n + 1

\* The recorder's copy of the same window, in frames of PCM
HoldFrame(n) == IF n + 1 > PreRoll THEN PreRoll ELSE n + 1

\* Mutant: the pre-roll outlives the session it began.
KeepPreRoll == ring

DrainPreRoll == 0

\* closeOpenPart: the length of a part is its monotonic span.
CloseOpenPart(end) ==
    closed' = IF part = "open" THEN [length |-> end - partStart, written |-> written] ELSE closed

\* A new part with the frames replayed into it.  Storage may refuse it (Archive): the
\* rest of the session is then discarded.
OpenNewPart(frames) ==
    \/ part # "discarded" /\ part' = "open" /\ written' = frames
    \/ part' = "discarded" /\ written' = 0

WriteFrame == written' = IF part = "open" THEN written + 1 ELSE 0

-----------------------------------------------------------------------------
(* push, on a frame that ends at t *)

Listen(t, isSpeech) ==
    /\ state = "IDLE" \/ (state = "SPEECH_CANDIDATE" /\ ~isSpeech)
    /\ state' = IF isSpeech THEN "SPEECH_CANDIDATE" ELSE "IDLE"
    /\ candidate' = IF isSpeech THEN 1 ELSE 0
    /\ ring' = BufferPreRoll(ring) /\ held' = HoldFrame(held)
    /\ UNCHANGED <<speech, clock, recorder, ended>>

Consider(t, isSpeech) ==
    /\ state = "SPEECH_CANDIDATE" /\ isSpeech /\ candidate + 1 < Candidate
    /\ candidate' = candidate + 1
    /\ ring' = BufferPreRoll(ring) /\ held' = HoldFrame(held)
    /\ UNCHANGED <<state, speech, clock, recorder, ended>>

\* Mutant: the clock starts at the frame that opened the session.
StartAtFrame(t, frames) == t

StartOfPreRoll(t, frames) == t - frames

\* The session starts where its pre-roll does, and this frame is the end of the pre-roll.
OpenSession(t, isSpeech) ==
    LET frames == BufferPreRoll(ring) IN
    /\ state = "SPEECH_CANDIDATE" /\ isSpeech /\ candidate + 1 >= Candidate
    /\ state' = "ACTIVE"
    /\ speech' = candidate + 1 /\ candidate' = 0
    /\ sessionStart' = StartOfPreRoll(t, frames) /\ partStart' = StartOfPreRoll(t, frames)
    /\ lastSpeech' = t /\ partIndex' = 0
    /\ ring' = DrainPreRoll
    /\ OpenNewPart(IF frames <= HoldFrame(held) THEN frames ELSE HoldFrame(held))
    /\ held' = 0
    /\ UNCHANGED <<closed, ended>>

\* Mutant: rotation is not considered when speech returns from silence.
RotateWhenActive(t) == state = "ACTIVE" /\ t - partStart >= MaxPart

MustRotate(t) == t - partStart >= MaxPart

\* The frame that rotates is written to the new part.
Speak(t, isSpeech) ==
    /\ state \in {"ACTIVE", "SILENCE_GRACE"} /\ isSpeech
    /\ state' = "ACTIVE"
    /\ speech' = speech + 1 /\ lastSpeech' = t
    /\ IF MustRotate(t)
       THEN CloseOpenPart(t) /\ partIndex' = partIndex + 1 /\ partStart' = t /\ OpenNewPart(1)
       ELSE WriteFrame /\ UNCHANGED <<part, closed, partIndex, partStart>>
    /\ UNCHANGED <<candidate, ring, held, sessionStart, ended>>

FallSilent(t, isSpeech) ==
    /\ ~isSpeech
    /\ state = "ACTIVE" \/ (state = "SILENCE_GRACE" /\ t - lastSpeech < Silence)
    /\ state' = "SILENCE_GRACE"
    /\ WriteFrame
    /\ UNCHANGED <<candidate, speech, clock, ring, held, part, closed, ended>>

ResetToIdle ==
    /\ state' = "IDLE" /\ candidate' = 0 /\ speech' = 0
    /\ sessionStart' = 0 /\ partStart' = 0 /\ lastSpeech' = 0 /\ partIndex' = 0
    /\ ring' = DrainPreRoll

Finalize(end) ==
    /\ CloseOpenPart(end)
    /\ ended' = [outcome |-> IF speech < MinSpeech THEN "rejected" ELSE "finalized", at |-> end,
                 duration |-> end - sessionStart, speech |-> speech, parts |-> partIndex + 1]
    /\ part' = "none" /\ written' = 0
    /\ ResetToIdle

\* The frame that ends a session is neither written nor held.
TimeOut(t, isSpeech) ==
    /\ state = "SILENCE_GRACE" /\ ~isSpeech /\ t - lastSpeech >= Silence
    /\ Finalize(t)
    /\ UNCHANGED held

Frame ==
    /\ now < MaxTime
    /\ now' = now + 1
    /\ \E isSpeech \in BOOLEAN :
          \/ Listen(now', isSpeech) \/ Consider(now', isSpeech) \/ OpenSession(now', isSpeech)
          \/ Speak(now', isSpeech) \/ FallSilent(now', isSpeech) \/ TimeOut(now', isSpeech)

\* closeOpenSession at a gap of the source, a wake from sleep or a stop: the session ends
\* at its last frame, and nothing from before the boundary is replayed after it.
CloseOpenSession ==
    /\ now < MaxTime
    /\ now' = now + Gap
    /\ IF state \in {"ACTIVE", "SILENCE_GRACE"}
       THEN Finalize(now)
       ELSE ResetToIdle /\ UNCHANGED <<recorder, ended>>
    /\ held' = 0

Next == Frame \/ CloseOpenSession

Spec == Init /\ [][Next]_vars

-----------------------------------------------------------------------------
(* Properties *)

InSession == state \in {"ACTIVE", "SILENCE_GRACE"}

\* Sessions never overlap: what a session replays from its pre-roll begins after the
\* session before it ended, however that one ended.
SessionsDisjoint == InSession => sessionStart >= ended.at

\* No part is longer than its maximum and one silence: rotation waits for speech, and
\* the silence that delays it is bounded by the timeout that ends the session.
PartOverrunBounded ==
    /\ InSession => now - partStart < MaxPart + Silence
    /\ closed.length < MaxPart + Silence

\* The audio of a part is as long as its journalled length, up to the one frame that a
\* rotation writes to the next part: nothing is lost or doubled between the machine's
\* frame counts and the recorder's copy of the pre-roll.
AudioMatchesClock ==
    /\ part = "open" => written - (now - partStart) \in 0 .. 1
    /\ closed.written - closed.length \in -1 .. 1

\* The session's speech never exceeds its duration.  The finalization journal refuses
\* such a session, and its last part would be dropped.
SpeechWithinDuration == ended.speech <= ended.duration

-----------------------------------------------------------------------------
(* The facts behind them *)

\* The recorder's copy of the pre-roll and the machine's ring hold the same frames, all
\* from after the last session, and none while a session is open.
WindowsAgree ==
    /\ held = ring
    /\ InSession => ring = 0
    /\ ~InSession => part = "none" /\ ring <= now - ended.at

\* The times of an open session follow one another.
TimesInOrder ==
    /\ ended.at <= now
    /\ InSession => sessionStart <= partStart /\ partStart <= lastSpeech /\ lastSpeech <= now
    /\ state = "ACTIVE" => lastSpeech = now

\* Speech is counted from frames that are in the pre-roll, or in the session.
SpeechCounted ==
    /\ ~InSession => candidate <= ring
    /\ InSession => speech <= now - sessionStart

\* A part grows by speech up to its maximum, and by one silence.
SilenceBounded ==
    InSession => lastSpeech - partStart < MaxPart /\ now - lastSpeech < Silence
=============================================================================
