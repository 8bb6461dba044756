----------------------------- MODULE MCChildren -----------------------------
(***************************************************************************)
(* Instances for TLC of the two children a daemon keeps: the audio worker  *)
(* (AsrWorker) and the microphone stream (Capture).  They share no state; a *)
(* behaviour runs one of them, and the other stays where it began.         *)
(***************************************************************************)
EXTENDS Naturals, Sequences, FiniteSets

CONSTANTS Callers, MaxGens, MaxCalls,
          FrameUnits, MaxBuffered, MaxChunk, MaxUnits, MaxGaps, a, b

VARIABLES proc, stage, queue, out, model, child, spawning, stopping, idle, notified, pending,
          pc, op, calls, answer, why, load, unready, crashed, closing,
          helper, stopped, pipe, given, gaps, pump, exit, frames, carry, anchored, late, epoch,
          pendingGap, over, error, watch, term, released, it, taken, heard, faulty,
          runs \* the child that runs

W == INSTANCE AsrWorker
C == INSTANCE Capture WITH child <- helper, stopping <- stopped, closed <- over,
                           held <- taken, session <- heard

ASSUME CallersAssumed == W!WorkerAssumption
ASSUME CaptureAssumed == C!CaptureAssumption

recognition == <<proc, stage, queue, out, model, child, spawning, stopping, idle, notified, pending,
                 pc, op, calls, answer, why, load, unready, crashed, closing>>
capture == <<helper, stopped, pipe, given, gaps, pump, exit, frames, carry, anchored, late, epoch,
             pendingGap, over, error, watch, term, released, it, taken, heard, faulty>>

MCTwo == {a, b}

ChildrenInit == W!Init /\ C!Init /\ runs \in {"worker", "microphone"}

ChildrenNext ==
    \/ runs = "worker" /\ W!Next /\ UNCHANGED <<runs, capture>>
    \/ runs = "microphone" /\ C!Next /\ UNCHANGED <<runs, recognition>>

ChildrenSpec ==
    /\ ChildrenInit /\ [][ChildrenNext]_<<runs, recognition, capture>>
    /\ \/ runs = "worker" /\ W!Fairness
       \/ runs = "microphone" /\ C!Fairness

\* One worker at a time, sent no transcription before its model is loaded,
\* reported as it is, retired under nobody's call and gone after close(), but for a
\* process that outlived the grace after SIGKILL; a caller only gets the answer to its
\* own call (WorkerProcess, MlxAsr).
WorkerInv ==
    /\ W!TypeOK /\ W!OneWorker /\ W!TranscribesWithModel /\ W!HealthIsHonest /\ W!IdleHarmsNoCall
    /\ W!CloseLeavesNothing /\ W!AnswerIsForThisCall
    /\ W!Generations /\ W!ModelKnown /\ W!Dismissed /\ W!Matched

\* Whatever the worker does, every call ends, and so does close().
CallsEnd == runs = "worker" => W!NoCallLost /\ W!CloseReturns

\* What the sessionizer is given between two closes is contiguous audio of the
\* source, and a stop is told from a failure (Capture!SessionIsContiguous and
\* EndsAsItWas: CaptureFrameBuffer, Recorder.#handleFrame, #stopping).
CaptureInv ==
    /\ C!TypeOK /\ C!SessionIsContiguous /\ C!EndsAsItWas
    /\ C!PipeInOrder /\ C!CarryInOrder /\ C!FramesInOrder /\ C!HeldInOrder /\ C!NothingBetween
    /\ C!EpochsCounted /\ C!EndIsKnown

\* Capture!MicrophoneIsReleased and RunEnds: a stream that is over for the
\* program lets the microphone go although the recorder may never come back,
\* and ends the loop of one that does.
CaptureEnds == runs = "microphone" => C!MicrophoneIsReleased /\ C!RunEnds
=============================================================================
