------------------------------ MODULE Capture ------------------------------
(***************************************************************************)
(* The live microphone stream: a child process that writes raw PCM, the    *)
(* pump that frames it (src/capture/process-pcm.ts), the bounded buffer    *)
(* (src/capture/frame-buffer.ts) and the recorder that takes the frames    *)
(* one at a time (Recorder.run, src/sessionizer/recorder.ts).              *)
(*                                                                         *)
(* The audio is a sequence of numbered units, FrameUnits to a frame; the   *)
(* child writes them in chunks of any size.  A behaviour is one generation *)
(* of the child: a daemon starts capture once.  Between events nothing     *)
(* interrupts the program, so a handler is one action.                     *)
(***************************************************************************)
EXTENDS Naturals, Sequences, FiniteSets

CONSTANTS
    FrameUnits,  \* units of audio in a frame
    MaxBuffered, \* MAX_PROCESSING_LAG_MS in frames
    MaxChunk,    \* bound: units in a chunk, fewer than the buffer holds
    MaxUnits,    \* bound: units the source ever gives
    MaxGaps      \* bound: gaps of the source

CaptureAssumption ==
    /\ {FrameUnits, MaxBuffered, MaxChunk} \subseteq Nat \ {0}
    /\ {MaxUnits, MaxGaps} \subseteq Nat
    /\ MaxChunk <= FrameUnits * MaxBuffered + 1

VARIABLES
    child,     \* the process: running, gone, or closed (its streams too)
    pipe,      \* chunks written and not yet read
    given,     \* units the source has given
    gaps,      \* units before which the source was silent
    pump,      \* #pumpFrames reads, or is over
    exit,      \* how `exited` resolved
    frames, carry, \* #frames and #carry
    anchored,  \* #nextMonotonicMs is set
    late,      \* the clock is ahead of #nextMonotonicMs
    epoch, pendingGap, \* #epoch and #pendingDiscontinuityMs
    closed, error,     \* #closed and #terminalError
    watch,     \* the watchdog: off, armed or fired
    term,      \* #terminateAndJoin: none, asked (SIGTERM), killed (SIGKILL)
    released,  \* releaseGeneration has run
    stopping,  \* #stopping
    it,        \* where the iterator and the recorder's loop are
    held,      \* the frame the recorder was given
    session,   \* units given to the sessionizer since it was last closed
    faulty     \* something went wrong before any stop

process == <<child, exit, term>>
source == <<pipe, given, gaps>>
buffer == <<frames, carry, anchored, late, epoch, pendingGap, closed, error>>
consumer == <<it, held, session>>
vars == <<process, source, pump, buffer, watch, released, stopping, consumer, faulty>>

NoFrame == [units |-> <<>>, epoch |-> 0, gap |-> FALSE]
Frame == [units : [1 .. FrameUnits -> 1 .. given], epoch : 0 .. MaxGaps + 1, gap : BOOLEAN]
Ended == {"done", "failed"}

TypeOK ==
    /\ child \in {"running", "gone", "closed"} /\ exit \in {"none", "clean", "failed"}
    /\ (exit = "none") = (child # "closed")
    /\ pipe \in Seq([first : 1 .. given, n : 1 .. MaxChunk])
    /\ given \in 0 .. MaxUnits /\ gaps \subseteq 1 .. given
    /\ pump \in {"reading", "over"}
    /\ frames \in Seq(Frame) /\ Len(frames) <= MaxBuffered
    /\ carry \in Seq(1 .. given) /\ Len(carry) < FrameUnits
    /\ {anchored, late, pendingGap, closed, error, released, stopping, faulty} \subseteq BOOLEAN
    /\ epoch \in 0 .. MaxGaps + 1
    /\ watch \in {"off", "armed", "fired"} /\ term \in {"none", "asked", "killed"}
    /\ it \in {"next", "waiting", "taken", "vad", "pump", "exit", "thrown", "failing", "ending"} \cup Ended
    /\ held \in Frame \cup {NoFrame} /\ session \in Seq(1 .. given)
    /\ (it \in {"taken", "vad"} => held # NoFrame)
    /\ (it = "waiting" => frames = <<>> /\ ~closed)

Init ==
    /\ child = "running" /\ exit = "none" /\ term = "none"
    /\ pipe = <<>> /\ given = 0 /\ gaps = {}
    /\ pump = "reading"
    /\ frames = <<>> /\ carry = <<>> /\ anchored = FALSE /\ late = FALSE
    /\ epoch = 0 /\ pendingGap = FALSE /\ closed = FALSE /\ error = FALSE
    /\ watch = "armed" /\ released = FALSE /\ stopping = FALSE
    /\ it = "next" /\ held = NoFrame /\ session = <<>>
    /\ faulty = FALSE

Joined == term # "none" /\ child = "closed"

-----------------------------------------------------------------------------
(* The child *)

\* A gap comes after a frame of what follows the last one: the buffer has no
\* clock to notice one that falls into its first frame.
ChildWrites ==
    /\ child = "running" /\ pump = "reading"
    /\ \E n \in 1 .. MaxChunk, silent \in BOOLEAN :
         /\ given + n <= MaxUnits
         /\ silent => anchored /\ ~late /\ pipe = <<>> /\ Cardinality(gaps) < MaxGaps
         /\ pipe' = Append(pipe, [first |-> given + 1, n |-> n])
         /\ given' = given + n
         /\ gaps' = IF silent THEN gaps \cup {given + 1} ELSE gaps
    /\ UNCHANGED <<process, pump, buffer, watch, released, stopping, consumer, faulty>>

\* It obeys SIGTERM or SIGKILL, or dies of itself.
ChildExits ==
    /\ child = "running"
    /\ child' = "gone"
    /\ faulty' = (faulty \/ ~stopping)
    /\ UNCHANGED <<exit, term, source, pump, buffer, watch, released, stopping, consumer>>

\* Mutant: an exit that was asked for is classified like any other.
ClassifiedAlike == "failed"

Classified == IF stopping THEN "clean" ELSE "failed"

\* Its streams close once the pump has read them or let them go.
ChildCloses ==
    /\ child = "gone" /\ (pipe = <<>> \/ pump = "over")
    /\ child' = "closed" /\ exit' = Classified
    /\ UNCHANGED <<term, source, pump, buffer, watch, released, stopping, consumer, faulty>>

Terminated == IF term = "none" THEN "asked" ELSE term

\* The child outlives the three seconds after SIGTERM.
GraceEnds ==
    /\ term = "asked" /\ child = "running"
    /\ term' = "killed"
    /\ UNCHANGED <<child, exit, source, pump, buffer, watch, released, stopping, consumer, faulty>>

-----------------------------------------------------------------------------
(* The buffer *)

Units(c) == [i \in 1 .. c.n |-> c.first + i - 1]
Whole(units) == Len(units) \div FrameUnits

\* The frames of some units; the first one tells of a gap before it.
FramesOf(units, e, gap) ==
    [i \in 1 .. Whole(units) |->
        [units |-> SubSeq(units, (i - 1) * FrameUnits + 1, i * FrameUnits),
         epoch |-> e, gap |-> gap /\ i = 1]]

\* Mutant: nothing bounds the buffer.
PushUnbounded(queue, made) ==
    LET all == queue \o made
        given1 == it = "waiting" /\ all # <<>> IN
    [over |-> FALSE, given |-> given1, frames |-> IF given1 THEN Tail(all) ELSE all]

\* Mutant: a full buffer lets its oldest frames go.
PushDropsOldest(queue, made) ==
    LET all == queue \o made
        given1 == it = "waiting" /\ all # <<>>
        rest == IF given1 THEN Tail(all) ELSE all IN
    [over |-> FALSE, given |-> given1,
     frames |-> IF Len(rest) <= MaxBuffered THEN rest
                ELSE SubSeq(rest, Len(rest) - MaxBuffered + 1, Len(rest))]

\* #push: a consumer that waits is given the first frame, the others queue.
Push(queue, made) ==
    LET all == queue \o made
        given1 == it = "waiting" /\ all # <<>>
        rest == IF given1 THEN Tail(all) ELSE all IN
    [over |-> Len(rest) > MaxBuffered, given |-> given1, frames |-> rest]

\* Mutant: the consumer that waits is not told.
AbortLeavesWaiter ==
    /\ closed' = TRUE /\ error' = (error \/ ~closed)
    /\ frames' = (IF closed THEN frames ELSE <<>>) /\ carry' = (IF closed THEN carry ELSE <<>>)
    /\ it' = it
    /\ UNCHANGED <<anchored, late, epoch, pendingGap>>

\* abort: what is buffered is dropped and a consumer that waits is told.
Abort ==
    /\ closed' = TRUE /\ error' = (error \/ ~closed)
    /\ frames' = (IF closed THEN frames ELSE <<>>) /\ carry' = (IF closed THEN carry ELSE <<>>)
    /\ it' = IF it = "waiting" THEN "thrown" ELSE it
    /\ UNCHANGED <<anchored, late, epoch, pendingGap>>

\* write, while the chunk completes no frame.
Hold(c) ==
    /\ ~closed /\ Whole(carry \o Units(c)) = 0
    /\ carry' = carry \o Units(c)
    /\ late' = (anchored /\ (late \/ c.first \in gaps))
    /\ UNCHANGED <<frames, anchored, epoch, pendingGap, closed, error, pump, watch, consumer, faulty>>

Resumes(c) == anchored /\ (late \/ c.first \in gaps)

\* write: after a gap, what came before it is dropped and a new epoch begins.
Write(c) ==
    LET gap == Resumes(c)
        units == IF gap THEN Units(c) ELSE carry \o Units(c)
        e == IF gap THEN epoch + 1 ELSE epoch
        made == FramesOf(units, e, pendingGap \/ gap)
        pushed == Push(IF gap THEN <<>> ELSE frames, made) IN
    /\ ~closed /\ Whole(carry \o Units(c)) > 0 /\ ~pushed.over
    /\ frames' = pushed.frames
    /\ carry' = SubSeq(units, Whole(units) * FrameUnits + 1, Len(units))
    /\ epoch' = e /\ late' = FALSE
    /\ anchored' = (made # <<>> \/ (anchored /\ ~gap))
    /\ pendingGap' = ((pendingGap \/ gap) /\ made = <<>>)
    /\ IF pushed.given THEN it' = "taken" /\ held' = made[1] ELSE UNCHANGED <<it, held>>
    /\ watch' = IF made # <<>> THEN "armed" ELSE watch
    /\ UNCHANGED <<closed, error, pump, session, faulty>>

\* The recorder is too far behind: capture stops before audio is lost in silence.
Overflow(c) ==
    LET gap == Resumes(c)
        units == IF gap THEN Units(c) ELSE carry \o Units(c) IN
    /\ ~closed /\ Whole(carry \o Units(c)) > 0 /\ it # "waiting"
    /\ Push(IF gap THEN <<>> ELSE frames, FramesOf(units, epoch, FALSE)).over
    /\ closed' = TRUE /\ error' = TRUE /\ frames' = <<>> /\ carry' = <<>>
    /\ epoch' = (IF gap THEN epoch + 1 ELSE epoch)
    /\ pump' = "over" /\ faulty' = (faulty \/ ~stopping)
    /\ UNCHANGED <<anchored, late, pendingGap, watch, consumer>>

\* After a stop or an abort the next chunk ends the pump.
TurnedAway ==
    /\ closed /\ pump' = "over"
    /\ UNCHANGED <<buffer, watch, consumer, faulty>>

PumpReads ==
    /\ pump = "reading" /\ pipe # <<>>
    /\ LET c == Head(pipe) IN Hold(c) \/ Write(c) \/ Overflow(c) \/ TurnedAway
    /\ pipe' = IF pump' = "over" THEN <<>> ELSE Tail(pipe)
    /\ UNCHANGED <<process, given, gaps, released, stopping>>

\* The stream has ended, and so has the child.
PumpEnds ==
    /\ pump = "reading" /\ child = "closed"
    /\ pump' = "over"
    /\ IF exit = "failed" THEN Abort
       ELSE /\ closed' = TRUE /\ it' = IF it = "waiting" THEN "pump" ELSE it
            /\ UNCHANGED <<frames, carry, anchored, late, epoch, pendingGap, error>>
    /\ UNCHANGED <<process, source, watch, released, stopping, held, session, faulty>>

-----------------------------------------------------------------------------
(* The watchdog, and a stop *)

\* Mutant: the child is left to the iterator.
WatchdogAborts ==
    /\ watch = "armed" /\ watch' = "fired"
    /\ Abort
    /\ faulty' = (faulty \/ ~stopping)
    /\ UNCHANGED <<process, source, pump, released, stopping, held, session>>

\* No source frame for too long.  The recorder may still be at work on the last
\* one: the child is reaped without waiting for it.
WatchdogFires ==
    /\ watch = "armed" /\ watch' = "fired"
    /\ Abort
    /\ term' = Terminated
    /\ faulty' = (faulty \/ ~stopping)
    /\ UNCHANGED <<child, exit, source, pump, released, stopping, held, session>>

WatchdogReleases ==
    /\ watch = "fired" /\ Joined /\ ~released
    /\ released' = TRUE
    /\ UNCHANGED <<process, source, pump, buffer, watch, stopping, consumer, faulty>>

\* Recorder.stop: CaptureFrameBuffer.stop drops what is buffered.
Stop ==
    /\ ~released /\ ~stopping /\ stopping' = TRUE
    /\ watch' = IF watch = "armed" THEN "off" ELSE watch
    /\ IF closed THEN UNCHANGED <<buffer, it>>
       ELSE /\ closed' = TRUE /\ frames' = <<>> /\ carry' = <<>> /\ epoch' = epoch + 1
            /\ anchored' = FALSE /\ late' = FALSE /\ pendingGap' = FALSE
            /\ it' = IF it = "waiting" THEN "pump" ELSE it
            /\ UNCHANGED error
    /\ term' = Terminated
    /\ UNCHANGED <<child, exit, source, pump, released, held, session, faulty>>

-----------------------------------------------------------------------------
(* The iterator and Recorder.run *)

\* frames.next
Pull ==
    /\ it = "next"
    /\ IF frames # <<>> THEN it' = "taken" /\ held' = Head(frames) /\ frames' = Tail(frames)
       ELSE /\ it' = IF ~closed THEN "waiting" ELSE IF error THEN "thrown" ELSE "pump"
            /\ UNCHANGED <<held, frames>>
    /\ UNCHANGED <<process, source, pump, carry, anchored, late, epoch, pendingGap, closed, error,
                   watch, released, stopping, session, faulty>>

CurrentStreamEpoch == IF released THEN 0 ELSE epoch

SessionBefore == IF held.gap THEN <<>> ELSE session

\* handleFrame: a stale frame is dropped, a gap closes the session.
HandleFrame ==
    /\ it = "taken"
    /\ IF held.epoch # CurrentStreamEpoch THEN it' = "next" /\ UNCHANGED session
       ELSE it' = "vad" /\ session' = SessionBefore
    /\ UNCHANGED <<process, source, pump, buffer, watch, released, stopping, held, faulty>>

\* The detector has answered: the sessionizer and the writer get the frame.
FrameRecorded ==
    /\ it = "vad" /\ it' = "next"
    /\ session' = session \o held.units
    /\ UNCHANGED <<process, source, pump, buffer, watch, released, stopping, held, faulty>>

\* The detector, the writer or the database fails: for await closes the iterator.
FrameFails ==
    /\ it = "vad" /\ it' = "thrown"
    /\ faulty' = TRUE
    /\ UNCHANGED <<process, source, pump, buffer, watch, released, stopping, held, session>>

PumpAwaited ==
    /\ it = "pump" /\ pump = "over" /\ it' = "exit"
    /\ UNCHANGED <<process, source, pump, buffer, watch, released, stopping, held, session, faulty>>

\* The loop ends: cancelWatchdog, terminate.
Finally ==
    /\ it = "thrown" \/ (it = "exit" /\ child = "closed")
    /\ it' = IF it = "thrown" \/ exit = "failed" THEN "failing" ELSE "ending"
    /\ held' = NoFrame
    /\ watch' = IF watch = "armed" THEN "off" ELSE watch
    /\ term' = Terminated
    /\ UNCHANGED <<child, exit, source, pump, buffer, released, stopping, session, faulty>>

Finish ==
    /\ it \in {"failing", "ending"} /\ Joined
    /\ it' = IF it = "failing" THEN "failed" ELSE "done"
    /\ released' = TRUE
    /\ UNCHANGED <<process, source, pump, buffer, watch, stopping, held, session, faulty>>

Next ==
    \/ ChildWrites \/ ChildExits \/ ChildCloses \/ GraceEnds
    \/ PumpReads \/ PumpEnds
    \/ WatchdogFires \/ WatchdogReleases \/ Stop
    \/ Pull \/ HandleFrame \/ FrameRecorded \/ FrameFails
    \/ PumpAwaited \/ Finally \/ Finish

Spec == Init /\ [][Next]_vars

\* The program and its timers go on; a child must obey SIGKILL, and nothing else.
Fairness ==
    /\ WF_vars(PumpReads) /\ WF_vars(PumpEnds)
    /\ WF_vars(WatchdogFires) /\ WF_vars(WatchdogReleases) /\ WF_vars(GraceEnds)
    /\ WF_vars(term = "killed" /\ ChildExits) /\ WF_vars(ChildCloses)
    /\ WF_vars(Finally) /\ WF_vars(Finish)

LiveSpec == Spec /\ Fairness

\* The recorder takes its frames, and its detector answers.
RecorderRuns ==
    /\ WF_vars(Pull) /\ WF_vars(HandleFrame) /\ WF_vars(PumpAwaited)
    /\ WF_vars(FrameRecorded \/ FrameFails)

-----------------------------------------------------------------------------
(* Properties *)

\* What the sessionizer is given between two closes is the source's audio with
\* nothing left out, repeated or moved, and no silence of the source inside:
\* audio is dropped only where a session is closed or capture ends
\* (CaptureFrameBuffer.write, CaptureBufferOverflowError, Recorder.#handleFrame).
Contiguous(silent, units) ==
    \A i \in 1 .. Len(units) - 1 : units[i + 1] = units[i] + 1 /\ units[i + 1] \notin silent

SessionIsContiguous == Contiguous(gaps, session)

\* A stop never looks like a failure of capture, nor a failure like a stop
\* (#stopping when `exited` resolves, CaptureFrameBuffer.stop).
EndsAsItWas == (it = "done" => stopping) /\ (it = "failed" => faulty)

\* When the stream is over for the program, the child that holds the microphone
\* goes, although the recorder may never come back for another frame
\* (armWatchdog, #terminateAndJoin).
MicrophoneIsReleased == closed ~> child = "closed"

\* The loop of a recorder that takes its frames ends once the stream is over: no
\* consumer waits for a buffer that is closed.
RunEnds == RecorderRuns => (closed ~> it \in Ended)

-----------------------------------------------------------------------------
(* The facts behind them *)

Listening == it \in {"next", "waiting", "taken", "vad"}
InHand == it \in {"taken", "vad"}

\* The unit that the pump reads next, and the last one that it has framed.
Front == IF pipe = <<>> THEN given + 1 ELSE pipe[1].first
Made == Front - Len(carry) - 1

\* The units before the frames that are still to be made.
Tailing == IF frames # <<>> THEN frames[Len(frames)].units ELSE IF InHand THEN held.units ELSE session

LastOf(units) == units[Len(units)]
Follows(silent, f, units) ==
    units # <<>> => f.gap \/ (f.units[1] = LastOf(units) + 1 /\ f.units[1] \notin silent)

\* The chunks follow each other, and a gap comes before the first of them only.
PipeInOrder ==
    ~closed => \A i \in DOMAIN pipe :
        /\ pipe[i].first + pipe[i].n = IF i = Len(pipe) THEN given + 1 ELSE pipe[i + 1].first
        /\ \A u \in gaps : u \notin pipe[i].first + 1 .. pipe[i].first + pipe[i].n - 1
        /\ pipe[i].first \in gaps => i = 1 /\ anchored /\ ~late

\* The carry is what was read last, and holds no gap that the clock has not shown.
CarryInOrder ==
    ~closed =>
        /\ Made >= 0 /\ \A i \in DOMAIN carry : carry[i] = Made + i
        /\ late => anchored
        /\ ~late => \A u \in gaps : u \notin (IF pendingGap THEN Made + 2 ELSE Made + 1) .. Front - 1

FramesInOrder ==
    /\ \A i \in DOMAIN frames : frames[i].epoch = epoch /\ Contiguous(gaps, frames[i].units)
    /\ \A i \in 1 .. Len(frames) - 1 : Follows(gaps, frames[i + 1], frames[i].units)

\* The frame in hand continues the session unless it will be dropped, and what comes
\* after one that will be dropped says so.
HeldInOrder ==
    /\ InHand => Contiguous(gaps, held.units) /\ held.epoch <= epoch
    /\ it = "vad" /\ held.gap => session = <<>>
    /\ it = "vad" \/ (it = "taken" /\ (released => held.epoch = 0)) => Follows(gaps, held, session)
    /\ it = "taken" /\ held.epoch # epoch =>
        IF frames = <<>> THEN closed \/ pendingGap ELSE frames[1].gap

\* Nothing is lost between the recorder, the buffer and the carry.
NothingBetween ==
    /\ InHand /\ frames # <<>> => Follows(gaps, frames[1], held.units)
    /\ it \in {"next", "waiting"} /\ frames # <<>> /\ (released => epoch = 0) => Follows(gaps, frames[1], session)
    /\ ~closed /\ (Listening \/ frames # <<>>) /\ ~pendingGap /\ Tailing # <<>> => LastOf(Tailing) = Made

\* An epoch is a gap that was noticed, or the stop.
EpochsCounted ==
    /\ Cardinality(gaps) <= MaxGaps
    /\ epoch <= Cardinality(gaps) + 1 /\ (~stopping => epoch <= Cardinality(gaps))
    /\ ~closed /\ (late \/ (pipe # <<>> /\ pipe[1].first \in gaps)) => epoch < Cardinality(gaps)

\* Why the stream is over.
EndIsKnown ==
    /\ pump = "over" => closed
    /\ stopping => closed
    /\ watch = "fired" => closed
    /\ released /\ Listening => closed
    /\ child # "running" => stopping \/ faulty
    /\ exit = "clean" => stopping
    /\ exit = "failed" \/ error \/ it \in {"thrown", "failing"} => faulty
    /\ it = "ending" => stopping
=============================================================================
