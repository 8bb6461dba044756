---------------------------- MODULE RecorderProofs ----------------------------
(***************************************************************************)
(* Proofs about the two halves of the recorder: for any settings that pass *)
(* validateConfig sessions never overlap and audio keeps step with its     *)
(* clock, for settings like the defaults parts and speech stay in bounds;  *)
(* and for any number of sessions, parts, crashes and faults a session is  *)
(* handed to the pipeline with all it published.  At the end, the stream   *)
(* that feeds it: for any sizes of frame, chunk and buffer, and any number *)
(* of gaps, the sessionizer hears contiguous audio; and the audio worker:  *)
(* for any number of calls and processes a caller gets its own answer.     *)
(***************************************************************************)
EXTENDS MCRecorder, MCChildren, SequenceTheorems, FiniteSetTheorems, TLAPS

-----------------------------------------------------------------------------
(* The state machine *)

LEMMA Settings ==
  /\ PreRoll \in Nat \ {0} /\ Candidate \in Nat \ {0} /\ Silence \in Nat \ {0} /\ MaxPart \in Nat \ {0}
  /\ Gap \in Nat \ {0} /\ MinSpeech \in Nat /\ MaxTime \in Nat /\ MaxPart > Silence
BY MachineAssumed DEF M!SessionizerAssumption

\* What holds for every setting that passes validateConfig
MachineCore ==
    /\ M!TypeOK /\ M!WindowsAgree /\ M!TimesInOrder
    /\ M!SessionsDisjoint /\ M!AudioMatchesClock

\* What also needs a pre-roll longer than the candidate and shorter than a part, and a
\* silence longer than a frame
MachineBounds ==
    /\ M!SpeechCounted /\ M!SilenceBounded
    /\ M!PartOverrunBounded /\ M!SpeechWithinDuration

USE DEF M!InSession

LEMMA MachineStarts == M!Init => MachineCore /\ (0 < MaxPart + Silence => MachineBounds)
BY Settings DEF M!Init, MachineCore, MachineBounds, M!TypeOK, M!WindowsAgree, M!TimesInOrder, M!SessionsDisjoint,
   M!AudioMatchesClock, M!SpeechCounted, M!SilenceBounded, M!PartOverrunBounded, M!SpeechWithinDuration

LEMMA ListenKeeps ==
  ASSUME MachineCore, NEW isSpeech \in BOOLEAN, now' = now + 1,
         M!Listen(now', isSpeech) \/ M!Consider(now', isSpeech)
  PROVE  MachineCore'
BY Settings DEF MachineCore, M!Listen, M!Consider, M!BufferPreRoll, M!HoldFrame, M!clock, M!recorder,
   M!TypeOK, M!WindowsAgree, M!TimesInOrder, M!SessionsDisjoint, M!AudioMatchesClock

LEMMA OpenKeeps ==
  ASSUME MachineCore, NEW isSpeech \in BOOLEAN, now' = now + 1, M!OpenSession(now', isSpeech)
  PROVE  MachineCore'
BY Settings DEF MachineCore, M!OpenSession, M!BufferPreRoll, M!HoldFrame, M!StartOfPreRoll, M!OpenNewPart, M!DrainPreRoll,
   M!TypeOK, M!WindowsAgree, M!TimesInOrder, M!SessionsDisjoint, M!AudioMatchesClock

LEMMA SpeakKeeps ==
  ASSUME MachineCore, NEW isSpeech \in BOOLEAN, now' = now + 1, M!Speak(now', isSpeech)
  PROVE  MachineCore'
BY Settings DEF MachineCore, M!Speak, M!MustRotate, M!CloseOpenPart, M!OpenNewPart, M!WriteFrame,
   M!TypeOK, M!WindowsAgree, M!TimesInOrder, M!SessionsDisjoint, M!AudioMatchesClock

LEMMA FallSilentKeeps ==
  ASSUME MachineCore, NEW isSpeech \in BOOLEAN, now' = now + 1, M!FallSilent(now', isSpeech)
  PROVE  MachineCore'
BY Settings DEF MachineCore, M!FallSilent, M!WriteFrame, M!clock,
   M!TypeOK, M!WindowsAgree, M!TimesInOrder, M!SessionsDisjoint, M!AudioMatchesClock

LEMMA TimeOutKeeps ==
  ASSUME MachineCore, NEW isSpeech \in BOOLEAN, now' = now + 1, M!TimeOut(now', isSpeech)
  PROVE  MachineCore'
BY Settings DEF MachineCore, M!TimeOut, M!Finalize, M!CloseOpenPart, M!ResetToIdle, M!DrainPreRoll,
   M!TypeOK, M!WindowsAgree, M!TimesInOrder, M!SessionsDisjoint, M!AudioMatchesClock

LEMMA CloseKeeps ==
  ASSUME MachineCore, M!CloseOpenSession
  PROVE  MachineCore'
BY Settings DEF MachineCore, M!CloseOpenSession, M!Finalize, M!CloseOpenPart, M!ResetToIdle, M!DrainPreRoll, M!recorder,
   M!TypeOK, M!WindowsAgree, M!TimesInOrder, M!SessionsDisjoint, M!AudioMatchesClock

\* Bounds: the handlers again, under the settings they need.
BoundedSettings == Candidate < PreRoll /\ PreRoll < MaxPart /\ 1 < Silence

LEMMA ListenBounds ==
  ASSUME BoundedSettings, MachineCore, MachineBounds, NEW isSpeech \in BOOLEAN, now' = now + 1,
         M!Listen(now', isSpeech) \/ M!Consider(now', isSpeech)
  PROVE  MachineBounds'
BY Settings DEF BoundedSettings, MachineCore, M!Listen, M!Consider, M!BufferPreRoll, M!HoldFrame, M!clock, M!recorder,
   M!TypeOK, M!WindowsAgree, M!TimesInOrder,
   MachineBounds, M!SpeechCounted, M!SilenceBounded, M!PartOverrunBounded, M!SpeechWithinDuration

LEMMA OpenBounds ==
  ASSUME BoundedSettings, MachineCore, MachineBounds, NEW isSpeech \in BOOLEAN, now' = now + 1,
         M!OpenSession(now', isSpeech)
  PROVE  MachineBounds'
BY Settings DEF BoundedSettings, MachineCore, M!OpenSession, M!BufferPreRoll, M!HoldFrame, M!StartOfPreRoll, M!OpenNewPart,
   M!TypeOK, M!WindowsAgree, M!TimesInOrder,
   MachineBounds, M!SpeechCounted, M!SilenceBounded, M!PartOverrunBounded, M!SpeechWithinDuration

LEMMA SpeakBounds ==
  ASSUME BoundedSettings, MachineCore, MachineBounds, NEW isSpeech \in BOOLEAN, now' = now + 1,
         M!Speak(now', isSpeech)
  PROVE  MachineBounds'
BY Settings DEF BoundedSettings, MachineCore, M!Speak, M!MustRotate, M!CloseOpenPart, M!OpenNewPart,
   M!TypeOK, M!WindowsAgree, M!TimesInOrder,
   MachineBounds, M!SpeechCounted, M!SilenceBounded, M!PartOverrunBounded, M!SpeechWithinDuration

LEMMA FallSilentBounds ==
  ASSUME BoundedSettings, MachineCore, MachineBounds, NEW isSpeech \in BOOLEAN, now' = now + 1,
         M!FallSilent(now', isSpeech)
  PROVE  MachineBounds'
BY Settings DEF BoundedSettings, MachineCore, M!FallSilent, M!clock,
   M!TypeOK, M!WindowsAgree, M!TimesInOrder,
   MachineBounds, M!SpeechCounted, M!SilenceBounded, M!PartOverrunBounded, M!SpeechWithinDuration

LEMMA EndBounds ==
  ASSUME BoundedSettings, MachineCore, MachineBounds,
         \/ now' = now + 1 /\ \E isSpeech \in BOOLEAN : M!TimeOut(now', isSpeech)
         \/ M!CloseOpenSession
  PROVE  MachineBounds'
BY Settings DEF BoundedSettings, MachineCore, M!TimeOut, M!CloseOpenSession, M!Finalize, M!CloseOpenPart, M!ResetToIdle,
   M!DrainPreRoll, M!recorder, M!TypeOK, M!WindowsAgree, M!TimesInOrder,
   MachineBounds, M!SpeechCounted, M!SilenceBounded, M!PartOverrunBounded, M!SpeechWithinDuration

LEMMA MachineStep ==
  ASSUME MachineCore, [M!Next]_(M!vars)
  PROVE  MachineCore' /\ (BoundedSettings /\ MachineBounds => MachineBounds')
<1>1. CASE UNCHANGED M!vars
  BY <1>1 DEF M!vars, M!clock, M!recorder, MachineCore, MachineBounds, M!TypeOK, M!WindowsAgree, M!TimesInOrder,
     M!SessionsDisjoint, M!AudioMatchesClock, M!SpeechCounted, M!SilenceBounded, M!PartOverrunBounded,
     M!SpeechWithinDuration
<1>2. CASE M!Frame
  <2>1. PICK isSpeech \in BOOLEAN :
          \/ M!Listen(now', isSpeech) \/ M!Consider(now', isSpeech) \/ M!OpenSession(now', isSpeech)
          \/ M!Speak(now', isSpeech) \/ M!FallSilent(now', isSpeech) \/ M!TimeOut(now', isSpeech)
    BY <1>2 DEF M!Frame
  <2>2. now' = now + 1
    BY <1>2 DEF M!Frame
  <2>3. CASE M!Listen(now', isSpeech) \/ M!Consider(now', isSpeech)
    BY <2>2, <2>3, ListenKeeps, ListenBounds
  <2>4. CASE M!OpenSession(now', isSpeech)
    BY <2>2, <2>4, OpenKeeps, OpenBounds
  <2>5. CASE M!Speak(now', isSpeech)
    BY <2>2, <2>5, SpeakKeeps, SpeakBounds
  <2>6. CASE M!FallSilent(now', isSpeech)
    BY <2>2, <2>6, FallSilentKeeps, FallSilentBounds
  <2>7. CASE M!TimeOut(now', isSpeech)
    BY <2>2, <2>7, TimeOutKeeps, EndBounds
  <2> QED
    BY <2>1, <2>3, <2>4, <2>5, <2>6, <2>7
<1>3. CASE M!CloseOpenSession
  BY <1>3, CloseKeeps, EndBounds
<1> QED
  BY <1>1, <1>2, <1>3 DEF M!Next

\* For any settings that pass validateConfig: a session never replays audio of the one
\* before it, and a part holds the audio its journal gives the length of (onFrame, the
\* pre-roll ring and the recorder's copy of it).
THEOREM SessionsNeverOverlap == M!Spec => [](M!SessionsDisjoint /\ M!AudioMatchesClock)
<1>1. M!Init => MachineCore
  BY MachineStarts
<1>2. MachineCore /\ [M!Next]_(M!vars) => MachineCore'
  BY MachineStep
<1>3. MachineCore => M!SessionsDisjoint /\ M!AudioMatchesClock
  BY DEF MachineCore
<1> QED
  BY <1>1, <1>2, <1>3, PTL DEF M!Spec

\* Under settings like the defaults parts and speech are bounded as well: with the
\* candidate shorter than the pre-roll, the pre-roll shorter than a part, and a silence of
\* more than one frame.
THEOREM MachineInvariant ==
  ASSUME Candidate < PreRoll, PreRoll < MaxPart, 1 < Silence
  PROVE  M!Spec => []MachineInv
<1>1. BoundedSettings
  BY DEF BoundedSettings
<1>2. M!Init => MachineCore /\ MachineBounds
  BY MachineStarts, Settings
<1>3. MachineCore /\ MachineBounds /\ [M!Next]_(M!vars) => MachineCore' /\ MachineBounds'
  BY <1>1, MachineStep
<1>4. MachineCore /\ MachineBounds => MachineInv
  BY DEF MachineCore, MachineBounds, MachineInv
<1> QED
  BY <1>2, <1>3, <1>4, PTL DEF M!Spec

-----------------------------------------------------------------------------
(* The storage *)

USE DEF database, files, lane, bounds

Kinds == {"finalized", "rejected", "discarded"}

LEMMA Sizes ==
  /\ NSessions \in Nat \ {0} /\ NParts \in Nat \ {0} /\ MaxCrashes \in Nat /\ MaxFaults \in Nat
  /\ Sessions \subseteq Nat /\ 0 \notin Sessions /\ Sessions \subseteq 0 .. NSessions
BY ArchiveAssumption DEF ArchiveAssumption, Sessions

LEMMA PartFacts ==
  /\ None \notin Parts
  /\ \A p \in Parts : /\ p[1] \in Sessions /\ p[2] \in 1 .. NParts /\ p[2] \in Nat
                       /\ p = <<p[1], p[2]>> /\ p \in PartsOf(p[1])
  /\ \A s \in Sessions : PartsOf(s) \subseteq Parts /\ \A p \in PartsOf(s) : p[1] = s
  /\ \A s \in Sessions, n \in 1 .. NParts : <<s, n>> \in Parts
BY Sizes DEF None, Parts, PartsOf, Sessions

LEMMA PartsFinite ==
  /\ IsFiniteSet(Parts)
  /\ \A s \in Sessions : IsFiniteSet(PartsOf(s)) /\ Cardinality(PartsOf(s)) = NParts
<1>1. IsFiniteSet(1 .. NParts) /\ Cardinality(1 .. NParts) = NParts /\ IsFiniteSet(Sessions)
  BY Sizes, FS_Interval DEF Sessions
<1>2. IsFiniteSet(Parts)
  BY <1>1, FS_Product DEF Parts
<1>3. ASSUME NEW s \in Sessions
      PROVE  IsFiniteSet(PartsOf(s)) /\ Cardinality(PartsOf(s)) = NParts
  <2>1. IsFiniteSet({s}) /\ Cardinality({s}) = 1
    BY FS_Singleton
  <2>2. IsFiniteSet(PartsOf(s)) /\ Cardinality(PartsOf(s)) = 1 * NParts
    BY <1>1, <2>1, FS_Product DEF PartsOf
  <2> QED
    BY <2>2, Sizes
<1> QED
  BY <1>2, <1>3

LEMMA CountsInRange == \A s \in Sessions : Cardinality(Finalized(s)) \in 0 .. NParts
<1>1. ASSUME NEW s \in Sessions
      PROVE  Cardinality(Finalized(s)) \in 0 .. NParts
  <2>1. Finalized(s) \subseteq PartsOf(s)
    BY DEF Finalized
  <2>2. IsFiniteSet(Finalized(s)) /\ Cardinality(Finalized(s)) <= NParts
    BY <2>1, PartsFinite, FS_Subset
  <2>3. Cardinality(Finalized(s)) \in Nat
    BY <2>2, FS_CardinalityType
  <2> QED
    BY <2>2, <2>3, Sizes
<1> QED
  BY <1>1

\* A finalizer that starts takes a slot, and one that ends returns it.
LEMMA SlotTaken ==
  ASSUME fin \in [Parts -> {"no", "close", "commit", "abort"}], NEW p \in Parts, fin[p] = "no",
         NEW step \in {"close", "commit", "abort"}, fin' = [fin EXCEPT ![p] = step]
  PROVE  Cardinality(Working') = Cardinality(Working) + 1 /\ Cardinality(Working) \in Nat
<1>1. Working' = Working \cup {p} /\ p \notin Working
  BY DEF Working
<1>2. IsFiniteSet(Working)
  BY PartsFinite, FS_Subset DEF Working
<1> QED
  BY <1>1, <1>2, FS_AddElement, FS_CardinalityType

LEMMA SlotReturned ==
  ASSUME fin \in [Parts -> {"no", "close", "commit", "abort"}], NEW p \in Parts, fin[p] # "no",
         fin' = [fin EXCEPT ![p] = "no"]
  PROVE  /\ Cardinality(Working') = Cardinality(Working) - 1
         /\ Cardinality(Working) \in Nat /\ Cardinality(Working') \in Nat
<1>1. Working' = Working \ {p} /\ p \in Working
  BY DEF Working
<1>2. IsFiniteSet(Working) /\ IsFiniteSet(Working')
  BY PartsFinite, FS_Subset DEF Working
<1> QED
  BY <1>1, <1>2, FS_RemoveElement, FS_CardinalityType

LEMMA SlotsNatural == Cardinality(Working) \in Nat
<1>1. IsFiniteSet(Working)
  BY PartsFinite, FS_Subset DEF Working
<1> QED
  BY <1>1, FS_CardinalityType

StorageCore ==
    /\ TypeOK /\ SlotsReserved /\ CountIsTrue
    /\ PublishedIsKnown /\ FinalizersAreOwned /\ LaneInOrder /\ OutcomesPending
    /\ PartsAhead /\ RecoveryIsAlone /\ PipelineIsWhole

LEMMA CoreIsArchiveInv == StorageCore => ArchiveInv /\ HandedOverWhole
BY DEF StorageCore, ArchiveInv, NothingStranded, JobsMatchOutcome, HandedOverWhole, PipelineIsWhole, InitialJobs

\* What the invariant says of the slots, for one step
LEMMA SlotsKept ==
  ASSUME StorageCore, UNCHANGED <<fin, open, reserved>>
  PROVE  SlotsReserved'
<1>1. Working' = Working
  BY DEF Working
<1> QED
  BY <1>1 DEF StorageCore, SlotsReserved

LEMMA FinisherReturnsSlot ==
  ASSUME StorageCore, NEW p \in Parts, fin[p] # "no", Finished(p), open' = open
  PROVE  /\ SlotsReserved' /\ reserved' \in 0 .. Capacity /\ due' \subseteq Parts
         /\ fin' \in [Parts -> {"no", "close", "commit", "abort"}]
<1>1. fin' = [fin EXCEPT ![p] = "no"] /\ reserved' = reserved - 1
  BY DEF Finished
<1>2. fin \in [Parts -> {"no", "close", "commit", "abort"}] /\ reserved \in 0 .. Capacity
  BY DEF StorageCore, TypeOK
<1>3. /\ Cardinality(Working') = Cardinality(Working) - 1
      /\ Cardinality(Working) \in Nat /\ Cardinality(Working') \in Nat
  BY <1>1, <1>2, SlotReturned
<1>4. reserved = Cardinality(Working) + (IF open = None THEN 0 ELSE 1)
  BY DEF StorageCore, SlotsReserved
<1>5. SlotsReserved'
  BY <1>1, <1>3, <1>4 DEF SlotsReserved
<1>6. reserved' \in 0 .. Capacity
  BY <1>1, <1>2, <1>3, <1>4 DEF Capacity
<1>7. due' \subseteq Parts
  BY DEF Finished, StorageCore, TypeOK
<1> QED
  BY <1>1, <1>2, <1>5, <1>6, <1>7

LEMMA ClosingKeepsSlot ==
  ASSUME StorageCore, NEW last \in BOOLEAN, CloseOpenPart(last), reserved' = reserved
  PROVE  /\ SlotsReserved'
         /\ fin' \in [Parts -> {"no", "close", "commit", "abort"}]
         /\ journal' \in [Parts -> {"none", "part", "end"}]
         /\ session' \in [Sessions -> {"none", "ACTIVE", "FINALIZING", "PROCESSING", "REJECTED", "HELD", "FAILED"}]
         /\ open' \in Parts \cup {None} /\ faults' \in 0 .. MaxFaults
<1>1. CASE open = None
  BY <1>1, SlotsKept DEF CloseOpenPart, StorageCore, TypeOK
<1>2. CASE open # None
  <2>1. open \in Parts /\ fin[open] = "no" /\ open' = None
    BY <1>2 DEF StorageCore, TypeOK, LaneInOrder, CloseOpenPart
  <2>2. fin \in [Parts -> {"no", "close", "commit", "abort"}]
    BY DEF StorageCore, TypeOK
  <2>3. PICK p \in Parts : p = open
    BY <2>1
  <2>4. PICK step \in {"close", "commit", "abort"} : fin' = [fin EXCEPT ![p] = step]
    BY <1>2, <2>3 DEF CloseOpenPart
  <2>5. Cardinality(Working') = Cardinality(Working) + 1 /\ Cardinality(Working) \in Nat
    BY <2>1, <2>2, <2>3, <2>4, SlotTaken
  <2>6. SlotsReserved'
    BY <1>2, <2>1, <2>5 DEF StorageCore, SlotsReserved
  <2>7. fin' \in [Parts -> {"no", "close", "commit", "abort"}]
    BY <2>2, <2>4
  <2>8. /\ journal' \in [Parts -> {"none", "part", "end"}]
        /\ session' \in [Sessions -> {"none", "ACTIVE", "FINALIZING", "PROCESSING", "REJECTED", "HELD", "FAILED"}]
        /\ faults' \in 0 .. MaxFaults
    BY <1>2, Sizes DEF StorageCore, TypeOK, CloseOpenPart, Fault
  <2> QED
    BY <2>1, <2>6, <2>7, <2>8
<1> QED
  BY <1>1, <1>2

\* What it says of the part counts
Counted(s) == session[s] \in {"PROCESSING", "REJECTED"}

LEMMA CountsKept ==
  ASSUME StorageCore, count' = count, \A s \in Sessions : Counted(s)' => Counted(s),
         \A s \in Sessions : Counted(s)' => \A p \in PartsOf(s) : row'[p] = "final" <=> row[p] = "final"
  PROVE  CountIsTrue'
<1>1. ASSUME NEW s \in Sessions, session'[s] \in {"PROCESSING", "REJECTED"}
      PROVE  count'[s] = Cardinality(Finalized(s)')
  <2>1. Finalized(s)' = Finalized(s)
    BY <1>1 DEF Finalized, Counted
  <2> QED
    BY <1>1, <2>1 DEF StorageCore, CountIsTrue, Counted
<1> QED
  BY <1>1 DEF CountIsTrue

LEMMA CountWritten ==
  ASSUME StorageCore, row' = row, NEW s \in Sessions, count' = [count EXCEPT ![s] = Cardinality(Finalized(s))],
         \A t \in Sessions : t # s => session'[t] = session[t]
  PROVE  CountIsTrue'
<1>1. ASSUME NEW t \in Sessions, session'[t] \in {"PROCESSING", "REJECTED"}
      PROVE  count'[t] = Cardinality(Finalized(t)')
  <2>1. Finalized(t)' = Finalized(t)
    BY DEF Finalized
  <2> QED
    BY <1>1, <2>1 DEF StorageCore, TypeOK, CountIsTrue
<1> QED
  BY <1>1 DEF CountIsTrue

LEMMA StartSessionKeeps ==
  ASSUME StorageCore, NEW s \in Sessions, StartSession(s)
  PROVE  StorageCore'
<1>1. TypeOK'
  BY Sizes, PartFacts DEF StorageCore, TypeOK, StartSession
<1>2. SlotsReserved'
  BY SlotsKept DEF StartSession
<1>3. CountIsTrue'
  <2>1. \A t \in Sessions : Counted(t)' => Counted(t)
    BY DEF Counted, StartSession
  <2>2. \A t \in Sessions : Counted(t)' => \A p \in PartsOf(t) : row'[p] = "final" <=> row[p] = "final"
    BY <2>1 DEF StartSession
  <2>3. count' = count
    BY DEF StartSession
  <2> QED
    BY <2>1, <2>2, <2>3, CountsKept
<1>4. PublishedIsKnown'
  BY DEF StorageCore, PublishedIsKnown, StartSession
<1>5. FinalizersAreOwned'
  BY Sizes, PartFacts DEF StorageCore, FinalizersAreOwned, StartSession
<1>6. LaneInOrder'
  BY Sizes DEF StorageCore, TypeOK, LaneInOrder, StartSession
<1>7. OutcomesPending'
  BY DEF StorageCore, OutcomesPending, StartSession
<1>8. PartsAhead'
  BY DEF StorageCore, PartsAhead, Ahead, Untouched, StartSession
<1>9. RecoveryIsAlone'
  BY DEF RecoveryIsAlone, StartSession
<1>10. PipelineIsWhole'
  BY Sizes DEF StorageCore, PipelineIsWhole, StartSession
<1> QED
  BY <1>1, <1>2, <1>3, <1>4, <1>5, <1>6, <1>7, <1>8, <1>9, <1>10 DEF StorageCore

LEMMA OpenPartKeeps ==
  ASSUME StorageCore, OpenPart
  PROVE  StorageCore'
<1>1. TypeOK'
  <2>1. PICK p \in Parts : p = wanted
    BY DEF OpenPart, StorageCore, TypeOK
  <2>2. p[1] \in Sessions /\ Sessions \subseteq 0 .. NSessions
    BY PartFacts, Sizes
  <2>3. wanted' = None /\ open' \in Parts \cup {None} /\ discarding' \in 0 .. NSessions
    <3>1. open' = open \/ open' = wanted
      BY DEF OpenPart
    <3>2. discarding' = discarding \/ discarding' = wanted[1]
      BY DEF OpenPart
    <3>3. wanted' = None
      BY DEF OpenPart
    <3>4. open \in Parts \cup {None} /\ discarding \in 0 .. NSessions
      BY DEF StorageCore, TypeOK
    <3>5. open' \in Parts \cup {None}
      BY <2>1, <3>1, <3>4
    <3>6. wanted[1] \in 0 .. NSessions
      BY <2>1, <2>2
    <3>7. discarding' \in 0 .. NSessions
      BY <3>2, <3>4, <3>6
    <3> QED
      BY <3>3, <3>5, <3>7
  <2>4. reserved' \in 0 .. Capacity
    BY DEF StorageCore, TypeOK, OpenPart, HasSlot, Capacity
  <2>5. fin' \in [Parts -> {"no", "close", "commit", "abort"}] /\ row' \in [Parts -> {"none", "open", "final", "gone"}]
    BY DEF StorageCore, TypeOK, OpenPart
  <2>6. temp' \subseteq Parts /\ due' \subseteq Parts
    BY <2>1 DEF StorageCore, TypeOK, OpenPart
  <2>7. faults' \in 0 .. MaxFaults
    BY Sizes DEF StorageCore, TypeOK, OpenPart, Fault
  <2> QED
    BY <2>3, <2>4, <2>5, <2>6, <2>7 DEF StorageCore, TypeOK, OpenPart
<1>2. SlotsReserved'
  <2>1. CASE UNCHANGED <<fin, open, reserved>>
    BY <2>1, SlotsKept
  <2>2. CASE ~UNCHANGED <<fin, open, reserved>>
    <3>1. /\ discarding # wanted[1] /\ reserved' = reserved + 1
          /\ \/ open' = wanted /\ fin' = fin
             \/ open' = open /\ fin' = [fin EXCEPT ![wanted] = "abort"]
      BY <2>2 DEF OpenPart
    <3>2. PICK p \in Parts : p = wanted
      BY DEF OpenPart, StorageCore, TypeOK
    <3>3. fin[p] = "no" /\ open = None
      BY <3>2, PartFacts DEF StorageCore, PartsAhead, Ahead, Untouched, LaneInOrder
    <3>4. CASE open' = wanted /\ fin' = fin
      <4>1. Working' = Working
        BY <3>4 DEF Working
      <4> QED
        BY <3>1, <3>2, <3>3, <3>4, <4>1, SlotsNatural, PartFacts DEF StorageCore, SlotsReserved
    <3>5. CASE open' = open /\ fin' = [fin EXCEPT ![wanted] = "abort"]
      <4>1. Cardinality(Working') = Cardinality(Working) + 1
        BY <3>2, <3>3, <3>5, SlotTaken DEF StorageCore, TypeOK
      <4> QED
        BY <3>1, <3>3, <3>5, <4>1, SlotsNatural DEF StorageCore, SlotsReserved
    <3> QED
      BY <3>1, <3>4, <3>5
  <2> QED
    BY <2>1, <2>2
<1>3. CountIsTrue'
  <2>1. \A s \in Sessions : Counted(s)' => Counted(s)
    BY DEF Counted, OpenPart
  <2>2. \A s \in Sessions : Counted(s)' => \A p \in PartsOf(s) : row'[p] = "final" <=> row[p] = "final"
    BY <2>1, PartFacts DEF StorageCore, TypeOK, Counted, LaneInOrder, OpenPart
  <2>3. count' = count
    BY DEF OpenPart
  <2> QED
    BY <2>1, <2>2, <2>3, CountsKept
<1>4. PublishedIsKnown'
  <2>1. wanted \in Parts /\ wanted \notin archive
    BY PartFacts DEF OpenPart, StorageCore, TypeOK, LaneInOrder, PartsAhead, Ahead, Untouched
  <2>2. \A p \in Parts : p # wanted => row'[p] = row[p]
    BY <2>1 DEF OpenPart, StorageCore, TypeOK
  <2> QED
    BY <2>1, <2>2 DEF OpenPart, StorageCore, TypeOK, PublishedIsKnown
<1>5. FinalizersAreOwned'
  BY DEF StorageCore, TypeOK, FinalizersAreOwned, LaneInOrder, OpenPart
<1>6. LaneInOrder'
  BY PartFacts DEF StorageCore, TypeOK, LaneInOrder, PartsAhead, Ahead, Untouched, OpenPart
<1>7. OutcomesPending'
  BY DEF StorageCore, OutcomesPending, OpenPart
<1>8. PartsAhead'
  BY PartFacts DEF StorageCore, TypeOK, PartsAhead, Ahead, Untouched, LaneInOrder, OpenPart
<1>9. RecoveryIsAlone'
  BY DEF StorageCore, RecoveryIsAlone, OpenPart
<1>10. PipelineIsWhole'
  BY PartFacts DEF StorageCore, TypeOK, PipelineIsWhole, LaneInOrder, OpenPart
<1> QED
  BY <1>1, <1>2, <1>3, <1>4, <1>5, <1>6, <1>7, <1>8, <1>9, <1>10 DEF StorageCore

LEMMA RotateKeeps ==
  ASSUME StorageCore, Rotate
  PROVE  StorageCore'
<1>1. TypeOK'
  <2>1. CloseOpenPart(FALSE) /\ reserved' = reserved
    BY DEF Rotate
  <2>2. wanted' \in Parts
    <3>1. current \in Sessions /\ open \in Parts /\ open[2] < NParts /\ wanted' = <<current, open[2] + 1>>
      BY DEF StorageCore, TypeOK, Rotate, Sessions
    <3>2. open[2] + 1 \in 1 .. NParts
      BY <3>1, PartFacts, Sizes
    <3> QED
      BY <3>1, <3>2, PartFacts
  <2>3. /\ fin' \in [Parts -> {"no", "close", "commit", "abort"}]
        /\ journal' \in [Parts -> {"none", "part", "end"}]
        /\ session' \in [Sessions -> {"none", "ACTIVE", "FINALIZING", "PROCESSING", "REJECTED", "HELD", "FAILED"}]
        /\ open' \in Parts \cup {None} /\ faults' \in 0 .. MaxFaults
    BY <2>1, ClosingKeepsSlot
  <2> QED
    BY <2>2, <2>3 DEF StorageCore, TypeOK, Rotate
<1>2. SlotsReserved'
  BY ClosingKeepsSlot DEF Rotate
<1>3. CountIsTrue'
  <2>1. \A s \in Sessions : Counted(s)' => Counted(s)
    BY DEF Counted, Rotate, CloseOpenPart
  <2>2. \A s \in Sessions : Counted(s)' => \A p \in PartsOf(s) : row'[p] = "final" <=> row[p] = "final"
    BY <2>1 DEF Rotate
  <2>3. count' = count
    BY DEF Rotate
  <2> QED
    BY <2>1, <2>2, <2>3, CountsKept
<1>4. PublishedIsKnown'
  BY DEF StorageCore, TypeOK, PublishedIsKnown, Rotate, CloseOpenPart
<1>5. FinalizersAreOwned'
  BY DEF StorageCore, TypeOK, FinalizersAreOwned, LaneInOrder, Rotate, CloseOpenPart
<1>6. LaneInOrder'
  BY DEF StorageCore, LaneInOrder, Rotate, CloseOpenPart
<1>7. OutcomesPending'
  BY DEF StorageCore, OutcomesPending, Rotate, CloseOpenPart
<1>8. PartsAhead'
  BY PartFacts DEF StorageCore, TypeOK, PartsAhead, Ahead, Untouched, LaneInOrder, Rotate, CloseOpenPart
<1>9. RecoveryIsAlone'
  BY DEF RecoveryIsAlone, Rotate
<1>10. PipelineIsWhole'
  BY DEF StorageCore, PipelineIsWhole, Rotate, CloseOpenPart
<1> QED
  BY <1>1, <1>2, <1>3, <1>4, <1>5, <1>6, <1>7, <1>8, <1>9, <1>10 DEF StorageCore

LEMMA EndSessionKeeps ==
  ASSUME StorageCore, NEW verdict \in {"finalized", "rejected"}, EndSession(verdict)
  PROVE  StorageCore'
<1>1. TypeOK'
  <2>1. CASE Settle(current, IF discarding = current THEN "discarded" ELSE verdict) /\ UNCHANGED <<open, fin, outcome, phase, faults>>
    <3>1. current \in Sessions /\ Cardinality(Finalized(current)) \in 0 .. NParts
      BY CountsInRange DEF StorageCore, TypeOK, EndSession, Sessions
    <3>2. session' \in [Sessions -> {"none", "ACTIVE", "FINALIZING", "PROCESSING", "REJECTED", "HELD", "FAILED"}]
      BY <2>1 DEF StorageCore, TypeOK, Settle
    <3>3. /\ exact' \in [Sessions -> BOOLEAN] /\ journal' \in [Parts -> {"none", "part", "end"}]
          /\ count' \in [Sessions -> 0 .. NParts] /\ jobs' \in [Sessions -> SUBSET InitialJobs]
      BY <2>1, <3>1 DEF StorageCore, TypeOK, Settle
    <3> QED
      BY <2>1, <3>2, <3>3, Sizes DEF StorageCore, TypeOK, EndSession
  <2>2. CASE CloseOpenPart(TRUE) /\ UNCHANGED <<exact, count, jobs, phase>>
           /\ outcome' = [outcome EXCEPT ![current] = IF discarding = current THEN "discarded" ELSE verdict]
    <3>1. reserved' = reserved
      BY DEF EndSession
    <3>2. /\ fin' \in [Parts -> {"no", "close", "commit", "abort"}]
          /\ journal' \in [Parts -> {"none", "part", "end"}]
          /\ session' \in [Sessions -> {"none", "ACTIVE", "FINALIZING", "PROCESSING", "REJECTED", "HELD", "FAILED"}]
          /\ open' \in Parts \cup {None} /\ faults' \in 0 .. MaxFaults
      BY <2>2, <3>1, ClosingKeepsSlot
    <3>3. outcome' \in [Sessions -> {"none", "finalized", "rejected", "discarded"}]
      BY <2>2 DEF StorageCore, TypeOK
    <3> QED
      BY <2>2, <3>2, <3>3, Sizes DEF StorageCore, TypeOK, EndSession
  <2>3. CASE Fault /\ phase' = "stopping" /\ UNCHANGED <<session, exact, count, journal, jobs, open, fin, outcome>>
    BY <2>3, Sizes DEF StorageCore, TypeOK, Fault, EndSession
  <2> QED
    BY <2>1, <2>2, <2>3 DEF EndSession
<1>2. SlotsReserved'
  BY SlotsKept, ClosingKeepsSlot DEF EndSession
<1>3. CountIsTrue'
  <2>1. current \in Sessions /\ row' = row
    BY DEF StorageCore, TypeOK, EndSession, Sessions
  <2>2. CASE count' = [count EXCEPT ![current] = Cardinality(Finalized(current))]
           /\ \A t \in Sessions : t # current => session'[t] = session[t]
    BY <2>1, <2>2, CountWritten
  <2>3. CASE CloseOpenPart(TRUE) /\ count' = count
    <3>1. \A s \in Sessions : Counted(s)' => Counted(s)
      BY <2>3 DEF StorageCore, TypeOK, Counted, CloseOpenPart
    <3> QED
      BY <2>1, <2>3, <3>1, CountsKept
  <2>4. CASE UNCHANGED <<session, count>>
    BY <2>1, <2>4, CountsKept DEF Counted
  <2> QED
    BY <2>1, <2>2, <2>3, <2>4 DEF EndSession, Settle, StorageCore, TypeOK
<1>4. PublishedIsKnown'
  <2>1. ASSUME NEW p \in archive
        PROVE  row[p] = "final" \/ (row[p] = "open" /\ journal'[p] # "none")
    <3>1. p \in Parts /\ (row[p] = "final" \/ (row[p] = "open" /\ journal[p] # "none"))
      BY DEF StorageCore, TypeOK, PublishedIsKnown
    <3>2. row[p] = "open" /\ journal[p] # "none" => journal'[p] # "none"
      BY <3>1 DEF EndSession, Settle, Finalized, CloseOpenPart, StorageCore, TypeOK
    <3> QED
      BY <3>1, <3>2
  <2> QED
    BY <2>1 DEF EndSession, PublishedIsKnown
<1>5. FinalizersAreOwned'
  BY PartFacts DEF StorageCore, TypeOK, FinalizersAreOwned, LaneInOrder, EndSession, CloseOpenPart, Settle, EndJournal, AllDetachedDone, Finalizing
<1>6. LaneInOrder'
  BY DEF LaneInOrder, EndSession, CloseOpenPart
<1>7. OutcomesPending'
  BY Sizes DEF StorageCore, TypeOK, OutcomesPending, LaneInOrder, EndSession, CloseOpenPart, Settle
<1>8. PartsAhead'
  BY PartFacts DEF StorageCore, TypeOK, PartsAhead, Ahead, Untouched, LaneInOrder, EndSession, CloseOpenPart, Settle
<1>9. RecoveryIsAlone'
  BY DEF RecoveryIsAlone, EndSession
<1>10. PipelineIsWhole'
  BY DEF StorageCore, TypeOK, PipelineIsWhole, LaneInOrder, EndSession, CloseOpenPart, Settle, Proven
<1> QED
  BY <1>1, <1>2, <1>3, <1>4, <1>5, <1>6, <1>7, <1>8, <1>9, <1>10 DEF StorageCore

\* The transaction of a deferred outcome, behind a queued look or in the drain.
LEMMA SettleOutcomeKeeps ==
  ASSUME StorageCore, NEW s \in Sessions, outcome[s] # "none", AllDetachedDone(s), SettleOutcome(s),
         UNCHANGED <<row, files, lane, reserved, fin, phase, bounds>>, due' \subseteq due
  PROVE  StorageCore'
<1> USE DEF SettleOutcome, lane, files, bounds
<1>1. TypeOK'
  BY CountsInRange DEF StorageCore, TypeOK, Settle
<1>2. SlotsReserved'
  BY SlotsKept
<1>3. CountIsTrue'
  <2>1. row' = row /\ count' = [count EXCEPT ![s] = Cardinality(Finalized(s))]
    BY DEF Settle
  <2>2. \A t \in Sessions : t # s => session'[t] = session[t]
    BY DEF Settle
  <2> QED
    BY <2>1, <2>2, CountWritten
<1>4. PublishedIsKnown'
  <2>1. \A p \in archive : p \in Parts
    BY DEF StorageCore, TypeOK
  <2>2. \A p \in Parts : row[p] # "final" => journal'[p] = journal[p]
    BY DEF Settle, Finalized
  <2> QED
    BY <2>1, <2>2 DEF StorageCore, PublishedIsKnown
<1>5. FinalizersAreOwned'
  BY PartFacts DEF StorageCore, FinalizersAreOwned, Settle, EndJournal, AllDetachedDone, Finalizing
<1>6. LaneInOrder'
  BY DEF StorageCore, TypeOK, LaneInOrder, OutcomesPending, Settle
<1>7. OutcomesPending'
  BY DEF StorageCore, TypeOK, OutcomesPending, Settle
<1>8. PartsAhead'
  BY DEF StorageCore, PartsAhead, Ahead, Untouched, Settle
<1>9. RecoveryIsAlone'
  BY DEF StorageCore, RecoveryIsAlone
<1>10. PipelineIsWhole'
  BY DEF StorageCore, TypeOK, PipelineIsWhole, PublishedIsKnown, OutcomesPending, Settle, Proven
<1> QED
  BY <1>1, <1>2, <1>3, <1>4, <1>5, <1>6, <1>7, <1>8, <1>9, <1>10 DEF StorageCore

\* Only the count of faults and the queued looks change.
LEMMA LookKeeps ==
  ASSUME StorageCore, UNCHANGED <<database, files, lane, reserved, fin, outcome, phase, crashes>>,
         due' \subseteq due, faults' = faults \/ Fault
  PROVE  StorageCore'
<1> USE DEF database, files, lane
<1>1. TypeOK'
  BY Sizes DEF StorageCore, TypeOK, Fault
<1>2. SlotsReserved'
  BY SlotsKept
<1>3. CountIsTrue'
  BY CountsKept DEF Counted
<1>4. PublishedIsKnown' /\ FinalizersAreOwned' /\ LaneInOrder' /\ OutcomesPending'
  BY DEF StorageCore, PublishedIsKnown, FinalizersAreOwned, LaneInOrder, OutcomesPending
<1>5. PartsAhead' /\ RecoveryIsAlone' /\ PipelineIsWhole'
  BY DEF StorageCore, PartsAhead, Ahead, Untouched, RecoveryIsAlone, Recoverable, PipelineIsWhole
<1> QED
  BY <1>1, <1>2, <1>3, <1>4, <1>5 DEF StorageCore

LEMMA SettleDeferredKeeps ==
  ASSUME StorageCore, NEW p \in Parts, SettleDeferred(p)
  PROVE  StorageCore'
<1> DEFINE s == p[1]
<1>1. s \in Sessions /\ due' \subseteq due
  BY PartFacts DEF SettleDeferred
<1>2. CASE outcome[s] # "none" /\ AllDetachedDone(s) /\ SettleOutcome(s) /\ UNCHANGED faults
  <2>1. UNCHANGED <<row, files, lane, reserved, fin, phase, bounds>>
    BY <1>2 DEF SettleDeferred, bounds
  <2> QED
    BY <1>1, <1>2, <2>1, SettleOutcomeKeeps
<1>3. CASE UNCHANGED <<session, exact, count, journal, jobs, outcome>> /\ (faults' = faults \/ Fault)
  <2>1. UNCHANGED <<database, files, lane, reserved, fin, outcome, phase, crashes>>
    BY <1>3 DEF SettleDeferred, database
  <2> QED
    BY <1>1, <1>3, <2>1, LookKeeps
<1> QED
  BY <1>2, <1>3 DEF SettleDeferred

\* The memory of the recorder goes, and what is durable stays.
LEMMA ForgetKeeps ==
  ASSUME StorageCore, phase' = "down", Forget, UNCHANGED <<database, files>>,
         crashes' \in 0 .. MaxCrashes, faults' \in 0 .. MaxFaults
  PROVE  StorageCore'
<1> USE DEF database, files
<1>1. TypeOK'
  BY Sizes DEF StorageCore, TypeOK, Capacity, Forget
<1>2. SlotsReserved'
  <2>1. Working' = {} /\ reserved' = 0 /\ open' = None
    BY DEF Forget, Working
  <2> QED
    BY <2>1, FS_EmptySet DEF SlotsReserved
<1>3. CountIsTrue'
  BY CountsKept DEF Counted
<1>4. PublishedIsKnown'
  BY DEF StorageCore, PublishedIsKnown
<1>5. FinalizersAreOwned' /\ LaneInOrder' /\ OutcomesPending'
  BY DEF FinalizersAreOwned, LaneInOrder, OutcomesPending, Forget
<1>6. PartsAhead'
  BY DEF StorageCore, PartsAhead, Ahead, Untouched, Forget
<1>7. RecoveryIsAlone'
  BY DEF RecoveryIsAlone, Forget
<1>8. PipelineIsWhole'
  BY DEF StorageCore, PipelineIsWhole
<1> QED
  BY <1>1, <1>2, <1>3, <1>4, <1>5, <1>6, <1>7, <1>8 DEF StorageCore

LEMMA DrainOutcomeKeeps ==
  ASSUME StorageCore, NEW s \in Sessions, DrainOutcome(s)
  PROVE  StorageCore'
<1>1. CASE SettleOutcome(s) /\ UNCHANGED <<lane, reserved, fin, due, phase, faults>>
  <2>1. UNCHANGED <<row, files, lane, reserved, fin, phase, bounds>> /\ due' \subseteq due
    BY <1>1 DEF DrainOutcome, bounds
  <2> QED
    BY <1>1, <2>1, SettleOutcomeKeeps DEF DrainOutcome, Draining
<1>2. CASE Fault /\ phase' = "down" /\ Forget /\ UNCHANGED <<session, exact, count, journal, jobs>>
  <2>1. UNCHANGED <<database, files>> /\ crashes' \in 0 .. MaxCrashes
    BY <1>2 DEF DrainOutcome, database, StorageCore, TypeOK
  <2>2. faults' \in 0 .. MaxFaults
    BY <1>2, Sizes DEF Fault, StorageCore, TypeOK
  <2> QED
    BY <1>2, <2>1, <2>2, ForgetKeeps
<1> QED
  BY <1>1, <1>2 DEF DrainOutcome

LEMMA WriterCloseKeeps ==
  ASSUME StorageCore, NEW p \in Parts, WriterClose(p)
  PROVE  StorageCore'
<1>0. fin[p] # "no" /\ open' = open
  BY DEF WriterClose
<1>1. TypeOK'
  <2>1. CASE Finished(p)
    BY <1>0, <2>1, FinisherReturnsSlot, Sizes DEF StorageCore, TypeOK, WriterClose, Fault
  <2>2. CASE fin' = [fin EXCEPT ![p] = "commit"]
    BY <2>2 DEF StorageCore, TypeOK, WriterClose, Finished
  <2> QED
    BY <2>1, <2>2 DEF WriterClose
<1>2. SlotsReserved'
  <2>1. CASE Finished(p)
    BY <1>0, <2>1, FinisherReturnsSlot
  <2>2. CASE fin' = [fin EXCEPT ![p] = "commit"] /\ reserved' = reserved
    <3>1. Working' = Working
      BY <1>0, <2>2 DEF Working
    <3> QED
      BY <1>0, <2>2, <3>1 DEF StorageCore, SlotsReserved
  <2> QED
    BY <2>1, <2>2 DEF WriterClose
<1>3. CountIsTrue'
  <2>1. \A s \in Sessions : Counted(s)' => Counted(s)
    BY DEF Counted, WriterClose
  <2>2. \A s \in Sessions : Counted(s)' => \A q \in PartsOf(s) : row'[q] = "final" <=> row[q] = "final"
    BY <2>1 DEF WriterClose
  <2>3. count' = count
    BY DEF WriterClose
  <2> QED
    BY <2>1, <2>2, <2>3, CountsKept
<1>4. PublishedIsKnown'
  BY DEF StorageCore, TypeOK, PublishedIsKnown, FinalizersAreOwned, WriterClose
<1>5. FinalizersAreOwned'
  BY DEF StorageCore, TypeOK, FinalizersAreOwned, WriterClose, Finished
<1>6. LaneInOrder'
  BY DEF StorageCore, TypeOK, LaneInOrder, WriterClose, Finished
<1>7. OutcomesPending'
  BY DEF StorageCore, OutcomesPending, WriterClose
<1>8. PartsAhead'
  BY DEF StorageCore, TypeOK, PartsAhead, Ahead, Untouched, WriterClose, Finished
<1>9. RecoveryIsAlone'
  BY DEF StorageCore, RecoveryIsAlone, WriterClose
<1>10. PipelineIsWhole'
  <2>1. session[p[1]] \in {"ACTIVE", "FINALIZING"}
    BY <1>0, Sizes, PartFacts DEF StorageCore, FinalizersAreOwned, LaneInOrder, OutcomesPending
  <2>2. archive' \subseteq archive \cup {p} /\ UNCHANGED <<session, row, jobs, phase, current, outcome>>
    BY DEF WriterClose
  <2> QED
    BY <2>1, <2>2, PartFacts DEF StorageCore, PipelineIsWhole
<1> QED
  BY <1>1, <1>2, <1>3, <1>4, <1>5, <1>6, <1>7, <1>8, <1>9, <1>10 DEF StorageCore

LEMMA FinalizeKeeps ==
  ASSUME StorageCore, NEW p \in Parts, FinalizePartFromJournal(p)
  PROVE  StorageCore'
<1>0. fin[p] # "no" /\ Finished(p) /\ open' = open
  BY DEF FinalizePartFromJournal
<1>1. TypeOK'
  BY <1>0, FinisherReturnsSlot, Sizes DEF StorageCore, TypeOK, FinalizePartFromJournal, JournalAfter, Fault
<1>2. SlotsReserved'
  BY <1>0, FinisherReturnsSlot
<1>3. CountIsTrue'
  <2>1. \A s \in Sessions : Counted(s)' => Counted(s)
    BY DEF Counted, FinalizePartFromJournal
  <2>2. \A s \in Sessions : Counted(s)' => \A q \in PartsOf(s) : row'[q] = "final" <=> row[q] = "final"
    <3>1. session[p[1]] \in {"ACTIVE", "FINALIZING"}
      BY <1>0, Sizes, PartFacts DEF StorageCore, FinalizersAreOwned, LaneInOrder, OutcomesPending
    <3>2. \A q \in Parts : q # p => row'[q] = row[q]
      BY DEF FinalizePartFromJournal, StorageCore, TypeOK
    <3> QED
      BY <2>1, <3>1, <3>2, PartFacts DEF Counted
  <2>3. count' = count
    BY DEF FinalizePartFromJournal
  <2> QED
    BY <2>1, <2>2, <2>3, CountsKept
<1>4. PublishedIsKnown'
  BY DEF StorageCore, TypeOK, PublishedIsKnown, FinalizePartFromJournal, JournalAfter
<1>5. FinalizersAreOwned'
  BY DEF StorageCore, TypeOK, FinalizersAreOwned, FinalizePartFromJournal, Finished, JournalAfter
<1>6. LaneInOrder'
  BY DEF StorageCore, TypeOK, LaneInOrder, FinalizePartFromJournal, Finished, JournalAfter
<1>7. OutcomesPending'
  BY DEF StorageCore, OutcomesPending, FinalizePartFromJournal
<1>8. PartsAhead'
  BY DEF StorageCore, TypeOK, PartsAhead, Ahead, Untouched, FinalizePartFromJournal, Finished, JournalAfter
<1>9. RecoveryIsAlone'
  BY DEF StorageCore, RecoveryIsAlone, FinalizePartFromJournal
<1>10. PipelineIsWhole'
  BY DEF StorageCore, TypeOK, PipelineIsWhole, FinalizePartFromJournal
<1> QED
  BY <1>1, <1>2, <1>3, <1>4, <1>5, <1>6, <1>7, <1>8, <1>9, <1>10 DEF StorageCore

LEMMA WriterAbortKeeps ==
  ASSUME StorageCore, NEW p \in Parts, WriterAbort(p)
  PROVE  StorageCore'
<1>0. fin[p] # "no" /\ Finished(p) /\ open' = open
  BY DEF WriterAbort
<1>1. TypeOK'
  BY <1>0, FinisherReturnsSlot DEF StorageCore, TypeOK, WriterAbort
<1>2. SlotsReserved'
  BY <1>0, FinisherReturnsSlot
<1>3. CountIsTrue'
  <2>1. \A s \in Sessions : Counted(s)' => Counted(s)
    BY DEF Counted, WriterAbort
  <2>2. \A s \in Sessions : Counted(s)' => \A q \in PartsOf(s) : row'[q] = "final" <=> row[q] = "final"
    BY <2>1 DEF WriterAbort
  <2>3. count' = count
    BY DEF WriterAbort
  <2> QED
    BY <2>1, <2>2, <2>3, CountsKept
<1>4. PublishedIsKnown'
  BY DEF StorageCore, PublishedIsKnown, WriterAbort
<1>5. FinalizersAreOwned'
  BY DEF StorageCore, FinalizersAreOwned, WriterAbort, Finished
<1>6. LaneInOrder'
  BY DEF StorageCore, LaneInOrder, WriterAbort, Finished
<1>7. OutcomesPending'
  BY DEF StorageCore, OutcomesPending, WriterAbort
<1>8. PartsAhead'
  BY DEF StorageCore, PartsAhead, Ahead, Untouched, WriterAbort, Finished
<1>9. RecoveryIsAlone'
  BY DEF StorageCore, RecoveryIsAlone, WriterAbort
<1>10. PipelineIsWhole'
  BY DEF StorageCore, PipelineIsWhole, WriterAbort
<1> QED
  BY <1>1, <1>2, <1>3, <1>4, <1>5, <1>6, <1>7, <1>8, <1>9, <1>10 DEF StorageCore

LEMMA RecoverPartKeeps ==
  ASSUME StorageCore, NEW p \in Parts, RecoverPublishedPart(p)
  PROVE  StorageCore'
<1>1. TypeOK'
  BY DEF StorageCore, TypeOK, RecoverPublishedPart, JournalAfter
<1>2. SlotsReserved'
  BY SlotsKept DEF RecoverPublishedPart
<1>3. CountIsTrue'
  <2>1. \A s \in Sessions : Counted(s)' => Counted(s)
    BY DEF Counted, RecoverPublishedPart
  <2>2. \A s \in Sessions : Counted(s)' => \A q \in PartsOf(s) : row'[q] = "final" <=> row[q] = "final"
    BY <2>1 DEF StorageCore, Counted, PipelineIsWhole, RecoverPublishedPart, Recoverable
  <2>3. count' = count
    BY DEF RecoverPublishedPart
  <2> QED
    BY <2>1, <2>2, <2>3, CountsKept
<1>4. PublishedIsKnown'
  BY DEF StorageCore, TypeOK, PublishedIsKnown, RecoverPublishedPart, JournalAfter
<1>5. FinalizersAreOwned'
  BY DEF StorageCore, FinalizersAreOwned, RecoverPublishedPart, JournalAfter, Recoverable
<1>6. LaneInOrder'
  BY DEF StorageCore, LaneInOrder, RecoverPublishedPart, JournalAfter, Recoverable
<1>7. OutcomesPending'
  BY DEF StorageCore, OutcomesPending, RecoverPublishedPart
<1>8. PartsAhead'
  BY DEF StorageCore, PartsAhead, Ahead, Untouched, RecoverPublishedPart, JournalAfter, Recoverable
<1>9. RecoveryIsAlone'
  BY DEF StorageCore, RecoveryIsAlone, RecoverPublishedPart
<1>10. PipelineIsWhole'
  BY DEF StorageCore, PipelineIsWhole, RecoverPublishedPart
<1> QED
  BY <1>1, <1>2, <1>3, <1>4, <1>5, <1>6, <1>7, <1>8, <1>9, <1>10 DEF StorageCore

LEMMA SettleMissingKeeps ==
  ASSUME StorageCore, NEW p \in Parts, SettleMissingPart(p)
  PROVE  StorageCore'
<1>1. TypeOK'
  BY DEF StorageCore, TypeOK, SettleMissingPart
<1>2. SlotsReserved'
  BY SlotsKept DEF SettleMissingPart
<1>3. CountIsTrue'
  <2>1. \A s \in Sessions : Counted(s)' => Counted(s)
    BY DEF Counted, SettleMissingPart
  <2>2. \A s \in Sessions : Counted(s)' => \A q \in PartsOf(s) : row'[q] = "final" <=> row[q] = "final"
    BY <2>1 DEF SettleMissingPart, Missing
  <2>3. count' = count
    BY DEF SettleMissingPart
  <2> QED
    BY <2>1, <2>2, <2>3, CountsKept
<1>4. PublishedIsKnown'
  BY DEF StorageCore, PublishedIsKnown, SettleMissingPart, Missing
<1>5. FinalizersAreOwned'
  BY DEF StorageCore, FinalizersAreOwned, SettleMissingPart, Missing
<1>6. LaneInOrder'
  BY DEF StorageCore, LaneInOrder, SettleMissingPart, Missing
<1>7. OutcomesPending'
  BY DEF StorageCore, OutcomesPending, SettleMissingPart
<1>8. PartsAhead'
  BY DEF StorageCore, PartsAhead, Ahead, Untouched, SettleMissingPart, Missing
<1>9. RecoveryIsAlone'
  BY DEF StorageCore, RecoveryIsAlone, SettleMissingPart
<1>10. PipelineIsWhole'
  BY DEF StorageCore, PipelineIsWhole, SettleMissingPart, Missing
<1> QED
  BY <1>1, <1>2, <1>3, <1>4, <1>5, <1>6, <1>7, <1>8, <1>9, <1>10 DEF StorageCore

LEMMA ReconcileKeeps ==
  ASSUME StorageCore, NEW s \in Sessions, ReconcileStalledSession(s)
  PROVE  StorageCore'
<1>1. TypeOK'
  <2>1. exact' \in [Sessions -> BOOLEAN] /\ journal' \in [Parts -> {"none", "part", "end"}]
    BY DEF StorageCore, TypeOK, ReconcileStalledSession
  <2>2. count' \in [Sessions -> 0 .. NParts]
    BY CountsInRange DEF StorageCore, TypeOK, ReconcileStalledSession
  <2> QED
    BY <2>1, <2>2 DEF StorageCore, TypeOK, ReconcileStalledSession
<1>2. SlotsReserved'
  BY SlotsKept DEF ReconcileStalledSession
<1>0. /\ \A t \in Sessions : t # s => session'[t] = session[t]
      /\ \A q \in Parts : journal'[q] = journal[q] \/ (q[1] = s /\ journal'[q] = "none")
      /\ UNCHANGED <<row, archive, lane, fin, outcome, phase>> /\ phase = "sessions"
      /\ session'[s] \in {"PROCESSING", "FAILED"} /\ Stalled(s)
      /\ jobs' \in [Sessions -> SUBSET InitialJobs]
      /\ \A t \in Sessions : t # s => jobs'[t] = jobs[t]
      /\ session'[s] = "PROCESSING" => jobs'[s] = InitialJobs
      /\ session'[s] # "PROCESSING" => jobs'[s] = jobs[s]
  BY DEF StorageCore, TypeOK, ReconcileStalledSession
<1>3. CountIsTrue'
  <2>1. CASE count' = [count EXCEPT ![s] = Cardinality(Finalized(s))]
    BY <1>0, <2>1, CountWritten
  <2>2. CASE count' = count /\ session'[s] = "FAILED"
    <3>1. \A t \in Sessions : Counted(t)' => Counted(t)
      BY <1>0, <2>2 DEF Counted
    <3> QED
      BY <1>0, <2>2, <3>1, CountsKept
  <2> QED
    BY <2>1, <2>2 DEF ReconcileStalledSession, StorageCore, TypeOK
<1>4. PublishedIsKnown'
  BY <1>0 DEF StorageCore, TypeOK, PublishedIsKnown, RecoveryIsAlone, Recoverable
<1>5. FinalizersAreOwned'
  BY <1>0 DEF StorageCore, FinalizersAreOwned, RecoveryIsAlone
<1>6. LaneInOrder'
  BY <1>0 DEF StorageCore, LaneInOrder, RecoveryIsAlone
<1>7. OutcomesPending'
  BY DEF StorageCore, OutcomesPending, RecoveryIsAlone, ReconcileStalledSession
<1>8. PartsAhead'
  BY PartFacts DEF StorageCore, TypeOK, PartsAhead, Ahead, Untouched, ReconcileStalledSession
<1>9. RecoveryIsAlone'
  BY DEF StorageCore, RecoveryIsAlone, Recoverable, ReconcileStalledSession
<1>10. PipelineIsWhole'
  BY <1>0 DEF StorageCore, TypeOK, PipelineIsWhole, PublishedIsKnown, RecoveryIsAlone, Recoverable, Stalled
<1> QED
  BY <1>1, <1>2, <1>3, <1>4, <1>5, <1>6, <1>7, <1>8, <1>9, <1>10 DEF StorageCore

LEMMA RestoreJobsKeeps ==
  ASSUME StorageCore, NEW s \in Sessions, RestoreInitialJobs(s)
  PROVE  StorageCore'
<1>1. TypeOK'
  BY CountsInRange DEF StorageCore, TypeOK, RestoreInitialJobs
<1>2. SlotsReserved'
  BY SlotsKept DEF RestoreInitialJobs
<1>3. CountIsTrue'
  BY CountWritten DEF RestoreInitialJobs
<1>4. PublishedIsKnown'
  BY DEF StorageCore, PublishedIsKnown, RestoreInitialJobs
<1>5. FinalizersAreOwned'
  BY DEF StorageCore, FinalizersAreOwned, RestoreInitialJobs
<1>6. LaneInOrder'
  BY DEF StorageCore, LaneInOrder, RestoreInitialJobs
<1>7. OutcomesPending'
  BY DEF StorageCore, OutcomesPending, RestoreInitialJobs
<1>8. PartsAhead'
  BY DEF StorageCore, PartsAhead, Ahead, Untouched, RestoreInitialJobs
<1>9. RecoveryIsAlone'
  BY DEF StorageCore, RecoveryIsAlone, Recoverable, RestoreInitialJobs
<1>10. PipelineIsWhole'
  BY DEF StorageCore, PipelineIsWhole, RestoreInitialJobs, MissingJobs
<1> QED
  BY <1>1, <1>2, <1>3, <1>4, <1>5, <1>6, <1>7, <1>8, <1>9, <1>10 DEF StorageCore

LEMMA CrashKeeps ==
  ASSUME StorageCore, Crash
  PROVE  StorageCore'
<1>1. crashes' \in 0 .. MaxCrashes /\ faults' \in 0 .. MaxFaults
  BY Sizes DEF StorageCore, TypeOK, Crash
<1> QED
  BY <1>1, ForgetKeeps DEF Crash

LEMMA PhaseKeeps ==
  ASSUME StorageCore, Stop \/ Drained \/ Restart \/ NextPhase \/ Recovered
  PROVE  StorageCore'
<1>1. TypeOK'
  BY Sizes DEF StorageCore, TypeOK, Capacity, Stop, Drained, Draining, Restart, NextPhase, Recovered
<1>2. SlotsReserved'
  BY SlotsKept DEF Stop, Drained, Draining, Restart, NextPhase, Recovered
<1>3. CountIsTrue'
  BY CountsKept DEF Counted, Stop, Drained, Draining, Restart, NextPhase, Recovered
<1>4. PublishedIsKnown'
  BY DEF StorageCore, PublishedIsKnown, Stop, Drained, Draining, Restart, NextPhase, Recovered
<1>5. FinalizersAreOwned'
  BY DEF StorageCore, FinalizersAreOwned, Stop, Drained, Draining, Restart, NextPhase, Recovered
<1>6. LaneInOrder'
  BY DEF StorageCore, LaneInOrder, Stop, Drained, Draining, Restart, NextPhase, Recovered
<1>7. OutcomesPending'
  BY DEF StorageCore, OutcomesPending, Stop, Drained, Draining, Restart, NextPhase, Recovered
<1>8. PartsAhead'
  BY DEF StorageCore, PartsAhead, Ahead, Untouched, Stop, Drained, Draining, Restart, NextPhase, Recovered
<1>9. RecoveryIsAlone'
  BY PartFacts DEF StorageCore, RecoveryIsAlone, LaneInOrder, Recoverable, Stop, Drained, Draining, Restart, NextPhase, Recovered, AllDetachedDone, Finalizing, PartsReconciled
<1>10. PipelineIsWhole'
  BY DEF StorageCore, PipelineIsWhole, Stop, Drained, Draining, Restart, NextPhase, Recovered, Stalled, MissingJobs
<1> QED
  BY <1>1, <1>2, <1>3, <1>4, <1>5, <1>6, <1>7, <1>8, <1>9, <1>10 DEF StorageCore

LEMMA StorageStarts == Init => StorageCore
<1> SUFFICES ASSUME Init PROVE StorageCore
  OBVIOUS
<1>1. PICK legacy \in BOOLEAN, J \in SUBSET InitialJobs :
        /\ session = [s \in Sessions |-> IF legacy /\ s = 1 THEN "PROCESSING" ELSE "none"]
        /\ row = [p \in Parts |-> IF legacy /\ p = <<1, 1>> THEN "final" ELSE "none"]
        /\ archive = IF legacy THEN {<<1, 1>>} ELSE {}
        /\ count = [s \in Sessions |-> IF legacy /\ s = 1 THEN 1 ELSE 0]
        /\ jobs = [s \in Sessions |-> IF legacy /\ s = 1 THEN J ELSE {}]
  BY DEF Init
<1>2. <<1, 1>> \in Parts /\ 1 \in Sessions
  BY Sizes DEF Parts, Sessions
<1>3. TypeOK
  BY <1>1, <1>2, Sizes DEF Init, TypeOK, Capacity
<1>4. SlotsReserved
  <2>1. Working = {} /\ reserved = 0 /\ open = None
    BY DEF Init, Working
  <2> QED
    BY <2>1, FS_EmptySet DEF SlotsReserved
<1>5. CountIsTrue
  <2>1. ASSUME NEW s \in Sessions, session[s] \in {"PROCESSING", "REJECTED"}
        PROVE  count[s] = Cardinality(Finalized(s))
    <3>1. legacy /\ s = 1
      BY <1>1, <2>1
    <3>2. Finalized(s) = {<<1, 1>>}
      BY <1>1, <1>2, <3>1, PartFacts DEF Finalized
    <3>3. Cardinality({<<1, 1>>}) = 1
      BY FS_Singleton
    <3> QED
      BY <1>1, <1>2, <3>1, <3>2, <3>3
  <2> QED
    BY <2>1 DEF CountIsTrue
<1>6. /\ PublishedIsKnown /\ FinalizersAreOwned /\ LaneInOrder /\ OutcomesPending /\ RecoveryIsAlone
  BY <1>1, <1>2 DEF Init, PublishedIsKnown, FinalizersAreOwned, LaneInOrder, OutcomesPending, RecoveryIsAlone
<1>7. PartsAhead
  <2>1. \A p \in Parts : Ahead(p) => ~(legacy /\ p = <<1, 1>>)
    BY <1>1, <1>2 DEF Init, Ahead
  <2>2. \A p \in Parts : p \in archive => legacy /\ p = <<1, 1>>
    BY <1>1
  <2> QED
    BY <1>1, <2>1, <2>2 DEF Init, PartsAhead, Untouched
<1>8. PipelineIsWhole
  BY <1>1, <1>2 DEF Init, PipelineIsWhole
<1> QED
  BY <1>3, <1>4, <1>5, <1>6, <1>7, <1>8 DEF StorageCore

LEMMA StorageStep == StorageCore /\ [Next]_vars => StorageCore'
<1> SUFFICES ASSUME StorageCore, [Next]_vars PROVE StorageCore'
  OBVIOUS
<1>1. CASE UNCHANGED vars
  <2>1. Working' = Working /\ \A s \in Sessions : Finalized(s)' = Finalized(s)
    BY <1>1 DEF vars, Working, Finalized
  <2>2. TypeOK' /\ SlotsReserved' /\ CountIsTrue'
    BY <1>1, <2>1 DEF vars, StorageCore, TypeOK, SlotsReserved, CountIsTrue
  <2>3. PublishedIsKnown' /\ FinalizersAreOwned' /\ LaneInOrder' /\ OutcomesPending'
    BY <1>1 DEF vars, StorageCore, PublishedIsKnown, FinalizersAreOwned, LaneInOrder, OutcomesPending
  <2>4. PartsAhead' /\ RecoveryIsAlone' /\ PipelineIsWhole'
    BY <1>1 DEF vars, StorageCore, PartsAhead, Ahead, Untouched, RecoveryIsAlone, Recoverable, PipelineIsWhole
  <2> QED
    BY <2>2, <2>3, <2>4 DEF StorageCore
<1>2. CASE Next
  <2>1. CASE OpenPart \/ Rotate
    BY <2>1, OpenPartKeeps, RotateKeeps
  <2>2. CASE \E s \in Sessions : StartSession(s) \/ DrainOutcome(s)
    BY <2>2, StartSessionKeeps, DrainOutcomeKeeps
  <2>3. CASE \E verdict \in {"finalized", "rejected"} : EndSession(verdict)
    BY <2>3, EndSessionKeeps
  <2>4. CASE \E p \in Parts : WriterClose(p) \/ FinalizePartFromJournal(p) \/ WriterAbort(p) \/ SettleDeferred(p)
    BY <2>4, WriterCloseKeeps, FinalizeKeeps, WriterAbortKeeps, SettleDeferredKeeps
  <2>5. CASE \E p \in Parts : RecoverPublishedPart(p) \/ SettleMissingPart(p)
    BY <2>5, RecoverPartKeeps, SettleMissingKeeps
  <2>6. CASE \E s \in Sessions : ReconcileStalledSession(s) \/ RestoreInitialJobs(s)
    BY <2>6, ReconcileKeeps, RestoreJobsKeeps
  <2>7. CASE Crash \/ Stop \/ Drained \/ Restart \/ NextPhase \/ Recovered
    BY <2>7, PhaseKeeps, CrashKeeps
  <2> QED
    BY <1>2, <2>1, <2>2, <2>3, <2>4, <2>5, <2>6, <2>7 DEF Next, Recovery
<1> QED
  BY <1>1, <1>2

\* The storage invariant: over any interleaving of the lane, the finalizers, crashes and
\* recovery, every finalizer owns a slot, part counts and initial jobs agree with the
\* outcome, and nothing is left open that this process does not record or defer.
THEOREM ArchiveInvariant == Spec => []ArchiveInv
<1>1. StorageCore => ArchiveInv
  BY CoreIsArchiveInv
<1> QED
  BY <1>1, StorageStarts, StorageStep, PTL DEF Spec

\* A session is handed to the pipeline with every part it published, whether it was
\* settled at once, deferred behind its finalizers, or found by recoverAfterCrash.
THEOREM SessionsHandedOverWhole == Spec => []HandedOverWhole
<1>1. StorageCore => HandedOverWhole
  BY CoreIsArchiveInv
<1> QED
  BY <1>1, StorageStarts, StorageStep, PTL DEF Spec

-----------------------------------------------------------------------------
(* The microphone stream *)

\* What CaptureAssumption gives the proofs.
LEMMA FrameSizes == FrameUnits \in Nat \ {0} /\ MaxBuffered \in Nat \ {0} /\ MaxChunk \in Nat \ {0} /\ MaxUnits \in Nat /\ MaxGaps \in Nat
BY CaptureAssumed DEF C!CaptureAssumption

\* A function on an initial segment of the naturals is a sequence of that length.
LEMMA SegmentIsSeq ==
  ASSUME NEW S, NEW n \in Nat, NEW f \in [1 .. n -> S]
  PROVE  f \in Seq(S) /\ Len(f) = n
<1>1. f \in Seq(S)
  OBVIOUS
<1> QED BY <1>1, LenProperties

\* How many whole frames some units make, and what is left.
LEMMA WholeFrames ==
  ASSUME NEW n \in Nat
  PROVE  /\ n \div FrameUnits \in Nat
         /\ (n \div FrameUnits) * FrameUnits <= n
         /\ n < (n \div FrameUnits) * FrameUnits + FrameUnits
         /\ \A i \in 1 .. n \div FrameUnits :
              /\ (i - 1) * FrameUnits \in Nat
              /\ i * FrameUnits = (i - 1) * FrameUnits + FrameUnits
              /\ i * FrameUnits <= n
<1> DEFINE q == n \div FrameUnits
<1>1. q \in Nat
  BY FrameSizes
<1>2. q * FrameUnits <= n /\ n < q * FrameUnits + FrameUnits
  BY FrameSizes
<1> HIDE DEF q
<1>3. ASSUME NEW i \in 1 .. q
      PROVE  /\ (i - 1) * FrameUnits \in Nat
             /\ i * FrameUnits = (i - 1) * FrameUnits + FrameUnits
             /\ i * FrameUnits <= n
  <2>0. PICK d \in Nat : q = i + d
    BY <1>1
  <2>1. q * FrameUnits = i * FrameUnits + d * FrameUnits
    BY <2>0, FrameSizes
  <2>2. d * FrameUnits \in Nat /\ q * FrameUnits \in Nat /\ i * FrameUnits \in Nat
    BY <2>0, <1>1, FrameSizes
  <2> QED BY <2>1, <2>2, <1>2, FrameSizes
<1> QED BY <1>1, <1>2, <1>3 DEF q

\* Consecutive units after unit m, the w frames they make and the rest.
Framed(hi, m, units, e, gap, made, w, rest) ==
    /\ hi \in Nat /\ m \in Int /\ gap \in BOOLEAN
    /\ units \in Seq(1 .. hi) /\ \A i \in DOMAIN units : units[i] = m + i
    /\ w = C!Whole(units) /\ made = C!FramesOf(units, e, gap)
    /\ rest = SubSeq(units, w * FrameUnits + 1, Len(units))

WellFramed(hi, m, units, e, gap, made, w, rest) ==
    /\ w \in Nat /\ w * FrameUnits \in Nat /\ w * FrameUnits <= Len(units) /\ (w > 0 => w * FrameUnits >= FrameUnits)
    /\ Len(made) = w /\ DOMAIN made = 1 .. w /\ made \in Seq([units : [1 .. FrameUnits -> 1 .. hi], epoch : {e}, gap : BOOLEAN])
    /\ \A i \in 1 .. w : /\ made[i].epoch = e /\ made[i].gap = (gap /\ i = 1)
                         /\ made[i].units \in [1 .. FrameUnits -> 1 .. hi] /\ Len(made[i].units) = FrameUnits
                         /\ (i - 1) * FrameUnits \in Nat /\ i * FrameUnits = (i - 1) * FrameUnits + FrameUnits
                         /\ \A k \in 1 .. FrameUnits : made[i].units[k] = m + (i - 1) * FrameUnits + k
                         /\ m + i * FrameUnits <= m + Len(units)
    /\ rest \in Seq(1 .. hi) /\ Len(rest) = Len(units) - w * FrameUnits /\ Len(rest) < FrameUnits
    /\ \A k \in 1 .. Len(rest) : rest[k] = m + w * FrameUnits + k

\* FramesOf makes whole frames of consecutive units, and leaves less than one.
LEMMA Framing ==
  ASSUME NEW hi, NEW m, NEW units, NEW e, NEW gap, NEW made, NEW w, NEW rest,
         Framed(hi, m, units, e, gap, made, w, rest)
  PROVE  WellFramed(hi, m, units, e, gap, made, w, rest)
<1> USE DEF WellFramed
<1>0. /\ hi \in Nat /\ m \in Int /\ gap \in BOOLEAN
      /\ units \in Seq(1 .. hi) /\ \A i \in DOMAIN units : units[i] = m + i
      /\ w = C!Whole(units) /\ made = C!FramesOf(units, e, gap)
      /\ rest = SubSeq(units, w * FrameUnits + 1, Len(units))
  BY DEF Framed
<1>1. Len(units) \in Nat /\ DOMAIN units = 1 .. Len(units) /\ \A i \in 1 .. Len(units) : units[i] \in 1 .. hi
  BY <1>0
<1>2. /\ w \in Nat /\ w * FrameUnits <= Len(units) /\ Len(units) < w * FrameUnits + FrameUnits
      /\ \A i \in 1 .. w : /\ (i - 1) * FrameUnits \in Nat
                           /\ i * FrameUnits = (i - 1) * FrameUnits + FrameUnits
                           /\ i * FrameUnits <= Len(units)
  BY <1>0, <1>1, WholeFrames DEF C!Whole
<1>3. w * FrameUnits \in Nat /\ (w > 0 => w * FrameUnits >= FrameUnits)
  <2>1. w * FrameUnits \in Nat
    BY <1>0, <1>2, FrameSizes
  <2>2. ASSUME w > 0 PROVE w * FrameUnits >= FrameUnits
    BY <2>2, <1>2, FrameSizes
  <2> QED BY <1>0, <2>1, <2>2
<1>4. /\ rest \in Seq(1 .. hi) /\ Len(rest) = Len(units) - w * FrameUnits
      /\ \A k \in 1 .. Len(rest) : rest[k] = units[w * FrameUnits + k]
  <2>1. \A i \in w * FrameUnits + 1 .. Len(units) : units[i] \in 1 .. hi
    BY <1>0, <1>1, <1>2, <1>3
  <2>2. w * FrameUnits + 1 \in Int /\ Len(units) \in Int
    BY <1>0, <1>1, <1>3
  <2>3. /\ rest \in Seq(1 .. hi)
        /\ Len(rest) = IF w * FrameUnits + 1 <= Len(units) THEN Len(units) - (w * FrameUnits + 1) + 1 ELSE 0
        /\ \A i \in 1 .. Len(units) - (w * FrameUnits + 1) + 1 : rest[i] = units[w * FrameUnits + 1 + i - 1]
    BY <1>0, <2>1, <2>2
  <2>4. Len(rest) = Len(units) - w * FrameUnits
    BY <1>0, <2>3, <1>1, <1>2, <1>3
  <2>5. ASSUME NEW k \in 1 .. Len(rest) PROVE rest[k] = units[w * FrameUnits + k]
    <3>1. k \in 1 .. Len(units) - (w * FrameUnits + 1) + 1 /\ w * FrameUnits + 1 + k - 1 = w * FrameUnits + k
      BY <1>0, <2>4, <1>1, <1>3
    <3> QED BY <1>0, <3>1, <2>3
  <2> QED BY <1>0, <2>3, <2>4, <2>5
<1>5. \A k \in 1 .. Len(rest) : rest[k] = m + w * FrameUnits + k
  <2> SUFFICES ASSUME NEW k \in 1 .. Len(rest) PROVE rest[k] = m + w * FrameUnits + k
    OBVIOUS
  <2>1. w * FrameUnits + k \in 1 .. Len(units)
    BY <1>0, <1>1, <1>3, <1>4
  <2>2. m + (w * FrameUnits + k) = m + w * FrameUnits + k
    BY <1>0, <1>3, <1>4
  <2> QED BY <1>0, <2>1, <2>2, <1>1, <1>4
<1>6. made = [i \in 1 .. w |-> [units |-> SubSeq(units, (i - 1) * FrameUnits + 1, i * FrameUnits),
                                epoch |-> e, gap |-> gap /\ i = 1]]
  BY <1>0 DEF C!FramesOf
<1>7. ASSUME NEW i \in 1 .. w
      PROVE  /\ made[i].epoch = e /\ made[i].gap = (gap /\ i = 1)
             /\ made[i].units \in [1 .. FrameUnits -> 1 .. hi] /\ Len(made[i].units) = FrameUnits
             /\ \A k \in 1 .. FrameUnits : made[i].units[k] = m + (i - 1) * FrameUnits + k
             /\ m + i * FrameUnits <= m + Len(units)
  <2> DEFINE lo == (i - 1) * FrameUnits
             top == i * FrameUnits
             f == SubSeq(units, lo + 1, top)
  <2>1. lo \in Nat /\ top = lo + FrameUnits /\ top <= Len(units)
    BY <1>0, <1>2
  <2>2. made[i].units = f /\ made[i].epoch = e /\ made[i].gap = (gap /\ i = 1)
    BY <1>0, <1>6
  <2>3. \A k \in lo + 1 .. top : units[k] \in 1 .. hi
    <3> HIDE DEF lo, top
    <3> QED BY <1>0, <2>1, <1>1, FrameSizes
  <2>4. /\ f \in Seq(1 .. hi) /\ Len(f) = FrameUnits
        /\ \A k \in 1 .. FrameUnits : f[k] = units[lo + k]
    <3> HIDE DEF lo, top
    <3>1. lo + 1 \in Int /\ top \in Int /\ lo + 1 <= top /\ top - (lo + 1) + 1 = FrameUnits
      BY <1>0, <2>1, FrameSizes
    <3>2. /\ f \in Seq(1 .. hi) /\ Len(f) = FrameUnits
          /\ \A k \in 1 .. FrameUnits : f[k] = units[lo + 1 + k - 1]
      BY <1>0, <3>1, <2>3
    <3>3. \A k \in 1 .. FrameUnits : lo + 1 + k - 1 = lo + k
      BY <1>0, <2>1
    <3> QED BY <1>0, <3>2, <3>3
  <2>5. f \in [1 .. FrameUnits -> 1 .. hi]
    BY <1>0, <2>4, LenProperties
  <2>6. ASSUME NEW k \in 1 .. FrameUnits PROVE f[k] = m + lo + k
    <3> HIDE DEF lo, top, f
    <3>1. lo + k \in 1 .. Len(units) /\ m + (lo + k) = m + lo + k
      BY <1>0, <2>1, <1>1, FrameSizes
    <3> QED BY <1>0, <3>1, <2>4, <1>1
  <2>7. m + top <= m + Len(units)
    <3> HIDE DEF lo, top
    <3> QED BY <1>0, <2>1, <1>1, FrameSizes
  <2> HIDE DEF f
  <2> QED BY <1>0, <2>2, <2>4, <2>5, <2>6, <2>7
<1>8. /\ made \in Seq([units : [1 .. FrameUnits -> 1 .. hi], epoch : {e}, gap : BOOLEAN])
      /\ Len(made) = w /\ DOMAIN made = 1 .. w
  <2>1. made \in [1 .. w -> [units : [1 .. FrameUnits -> 1 .. hi], epoch : {e}, gap : BOOLEAN]]
    <3>1. ASSUME NEW i \in 1 .. w
          PROVE  [units |-> SubSeq(units, (i - 1) * FrameUnits + 1, i * FrameUnits), epoch |-> e, gap |-> gap /\ i = 1]
                   \in [units : [1 .. FrameUnits -> 1 .. hi], epoch : {e}, gap : BOOLEAN]
      <4>1. SubSeq(units, (i - 1) * FrameUnits + 1, i * FrameUnits) \in [1 .. FrameUnits -> 1 .. hi]
        <5>1. made[i].units = SubSeq(units, (i - 1) * FrameUnits + 1, i * FrameUnits)
          BY <1>0, <1>6
        <5>2. made[i].units \in [1 .. FrameUnits -> 1 .. hi]
          BY <1>0, <1>7
        <5> QED BY <1>0, <5>1, <5>2
      <4>2. (gap /\ i = 1) \in BOOLEAN
        OBVIOUS
      <4> QED BY <1>0, <4>1, <4>2
    <3> QED BY <1>0, <3>1, <1>6
  <2> QED BY <1>0, <2>1, <1>2, SegmentIsSeq
<1>9. Len(rest) < FrameUnits
  <2>1. Len(units) - w * FrameUnits < FrameUnits
    BY <1>0, <1>1, <1>2, <1>3, FrameSizes
  <2> QED BY <1>0, <2>1, <1>4
<1> QED BY <1>0, <1>2, <1>3, <1>4, <1>5, <1>7, <1>8, <1>9

\* The instance counts a set as FiniteSets does.
LEMMA SameSize == \A S : C!Cardinality(S) = Cardinality(S)
BY DEF C!Cardinality, Cardinality

\* The gaps are finitely many, and one more counts for one.
LEMMA GapsCounted ==
  ASSUME C!TypeOK
  PROVE  /\ IsFiniteSet(gaps) /\ C!Cardinality(gaps) \in Nat /\ given \in Nat
         /\ \A u \in Nat \ gaps : C!Cardinality(gaps \cup {u}) = C!Cardinality(gaps) + 1
<1>1. given \in Nat /\ gaps \subseteq 1 .. given
  BY DEF C!TypeOK
<1>2. IsFiniteSet(1 .. given)
  BY <1>1, FS_Interval
<1>3. IsFiniteSet(gaps) /\ Cardinality(gaps) \in Nat
  BY <1>1, <1>2, FS_Subset, FS_CardinalityType
<1>4. \A u \in Nat \ gaps : Cardinality(gaps \cup {u}) = Cardinality(gaps) + 1
  BY <1>3, FS_AddElement
<1> QED BY <1>1, <1>3, <1>4, SameSize

\* A frame is a run of units; the frame in hand is one.
LEMMA FrameUnitsAre ==
  ASSUME C!TypeOK, NEW f \in C!Frame
  PROVE  f.units \in [1 .. FrameUnits -> 1 .. given] /\ f.units \in Seq(1 .. given) /\ Len(f.units) = FrameUnits
         /\ f.units # <<>> /\ f.epoch \in Nat /\ f.gap \in BOOLEAN
<1>1. f.units \in [1 .. FrameUnits -> 1 .. given]
  BY DEF C!Frame
<1>2. f.units \in Seq(1 .. given) /\ Len(f.units) = FrameUnits
  BY <1>1, FrameSizes, SegmentIsSeq
<1> QED BY <1>1, <1>2, FrameSizes DEF C!Frame

\* The recorder has a frame in hand.
LEMMA HandIsFrame == C!TypeOK /\ C!InHand => taken \in C!Frame
BY DEF C!TypeOK, C!InHand

\* The stream has ended, and so has the child.
LEMMA PumpEndsKeeps ==
  ASSUME CaptureInv, C!PumpEnds
  PROVE  CaptureInv'
<1> USE DEF C!PumpEnds, C!Abort, C!source, C!buffer, C!consumer, C!process
<1>0. /\ C!TypeOK /\ C!SessionIsContiguous /\ C!EndsAsItWas
      /\ C!PipeInOrder /\ C!CarryInOrder /\ C!FramesInOrder /\ C!HeldInOrder /\ C!NothingBetween
      /\ C!EpochsCounted /\ C!EndIsKnown
  BY DEF CaptureInv
<1>1. C!TypeOK'
  <2>1. CASE over
    BY <2>1, <1>0 DEF C!TypeOK, C!Frame
  <2>2. CASE ~over
    <3>1. Len(<<>>) = 0
      OBVIOUS
    <3>2. frames' = <<>> /\ carry' = <<>> /\ it' # "waiting"
      BY <2>2, <1>0 DEF C!EndIsKnown, C!TypeOK
    <3>3. Len(frames') <= MaxBuffered /\ Len(carry') < FrameUnits
      BY <3>1, <3>2, FrameSizes
    <3>4. frames' \in Seq(C!Frame') /\ carry' \in Seq(1 .. given)
      BY <3>2, EmptySeq
    <3> QED BY <2>2, <3>2, <3>3, <3>4, <1>0 DEF C!TypeOK, C!Frame, C!Ended
  <2> QED BY <2>1, <2>2
<1>2. C!SessionIsContiguous'
  BY <1>0 DEF C!SessionIsContiguous
<1>3. C!EndsAsItWas'
  BY <1>0 DEF C!EndsAsItWas
<1>4. C!PipeInOrder'
  BY <1>0 DEF C!PipeInOrder
<1>5. C!CarryInOrder'
  BY <1>0 DEF C!CarryInOrder
<1>6. C!FramesInOrder'
  <2>1. CASE over
    BY <2>1, <1>0 DEF C!FramesInOrder
  <2>2. CASE ~over
    <3>1. frames' = <<>> /\ Len(<<>>) = 0 /\ DOMAIN (<<>>) = 1 .. 0
      BY <2>2, <1>0 DEF C!EndIsKnown, C!TypeOK
    <3> QED BY <3>1 DEF C!FramesInOrder
  <2> QED BY <2>1, <2>2
<1>7. C!HeldInOrder'
  <2>1. CASE over
    BY <2>1, <1>0 DEF C!HeldInOrder, C!InHand
  <2>2. CASE ~over
    BY <2>2, <1>0 DEF C!HeldInOrder, C!InHand
  <2> QED BY <2>1, <2>2
<1>8. C!NothingBetween'
  <2>1. CASE over
    BY <2>1, <1>0 DEF C!NothingBetween, C!InHand
  <2>2. CASE ~over
    BY <2>2, <1>0 DEF C!NothingBetween, C!InHand
  <2> QED BY <2>1, <2>2
<1>9. C!EpochsCounted'
  <2>1. CASE over
    BY <2>1, <1>0 DEF C!EpochsCounted
  <2>2. CASE ~over
    BY <2>2, <1>0, GapsCounted, FrameSizes DEF C!TypeOK, C!EpochsCounted, C!EndIsKnown
  <2> QED BY <2>1, <2>2
<1>10. C!EndIsKnown'
  BY <1>0 DEF C!EndIsKnown
<1> QED BY <1>1, <1>2, <1>3, <1>4, <1>5, <1>6, <1>7, <1>8, <1>9, <1>10 DEF CaptureInv

\* No frame for too long: the stream is aborted.
LEMMA WatchdogFiresKeeps ==
  ASSUME CaptureInv, C!WatchdogFires
  PROVE  CaptureInv'
<1> USE DEF C!WatchdogFires, C!Abort, C!Terminated, C!source, C!buffer, C!consumer, C!process
<1>0. /\ C!TypeOK /\ C!SessionIsContiguous /\ C!EndsAsItWas
      /\ C!PipeInOrder /\ C!CarryInOrder /\ C!FramesInOrder /\ C!HeldInOrder /\ C!NothingBetween
      /\ C!EpochsCounted /\ C!EndIsKnown
  BY DEF CaptureInv
<1>1. C!TypeOK'
  <2>1. CASE over
    BY <2>1, <1>0 DEF C!TypeOK, C!Frame
  <2>2. CASE ~over
    <3>1. Len(<<>>) = 0
      OBVIOUS
    <3>2. frames' = <<>> /\ carry' = <<>> /\ it' # "waiting"
      BY <2>2, <1>0
    <3>3. Len(frames') <= MaxBuffered /\ Len(carry') < FrameUnits
      BY <3>1, <3>2, FrameSizes
    <3>4. frames' \in Seq(C!Frame') /\ carry' \in Seq(1 .. given)
      BY <3>2, EmptySeq
    <3> QED BY <2>2, <3>2, <3>3, <3>4, <1>0 DEF C!TypeOK, C!Frame, C!Ended
  <2> QED BY <2>1, <2>2
<1>2. C!SessionIsContiguous'
  BY <1>0 DEF C!SessionIsContiguous
<1>3. C!EndsAsItWas'
  BY <1>0 DEF C!EndsAsItWas
<1>4. C!PipeInOrder'
  BY <1>0 DEF C!PipeInOrder
<1>5. C!CarryInOrder'
  BY <1>0 DEF C!CarryInOrder
<1>6. C!FramesInOrder'
  <2>1. CASE over
    BY <2>1, <1>0 DEF C!FramesInOrder
  <2>2. CASE ~over
    <3>1. frames' = <<>> /\ Len(<<>>) = 0 /\ DOMAIN (<<>>) = 1 .. 0
      BY <2>2, <1>0
    <3> QED BY <3>1 DEF C!FramesInOrder
  <2> QED BY <2>1, <2>2
<1>7. C!HeldInOrder'
  <2>1. CASE over
    BY <2>1, <1>0 DEF C!HeldInOrder, C!InHand
  <2>2. CASE ~over
    BY <2>2, <1>0 DEF C!HeldInOrder, C!InHand
  <2> QED BY <2>1, <2>2
<1>8. C!NothingBetween'
  <2>1. CASE over
    BY <2>1, <1>0 DEF C!NothingBetween, C!InHand
  <2>2. CASE ~over
    BY <2>2, <1>0 DEF C!NothingBetween
  <2> QED BY <2>1, <2>2
<1>9. C!EpochsCounted'
  <2>1. CASE over
    BY <2>1, <1>0 DEF C!EpochsCounted
  <2>2. CASE ~over
    BY <2>2, <1>0 DEF C!EpochsCounted
  <2> QED BY <2>1, <2>2
<1>10. C!EndIsKnown'
  BY <1>0 DEF C!TypeOK, C!EndIsKnown
<1> QED BY <1>1, <1>2, <1>3, <1>4, <1>5, <1>6, <1>7, <1>8, <1>9, <1>10 DEF CaptureInv

\* A stop drops what is buffered and begins an epoch that no frame carries.
LEMMA StopKeeps ==
  ASSUME CaptureInv, C!Stop
  PROVE  CaptureInv'
<1> USE DEF C!Stop, C!Terminated, C!source, C!buffer, C!consumer, C!process
<1>0. /\ C!TypeOK /\ C!SessionIsContiguous /\ C!EndsAsItWas
      /\ C!PipeInOrder /\ C!CarryInOrder /\ C!FramesInOrder /\ C!HeldInOrder /\ C!NothingBetween
      /\ C!EpochsCounted /\ C!EndIsKnown
  BY DEF CaptureInv
<1>a. /\ C!Cardinality(gaps) \in Nat /\ C!Cardinality(gaps) <= MaxGaps
      /\ epoch \in Nat /\ epoch <= C!Cardinality(gaps)
  <2>1. ~stopped
    OBVIOUS
  <2> HIDE DEF C!Stop
  <2>2. epoch \in 0 .. MaxGaps + 1
    BY <1>0 DEF C!TypeOK
  <2>3. C!Cardinality(gaps) \in Nat
    BY <1>0, GapsCounted
  <2>4. C!Cardinality(gaps) <= MaxGaps /\ epoch <= C!Cardinality(gaps)
    BY <2>1, <1>0 DEF C!EpochsCounted
  <2> QED BY <2>2, <2>3, <2>4, FrameSizes
<1>1. C!TypeOK'
  <2>1. CASE over
    BY <2>1, <1>0 DEF C!TypeOK, C!Frame
  <2>2. CASE ~over
    <3>1. Len(<<>>) = 0
      OBVIOUS
    <3>2. frames' = <<>> /\ carry' = <<>> /\ it' # "waiting"
      BY <2>2, <1>0
    <3>3. Len(frames') <= MaxBuffered /\ Len(carry') < FrameUnits
      BY <3>1, <3>2, FrameSizes
    <3>4. frames' \in Seq(C!Frame') /\ carry' \in Seq(1 .. given)
      BY <3>2, EmptySeq
    <3>5. epoch' \in 0 .. MaxGaps + 1
      BY <2>2, <1>0, <1>a, FrameSizes
    <3>6. watch' \in {"off", "armed", "fired"} /\ term' \in {"none", "asked", "killed"}
      BY <1>0 DEF C!TypeOK
    <3>7. it' \in {"next", "waiting", "taken", "vad", "pump", "exit", "thrown", "failing", "ending", "done", "failed"}
      BY <2>2, <1>0 DEF C!TypeOK, C!Ended
    <3>8. {anchored', late', pendingGap', over', error', released', stopped', faulty'} \subseteq BOOLEAN
      BY <2>2, <1>0 DEF C!TypeOK
    <3>9. it' \in {"taken", "vad"} => it' = it
      BY <2>2
    <3>10. <<helper, exit, pipe, given, gaps, pump, taken, heard>>' = <<helper, exit, pipe, given, gaps, pump, taken, heard>>
      BY <2>2
    <3> HIDE DEF C!Stop, C!Terminated
    <3> QED BY <3>5, <3>6, <3>7, <3>8, <3>9, <3>10, <2>2, <3>2, <3>3, <3>4, <1>0 DEF C!TypeOK, C!Frame, C!Ended
  <2> QED BY <2>1, <2>2
<1>2. C!SessionIsContiguous'
  BY <1>0 DEF C!SessionIsContiguous
<1>3. C!EndsAsItWas'
  BY <1>0 DEF C!EndsAsItWas
<1>4. C!PipeInOrder'
  BY <1>0 DEF C!PipeInOrder
<1>5. C!CarryInOrder'
  BY <1>0 DEF C!CarryInOrder
<1>6. C!FramesInOrder'
  <2>1. CASE over
    BY <2>1, <1>0 DEF C!FramesInOrder
  <2>2. CASE ~over
    <3>1. frames' = <<>> /\ Len(<<>>) = 0 /\ DOMAIN (<<>>) = 1 .. 0
      BY <2>2, <1>0
    <3> QED BY <3>1 DEF C!FramesInOrder
  <2> QED BY <2>1, <2>2
<1>7. C!HeldInOrder'
  <2>1. CASE over
    BY <2>1, <1>0 DEF C!HeldInOrder, C!InHand
  <2>2. CASE ~over
    <3>1. C!InHand' = C!InHand /\ taken' = taken /\ heard' = heard /\ gaps' = gaps /\ released' = released /\ over'
      BY <2>2 DEF C!InHand
    <3>2. C!InHand => taken.epoch <= epoch'
      BY <2>2, <1>0, HandIsFrame, FrameUnitsAre DEF C!HeldInOrder, C!TypeOK
    <3>3. (it' \in {"taken", "vad"}) = (it \in {"taken", "vad"}) /\ (it' = "vad") = (it = "vad") /\ (it' = "taken") = (it = "taken")
      BY <2>2
    <3> QED BY <3>1, <3>2, <3>3, <2>2, <1>0 DEF C!HeldInOrder, C!InHand
  <2> QED BY <2>1, <2>2
<1>8. C!NothingBetween'
  <2>1. CASE over
    BY <2>1, <1>0 DEF C!NothingBetween, C!InHand
  <2>2. CASE ~over
    BY <2>2, <1>0 DEF C!NothingBetween
  <2> QED BY <2>1, <2>2
<1>9. C!EpochsCounted'
  <2>1. CASE over
    BY <2>1, <1>0, <1>a DEF C!EpochsCounted
  <2>2. CASE ~over
    <3>1. epoch' = epoch + 1 /\ gaps' = gaps /\ over' /\ stopped'
      BY <2>2
    <3> HIDE DEF C!Stop
    <3>2. epoch' <= C!Cardinality(gaps') + 1
      BY <3>1, <1>a
    <3>3. C!Cardinality(gaps') <= MaxGaps
      BY <3>1, <1>a
    <3> QED BY <3>1, <3>2, <3>3 DEF C!EpochsCounted
  <2> QED BY <2>1, <2>2
<1>10. C!EndIsKnown'
  BY <1>0 DEF C!EndIsKnown
<1> QED BY <1>1, <1>2, <1>3, <1>4, <1>5, <1>6, <1>7, <1>8, <1>9, <1>10 DEF CaptureInv

\* What is buffered are frames.
LEMMA QueuedFrames ==
  ASSUME C!TypeOK
  PROVE  /\ frames \in Seq(C!Frame) /\ Len(frames) \in Nat /\ DOMAIN frames = 1 .. Len(frames)
         /\ (frames # <<>> => Len(frames) > 0)
         /\ \A i \in 1 .. Len(frames) : frames[i] \in C!Frame
<1>1. frames \in Seq(C!Frame)
  BY DEF C!TypeOK
<1>2. Len(frames) \in Nat /\ DOMAIN frames = 1 .. Len(frames) /\ \A i \in 1 .. Len(frames) : frames[i] \in C!Frame
  BY <1>1
<1>3. frames # <<>> => Len(frames) > 0
  BY <1>1, <1>2
<1> QED BY <1>1, <1>2, <1>3

\* The recorder takes the oldest frame.
LEMMA PullKeeps ==
  ASSUME CaptureInv, C!Pull
  PROVE  CaptureInv'
<1>0. /\ C!TypeOK /\ C!SessionIsContiguous /\ C!EndsAsItWas
      /\ C!PipeInOrder /\ C!CarryInOrder /\ C!FramesInOrder /\ C!HeldInOrder /\ C!NothingBetween
      /\ C!EpochsCounted /\ C!EndIsKnown
  BY DEF CaptureInv
<1>a. /\ UNCHANGED <<helper, exit, term, pipe, given, gaps, pump, carry, anchored, late, epoch, pendingGap, over, error,
                    watch, released, stopped, heard, faulty>>
      /\ it = "next"
  BY DEF C!Pull, C!process, C!source
<1>1. CASE frames # <<>>
  <2> DEFINE f == frames[1]
  <2>1. it' = "taken" /\ taken' = f /\ frames' = Tail(frames)
    BY <1>1 DEF C!Pull
  <2>2. /\ frames \in Seq(C!Frame) /\ Len(frames) \in Nat /\ Len(frames) > 0 /\ f \in C!Frame
        /\ DOMAIN frames = 1 .. Len(frames)
    BY <1>0, <1>1, QueuedFrames
  <2>3. /\ frames' \in Seq(C!Frame) /\ Len(frames') = Len(frames) - 1 /\ DOMAIN frames' = 1 .. Len(frames')
        /\ \A i \in 1 .. Len(frames') : frames'[i] = frames[i + 1]
        /\ (frames' # <<>> => Len(frames') > 0)
    BY <2>1, <2>2, <1>1
  <2>4. /\ C!Contiguous(gaps, f.units) /\ f.epoch = epoch
        /\ \A i \in 1 .. Len(frames) : frames[i].epoch = epoch /\ C!Contiguous(gaps, frames[i].units)
        /\ \A i \in 1 .. Len(frames) - 1 : C!Follows(gaps, frames[i + 1], frames[i].units)
    BY <2>2, <1>0 DEF C!FramesInOrder
  <2>6. C!TypeOK'
    <3>1. f # C!NoFrame
      BY <2>2, FrameUnitsAre, <1>0 DEF C!NoFrame
    <3>2. C!Frame' = C!Frame /\ Len(frames') <= MaxBuffered
      BY <1>a, <1>0, <2>2, <2>3, FrameSizes DEF C!Frame, C!TypeOK
    <3> QED BY <1>0, <1>a, <2>1, <2>2, <2>3, <3>1, <3>2 DEF C!TypeOK
  <2>7. C!SessionIsContiguous' /\ C!EndsAsItWas'
    BY <1>0, <1>a, <2>1 DEF C!SessionIsContiguous, C!EndsAsItWas
  <2>8. C!PipeInOrder'
    BY <1>0, <1>a DEF C!PipeInOrder
  <2>9. C!CarryInOrder'
    BY <1>0, <1>a DEF C!CarryInOrder, C!Made, C!Front
  <2>10. C!FramesInOrder'
    <3>1. ASSUME NEW i \in 1 .. Len(frames') PROVE frames'[i].epoch = epoch' /\ C!Contiguous(gaps', frames'[i].units)
      BY <2>2, <2>3, <2>4, <1>a
    <3>2. ASSUME NEW i \in 1 .. Len(frames') - 1 PROVE C!Follows(gaps', frames'[i + 1], frames'[i].units)
      <4>1. i + 1 \in 1 .. Len(frames') /\ i \in 1 .. Len(frames') /\ i + 1 \in 1 .. Len(frames) - 1 
        BY <2>2, <2>3
      <4>2. frames'[i + 1] = frames[i + 2] /\ frames'[i] = frames[i + 1] /\ i + 1 + 1 = i + 2
        BY <4>1, <2>3
      <4> QED BY <4>1, <4>2, <2>4, <1>a
    <3> QED BY <3>1, <3>2, <2>3 DEF C!FramesInOrder
  <2>11. C!HeldInOrder'
    <3>1. (released => epoch = 0) => C!Follows(gaps, f, heard)
      BY <1>0, <1>1, <1>a DEF C!NothingBetween
    <3>2. C!Contiguous(gaps', f.units) /\ f.epoch = epoch' /\ epoch \in Nat
      BY <2>4, <1>a, <1>0, <2>2, FrameUnitsAre
    <3> QED BY <3>1, <3>2, <2>1, <2>4, <1>a, <1>0 DEF C!HeldInOrder, C!InHand
  <2>12. C!NothingBetween'
    <3>1. frames' # <<>> => C!Follows(gaps', frames'[1], f.units)
      BY <2>2, <2>3, <2>4, <1>a
    <3>2. C!Tailing' = C!Tailing
      <4>1. CASE frames' = <<>>
        <5>1. Len(frames') = 0
          BY <4>1
        <5>2. Len(frames) \in Nat /\ Len(frames') = Len(frames) - 1
          BY <2>2, <2>3
        <5>3. Len(frames) = 1
          BY <5>1, <5>2
        <5> QED BY <5>3, <4>1, <1>1, <2>1 DEF C!Tailing, C!InHand
      <4>2. CASE frames' # <<>>
        <5>1. Len(frames') > 0 /\ Len(frames') + 1 = Len(frames)
          BY <4>2, <2>2, <2>3
        <5>2. frames'[Len(frames')] = frames[Len(frames)]
          BY <5>1, <2>2, <2>3
        <5> QED BY <5>2, <4>2, <1>1 DEF C!Tailing
      <4> QED BY <4>1, <4>2
    <3>3. C!Made' = C!Made
      BY <1>a DEF C!Made, C!Front
    <3>4. ~over /\ ~pendingGap /\ C!Tailing # <<>> => C!LastOf(C!Tailing) = C!Made
      BY <1>0, <1>1 DEF C!NothingBetween
    <3>5. ~over' /\ (C!Listening \/ frames # <<>>)' /\ ~pendingGap' /\ C!Tailing' # <<>> => C!LastOf(C!Tailing)' = C!Made'
      BY <3>2, <3>3, <3>4, <1>a
    <3> QED BY <3>1, <3>5, <2>1 DEF C!NothingBetween, C!InHand
  <2>13. C!EpochsCounted'
    BY <1>0, <1>a DEF C!EpochsCounted
  <2>14. C!EndIsKnown'
    BY <1>0, <1>a, <2>1 DEF C!EndIsKnown, C!Listening
  <2> QED BY <2>6, <2>7, <2>8, <2>9, <2>10, <2>11, <2>12, <2>13, <2>14 DEF CaptureInv
<1>2. CASE frames = <<>>
  <2> USE <1>2 DEF C!Pull
  <2>1. C!TypeOK'
    BY <1>0, <1>a DEF C!TypeOK, C!Frame
  <2>2. C!SessionIsContiguous'
    BY <1>0, <1>a DEF C!SessionIsContiguous
  <2>3. C!EndsAsItWas'
    BY <1>0, <1>a DEF C!EndsAsItWas
  <2>4. C!PipeInOrder'
    BY <1>0, <1>a DEF C!PipeInOrder
  <2>5. C!CarryInOrder'
    BY <1>0, <1>a DEF C!CarryInOrder, C!Made, C!Front
  <2>6. C!FramesInOrder'
    BY <1>0, <1>a DEF C!FramesInOrder
  <2>7. C!HeldInOrder'
    BY <1>0, <1>a DEF C!HeldInOrder, C!InHand
  <2>8. C!NothingBetween'
    BY <1>0, <1>a DEF C!NothingBetween, C!InHand, C!Listening, C!Tailing, C!Made, C!Front
  <2>9. C!EpochsCounted'
    BY <1>0, <1>a DEF C!EpochsCounted
  <2>10. C!EndIsKnown'
    BY <1>0, <1>a DEF C!EndIsKnown, C!Listening
  <2> QED BY <2>1, <2>2, <2>3, <2>4, <2>5, <2>6, <2>7, <2>8, <2>9, <2>10 DEF CaptureInv
<1> QED BY <1>1, <1>2

\* A stale frame is dropped, and a gap closes the session.
LEMMA HandleFrameKeeps ==
  ASSUME CaptureInv, C!HandleFrame
  PROVE  CaptureInv'
<1>0. /\ C!TypeOK /\ C!SessionIsContiguous /\ C!EndsAsItWas
      /\ C!PipeInOrder /\ C!CarryInOrder /\ C!FramesInOrder /\ C!HeldInOrder /\ C!NothingBetween
      /\ C!EpochsCounted /\ C!EndIsKnown
  BY DEF CaptureInv
<1>a. /\ UNCHANGED <<helper, exit, term, pipe, given, gaps, pump, frames, carry, anchored, late, epoch, pendingGap, over, error,
                    watch, released, stopped, taken, faulty>>
      /\ it = "taken"
  BY DEF C!HandleFrame, C!process, C!source, C!buffer
<1>b. \/ /\ taken.epoch # (IF released THEN 0 ELSE epoch) /\ it' = "next" /\ heard' = heard
      \/ /\ taken.epoch = (IF released THEN 0 ELSE epoch) /\ it' = "vad"
         /\ heard' = IF taken.gap THEN <<>> ELSE heard
  BY DEF C!HandleFrame, C!CurrentStreamEpoch, C!SessionBefore
<1>c. taken \in C!Frame
  BY <1>a, <1>0, HandIsFrame DEF C!InHand
<1>1. C!TypeOK'
  <2>1. heard' \in Seq(1 .. given)
    BY <1>b, <1>0, EmptySeq DEF C!TypeOK
  <2>2. it' \in {"next", "vad"}
    BY <1>b
  <2> QED BY <2>1, <2>2, <1>0, <1>a DEF C!TypeOK, C!Frame
<1>2. C!SessionIsContiguous'
  <2>1. C!Contiguous(gaps, <<>>)
    BY DEF C!Contiguous
  <2> QED BY <2>1, <1>0, <1>a, <1>b DEF C!SessionIsContiguous
<1>3. C!EndsAsItWas'
  BY <1>0, <1>a, <1>b DEF C!EndsAsItWas
<1>4. C!PipeInOrder'
  BY <1>0, <1>a DEF C!PipeInOrder
<1>5. C!CarryInOrder'
  BY <1>0, <1>a DEF C!CarryInOrder, C!Made, C!Front
<1>6. C!FramesInOrder'
  BY <1>0, <1>a DEF C!FramesInOrder
<1>7. C!HeldInOrder'
  <2>1. CASE it' = "vad"
    <3>1. released => taken.epoch = 0
      BY <2>1, <1>b
    <3>2. C!Follows(gaps, taken, heard)
      BY <3>1, <1>a, <1>0 DEF C!HeldInOrder
    <3>3. C!Follows(gaps, taken, heard')
      BY <3>2, <2>1, <1>b DEF C!Follows
    <3>4. taken.gap => heard' = <<>>
      BY <2>1, <1>b
    <3> QED BY <3>3, <3>4, <2>1, <1>0, <1>a DEF C!HeldInOrder, C!InHand
  <2>2. CASE it' = "next"
    BY <2>2 DEF C!HeldInOrder, C!InHand
  <2> QED BY <2>1, <2>2, <1>b
<1>8. C!NothingBetween'
  <2>1. C!Made' = C!Made
    BY <1>a DEF C!Made, C!Front
  <2>2. CASE it' = "vad"
    <3>1. C!Tailing' = C!Tailing
      BY <2>2, <1>a DEF C!Tailing, C!InHand
    <3> QED BY <3>1, <2>1, <2>2, <1>0, <1>a DEF C!NothingBetween, C!InHand, C!Listening
  <2>3. CASE it' = "next"
    <3>1. heard' = heard /\ taken.epoch # (IF released THEN 0 ELSE epoch)
      BY <2>3, <1>b
    <3>2. CASE frames = <<>>
      <4>1. over \/ pendingGap
        BY <3>1, <3>2, <1>0, <1>a DEF C!HeldInOrder, C!EndIsKnown, C!Listening
      <4> QED BY <4>1, <3>2, <2>3, <1>a DEF C!NothingBetween, C!InHand
    <3>3. CASE frames # <<>>
      <4>1. (released => epoch = 0) => C!Follows(gaps, frames[1], heard)
        BY <3>1, <3>3, <1>0, <1>a DEF C!HeldInOrder, C!Follows
      <4>2. C!Tailing' = C!Tailing
        BY <3>3, <1>a DEF C!Tailing
      <4> QED BY <4>1, <4>2, <3>1, <3>3, <2>1, <2>3, <1>0, <1>a DEF C!NothingBetween, C!InHand
    <3> QED BY <3>2, <3>3
  <2> QED BY <2>2, <2>3, <1>b
<1>9. C!EpochsCounted'
  BY <1>0, <1>a DEF C!EpochsCounted
<1>10. C!EndIsKnown'
  BY <1>0, <1>a, <1>b DEF C!EndIsKnown, C!Listening
<1> QED BY <1>1, <1>2, <1>3, <1>4, <1>5, <1>6, <1>7, <1>8, <1>9, <1>10 DEF CaptureInv

\* The sessionizer is given the frame.
LEMMA FrameRecordedKeeps ==
  ASSUME CaptureInv, C!FrameRecorded
  PROVE  CaptureInv'
<1>0. /\ C!TypeOK /\ C!SessionIsContiguous /\ C!EndsAsItWas
      /\ C!PipeInOrder /\ C!CarryInOrder /\ C!FramesInOrder /\ C!HeldInOrder /\ C!NothingBetween
      /\ C!EpochsCounted /\ C!EndIsKnown
  BY DEF CaptureInv
<1>a. /\ UNCHANGED <<helper, exit, term, pipe, given, gaps, pump, frames, carry, anchored, late, epoch, pendingGap, over, error,
                    watch, released, stopped, taken, faulty>>
      /\ it = "vad" /\ it' = "next" /\ heard' = heard \o taken.units
  BY DEF C!FrameRecorded, C!process, C!source, C!buffer
<1> DEFINE n == Len(heard)
<1>b. /\ taken \in C!Frame /\ taken.units \in Seq(1 .. given) /\ Len(taken.units) = FrameUnits /\ taken.units # <<>>
      /\ heard \in Seq(1 .. given) /\ n \in Nat
  BY <1>a, <1>0, FrameUnitsAre DEF C!TypeOK
<1>c. /\ heard' \in Seq(1 .. given) /\ Len(heard') = n + FrameUnits
      /\ \A i \in 1 .. n + FrameUnits : heard'[i] = IF i <= n THEN heard[i] ELSE taken.units[i - n]
  BY <1>a, <1>b
<1>d. C!Follows(gaps, taken, heard) /\ (taken.gap => heard = <<>>) /\ C!Contiguous(gaps, taken.units)
  BY <1>a, <1>0 DEF C!HeldInOrder, C!InHand
<1>1. C!TypeOK'
  BY <1>0, <1>a, <1>c DEF C!TypeOK, C!Frame
<1>2. C!SessionIsContiguous'
  <2> SUFFICES ASSUME NEW i \in 1 .. Len(heard') - 1
               PROVE  heard'[i + 1] = heard'[i] + 1 /\ heard'[i + 1] \notin gaps
    BY <1>a DEF C!SessionIsContiguous, C!Contiguous
  <2>1. CASE i < n
    <3>1. i \in 1 .. n - 1 /\ heard'[i] = heard[i] /\ heard'[i + 1] = heard[i + 1]
      BY <2>1, <1>b, <1>c
    <3> QED BY <3>1, <1>0 DEF C!SessionIsContiguous, C!Contiguous
  <2>2. CASE i = n
    <3>1. heard # <<>> /\ ~taken.gap
      BY <2>2, <1>b, <1>d
    <3>2. heard'[i] = heard[n] /\ heard'[i + 1] = taken.units[1]
      BY <2>2, <1>b, <1>c
    <3> QED BY <3>1, <3>2, <1>d DEF C!Follows, C!LastOf
  <2>3. CASE i > n
    <3>1. i - n \in 1 .. FrameUnits - 1 /\ heard'[i] = taken.units[i - n] /\ heard'[i + 1] = taken.units[i - n + 1]
      BY <2>3, <1>b, <1>c, FrameSizes
    <3> QED BY <3>1, <1>b, <1>d DEF C!Contiguous
  <2> QED BY <2>1, <2>2, <2>3, <1>b, <1>c, FrameSizes
<1>3. C!EndsAsItWas'
  BY <1>0, <1>a DEF C!EndsAsItWas
<1>4. C!PipeInOrder'
  BY <1>0, <1>a DEF C!PipeInOrder
<1>5. C!CarryInOrder'
  BY <1>0, <1>a DEF C!CarryInOrder, C!Made, C!Front
<1>6. C!FramesInOrder'
  BY <1>0, <1>a DEF C!FramesInOrder
<1>7. C!HeldInOrder'
  BY <1>a DEF C!HeldInOrder, C!InHand
<1>8. C!NothingBetween'
  <2>1. C!Made' = C!Made
    BY <1>a DEF C!Made, C!Front
  <2>2. C!LastOf(heard') = C!LastOf(taken.units) /\ heard' # <<>>
    <3>1. Len(heard') > 0 /\ ~(Len(heard') <= n) /\ Len(heard') \in 1 .. n + FrameUnits /\ Len(heard') - n = FrameUnits
      BY <1>b, <1>c
    <3>2. heard' # <<>>
      BY <3>1
    <3> QED BY <3>1, <3>2, <1>b, <1>c DEF C!LastOf
  <2>3. \A x : C!Follows(gaps, x, taken.units) => C!Follows(gaps, x, heard')
    BY <2>2, <1>b DEF C!Follows
  <2>4. CASE frames = <<>>
    <3>1. C!Tailing' = heard' /\ C!Tailing = taken.units
      BY <2>4, <1>a DEF C!Tailing, C!InHand
    <3> QED BY <3>1, <2>1, <2>2, <2>4, <1>0, <1>a, <1>b DEF C!NothingBetween, C!InHand, C!Listening
  <2>5. CASE frames # <<>>
    <3>1. C!Tailing' = C!Tailing
      BY <2>5, <1>a DEF C!Tailing
    <3> QED BY <3>1, <2>1, <2>3, <2>5, <1>0, <1>a DEF C!NothingBetween, C!InHand
  <2> QED BY <2>4, <2>5
<1>9. C!EpochsCounted'
  BY <1>0, <1>a DEF C!EpochsCounted
<1>10. C!EndIsKnown'
  BY <1>0, <1>a DEF C!EndIsKnown, C!Listening
<1> QED BY <1>1, <1>2, <1>3, <1>4, <1>5, <1>6, <1>7, <1>8, <1>9, <1>10 DEF CaptureInv

\* The child gives a chunk, perhaps after a silence of the source.
LEMMA ChildWritesKeeps ==
  ASSUME CaptureInv, C!ChildWrites
  PROVE  CaptureInv'
<1>0. /\ C!TypeOK /\ C!SessionIsContiguous /\ C!EndsAsItWas
      /\ C!PipeInOrder /\ C!CarryInOrder /\ C!FramesInOrder /\ C!HeldInOrder /\ C!NothingBetween
      /\ C!EpochsCounted /\ C!EndIsKnown
  BY DEF CaptureInv
<1>a. UNCHANGED <<helper, exit, term, pump, frames, carry, anchored, late, epoch, pendingGap, over, error,
                  watch, released, stopped, it, taken, heard, faulty>>
  BY DEF C!ChildWrites, C!process, C!buffer, C!consumer
<1>p. PICK n \in 1 .. MaxChunk, silent \in BOOLEAN :
        /\ given + n <= MaxUnits
        /\ silent => anchored /\ ~late /\ pipe = <<>> /\ C!Cardinality(gaps) < MaxGaps
        /\ pipe' = Append(pipe, [first |-> given + 1, n |-> n])
        /\ given' = given + n
        /\ gaps' = IF silent THEN gaps \cup {given + 1} ELSE gaps
  BY DEF C!ChildWrites
<1> DEFINE new == [first |-> given + 1, n |-> n]
<1>b. given \in Nat /\ n \in Nat /\ n > 0 /\ given' \in 0 .. MaxUnits /\ given <= given' /\ gaps \subseteq 1 .. given
  <2>1. given \in Nat /\ gaps \subseteq 1 .. given
    BY <1>0 DEF C!TypeOK
  <2> QED BY <2>1, <1>p, FrameSizes
<1>c. /\ pipe \in Seq([first : 1 .. given', n : 1 .. MaxChunk]) /\ Len(pipe) \in Nat /\ DOMAIN pipe = 1 .. Len(pipe)
      /\ new \in [first : 1 .. given', n : 1 .. MaxChunk]
      /\ \A i \in 1 .. Len(pipe) : pipe[i].first \in 1 .. given /\ pipe[i].n \in 1 .. MaxChunk
  <2>1. pipe \in Seq([first : 1 .. given, n : 1 .. MaxChunk])
    BY <1>0 DEF C!TypeOK
  <2>2. [first : 1 .. given, n : 1 .. MaxChunk] \subseteq [first : 1 .. given', n : 1 .. MaxChunk]
    BY <1>b
  <2>3. Len(pipe) \in Nat /\ DOMAIN pipe = 1 .. Len(pipe)
        /\ \A i \in 1 .. Len(pipe) : pipe[i] \in [first : 1 .. given, n : 1 .. MaxChunk]
    BY <2>1, LenProperties
  <2>4. pipe \in Seq([first : 1 .. given', n : 1 .. MaxChunk])
    BY <2>1, <2>2, SeqMonotonic
  <2>5. new \in [first : 1 .. given', n : 1 .. MaxChunk]
    BY <1>b, <1>p
  <2> QED BY <2>3, <2>4, <2>5
<1>d. /\ pipe' \in Seq([first : 1 .. given', n : 1 .. MaxChunk]) /\ pipe' # <<>>
      /\ Len(pipe') = Len(pipe) + 1 /\ DOMAIN pipe' = 1 .. Len(pipe) + 1
      /\ (\A i \in 1 .. Len(pipe) : pipe'[i] = pipe[i]) /\ pipe'[Len(pipe) + 1] = new
  <2>1. pipe' = Append(pipe, new)
    BY <1>p
  <2> DEFINE T == [first : 1 .. given', n : 1 .. MaxChunk]
  <2>2. pipe \in Seq(T) /\ new \in T
    BY <1>c
  <2> HIDE DEF new, T
  <2>3. /\ Append(pipe, new) \in Seq(T) /\ Append(pipe, new) # <<>>
        /\ Len(Append(pipe, new)) = Len(pipe) + 1
        /\ \A i \in 1 .. Len(pipe) : Append(pipe, new)[i] = pipe[i]
        /\ Append(pipe, new)[Len(pipe) + 1] = new
    BY <2>2, AppendProperties
  <2>4. DOMAIN Append(pipe, new) = 1 .. Len(pipe) + 1
    BY <2>3
  <2> QED BY <2>1, <2>3, <2>4 DEF T
<1>e. (\A u \in gaps' : u \in gaps \/ (u = given + 1 /\ silent)) /\ gaps \subseteq gaps' /\ gaps' \subseteq 1 .. given'
  BY <1>p, <1>b
<1>f. \A s \in Seq(1 .. given) : C!Contiguous(gaps, s) => C!Contiguous(gaps', s)
  <2> SUFFICES ASSUME NEW s \in Seq(1 .. given), C!Contiguous(gaps, s), NEW i \in 1 .. Len(s) - 1
               PROVE  s[i + 1] = s[i] + 1 /\ s[i + 1] \notin gaps'
    BY DEF C!Contiguous
  <2>1. s[i + 1] \in 1 .. given
    <3>1. Len(s) \in Nat /\ i + 1 \in 1 .. Len(s)
      OBVIOUS
    <3> QED BY <3>1, ElementOfSeq
  <2>2. s[i + 1] = s[i] + 1 /\ s[i + 1] \notin gaps
    BY DEF C!Contiguous
  <2> QED BY <2>1, <2>2, <1>b, <1>e
<1>g. \A f \in C!Frame : \A s : C!Follows(gaps, f, s) => C!Follows(gaps', f, s)
  <2> SUFFICES ASSUME NEW f \in C!Frame, NEW s, C!Follows(gaps, f, s) PROVE C!Follows(gaps', f, s)
    OBVIOUS
  <2>1. f.units[1] \in 1 .. given
    BY FrameUnitsAre, <1>0
  <2>2. f.units[1] \notin gaps => f.units[1] \notin gaps'
    BY <2>1, <1>b, <1>e
  <2> QED BY <2>2 DEF C!Follows
<1>h. C!Front' = C!Front /\ C!Made' = C!Made
  <2>1. CASE pipe = <<>>
    <3>1. Len(pipe) = 0
      BY <2>1
    <3>2. pipe'[1].first = given + 1
      BY <3>1, <1>d
    <3> QED BY <3>2, <2>1, <1>a, <1>d DEF C!Front, C!Made
  <2>2. CASE pipe # <<>>
    <3>1. Len(pipe) > 0
      BY <2>2, <1>c
    <3>2. pipe'[1] = pipe[1]
      BY <3>1, <1>c, <1>d
    <3> QED BY <3>2, <2>2, <1>a, <1>d DEF C!Front, C!Made
  <2> QED BY <2>1, <2>2
<1>i. C!Frame \subseteq C!Frame' /\ 1 .. given \subseteq 1 .. given'
  BY <1>b DEF C!Frame
<1>j. \A i \in 1 .. Len(frames) : frames[i] \in C!Frame /\ frames[i].units \in Seq(1 .. given)
  BY <1>0, QueuedFrames, FrameUnitsAre
<1>1. C!TypeOK'
  <2>1. frames' \in Seq(C!Frame') /\ carry' \in Seq(1 .. given') /\ heard' \in Seq(1 .. given')
    <3>1. frames \in Seq(C!Frame) /\ carry \in Seq(1 .. given) /\ heard \in Seq(1 .. given)
      BY <1>0 DEF C!TypeOK
    <3> QED BY <3>1, <1>a, <1>i, SeqMonotonic
  <2>2. taken' \in C!Frame' \cup {C!NoFrame}
    BY <1>0, <1>a, <1>i DEF C!TypeOK
  <2> QED BY <2>1, <2>2, <1>0, <1>a, <1>b, <1>d, <1>e DEF C!TypeOK
<1>2. C!SessionIsContiguous'
  BY <1>0, <1>a, <1>f DEF C!SessionIsContiguous, C!TypeOK
<1>3. C!EndsAsItWas'
  BY <1>0, <1>a DEF C!EndsAsItWas
<1>4. C!PipeInOrder'
  <2> SUFFICES ASSUME ~over, NEW i \in 1 .. Len(pipe) + 1
               PROVE  /\ pipe'[i].first + pipe'[i].n = IF i = Len(pipe) + 1 THEN given' + 1 ELSE pipe'[i + 1].first
                      /\ \A u \in gaps' : u \notin pipe'[i].first + 1 .. pipe'[i].first + pipe'[i].n - 1
                      /\ pipe'[i].first \in gaps' => i = 1 /\ anchored /\ ~late
    BY <1>a, <1>d DEF C!PipeInOrder
  <2>1. CASE i = Len(pipe) + 1
    <3>1. pipe'[i].first = given + 1 /\ pipe'[i].n = n
      BY <2>1, <1>d
    <3>2. \A u \in gaps' : u \notin pipe'[i].first + 1 .. pipe'[i].first + pipe'[i].n - 1
      BY <3>1, <1>b, <1>e
    <3>3. pipe'[i].first \in gaps' => silent
      BY <3>1, <1>b, <1>e
    <3>4. pipe = <<>> => i = 1
      BY <2>1
    <3>5. pipe'[i].first + pipe'[i].n = given' + 1
      BY <3>1, <1>p, <1>b
    <3> QED BY <3>2, <3>3, <3>4, <3>5, <2>1, <1>p
  <2>2. CASE i \in 1 .. Len(pipe)
    <3>1. pipe'[i] = pipe[i] /\ pipe # <<>> /\ ~silent /\ gaps' = gaps /\ i # Len(pipe) + 1
      BY <2>2, <1>c, <1>d, <1>p
    <3>2. /\ pipe[i].first + pipe[i].n = IF i = Len(pipe) THEN given + 1 ELSE pipe[i + 1].first
          /\ \A u \in gaps : u \notin pipe[i].first + 1 .. pipe[i].first + pipe[i].n - 1
          /\ pipe[i].first \in gaps => i = 1 /\ anchored /\ ~late
      BY <2>2, <1>0, <1>c DEF C!PipeInOrder
    <3>3. pipe'[i + 1].first = IF i = Len(pipe) THEN given + 1 ELSE pipe[i + 1].first
      <4>1. CASE i = Len(pipe)
        BY <4>1, <1>d
      <4>2. CASE i # Len(pipe)
        <5>1. i + 1 \in 1 .. Len(pipe)
          <6>1. Len(pipe) \in Nat
            BY <1>c
          <6> QED BY <6>1, <4>2, <2>2
        <5> QED BY <5>1, <4>2, <1>d
      <4> QED BY <4>1, <4>2
    <3> QED BY <3>1, <3>2, <3>3
  <2> QED BY <2>1, <2>2, <1>c
<1>5. C!CarryInOrder'
  <2> SUFFICES ASSUME ~over
               PROVE  /\ C!Made >= 0 /\ \A i \in DOMAIN carry : carry[i] = C!Made + i
                      /\ late => anchored
                      /\ ~late => \A u \in gaps' : u \notin (IF pendingGap THEN C!Made + 2 ELSE C!Made + 1) .. C!Front - 1
    BY <1>a, <1>h DEF C!CarryInOrder
  <2>1. /\ C!Made >= 0 /\ \A i \in DOMAIN carry : carry[i] = C!Made + i
        /\ late => anchored
        /\ ~late => \A u \in gaps : u \notin (IF pendingGap THEN C!Made + 2 ELSE C!Made + 1) .. C!Front - 1
    BY <1>0 DEF C!CarryInOrder
  <2>2. C!Front \in Int /\ (silent => C!Front = given + 1) /\ C!Made \in Int
    <3>1. C!Front \in Int
      BY <1>b, <1>c DEF C!Front
    <3>2. Len(carry) \in Nat
      BY <1>0
    <3> QED BY <3>1, <3>2, <1>p DEF C!Front, C!Made
  <2>3. silent => given + 1 \notin (IF pendingGap THEN C!Made + 2 ELSE C!Made + 1) .. C!Front - 1
    BY <2>2, <1>b
  <2> QED BY <2>1, <2>3, <1>e
<1>6. C!FramesInOrder'
  <2>1. DOMAIN frames = 1 .. Len(frames) /\ Len(frames) \in Nat
    BY <1>0
  <2>2. \A i \in 1 .. Len(frames) : frames[i].epoch = epoch /\ C!Contiguous(gaps', frames[i].units)
    BY <2>1, <1>0, <1>f, <1>j DEF C!FramesInOrder
  <2>3. \A i \in 1 .. Len(frames) - 1 : C!Follows(gaps', frames[i + 1], frames[i].units)
    BY <2>1, <1>0, <1>g, <1>j DEF C!FramesInOrder
  <2> QED BY <2>1, <2>2, <2>3, <1>a DEF C!FramesInOrder
<1>7. C!HeldInOrder'
  <2>1. C!InHand => taken \in C!Frame /\ taken.units \in Seq(1 .. given)
    BY <1>0, HandIsFrame, FrameUnitsAre
  <2>2. C!InHand => C!Contiguous(gaps', taken.units) /\ taken.epoch <= epoch
    BY <2>1, <1>0, <1>f DEF C!HeldInOrder
  <2>3. it = "vad" \/ (it = "taken" /\ (released => taken.epoch = 0)) => C!Follows(gaps', taken, heard)
    BY <2>1, <1>0, <1>g DEF C!HeldInOrder, C!InHand
  <2> QED BY <2>2, <2>3, <1>0, <1>a DEF C!HeldInOrder, C!InHand
<1>8. C!NothingBetween'
  <2>1. frames # <<>> => frames[1] \in C!Frame
    BY <1>0, QueuedFrames
  <2>2. C!Tailing' = C!Tailing
    BY <1>a DEF C!Tailing, C!InHand
  <2> QED BY <2>1, <2>2, <1>0, <1>a, <1>g, <1>h DEF C!NothingBetween, C!InHand, C!Listening
<1>9. C!EpochsCounted'
  <2>1. CASE ~silent
    <3>1. gaps' = gaps /\ (pipe = <<>> => pipe'[1].first \notin gaps) /\ (pipe # <<>> => pipe'[1] = pipe[1])
      <4>1. pipe = <<>> => Len(pipe) = 0
        OBVIOUS
      <4>2. pipe # <<>> => 1 \in 1 .. Len(pipe)
        BY <1>c
      <4>3. given + 1 \notin gaps
        BY <1>b
      <4> QED BY <4>1, <4>2, <4>3, <2>1, <1>d, <1>p
    <3> QED BY <3>1, <1>0, <1>a DEF C!EpochsCounted
  <2>2. CASE silent
    <3>1. C!Cardinality(gaps') = C!Cardinality(gaps) + 1 /\ C!Cardinality(gaps) \in Nat
      <4>1. given + 1 \in Nat \ gaps
        BY <1>b
      <4> QED BY <4>1, <2>2, <1>p, <1>0, GapsCounted
    <3>2. C!Cardinality(gaps) < MaxGaps
      BY <2>2, <1>p
    <3>3. epoch \in Nat
      <4>1. epoch \in 0 .. MaxGaps + 1
        BY <1>0 DEF C!TypeOK
      <4> QED BY <4>1, FrameSizes
    <3>4. epoch <= C!Cardinality(gaps) + 1 /\ (~stopped => epoch <= C!Cardinality(gaps))
      BY <1>0 DEF C!EpochsCounted
    <3>5. ~over => ~stopped
      BY <1>0 DEF C!EndIsKnown
    <3>6. C!Cardinality(gaps') <= MaxGaps /\ epoch' <= C!Cardinality(gaps') + 1
      BY <3>1, <3>2, <3>3, <3>4, <1>a, FrameSizes
    <3>7. ~stopped' => epoch' < C!Cardinality(gaps') /\ epoch' <= C!Cardinality(gaps')
      BY <3>1, <3>3, <3>4, <1>a
    <3> QED BY <3>5, <3>6, <3>7, <1>a DEF C!EpochsCounted
  <2> QED BY <2>1, <2>2
<1>10. C!EndIsKnown'
  BY <1>0, <1>a DEF C!EndIsKnown, C!Listening
<1> QED BY <1>1, <1>2, <1>3, <1>4, <1>5, <1>6, <1>7, <1>8, <1>9, <1>10 DEF CaptureInv

\* The frames of consecutive units in which no silence falls are contiguous and
\* follow each other; the first one follows what ended just before, or tells of a gap.
RunOfFrames(made, w, m, gap, silent) ==
    /\ \A i \in 1 .. w : C!Contiguous(silent, made[i].units) /\ C!LastOf(made[i].units) = m + i * FrameUnits
    /\ \A i \in 1 .. w - 1 : C!Follows(silent, made[i + 1], made[i].units)
    /\ w > 0 => /\ made[1].gap = gap
                /\ \A s : (s # <<>> /\ ~gap => C!LastOf(s) = m) => C!Follows(silent, made[1], s)

\* Frames of consecutive units are in order (FramesOf).
LEMMA FramesOfARun ==
  ASSUME NEW hi, NEW m, NEW units, NEW e, NEW gap, NEW made, NEW w, NEW rest,
         Framed(hi, m, units, e, gap, made, w, rest), NEW silent,
         \A u \in silent : u \notin (IF gap THEN m + 2 ELSE m + 1) .. m + Len(units)
  PROVE  RunOfFrames(made, w, m, gap, silent)
<1> USE DEF RunOfFrames
<1>1. /\ w \in Nat /\ w * FrameUnits \in Nat
      /\ \A i \in 1 .. w : /\ made[i].gap = (gap /\ i = 1)
                           /\ made[i].units \in [1 .. FrameUnits -> 1 .. hi] /\ Len(made[i].units) = FrameUnits
                           /\ (i - 1) * FrameUnits \in Nat /\ i * FrameUnits = (i - 1) * FrameUnits + FrameUnits
                           /\ \A k \in 1 .. FrameUnits : made[i].units[k] = m + (i - 1) * FrameUnits + k
                           /\ m + i * FrameUnits <= m + Len(units)
  <2>1. WellFramed(hi, m, units, e, gap, made, w, rest)
    BY Framing
  <2> QED BY <2>1 DEF WellFramed
<1>0. units \in Seq(1 .. hi) /\ m \in Int /\ gap \in BOOLEAN
  BY DEF Framed
<1>2. Len(units) \in Nat
  BY <1>0
<1>3. ASSUME NEW i \in 1 .. w, NEW k \in 1 .. FrameUnits, i > 1 \/ k > 1 \/ ~gap
      PROVE  made[i].units[k] \notin silent
  <2> DEFINE lo == (i - 1) * FrameUnits
  <2>1. lo \in Nat /\ made[i].units[k] = m + lo + k /\ m + lo + FrameUnits <= m + Len(units)
    <3>1. m + (lo + FrameUnits) <= m + Len(units) /\ lo \in Nat
      BY <1>0, <1>1
    <3>2. m + (lo + FrameUnits) = m + lo + FrameUnits
      BY <3>1, <1>0, FrameSizes
    <3> QED BY <3>1, <3>2, <1>1
  <2>2. i > 1 => lo > 0
    <3> SUFFICES ASSUME i > 1 PROVE lo > 0
      OBVIOUS
    <3>1. i - 1 \in 1 .. w
      BY <1>0, <1>1
    <3>2. lo = (i - 1 - 1) * FrameUnits + FrameUnits /\ (i - 1 - 1) * FrameUnits \in Nat
      BY <3>1, <1>1
    <3> QED BY <3>2, FrameSizes
  <2> HIDE DEF lo
  <2>3. m + lo + k \in (IF gap THEN m + 2 ELSE m + 1) .. m + Len(units)
    BY <2>1, <2>2, <1>0, <1>2, <1>3, FrameSizes
  <2> QED BY <2>1, <2>3
<1>4. ASSUME NEW i \in 1 .. w
      PROVE  C!Contiguous(silent, made[i].units) /\ C!LastOf(made[i].units) = m + i * FrameUnits
  <2> DEFINE lo == (i - 1) * FrameUnits
             f == made[i].units
  <2>1. lo \in Nat /\ i * FrameUnits = lo + FrameUnits /\ Len(f) = FrameUnits /\ \A k \in 1 .. FrameUnits : f[k] = m + lo + k
    BY <1>0, <1>1
  <2>2. \A k \in 1 .. FrameUnits : k > 1 => f[k] \notin silent
    BY <1>3
  <2> HIDE DEF lo, f
  <2>3. ASSUME NEW k \in 1 .. FrameUnits - 1 PROVE f[k + 1] = f[k] + 1 /\ f[k + 1] \notin silent
    <3>1. k \in 1 .. FrameUnits /\ k + 1 \in 1 .. FrameUnits /\ k + 1 > 1
      BY FrameSizes
    <3>2. f[k + 1] = m + lo + (k + 1) /\ f[k] = m + lo + k
      BY <3>1, <2>1
    <3> QED BY <3>1, <3>2, <2>1, <2>2, <1>0
  <2>4. C!Contiguous(silent, f)
    BY <2>1, <2>3 DEF C!Contiguous
  <2>5. C!LastOf(f) = m + lo + FrameUnits
    BY <2>1, <1>0, FrameSizes DEF C!LastOf
  <2>6. m + lo + FrameUnits = m + (lo + FrameUnits)
    BY <2>1, <1>0
  <2> QED BY <2>1, <2>4, <2>5, <2>6 DEF f
<1>5. ASSUME NEW i \in 1 .. w - 1 PROVE C!Follows(silent, made[i + 1], made[i].units)
  <2>1. i \in 1 .. w /\ i + 1 \in 1 .. w /\ i + 1 > 1 /\ i + 1 - 1 = i
    BY <1>0, <1>1
  <2>2. made[i + 1].units[1] = m + i * FrameUnits + 1
    <3>1. made[i + 1].units[1] = m + (i + 1 - 1) * FrameUnits + 1
      BY <2>1, <1>0, <1>1, FrameSizes
    <3> QED BY <3>1, <2>1
  <2>3. C!LastOf(made[i].units) = m + i * FrameUnits
    BY <2>1, <1>4
  <2>4. made[i + 1].units[1] \notin silent
    BY <2>1, <1>3, FrameSizes
  <2> QED BY <2>2, <2>3, <2>4 DEF C!Follows
<1>6. ASSUME w > 0
      PROVE  /\ made[1].gap = gap
             /\ \A s : (s # <<>> /\ ~gap => C!LastOf(s) = m) => C!Follows(silent, made[1], s)
  <2>1. 1 \in 1 .. w /\ 1 \in 1 .. FrameUnits
    BY <1>6, <1>0, <1>1, FrameSizes
  <2>2. made[1].gap = gap
    <3>1. made[1].gap = (gap /\ 1 = 1)
      BY <2>1, <1>1
    <3> QED BY <3>1, <1>0
  <2>3. made[1].units[1] = m + 1
    <3>1. (1 - 1) * FrameUnits = 0
      BY FrameSizes
    <3>2. made[1].units[1] = m + (1 - 1) * FrameUnits + 1
      BY <2>1, <1>1
    <3> QED BY <3>1, <3>2, <1>0
  <2>4. ~gap => made[1].units[1] \notin silent
    BY <2>1, <1>3
  <2> QED BY <2>2, <2>3, <2>4 DEF C!Follows
<1> QED BY <1>4, <1>5, <1>6

\* The chunk that is read next, and the pipe behind it.
ChunkAhead(c, more) ==
    /\ c.first \in 1 .. given /\ c.n \in 1 .. MaxChunk /\ c.first + c.n <= given + 1 /\ given \in Nat
    /\ C!Front = c.first
    /\ (IF more = <<>> THEN given + 1 ELSE more[1].first) = c.first + c.n
    /\ more \in Seq([first : 1 .. given, n : 1 .. MaxChunk])
    /\ more # <<>> => more[1].first \notin gaps
    /\ \A i \in DOMAIN more :
         /\ more[i].first + more[i].n = IF i = Len(more) THEN given + 1 ELSE more[i + 1].first
         /\ \A u \in gaps : u \notin more[i].first + 1 .. more[i].first + more[i].n - 1
         /\ more[i].first \notin gaps
    /\ C!Units(c) \in Seq(1 .. given) /\ Len(C!Units(c)) = c.n
    /\ \A i \in 1 .. c.n : C!Units(c)[i] = c.first - 1 + i
    /\ \A u \in gaps : u \notin c.first + 1 .. c.first + c.n - 1
    /\ c.first \in gaps => anchored /\ ~late

\* The chunks of the pipe follow each other.
LEMMA NextChunk ==
  ASSUME CaptureInv, ~over, pipe # <<>>, NEW c, c = Head(pipe), NEW more, more = Tail(pipe)
  PROVE  ChunkAhead(c, more)
<1> USE DEF ChunkAhead
<1> DEFINE T == [first : 1 .. given, n : 1 .. MaxChunk]
<1>0. C!TypeOK /\ C!PipeInOrder
  BY DEF CaptureInv
<1>1. given \in Nat /\ pipe \in Seq(T)
  BY <1>0 DEF C!TypeOK
<1>t. \A x \in T : x.first \in 1 .. given /\ x.n \in 1 .. MaxChunk
  OBVIOUS
<1> HIDE DEF T
<1>l. Len(pipe) \in Nat /\ DOMAIN pipe = 1 .. Len(pipe) /\ Len(pipe) > 0
  BY <1>1
<1>m. /\ more \in Seq(T) /\ Len(more) = Len(pipe) - 1
      /\ \A i \in 1 .. Len(more) : more[i] = pipe[i + 1]
  BY <1>1
<1>n. Len(more) \in Nat /\ DOMAIN more = 1 .. Len(more) /\ \A i \in 1 .. Len(more) : more[i] \in T
  BY <1>m
<1>o. (more # <<>> => Len(more) > 0) /\ (more = <<>> => Len(more) = 0)
  <2>1. more # <<>> => Len(more) \in Nat \ {0}
    BY <1>m
  <2>2. more = <<>> => Len(more) = 0
    OBVIOUS
  <2> QED BY <2>1, <2>2
<1>g. given \in Nat
  BY <1>1
<1>c. c = pipe[1] /\ c \in T
  BY <1>1, <1>l
<1>p. \A i \in 1 .. Len(pipe) :
        /\ pipe[i].first + pipe[i].n = IF i = Len(pipe) THEN given + 1 ELSE pipe[i + 1].first
        /\ \A u \in gaps : u \notin pipe[i].first + 1 .. pipe[i].first + pipe[i].n - 1
        /\ pipe[i].first \in gaps => i = 1 /\ anchored /\ ~late
  BY <1>0, <1>l DEF C!PipeInOrder
<1>3. /\ c.first + c.n = IF 1 = Len(pipe) THEN given + 1 ELSE pipe[2].first
      /\ \A u \in gaps : u \notin c.first + 1 .. c.first + c.n - 1
      /\ c.first \in gaps => anchored /\ ~late
  <2>1. 1 \in 1 .. Len(pipe) /\ 1 + 1 = 2
    BY <1>l
  <2> QED BY <2>1, <1>p, <1>c
<1>4. (IF more = <<>> THEN given + 1 ELSE more[1].first) = c.first + c.n
  <2>1. CASE more = <<>>
    <3>1. 1 = Len(pipe)
      BY <2>1, <1>l, <1>m, <1>o
    <3> QED BY <3>1, <2>1, <1>3
  <2>2. CASE more # <<>>
    <3>1. 1 # Len(pipe) /\ 1 \in 1 .. Len(more) /\ 1 + 1 = 2
      BY <2>2, <1>l, <1>m, <1>n, <1>o
    <3>2. more[1] = pipe[2]
      BY <3>1, <1>m
    <3> QED BY <3>1, <3>2, <2>2, <1>3
  <2> QED BY <2>1, <2>2
<1>5. /\ c.first \in 1 .. given /\ c.n \in 1 .. MaxChunk
      /\ C!Front = c.first
  BY <1>c, <1>t DEF C!Front
<1>6. c.first + c.n <= given + 1
  <2>1. CASE more = <<>>
    BY <2>1, <1>1, <1>4
  <2>2. CASE more # <<>>
    <3>1. 1 \in 1 .. Len(more)
      BY <2>2, <1>n, <1>o
    <3>2. more[1].first \in 1 .. given
      BY <3>1, <1>n, <1>t
    <3>3. c.first + c.n = more[1].first
      BY <2>2, <1>4
    <3>4. \A x \in 1 .. given : x <= given + 1
      BY <1>g
    <3>5. more[1].first <= given + 1
      BY <3>2, <3>4
    <3> QED BY <3>3, <3>5
  <2> QED BY <2>1, <2>2
<1>7. ASSUME NEW i \in DOMAIN more
      PROVE  /\ more[i].first + more[i].n = IF i = Len(more) THEN given + 1 ELSE more[i + 1].first
             /\ \A u \in gaps : u \notin more[i].first + 1 .. more[i].first + more[i].n - 1
             /\ more[i].first \notin gaps
  <2>0. i \in 1 .. Len(more) /\ i \in Nat /\ i > 0
    BY <1>n
  <2>1. i + 1 \in 1 .. Len(pipe) /\ i + 1 # 1
    BY <2>0, <1>l, <1>m
  <2>2. more[i] = pipe[i + 1]
    BY <2>0, <1>m
  <2>3. /\ pipe[i + 1].first + pipe[i + 1].n = IF i + 1 = Len(pipe) THEN given + 1 ELSE pipe[i + 1 + 1].first
        /\ \A u \in gaps : u \notin pipe[i + 1].first + 1 .. pipe[i + 1].first + pipe[i + 1].n - 1
        /\ pipe[i + 1].first \in gaps => i + 1 = 1
    BY <2>1, <1>p
  <2>4. CASE i = Len(more)
    <3>1. i + 1 = Len(pipe)
      BY <2>4, <1>l, <1>m
    <3> QED BY <3>1, <2>1, <2>2, <2>3, <2>4
  <2>5. CASE i # Len(more)
    <3>1. i + 1 \in 1 .. Len(more) /\ i + 1 # Len(pipe)
      BY <2>0, <2>5, <1>l, <1>m, <1>n
    <3>2. more[i + 1] = pipe[i + 1 + 1]
      BY <3>1, <1>m
    <3> QED BY <3>1, <3>2, <2>1, <2>2, <2>3, <2>5
  <2> QED BY <2>4, <2>5
<1>8. more # <<>> => more[1].first \notin gaps
  <2>1. more # <<>> => 1 \in DOMAIN more
    BY <1>n, <1>o
  <2> QED BY <2>1, <1>7
<1>9. /\ C!Units(c) \in Seq(1 .. given) /\ Len(C!Units(c)) = c.n
      /\ \A i \in 1 .. c.n : C!Units(c)[i] = c.first - 1 + i
  <2>1. c.n \in Nat /\ c.first \in Nat
    BY <1>1, <1>5
  <2>2. ASSUME NEW i \in 1 .. c.n PROVE c.first + i - 1 \in 1 .. given /\ c.first + i - 1 = c.first - 1 + i
    <3>1. PICK x, n : x = c.first /\ n = c.n
      OBVIOUS
    <3>2. x \in 1 .. given /\ n \in Nat /\ i \in 1 .. n /\ x + n <= given + 1
      BY <3>1, <2>1, <1>5, <1>6
    <3>3. x + i - 1 \in 1 .. given /\ x + i - 1 = x - 1 + i
      BY <3>2, <1>g
    <3> QED BY <3>1, <3>3
  <2>3. [i \in 1 .. c.n |-> c.first + i - 1] \in [1 .. c.n -> 1 .. given]
    BY <2>2
  <2>4. C!Units(c) = [i \in 1 .. c.n |-> c.first + i - 1]
    BY DEF C!Units
  <2>5. PICK f, n : f = [i \in 1 .. c.n |-> c.first + i - 1] /\ n = c.n
    OBVIOUS
  <2>6. f \in [1 .. n -> 1 .. given] /\ n \in Nat
    BY <2>1, <2>3, <2>5
  <2>7. f \in Seq(1 .. given) /\ Len(f) = n
    BY <2>6, SegmentIsSeq
  <2> QED BY <2>2, <2>4, <2>5, <2>7
<1> QED BY <1>1, <1>m, <1>n, <1>3, <1>4, <1>5, <1>6, <1>7, <1>8, <1>9 DEF T

\* What write and overflow start from: the units at hand, and no silence among them.
UnitsReady(c, units, m) ==
    /\ m \in Int /\ m >= 0 /\ units \in Seq(1 .. given) /\ \A i \in DOMAIN units : units[i] = m + i
    /\ Len(units) \in Nat /\ m + Len(units) = c.first + c.n - 1
    /\ \A u \in gaps : u \notin (IF C!Resumes(c) \/ pendingGap THEN m + 2 ELSE m + 1) .. m + Len(units)
    /\ carry \o C!Units(c) \in Seq(1 .. given) /\ Len(carry \o C!Units(c)) = Len(carry) + c.n
    /\ Len(carry) \in Nat
    /\ C!Made \in Int /\ C!Made >= 0 /\ C!Made + Len(carry) = c.first - 1
    /\ \A i \in 1 .. Len(carry) + c.n : (carry \o C!Units(c))[i] = C!Made + i

\* What a chunk makes with the carry, or alone after a gap.
LEMMA UnitsAtHand ==
  ASSUME CaptureInv, ~over, pipe # <<>>, NEW c, c = Head(pipe),
         NEW units, units = (IF C!Resumes(c) THEN C!Units(c) ELSE carry \o C!Units(c)),
         NEW m, m = (IF C!Resumes(c) THEN C!Front - 1 ELSE C!Made)
  PROVE  UnitsReady(c, units, m)
<1> USE DEF UnitsReady
<1>0. C!TypeOK /\ C!CarryInOrder
  BY DEF CaptureInv
<1>1. PICK more : more = Tail(pipe)
  OBVIOUS
<1>2. /\ c.first \in 1 .. given /\ c.n \in 1 .. MaxChunk /\ c.first + c.n <= given + 1 /\ given \in Nat
      /\ C!Front = c.first
      /\ C!Units(c) \in Seq(1 .. given) /\ Len(C!Units(c)) = c.n
      /\ \A i \in 1 .. c.n : C!Units(c)[i] = c.first - 1 + i
      /\ \A u \in gaps : u \notin c.first + 1 .. c.first + c.n - 1
      /\ c.first \in gaps => anchored /\ ~late
  <2>1. ChunkAhead(c, more)
    BY <1>1, NextChunk
  <2> QED BY <2>1 DEF ChunkAhead
<1>3. PICK x, n, v : x = c.first /\ n = c.n /\ v = C!Units(c)
  OBVIOUS
<1>4. /\ x \in Nat /\ n \in Nat /\ x > 0 /\ n > 0 /\ given \in Nat
      /\ v \in Seq(1 .. given) /\ Len(v) = n /\ DOMAIN v = 1 .. n
      /\ \A i \in 1 .. n : v[i] = x - 1 + i
  <2>1. x \in 1 .. given /\ n \in 1 .. MaxChunk /\ given \in Nat
    BY <1>2, <1>3
  <2>2. v \in Seq(1 .. given) /\ Len(v) = n /\ \A i \in 1 .. n : v[i] = x - 1 + i
    BY <1>2, <1>3
  <2> QED BY <2>1, <2>2, FrameSizes, LenProperties
<1>5. carry \in Seq(1 .. given) /\ Len(carry) \in Nat /\ DOMAIN carry = 1 .. Len(carry)
  BY <1>0 DEF C!TypeOK
<1>6. /\ C!Made = x - Len(carry) - 1 /\ C!Made >= 0 /\ C!Front = x
      /\ \A i \in 1 .. Len(carry) : carry[i] = C!Made + i
      /\ late => anchored
      /\ ~late => \A u \in gaps : u \notin (IF pendingGap THEN C!Made + 2 ELSE C!Made + 1) .. x - 1
  <2>1. C!Front = x
    BY <1>2, <1>3
  <2> QED BY <2>1, <1>0, <1>5 DEF C!CarryInOrder, C!Made
<1>7. C!Made \in Int
  BY <1>4, <1>5, <1>6
<1>8. PICK made, all : made = C!Made /\ all = carry \o v
  OBVIOUS
<1>9. /\ all \in Seq(1 .. given) /\ Len(all) = Len(carry) + n /\ DOMAIN all = 1 .. Len(carry) + n
      /\ \A i \in 1 .. Len(carry) + n : all[i] = IF i <= Len(carry) THEN carry[i] ELSE v[i - Len(carry)]
  <2>1. /\ all \in Seq(1 .. given) /\ Len(all) = Len(carry) + Len(v)
        /\ \A i \in 1 .. Len(carry) + Len(v) : all[i] = IF i <= Len(carry) THEN carry[i] ELSE v[i - Len(carry)]
    BY <1>4, <1>5, <1>8, ConcatProperties
  <2>2. DOMAIN all = 1 .. Len(all)
    BY <2>1
  <2> QED BY <2>1, <2>2, <1>4
<1>10. \A i \in 1 .. Len(carry) + n : all[i] = made + i
  <2> SUFFICES ASSUME NEW i \in 1 .. Len(carry) + n PROVE all[i] = made + i
    OBVIOUS
  <2>1. CASE i <= Len(carry)
    <3>1. i \in 1 .. Len(carry)
      BY <2>1, <1>4, <1>5
    <3> QED BY <3>1, <2>1, <1>6, <1>8, <1>9
  <2>2. CASE ~(i <= Len(carry))
    <3>1. i - Len(carry) \in 1 .. n
      BY <2>2, <1>4, <1>5
    <3>2. all[i] = x - 1 + (i - Len(carry))
      BY <3>1, <2>2, <1>4, <1>9
    <3>3. made = x - Len(carry) - 1
      BY <1>6, <1>8
    <3> QED BY <3>1, <3>2, <3>3, <1>4, <1>5
  <2> QED BY <2>1, <2>2
<1>k. PICK l : l = Len(carry)
  OBVIOUS
<1>l. l \in Nat /\ made = x - l - 1 /\ made \in Int /\ made >= 0 /\ x \in Nat /\ n \in Nat /\ x > 0 /\ n > 0
  BY <1>k, <1>4, <1>5, <1>6, <1>8
<1>13. /\ carry \o C!Units(c) \in Seq(1 .. given) /\ Len(carry \o C!Units(c)) = Len(carry) + c.n
       /\ Len(carry) \in Nat
       /\ C!Made \in Int /\ C!Made >= 0 /\ C!Made + Len(carry) = c.first - 1
       /\ \A i \in 1 .. Len(carry) + c.n : (carry \o C!Units(c))[i] = C!Made + i
  <2>1. made + l = x - 1
    BY <1>l
  <2> QED BY <2>1, <1>k, <1>3, <1>5, <1>8, <1>9, <1>10, <1>l
<1> SUFFICES /\ m \in Int /\ m >= 0 /\ units \in Seq(1 .. given) /\ \A i \in DOMAIN units : units[i] = m + i
             /\ Len(units) \in Nat /\ m + Len(units) = x + n - 1
             /\ \A u \in gaps : u \notin (IF C!Resumes(c) \/ pendingGap THEN m + 2 ELSE m + 1) .. m + Len(units)
  BY <1>3, <1>13
<1>11. CASE C!Resumes(c)
  <2>1. units = v /\ m = x - 1
    BY <1>11, <1>3, <1>6
  <2>2. Len(units) = n /\ m \in Int /\ m >= 0 /\ m + n = x + n - 1 /\ m + 2 = x + 1
    BY <2>1, <1>4, <1>l
  <2>3. \A u \in gaps : u \notin x + 1 .. x + n - 1
    BY <1>2, <1>3
  <2>4. \A u \in gaps : u \notin (IF C!Resumes(c) \/ pendingGap THEN m + 2 ELSE m + 1) .. m + Len(units)
    BY <2>2, <2>3, <1>11
  <2>5. units \in Seq(1 .. given) /\ \A i \in DOMAIN units : units[i] = m + i
    BY <2>1, <1>4
  <2> QED BY <2>2, <2>4, <2>5, <1>l
<1>12. CASE ~C!Resumes(c)
  <2>1. units = all /\ m = made
    BY <1>12, <1>3, <1>8
  <2>2. Len(units) = l + n /\ m \in Int /\ m >= 0 /\ m + (l + n) = x + n - 1
    <3>1. Len(units) = l + n
      BY <2>1, <1>k, <1>9
    <3>2. made + (l + n) = x + n - 1
      BY <1>l
    <3> QED BY <3>1, <3>2, <2>1, <1>l
  <2>3. ~late /\ x \notin gaps
    BY <1>12, <1>2, <1>3, <1>6 DEF C!Resumes
  <2>4. \A u \in gaps : u \notin (IF C!Resumes(c) \/ pendingGap THEN m + 2 ELSE m + 1) .. m + Len(units)
    <3> SUFFICES ASSUME NEW u \in gaps
                 PROVE  u \notin (IF pendingGap THEN m + 2 ELSE m + 1) .. x + n - 1
      BY <2>2, <1>12
    <3>1. u \notin (IF pendingGap THEN m + 2 ELSE m + 1) .. x - 1
      BY <2>1, <2>3, <1>6, <1>8
    <3>2. u # x /\ u \notin x + 1 .. x + n - 1
      BY <2>3, <1>2, <1>3
    <3> QED BY <3>1, <3>2, <2>2, <1>l
  <2>5. units \in Seq(1 .. given) /\ \A i \in DOMAIN units : units[i] = m + i
    BY <2>1, <1>9, <1>10
  <2> QED BY <2>2, <2>4, <2>5, <1>l
<1> QED BY <1>11, <1>12

\* A chunk is taken off the pipe.
LEMMA PipeRead ==
  ASSUME CaptureInv, ~over, pipe # <<>>, pipe' = Tail(pipe), given' = given, gaps' = gaps, NEW c, c = Head(pipe)
  PROVE  /\ pipe' \in Seq([first : 1 .. given', n : 1 .. MaxChunk])
         /\ C!PipeInOrder' /\ C!Front' = c.first + c.n
         /\ pipe' # <<>> => pipe'[1].first \notin gaps
<1>1. PICK more : more = Tail(pipe)
  OBVIOUS
<1>2. /\ (IF more = <<>> THEN given + 1 ELSE more[1].first) = c.first + c.n
      /\ more \in Seq([first : 1 .. given, n : 1 .. MaxChunk])
      /\ more # <<>> => more[1].first \notin gaps
      /\ \A i \in DOMAIN more :
              /\ more[i].first + more[i].n = IF i = Len(more) THEN given + 1 ELSE more[i + 1].first
              /\ \A u \in gaps : u \notin more[i].first + 1 .. more[i].first + more[i].n - 1
              /\ more[i].first \notin gaps
  <2>1. ChunkAhead(c, more)
    BY <1>1, NextChunk
  <2> QED BY <2>1 DEF ChunkAhead
<1>3. pipe' = more
  BY <1>1
<1>4. C!PipeInOrder'
  BY <1>2, <1>3 DEF C!PipeInOrder
<1>5. C!Front' = c.first + c.n
  BY <1>2, <1>3 DEF C!Front
<1> QED BY <1>2, <1>3, <1>4, <1>5

\* A chunk that completes no frame.
LEMMA HoldKeeps ==
  ASSUME CaptureInv, pump = "reading", pipe # <<>>, NEW c, c = Head(pipe), C!Hold(c), pipe' = Tail(pipe),
         UNCHANGED <<helper, exit, term, given, gaps, released, stopped>>
  PROVE  CaptureInv'
<1>0. /\ C!TypeOK /\ C!SessionIsContiguous /\ C!EndsAsItWas
      /\ C!PipeInOrder /\ C!CarryInOrder /\ C!FramesInOrder /\ C!HeldInOrder /\ C!NothingBetween
      /\ C!EpochsCounted /\ C!EndIsKnown
  BY DEF CaptureInv
<1>a. /\ UNCHANGED <<helper, exit, term, given, gaps, released, stopped, frames, anchored, epoch, pendingGap, over, error,
                    pump, watch, it, taken, heard, faulty>>
      /\ ~over /\ C!Whole(carry \o C!Units(c)) = 0 /\ carry' = carry \o C!Units(c) /\ late' = C!Resumes(c)
  BY DEF C!Hold, C!Resumes, C!consumer
<1>b. /\ pipe' \in Seq([first : 1 .. given', n : 1 .. MaxChunk]) /\ C!PipeInOrder' /\ C!Front' = c.first + c.n
      /\ (pipe' # <<>> => pipe'[1].first \notin gaps)
  BY <1>a, PipeRead
<1>c. PICK units, m : /\ units = (IF C!Resumes(c) THEN C!Units(c) ELSE carry \o C!Units(c))
                      /\ m = (IF C!Resumes(c) THEN C!Front - 1 ELSE C!Made)
  OBVIOUS
<1>d. /\ \A u \in gaps : u \notin (IF C!Resumes(c) \/ pendingGap THEN m + 2 ELSE m + 1) .. m + Len(units)
      /\ m + Len(units) = c.first + c.n - 1
      /\ carry \o C!Units(c) \in Seq(1 .. given) /\ Len(carry \o C!Units(c)) = Len(carry) + c.n
      /\ Len(carry) \in Nat
      /\ C!Made \in Int /\ C!Made >= 0 /\ C!Made + Len(carry) = c.first - 1
      /\ \A i \in 1 .. Len(carry) + c.n : (carry \o C!Units(c))[i] = C!Made + i
  <2>1. UnitsReady(c, units, m)
    BY <1>a, <1>c, UnitsAtHand
  <2> QED BY <2>1 DEF UnitsReady
<1>e. /\ carry' \in Seq(1 .. given) /\ Len(carry') = Len(carry) + c.n /\ Len(carry') \in Nat
      /\ DOMAIN carry' = 1 .. Len(carry') /\ \A i \in 1 .. Len(carry') : carry'[i] = C!Made + i
  <2>1. carry' \in Seq(1 .. given) /\ Len(carry') = Len(carry) + c.n /\ \A i \in 1 .. Len(carry) + c.n : carry'[i] = C!Made + i
    BY <1>a, <1>d
  <2>2. Len(carry') \in Nat /\ DOMAIN carry' = 1 .. Len(carry')
    BY <2>1
  <2> QED BY <2>1, <2>2
<1>f. Len(carry') < FrameUnits
  <2>1. PICK l : l = Len(carry')
    OBVIOUS
  <2>2. l \in Nat /\ l \div FrameUnits = 0
    BY <2>1, <1>a, <1>e DEF C!Whole
  <2>3. l < (l \div FrameUnits) * FrameUnits + FrameUnits
    BY <2>2, WholeFrames
  <2> QED BY <2>1, <2>2, <2>3, FrameSizes
<1>g. C!Made' = C!Made /\ c.first \in Int /\ c.n \in Int
  <2>1. PICK more : more = Tail(pipe)
    OBVIOUS
  <2>2. c.first \in 1 .. given /\ c.n \in 1 .. MaxChunk /\ given \in Nat
    <3>1. ChunkAhead(c, more)
      BY <2>1, <1>a, NextChunk
    <3> QED BY <3>1 DEF ChunkAhead
  <2>3. PICK x, n, l, k, made : x = c.first /\ n = c.n /\ l = Len(carry) /\ k = Len(carry') /\ made = C!Made
    OBVIOUS
  <2>4. x \in Int /\ n \in Int /\ l \in Nat /\ k = l + n /\ made \in Int /\ made + l = x - 1
    BY <2>2, <2>3, <1>d, <1>e
  <2>5. C!Made' = x + n - k - 1
    <3>1. C!Front' = x + n
      BY <2>3, <1>b
    <3>2. Len(carry') = k
      BY <2>3
    <3>3. C!Made' = C!Front' - Len(carry') - 1
      BY DEF C!Made
    <3> QED BY <3>1, <3>2, <3>3, <2>4
  <2>6. x + n - k - 1 = made
    BY <2>4
  <2> QED BY <2>3, <2>4, <2>5, <2>6
<1>1. C!TypeOK'
  <2>1. late' \in BOOLEAN
    BY <1>a, <1>0 DEF C!Resumes
  <2>2. {anchored', late', pendingGap', over', error', released', stopped', faulty'} \subseteq BOOLEAN
    BY <2>1, <1>0, <1>a DEF C!TypeOK
  <2>3. C!Frame' = C!Frame
    BY <1>a DEF C!Frame
  <2>4. carry' \in Seq(1 .. given') /\ Len(carry') < FrameUnits /\ pipe' \in Seq([first : 1 .. given', n : 1 .. MaxChunk])
    BY <1>a, <1>b, <1>e, <1>f
  <2> QED BY <2>2, <2>3, <2>4, <1>0, <1>a DEF C!TypeOK
<1>2. C!SessionIsContiguous'
  BY <1>0, <1>a DEF C!SessionIsContiguous
<1>3. C!EndsAsItWas'
  BY <1>0, <1>a DEF C!EndsAsItWas
<1>4. C!PipeInOrder'
  BY <1>b
<1>5. C!CarryInOrder'
  <2>1. late' => anchored
    BY <1>a DEF C!Resumes
  <2>2. ASSUME ~late' PROVE \A u \in gaps : u \notin (IF pendingGap THEN C!Made + 2 ELSE C!Made + 1) .. C!Front' - 1
    <3>1. m = C!Made /\ ~C!Resumes(c)
      BY <2>2, <1>a, <1>c
    <3>2. C!Front' - 1 = m + Len(units)
      <4>1. C!Front' = c.first + c.n
        BY <1>b
      <4>2. m + Len(units) = c.first + c.n - 1
        BY <1>d
      <4> QED BY <4>1, <4>2, <1>g
    <3> QED BY <3>1, <3>2, <1>d
  <2> QED BY <2>1, <2>2, <1>a, <1>d, <1>e, <1>g DEF C!CarryInOrder
<1>6. C!FramesInOrder'
  BY <1>0, <1>a DEF C!FramesInOrder
<1>7. C!HeldInOrder'
  BY <1>0, <1>a DEF C!HeldInOrder, C!InHand
<1>8. C!NothingBetween'
  <2>1. C!Tailing' = C!Tailing
    BY <1>a DEF C!Tailing, C!InHand
  <2> QED BY <2>1, <1>0, <1>a, <1>g DEF C!NothingBetween, C!InHand, C!Listening
<1>9. C!EpochsCounted'
  <2>1. late' => late \/ (pipe # <<>> /\ pipe[1].first \in gaps)
    <3>1. late' => late \/ c.first \in gaps
      BY <1>a DEF C!Resumes
    <3> QED BY <3>1
  <2>2. C!Cardinality(gaps) <= MaxGaps
    BY <1>0 DEF C!EpochsCounted
  <2>3. epoch <= C!Cardinality(gaps) + 1 /\ (~stopped => epoch <= C!Cardinality(gaps))
    BY <1>0 DEF C!EpochsCounted
  <2>4. late' => epoch < C!Cardinality(gaps)
    BY <2>1, <1>0, <1>a DEF C!EpochsCounted
  <2>5. ~(pipe' # <<>> /\ pipe'[1].first \in gaps)
    BY <1>b
  <2> QED BY <2>2, <2>3, <2>4, <2>5, <1>a DEF C!EpochsCounted
<1>10. C!EndIsKnown'
  BY <1>0, <1>a DEF C!EndIsKnown, C!Listening
<1> QED BY <1>1, <1>2, <1>3, <1>4, <1>5, <1>6, <1>7, <1>8, <1>9, <1>10 DEF CaptureInv

\* After a stop or an abort the next chunk ends the pump.
LEMMA TurnedAwayKeeps ==
  ASSUME CaptureInv, pump = "reading", pipe # <<>>, C!TurnedAway, pipe' = <<>>,
         UNCHANGED <<helper, exit, term, given, gaps, released, stopped>>
  PROVE  CaptureInv'
<1>0. /\ C!TypeOK /\ C!SessionIsContiguous /\ C!EndsAsItWas
      /\ C!PipeInOrder /\ C!CarryInOrder /\ C!FramesInOrder /\ C!HeldInOrder /\ C!NothingBetween
      /\ C!EpochsCounted /\ C!EndIsKnown
  BY DEF CaptureInv
<1>a. /\ UNCHANGED <<helper, exit, term, given, gaps, released, stopped, frames, carry, anchored, late, epoch, pendingGap, over, error,
                    watch, it, taken, heard, faulty>>
      /\ over /\ pump' = "over" /\ pipe' = <<>>
  BY DEF C!TurnedAway, C!buffer, C!consumer
<1>1. C!TypeOK'
  BY <1>0, <1>a DEF C!TypeOK, C!Frame
<1>2. C!SessionIsContiguous'
  BY <1>0, <1>a DEF C!SessionIsContiguous
<1>3. C!EndsAsItWas'
  BY <1>0, <1>a DEF C!EndsAsItWas
<1>4. C!PipeInOrder'
  BY <1>0, <1>a DEF C!PipeInOrder
<1>5. C!CarryInOrder'
  BY <1>0, <1>a DEF C!CarryInOrder
<1>6. C!FramesInOrder'
  BY <1>0, <1>a DEF C!FramesInOrder
<1>7. C!HeldInOrder'
  BY <1>0, <1>a DEF C!HeldInOrder, C!InHand
<1>8. C!NothingBetween'
  BY <1>0, <1>a DEF C!NothingBetween, C!InHand
<1>9. C!EpochsCounted'
  BY <1>0, <1>a DEF C!EpochsCounted
<1>10. C!EndIsKnown'
  BY <1>0, <1>a DEF C!EndIsKnown
<1> QED BY <1>1, <1>2, <1>3, <1>4, <1>5, <1>6, <1>7, <1>8, <1>9, <1>10 DEF CaptureInv

\* The recorder is too far behind: the stream ends.
LEMMA OverflowKeeps ==
  ASSUME CaptureInv, pump = "reading", pipe # <<>>, NEW c, c = Head(pipe), C!Overflow(c), pipe' = <<>>,
         UNCHANGED <<helper, exit, term, given, gaps, released, stopped>>
  PROVE  CaptureInv'
<1>0. /\ C!TypeOK /\ C!SessionIsContiguous /\ C!EndsAsItWas
      /\ C!PipeInOrder /\ C!CarryInOrder /\ C!FramesInOrder /\ C!HeldInOrder /\ C!NothingBetween
      /\ C!EpochsCounted /\ C!EndIsKnown
  BY DEF CaptureInv
<1>a. /\ UNCHANGED <<helper, exit, term, given, gaps, released, stopped, anchored, late, pendingGap, watch, it, taken, heard>>
      /\ ~over /\ it # "waiting" /\ over' /\ over' = TRUE /\ error' = TRUE /\ frames' = <<>> /\ carry' = <<>> /\ pump' = "over"
      /\ pipe' = <<>> /\ epoch' = (IF C!Resumes(c) THEN epoch + 1 ELSE epoch) /\ faulty' = (faulty \/ ~stopped)
  BY DEF C!Overflow, C!consumer
<1>b. ~stopped
  BY <1>0, <1>a DEF C!EndIsKnown
<1>c. Len(<<>>) = 0 /\ DOMAIN (<<>>) = 1 .. 0
  OBVIOUS
<1>d. epoch \in Nat
  <2>1. epoch \in 0 .. MaxGaps + 1
    BY <1>0 DEF C!TypeOK
  <2> QED BY <2>1, FrameSizes
<1>e. C!Cardinality(gaps) \in Nat /\ C!Cardinality(gaps) <= MaxGaps /\ epoch' \in Nat /\ epoch <= epoch' /\ epoch' <= C!Cardinality(gaps)
  <2>1. C!Cardinality(gaps) \in Nat
    BY <1>0, GapsCounted
  <2>2. C!Resumes(c) => late \/ pipe[1].first \in gaps
    BY DEF C!Resumes
  <2>3. /\ C!Cardinality(gaps) <= MaxGaps /\ epoch <= C!Cardinality(gaps)
        /\ (C!Resumes(c) => epoch < C!Cardinality(gaps))
    BY <2>2, <1>0, <1>a, <1>b DEF C!EpochsCounted
  <2> QED BY <2>1, <2>3, <1>a, <1>d, FrameSizes
<1>1. C!TypeOK'
  <2>1. frames' \in Seq(C!Frame') /\ carry' \in Seq(1 .. given) /\ pipe' \in Seq([first : 1 .. given', n : 1 .. MaxChunk])
    BY <1>a
  <2>2. Len(frames') <= MaxBuffered /\ Len(carry') < FrameUnits
    BY <1>a, <1>c, FrameSizes
  <2>3. epoch' \in 0 .. MaxGaps + 1
    BY <1>e, FrameSizes
  <2>4. {anchored', late', pendingGap', over', error', released', stopped', faulty'} \subseteq BOOLEAN
    BY <1>0, <1>a DEF C!TypeOK
  <2> QED BY <2>1, <2>2, <2>3, <2>4, <1>0, <1>a DEF C!TypeOK, C!Frame
<1>2. C!SessionIsContiguous'
  BY <1>0, <1>a DEF C!SessionIsContiguous
<1>3. C!EndsAsItWas'
  <2>1. (faulty => faulty') /\ it' = it /\ stopped' = stopped
    BY <1>a
  <2> QED BY <2>1, <1>0 DEF C!EndsAsItWas
<1>4. C!PipeInOrder'
  BY <1>a DEF C!PipeInOrder
<1>5. C!CarryInOrder'
  BY <1>a DEF C!CarryInOrder
<1>6. C!FramesInOrder'
  BY <1>a, <1>c DEF C!FramesInOrder
<1>7. C!HeldInOrder'
  <2>1. C!InHand => taken.epoch <= epoch'
    <3>1. C!InHand => taken.epoch \in Nat /\ taken.epoch <= epoch
      BY <1>0, HandIsFrame, FrameUnitsAre DEF C!HeldInOrder
    <3> QED BY <3>1, <1>d, <1>e
  <2> QED BY <2>1, <1>0, <1>a DEF C!HeldInOrder, C!InHand
<1>8. C!NothingBetween'
  BY <1>a DEF C!NothingBetween
<1>9. C!EpochsCounted'
  BY <1>a, <1>e DEF C!EpochsCounted
<1>10. C!EndIsKnown'
  BY <1>0, <1>a, <1>b DEF C!EndIsKnown
<1> QED BY <1>1, <1>2, <1>3, <1>4, <1>5, <1>6, <1>7, <1>8, <1>9, <1>10 DEF CaptureInv

\* Two runs of frames, the second one after the first.
Joinable(S, base, made, silent, e) ==
    /\ base \in Seq(S) /\ made \in Seq(S)
    /\ \A i \in 1 .. Len(base) : base[i].epoch = e /\ C!Contiguous(silent, base[i].units)
    /\ \A i \in 1 .. Len(made) : made[i].epoch = e /\ C!Contiguous(silent, made[i].units)
    /\ \A i \in 1 .. Len(base) - 1 : C!Follows(silent, base[i + 1], base[i].units)
    /\ \A i \in 1 .. Len(made) - 1 : C!Follows(silent, made[i + 1], made[i].units)
    /\ base # <<>> /\ made # <<>> => C!Follows(silent, made[1], base[Len(base)].units)

Joined(S, base, made, all, silent, e) ==
    /\ all \in Seq(S) /\ Len(all) \in Nat /\ Len(all) = Len(base) + Len(made)
    /\ \A i \in 1 .. Len(all) : all[i].epoch = e /\ C!Contiguous(silent, all[i].units)
    /\ \A i \in 1 .. Len(all) - 1 : C!Follows(silent, all[i + 1], all[i].units)
    /\ base = <<>> => all = made
    /\ base # <<>> => all # <<>> /\ all[1] = base[1]
    /\ made # <<>> => all # <<>> /\ all[Len(all)] = made[Len(made)]

\* Frames that follow what is queued keep the queue in order.
LEMMA JoinedRuns ==
  ASSUME NEW S, NEW base, NEW made, NEW all, NEW silent, NEW e,
         Joinable(S, base, made, silent, e), all = base \o made
  PROVE  Joined(S, base, made, all, silent, e)
<1> USE DEF Joined
<1>0. /\ base \in Seq(S) /\ made \in Seq(S)
      /\ \A i \in 1 .. Len(base) : base[i].epoch = e /\ C!Contiguous(silent, base[i].units)
      /\ \A i \in 1 .. Len(made) : made[i].epoch = e /\ C!Contiguous(silent, made[i].units)
      /\ \A i \in 1 .. Len(base) - 1 : C!Follows(silent, base[i + 1], base[i].units)
      /\ \A i \in 1 .. Len(made) - 1 : C!Follows(silent, made[i + 1], made[i].units)
      /\ base # <<>> /\ made # <<>> => C!Follows(silent, made[1], base[Len(base)].units)
  BY DEF Joinable
<1>1. Len(base) \in Nat /\ Len(made) \in Nat
  BY <1>0
<1>2. /\ all \in Seq(S) /\ Len(all) = Len(base) + Len(made)
      /\ \A i \in 1 .. Len(base) + Len(made) : all[i] = IF i <= Len(base) THEN base[i] ELSE made[i - Len(base)]
  BY <1>0
<1>3. PICK d, k : d = Len(base) /\ k = Len(made)
  OBVIOUS
<1>4. d \in Nat /\ k \in Nat /\ Len(all) = d + k /\ Len(all) \in Nat
  BY <1>1, <1>2, <1>3
<1>5. \A i \in 1 .. d + k : all[i] = IF i <= d THEN base[i] ELSE made[i - d]
  BY <1>2, <1>3
<1>6. ASSUME NEW i \in 1 .. d + k PROVE all[i].epoch = e /\ C!Contiguous(silent, all[i].units)
  <2>1. CASE i <= d
    <3>1. i \in 1 .. d
      BY <2>1, <1>4
    <3> QED BY <3>1, <2>1, <1>5, <1>3, <1>0
  <2>2. CASE ~(i <= d)
    <3>1. i - d \in 1 .. k
      BY <2>2, <1>4
    <3> QED BY <3>1, <2>2, <1>5, <1>3, <1>0
  <2> QED BY <2>1, <2>2
<1>7. base # <<>> => d > 0
  BY <1>0, <1>3, <1>4
<1>8. made # <<>> => k > 0
  BY <1>0, <1>3, <1>4
<1>e. (d > 0 => base # <<>>) /\ (k > 0 => made # <<>>)
  BY <1>3
<1>9. ASSUME NEW i \in 1 .. d + k - 1 PROVE C!Follows(silent, all[i + 1], all[i].units)
  <2>1. i \in 1 .. d + k /\ i + 1 \in 1 .. d + k
    BY <1>4
  <2>2. CASE i < d
    <3>1. i \in 1 .. d - 1 /\ i <= d /\ i + 1 <= d
      BY <2>2, <1>4
    <3> QED BY <3>1, <2>1, <1>5, <1>3, <1>0
  <2>3. CASE i = d
    <3>1. i <= d /\ ~(i + 1 <= d) /\ i + 1 - d = 1 /\ d > 0 /\ k > 0
      BY <2>3, <1>4
    <3>2. all[i + 1] = made[1]
      <4>1. all[i + 1] = made[i + 1 - d]
        BY <3>1, <2>1, <1>4, <1>5
      <4> QED BY <4>1, <3>1
    <3>3. all[i] = base[d]
      BY <3>1, <2>1, <2>3, <1>5
    <3> QED BY <3>1, <3>2, <3>3, <1>3, <1>0, <1>e
  <2>4. CASE i > d
    <3>1. ~(i <= d) /\ ~(i + 1 <= d) /\ i - d \in 1 .. k - 1 /\ i + 1 - d = i - d + 1
      BY <2>4, <1>4
    <3>2. all[i + 1] = made[i - d + 1]
      <4>1. all[i + 1] = made[i + 1 - d]
        BY <3>1, <2>1, <1>4, <1>5
      <4> QED BY <4>1, <3>1
    <3>3. all[i] = made[i - d]
      BY <3>1, <2>1, <1>5
    <3> QED BY <3>1, <3>2, <3>3, <1>3, <1>0
  <2> QED BY <2>2, <2>3, <2>4, <1>4
<1>10. base = <<>> => all = made
  BY <1>0
<1>11. base # <<>> => all # <<>> /\ all[1] = base[1]
  <2> SUFFICES ASSUME base # <<>> PROVE all # <<>> /\ all[1] = base[1]
    OBVIOUS
  <2>1. 1 \in 1 .. d + k /\ 1 <= d /\ d + k # 0
    BY <1>4, <1>7
  <2> QED BY <2>1, <1>4, <1>5
<1>12. made # <<>> => all # <<>> /\ all[Len(all)] = made[Len(made)]
  <2> SUFFICES ASSUME made # <<>> PROVE all # <<>> /\ all[d + k] = made[k]
    BY <1>3, <1>4
  <2>1. d + k \in 1 .. d + k /\ ~(d + k <= d) /\ d + k # 0 /\ d + k - d = k
    BY <1>4, <1>8
  <2>2. all[d + k] = made[d + k - d]
    BY <2>1, <1>4, <1>5
  <2> QED BY <2>1, <2>2, <1>4
<1> QED BY <1>2, <1>3, <1>4, <1>6, <1>9, <1>10, <1>11, <1>12

\* A chunk that completes frames, or that comes after a gap.
LEMMA WriteKeeps ==
  ASSUME CaptureInv, pump = "reading", pipe # <<>>, NEW c, c = Head(pipe), C!Write(c), pipe' = Tail(pipe),
         UNCHANGED <<helper, exit, term, given, gaps, released, stopped>>
  PROVE  CaptureInv'
<1>0. /\ C!TypeOK /\ C!SessionIsContiguous /\ C!EndsAsItWas
      /\ C!PipeInOrder /\ C!CarryInOrder /\ C!FramesInOrder /\ C!HeldInOrder /\ C!NothingBetween
      /\ C!EpochsCounted /\ C!EndIsKnown
  BY DEF CaptureInv
<1>c. PICK gap, units, m, e, flag, made, w, rest, base, all, handed :
        /\ gap = C!Resumes(c)
        /\ units = (IF C!Resumes(c) THEN C!Units(c) ELSE carry \o C!Units(c))
        /\ m = (IF C!Resumes(c) THEN C!Front - 1 ELSE C!Made)
        /\ e = (IF C!Resumes(c) THEN epoch + 1 ELSE epoch)
        /\ flag = (C!Resumes(c) \/ pendingGap)
        /\ made = C!FramesOf(units, e, flag) /\ w = C!Whole(units)
        /\ rest = SubSeq(units, w * FrameUnits + 1, Len(units))
        /\ base = (IF C!Resumes(c) THEN <<>> ELSE frames) /\ all = base \o made
        /\ handed = (it = "waiting" /\ all # <<>>)
  OBVIOUS
<1>a. /\ UNCHANGED <<helper, exit, term, given, gaps, released, stopped, over, error, pump, heard, faulty>>
      /\ ~over /\ C!Whole(carry \o C!Units(c)) > 0
      /\ frames' = (IF handed THEN Tail(all) ELSE all) /\ ~(Len(frames') > MaxBuffered)
      /\ carry' = rest /\ epoch' = e /\ late' = FALSE
      /\ anchored' = (made # <<>> \/ (anchored /\ ~gap))
      /\ pendingGap' = (flag /\ made = <<>>)
      /\ (handed => it' = "taken" /\ taken' = made[1]) /\ (~handed => it' = it /\ taken' = taken)
      /\ watch' = (IF made # <<>> THEN "armed" ELSE watch)
  <2>1. made = C!FramesOf(units, e, pendingGap \/ gap) /\ w = C!Whole(units)
    <3>1. flag = (pendingGap \/ gap)
      BY <1>c
    <3> QED BY <3>1, <1>c
  <2> QED BY <2>1, <1>c DEF C!Write, C!Push
<1>b. /\ pipe' \in Seq([first : 1 .. given', n : 1 .. MaxChunk]) /\ C!PipeInOrder' /\ C!Front' = c.first + c.n
      /\ (pipe' # <<>> => pipe'[1].first \notin gaps)
  BY <1>a, PipeRead
<1>r. UnitsReady(c, units, m)
  BY <1>a, <1>c, UnitsAtHand
<1>d. /\ m \in Int /\ m >= 0 /\ units \in Seq(1 .. given) /\ \A i \in DOMAIN units : units[i] = m + i
      /\ Len(units) \in Nat /\ m + Len(units) = c.first + c.n - 1
      /\ \A u \in gaps : u \notin (IF flag THEN m + 2 ELSE m + 1) .. m + Len(units)
  BY <1>r, <1>c DEF UnitsReady
<1>t. /\ given \in Nat /\ anchored \in BOOLEAN /\ pendingGap \in BOOLEAN /\ late \in BOOLEAN
      /\ epoch \in Nat /\ flag \in BOOLEAN /\ gap \in BOOLEAN
  <2>1. given \in Nat /\ anchored \in BOOLEAN /\ pendingGap \in BOOLEAN /\ late \in BOOLEAN /\ epoch \in Nat
    BY <1>0 DEF C!TypeOK
  <2>2. C!Resumes(c) \in BOOLEAN
    BY <2>1 DEF C!Resumes
  <2> QED BY <2>1, <2>2, <1>c
<1>e. Framed(given, m, units, e, flag, made, w, rest)
  BY <1>c, <1>d, <1>t DEF Framed
<1>f. /\ w \in Nat /\ w * FrameUnits \in Nat /\ w * FrameUnits <= Len(units)
      /\ Len(made) = w /\ DOMAIN made = 1 .. w /\ made \in Seq([units : [1 .. FrameUnits -> 1 .. given], epoch : {e}, gap : BOOLEAN])
      /\ \A i \in 1 .. w : made[i].epoch = e
      /\ rest \in Seq(1 .. given) /\ Len(rest) = Len(units) - w * FrameUnits /\ Len(rest) < FrameUnits
      /\ \A k \in 1 .. Len(rest) : rest[k] = m + w * FrameUnits + k
  <2>1. WellFramed(given, m, units, e, flag, made, w, rest)
    BY <1>e, Framing
  <2> QED BY <2>1 DEF WellFramed
<1>g. /\ \A i \in 1 .. w : C!Contiguous(gaps, made[i].units) /\ C!LastOf(made[i].units) = m + i * FrameUnits
      /\ \A i \in 1 .. w - 1 : C!Follows(gaps, made[i + 1], made[i].units)
      /\ w > 0 => /\ made[1].gap = flag
                  /\ \A s : (s # <<>> /\ ~flag => C!LastOf(s) = m) => C!Follows(gaps, made[1], s)
  <2>1. RunOfFrames(made, w, m, flag, gaps)
    BY <1>e, <1>d, FramesOfARun
  <2> QED BY <2>1 DEF RunOfFrames
<1>s. ~stopped /\ pump = "reading" /\ watch # "fired"
  BY <1>0, <1>a DEF C!EndIsKnown
<1>h. /\ C!Cardinality(gaps) \in Nat /\ C!Cardinality(gaps) <= MaxGaps
      /\ e \in Nat /\ epoch <= e /\ e <= C!Cardinality(gaps) /\ e \in 0 .. MaxGaps + 1
  <2>1. C!Cardinality(gaps) \in Nat
    BY <1>0, GapsCounted
  <2>2. C!Resumes(c) => late \/ pipe[1].first \in gaps
    BY DEF C!Resumes
  <2>3. /\ C!Cardinality(gaps) <= MaxGaps /\ epoch <= C!Cardinality(gaps)
        /\ (C!Resumes(c) => epoch < C!Cardinality(gaps))
    BY <2>2, <1>0, <1>a, <1>s DEF C!EpochsCounted
  <2>4. e = IF C!Resumes(c) THEN epoch + 1 ELSE epoch
    BY <1>c
  <2> QED BY <2>1, <2>3, <2>4, <1>t, FrameSizes
<1>i. made \in Seq(C!Frame) /\ (made = <<>> => w = 0) /\ (made # <<>> => w > 0) /\ (w > 0 => 1 \in 1 .. w /\ w \in 1 .. w)
  <2>1. [units : [1 .. FrameUnits -> 1 .. given], epoch : {e}, gap : BOOLEAN] \subseteq C!Frame
    BY <1>h DEF C!Frame
  <2>2. made \in Seq(C!Frame)
    BY <2>1, <1>f, SeqMonotonic
  <2>3. made # <<>> => Len(made) \in Nat \ {0}
    BY <2>2
  <2>4. made = <<>> => Len(made) = 0
    OBVIOUS
  <2> QED BY <2>2, <2>3, <2>4, <1>f
<1>j. ~gap => w > 0
  BY <1>a, <1>c
<1>u. c.first \in Nat /\ c.n \in Nat
  <2>1. PICK more : more = Tail(pipe)
    OBVIOUS
  <2>2. c.first \in 1 .. given /\ c.n \in 1 .. MaxChunk
    <3>1. ChunkAhead(c, more)
      BY <2>1, <1>a, NextChunk
    <3> QED BY <3>1 DEF ChunkAhead
  <2> QED BY <2>2, <1>t, FrameSizes
<1>k. C!Made' = m + w * FrameUnits
  <2>1. PICK x, n, l, q, r : x = c.first /\ n = c.n /\ l = Len(units) /\ q = w * FrameUnits /\ r = Len(rest)
    OBVIOUS
  <2>2. x \in Nat /\ n \in Nat
    BY <2>1, <1>u
  <2>3. l \in Nat /\ q \in Nat /\ m \in Int /\ m + l = x + n - 1 /\ r = l - q
    BY <2>1, <1>d, <1>f
  <2>4. C!Made' = x + n - r - 1
    <3>1. C!Front' = x + n
      BY <2>1, <1>b
    <3>2. Len(carry') = r
      BY <2>1, <1>a
    <3>3. C!Made' = C!Front' - Len(carry') - 1
      BY DEF C!Made
    <3> QED BY <3>1, <3>2, <3>3, <2>2, <2>3
  <2>5. x + n - r - 1 = m + q
    BY <2>2, <2>3
  <2> QED BY <2>1, <2>4, <2>5
<1>l. /\ base \in Seq(C!Frame) /\ (gap => base = <<>>) /\ (~gap => base = frames /\ e = epoch /\ m = C!Made /\ flag = pendingGap)
      /\ \A i \in 1 .. Len(base) : base[i].epoch = e /\ C!Contiguous(gaps, base[i].units)
      /\ \A i \in 1 .. Len(base) - 1 : C!Follows(gaps, base[i + 1], base[i].units)
  <2>1. CASE gap
    <3>1. base = <<>> /\ Len(<<>>) = 0
      BY <2>1, <1>c
    <3> QED BY <3>1, <2>1, EmptySeq
  <2>2. CASE ~gap
    <3>1. base = frames /\ e = epoch /\ m = C!Made /\ flag = pendingGap
      <4>1. ~C!Resumes(c)
        BY <2>2, <1>c
      <4>2. base = frames /\ e = epoch /\ m = C!Made
        BY <4>1, <1>c
      <4>3. flag = pendingGap
        BY <4>1, <1>c, <1>t
      <4> QED BY <4>2, <4>3
    <3>2. frames \in Seq(C!Frame) /\ DOMAIN frames = 1 .. Len(frames)
      BY <1>0, QueuedFrames
    <3>3. /\ \A i \in 1 .. Len(frames) : frames[i].epoch = epoch /\ C!Contiguous(gaps, frames[i].units)
          /\ \A i \in 1 .. Len(frames) - 1 : C!Follows(gaps, frames[i + 1], frames[i].units)
      BY <3>2, <1>0 DEF C!FramesInOrder
    <3> QED BY <3>1, <3>2, <3>3, <2>2
  <2> QED BY <2>1, <2>2
<1>m. base # <<>> /\ made # <<>> => C!Follows(gaps, made[1], base[Len(base)].units)
  <2> SUFFICES ASSUME base # <<>>, made # <<>> PROVE C!Follows(gaps, made[1], base[Len(base)].units)
    OBVIOUS
  <2>1. ~gap /\ base = frames /\ m = C!Made /\ flag = pendingGap /\ w > 0
    BY <1>l, <1>i
  <2>2. C!Tailing = frames[Len(frames)].units
    BY <2>1 DEF C!Tailing
  <2>3. ~pendingGap /\ C!Tailing # <<>> => C!LastOf(C!Tailing) = C!Made
    BY <2>1, <1>0, <1>a DEF C!NothingBetween
  <2> QED BY <2>1, <2>2, <2>3, <1>g
<1>n. /\ all \in Seq(C!Frame) /\ Len(all) \in Nat
      /\ \A i \in 1 .. Len(all) : all[i].epoch = e /\ C!Contiguous(gaps, all[i].units)
      /\ \A i \in 1 .. Len(all) - 1 : C!Follows(gaps, all[i + 1], all[i].units)
      /\ base = <<>> => all = made
      /\ base # <<>> => all # <<>> /\ all[1] = base[1]
      /\ made # <<>> => all # <<>> /\ all[Len(all)] = made[w]
  <2>4. Len(made) = w
    BY <1>f
  <2>1. Joinable(C!Frame, base, made, gaps, e)
    BY <2>4, <1>f, <1>g, <1>i, <1>l, <1>m DEF Joinable
  <2>2. Joined(C!Frame, base, made, all, gaps, e)
    BY <2>1, <1>c, JoinedRuns
  <2>5. /\ all \in Seq(C!Frame) /\ Len(all) \in Nat
        /\ \A i \in 1 .. Len(all) : all[i].epoch = e /\ C!Contiguous(gaps, all[i].units)
        /\ \A i \in 1 .. Len(all) - 1 : C!Follows(gaps, all[i + 1], all[i].units)
        /\ base = <<>> => all = made
        /\ base # <<>> => all # <<>> /\ all[1] = base[1]
        /\ made # <<>> => all # <<>> /\ all[Len(all)] = made[Len(made)]
    BY <2>2 DEF Joined
  <2> QED BY <2>4, <2>5
<1>w. (it = "waiting" => frames = <<>> /\ base = <<>> /\ all = made) /\ (handed => it = "waiting" /\ w > 0 /\ ~released)
  <2>1. it = "waiting" => frames = <<>>
    BY <1>0 DEF C!TypeOK
  <2>2. it = "waiting" => base = <<>>
    BY <2>1, <1>l, <1>t
  <2>3. it = "waiting" => all = made
    BY <2>2, <1>n
  <2>4. handed => it = "waiting" /\ all # <<>>
    BY <1>c
  <2>5. it = "waiting" => ~released
    BY <1>0, <1>a DEF C!EndIsKnown, C!Listening
  <2> QED BY <2>1, <2>2, <2>3, <2>4, <2>5, <1>i
<1>x. ASSUME handed
      PROVE  /\ it = "waiting" /\ it' = "taken" /\ taken' = made[1] /\ made[1] \in C!Frame /\ w > 0
             /\ frames' \in Seq(C!Frame) /\ Len(frames') = w - 1 /\ \A i \in 1 .. w - 1 : frames'[i] = made[i + 1]
             /\ (frames' # <<>> => w > 1)
  <2>1. it = "waiting" /\ it' = "taken" /\ taken' = made[1] /\ w > 0 /\ frames' = Tail(made) /\ made # <<>>
    BY <1>x, <1>w, <1>a, <1>f
  <2>2. frames' \in Seq(C!Frame) /\ Len(frames') = Len(made) - 1 /\ \A i \in 1 .. Len(frames') : frames'[i] = made[i + 1]
    BY <2>1, <1>i
  <2>3. frames' # <<>> => Len(frames') \in Nat \ {0}
    BY <2>2
  <2>4. made[1] \in C!Frame
    BY <2>1, <1>f, <1>i
  <2> QED BY <2>1, <2>2, <2>3, <2>4, <1>f
<1>y. ASSUME ~handed
      PROVE  it' = it /\ taken' = taken /\ frames' = all /\ (it = "waiting" => frames' = <<>>)
  BY <1>y, <1>a, <1>c
<1>z. ASSUME base = <<>>, w > 0, NEW s, C!Tailing = s, frames = <<>> => C!Listening
      PROVE  C!Follows(gaps, made[1], s)
  <2>1. ASSUME s # <<>>, ~flag PROVE C!LastOf(s) = m
    <3>1. ~gap /\ ~pendingGap
      BY <2>1, <1>c
    <3>2. frames = <<>> /\ m = C!Made
      BY <3>1, <1>z, <1>l
    <3> QED BY <3>1, <3>2, <2>1, <1>z, <1>0, <1>a DEF C!NothingBetween
  <2> QED BY <2>1, <1>z, <1>g
<1> HIDE <1>c
<1>1. C!TypeOK'
  <2>1. C!Frame' = C!Frame
    BY <1>a DEF C!Frame
  <2>2. frames' \in Seq(C!Frame) /\ Len(frames') \in Nat
    BY <1>x, <1>y, <1>n
  <2>3. Len(frames') <= MaxBuffered
    BY <2>2, <1>a, FrameSizes
  <2>4. {anchored', late', pendingGap', over', error', released', stopped', faulty'} \subseteq BOOLEAN
    BY <1>0, <1>a, <1>t DEF C!TypeOK
  <2>5. made[1] \in C!Frame => made[1] # C!NoFrame
    BY <1>0, FrameUnitsAre DEF C!NoFrame
  <2>6. taken' \in C!Frame \cup {C!NoFrame} /\ (it' \in {"taken", "vad"} => taken' # C!NoFrame)
    BY <2>5, <1>x, <1>y, <1>0 DEF C!TypeOK
  <2>7. it' = "waiting" => frames' = <<>> /\ ~over'
    BY <1>x, <1>y, <1>a
  <2>8. it' \in {"next", "waiting", "taken", "vad", "pump", "exit", "thrown", "failing", "ending"} \cup C!Ended
    BY <1>x, <1>y, <1>0 DEF C!TypeOK
  <2>9. watch' \in {"off", "armed", "fired"}
    BY <1>a, <1>0 DEF C!TypeOK
  <2>10. carry' \in Seq(1 .. given') /\ Len(carry') < FrameUnits
    BY <1>a, <1>f
  <2> QED BY <2>1, <2>2, <2>3, <2>4, <2>6, <2>7, <2>8, <2>9, <2>10, <1>0, <1>a, <1>b, <1>h DEF C!TypeOK
<1>2. C!SessionIsContiguous'
  BY <1>0, <1>a DEF C!SessionIsContiguous
<1>3. C!EndsAsItWas'
  BY <1>0, <1>a, <1>x, <1>y DEF C!EndsAsItWas
<1>4. C!PipeInOrder'
  BY <1>b
<1>5. C!CarryInOrder'
  <2>1. PICK q, l, r : q = w * FrameUnits /\ l = Len(units) /\ r = Len(rest)
    OBVIOUS
  <2>2. /\ q \in Nat /\ l \in Nat /\ q <= l /\ m \in Int /\ m >= 0 /\ r = l - q /\ C!Made' = m + q /\ C!Made' >= 0
        /\ \A i \in 1 .. r : rest[i] = m + q + i
    BY <2>1, <1>d, <1>f, <1>k
  <2>3. \A i \in DOMAIN carry' : carry'[i] = C!Made' + i
    <3>1. carry' = rest /\ DOMAIN rest = 1 .. r
      BY <2>1, <1>a, <1>f
    <3> QED BY <3>1, <2>2
  <2>4. C!Front' - 1 = m + l
    <3>1. PICK x, n : x = c.first /\ n = c.n
      OBVIOUS
    <3>2. x \in Nat /\ n \in Nat /\ C!Front' = x + n /\ m + l = x + n - 1
      BY <3>1, <2>1, <1>b, <1>d, <1>u
    <3> QED BY <3>2, <2>2
  <2>5. \A u \in gaps : u \notin (IF pendingGap' THEN C!Made' + 2 ELSE C!Made' + 1) .. C!Front' - 1
    <3> SUFFICES ASSUME NEW u \in gaps PROVE u \notin (IF pendingGap' THEN m + q + 2 ELSE m + q + 1) .. m + l
      BY <2>2, <2>4
    <3>1. u \notin (IF flag THEN m + 2 ELSE m + 1) .. m + l
      BY <2>1, <1>d
    <3>2. CASE w = 0
      <4>1. q = 0
        BY <3>2, <2>1, FrameSizes
      <4>2. pendingGap' = flag
        BY <3>2, <1>a, <1>i, <1>t
      <4>3. m + q = m
        BY <4>1, <2>2
      <4> QED BY <4>2, <4>3, <3>1
    <3>3. CASE w > 0
      <4>1. ~pendingGap'
        <5>1. made # <<>>
          BY <3>3, <1>i
        <5> QED BY <5>1, <1>a
      <4>2. q >= 1
        <5>1. WellFramed(given, m, units, e, flag, made, w, rest)
          BY <1>e, Framing
        <5>2. w * FrameUnits >= FrameUnits
          BY <5>1, <3>3 DEF WellFramed
        <5> QED BY <5>2, <2>1, <2>2, FrameSizes
      <4>3. u \in gaps => u \in Nat
        BY <1>0, <1>t DEF C!TypeOK
      <4> QED BY <4>1, <4>2, <4>3, <3>1, <2>2
    <3> QED BY <3>2, <3>3, <1>f
  <2> QED BY <2>2, <2>3, <2>5, <1>a DEF C!CarryInOrder
<1>6. C!FramesInOrder'
  <2>1. CASE handed
    <3>1. /\ frames' \in Seq(C!Frame) /\ Len(frames') = w - 1
          /\ \A i \in 1 .. w - 1 : frames'[i] = made[i + 1]
      BY <2>1, <1>x
    <3>2. DOMAIN frames' = 1 .. w - 1
      BY <3>1
    <3>3. ASSUME NEW i \in 1 .. w - 1 PROVE frames'[i].epoch = epoch' /\ C!Contiguous(gaps', frames'[i].units)
      <4>1. i + 1 \in 1 .. w
        BY <1>f
      <4> QED BY <4>1, <3>1, <1>a, <1>f, <1>g
    <3>4. ASSUME NEW i \in 1 .. w - 1 - 1 PROVE C!Follows(gaps', frames'[i + 1], frames'[i].units)
      <4>1. i \in 1 .. w - 1 /\ i + 1 \in 1 .. w - 1
        BY <1>f
      <4>2. frames'[i + 1] = made[i + 1 + 1] /\ frames'[i] = made[i + 1]
        BY <4>1, <3>1
      <4> QED BY <4>1, <4>2, <1>a, <1>g
    <3> QED BY <3>1, <3>2, <3>3, <3>4 DEF C!FramesInOrder
  <2>2. CASE ~handed
    <3>1. frames' = all /\ DOMAIN all = 1 .. Len(all)
      BY <2>2, <1>y, <1>n
    <3> QED BY <3>1, <1>n, <1>a DEF C!FramesInOrder
  <2> QED BY <2>1, <2>2
<1>7. C!HeldInOrder'
  <2>1. CASE handed
    <3>1. it = "waiting" /\ it' = "taken" /\ taken' = made[1] /\ w > 0 /\ base = <<>>
      BY <2>1, <1>x, <1>w
    <3>2. C!Tailing = heard /\ C!Listening
      BY <3>1, <1>w DEF C!Tailing, C!InHand, C!Listening
    <3>3. C!Follows(gaps, made[1], heard)
      BY <3>1, <3>2, <1>z
    <3>4. C!Contiguous(gaps, made[1].units) /\ made[1].epoch = e /\ e <= e
      BY <3>1, <1>f, <1>g, <1>h, <1>i
    <3> QED BY <3>1, <3>3, <3>4, <1>a DEF C!HeldInOrder, C!InHand
  <2>2. CASE ~handed
    <3>1. it' = it /\ taken' = taken /\ frames' = all
      BY <2>2, <1>y
    <3>2. C!InHand => C!Contiguous(gaps, taken.units) /\ taken.epoch <= e
      <4>1. C!InHand => C!Contiguous(gaps, taken.units) /\ taken.epoch <= epoch
        BY <1>0 DEF C!HeldInOrder
      <4>2. C!InHand => taken.epoch \in Nat
        BY <1>0, HandIsFrame, FrameUnitsAre
      <4> QED BY <4>1, <4>2, <1>h, <1>t
    <3>3. ASSUME it = "taken", taken.epoch # e
          PROVE  IF all = <<>> THEN pendingGap' ELSE all[1].gap
      <4>1. CASE gap
        <5>1. all = made /\ flag
          BY <4>1, <1>l, <1>n, <1>c
        <5>2. made = <<>> => pendingGap'
          BY <5>1, <1>a
        <5>3. made # <<>> => made[1].gap
          BY <5>1, <1>g, <1>i
        <5> QED BY <5>1, <5>2, <5>3
      <4>2. CASE ~gap
        <5>1. base = frames /\ e = epoch /\ flag = pendingGap /\ w > 0 /\ made # <<>>
          BY <4>2, <1>l, <1>j, <1>i
        <5>2. IF frames = <<>> THEN pendingGap ELSE frames[1].gap
          BY <5>1, <3>3, <1>0, <1>a DEF C!HeldInOrder
        <5>3. CASE frames = <<>>
          <6>1. all = made /\ made[1].gap = pendingGap
            BY <5>1, <5>3, <1>n, <1>g
          <6> QED BY <6>1, <5>1, <5>2, <5>3
        <5>4. CASE frames # <<>>
          BY <5>1, <5>2, <5>4, <1>n
        <5> QED BY <5>3, <5>4
      <4> QED BY <4>1, <4>2
    <3>4. /\ it = "vad" /\ taken.gap => heard = <<>>
          /\ it = "vad" \/ (it = "taken" /\ (released => taken.epoch = 0)) => C!Follows(gaps, taken, heard)
      BY <1>0 DEF C!HeldInOrder
    <3> QED BY <3>1, <3>2, <3>3, <3>4, <1>a DEF C!HeldInOrder, C!InHand
  <2> QED BY <2>1, <2>2
<1>8. C!NothingBetween'
  <2>1. C!InHand' /\ frames' # <<>> => C!Follows(gaps', frames'[1], taken'.units)
    <3> SUFFICES ASSUME C!InHand', frames' # <<>> PROVE C!Follows(gaps, frames'[1], taken'.units)
      BY <1>a
    <3>1. CASE handed
      <4>1. taken' = made[1] /\ w > 1 /\ \A i \in 1 .. w - 1 : frames'[i] = made[i + 1]
        BY <3>1, <1>x
      <4>2. 1 \in 1 .. w - 1
        BY <4>1, <1>f
      <4> QED BY <4>1, <4>2, <1>g
    <3>2. CASE ~handed
      <4>1. it' = it /\ taken' = taken /\ frames' = all /\ C!InHand
        BY <3>2, <1>y DEF C!InHand
      <4>2. CASE base = <<>>
        <5>1. frames'[1] = made[1] /\ w > 0
          BY <4>1, <4>2, <1>n, <1>i
        <5>2. CASE frames = <<>>
          <6>1. C!Tailing = taken.units /\ C!Listening
            BY <5>2, <4>1 DEF C!Tailing, C!InHand, C!Listening
          <6> QED BY <6>1, <5>1, <4>1, <4>2, <1>z
        <5>3. CASE frames # <<>>
          <6>1. gap
            BY <5>3, <4>2, <1>l
          <6>2. flag
            BY <6>1, <1>c
          <6> QED BY <6>2, <5>1, <4>1, <1>g
        <5> QED BY <5>2, <5>3
      <4>3. CASE base # <<>>
        <5>1. base = frames /\ frames'[1] = frames[1]
          BY <4>1, <4>3, <1>l, <1>n
        <5> QED BY <5>1, <4>1, <4>3, <1>0 DEF C!NothingBetween
      <4> QED BY <4>2, <4>3
    <3> QED BY <3>1, <3>2
  <2>2. it' \in {"next", "waiting"} /\ frames' # <<>> /\ (released' => epoch' = 0) => C!Follows(gaps', frames'[1], heard')
    <3> SUFFICES ASSUME it' \in {"next", "waiting"}, frames' # <<>>, released => e = 0 PROVE C!Follows(gaps, frames'[1], heard)
      BY <1>a
    <3>1. ~handed
      BY <1>x
    <3>2. it' = it /\ frames' = all /\ it \in {"next", "waiting"}
      BY <3>1, <1>y
    <3>3. CASE base = <<>>
      <4>1. frames'[1] = made[1] /\ w > 0
        BY <3>2, <3>3, <1>n, <1>i
      <4>2. CASE frames = <<>>
        <5>1. C!Tailing = heard /\ C!Listening
          BY <4>2, <3>2 DEF C!Tailing, C!InHand, C!Listening
        <5> QED BY <5>1, <4>1, <3>3, <1>z
      <4>3. CASE frames # <<>>
        <5>1. gap
          BY <4>3, <3>3, <1>l
        <5>2. flag
          BY <5>1, <1>c
        <5> QED BY <5>2, <4>1, <1>g
      <4> QED BY <4>2, <4>3
    <3>4. CASE base # <<>>
      <4>1. base = frames /\ frames'[1] = frames[1] /\ e = epoch
        BY <3>2, <3>4, <1>l, <1>n
      <4> QED BY <4>1, <3>2, <3>4, <1>0 DEF C!NothingBetween
    <3> QED BY <3>3, <3>4
  <2>3. CASE w > 0
    <3>1. C!LastOf(made[w].units) = m + w * FrameUnits
      BY <2>3, <1>g, <1>i
    <3>2. C!Tailing' = made[w].units
      <4>1. CASE handed
        <5>1. it' = "taken" /\ taken' = made[1] /\ Len(frames') = w - 1 /\ \A i \in 1 .. w - 1 : frames'[i] = made[i + 1]
          BY <4>1, <1>x
        <5>2. CASE w = 1
          <6>1. frames' = <<>>
            BY <5>2, <4>1, <1>x
          <6> QED BY <6>1, <5>1, <5>2 DEF C!Tailing, C!InHand
        <5>3. CASE w > 1
          <6>1. w - 1 \in 1 .. w - 1 /\ w - 1 + 1 = w /\ w - 1 # 0
            BY <5>3, <1>f
          <6>2. frames'[Len(frames')] = made[w]
            <7>1. frames'[w - 1] = made[w - 1 + 1]
              BY <6>1, <5>1
            <7> QED BY <7>1, <6>1, <5>1
          <6>3. frames' # <<>>
            BY <6>1, <5>1
          <6> QED BY <6>2, <6>3 DEF C!Tailing
        <5> QED BY <5>2, <5>3, <2>3, <1>f
      <4>2. CASE ~handed
        <5>1. frames' = all /\ made # <<>>
          BY <4>2, <2>3, <1>y, <1>i, <1>f
        <5>2. all # <<>> /\ all[Len(all)] = made[w]
          BY <5>1, <1>n
        <5> QED BY <5>1, <5>2 DEF C!Tailing
      <4> QED BY <4>1, <4>2
    <3>3. C!LastOf(C!Tailing)' = C!Made'
      BY <3>1, <3>2, <1>k
    <3> QED BY <3>3, <2>1, <2>2 DEF C!NothingBetween
  <2>4. CASE ~(w > 0)
    <3>1. gap /\ made = <<>>
      BY <2>4, <1>j, <1>i
    <3>2. pendingGap'
      BY <3>1, <1>a, <1>c
    <3> QED BY <3>2, <2>1, <2>2 DEF C!NothingBetween
  <2> QED BY <2>3, <2>4
<1>9. C!EpochsCounted'
  <2>1. ~(late' \/ (pipe' # <<>> /\ pipe'[1].first \in gaps))
    BY <1>a, <1>b
  <2> QED BY <2>1, <1>a, <1>h DEF C!EpochsCounted
<1>10. C!EndIsKnown'
  <2>1. ~over' /\ ~stopped' /\ pump' # "over" /\ watch' # "fired"
    BY <1>a, <1>s
  <2>2. ~(released' /\ C!Listening')
    <3>1. released => ~C!Listening
      BY <1>0, <1>a DEF C!EndIsKnown
    <3> QED BY <3>1, <1>a, <1>w, <1>x, <1>y DEF C!Listening
  <2>3. it' \in {"thrown", "failing"} \/ it' = "ending" => it' = it
    BY <1>x, <1>y
  <2> QED BY <2>1, <2>2, <2>3, <1>0, <1>a DEF C!EndIsKnown
<1> QED BY <1>1, <1>2, <1>3, <1>4, <1>5, <1>6, <1>7, <1>8, <1>9, <1>10 DEF CaptureInv

\* The child goes.
LEMMA ChildExitsKeeps ==
  ASSUME CaptureInv, C!ChildExits
  PROVE  CaptureInv'
<1> USE DEF C!ChildExits, C!source, C!buffer, C!consumer, C!process
<1>0. /\ C!TypeOK /\ C!SessionIsContiguous /\ C!EndsAsItWas
      /\ C!PipeInOrder /\ C!CarryInOrder /\ C!FramesInOrder /\ C!HeldInOrder /\ C!NothingBetween
      /\ C!EpochsCounted /\ C!EndIsKnown
  BY DEF CaptureInv
<1>1. C!TypeOK'
  BY <1>0 DEF C!TypeOK, C!Frame
<1>2. C!SessionIsContiguous'
  BY <1>0 DEF C!SessionIsContiguous
<1>3. C!EndsAsItWas'
  BY <1>0 DEF C!EndsAsItWas
<1>4. C!PipeInOrder'
  BY <1>0 DEF C!PipeInOrder
<1>5. C!CarryInOrder'
  BY <1>0 DEF C!CarryInOrder, C!Made, C!Front
<1>6. C!FramesInOrder'
  BY <1>0 DEF C!FramesInOrder
<1>7. C!HeldInOrder'
  BY <1>0 DEF C!HeldInOrder, C!InHand
<1>8. C!NothingBetween'
  BY <1>0 DEF C!NothingBetween, C!InHand, C!Listening, C!Tailing, C!Made, C!Front
<1>9. C!EpochsCounted'
  BY <1>0 DEF C!EpochsCounted
<1>10. C!EndIsKnown'
  BY <1>0 DEF C!EndIsKnown, C!Listening
<1> QED BY <1>1, <1>2, <1>3, <1>4, <1>5, <1>6, <1>7, <1>8, <1>9, <1>10 DEF CaptureInv

\* Its streams close, and its exit is classified.
LEMMA ChildClosesKeeps ==
  ASSUME CaptureInv, C!ChildCloses
  PROVE  CaptureInv'
<1> USE DEF C!ChildCloses, C!Classified, C!source, C!buffer, C!consumer, C!process
<1>0. /\ C!TypeOK /\ C!SessionIsContiguous /\ C!EndsAsItWas
      /\ C!PipeInOrder /\ C!CarryInOrder /\ C!FramesInOrder /\ C!HeldInOrder /\ C!NothingBetween
      /\ C!EpochsCounted /\ C!EndIsKnown
  BY DEF CaptureInv
<1>1. C!TypeOK'
  BY <1>0 DEF C!TypeOK, C!Frame
<1>2. C!SessionIsContiguous'
  BY <1>0 DEF C!SessionIsContiguous
<1>3. C!EndsAsItWas'
  BY <1>0 DEF C!EndsAsItWas
<1>4. C!PipeInOrder'
  BY <1>0 DEF C!PipeInOrder
<1>5. C!CarryInOrder'
  BY <1>0 DEF C!CarryInOrder, C!Made, C!Front
<1>6. C!FramesInOrder'
  BY <1>0 DEF C!FramesInOrder
<1>7. C!HeldInOrder'
  BY <1>0 DEF C!HeldInOrder, C!InHand
<1>8. C!NothingBetween'
  BY <1>0 DEF C!NothingBetween, C!InHand, C!Listening, C!Tailing, C!Made, C!Front
<1>9. C!EpochsCounted'
  BY <1>0 DEF C!EpochsCounted
<1>10. C!EndIsKnown'
  BY <1>0 DEF C!EndIsKnown, C!Listening
<1> QED BY <1>1, <1>2, <1>3, <1>4, <1>5, <1>6, <1>7, <1>8, <1>9, <1>10 DEF CaptureInv

\* SIGTERM was not enough.
LEMMA GraceEndsKeeps ==
  ASSUME CaptureInv, C!GraceEnds
  PROVE  CaptureInv'
<1> USE DEF C!GraceEnds, C!source, C!buffer, C!consumer, C!process
<1>0. /\ C!TypeOK /\ C!SessionIsContiguous /\ C!EndsAsItWas
      /\ C!PipeInOrder /\ C!CarryInOrder /\ C!FramesInOrder /\ C!HeldInOrder /\ C!NothingBetween
      /\ C!EpochsCounted /\ C!EndIsKnown
  BY DEF CaptureInv
<1>1. C!TypeOK'
  BY <1>0 DEF C!TypeOK, C!Frame
<1>2. C!SessionIsContiguous'
  BY <1>0 DEF C!SessionIsContiguous
<1>3. C!EndsAsItWas'
  BY <1>0 DEF C!EndsAsItWas
<1>4. C!PipeInOrder'
  BY <1>0 DEF C!PipeInOrder
<1>5. C!CarryInOrder'
  BY <1>0 DEF C!CarryInOrder, C!Made, C!Front
<1>6. C!FramesInOrder'
  BY <1>0 DEF C!FramesInOrder
<1>7. C!HeldInOrder'
  BY <1>0 DEF C!HeldInOrder, C!InHand
<1>8. C!NothingBetween'
  BY <1>0 DEF C!NothingBetween, C!InHand, C!Listening, C!Tailing, C!Made, C!Front
<1>9. C!EpochsCounted'
  BY <1>0 DEF C!EpochsCounted
<1>10. C!EndIsKnown'
  BY <1>0 DEF C!EndIsKnown, C!Listening
<1> QED BY <1>1, <1>2, <1>3, <1>4, <1>5, <1>6, <1>7, <1>8, <1>9, <1>10 DEF CaptureInv

\* The watchdog has reaped the child.
LEMMA WatchdogReleasesKeeps ==
  ASSUME CaptureInv, C!WatchdogReleases
  PROVE  CaptureInv'
<1> USE DEF C!WatchdogReleases, C!Joined, C!source, C!buffer, C!consumer, C!process
<1>0. /\ C!TypeOK /\ C!SessionIsContiguous /\ C!EndsAsItWas
      /\ C!PipeInOrder /\ C!CarryInOrder /\ C!FramesInOrder /\ C!HeldInOrder /\ C!NothingBetween
      /\ C!EpochsCounted /\ C!EndIsKnown
  BY DEF CaptureInv
<1>1. C!TypeOK'
  BY <1>0 DEF C!TypeOK, C!Frame
<1>2. C!SessionIsContiguous'
  BY <1>0 DEF C!SessionIsContiguous
<1>3. C!EndsAsItWas'
  BY <1>0 DEF C!EndsAsItWas
<1>4. C!PipeInOrder'
  BY <1>0 DEF C!PipeInOrder
<1>5. C!CarryInOrder'
  BY <1>0 DEF C!CarryInOrder, C!Made, C!Front
<1>6. C!FramesInOrder'
  BY <1>0 DEF C!FramesInOrder
<1>7. C!HeldInOrder'
  BY <1>0 DEF C!HeldInOrder, C!InHand
<1>8. C!NothingBetween'
  BY <1>0 DEF C!NothingBetween, C!InHand, C!Listening, C!Tailing, C!Made, C!Front
<1>9. C!EpochsCounted'
  BY <1>0 DEF C!EpochsCounted
<1>10. C!EndIsKnown'
  BY <1>0 DEF C!EndIsKnown
<1> QED BY <1>1, <1>2, <1>3, <1>4, <1>5, <1>6, <1>7, <1>8, <1>9, <1>10 DEF CaptureInv

\* The recorder fails on a frame.
LEMMA FrameFailsKeeps ==
  ASSUME CaptureInv, C!FrameFails
  PROVE  CaptureInv'
<1> USE DEF C!FrameFails, C!source, C!buffer, C!consumer, C!process
<1>0. /\ C!TypeOK /\ C!SessionIsContiguous /\ C!EndsAsItWas
      /\ C!PipeInOrder /\ C!CarryInOrder /\ C!FramesInOrder /\ C!HeldInOrder /\ C!NothingBetween
      /\ C!EpochsCounted /\ C!EndIsKnown
  BY DEF CaptureInv
<1>1. C!TypeOK'
  BY <1>0 DEF C!TypeOK, C!Frame
<1>2. C!SessionIsContiguous'
  BY <1>0 DEF C!SessionIsContiguous
<1>3. C!EndsAsItWas'
  BY <1>0 DEF C!EndsAsItWas
<1>4. C!PipeInOrder'
  BY <1>0 DEF C!PipeInOrder
<1>5. C!CarryInOrder'
  BY <1>0 DEF C!CarryInOrder, C!Made, C!Front
<1>6. C!FramesInOrder'
  BY <1>0 DEF C!FramesInOrder
<1>7. C!HeldInOrder'
  BY <1>0 DEF C!HeldInOrder, C!InHand
<1>8. C!NothingBetween'
  BY <1>0 DEF C!NothingBetween, C!InHand, C!Listening, C!Tailing, C!Made, C!Front
<1>9. C!EpochsCounted'
  BY <1>0 DEF C!EpochsCounted
<1>10. C!EndIsKnown'
  BY <1>0 DEF C!EndIsKnown, C!Listening
<1> QED BY <1>1, <1>2, <1>3, <1>4, <1>5, <1>6, <1>7, <1>8, <1>9, <1>10 DEF CaptureInv

\* The pump is over.
LEMMA PumpAwaitedKeeps ==
  ASSUME CaptureInv, C!PumpAwaited
  PROVE  CaptureInv'
<1> USE DEF C!PumpAwaited, C!source, C!buffer, C!consumer, C!process
<1>0. /\ C!TypeOK /\ C!SessionIsContiguous /\ C!EndsAsItWas
      /\ C!PipeInOrder /\ C!CarryInOrder /\ C!FramesInOrder /\ C!HeldInOrder /\ C!NothingBetween
      /\ C!EpochsCounted /\ C!EndIsKnown
  BY DEF CaptureInv
<1>1. C!TypeOK'
  BY <1>0 DEF C!TypeOK, C!Frame
<1>2. C!SessionIsContiguous'
  BY <1>0 DEF C!SessionIsContiguous
<1>3. C!EndsAsItWas'
  BY <1>0 DEF C!EndsAsItWas
<1>4. C!PipeInOrder'
  BY <1>0 DEF C!PipeInOrder
<1>5. C!CarryInOrder'
  BY <1>0 DEF C!CarryInOrder, C!Made, C!Front
<1>6. C!FramesInOrder'
  BY <1>0 DEF C!FramesInOrder
<1>7. C!HeldInOrder'
  BY <1>0 DEF C!HeldInOrder, C!InHand
<1>8. C!NothingBetween'
  BY <1>0 DEF C!NothingBetween, C!InHand, C!Listening, C!Tailing, C!Made, C!Front
<1>9. C!EpochsCounted'
  BY <1>0 DEF C!EpochsCounted
<1>10. C!EndIsKnown'
  BY <1>0 DEF C!EndIsKnown
<1> QED BY <1>1, <1>2, <1>3, <1>4, <1>5, <1>6, <1>7, <1>8, <1>9, <1>10 DEF CaptureInv

\* The loop ends.
LEMMA FinallyKeeps ==
  ASSUME CaptureInv, C!Finally
  PROVE  CaptureInv'
<1> USE DEF C!Finally, C!Terminated, C!source, C!buffer, C!consumer, C!process
<1>0. /\ C!TypeOK /\ C!SessionIsContiguous /\ C!EndsAsItWas
      /\ C!PipeInOrder /\ C!CarryInOrder /\ C!FramesInOrder /\ C!HeldInOrder /\ C!NothingBetween
      /\ C!EpochsCounted /\ C!EndIsKnown
  BY DEF CaptureInv
<1>1. C!TypeOK'
  BY <1>0 DEF C!TypeOK, C!Frame
<1>2. C!SessionIsContiguous'
  BY <1>0 DEF C!SessionIsContiguous
<1>3. C!EndsAsItWas'
  BY <1>0 DEF C!EndsAsItWas
<1>4. C!PipeInOrder'
  BY <1>0 DEF C!PipeInOrder
<1>5. C!CarryInOrder'
  BY <1>0 DEF C!CarryInOrder, C!Made, C!Front
<1>6. C!FramesInOrder'
  BY <1>0 DEF C!FramesInOrder
<1>7. C!HeldInOrder'
  BY <1>0 DEF C!HeldInOrder, C!InHand
<1>8. C!NothingBetween'
  BY <1>0 DEF C!NothingBetween, C!InHand, C!Listening, C!Tailing, C!Made, C!Front
<1>9. C!EpochsCounted'
  BY <1>0 DEF C!EpochsCounted
<1>10. C!EndIsKnown'
  BY <1>0 DEF C!TypeOK, C!EndIsKnown, C!Listening
<1> QED BY <1>1, <1>2, <1>3, <1>4, <1>5, <1>6, <1>7, <1>8, <1>9, <1>10 DEF CaptureInv

\* The child is gone, and the run returns.
LEMMA FinishKeeps ==
  ASSUME CaptureInv, C!Finish
  PROVE  CaptureInv'
<1> USE DEF C!Finish, C!Joined, C!source, C!buffer, C!consumer, C!process
<1>0. /\ C!TypeOK /\ C!SessionIsContiguous /\ C!EndsAsItWas
      /\ C!PipeInOrder /\ C!CarryInOrder /\ C!FramesInOrder /\ C!HeldInOrder /\ C!NothingBetween
      /\ C!EpochsCounted /\ C!EndIsKnown
  BY DEF CaptureInv
<1>1. C!TypeOK'
  BY <1>0 DEF C!TypeOK, C!Frame, C!Ended
<1>2. C!SessionIsContiguous'
  BY <1>0 DEF C!SessionIsContiguous
<1>3. C!EndsAsItWas'
  BY <1>0 DEF C!EndsAsItWas, C!EndIsKnown
<1>4. C!PipeInOrder'
  BY <1>0 DEF C!PipeInOrder
<1>5. C!CarryInOrder'
  BY <1>0 DEF C!CarryInOrder, C!Made, C!Front
<1>6. C!FramesInOrder'
  BY <1>0 DEF C!FramesInOrder
<1>7. C!HeldInOrder'
  BY <1>0 DEF C!HeldInOrder, C!InHand
<1>8. C!NothingBetween'
  BY <1>0 DEF C!NothingBetween, C!InHand, C!Listening, C!Tailing, C!Made, C!Front
<1>9. C!EpochsCounted'
  BY <1>0 DEF C!EpochsCounted
<1>10. C!EndIsKnown'
  BY <1>0 DEF C!EndIsKnown, C!Listening
<1> QED BY <1>1, <1>2, <1>3, <1>4, <1>5, <1>6, <1>7, <1>8, <1>9, <1>10 DEF CaptureInv

\* Capture starts with nothing read and nothing given.
LEMMA CaptureStarts == C!Init => CaptureInv
<1> SUFFICES ASSUME C!Init PROVE CaptureInv
  OBVIOUS
<1> USE DEF C!Init
<1>0. Len(<<>>) = 0 /\ DOMAIN (<<>>) = 1 .. 0
  OBVIOUS
<1>1. C!TypeOK
  <2>1. pipe \in Seq([first : 1 .. given, n : 1 .. MaxChunk]) /\ frames \in Seq(C!Frame) /\ carry \in Seq(1 .. given) /\ heard \in Seq(1 .. given)
    OBVIOUS
  <2>2. Len(frames) <= MaxBuffered /\ Len(carry) < FrameUnits
    BY <1>0, FrameSizes
  <2>3. given \in 0 .. MaxUnits /\ gaps \subseteq 1 .. given /\ epoch \in 0 .. MaxGaps + 1
    BY FrameSizes
  <2>4. {anchored, late, pendingGap, over, error, released, stopped, faulty} \subseteq BOOLEAN
    OBVIOUS
  <2> QED BY <2>1, <2>2, <2>3, <2>4 DEF C!TypeOK
<1>2. C!SessionIsContiguous
  BY <1>0 DEF C!SessionIsContiguous, C!Contiguous
<1>3. C!EndsAsItWas
  BY DEF C!EndsAsItWas
<1>4. C!PipeInOrder
  BY <1>0 DEF C!PipeInOrder
<1>5. C!CarryInOrder
  BY <1>0 DEF C!CarryInOrder, C!Made, C!Front
<1>6. C!FramesInOrder
  BY <1>0 DEF C!FramesInOrder
<1>7. C!HeldInOrder
  BY DEF C!HeldInOrder, C!InHand
<1>8. C!NothingBetween
  BY DEF C!NothingBetween, C!InHand, C!Tailing
<1>9. C!EpochsCounted
  <2>1. C!Cardinality(gaps) = 0
    BY SameSize, FS_EmptySet
  <2> QED BY <2>1, FrameSizes DEF C!EpochsCounted
<1>10. C!EndIsKnown
  BY DEF C!EndIsKnown
<1> QED BY <1>1, <1>2, <1>3, <1>4, <1>5, <1>6, <1>7, <1>8, <1>9, <1>10 DEF CaptureInv

\* The pump reads a chunk.
LEMMA PumpReadsKeeps ==
  ASSUME CaptureInv, C!PumpReads
  PROVE  CaptureInv'
<1>1. PICK c : c = Head(pipe)
  OBVIOUS
<1>2. /\ pump = "reading" /\ pipe # <<>>
      /\ C!Hold(c) \/ C!Write(c) \/ C!Overflow(c) \/ C!TurnedAway
      /\ pipe' = IF pump' = "over" THEN <<>> ELSE Tail(pipe)
      /\ UNCHANGED <<helper, exit, term, given, gaps, released, stopped>>
  BY <1>1 DEF C!PumpReads, C!process
<1>3. CASE C!Hold(c)
  <2>1. pipe' = Tail(pipe)
    BY <1>2, <1>3 DEF C!Hold
  <2> QED BY <2>1, <1>1, <1>2, <1>3, HoldKeeps
<1>4. CASE C!Write(c)
  <2>1. pump' = pump
    BY <1>4 DEF C!Write
  <2>2. pipe' = Tail(pipe)
    BY <2>1, <1>2
  <2> QED BY <2>2, <1>1, <1>2, <1>4, WriteKeeps
<1>5. CASE C!Overflow(c)
  <2>1. pipe' = <<>>
    BY <1>2, <1>5 DEF C!Overflow
  <2> QED BY <2>1, <1>1, <1>2, <1>5, OverflowKeeps
<1>6. CASE C!TurnedAway
  <2>1. pipe' = <<>>
    BY <1>2, <1>6 DEF C!TurnedAway
  <2> QED BY <2>1, <1>2, <1>6, TurnedAwayKeeps
<1> QED BY <1>2, <1>3, <1>4, <1>5, <1>6

\* Every step of the stream keeps the invariant.
LEMMA CaptureStep == CaptureInv /\ [C!Next]_(C!vars) => CaptureInv'
<1> SUFFICES ASSUME CaptureInv, [C!Next]_(C!vars) PROVE CaptureInv'
  OBVIOUS
<1>1. CASE C!ChildWrites
  BY <1>1, ChildWritesKeeps
<1>2. CASE C!ChildExits
  BY <1>2, ChildExitsKeeps
<1>3. CASE C!ChildCloses
  BY <1>3, ChildClosesKeeps
<1>4. CASE C!GraceEnds
  BY <1>4, GraceEndsKeeps
<1>5. CASE C!PumpReads
  BY <1>5, PumpReadsKeeps
<1>6. CASE C!PumpEnds
  BY <1>6, PumpEndsKeeps
<1>7. CASE C!WatchdogFires
  BY <1>7, WatchdogFiresKeeps
<1>8. CASE C!WatchdogReleases
  BY <1>8, WatchdogReleasesKeeps
<1>9. CASE C!Stop
  BY <1>9, StopKeeps
<1>10. CASE C!Pull
  BY <1>10, PullKeeps
<1>11. CASE C!HandleFrame
  BY <1>11, HandleFrameKeeps
<1>12. CASE C!FrameRecorded
  BY <1>12, FrameRecordedKeeps
<1>13. CASE C!FrameFails
  BY <1>13, FrameFailsKeeps
<1>14. CASE C!PumpAwaited
  BY <1>14, PumpAwaitedKeeps
<1>15. CASE C!Finally
  BY <1>15, FinallyKeeps
<1>16. CASE C!Finish
  BY <1>16, FinishKeeps
<1>17. CASE UNCHANGED C!vars
  <2>0. /\ C!TypeOK /\ C!SessionIsContiguous /\ C!EndsAsItWas
        /\ C!PipeInOrder /\ C!CarryInOrder /\ C!FramesInOrder /\ C!HeldInOrder /\ C!NothingBetween
        /\ C!EpochsCounted /\ C!EndIsKnown
    BY DEF CaptureInv
  <2>a. UNCHANGED capture
    BY <1>17 DEF C!vars, capture, C!process, C!source, C!buffer, C!consumer
  <2> USE <2>a DEF capture
  <2>1. C!TypeOK'
    BY <2>0 DEF C!TypeOK, C!Frame
  <2>2. C!SessionIsContiguous'
    BY <2>0 DEF C!SessionIsContiguous
  <2>3. C!EndsAsItWas'
    BY <2>0 DEF C!EndsAsItWas
  <2>4. C!PipeInOrder'
    BY <2>0 DEF C!PipeInOrder
  <2>5. C!CarryInOrder'
    BY <2>0 DEF C!CarryInOrder, C!Made, C!Front
  <2>6. C!FramesInOrder'
    BY <2>0 DEF C!FramesInOrder
  <2>7. C!HeldInOrder'
    BY <2>0 DEF C!HeldInOrder, C!InHand
  <2>8. C!NothingBetween'
    BY <2>0 DEF C!NothingBetween, C!InHand, C!Listening, C!Tailing, C!Made, C!Front
  <2>9. C!EpochsCounted'
    BY <2>0 DEF C!EpochsCounted
  <2>10. C!EndIsKnown'
    BY <2>0 DEF C!EndIsKnown, C!Listening
  <2> QED BY <2>1, <2>2, <2>3, <2>4, <2>5, <2>6, <2>7, <2>8, <2>9, <2>10 DEF CaptureInv
<1> QED BY <1>1, <1>2, <1>3, <1>4, <1>5, <1>6, <1>7, <1>8, <1>9, <1>10, <1>11, <1>12, <1>13, <1>14, <1>15, <1>16, <1>17 DEF C!Next

\* What the sessionizer is given between two closes is contiguous audio of the source,
\* and a stop is told from a failure (CaptureFrameBuffer, Recorder.#handleFrame).
THEOREM CaptureInvariant == C!Spec => []CaptureInv
<1>1. C!Init => CaptureInv
  BY CaptureStarts
<1>2. CaptureInv /\ [C!Next]_(C!vars) => CaptureInv'
  BY CaptureStep
<1> QED BY <1>1, <1>2, PTL DEF C!Spec

\* The run checks it where the other child exists too: a behaviour of the stream
\* implements Capture's, and one of the worker leaves the stream where it began.
THEOREM ChildrenCapture == ChildrenSpec => []CaptureInv
<1>1. ChildrenInit => CaptureInv
  BY CaptureStarts DEF ChildrenInit
<1>2. CaptureInv /\ [ChildrenNext]_<<runs, recognition, capture>> => CaptureInv'
  <2> SUFFICES ASSUME CaptureInv, [ChildrenNext]_<<runs, recognition, capture>> PROVE CaptureInv'
    OBVIOUS
  <2>1. CASE C!Next
    BY <2>1, CaptureStep
  <2>2. CASE UNCHANGED capture
    <3>1. UNCHANGED C!vars
      BY <2>2 DEF capture, C!vars, C!process, C!source, C!buffer, C!consumer
    <3> QED BY <3>1, CaptureStep
  <2> QED BY <2>1, <2>2 DEF ChildrenNext
<1> QED BY <1>1, <1>2, PTL DEF ChildrenSpec

-----------------------------------------------------------------------------
(* The audio worker *)

USE DEF W!Abandoned

\* The settings of the worker in plain terms
LEMMA WorkerSettings ==
  /\ MaxGens \in Nat /\ MaxCalls \in Nat /\ W!IsFiniteSet(Callers)
  /\ "load" \notin Callers /\ "shutdown" \notin Callers
<1>1. {"load", "shutdown"} \cap Callers = {}
  BY CallersAssumed DEF W!WorkerAssumption
<1>2. MaxGens \in Nat /\ MaxCalls \in Nat /\ W!IsFiniteSet(Callers)
  BY CallersAssumed DEF W!WorkerAssumption
<1> QED BY <1>1, <1>2

\* The module of the worker counts sets like this one
LEMMA SizeOfAll == \A S : W!Cardinality(S) = Cardinality(S)
BY DEF W!Cardinality, Cardinality

LEMMA FiniteAsWell == \A S : W!IsFiniteSet(S) = IsFiniteSet(S)
BY DEF W!IsFiniteSet, IsFiniteSet

\* Where a set has at most one element, two elements are one
LEMMA AtMostOne == ASSUME NEW S, \A g, h \in S : g = h PROVE W!Cardinality(S) <= 1
<1>1. CASE S = {}
  BY <1>1, FS_EmptySet, SizeOfAll
<1>2. CASE S # {}
  <2>1. PICK x \in S : TRUE
    BY <1>2
  <2>2. S = {x}
    BY <2>1
  <2> QED BY <2>2, FS_Singleton, SizeOfAll
<1> QED BY <1>1, <1>2

\* OneWorker is a consequence of Generations
LEMMA OneFollows == W!TypeOK /\ W!Generations => W!OneWorker
<1> DEFINE running == {g \in W!Gens : proc[g] \in {"spawning", "alive"} /\ stage[g] # "left"}
<1> SUFFICES ASSUME W!TypeOK, W!Generations PROVE W!OneWorker
  OBVIOUS
<1>1. \A g, h \in running : g = h
  BY WorkerSettings DEF W!TypeOK, W!Generations, W!Gens
<1> HIDE DEF running
<1>2. W!Cardinality(running) <= 1
  BY <1>1, AtMostOne
<1> QED BY <1>2 DEF W!OneWorker, running

\* A set that may only lose elements still has at most one
LEMMA OneFollowsNext == W!TypeOK' /\ W!Generations' => W!OneWorker'
<1> DEFINE running == {g \in W!Gens : proc'[g] \in {"spawning", "alive"} /\ stage'[g] # "left"}
<1> SUFFICES ASSUME W!TypeOK', W!Generations' PROVE W!OneWorker'
  OBVIOUS
<1>1. \A g, h \in running : g = h
  BY WorkerSettings DEF W!TypeOK, W!Generations, W!Gens
<1> HIDE DEF running
<1>2. W!Cardinality(running) <= 1
  BY <1>1, AtMostOne
<1> QED BY <1>2 DEF W!OneWorker, W!Gens, running

\* The types after a step, a part at a time
TypesOf(p, s, m) ==
    /\ p \in [W!Gens -> {"none", "spawning", "alive", "exited", "closed"}]
    /\ s \in [W!Gens -> {"none", "term", "kill", "left"}] /\ m \in [W!Gens -> BOOLEAN]

Requests == [id : W!Ids, op : W!Ops, call : 0 .. MaxCalls]
Answers == [id : W!Ids, op : W!Ops, call : 0 .. MaxCalls, ok : BOOLEAN]

\* What the conjuncts of the invariant say of the types
LEMMA WorkerTypes ==
  ASSUME WorkerInv
  PROVE  /\ proc \in [W!Gens -> {"none", "spawning", "alive", "exited", "closed"}]
         /\ stage \in [W!Gens -> {"none", "term", "kill", "left"}] /\ model \in [W!Gens -> BOOLEAN]
         /\ queue \in [W!Gens -> Seq(Requests)]
         /\ out \in [W!Gens -> Seq(Answers)]
         /\ child # 0 => child \in W!Gens /\ child \notin notified /\ proc[child] \notin {"none", "closed"}
         /\ 0 \notin W!Gens
<1>1. W!TypeOK /\ 0 \notin W!Gens /\ MaxGens \in Nat
  BY WorkerSettings DEF WorkerInv, W!Gens
<1>2. child # 0 => child \in W!Gens
  BY <1>1 DEF W!TypeOK, W!Gens
<1> QED BY <1>1, <1>2 DEF W!TypeOK, Requests, Answers

\* The variables keep their types in every step
LEMMA TypesNext ==
  ASSUME TypesOf(proc, stage, model)',
         queue' \in [W!Gens -> Seq(Requests)], out' \in [W!Gens -> Seq(Answers)],
         child' \in 0 .. MaxGens, child' # 0 => proc'[child'] \notin {"none", "closed"},
         spawning' \in BOOLEAN, idle' \in BOOLEAN,
         stopping' \subseteq W!Gens, notified' \subseteq W!Gens, child' \notin stopping' \cup notified',
         pending' \in [W!Ids -> {0, child'}],
         pc' \in [Callers -> {"free", "ok", "failed"} \cup W!Waiting],
         \A c \in Callers : (pc'[c] = "asked") = (pending'[c] # 0),
         op' \in [Callers -> {"transcribe", "vad"}], calls' \in [Callers -> 0 .. MaxCalls],
         answer' \in [Callers -> 0 .. MaxCalls],
         why' \in [Callers -> {"none", "answer", "gone", "idle", "closed"}],
         load' \in {"idle", "loading", "loaded", "failed"}, unready' \in BOOLEAN, crashed' \in BOOLEAN,
         closing' \in {"no", "begun", "asked", "joining", "done"}
  PROVE  W!TypeOK'
BY DEF W!TypeOK, TypesOf, Requests, Answers

\* The entries of a queue of requests, and of one of answers
LEMMA Entries ==
  ASSUME WorkerInv, NEW g \in W!Gens
  PROVE  /\ \A i \in DOMAIN queue[g] : queue[g][i] \in Requests /\ queue[g][i].id \in W!Ids
         /\ \A i \in DOMAIN out[g] : out[g][i] \in Answers /\ out[g][i].id \in W!Ids
<1>1. queue[g] \in Seq(Requests) /\ out[g] \in Seq(Answers)
  BY WorkerTypes
<1>2. \A i \in DOMAIN queue[g] : queue[g][i] \in Requests
  BY <1>1, LenProperties, ElementOfSeq
<1>3. \A i \in DOMAIN out[g] : out[g][i] \in Answers
  BY <1>1, LenProperties, ElementOfSeq
<1> QED BY <1>2, <1>3 DEF Requests, Answers

\* The load and the shutdown go by the name of their operation
KnownOps(s) == \A i \in DOMAIN s : \A o \in {"load", "shutdown"} : s[i].op = o <=> s[i].id = o

\* What a worker was sent (s) and has written (t): one message for each id that waits
MatchedBy(s, t, waits, forCall, worker) ==
    /\ \A i \in DOMAIN s : /\ waits[s[i].id] = worker
                           /\ s[i].id \in Callers => s[i].call = forCall[s[i].id]
    /\ \A i \in DOMAIN t : /\ waits[t[i].id] = worker
                           /\ t[i].id \in Callers => t[i].call = forCall[t[i].id]
    /\ \A i, j \in DOMAIN s : s[i].id = s[j].id => i = j
    /\ \A i, j \in DOMAIN t : t[i].id = t[j].id => i = j
    /\ \A i \in DOMAIN s : \A j \in DOMAIN t : s[i].id # t[j].id

\* t: messages for ids that nobody waited for, and that now do
Fresh(t, before, after, forCall, worker) ==
    /\ \A i \in DOMAIN t : /\ before[t[i].id] # worker /\ after[t[i].id] = worker
                           /\ t[i].id \in Callers => t[i].call = forCall[t[i].id]
    /\ \A i, j \in DOMAIN t : t[i].id = t[j].id => i = j

\* Who waited still does, for the same call
Kept(before, after, called, forCall, worker) ==
    \A id \in W!Ids : before[id] = worker => after[id] = worker /\ (id \in Callers => forCall[id] = called[id])

\* What Matched says of one process
LEMMA MatchedIs ==
  W!Matched <=> (child # 0 /\ closing \in {"no", "begun"} =>
                   MatchedBy(queue[child], out[child], pending, calls, child))
BY DEF W!Matched, W!Current, MatchedBy

LEMMA MatchedIsNext ==
  W!Matched' <=> (child' # 0 /\ closing' \in {"no", "begun"} =>
                   MatchedBy(queue'[child'], out'[child'], pending', calls', child'))
BY DEF W!Matched, W!Current, MatchedBy

\* What is sent at once is asked for one by one, in the order of the calls
LEMMA SentTogether ==
  ASSUME NEW S, NEW s \in Seq(S), NEW t \in Seq(S)
  PROVE  /\ s \o t \in Seq(S)
         /\ \A i \in DOMAIN (s \o t) :
              \/ i \in DOMAIN s /\ (s \o t)[i] = s[i]
              \/ i - Len(s) \in DOMAIN t /\ (s \o t)[i] = t[i - Len(s)] /\ i \notin DOMAIN s
<1>1. /\ s \o t \in Seq(S) /\ Len(s \o t) = Len(s) + Len(t)
      /\ \A i \in 1 .. Len(s) + Len(t) : (s \o t)[i] = IF i <= Len(s) THEN s[i] ELSE t[i - Len(s)]
  BY ConcatProperties
<1>2. /\ Len(s) \in Nat /\ Len(t) \in Nat /\ DOMAIN s = 1 .. Len(s) /\ DOMAIN t = 1 .. Len(t)
      /\ DOMAIN (s \o t) = 1 .. Len(s \o t)
  BY <1>1, LenProperties
<1> QED BY <1>1, <1>2

\* The rest of a queue, element by element
LEMMA TailIs ==
  ASSUME NEW S, NEW s \in Seq(S), s # <<>>
  PROVE  /\ Head(s) = s[1] /\ 1 \in DOMAIN s /\ Head(s) \in S /\ Tail(s) \in Seq(S)
         /\ \A i \in DOMAIN Tail(s) : i \in Nat /\ i + 1 # 1 /\ i + 1 \in DOMAIN s /\ Tail(s)[i] = s[i + 1]
<1>1. /\ Head(s) \in S /\ Tail(s) \in Seq(S) /\ Len(Tail(s)) = Len(s) - 1
      /\ \A i \in 1 .. Len(Tail(s)) : Tail(s)[i] = s[i + 1]
  BY HeadTailProperties
<1>2. /\ Len(s) \in Nat \ {0} /\ DOMAIN s = 1 .. Len(s)
      /\ DOMAIN Tail(s) = 1 .. Len(Tail(s))
  BY <1>1, LenProperties, EmptySeq
<1> QED BY <1>1, <1>2

\* A queue with one entry more, element by element
LEMMA AppendIs ==
  ASSUME NEW S, NEW s \in Seq(S), NEW e \in S
  PROVE  /\ Append(s, e) \in Seq(S)
         /\ \A i \in DOMAIN Append(s, e) :
              \/ i \in DOMAIN s /\ Append(s, e)[i] = s[i]
              \/ i = Len(s) + 1 /\ Append(s, e)[i] = e
<1>1. /\ Append(s, e) \in Seq(S) /\ Len(Append(s, e)) = Len(s) + 1
      /\ \A i \in 1 .. Len(s) : Append(s, e)[i] = s[i]
      /\ Append(s, e)[Len(s) + 1] = e
  BY AppendProperties
<1>2. /\ Len(s) \in Nat /\ DOMAIN s = 1 .. Len(s)
      /\ DOMAIN Append(s, e) = 1 .. Len(s) + 1
  BY <1>1, LenProperties
<1> QED BY <1>1, <1>2

\* A message for an id that nobody waited for keeps them matched
LEMMA MatchedSend ==
  ASSUME NEW s \in Seq(Requests), NEW t \in Seq(Requests), NEW o \in Seq(Answers),
         NEW p, NEW q, NEW m, NEW n, NEW w,
         MatchedBy(s, o, p, m, w), Fresh(t, p, q, n, w), Kept(p, q, m, n, w)
  PROVE  MatchedBy(s \o t, o, q, n, w)
<1>0. /\ \A i \in DOMAIN t : /\ p[t[i].id] # w /\ q[t[i].id] = w
                             /\ t[i].id \in Callers => t[i].call = n[t[i].id]
      /\ \A i, j \in DOMAIN t : t[i].id = t[j].id => i = j
      /\ \A id \in W!Ids : p[id] = w => q[id] = w /\ (id \in Callers => n[id] = m[id])
  BY DEF Fresh, Kept
<1>1. \A i \in DOMAIN (s \o t) :
        \/ i \in DOMAIN s /\ (s \o t)[i] = s[i]
        \/ i - Len(s) \in DOMAIN t /\ (s \o t)[i] = t[i - Len(s)] /\ i \notin DOMAIN s
  BY SentTogether
<1>2. /\ Len(s) \in Nat /\ DOMAIN t = 1 .. Len(t) /\ DOMAIN (s \o t) \subseteq Int
      /\ \A i \in DOMAIN s : s[i].id \in W!Ids
      /\ \A i \in DOMAIN o : o[i].id \in W!Ids
  <2>1. s \o t \in Seq(Requests)
    BY SentTogether
  <2>2. DOMAIN (s \o t) = 1 .. Len(s \o t) /\ Len(s \o t) \in Nat
    BY <2>1, LenProperties
  <2>3. \A i \in DOMAIN s : s[i] \in Requests
    BY LenProperties, ElementOfSeq
  <2>4. \A i \in DOMAIN o : o[i] \in Answers
    BY LenProperties, ElementOfSeq
  <2> QED BY <2>2, <2>3, <2>4, LenProperties DEF Requests, Answers
<1>3. ASSUME NEW i \in DOMAIN (s \o t)
      PROVE  /\ q[(s \o t)[i].id] = w
             /\ (s \o t)[i].id \in Callers => (s \o t)[i].call = n[(s \o t)[i].id]
             /\ \A j \in DOMAIN o : (s \o t)[i].id # o[j].id
  <2>1. CASE i \in DOMAIN s /\ (s \o t)[i] = s[i]
    BY <1>0, <1>2, <2>1 DEF MatchedBy
  <2>2. CASE i - Len(s) \in DOMAIN t /\ (s \o t)[i] = t[i - Len(s)] /\ i \notin DOMAIN s
    BY <1>0, <1>2, <2>2 DEF MatchedBy
  <2> QED BY <1>1, <2>1, <2>2
<1>4. ASSUME NEW i \in DOMAIN (s \o t), NEW j \in DOMAIN (s \o t), (s \o t)[i].id = (s \o t)[j].id
      PROVE  i = j
  <2>1. ASSUME NEW k \in DOMAIN (s \o t)
        PROVE  p[(s \o t)[k].id] = w <=> k \in DOMAIN s
    BY <1>0, <1>1 DEF MatchedBy
  <2>2. i \in DOMAIN s <=> j \in DOMAIN s
    BY <1>4, <2>1
  <2>3. CASE i \in DOMAIN s
    <3>1. (s \o t)[i] = s[i] /\ (s \o t)[j] = s[j] /\ j \in DOMAIN s
      BY <1>1, <2>2, <2>3
    <3> QED BY <1>4, <2>3, <3>1 DEF MatchedBy
  <2>4. CASE i \notin DOMAIN s
    <3>1. /\ i - Len(s) \in DOMAIN t /\ (s \o t)[i] = t[i - Len(s)]
          /\ j - Len(s) \in DOMAIN t /\ (s \o t)[j] = t[j - Len(s)]
      BY <1>1, <2>2, <2>4
    <3>2. i - Len(s) = j - Len(s)
      BY <1>0, <1>4, <3>1
    <3> QED BY <1>2, <3>2
  <2> QED BY <2>3, <2>4
<1>5. \A i \in DOMAIN o : q[o[i].id] = w /\ (o[i].id \in Callers => o[i].call = n[o[i].id])
  BY <1>0, <1>2 DEF MatchedBy
<1> QED BY <1>3, <1>4, <1>5 DEF MatchedBy

\* An answer that was read is not there a second time
LEMMA MatchedRead ==
  ASSUME NEW s \in Seq(Requests), NEW o \in Seq(Answers), o # <<>>, NEW p, NEW q, NEW m, NEW w,
         MatchedBy(s, o, p, m, w),
         \A id \in W!Ids : id # Head(o).id /\ p[id] = w => q[id] = w
  PROVE  MatchedBy(s, Tail(o), q, m, w)
<1>1. /\ Head(o) = o[1] /\ 1 \in DOMAIN o
      /\ \A i \in DOMAIN Tail(o) : i \in Nat /\ i + 1 # 1 /\ i + 1 \in DOMAIN o /\ Tail(o)[i] = o[i + 1]
  BY TailIs
<1>2. /\ \A i \in DOMAIN s : s[i].id \in W!Ids
      /\ \A i \in DOMAIN o : o[i].id \in W!Ids
  <2>1. \A i \in DOMAIN s : s[i] \in Requests
    BY LenProperties, ElementOfSeq
  <2>2. \A i \in DOMAIN o : o[i] \in Answers
    BY LenProperties, ElementOfSeq
  <2> QED BY <2>1, <2>2 DEF Requests, Answers
<1>3. \A i \in DOMAIN s : q[s[i].id] = w
  BY <1>1, <1>2 DEF MatchedBy
<1>4. ASSUME NEW i \in DOMAIN Tail(o)
      PROVE  /\ q[Tail(o)[i].id] = w
             /\ Tail(o)[i].id \in Callers => Tail(o)[i].call = m[Tail(o)[i].id]
             /\ \A j \in DOMAIN s : s[j].id # Tail(o)[i].id
  <2>1. Tail(o)[i] = o[i + 1] /\ i + 1 # 1 /\ i + 1 \in DOMAIN o
    BY <1>1
  <2>2. o[i + 1].id # Head(o).id /\ o[i + 1].id \in W!Ids /\ p[o[i + 1].id] = w
    BY <1>1, <1>2, <2>1 DEF MatchedBy
  <2> QED BY <2>1, <2>2 DEF MatchedBy
<1>5. ASSUME NEW i \in DOMAIN Tail(o), NEW j \in DOMAIN Tail(o), Tail(o)[i].id = Tail(o)[j].id
      PROVE  i = j
  <2>1. i + 1 = j + 1
    BY <1>1, <1>5 DEF MatchedBy
  <2> QED BY <1>1, <2>1
<1> QED BY <1>3, <1>4, <1>5 DEF MatchedBy

\* A request that was answered has moved
LEMMA MatchedServed ==
  ASSUME NEW s \in Seq(Requests), s # <<>>, NEW o \in Seq(Answers), NEW p, NEW m, NEW w,
         MatchedBy(s, o, p, m, w), NEW e \in Answers, e.id = Head(s).id, e.call = Head(s).call
  PROVE  MatchedBy(Tail(s), Append(o, e), p, m, w)
<1>1. /\ Head(s) = s[1] /\ 1 \in DOMAIN s
      /\ \A i \in DOMAIN Tail(s) : i \in Nat /\ i + 1 # 1 /\ i + 1 \in DOMAIN s /\ Tail(s)[i] = s[i + 1]
  BY TailIs
<1>2. \A i \in DOMAIN Append(o, e) :
        \/ i \in DOMAIN o /\ Append(o, e)[i] = o[i]
        \/ i = Len(o) + 1 /\ Append(o, e)[i] = e
  BY AppendIs
<1>3. \A i \in DOMAIN Tail(s) : /\ p[Tail(s)[i].id] = w
                                /\ Tail(s)[i].id \in Callers => Tail(s)[i].call = m[Tail(s)[i].id]
  BY <1>1 DEF MatchedBy
<1>4. \A i \in DOMAIN Append(o, e) :
        /\ p[Append(o, e)[i].id] = w
        /\ Append(o, e)[i].id \in Callers => Append(o, e)[i].call = m[Append(o, e)[i].id]
  BY <1>1, <1>2 DEF MatchedBy
<1>5. ASSUME NEW i \in DOMAIN Tail(s), NEW j \in DOMAIN Tail(s), Tail(s)[i].id = Tail(s)[j].id
      PROVE  i = j
  <2>1. i + 1 = j + 1
    BY <1>1, <1>5 DEF MatchedBy
  <2> QED BY <1>1, <2>1
<1>6. ASSUME NEW i \in DOMAIN Append(o, e), NEW j \in DOMAIN Append(o, e),
             Append(o, e)[i].id = Append(o, e)[j].id
      PROVE  i = j
  BY <1>1, <1>2, <1>6 DEF MatchedBy
<1>7. ASSUME NEW i \in DOMAIN Tail(s), NEW j \in DOMAIN Append(o, e)
      PROVE  Tail(s)[i].id # Append(o, e)[j].id
  BY <1>1, <1>2 DEF MatchedBy
<1> QED BY <1>3, <1>4, <1>5, <1>6, <1>7 DEF MatchedBy

\* Retiring a worker leaves what must hold of the processes
LEMMA RecycleKeeps ==
  ASSUME WorkerInv, NEW reason \in {"gone", "closed", "idle"}, child # 0, ~spawning,
         reason = "idle" => W!Retired, W!Recycle(child, reason),
         UNCHANGED <<proc, queue, out, model, spawning>>,
         closing' = closing \/ (closing = "asked" /\ closing' = "joining")
  PROVE  WorkerInv'
<1>0. /\ W!TypeOK /\ W!TranscribesWithModel /\ W!IdleHarmsNoCall /\ W!CloseLeavesNothing /\ W!AnswerIsForThisCall
      /\ W!Generations /\ W!ModelKnown /\ W!Dismissed
  BY DEF WorkerInv
<1>1. child \in W!Gens /\ child \notin notified /\ proc[child] \notin {"none", "closed"} /\ 0 \notin W!Gens
  BY WorkerTypes
<1>2. proc' = proc /\ queue' = queue /\ out' = out /\ model' = model /\ spawning' = FALSE
  BY <1>0 DEF W!TypeOK
<1>3. /\ child' = 0 /\ idle' = FALSE /\ stopping' = {child} /\ notified' = notified \cup {child}
      /\ stage' \in [W!Gens -> {"none", "term", "kill", "left"}]
      /\ \A h \in W!Gens : h # child => stage'[h] = stage[h]
      /\ load' = "idle" /\ unready' \in BOOLEAN /\ crashed' \in BOOLEAN
  BY <1>0, <1>1 DEF W!Recycle, W!Without, W!TellOwner, W!TypeOK, W!Generations
<1>4. /\ pending' = [i \in W!Ids |-> 0]
      /\ UNCHANGED <<op, calls, answer>>
  BY <1>0 DEF W!Recycle, W!FailGeneration, W!TypeOK
<1>5. /\ pc' \in [Callers -> {"free", "ok", "failed"} \cup W!Waiting]
      /\ why' \in [Callers -> {"none", "answer", "gone", "closed"}]
      /\ \A c \in Callers : pc'[c] # "asked" /\ (pc'[c] = "ok" => pc[c] = "ok")
  BY <1>0 DEF W!Recycle, W!FailGeneration, W!TypeOK, W!IdleHarmsNoCall, W!Retired, W!Ids
<1>6. closing' \in {"no", "begun", "asked", "joining", "done"} /\ (closing' = "done" => closing = "done")
      /\ (closing' \in {"asked", "joining", "done"} => closing \in {"asked", "joining", "done"})
  BY <1>0 DEF W!TypeOK
<1>7. W!TypeOK'
  <2>1. TypesOf(proc, stage, model)' /\ queue' \in [W!Gens -> Seq(Requests)] /\ out' \in [W!Gens -> Seq(Answers)]
    BY <1>0, <1>2, <1>3 DEF W!TypeOK, TypesOf, Requests, Answers
  <2>2. /\ child' \in 0 .. MaxGens /\ stopping' \subseteq W!Gens /\ notified' \subseteq W!Gens
        /\ child' \notin stopping' \cup notified'
    BY <1>0, <1>1, <1>3, WorkerSettings DEF W!TypeOK
  <2>3. /\ pending' \in [W!Ids -> {0, child'}]
        /\ \A c \in Callers : (pc'[c] = "asked") = (pending'[c] # 0)
    BY <1>3, <1>4, <1>5 DEF W!Ids
  <2>4. /\ op' \in [Callers -> {"transcribe", "vad"}] /\ calls' \in [Callers -> 0 .. MaxCalls]
        /\ answer' \in [Callers -> 0 .. MaxCalls]
        /\ why' \in [Callers -> {"none", "answer", "gone", "idle", "closed"}]
    BY <1>0, <1>4, <1>5 DEF W!TypeOK
  <2> QED BY <1>2, <1>3, <1>5, <1>6, <2>1, <2>2, <2>3, <2>4, TypesNext
<1>8. W!Generations'
  BY <1>0, <1>1, <1>2, <1>3, WorkerSettings DEF W!Generations
<1>9. W!OneWorker'
  BY <1>7, <1>8, OneFollowsNext
<1>10. W!TranscribesWithModel'
  BY <1>0, <1>2 DEF W!TranscribesWithModel
<1>11. W!HealthIsHonest'
  BY <1>3 DEF W!HealthIsHonest
<1>12. W!IdleHarmsNoCall'
  BY <1>5 DEF W!IdleHarmsNoCall
<1>13. W!CloseLeavesNothing'
  BY <1>0, <1>6 DEF W!CloseLeavesNothing, W!Dismissed
<1>14. W!AnswerIsForThisCall'
  BY <1>0, <1>4, <1>5 DEF W!AnswerIsForThisCall
<1>15. W!ModelKnown'
  BY <1>0, <1>2, <1>3 DEF W!ModelKnown
<1>16. W!Dismissed'
  BY <1>0, <1>2, <1>3, <1>4, <1>6 DEF W!Dismissed
<1>17. W!Matched'
  BY <1>3 DEF W!Matched
<1> QED BY <1>7, <1>8, <1>9, <1>10, <1>11, <1>12, <1>13, <1>14, <1>15, <1>16, <1>17 DEF WorkerInv

\* So does a failed write
LEMMA WriteFailsKeeps == ASSUME WorkerInv, W!WriteFails PROVE WorkerInv'
<1>1. W!TypeOK /\ W!Generations
  BY DEF WorkerInv
<1>2. child # 0 /\ ~spawning /\ UNCHANGED <<proc, queue, out, model, spawning>> /\ closing' = closing
  BY <1>1 DEF W!WriteFails, W!Generations
<1>3. PICK reason \in {"gone", "closed"} : W!Recycle(child, reason)
  BY DEF W!WriteFails
<1> QED BY <1>2, <1>3, RecycleKeeps

LEMMA TimesOutKeeps == ASSUME WorkerInv, W!TimesOut PROVE WorkerInv'
<1>1. W!TypeOK
  BY DEF WorkerInv
<1>2. ~spawning /\ UNCHANGED <<proc, queue, out, model, spawning>> /\ closing' = closing
  BY DEF W!TimesOut
<1>3. PICK i \in W!Ids, reason \in {"gone", "closed"} : pending[i] # 0 /\ W!Recycle(pending[i], reason)
  BY DEF W!TimesOut
<1>4. pending[i] = child /\ child # 0
  BY <1>1, <1>3 DEF W!TypeOK
<1> QED BY <1>2, <1>3, <1>4, RecycleKeeps

LEMMA IdleFiresKeeps == ASSUME WorkerInv, W!IdleFires PROVE WorkerInv'
<1>0. /\ W!TypeOK /\ W!OneWorker /\ W!TranscribesWithModel /\ W!HealthIsHonest /\ W!IdleHarmsNoCall
      /\ W!CloseLeavesNothing /\ W!AnswerIsForThisCall /\ W!Generations /\ W!ModelKnown /\ W!Dismissed /\ W!Matched
  BY DEF WorkerInv
<1>1. /\ child # 0 /\ ~spawning /\ closing' = closing
      /\ UNCHANGED <<proc, queue, out, model, spawning>>
  BY <1>0 DEF W!IdleFires, W!Generations
<1>2. CASE W!Retired
  <2>1. W!Recycle(child, "idle")
    BY <1>2 DEF W!IdleFires
  <2> QED BY <1>1, <1>2, <2>1, RecycleKeeps
<1>3. CASE ~W!Retired
  <2>1. /\ UNCHANGED <<stage, child, stopping, notified, pending, pc, op, calls, answer, why>>
        /\ UNCHANGED <<load, unready, crashed>>
        /\ idle' = FALSE
    BY <1>3 DEF W!IdleFires, W!callers, W!owner
  <2>2. W!TypeOK'
    BY <1>0, <1>1, <2>1 DEF W!TypeOK
  <2>3. W!Generations'
    BY <1>0, <1>1, <2>1 DEF W!Generations
  <2>4. W!OneWorker' /\ W!TranscribesWithModel' /\ W!IdleHarmsNoCall' /\ W!CloseLeavesNothing' /\ W!AnswerIsForThisCall'
    BY <1>0, <1>1, <2>1, <2>2, <2>3, OneFollowsNext
    DEF W!TranscribesWithModel, W!IdleHarmsNoCall, W!CloseLeavesNothing, W!AnswerIsForThisCall
  <2>5. W!HealthIsHonest' /\ W!ModelKnown' /\ W!Dismissed'
    BY <1>0, <1>1, <2>1 DEF W!HealthIsHonest, W!HealthOk, W!Closed, W!ModelKnown, W!Dismissed
  <2>6. W!Matched'
    BY <1>0, <1>1, <2>1 DEF W!Matched, W!Current
  <2> QED BY <2>2, <2>3, <2>4, <2>5, <2>6 DEF WorkerInv
<1> QED BY <1>2, <1>3

LEMMA ShutDownKeeps == ASSUME WorkerInv, W!ShutDown PROVE WorkerInv'
<1>0. /\ W!TypeOK /\ W!OneWorker /\ W!TranscribesWithModel /\ W!HealthIsHonest /\ W!IdleHarmsNoCall
      /\ W!CloseLeavesNothing /\ W!AnswerIsForThisCall /\ W!Generations /\ W!ModelKnown /\ W!Dismissed /\ W!Matched
  BY DEF WorkerInv
<1>1. /\ closing = "asked" /\ closing' = "joining" /\ ~spawning
      /\ UNCHANGED <<proc, queue, out, model, spawning>>
  BY <1>0 DEF W!ShutDown, W!Dismissed
<1>2. CASE child # 0
  <2>1. W!Recycle(child, "closed")
    BY <1>2 DEF W!ShutDown
  <2> QED BY <1>1, <1>2, <2>1, RecycleKeeps
<1>3. CASE child = 0
  <2>1. /\ UNCHANGED <<stage, child, idle, stopping, notified, pending, pc, op, calls, answer, why>>
        /\ UNCHANGED <<load, unready, crashed>>
    BY <1>3 DEF W!ShutDown, W!callers, W!owner
  <2>2. W!TypeOK'
    BY <1>0, <1>1, <2>1 DEF W!TypeOK
  <2>3. W!Generations'
    BY <1>0, <1>1, <2>1 DEF W!Generations
  <2>4. W!OneWorker' /\ W!TranscribesWithModel' /\ W!IdleHarmsNoCall' /\ W!CloseLeavesNothing' /\ W!AnswerIsForThisCall'
    BY <1>0, <1>1, <2>1, <2>2, <2>3, OneFollowsNext
    DEF W!TranscribesWithModel, W!IdleHarmsNoCall, W!CloseLeavesNothing, W!AnswerIsForThisCall
  <2>5. W!HealthIsHonest' /\ W!ModelKnown' /\ W!Dismissed' /\ W!Matched'
    BY <1>0, <1>1, <1>3, <2>1 DEF W!HealthIsHonest, W!HealthOk, W!Closed, W!ModelKnown, W!Dismissed, W!Matched
  <2> QED BY <2>2, <2>3, <2>4, <2>5 DEF WorkerInv
<1> QED BY <1>2, <1>3

\* So does the end of close()
LEMMA CloseEndsKeeps == ASSUME WorkerInv, W!CloseEnds PROVE WorkerInv'
<1>0. /\ W!TypeOK /\ W!OneWorker /\ W!TranscribesWithModel /\ W!HealthIsHonest /\ W!IdleHarmsNoCall
      /\ W!CloseLeavesNothing /\ W!AnswerIsForThisCall /\ W!Generations /\ W!ModelKnown /\ W!Dismissed /\ W!Matched
  BY DEF WorkerInv
<1>1. /\ closing = "joining" /\ stopping = {} /\ closing' = "done" /\ load' = "idle" /\ child = 0
      /\ UNCHANGED <<proc, stage, queue, out, model, child, spawning, stopping, idle, notified, pending>>
      /\ UNCHANGED <<pc, op, calls, answer, why, unready, crashed>>
  BY <1>0 DEF W!CloseEnds, W!Dismissed, W!processes, W!worker, W!callers
<1>2. W!TypeOK'
  BY <1>0, <1>1 DEF W!TypeOK
<1>3. W!Generations'
  BY <1>0, <1>1 DEF W!Generations
<1>4. W!OneWorker' /\ W!TranscribesWithModel' /\ W!IdleHarmsNoCall' /\ W!AnswerIsForThisCall'
  BY <1>0, <1>1, <1>2, <1>3, OneFollowsNext
  DEF W!TranscribesWithModel, W!IdleHarmsNoCall, W!AnswerIsForThisCall
<1>5. W!HealthIsHonest' /\ W!ModelKnown' /\ W!Dismissed' /\ W!Matched'
  BY <1>0, <1>1 DEF W!HealthIsHonest, W!ModelKnown, W!Dismissed, W!Matched
<1>6. W!CloseLeavesNothing'
  <2>1. \A g \in W!Gens : /\ proc[g] \notin {"spawning", "alive", "exited"} \/ stage[g] = "left"
                          /\ proc'[g] = proc[g] /\ stage'[g] = stage[g]
    BY <1>0, <1>1, WorkerTypes DEF W!Generations
  <2>2. \A g \in W!Gens : proc[g] \in {"none", "spawning", "alive", "exited", "closed"}
    BY WorkerTypes
  <2> QED BY <2>1, <2>2 DEF W!CloseLeavesNothing
<1> QED BY <1>2, <1>3, <1>4, <1>5, <1>6 DEF WorkerInv

LEMMA WorkerGraceEndsKeeps == ASSUME WorkerInv, NEW g \in W!Gens, W!GraceEnds(g) PROVE WorkerInv'
<1>0. /\ W!TypeOK /\ W!OneWorker /\ W!TranscribesWithModel /\ W!HealthIsHonest /\ W!IdleHarmsNoCall
      /\ W!CloseLeavesNothing /\ W!AnswerIsForThisCall /\ W!Generations /\ W!ModelKnown /\ W!Dismissed /\ W!Matched
  BY DEF WorkerInv
<1>1. /\ UNCHANGED <<proc, queue, out, model, child, spawning, idle, notified, pending>>
      /\ UNCHANGED <<pc, op, calls, answer, why, load, unready, crashed, closing>>
      /\ \/ stage[g] = "term" /\ stage' = [stage EXCEPT ![g] = "kill"] /\ stopping' = stopping
         \/ stage' = [stage EXCEPT ![g] = "left"] /\ stopping' = stopping \ {g}
  BY DEF W!GraceEnds, W!callers, W!owner
<1>a. /\ stopping' \subseteq stopping
      /\ \A h \in W!Gens : /\ stage[h] = "left" => stage'[h] = "left"
                           /\ h \in stopping => h \in stopping' \/ stage'[h] = "left"
  BY <1>1, WorkerTypes
<1>2. W!TypeOK'
  <2>1. stage' \in [W!Gens -> {"none", "term", "kill", "left"}]
    BY <1>1, WorkerTypes
  <2> QED BY <1>0, <1>1, <1>a, <2>1 DEF W!TypeOK
<1>3. W!Generations'
  BY <1>0, <1>1, <1>a DEF W!Generations
<1>4. W!OneWorker' /\ W!TranscribesWithModel' /\ W!IdleHarmsNoCall' /\ W!AnswerIsForThisCall' /\ W!CloseLeavesNothing'
  BY <1>0, <1>1, <1>a, <1>2, <1>3, OneFollowsNext
  DEF W!TranscribesWithModel, W!IdleHarmsNoCall, W!AnswerIsForThisCall, W!CloseLeavesNothing
<1>5. W!HealthIsHonest' /\ W!ModelKnown' /\ W!Dismissed'
  BY <1>0, <1>1 DEF W!HealthIsHonest, W!HealthOk, W!Closed, W!ModelKnown, W!Dismissed
<1>6. W!Matched'
  BY <1>0, <1>1 DEF W!Matched, W!Current
<1> QED BY <1>2, <1>3, <1>4, <1>5, <1>6 DEF WorkerInv

LEMMA DiesKeeps == ASSUME WorkerInv, NEW g \in W!Gens, W!Dies(g) PROVE WorkerInv'
<1>0. /\ W!TypeOK /\ W!OneWorker /\ W!TranscribesWithModel /\ W!HealthIsHonest /\ W!IdleHarmsNoCall
      /\ W!CloseLeavesNothing /\ W!AnswerIsForThisCall /\ W!Generations /\ W!ModelKnown /\ W!Dismissed /\ W!Matched
  BY DEF WorkerInv
<1>1. /\ proc[g] = "alive" /\ proc' = [proc EXCEPT ![g] = "exited"] /\ queue' = [queue EXCEPT ![g] = <<>>]
      /\ UNCHANGED <<stage, out, model, child, spawning, stopping, idle, notified, pending>>
      /\ UNCHANGED <<pc, op, calls, answer, why, load, unready, crashed, closing>>
  BY DEF W!Dies, W!worker, W!callers, W!owner
<1>2. W!TypeOK'
  <2>1. TypesOf(proc, stage, model)' /\ queue' \in [W!Gens -> Seq(Requests)] /\ out' \in [W!Gens -> Seq(Answers)]
    BY <1>1, WorkerTypes DEF TypesOf
  <2>2. child' # 0 => proc'[child'] \notin {"none", "closed"}
    BY <1>0, <1>1 DEF W!TypeOK
  <2> QED BY <1>0, <1>1, <2>1, <2>2, TypesNext DEF W!TypeOK
<1>3. \A h \in W!Gens : queue'[h] = queue[h] \/ (h = g /\ queue'[h] = <<>>)
  BY <1>1, WorkerTypes
<1>4. W!Generations'
  <2>1. spawning' = (child' # 0 /\ proc'[child'] = "spawning")
    BY <1>0, <1>1, WorkerTypes DEF W!Generations
  <2> QED BY <1>0, <1>1, <1>3, <2>1, WorkerTypes DEF W!Generations
<1>5. W!OneWorker' /\ W!IdleHarmsNoCall' /\ W!AnswerIsForThisCall'
  BY <1>0, <1>1, <1>2, <1>4, OneFollowsNext DEF W!IdleHarmsNoCall, W!AnswerIsForThisCall
<1>6. W!CloseLeavesNothing'
  BY <1>0, <1>1 DEF W!CloseLeavesNothing
<1>7. W!TranscribesWithModel'
  BY <1>0, <1>1, <1>3 DEF W!TranscribesWithModel
<1>8. W!HealthIsHonest' /\ W!Dismissed'
  BY <1>0, <1>1 DEF W!HealthIsHonest, W!HealthOk, W!Closed, W!Dismissed
<1>9. W!ModelKnown'
  BY <1>0, <1>1, <1>3 DEF W!ModelKnown, W!Closed
<1>10. W!Matched'
  BY <1>0, <1>1, <1>3, WorkerTypes DEF W!Matched, W!Current
<1> QED BY <1>2, <1>4, <1>5, <1>6, <1>7, <1>8, <1>9, <1>10 DEF WorkerInv

LEMMA CloseEventKeeps == ASSUME WorkerInv, NEW g \in W!Gens, W!CloseEvent(g) PROVE WorkerInv'
<1>0. /\ W!TypeOK /\ W!OneWorker /\ W!TranscribesWithModel /\ W!HealthIsHonest /\ W!IdleHarmsNoCall
      /\ W!CloseLeavesNothing /\ W!AnswerIsForThisCall /\ W!Generations /\ W!ModelKnown /\ W!Dismissed /\ W!Matched
  BY DEF WorkerInv
<1>1. /\ proc[g] = "exited" /\ proc' = [proc EXCEPT ![g] = "closed"] /\ stage' = [stage EXCEPT ![g] = "none"]
      /\ queue' = [queue EXCEPT ![g] = <<>>] /\ model' = [model EXCEPT ![g] = FALSE]
      /\ child' = W!Without(g) /\ stopping' = stopping \ {g} /\ notified' = notified \cup {g}
      /\ UNCHANGED <<out, spawning, closing, op, calls, answer>> /\ out[g] = <<>>
  BY DEF W!CloseEvent, W!FailGeneration, W!TellOwner
<1>2. /\ pending' = [i \in W!Ids |-> IF pending[i] = g THEN 0 ELSE pending[i]]
      /\ pc' \in [Callers -> {"free", "ok", "failed"} \cup W!Waiting]
      /\ \A c \in Callers : /\ why'[c] # "idle"
                            /\ pc'[c] = "asked" <=> pc[c] = "asked" /\ pending[c] # g
                            /\ pc'[c] = "ok" => pc[c] = "ok"
  BY <1>0 DEF W!CloseEvent, W!FailGeneration, W!TypeOK, W!IdleHarmsNoCall, W!Waiting
<1>b. why' \in [Callers -> {"none", "answer", "gone", "idle", "closed"}]
  BY <1>0 DEF W!CloseEvent, W!FailGeneration, W!TypeOK
<1>3. /\ load' \in {"idle", "loading", "loaded", "failed"} /\ unready' \in BOOLEAN /\ crashed' \in BOOLEAN
      /\ (child = g => load' = "idle") /\ (load' = "idle" \/ UNCHANGED <<load, unready, crashed>>)
  BY <1>0, WorkerTypes DEF W!CloseEvent, W!TellOwner, W!TypeOK, W!owner
<1>4. idle' = IF child = g THEN FALSE ELSE idle
  BY DEF W!CloseEvent
<1>5. /\ child = g => child' = 0
      /\ child # g => child' = child
      /\ child' # g
  BY <1>1, WorkerTypes DEF W!Without
<1>6. W!TypeOK'
  <2>1. TypesOf(proc, stage, model)' /\ queue' \in [W!Gens -> Seq(Requests)] /\ out' \in [W!Gens -> Seq(Answers)]
    BY <1>1, WorkerTypes DEF TypesOf
  <2>2. /\ child' \in 0 .. MaxGens
        /\ child' # 0 => proc'[child'] \notin {"none", "closed"}
        /\ stopping' \subseteq W!Gens /\ notified' \subseteq W!Gens /\ child' \notin stopping' \cup notified'
    BY <1>0, <1>1, <1>5, WorkerSettings, WorkerTypes DEF W!TypeOK
  <2>3. pending' \in [W!Ids -> {0, child'}]
    BY <1>0, <1>2, <1>5 DEF W!TypeOK
  <2>4. \A c \in Callers : (pc'[c] = "asked") = (pending'[c] # 0)
    BY <1>0, <1>2, WorkerTypes DEF W!TypeOK, W!Ids
  <2>5. /\ op' \in [Callers -> {"transcribe", "vad"}] /\ calls' \in [Callers -> 0 .. MaxCalls]
        /\ answer' \in [Callers -> 0 .. MaxCalls] /\ spawning' \in BOOLEAN /\ idle' \in BOOLEAN
        /\ closing' \in {"no", "begun", "asked", "joining", "done"}
    BY <1>0, <1>1, <1>4 DEF W!TypeOK
  <2>6. why' \in [Callers -> {"none", "answer", "gone", "idle", "closed"}]
    BY <1>b
  <2> QED BY <1>2, <1>3, <2>1, <2>2, <2>3, <2>4, <2>5, <2>6, TypesNext
<1>7. \A h \in W!Gens : /\ h # g => queue'[h] = queue[h] /\ proc'[h] = proc[h] /\ model'[h] = model[h] /\ stage'[h] = stage[h]
                        /\ h = g => queue'[h] = <<>> /\ proc'[h] = "closed"
  BY <1>1, WorkerTypes
<1>8. W!Generations'
  <2>1. spawning' = (child' # 0 /\ proc'[child'] = "spawning")
    BY <1>0, <1>1, <1>5, <1>7, WorkerTypes DEF W!Generations
  <2> QED BY <1>0, <1>1, <1>4, <1>5, <1>7, <2>1, WorkerTypes DEF W!Generations
<1>9. W!OneWorker' /\ W!IdleHarmsNoCall' /\ W!AnswerIsForThisCall'
  BY <1>0, <1>1, <1>2, <1>6, <1>8, OneFollowsNext DEF W!IdleHarmsNoCall, W!AnswerIsForThisCall
<1>10. W!CloseLeavesNothing'
  BY <1>0, <1>1, <1>7 DEF W!CloseLeavesNothing
<1>11. W!TranscribesWithModel'
  BY <1>0, <1>7 DEF W!TranscribesWithModel
<1>12. W!ModelKnown'
  BY <1>0, <1>1, <1>3, <1>5, <1>7, WorkerTypes DEF W!ModelKnown, W!Closed
<1>13. W!HealthIsHonest'
  BY <1>0, <1>1, <1>3, <1>5, <1>7, WorkerTypes DEF W!HealthIsHonest, W!HealthOk, W!Closed
<1>14. W!Dismissed'
  BY <1>0, <1>1, <1>2, <1>5 DEF W!Dismissed
<1>15. W!Matched'
  <2>1. CASE child' # 0
    <3>1. child' = child /\ queue'[child] = queue[child] /\ child # g /\ child \in W!Gens
      BY <1>5, <1>7, <2>1, WorkerTypes
    <3>2. \A i \in W!Ids : pending'[i] = pending[i]
      BY <1>0, <1>2, <3>1, WorkerTypes DEF W!TypeOK
    <3>3. /\ \A i \in DOMAIN queue[child] : queue[child][i].id \in W!Ids
          /\ \A i \in DOMAIN out[child] : out[child][i].id \in W!Ids
      BY <3>1, Entries
    <3> QED BY <1>0, <1>1, <3>1, <3>2, <3>3 DEF W!Matched, W!Current
  <2> QED BY <2>1 DEF W!Matched
<1> QED BY <1>6, <1>8, <1>9, <1>10, <1>11, <1>12, <1>13, <1>14, <1>15 DEF WorkerInv

LEMMA SpawnFailsKeeps == ASSUME WorkerInv, W!SpawnFails PROVE WorkerInv'
<1>0. /\ W!TypeOK /\ W!OneWorker /\ W!TranscribesWithModel /\ W!HealthIsHonest /\ W!IdleHarmsNoCall
      /\ W!CloseLeavesNothing /\ W!AnswerIsForThisCall /\ W!Generations /\ W!ModelKnown /\ W!Dismissed /\ W!Matched
  BY DEF WorkerInv
<1>1. child # 0 /\ child \in W!Gens /\ child \notin notified /\ proc[child] = "spawning" /\ stopping = {} /\ 0 \notin W!Gens
  BY <1>0, WorkerTypes DEF W!SpawnFails, W!Generations
<1>2. /\ proc' = [proc EXCEPT ![child] = "exited"] /\ spawning' = FALSE /\ child' = 0 /\ idle' = FALSE
      /\ stopping' = {child} /\ stage' = [stage EXCEPT ![child] = "term"] /\ notified' = notified \cup {child}
      /\ UNCHANGED <<queue, out, model, op, calls, answer, closing>>
      /\ load' = "idle" /\ unready' = TRUE /\ crashed' = TRUE
  BY <1>1 DEF W!SpawnFails, W!TellOwner
<1>3. pending' = [i \in W!Ids |-> 0]
  BY <1>0, <1>1 DEF W!SpawnFails, W!TypeOK
<1>4. /\ pc' \in [Callers -> {"free", "ok", "failed"} \cup W!Waiting]
      /\ \A c \in Callers : pc'[c] # "asked" /\ (pc'[c] = "ok" => pc[c] = "ok")
  <2>1. pc \in [Callers -> {"free", "ok", "failed"} \cup W!Waiting] /\ \A c \in Callers : pc[c] = "asked" => pending[c] = child
    BY <1>0 DEF W!TypeOK, W!Ids
  <2>2. pc' = [c \in Callers |-> IF c \in {d \in Callers : pending[d] = child \/ pc[d] \in {"starting", "loading"}}
                                 THEN "failed" ELSE pc[c]]
    BY DEF W!SpawnFails
  <2> QED BY <2>1, <2>2
<1>5. why' \in [Callers -> {"none", "answer", "gone", "idle", "closed"}] /\ \A c \in Callers : why'[c] # "idle"
  BY <1>0 DEF W!SpawnFails, W!TypeOK, W!IdleHarmsNoCall
<1>6. W!TypeOK'
  <2>1. TypesOf(proc, stage, model)' /\ queue' \in [W!Gens -> Seq(Requests)] /\ out' \in [W!Gens -> Seq(Answers)]
    BY <1>2, WorkerTypes DEF TypesOf
  <2>2. /\ child' \in 0 .. MaxGens
        /\ child' # 0 => proc'[child'] \notin {"none", "closed"}
        /\ stopping' \subseteq W!Gens /\ notified' \subseteq W!Gens /\ child' \notin stopping' \cup notified'
    BY <1>0, <1>1, <1>2, WorkerSettings DEF W!TypeOK
  <2>3. /\ pending' \in [W!Ids -> {0, child'}]
        /\ \A c \in Callers : (pc'[c] = "asked") = (pending'[c] # 0)
    BY <1>2, <1>3, <1>4 DEF W!Ids
  <2>4. /\ op' \in [Callers -> {"transcribe", "vad"}] /\ calls' \in [Callers -> 0 .. MaxCalls]
        /\ answer' \in [Callers -> 0 .. MaxCalls]
        /\ closing' \in {"no", "begun", "asked", "joining", "done"}
    BY <1>0, <1>2 DEF W!TypeOK
  <2> QED BY <1>2, <1>4, <1>5, <2>1, <2>2, <2>3, <2>4, TypesNext
<1>7. \A h \in W!Gens : /\ h # child => proc'[h] = proc[h] /\ stage'[h] = stage[h]
                        /\ h = child => proc'[h] = "exited"
  BY <1>2, WorkerTypes
<1>8. W!Generations'
  BY <1>0, <1>1, <1>2, <1>7 DEF W!Generations
<1>9. W!OneWorker' /\ W!IdleHarmsNoCall' /\ W!AnswerIsForThisCall'
  BY <1>0, <1>2, <1>4, <1>5, <1>6, <1>8, OneFollowsNext DEF W!IdleHarmsNoCall, W!AnswerIsForThisCall
<1>10. W!CloseLeavesNothing'
  BY <1>0, <1>1, <1>2 DEF W!CloseLeavesNothing, W!Dismissed
<1>11. W!TranscribesWithModel'
  BY <1>0, <1>2 DEF W!TranscribesWithModel
<1>12. W!ModelKnown' /\ W!HealthIsHonest' /\ W!Matched'
  BY <1>0, <1>2 DEF W!ModelKnown, W!HealthIsHonest, W!Matched
<1>13. W!Dismissed'
  BY <1>0, <1>2, <1>3 DEF W!Dismissed
<1> QED BY <1>6, <1>8, <1>9, <1>10, <1>11, <1>12, <1>13 DEF WorkerInv

LEMMA ServesKeeps == ASSUME WorkerInv, NEW g \in W!Gens, W!Serves(g) PROVE WorkerInv'
<1>0. /\ W!TypeOK /\ W!OneWorker /\ W!TranscribesWithModel /\ W!HealthIsHonest /\ W!IdleHarmsNoCall
      /\ W!CloseLeavesNothing /\ W!AnswerIsForThisCall /\ W!Generations /\ W!ModelKnown /\ W!Dismissed /\ W!Matched
  BY DEF WorkerInv
<1> DEFINE r == Head(queue[g])
<1>1. PICK ok \in BOOLEAN :
        /\ queue' = [queue EXCEPT ![g] = Tail(@)]
        /\ out' = [out EXCEPT ![g] = Append(@, [id |-> r.id, op |-> r.op, call |-> r.call, ok |-> ok])]
        /\ model' = IF r.op = "load" /\ ok THEN [model EXCEPT ![g] = TRUE] ELSE model
        /\ proc' = IF r.op = "shutdown" THEN [proc EXCEPT ![g] = "exited"] ELSE proc
  BY DEF W!Serves
<1>2. /\ proc[g] = "alive" /\ queue[g] # <<>>
      /\ UNCHANGED <<stage, child, spawning, stopping, idle, notified, pending>>
      /\ UNCHANGED <<pc, op, calls, answer, why, load, unready, crashed, closing>>
  BY DEF W!Serves, W!worker, W!callers, W!owner
<1> DEFINE e == [id |-> r.id, op |-> r.op, call |-> r.call, ok |-> ok]
<1>3. /\ queue[g] \in Seq(Requests) /\ out[g] \in Seq(Answers)
  BY WorkerTypes
<1>4. /\ r = queue[g][1] /\ 1 \in DOMAIN queue[g] /\ r \in Requests /\ Tail(queue[g]) \in Seq(Requests)
      /\ \A i \in DOMAIN Tail(queue[g]) : i + 1 \in DOMAIN queue[g] /\ Tail(queue[g])[i] = queue[g][i + 1]
  BY <1>2, <1>3, TailIs
<1>5. e \in Answers /\ e.id = r.id /\ e.call = r.call /\ e.ok = ok
  BY <1>4 DEF Requests, Answers
<1>6. /\ Append(out[g], e) \in Seq(Answers)
      /\ \A i \in DOMAIN Append(out[g], e) :
           \/ i \in DOMAIN out[g] /\ Append(out[g], e)[i] = out[g][i]
           \/ Append(out[g], e)[i] = e
  BY <1>3, <1>5, AppendIs
<1>7. /\ queue' = [queue EXCEPT ![g] = Tail(queue[g])] /\ out' = [out EXCEPT ![g] = Append(out[g], e)]
      /\ model' \in [W!Gens -> BOOLEAN] /\ \A h \in W!Gens : model[h] => model'[h]
      /\ r.op = "load" /\ ok => model'[g]
  BY <1>1, WorkerTypes
<1>8. /\ queue'[g] = Tail(queue[g]) /\ out'[g] = Append(out[g], e)
      /\ \A h \in W!Gens : h # g => queue'[h] = queue[h] /\ out'[h] = out[h] /\ proc'[h] = proc[h]
      /\ proc'[g] \in {"alive", "exited"}
      /\ proc' \in [W!Gens -> {"none", "spawning", "alive", "exited", "closed"}]
  BY <1>1, <1>2, <1>7, WorkerTypes
<1> HIDE DEF r, e
<1>9. W!TypeOK'
  <2>1. TypesOf(proc, stage, model)'
    BY <1>2, <1>7, <1>8, WorkerTypes DEF TypesOf
  <2>2. queue' \in [W!Gens -> Seq(Requests)] /\ out' \in [W!Gens -> Seq(Answers)]
    BY <1>4, <1>6, <1>7, WorkerTypes
  <2>3. child' # 0 => proc'[child'] \notin {"none", "closed"}
    BY <1>2, <1>8, WorkerTypes
  <2> QED BY <1>0, <1>2, <2>1, <2>2, <2>3, TypesNext DEF W!TypeOK
<1>10. W!Generations'
  <2>1. spawning' = (child' # 0 /\ proc'[child'] = "spawning")
    BY <1>0, <1>2, <1>8, WorkerTypes DEF W!Generations
  <2>2. /\ \A h \in W!Gens : proc'[h] \in {"spawning", "alive", "exited"} => h = child' \/ h \in stopping' \/ stage[h] = "left"
        /\ \A h \in W!Gens : proc'[h] = "none" => h \notin notified' /\ queue'[h] = <<>>
        /\ \A h \in W!Gens : proc'[h] \in {"none", "spawning"} => out'[h] = <<>>
    BY <1>0, <1>2, <1>8 DEF W!Generations
  <2> QED BY <1>0, <1>2, <2>1, <2>2 DEF W!Generations
<1>11. W!OneWorker' /\ W!IdleHarmsNoCall' /\ W!AnswerIsForThisCall'
  BY <1>0, <1>2, <1>9, <1>10, OneFollowsNext DEF W!IdleHarmsNoCall, W!AnswerIsForThisCall
<1>12. W!CloseLeavesNothing'
  BY <1>0, <1>2, <1>8 DEF W!CloseLeavesNothing
<1>13. W!TranscribesWithModel'
  BY <1>0, <1>4, <1>7, <1>8 DEF W!TranscribesWithModel
<1>14. W!ModelKnown'
  <2>1. \A h \in W!Gens : \A i \in DOMAIN queue'[h] :
          \A o \in {"load", "shutdown"} : queue'[h][i].op = o <=> queue'[h][i].id = o
    <3>1. KnownOps(Tail(queue[g]))
      BY <1>0, <1>4 DEF KnownOps, W!ModelKnown
    <3>a. \A h \in W!Gens : KnownOps(queue[h])
      BY <1>0 DEF KnownOps, W!ModelKnown
    <3>2. \A h \in W!Gens : KnownOps(queue'[h])
      BY <1>8, <3>1, <3>a
    <3> QED BY <3>2 DEF KnownOps
  <2>2. e.id = "load" /\ e.ok => model'[g]
    <3>1. r.op = "load" <=> r.id = "load"
      BY <1>0, <1>4 DEF W!ModelKnown
    <3> QED BY <1>5, <1>7, <3>1
  <2>3. \A h \in W!Gens : \A i \in DOMAIN out'[h] : out'[h][i].id = "load" /\ out'[h][i].ok => model'[h]
    BY <1>0, <1>6, <1>7, <1>8, <2>2 DEF W!ModelKnown
  <2>4. load' = "loaded" => child' # 0 /\ model'[child'] /\ (W!Closed' \/ ~unready')
    BY <1>0, <1>2, <1>7, WorkerTypes DEF W!ModelKnown, W!Closed
  <2> QED BY <2>1, <2>3, <2>4 DEF W!ModelKnown
<1>15. W!HealthIsHonest'
  BY <1>0, <1>2, <1>7, WorkerTypes DEF W!HealthIsHonest, W!HealthOk, W!Closed
<1>16. W!Dismissed'
  BY <1>0, <1>2 DEF W!Dismissed
<1>17. W!Matched'
  <2>1. SUFFICES ASSUME child # 0, closing \in {"no", "begun"}
                 PROVE  MatchedBy(queue'[child], out'[child], pending, calls, child)
    BY <1>2, MatchedIsNext
  <2>2. MatchedBy(queue[child], out[child], pending, calls, child)
    BY <1>0, <2>1, MatchedIs
  <2>3. CASE child = g
    BY <1>2, <1>3, <1>5, <1>8, <2>2, <2>3, MatchedServed DEF r
  <2>4. CASE child # g
    BY <1>8, <2>1, <2>2, <2>4, WorkerTypes
  <2> QED BY <2>3, <2>4
<1> QED BY <1>9, <1>10, <1>11, <1>12, <1>13, <1>14, <1>15, <1>16, <1>17 DEF WorkerInv

LEMMA WorkerCloseKeeps == ASSUME WorkerInv, W!Close PROVE WorkerInv'
<1>0. /\ W!TypeOK /\ W!OneWorker /\ W!TranscribesWithModel /\ W!HealthIsHonest /\ W!IdleHarmsNoCall
      /\ W!CloseLeavesNothing /\ W!AnswerIsForThisCall /\ W!Generations /\ W!ModelKnown /\ W!Dismissed /\ W!Matched
  BY DEF WorkerInv
<1>1. /\ closing \in {"no", "begun"}
      /\ UNCHANGED <<proc, stage, out, model, child, spawning, stopping, notified, op, calls, answer, crashed>>
  BY DEF W!Close
<1>2. CASE child = 0 \/ spawning
  <2>1. /\ UNCHANGED <<queue, idle, pending, pc, why, load, unready>>
        /\ closing' \in {"begun", "joining"} /\ (closing' = "joining" => ~spawning /\ child = 0)
    BY <1>0, <1>2 DEF W!Close, W!AskToShutDown, W!Generations
  <2>2. W!TypeOK'
    BY <1>0, <1>1, <2>1 DEF W!TypeOK
  <2>3. W!Generations'
    BY <1>0, <1>1, <2>1 DEF W!Generations
  <2>4. W!OneWorker' /\ W!TranscribesWithModel' /\ W!IdleHarmsNoCall' /\ W!AnswerIsForThisCall' /\ W!CloseLeavesNothing'
    BY <1>0, <1>1, <2>1, <2>2, <2>3, OneFollowsNext
    DEF W!TranscribesWithModel, W!IdleHarmsNoCall, W!AnswerIsForThisCall, W!CloseLeavesNothing
  <2>5. W!HealthIsHonest' /\ W!ModelKnown'
    BY <1>0, <1>1, <2>1 DEF W!HealthIsHonest, W!HealthOk, W!Closed, W!ModelKnown
  <2>6. W!Matched'
    BY <1>0, <1>1, <2>1 DEF W!Matched, W!Current
  <2>7. W!Dismissed'
    BY <1>0, <1>1, <2>1 DEF W!Dismissed, W!TypeOK
  <2> QED BY <2>2, <2>3, <2>4, <2>5, <2>6, <2>7 DEF WorkerInv
<1>3. CASE child # 0 /\ ~spawning
  <2> DEFINE ask == <<W!Request("shutdown", "shutdown", 0)>>
  <2>1. /\ closing' = "asked" /\ idle' = FALSE
        /\ pending' = [i \in W!Ids |-> IF i = "shutdown" THEN child ELSE 0]
        /\ queue' = [queue EXCEPT ![child] = queue[child] \o ask]
        /\ load' = IF pending["load"] = child THEN "failed" ELSE load
        /\ unready' = (unready \/ pending["load"] = child)
    BY <1>3 DEF W!Close, W!AskToShutDown, W!Sent
  <2>2. /\ pc' \in [Callers -> {"free", "ok", "failed"} \cup W!Waiting]
        /\ \A c \in Callers : pc'[c] # "asked" /\ (pc'[c] = "ok" => pc[c] = "ok")
    <3>1. pc \in [Callers -> {"free", "ok", "failed"} \cup W!Waiting] /\ \A c \in Callers : pc[c] = "asked" => pending[c] = child
      BY <1>0 DEF W!TypeOK, W!Ids
    <3>2. pc' = [c \in Callers |-> IF c \in {d \in Callers : pending[d] = child \/ pc[d] = "loading"}
                                   THEN "failed" ELSE pc[c]]
      BY <1>3 DEF W!Close, W!AskToShutDown
    <3> QED BY <3>1, <3>2
  <2>3. why' \in [Callers -> {"none", "answer", "gone", "idle", "closed"}] /\ \A c \in Callers : why'[c] # "idle"
    BY <1>0, <1>3 DEF W!Close, W!AskToShutDown, W!TypeOK, W!IdleHarmsNoCall
  <2>4. child \in W!Gens /\ queue[child] \in Seq(Requests)
    BY <1>3, WorkerTypes
  <2>5. ask \in Seq(Requests) /\ DOMAIN ask = {1} /\ ask[1] = W!Request("shutdown", "shutdown", 0)
    BY WorkerSettings DEF Requests, W!Request, W!Ids, W!Ops
  <2> HIDE DEF ask
  <2>6. /\ queue[child] \o ask \in Seq(Requests)
        /\ \A i \in DOMAIN (queue[child] \o ask) :
             \/ i \in DOMAIN queue[child] /\ (queue[child] \o ask)[i] = queue[child][i]
             \/ (queue[child] \o ask)[i] = W!Request("shutdown", "shutdown", 0)
    BY <2>4, <2>5, SentTogether
  <2>7. /\ queue' \in [W!Gens -> Seq(Requests)]
        /\ \A h \in W!Gens : queue'[h] = IF h = child THEN queue[child] \o ask ELSE queue[h]
    BY <2>1, <2>4, <2>6, WorkerTypes
  <2>8. W!TypeOK'
    <3>1. TypesOf(proc, stage, model)' /\ out' \in [W!Gens -> Seq(Answers)]
      BY <1>1, WorkerTypes DEF TypesOf
    <3>2. /\ pending' \in [W!Ids -> {0, child'}]
          /\ \A c \in Callers : (pc'[c] = "asked") = (pending'[c] # 0)
      BY <1>1, <2>1, <2>2, WorkerSettings DEF W!Ids
    <3>3. load' \in {"idle", "loading", "loaded", "failed"} /\ unready' \in BOOLEAN
      BY <1>0, <2>1 DEF W!TypeOK
    <3> QED BY <1>0, <1>1, <2>1, <2>2, <2>3, <2>7, <3>1, <3>2, <3>3, TypesNext DEF W!TypeOK
  <2>9. W!Generations'
    BY <1>0, <1>1, <2>1, <2>7, WorkerTypes DEF W!Generations
  <2>10. W!OneWorker' /\ W!IdleHarmsNoCall' /\ W!AnswerIsForThisCall' /\ W!CloseLeavesNothing'
    BY <1>0, <1>1, <2>1, <2>2, <2>3, <2>8, <2>9, OneFollowsNext
    DEF W!IdleHarmsNoCall, W!AnswerIsForThisCall, W!CloseLeavesNothing
  <2>11. W!TranscribesWithModel'
    <3>1. \A i \in DOMAIN (queue[child] \o ask) : (queue[child] \o ask)[i].op = "transcribe" => model[child]
      BY <1>0, <2>4, <2>6 DEF W!TranscribesWithModel, W!Request
    <3> QED BY <1>0, <1>1, <2>7, <3>1 DEF W!TranscribesWithModel
  <2>12. W!ModelKnown'
    <3>1. \A h \in W!Gens : \A i \in DOMAIN queue'[h] :
            \A o \in {"load", "shutdown"} : queue'[h][i].op = o <=> queue'[h][i].id = o
      <4>1. KnownOps(queue[child] \o ask)
        BY <1>0, <2>4, <2>6 DEF KnownOps, W!ModelKnown, W!Request
      <4>2. \A h \in W!Gens : KnownOps(queue'[h])
        BY <1>0, <2>7, <4>1 DEF KnownOps, W!ModelKnown
      <4> QED BY <4>2 DEF KnownOps
    <3> QED BY <1>0, <1>1, <2>1, <3>1 DEF W!ModelKnown, W!Closed
  <2>13. W!HealthIsHonest'
    BY <2>1 DEF W!HealthIsHonest, W!HealthOk, W!Closed
  <2>14. W!Dismissed' /\ W!Matched'
    BY <1>1, <1>3, <2>1 DEF W!Dismissed, W!Matched
  <2> QED BY <2>8, <2>9, <2>10, <2>11, <2>12, <2>13, <2>14 DEF WorkerInv
<1> QED BY <1>2, <1>3

\* A call goes on with the current worker: it is sent, or waits for the load
LEMMA ProceedKeeps ==
  ASSUME WorkerInv, NEW c \in Callers, NEW o \in {"transcribe", "vad"}, NEW n \in 0 .. MaxCalls,
         child # 0, ~W!Closed, pc[c] # "asked", W!Proceed(c, o, child, n),
         UNCHANGED <<stage, out, model, child, stopping, notified, answer, why, unready, crashed, closing>>,
         op' \in [Callers -> {"transcribe", "vad"}],
         calls' \in [Callers -> 0 .. MaxCalls], calls'[c] = n,
         \A d \in Callers : d # c => calls'[d] = calls[d],
         proc' \in [W!Gens -> {"none", "spawning", "alive", "exited", "closed"}],
         \A h \in W!Gens : h # child => proc'[h] = proc[h],
         proc'[child] = proc[child] \/ (proc[child] = "spawning" /\ proc'[child] = "alive"),
         spawning' = (proc'[child] = "spawning"), idle' = FALSE
  PROVE  WorkerInv'
<1>0. /\ W!TypeOK /\ W!OneWorker /\ W!TranscribesWithModel /\ W!HealthIsHonest /\ W!IdleHarmsNoCall
      /\ W!CloseLeavesNothing /\ W!AnswerIsForThisCall /\ W!Generations /\ W!ModelKnown /\ W!Dismissed /\ W!Matched
  BY DEF WorkerInv
<1>1. /\ child \in W!Gens /\ queue[child] \in Seq(Requests) /\ out[child] \in Seq(Answers)
      /\ proc[child] \notin {"none", "closed"} /\ proc'[child] \notin {"none", "closed"}
      /\ closing = "no" /\ closing' = "no" /\ stopping = {}
  BY <1>0, WorkerTypes DEF W!Closed, W!Generations
<1>2. c \in W!Ids /\ "load" \in W!Ids /\ c # "load" /\ c # "shutdown" /\ pending \in [W!Ids -> {0, child}]
      /\ pending[c] = 0 /\ pc \in [Callers -> {"free", "ok", "failed"} \cup W!Waiting]
      /\ \A d \in Callers : (pc[d] = "asked") = (pending[d] # 0)
  BY <1>0, WorkerSettings DEF W!TypeOK, W!Ids
\* What is sent, and what becomes of the call
<1>3. \E t \in Seq(Requests) :
        /\ queue' = [queue EXCEPT ![child] = queue[child] \o t]
        /\ pending' \in [W!Ids -> {0, child}]
        /\ \A i \in W!Ids : pending[i] = child => pending'[i] = child
        /\ \A d \in Callers : (pc'[d] = "asked") = (pending'[d] # 0)
        /\ pc' \in [Callers -> {"free", "ok", "failed"} \cup W!Waiting]
        /\ \A d \in Callers : pc'[d] = "ok" => pc[d] = "ok" /\ d # c
        /\ load' = load \/ load' = "loading"
        /\ Fresh(t, pending, pending', calls', child)
        /\ \A i \in DOMAIN t : t[i].op = "transcribe" => load = "loaded"
        /\ KnownOps(t)
  <2>1. CASE o = "vad" \/ load = "loaded"
    <3> DEFINE t == <<W!Request(c, o, n)>>
    <3>1. /\ pc' = [pc EXCEPT ![c] = "asked"] /\ pending' = [pending EXCEPT ![c] = child]
          /\ queue' = [queue EXCEPT ![child] = queue[child] \o t] /\ load' = load
      BY <2>1 DEF W!Proceed, W!Sent
    <3>2. t \in Seq(Requests) /\ DOMAIN t = {1} /\ t[1] = W!Request(c, o, n)
      BY <1>2 DEF Requests, W!Request, W!Ops
    <3>3. KnownOps(t)
      BY <1>2, <3>2, WorkerSettings DEF KnownOps, W!Request
    <3> HIDE DEF t
    <3>4. /\ pending'[c] = child /\ \A i \in W!Ids : i # c => pending'[i] = pending[i]
          /\ pc'[c] = "asked" /\ \A d \in Callers : d # c => pc'[d] = pc[d]
          /\ pending' \in [W!Ids -> {0, child}]
          /\ pc' \in [Callers -> {"free", "ok", "failed"} \cup W!Waiting]
      BY <1>2, <3>1 DEF W!Waiting
    <3>5. \A d \in Callers : d \in W!Ids
      BY DEF W!Ids
    <3>6. /\ Fresh(t, pending, pending', calls', child)
          /\ \A i \in DOMAIN t : t[i].op = "transcribe" => load = "loaded"
      BY <1>2, <2>1, <3>2, <3>4 DEF W!Request, Fresh
    <3> QED BY <1>2, <3>1, <3>2, <3>3, <3>4, <3>5, <3>6
  <2>2. CASE ~(o = "vad" \/ load = "loaded") /\ pending["load"] = 0
    <3> DEFINE t == <<W!Request("load", "load", 0)>>
    <3>1. /\ pc' = [pc EXCEPT ![c] = "loading"] /\ pending' = [pending EXCEPT !["load"] = child]
          /\ queue' = [queue EXCEPT ![child] = queue[child] \o t] /\ load' = "loading"
      BY <2>2 DEF W!Proceed, W!Sent
    <3>2. t \in Seq(Requests) /\ DOMAIN t = {1} /\ t[1] = W!Request("load", "load", 0)
      BY <1>2, WorkerSettings DEF Requests, W!Request, W!Ops
    <3>3. KnownOps(t)
      BY <3>2 DEF KnownOps, W!Request
    <3> HIDE DEF t
    <3>4. /\ pending'["load"] = child /\ \A i \in W!Ids : i # "load" => pending'[i] = pending[i]
          /\ pc'[c] = "loading" /\ \A d \in Callers : d # c => pc'[d] = pc[d]
          /\ pending' \in [W!Ids -> {0, child}]
          /\ pc' \in [Callers -> {"free", "ok", "failed"} \cup W!Waiting]
      BY <1>2, <3>1 DEF W!Waiting
    <3>5. \A d \in Callers : d \in W!Ids /\ d # "load"
      BY WorkerSettings DEF W!Ids
    <3>6. /\ Fresh(t, pending, pending', calls', child)
          /\ \A i \in DOMAIN t : t[i].op # "transcribe"
      BY <2>2, <3>2, <3>4, WorkerSettings DEF W!Request, Fresh
    <3> QED BY <1>2, <3>1, <3>2, <3>3, <3>4, <3>5, <3>6
  <2>3. CASE ~(o = "vad" \/ load = "loaded") /\ pending["load"] # 0
    <3>1. pc' = [pc EXCEPT ![c] = "loading"] /\ UNCHANGED <<pending, queue, load>>
      BY <2>3 DEF W!Proceed
    <3>2. /\ <<>> \in Seq(Requests) /\ DOMAIN <<>> = {} /\ queue[child] \o <<>> = queue[child] /\ KnownOps(<<>>)
          /\ Fresh(<<>>, pending, pending', calls', child)
      BY <1>1, EmptySeq, ConcatEmptySeq DEF KnownOps, Fresh
    <3>3. queue' = [queue EXCEPT ![child] = queue[child] \o <<>>]
      BY <1>1, <3>1, <3>2, WorkerTypes
    <3>4. /\ pc'[c] = "loading" /\ \A d \in Callers : d # c => pc'[d] = pc[d]
          /\ pc' \in [Callers -> {"free", "ok", "failed"} \cup W!Waiting]
      BY <1>2, <3>1 DEF W!Waiting
    <3> QED BY <1>2, <3>1, <3>2, <3>3, <3>4
  <2> QED BY <2>1, <2>2, <2>3
<1>4. PICK t \in Seq(Requests) :
        /\ queue' = [queue EXCEPT ![child] = queue[child] \o t]
        /\ pending' \in [W!Ids -> {0, child}]
        /\ \A i \in W!Ids : pending[i] = child => pending'[i] = child
        /\ \A d \in Callers : (pc'[d] = "asked") = (pending'[d] # 0)
        /\ pc' \in [Callers -> {"free", "ok", "failed"} \cup W!Waiting]
        /\ \A d \in Callers : pc'[d] = "ok" => pc[d] = "ok" /\ d # c
        /\ load' = load \/ load' = "loading"
        /\ Fresh(t, pending, pending', calls', child)
        /\ \A i \in DOMAIN t : t[i].op = "transcribe" => load = "loaded"
        /\ KnownOps(t)
  BY <1>3
<1>5. /\ queue[child] \o t \in Seq(Requests)
      /\ \A i \in DOMAIN (queue[child] \o t) :
           \/ i \in DOMAIN queue[child] /\ (queue[child] \o t)[i] = queue[child][i]
           \/ \E j \in DOMAIN t : (queue[child] \o t)[i] = t[j]
  BY <1>1, SentTogether
<1>6. /\ queue' \in [W!Gens -> Seq(Requests)]
      /\ queue'[child] = queue[child] \o t
      /\ \A h \in W!Gens : h # child => queue'[h] = queue[h]
  BY <1>1, <1>4, <1>5, WorkerTypes
<1>7. W!TypeOK'
  <2>1. TypesOf(proc, stage, model)' /\ out' \in [W!Gens -> Seq(Answers)]
    BY WorkerTypes DEF TypesOf
  <2>2. load' \in {"idle", "loading", "loaded", "failed"} /\ spawning' \in BOOLEAN /\ idle' \in BOOLEAN
    BY <1>0, <1>4 DEF W!TypeOK
  <2> QED BY <1>0, <1>1, <1>4, <1>6, <2>1, <2>2, TypesNext DEF W!TypeOK
<1>8. W!Generations'
  <2>1. \A h \in W!Gens : /\ proc'[h] \in {"spawning", "alive", "exited"} => h = child \/ h \in stopping \/ stage[h] = "left"
                          /\ proc'[h] = "none" => h \notin notified /\ queue'[h] = <<>>
                          /\ proc'[h] \in {"none", "spawning"} => out[h] = <<>>
    BY <1>0, <1>1, <1>6 DEF W!Generations
  <2> QED BY <1>0, <1>1, <2>1 DEF W!Generations
<1>9. W!OneWorker' /\ W!IdleHarmsNoCall'
  BY <1>0, <1>7, <1>8, OneFollowsNext DEF W!IdleHarmsNoCall
<1>10. W!AnswerIsForThisCall'
  <2> SUFFICES ASSUME NEW d \in Callers, pc'[d] = "ok" PROVE answer[d] = calls'[d]
    BY DEF W!AnswerIsForThisCall
  <2>1. pc[d] = "ok" /\ d # c
    BY <1>4
  <2> QED BY <1>0, <2>1 DEF W!AnswerIsForThisCall
<1>11. W!CloseLeavesNothing' /\ W!Dismissed'
  BY <1>1 DEF W!CloseLeavesNothing, W!Dismissed
<1>12. W!TranscribesWithModel'
  <2>1. load = "loaded" => model[child]
    BY <1>0 DEF W!ModelKnown
  <2>2. \A i \in DOMAIN queue'[child] : queue'[child][i].op = "transcribe" => model[child]
    BY <1>0, <1>1, <1>4, <1>5, <1>6, <2>1 DEF W!TranscribesWithModel
  <2> QED BY <1>0, <1>6, <2>2 DEF W!TranscribesWithModel
<1>13. W!ModelKnown'
  <2>1. KnownOps(queue[child] \o t)
    <3>1. KnownOps(queue[child])
      BY <1>0, <1>1 DEF KnownOps, W!ModelKnown
    <3> QED BY <1>4, <1>5, <3>1 DEF KnownOps
  <2>2. \A h \in W!Gens : KnownOps(queue[h])
    BY <1>0 DEF KnownOps, W!ModelKnown
  <2>3. \A h \in W!Gens : KnownOps(queue'[h])
    BY <1>6, <2>1, <2>2
  <2> QED BY <1>0, <1>4, <2>3 DEF KnownOps, W!ModelKnown, W!Closed
<1>14. W!HealthIsHonest'
  BY <1>0, <1>1, <1>4 DEF W!HealthIsHonest, W!HealthOk, W!Closed, W!ModelKnown
<1>15. W!Matched'
  <2>1. MatchedBy(queue[child], out[child], pending, calls, child)
    BY <1>0, <1>1, MatchedIs
  <2>2. Kept(pending, pending', calls, calls', child)
    BY <1>2, <1>4 DEF Kept
  <2>3. Fresh(t, pending, pending', calls', child)
    BY <1>4
  <2>4. MatchedBy(queue[child] \o t, out[child], pending', calls', child)
    BY <1>1, <2>1, <2>2, <2>3, MatchedSend
  <2> QED BY <1>6, <2>4, MatchedIsNext
<1> QED BY <1>7, <1>8, <1>9, <1>10, <1>11, <1>12, <1>13, <1>14, <1>15 DEF WorkerInv

\* A process that starts takes the place of none
LEMMA SpawnedKeeps == ASSUME WorkerInv, W!Spawned PROVE WorkerInv'
<1>0. /\ W!TypeOK /\ W!OneWorker /\ W!TranscribesWithModel /\ W!HealthIsHonest /\ W!IdleHarmsNoCall
      /\ W!CloseLeavesNothing /\ W!AnswerIsForThisCall /\ W!Generations /\ W!ModelKnown /\ W!Dismissed /\ W!Matched
  BY DEF WorkerInv
<1>1. /\ spawning /\ child # 0 /\ proc[child] = "spawning" /\ child \in W!Gens
      /\ proc' = [proc EXCEPT ![child] = "alive"] /\ spawning' = FALSE
      /\ UNCHANGED <<stage, out, model, child, stopping, idle, notified, op, calls, answer, unready, crashed, closing>>
      /\ idle' = FALSE /\ why \in [Callers -> {"none", "answer", "gone", "idle", "closed"}]
  BY <1>0, WorkerTypes DEF W!Spawned, W!Generations, W!TypeOK
<1>2. /\ proc'[child] = "alive" /\ \A h \in W!Gens : h # child => proc'[h] = proc[h]
      /\ proc' \in [W!Gens -> {"none", "spawning", "alive", "exited", "closed"}]
  BY <1>1, WorkerTypes
<1>3. PICK c \in Callers :
        /\ pc[c] = "starting"
        /\ IF W!Closed
           THEN /\ pc' = [pc EXCEPT ![c] = "failed"] /\ why' = [why EXCEPT ![c] = "closed"]
                /\ UNCHANGED <<pending, queue, load>>
           ELSE W!Proceed(c, op[c], child, calls[c]) /\ UNCHANGED why
  BY DEF W!Spawned, W!Starting
<1>4. CASE ~W!Closed
  <2>1. op[c] \in {"transcribe", "vad"} /\ calls[c] \in 0 .. MaxCalls /\ pc[c] # "asked"
        /\ op' \in [Callers -> {"transcribe", "vad"}] /\ calls' \in [Callers -> 0 .. MaxCalls] /\ calls' = calls
    BY <1>0, <1>1, <1>3 DEF W!TypeOK
  <2> QED BY <1>1, <1>2, <1>3, <1>4, <2>1, ProceedKeeps
<1>5. CASE W!Closed
  <2>1. /\ pc' = [pc EXCEPT ![c] = "failed"] /\ why' = [why EXCEPT ![c] = "closed"]
        /\ UNCHANGED <<pending, queue, load>>
    BY <1>3, <1>5
  <2>2. /\ pc' \in [Callers -> {"free", "ok", "failed"} \cup W!Waiting]
        /\ \A d \in Callers : (pc'[d] = "asked" <=> pc[d] = "asked") /\ (pc'[d] = "ok" => pc[d] = "ok")
    BY <1>0, <1>3, <2>1 DEF W!TypeOK
  <2>3. why' \in [Callers -> {"none", "answer", "gone", "idle", "closed"}] /\ \A d \in Callers : why'[d] # "idle"
    BY <1>0, <1>1, <2>1 DEF W!IdleHarmsNoCall
  <2>4. W!TypeOK'
    <3>1. TypesOf(proc, stage, model)'
      BY <1>1, <1>2, WorkerTypes DEF TypesOf
    <3>2. /\ queue' \in [W!Gens -> Seq(Requests)] /\ out' \in [W!Gens -> Seq(Answers)]
          /\ \A d \in Callers : (pc'[d] = "asked") = (pending'[d] # 0)
      BY <1>0, <1>1, <2>1, <2>2, WorkerTypes DEF W!TypeOK
    <3>3. child' # 0 => proc'[child'] \notin {"none", "closed"}
      BY <1>1, <1>2
    <3> QED BY <1>0, <1>1, <2>1, <2>2, <2>3, <3>1, <3>2, <3>3, TypesNext DEF W!TypeOK
  <2>5. W!Generations'
    <3>1. \A h \in W!Gens : /\ proc'[h] \in {"spawning", "alive", "exited"} => h = child \/ h \in stopping \/ stage[h] = "left"
                            /\ proc'[h] = "none" => h \notin notified /\ queue'[h] = <<>>
                            /\ proc'[h] \in {"none", "spawning"} => out[h] = <<>>
      BY <1>0, <1>1, <1>2, <2>1 DEF W!Generations
    <3> QED BY <1>0, <1>1, <1>2, <2>1, <3>1 DEF W!Generations
  <2>6. W!OneWorker' /\ W!IdleHarmsNoCall' /\ W!AnswerIsForThisCall' /\ W!TranscribesWithModel'
    BY <1>0, <1>1, <2>1, <2>2, <2>3, <2>4, <2>5, OneFollowsNext
    DEF W!IdleHarmsNoCall, W!AnswerIsForThisCall, W!TranscribesWithModel
  <2>7. W!CloseLeavesNothing' /\ W!Dismissed'
    BY <1>0, <1>1, <2>1 DEF W!CloseLeavesNothing, W!Dismissed
  <2>8. W!HealthIsHonest' /\ W!ModelKnown'
    BY <1>0, <1>1, <2>1 DEF W!HealthIsHonest, W!HealthOk, W!Closed, W!ModelKnown
  <2>9. W!Matched'
    BY <1>0, <1>1, <2>1 DEF W!Matched, W!Current
  <2> QED BY <2>4, <2>5, <2>6, <2>7, <2>8, <2>9 DEF WorkerInv
<1> QED BY <1>4, <1>5

\* The bound on calls
LEMMA CallsBounded ==
  ASSUME W!TypeOK, W!Cardinality(W!Made) < MaxCalls, NEW c \in Callers
  PROVE  calls[c] + 1 \in 0 .. MaxCalls
<1>1. MaxCalls \in Nat /\ calls[c] \in 0 .. MaxCalls /\ IsFiniteSet(Callers)
  BY WorkerSettings, FiniteAsWell DEF W!TypeOK
<1>2. SUFFICES ASSUME calls[c] = MaxCalls PROVE FALSE
  BY <1>1
<1> DEFINE mine == {c} \X (1 .. MaxCalls)
<1>3. IsFiniteSet(mine) /\ Cardinality(mine) = MaxCalls
  <2>1. IsFiniteSet({c}) /\ Cardinality({c}) = 1
    BY FS_Singleton
  <2>2. IsFiniteSet(1 .. MaxCalls) /\ Cardinality(1 .. MaxCalls) = MaxCalls
    BY <1>1, FS_Interval
  <2> HIDE DEF mine
  <2>3. IsFiniteSet({c} \X (1 .. MaxCalls)) /\ Cardinality({c} \X (1 .. MaxCalls)) = 1 * MaxCalls
    <3> DEFINE one == {c}  numbers == 1 .. MaxCalls
    <3> HIDE DEF one, numbers
    <3>1. IsFiniteSet(one \X numbers) /\ Cardinality(one \X numbers) = Cardinality(one) * Cardinality(numbers)
      <4>1. IsFiniteSet(one) /\ IsFiniteSet(numbers)
        BY <2>1, <2>2 DEF one, numbers
      <4> QED BY <4>1, FS_Product
    <3> QED BY <2>1, <2>2, <3>1 DEF one, numbers
  <2> QED BY <1>1, <2>3 DEF mine
<1>4. mine \subseteq W!Made
  BY <1>1, <1>2 DEF W!Made
<1>5. IsFiniteSet(W!Made)
  <2>1. IsFiniteSet(Callers \X (1 .. MaxCalls))
    <3>1. IsFiniteSet(1 .. MaxCalls)
      BY <1>1, FS_Interval
    <3> QED BY <1>1, <3>1, FS_Product
  <2> QED BY <2>1, FS_Subset DEF W!Made
<1> HIDE DEF mine
<1>6. Cardinality(mine) <= Cardinality(W!Made)
  BY <1>4, <1>5, FS_Subset
<1>7. Cardinality(W!Made) \in Nat /\ Cardinality(W!Made) < MaxCalls
  BY <1>5, FS_CardinalityType, SizeOfAll
<1> QED BY <1>1, <1>3, <1>6, <1>7

\* A call fails, waits, starts a worker or goes on with the one there is
LEMMA EnsureStartedKeeps ==
  ASSUME WorkerInv, NEW c \in Callers, NEW o \in {"transcribe", "vad"}, NEW n \in 0 .. MaxCalls,
         pc[c] # "asked", W!EnsureStarted(c, o, n),
         UNCHANGED <<stage, out, model, stopping, notified, answer, unready, crashed, closing>>,
         op' \in [Callers -> {"transcribe", "vad"}],
         calls' \in [Callers -> 0 .. MaxCalls], calls'[c] = n,
         \A d \in Callers : d # c => calls'[d] = calls[d]
  PROVE  WorkerInv'
<1>0. /\ W!TypeOK /\ W!OneWorker /\ W!TranscribesWithModel /\ W!HealthIsHonest /\ W!IdleHarmsNoCall
      /\ W!CloseLeavesNothing /\ W!AnswerIsForThisCall /\ W!Generations /\ W!ModelKnown /\ W!Dismissed /\ W!Matched
  BY DEF WorkerInv
<1>1. /\ pc \in [Callers -> {"free", "ok", "failed"} \cup W!Waiting] /\ c \in W!Ids /\ pending[c] = 0
      /\ \A d \in Callers : (pc[d] = "asked") = (pending[d] # 0)
      /\ why \in [Callers -> {"none", "answer", "gone", "idle", "closed"}]
  BY <1>0 DEF W!TypeOK, W!Ids
<1>2. CASE ~W!Closed /\ child # 0
  <2>1. W!Proceed(c, o, child, n) /\ idle' = FALSE /\ UNCHANGED <<proc, child, spawning, why>>
    BY <1>2 DEF W!EnsureStarted
  <2>2. /\ proc' \in [W!Gens -> {"none", "spawning", "alive", "exited", "closed"}]
        /\ \A h \in W!Gens : h # child => proc'[h] = proc[h]
        /\ proc'[child] = proc[child] /\ spawning' = (proc'[child] = "spawning")
    BY <1>0, <1>2, <2>1, WorkerTypes DEF W!Generations
  <2> QED BY <1>2, <2>1, <2>2, ProceedKeeps
\* It does not reach a worker
<1>3. CASE /\ UNCHANGED <<proc, child, spawning, queue, pending, load, idle>>
           /\ pc' = [pc EXCEPT ![c] = "failed"] \/ pc' = [pc EXCEPT ![c] = "parked"]
           /\ why' = why \/ why' = [why EXCEPT ![c] = "closed"]
  <2>1. /\ pc' \in [Callers -> {"free", "ok", "failed"} \cup W!Waiting]
        /\ \A d \in Callers : (pc'[d] = "asked") = (pc[d] = "asked")
        /\ \A d \in Callers : pc'[d] = "ok" => pc[d] = "ok" /\ d # c
    BY <1>1, <1>3 DEF W!Waiting
  <2>2. why' \in [Callers -> {"none", "answer", "gone", "idle", "closed"}] /\ \A d \in Callers : why'[d] # "idle"
    BY <1>0, <1>1, <1>3 DEF W!IdleHarmsNoCall
  <2>3. W!TypeOK'
    <3>1. /\ TypesOf(proc, stage, model)'
          /\ queue' \in [W!Gens -> Seq(Requests)] /\ out' \in [W!Gens -> Seq(Answers)]
      BY <1>3, WorkerTypes DEF TypesOf
    <3>2. \A d \in Callers : (pc'[d] = "asked") = (pending'[d] # 0)
      BY <1>1, <1>3, <2>1
    <3>3. /\ child' \in 0 .. MaxGens /\ (child' # 0 => proc'[child'] \notin {"none", "closed"})
          /\ spawning' \in BOOLEAN /\ idle' \in BOOLEAN /\ pending' \in [W!Ids -> {0, child'}]
      BY <1>0, <1>3 DEF W!TypeOK
    <3>4. /\ stopping' \subseteq W!Gens /\ notified' \subseteq W!Gens /\ child' \notin stopping' \cup notified'
          /\ load' \in {"idle", "loading", "loaded", "failed"} /\ answer' \in [Callers -> 0 .. MaxCalls]
      BY <1>0, <1>3 DEF W!TypeOK
    <3>5. /\ unready' \in BOOLEAN /\ crashed' \in BOOLEAN
          /\ closing' \in {"no", "begun", "asked", "joining", "done"}
      BY <1>0 DEF W!TypeOK
    <3> QED BY <2>1, <2>2, <3>1, <3>2, <3>3, <3>4, <3>5, TypesNext
  <2>4. W!Generations'
    BY <1>0, <1>3 DEF W!Generations
  <2>5. W!OneWorker' /\ W!TranscribesWithModel' /\ W!IdleHarmsNoCall' /\ W!CloseLeavesNothing'
    BY <1>0, <1>3, <2>2, <2>3, <2>4, OneFollowsNext DEF W!TranscribesWithModel, W!IdleHarmsNoCall, W!CloseLeavesNothing
  <2>6. W!AnswerIsForThisCall'
    <3> SUFFICES ASSUME NEW d \in Callers, pc'[d] = "ok" PROVE answer[d] = calls'[d]
      BY DEF W!AnswerIsForThisCall
    <3>1. pc[d] = "ok" /\ d # c
      BY <2>1
    <3> QED BY <1>0, <3>1 DEF W!AnswerIsForThisCall
  <2>7. W!HealthIsHonest' /\ W!ModelKnown' /\ W!Dismissed'
    BY <1>0, <1>3 DEF W!HealthIsHonest, W!HealthOk, W!Closed, W!ModelKnown, W!Dismissed
  <2>8. W!Matched'
    <3> SUFFICES ASSUME child # 0, closing \in {"no", "begun"}
                 PROVE  MatchedBy(queue[child], out[child], pending, calls', child)
      BY <1>3, MatchedIsNext
    <3>1. MatchedBy(queue[child], out[child], pending, calls, child) /\ child \in W!Gens
      BY <1>0, MatchedIs, WorkerTypes
    <3>2. \A d \in Callers : pending[d] = child => calls'[d] = calls[d]
      BY <1>1
    <3> QED BY <3>1, <3>2 DEF MatchedBy
  <2> QED BY <2>3, <2>4, <2>5, <2>6, <2>7, <2>8 DEF WorkerInv
<1>4. CASE ~W!Closed /\ child = 0 /\ ~W!MustWait /\ W!Spawn(c)
  <2>1. PICK g \in W!Gens :
          /\ proc[g] = "none" /\ proc' = [proc EXCEPT ![g] = "spawning"]
          /\ child' = g /\ spawning' = TRUE
          /\ pc' = [pc EXCEPT ![c] = "starting"]
          /\ UNCHANGED <<queue, pending, load, idle, why>>
    BY <1>4 DEF W!Spawn
  <2>2. /\ stopping = {} /\ queue[g] = <<>> /\ out[g] = <<>> /\ g \notin notified /\ g # 0
        /\ pending \in [W!Ids -> {0}] /\ closing = "no" /\ load # "loaded" /\ idle = FALSE
    BY <1>0, <1>4, <2>1, WorkerTypes DEF W!MustWait, W!Generations, W!TypeOK, W!Closed, W!ModelKnown
  <2>3. /\ pc' \in [Callers -> {"free", "ok", "failed"} \cup W!Waiting]
        /\ \A d \in Callers : (pc'[d] = "asked") = (pc[d] = "asked")
        /\ \A d \in Callers : pc'[d] = "ok" => pc[d] = "ok" /\ d # c
    BY <1>1, <2>1 DEF W!Waiting
  <2>4. /\ proc'[g] = "spawning" /\ \A h \in W!Gens : h # g => proc'[h] = proc[h]
        /\ proc' \in [W!Gens -> {"none", "spawning", "alive", "exited", "closed"}]
    BY <2>1, WorkerTypes
  <2>5. W!TypeOK'
    <3>1. /\ TypesOf(proc, stage, model)'
          /\ queue' \in [W!Gens -> Seq(Requests)] /\ out' \in [W!Gens -> Seq(Answers)]
      BY <2>1, <2>4, WorkerTypes DEF TypesOf
    <3>2. /\ \A d \in Callers : (pc'[d] = "asked") = (pending'[d] # 0)
          /\ child' \in 0 .. MaxGens /\ proc'[child'] \notin {"none", "closed"}
          /\ child' \notin stopping' \cup notified'
      BY <1>1, <2>1, <2>2, <2>3, <2>4, WorkerSettings DEF W!Gens
    <3>3. pending' \in [W!Ids -> {0, child'}]
      BY <2>1, <2>2
    <3> QED BY <1>0, <2>1, <2>3, <3>1, <3>2, <3>3, TypesNext DEF W!TypeOK
  <2>6. W!Generations'
    <3>1. \A h \in W!Gens : /\ proc'[h] \in {"spawning", "alive", "exited"} => h = child' \/ h \in stopping \/ stage[h] = "left"
                            /\ proc'[h] = "none" => h \notin notified /\ queue'[h] = <<>>
                            /\ proc'[h] \in {"none", "spawning"} => out[h] = <<>>
      BY <1>0, <1>4, <2>1, <2>2, <2>4, WorkerTypes DEF W!Generations
    <3> QED BY <1>0, <2>1, <2>2, <2>4, <3>1 DEF W!Generations
  <2>7. W!OneWorker' /\ W!TranscribesWithModel' /\ W!IdleHarmsNoCall'
    BY <1>0, <2>1, <2>5, <2>6, OneFollowsNext DEF W!TranscribesWithModel, W!IdleHarmsNoCall
  <2>8. W!AnswerIsForThisCall'
    <3> SUFFICES ASSUME NEW d \in Callers, pc'[d] = "ok" PROVE answer[d] = calls'[d]
      BY DEF W!AnswerIsForThisCall
    <3>1. pc[d] = "ok" /\ d # c
      BY <2>3
    <3> QED BY <1>0, <3>1 DEF W!AnswerIsForThisCall
  <2>9. W!HealthIsHonest' /\ W!ModelKnown' /\ W!Dismissed' /\ W!CloseLeavesNothing'
    BY <1>0, <2>1, <2>2 DEF W!HealthIsHonest, W!HealthOk, W!Closed, W!ModelKnown, W!Dismissed, W!CloseLeavesNothing
  <2>10. W!Matched'
    <3>1. MatchedBy(<<>>, <<>>, pending', calls', child')
      BY DEF MatchedBy
    <3>2. queue'[child'] = <<>> /\ out'[child'] = <<>>
      BY <2>1, <2>2
    <3> QED BY <3>1, <3>2, MatchedIsNext
  <2> QED BY <2>5, <2>6, <2>7, <2>8, <2>9, <2>10 DEF WorkerInv
<1> QED BY <1>2, <1>3, <1>4 DEF W!EnsureStarted

\* A call asks for what its own request names
LEMMA CallKeeps == ASSUME WorkerInv, NEW c \in Callers, W!Call(c) PROVE WorkerInv'
<1>1. W!TypeOK
  BY DEF WorkerInv
<1>2. PICK o \in {"transcribe", "vad"} :
        /\ op' = [op EXCEPT ![c] = o]
        /\ calls' = [calls EXCEPT ![c] = @ + 1]
        /\ W!EnsureStarted(c, o, calls[c] + 1)
  BY DEF W!Call
<1>3. /\ calls[c] + 1 \in 0 .. MaxCalls /\ pc[c] # "asked"
      /\ UNCHANGED <<stage, out, model, stopping, notified, answer, unready, crashed, closing>>
  BY <1>1, CallsBounded DEF W!Call
<1>4. /\ op' \in [Callers -> {"transcribe", "vad"}]
      /\ calls' \in [Callers -> 0 .. MaxCalls] /\ calls'[c] = calls[c] + 1
      /\ \A d \in Callers : d # c => calls'[d] = calls[d]
  BY <1>1, <1>2, <1>3 DEF W!TypeOK
<1> QED BY <1>2, <1>3, <1>4, EnsureStartedKeeps

LEMMA TryAgainKeeps == ASSUME WorkerInv, NEW c \in Callers, W!TryAgain(c) PROVE WorkerInv'
<1>1. W!TypeOK
  BY DEF WorkerInv
<1>2. /\ pc[c] # "asked" /\ W!EnsureStarted(c, op[c], calls[c])
      /\ UNCHANGED <<stage, out, model, stopping, notified, answer, unready, crashed, closing, op, calls>>
  BY DEF W!TryAgain
<1>3. /\ op[c] \in {"transcribe", "vad"} /\ op' \in [Callers -> {"transcribe", "vad"}]
      /\ calls[c] \in 0 .. MaxCalls /\ calls' \in [Callers -> 0 .. MaxCalls] /\ calls' = calls
  BY <1>1, <1>2 DEF W!TypeOK
<1> QED BY <1>2, <1>3, EnsureStartedKeeps

\* An answer is read that nobody waits for any more
LEMMA DroppedKeeps ==
  ASSUME WorkerInv, NEW g \in W!Gens, out[g] # <<>>, pending[Head(out[g]).id] # g,
         out' = [out EXCEPT ![g] = Tail(@)],
         UNCHANGED <<proc, stage, queue, model, child, spawning, stopping, idle, notified, pending>>,
         UNCHANGED <<pc, op, calls, answer, why, load, unready, crashed, closing>>
  PROVE  WorkerInv'
<1>0. /\ W!TypeOK /\ W!OneWorker /\ W!TranscribesWithModel /\ W!HealthIsHonest /\ W!IdleHarmsNoCall
      /\ W!CloseLeavesNothing /\ W!AnswerIsForThisCall /\ W!Generations /\ W!ModelKnown /\ W!Dismissed /\ W!Matched
  BY DEF WorkerInv
<1>1. /\ Head(out[g]) = out[g][1] /\ 1 \in DOMAIN out[g] /\ Tail(out[g]) \in Seq(Answers)
      /\ \A i \in DOMAIN Tail(out[g]) : i + 1 \in DOMAIN out[g] /\ Tail(out[g])[i] = out[g][i + 1]
  BY WorkerTypes, TailIs
<1>2. /\ out' \in [W!Gens -> Seq(Answers)] /\ out'[g] = Tail(out[g])
      /\ \A h \in W!Gens : h # g => out'[h] = out[h]
  BY <1>1, WorkerTypes
<1>3. W!TypeOK'
  BY <1>0, <1>2 DEF W!TypeOK, Answers
<1>4. W!Generations'
  <2>1. \A h \in W!Gens : proc[h] \in {"none", "spawning"} => out'[h] = <<>>
    BY <1>0, <1>2 DEF W!Generations
  <2> QED BY <1>0, <2>1 DEF W!Generations
<1>5. W!OneWorker' /\ W!TranscribesWithModel' /\ W!IdleHarmsNoCall' /\ W!AnswerIsForThisCall' /\ W!CloseLeavesNothing'
  BY <1>0, <1>3, <1>4, OneFollowsNext
  DEF W!TranscribesWithModel, W!IdleHarmsNoCall, W!AnswerIsForThisCall, W!CloseLeavesNothing
<1>6. W!HealthIsHonest' /\ W!Dismissed'
  BY <1>0 DEF W!HealthIsHonest, W!HealthOk, W!Closed, W!Dismissed
<1>7. W!ModelKnown'
  <2>1. \A h \in W!Gens : \A i \in DOMAIN out'[h] : out'[h][i].id = "load" /\ out'[h][i].ok => model[h]
    BY <1>0, <1>1, <1>2 DEF W!ModelKnown
  <2> QED BY <1>0, <2>1 DEF W!ModelKnown, W!Closed
<1>8. W!Matched'
  <2>1. child # 0 /\ closing \in {"no", "begun"} => MatchedBy(queue[child], out[child], pending, calls, child)
    BY <1>0, MatchedIs
  <2>2. child # 0 /\ closing \in {"no", "begun"} => child # g
    BY <1>1, <2>1 DEF MatchedBy
  <2> QED BY <1>2, <2>1, <2>2, WorkerTypes, MatchedIsNext
<1> QED BY <1>3, <1>4, <1>5, <1>6, <1>7, <1>8 DEF WorkerInv

\* The answer to a call, or to the request to shut down
LEMMA AnsweredKeeps ==
  ASSUME WorkerInv, NEW r \in Answers, child # 0, out[child] # <<>>, r = Head(out[child]),
         pending[r.id] = child, r.id # "load",
         out' = [out EXCEPT ![child] = Tail(@)],
         idle' = (~W!Closed),
         pending' = [pending EXCEPT ![r.id] = 0],
         IF r.id = "shutdown" THEN UNCHANGED <<pc, answer, why>>
         ELSE /\ pc' = [pc EXCEPT ![r.id] = IF r.ok THEN "ok" ELSE "failed"]
              /\ answer' = [answer EXCEPT ![r.id] = r.call]
              /\ why' = [why EXCEPT ![r.id] = IF r.ok THEN @ ELSE "answer"],
         UNCHANGED <<proc, stage, queue, model, child, spawning, stopping, notified>>,
         UNCHANGED <<op, calls, load, unready, crashed, closing>>
  PROVE  WorkerInv'
<1>0. /\ W!TypeOK /\ W!OneWorker /\ W!TranscribesWithModel /\ W!HealthIsHonest /\ W!IdleHarmsNoCall
      /\ W!CloseLeavesNothing /\ W!AnswerIsForThisCall /\ W!Generations /\ W!ModelKnown /\ W!Dismissed /\ W!Matched
  BY DEF WorkerInv
<1>1. /\ child \in W!Gens /\ proc[child] \notin {"none", "spawning", "closed"} /\ ~spawning
      /\ queue[child] \in Seq(Requests) /\ out[child] \in Seq(Answers)
  BY <1>0, WorkerTypes DEF W!Generations
<1>2. /\ r = out[child][1] /\ 1 \in DOMAIN out[child] /\ Tail(out[child]) \in Seq(Answers)
      /\ \A i \in DOMAIN Tail(out[child]) : i + 1 \in DOMAIN out[child] /\ Tail(out[child])[i] = out[child][i + 1]
  BY <1>1, TailIs
<1>3. /\ out' \in [W!Gens -> Seq(Answers)] /\ out'[child] = Tail(out[child])
      /\ \A h \in W!Gens : h # child => out'[h] = out[h]
  BY <1>1, <1>2, WorkerTypes
<1>4. /\ r.id \in W!Ids /\ r.call \in 0 .. MaxCalls /\ r.ok \in BOOLEAN
      /\ r.id # "shutdown" => r.id \in Callers
  BY DEF Answers, W!Ids
<1>5. /\ pc \in [Callers -> {"free", "ok", "failed"} \cup W!Waiting]
      /\ pending \in [W!Ids -> {0, child}] /\ answer \in [Callers -> 0 .. MaxCalls]
      /\ why \in [Callers -> {"none", "answer", "gone", "idle", "closed"}]
      /\ \A c \in Callers : c \in W!Ids /\ c # "shutdown" /\ (pc[c] = "asked") = (pending[c] # 0)
  BY <1>0, WorkerSettings DEF W!TypeOK, W!Ids
<1>6. /\ pending' \in [W!Ids -> {0, child}] /\ pending'[r.id] = 0
      /\ \A i \in W!Ids : i # r.id => pending'[i] = pending[i]
  BY <1>4, <1>5
<1>7. /\ pc' \in [Callers -> {"free", "ok", "failed"} \cup W!Waiting]
      /\ answer' \in [Callers -> 0 .. MaxCalls]
      /\ why' \in [Callers -> {"none", "answer", "gone", "idle", "closed"}]
      /\ \A c \in Callers : c # r.id => pc'[c] = pc[c] /\ answer'[c] = answer[c] /\ why'[c] = why[c]
      /\ r.id \in Callers => /\ pc'[r.id] \in {"ok", "failed"} /\ answer'[r.id] = r.call
                             /\ why'[r.id] = why[r.id] \/ why'[r.id] = "answer"
  <2>1. CASE r.id = "shutdown"
    BY <1>5, <2>1
  <2>2. CASE r.id # "shutdown"
    <3>1. /\ r.id \in Callers
          /\ pc' = [pc EXCEPT ![r.id] = IF r.ok THEN "ok" ELSE "failed"]
          /\ answer' = [answer EXCEPT ![r.id] = r.call]
          /\ why' = [why EXCEPT ![r.id] = IF r.ok THEN why[r.id] ELSE "answer"]
      BY <1>4, <2>2
    <3> QED BY <1>4, <1>5, <3>1
  <2> QED BY <2>1, <2>2
<1>8. \A c \in Callers : (pc'[c] = "asked") = (pending'[c] # 0)
  BY <1>5, <1>6, <1>7
<1>9. W!TypeOK'
  <2>1. TypesOf(proc, stage, model)' /\ queue' \in [W!Gens -> Seq(Requests)]
    BY WorkerTypes DEF TypesOf
  <2> QED BY <1>0, <1>3, <1>6, <1>7, <1>8, <2>1, TypesNext DEF W!TypeOK
<1>10. W!Generations'
  <2>1. \A h \in W!Gens : proc[h] \in {"none", "spawning"} => out'[h] = <<>>
    BY <1>0, <1>1, <1>3 DEF W!Generations
  <2> QED BY <1>0, <1>1, <2>1 DEF W!Generations
<1>11. W!OneWorker' /\ W!TranscribesWithModel' /\ W!CloseLeavesNothing'
  BY <1>0, <1>9, <1>10, OneFollowsNext DEF W!TranscribesWithModel, W!CloseLeavesNothing
<1>12. W!IdleHarmsNoCall'
  BY <1>0, <1>7 DEF W!IdleHarmsNoCall
<1>13. W!HealthIsHonest'
  BY <1>0 DEF W!HealthIsHonest, W!HealthOk, W!Closed
<1>14. W!Dismissed'
  BY <1>0, <1>6 DEF W!Dismissed
<1>15. W!ModelKnown'
  <2>1. \A h \in W!Gens : \A i \in DOMAIN out'[h] : out'[h][i].id = "load" /\ out'[h][i].ok => model[h]
    BY <1>0, <1>1, <1>2, <1>3 DEF W!ModelKnown
  <2> QED BY <1>0, <2>1 DEF W!ModelKnown, W!Closed
<1>16. W!AnswerIsForThisCall'
  <2>1. r.id \in Callers => r.call = calls[r.id]
    <3>1. r.id \in Callers => closing \in {"no", "begun"}
      BY <1>0, <1>5, <1>1, WorkerTypes DEF W!Dismissed, W!TypeOK
    <3> QED BY <1>0, <1>2, <3>1, MatchedIs DEF MatchedBy
  <2> QED BY <1>0, <1>7, <2>1 DEF W!AnswerIsForThisCall
<1>17. W!Matched'
  <2>1. SUFFICES ASSUME closing \in {"no", "begun"}
                 PROVE  MatchedBy(queue[child], Tail(out[child]), pending', calls, child)
    BY <1>3, MatchedIsNext
  <2>2. MatchedBy(queue[child], out[child], pending, calls, child)
    BY <1>0, <2>1, MatchedIs
  <2> DEFINE after == pending'
  <2>3. \A i \in W!Ids : i # Head(out[child]).id /\ pending[i] = child => after[i] = child
    BY <1>6
  <2> HIDE DEF after
  <2>4. MatchedBy(queue[child], Tail(out[child]), after, calls, child)
    BY <1>1, <2>2, <2>3, MatchedRead
  <2> QED BY <2>4 DEF after
<1> QED BY <1>9, <1>10, <1>11, <1>12, <1>13, <1>14, <1>15, <1>16, <1>17 DEF WorkerInv

\* What the callers that waited for the load are sent with
InOrder(sent, order) == [i \in DOMAIN order |-> sent[order[i]]]

LEMMA SentAfterLoad ==
  ASSUME NEW waiting, waiting \subseteq Callers, NEW sent \in [waiting -> Requests],
         NEW order \in [1 .. W!Cardinality(waiting) -> waiting],
         \A c \in waiting : sent[c].id = c,
         \A i, j \in DOMAIN order : i # j => order[i] # order[j]
  PROVE  /\ InOrder(sent, order) \in Seq(Requests)
         /\ \A i \in DOMAIN order : order[i] \in waiting
         /\ \A i, j \in DOMAIN order : sent[order[i]].id = sent[order[j]].id => i = j
<1>1. W!Cardinality(waiting) \in Nat
  BY WorkerSettings, FiniteAsWell, SizeOfAll, FS_Subset, FS_CardinalityType
<1>2. PICK n \in Nat : n = W!Cardinality(waiting)
  BY <1>1
<1>3. DOMAIN order = 1 .. n /\ \A i \in 1 .. n : order[i] \in waiting /\ sent[order[i]] \in Requests
  BY <1>2
<1>4. [i \in 1 .. n |-> sent[order[i]]] \in [1 .. n -> Requests]
  BY <1>3
<1>5. [i \in 1 .. n |-> sent[order[i]]] \in Seq(Requests)
  BY <1>4, SeqDef
<1> QED BY <1>3, <1>5 DEF InOrder

\* The answer to the load
LEMMA LoadAnsweredKeeps ==
  ASSUME WorkerInv, NEW r \in Answers, child # 0, out[child] # <<>>, r = Head(out[child]), closing = "no",
         pending[r.id] = child, r.id = "load",
         out' = [out EXCEPT ![child] = Tail(@)],
         idle' = (~W!Closed /\ ~(r.id = "load" /\ W!LoadSucceeds(r.ok))),
         W!LoadAnswered(child, r.ok),
         UNCHANGED <<proc, stage, model, child, spawning, stopping, notified>>,
         UNCHANGED <<op, calls, closing>>
  PROVE  WorkerInv'
<1>0. /\ W!TypeOK /\ W!OneWorker /\ W!TranscribesWithModel /\ W!HealthIsHonest /\ W!IdleHarmsNoCall
      /\ W!CloseLeavesNothing /\ W!AnswerIsForThisCall /\ W!Generations /\ W!ModelKnown /\ W!Dismissed /\ W!Matched
  BY DEF WorkerInv
<1>1. /\ child \in W!Gens /\ proc[child] \notin {"none", "spawning", "closed"} /\ ~spawning
      /\ queue[child] \in Seq(Requests) /\ out[child] \in Seq(Answers)
  BY <1>0, WorkerTypes DEF W!Generations
<1>2. /\ r = out[child][1] /\ 1 \in DOMAIN out[child] /\ Tail(out[child]) \in Seq(Answers)
      /\ \A i \in DOMAIN Tail(out[child]) : i + 1 \in DOMAIN out[child] /\ Tail(out[child])[i] = out[child][i + 1]
  BY <1>1, TailIs
<1>3. /\ out' \in [W!Gens -> Seq(Answers)] /\ out'[child] = Tail(out[child])
      /\ \A h \in W!Gens : h # child => out'[h] = out[h]
  BY <1>1, <1>2, WorkerTypes
<1> DEFINE waiting == {c \in Callers : pc[c] = "loading"}
           sent == [c \in waiting |-> W!Request(c, "transcribe", calls[c])]
<1>4. /\ pc \in [Callers -> {"free", "ok", "failed"} \cup W!Waiting]
      /\ pending \in [W!Ids -> {0, child}] /\ calls \in [Callers -> 0 .. MaxCalls]
      /\ why \in [Callers -> {"none", "answer", "gone", "idle", "closed"}]
      /\ \A c \in Callers : c \in W!Ids /\ c # "load" /\ (pc[c] = "asked") = (pending[c] # 0)
      /\ "load" \in W!Ids
  BY <1>0, WorkerSettings DEF W!TypeOK, W!Ids
<1>5. pending' = [i \in W!Ids |-> IF i = "load" THEN 0
                                  ELSE IF W!LoadSucceeds(r.ok) /\ i \in waiting THEN child ELSE pending[i]]
      /\ answer' = answer
  BY DEF W!LoadAnswered
<1>6. /\ pending' \in [W!Ids -> {0, child}] /\ pending'["load"] = 0
      /\ \A i \in W!Ids : i # "load" /\ i \notin waiting => pending'[i] = pending[i]
      /\ \A c \in waiting : pending'[c] = IF r.ok THEN child ELSE 0
      /\ \A c \in waiting : pending[c] = 0
  BY <1>4, <1>5 DEF W!LoadSucceeds
<1>7. \E t \in Seq(Requests) :
        /\ queue' = [queue EXCEPT ![child] = queue[child] \o t]
        /\ Fresh(t, [pending EXCEPT !["load"] = 0], pending', calls, child)
        /\ (\A i \in DOMAIN t : model[child]) /\ KnownOps(t)
        /\ pc' \in [Callers -> {"free", "ok", "failed"} \cup W!Waiting]
        /\ \A c \in Callers : (pc'[c] = "asked") = (pending'[c] # 0)
        /\ \A c \in Callers : pc'[c] = "ok" => pc[c] = "ok"
        /\ why' \in [Callers -> {"none", "answer", "gone", "idle", "closed"}]
        /\ \A c \in Callers : why'[c] = why[c] \/ why'[c] = "answer"
        /\ load' \in {"loaded", "failed"} /\ unready' \in BOOLEAN /\ crashed' \in BOOLEAN
        /\ load' = "loaded" => model[child] /\ ~unready' /\ r.ok
  <2>1. CASE r.ok
    <3>1. /\ pc' = [c \in Callers |-> IF c \in waiting THEN "asked" ELSE pc[c]]
          /\ \E order \in [1 .. W!Cardinality(waiting) -> waiting] :
               /\ \A i, j \in DOMAIN order : i # j => order[i] # order[j]
               /\ queue' = [queue EXCEPT ![child] = queue[child] \o InOrder(sent, order)]
          /\ load' = "loaded" /\ unready' = FALSE /\ crashed' = FALSE /\ why' = why
      BY <2>1 DEF W!LoadAnswered, W!LoadSucceeds, W!Sent, InOrder
    <3>2. PICK order \in [1 .. W!Cardinality(waiting) -> waiting] :
            /\ \A i, j \in DOMAIN order : i # j => order[i] # order[j]
            /\ queue' = [queue EXCEPT ![child] = queue[child] \o InOrder(sent, order)]
      BY <3>1
    <3>3. waiting \subseteq Callers /\ sent \in [waiting -> Requests]
          /\ \A c \in waiting : sent[c] = W!Request(c, "transcribe", calls[c]) /\ sent[c].id = c
      BY <1>4 DEF Requests, W!Request, W!Ops
    <3>4. model[child]
      BY <1>0, <1>1, <1>2, <2>1 DEF W!ModelKnown
    <3>5. /\ pc' \in [Callers -> {"free", "ok", "failed"} \cup W!Waiting]
          /\ \A c \in Callers : (pc'[c] = "asked") = (pending'[c] # 0)
          /\ \A c \in Callers : pc'[c] = "ok" => pc[c] = "ok"
      BY <1>4, <1>6, <2>1, <3>1 DEF W!Waiting
    <3> DEFINE t == InOrder(sent, order)
    <3>6. /\ t \in Seq(Requests) /\ \A i \in DOMAIN order : order[i] \in waiting
          /\ \A i, j \in DOMAIN order : sent[order[i]].id = sent[order[j]].id => i = j
      <4> HIDE DEF waiting, sent
      <4>1. waiting \subseteq Callers /\ sent \in [waiting -> Requests] /\ \A c \in waiting : sent[c].id = c
        BY <3>3
      <4>2. \A i, j \in DOMAIN order : i # j => order[i] # order[j]
        BY <3>2
      <4>3. InOrder(sent, order) \in Seq(Requests)
        BY <4>1, <4>2, SentAfterLoad
      <4>4. \A i \in DOMAIN order : order[i] \in waiting
        BY <4>1, <4>2, SentAfterLoad
      <4>5. \A i, j \in DOMAIN order : sent[order[i]].id = sent[order[j]].id => i = j
        BY <4>1, <4>2, SentAfterLoad
      <4> QED BY <4>3, <4>4, <4>5
    <3>7. DOMAIN t = DOMAIN order /\ \A i \in DOMAIN t : t[i] = sent[order[i]] /\ order[i] \in waiting
      BY <3>6 DEF InOrder
    <3> HIDE DEF t, sent
    <3>8. Fresh(t, [pending EXCEPT !["load"] = 0], pending', calls, child)
      <4>1. \A i \in DOMAIN t : t[i].id \in waiting /\ t[i].id \in Callers /\ t[i].id \in W!Ids /\ t[i].call = calls[t[i].id]
        BY <1>4, <3>3, <3>7 DEF W!Request
      <4>2. \A i \in DOMAIN t : [pending EXCEPT !["load"] = 0][t[i].id] = 0 /\ pending'[t[i].id] = child
        BY <1>4, <1>6, <2>1, <4>1
      <4>3. \A i, j \in DOMAIN t : t[i].id = t[j].id => i = j
        BY <3>6, <3>7
      <4> QED BY <4>1, <4>2, <4>3 DEF Fresh
    <3>9. KnownOps(t)
      <4>1. \A i \in DOMAIN t : t[i].op = "transcribe" /\ t[i].id \in Callers
        <5> HIDE DEF waiting
        <5> QED BY <3>3, <3>7 DEF W!Request
      <4> QED BY <4>1, WorkerSettings DEF KnownOps
    <3>10. queue' = [queue EXCEPT ![child] = queue[child] \o t]
      BY <3>2 DEF t
    <3> QED BY <1>4, <2>1, <3>1, <3>4, <3>5, <3>6, <3>8, <3>9, <3>10
  <2>2. CASE ~r.ok
    <3>1. /\ pc' = [c \in Callers |-> IF c \in waiting THEN "failed" ELSE pc[c]]
          /\ why' = [c \in Callers |-> IF c \in waiting THEN "answer" ELSE why[c]]
          /\ load' = "failed" /\ unready' = TRUE /\ UNCHANGED <<queue, crashed>>
      BY <2>2 DEF W!LoadAnswered, W!LoadSucceeds
    <3>2. /\ <<>> \in Seq(Requests) /\ DOMAIN <<>> = {} /\ queue[child] \o <<>> = queue[child] /\ KnownOps(<<>>)
          /\ Fresh(<<>>, [pending EXCEPT !["load"] = 0], pending', calls, child)
      BY <1>1, EmptySeq, ConcatEmptySeq DEF KnownOps, Fresh
    <3>3. queue' = [queue EXCEPT ![child] = queue[child] \o <<>>]
      BY <1>1, <3>1, <3>2, WorkerTypes
    <3>4. /\ pc' \in [Callers -> {"free", "ok", "failed"} \cup W!Waiting]
          /\ \A c \in Callers : (pc'[c] = "asked") = (pending'[c] # 0)
          /\ \A c \in Callers : pc'[c] = "ok" => pc[c] = "ok"
      BY <1>4, <1>6, <2>2, <3>1 DEF W!Waiting
    <3>5. /\ why' \in [Callers -> {"none", "answer", "gone", "idle", "closed"}]
          /\ \A c \in Callers : why'[c] = why[c] \/ why'[c] = "answer"
      BY <1>4, <3>1
    <3>6. crashed' \in BOOLEAN
      BY <1>0, <3>1 DEF W!TypeOK
    <3> QED BY <3>1, <3>2, <3>3, <3>4, <3>5, <3>6
  <2> QED BY <2>1, <2>2 DEF Answers
<1>8. PICK t \in Seq(Requests) :
        /\ queue' = [queue EXCEPT ![child] = queue[child] \o t]
        /\ Fresh(t, [pending EXCEPT !["load"] = 0], pending', calls, child)
        /\ (\A i \in DOMAIN t : model[child]) /\ KnownOps(t)
        /\ pc' \in [Callers -> {"free", "ok", "failed"} \cup W!Waiting]
        /\ \A c \in Callers : (pc'[c] = "asked") = (pending'[c] # 0)
        /\ \A c \in Callers : pc'[c] = "ok" => pc[c] = "ok"
        /\ why' \in [Callers -> {"none", "answer", "gone", "idle", "closed"}]
        /\ \A c \in Callers : why'[c] = why[c] \/ why'[c] = "answer"
        /\ load' \in {"loaded", "failed"} /\ unready' \in BOOLEAN /\ crashed' \in BOOLEAN
        /\ load' = "loaded" => model[child] /\ ~unready' /\ r.ok
  BY <1>7
<1>9. /\ queue[child] \o t \in Seq(Requests)
      /\ \A i \in DOMAIN (queue[child] \o t) :
           \/ i \in DOMAIN queue[child] /\ (queue[child] \o t)[i] = queue[child][i]
           \/ \E j \in DOMAIN t : (queue[child] \o t)[i] = t[j]
  BY <1>1, SentTogether
<1>10. /\ queue' \in [W!Gens -> Seq(Requests)]
       /\ queue'[child] = queue[child] \o t
       /\ \A h \in W!Gens : h # child => queue'[h] = queue[h]
  BY <1>1, <1>8, <1>9, WorkerTypes
<1>11. W!TypeOK'
  <2>1. TypesOf(proc, stage, model)'
    BY WorkerTypes DEF TypesOf
  <2> QED BY <1>0, <1>3, <1>5, <1>6, <1>8, <1>10, <2>1, TypesNext DEF W!TypeOK
<1>12. W!Generations'
  <2>1. \A h \in W!Gens : /\ proc[h] \in {"none", "spawning"} => out'[h] = <<>>
                          /\ proc[h] = "none" => h \notin notified /\ queue'[h] = <<>>
    BY <1>0, <1>1, <1>3, <1>10 DEF W!Generations
  <2> QED BY <1>0, <1>1, <2>1 DEF W!Generations
<1>13. W!OneWorker' /\ W!CloseLeavesNothing' /\ W!Dismissed'
  BY <1>0, <1>11, <1>12, OneFollowsNext DEF W!CloseLeavesNothing, W!Dismissed
<1>14. W!IdleHarmsNoCall' /\ W!AnswerIsForThisCall'
  BY <1>0, <1>5, <1>8 DEF W!IdleHarmsNoCall, W!AnswerIsForThisCall
<1>15. W!TranscribesWithModel'
  <2>1. \A i \in DOMAIN queue'[child] : queue'[child][i].op = "transcribe" => model[child]
    BY <1>0, <1>1, <1>8, <1>9, <1>10 DEF W!TranscribesWithModel
  <2> QED BY <1>0, <1>10, <2>1 DEF W!TranscribesWithModel
<1>16. W!ModelKnown'
  <2>1. \A h \in W!Gens : \A i \in DOMAIN out'[h] : out'[h][i].id = "load" /\ out'[h][i].ok => model[h]
    BY <1>0, <1>1, <1>2, <1>3 DEF W!ModelKnown
  <2>2. KnownOps(queue[child] \o t)
    <3>1. KnownOps(queue[child])
      BY <1>0, <1>1 DEF KnownOps, W!ModelKnown
    <3> QED BY <1>8, <1>9, <3>1 DEF KnownOps
  <2>3. \A h \in W!Gens : KnownOps(queue[h])
    BY <1>0 DEF KnownOps, W!ModelKnown
  <2>4. \A h \in W!Gens : KnownOps(queue'[h])
    BY <1>10, <2>2, <2>3
  <2>5. load' = "loaded" => child' # 0 /\ model'[child'] /\ ~unready'
    BY <1>8
  <2> QED BY <2>1, <2>4, <2>5 DEF KnownOps, W!ModelKnown
<1>17. W!HealthIsHonest'
  BY <1>8 DEF W!HealthIsHonest, W!HealthOk, W!Closed
<1>18. W!Matched'
  <2>1. MatchedBy(queue[child], out[child], pending, calls, child)
    BY <1>0, MatchedIs
  <2> DEFINE p == [pending EXCEPT !["load"] = 0]
  <2>2. \A i \in W!Ids : i # Head(out[child]).id /\ pending[i] = child => p[i] = child
    BY <1>4
  <2>3. Kept(p, pending', calls, calls, child)
    BY <1>4, <1>6 DEF Kept
  <2>4. Fresh(t, p, pending', calls, child)
    BY <1>8
  <2> HIDE DEF p
  <2>5. MatchedBy(queue[child], Tail(out[child]), p, calls, child)
    BY <1>1, <2>1, <2>2, MatchedRead
  <2>6. MatchedBy(queue[child] \o t, Tail(out[child]), pending', calls, child)
    BY <1>1, <1>2, <2>3, <2>4, <2>5, MatchedSend
  <2> QED BY <1>3, <1>10, <2>6, MatchedIsNext
<1> QED BY <1>11, <1>12, <1>13, <1>14, <1>15, <1>16, <1>17, <1>18 DEF WorkerInv

\* A request that is sent is matched by the call that waits for it
LEMMA DispatchKeeps == ASSUME WorkerInv, NEW g \in W!Gens, W!Dispatch(g) PROVE WorkerInv'
<1>0. W!TypeOK /\ W!Generations /\ W!Dismissed
  BY DEF WorkerInv
<1> DEFINE r == Head(out[g])
<1>1. r \in Answers /\ out[g] # <<>> /\ r.id \in W!Ids /\ pending \in [W!Ids -> {0, child}] /\ 0 \notin W!Gens
  <2>1. out[g] \in Seq(Answers) /\ out[g] # <<>> /\ 0 \notin W!Gens /\ pending \in [W!Ids -> {0, child}]
    BY <1>0, WorkerTypes DEF W!Dispatch, W!TypeOK
  <2>2. r \in Answers
    BY <2>1, TailIs
  <2> QED BY <2>1, <2>2 DEF Answers
<1>2. /\ out' = [out EXCEPT ![g] = Tail(@)] /\ UNCHANGED <<op, calls>>
      /\ UNCHANGED <<proc, stage, model, child, spawning, stopping, notified, closing>>
  BY DEF W!Dispatch
<1>3. CASE pending[r.id] # g
  <2>1. UNCHANGED <<pending, pc, answer, why, queue, load, unready, crashed, idle>>
    BY <1>3 DEF W!Dispatch, W!owner
  <2> QED BY <1>1, <1>2, <1>3, <2>1, DroppedKeeps
<1>4. CASE pending[r.id] = g
  <2>1. g = child /\ child # 0
    BY <1>1, <1>4
  <2>2. CASE r.id = "load"
    <3>1. closing = "no"
      <4>1. ~spawning
        BY <1>0, <1>1, <2>1 DEF W!Generations
      <4>2. closing \in {"no", "begun", "asked", "joining", "done"} /\ ~(closing = "begun" /\ ~spawning)
        BY <1>0 DEF W!Dispatch, W!TypeOK
      <4>3. closing \notin {"asked", "joining", "done"}
        BY <1>0, <1>1, <1>4, <2>1, <2>2 DEF W!Dismissed
      <4> QED BY <4>1, <4>2, <4>3
    <3>2. /\ idle' = (~W!Closed /\ ~(r.id = "load" /\ W!LoadSucceeds(r.ok)))
          /\ W!LoadAnswered(child, r.ok)
      BY <1>4, <2>1, <2>2 DEF W!Dispatch
    <3> QED BY <1>1, <1>2, <1>4, <2>1, <2>2, <3>1, <3>2, LoadAnsweredKeeps
  <2>3. CASE r.id # "load"
    <3>1. /\ idle' = (~W!Closed)
          /\ pending' = [pending EXCEPT ![r.id] = 0]
          /\ UNCHANGED <<queue, load, unready, crashed>>
          /\ IF r.id = "shutdown" THEN UNCHANGED <<pc, answer, why>>
             ELSE /\ pc' = [pc EXCEPT ![r.id] = IF r.ok THEN "ok" ELSE "failed"]
                  /\ answer' = [answer EXCEPT ![r.id] = r.call]
                  /\ why' = [why EXCEPT ![r.id] = IF r.ok THEN @ ELSE "answer"]
      BY <1>4, <2>3 DEF W!Dispatch, W!owner
    <3> QED BY <1>1, <1>2, <1>4, <2>1, <2>3, <3>1, AnsweredKeeps
  <2> QED BY <2>2, <2>3
<1> QED BY <1>3, <1>4

\* The worker begins with no process and no call
LEMMA WorkerStarts == W!Init => WorkerInv
<1> SUFFICES ASSUME W!Init PROVE WorkerInv
  OBVIOUS
<1>1. W!TypeOK
  <2>1. \A S : <<>> \in Seq(S)
    BY EmptySeq
  <2>2. MaxGens \in Nat /\ MaxCalls \in Nat
    BY WorkerSettings
  <2>3. /\ queue \in [W!Gens -> Seq([id : W!Ids, op : W!Ops, call : 0 .. MaxCalls])]
        /\ out \in [W!Gens -> Seq([id : W!Ids, op : W!Ops, call : 0 .. MaxCalls, ok : BOOLEAN])]
    BY <2>1 DEF W!Init
  <2>4. 0 \in 0 .. MaxGens /\ 0 \in 0 .. MaxCalls
    BY <2>2
  <2> QED BY <2>3, <2>4 DEF W!Init, W!TypeOK, W!Ids
<1>2. W!Generations /\ W!ModelKnown /\ W!Dismissed /\ W!Matched
  <2>1. W!Generations
    BY DEF W!Init, W!Generations
  <2>2. W!ModelKnown
    BY DEF W!Init, W!ModelKnown
  <2>3. W!Dismissed /\ W!Matched
    BY DEF W!Init, W!Dismissed, W!Matched
  <2> QED BY <2>1, <2>2, <2>3
<1>3. W!TranscribesWithModel /\ W!HealthIsHonest /\ W!IdleHarmsNoCall /\ W!CloseLeavesNothing /\ W!AnswerIsForThisCall
  BY DEF W!Init, W!TranscribesWithModel, W!HealthIsHonest, W!IdleHarmsNoCall, W!CloseLeavesNothing, W!AnswerIsForThisCall
<1> QED BY <1>1, <1>2, <1>3, OneFollows DEF WorkerInv

\* Nothing is lost while nothing happens
LEMMA WorkerUnchanged == WorkerInv /\ UNCHANGED recognition => WorkerInv'
<1> SUFFICES ASSUME WorkerInv, UNCHANGED recognition PROVE WorkerInv'
  OBVIOUS
<1>0. /\ W!TypeOK /\ W!OneWorker /\ W!TranscribesWithModel /\ W!HealthIsHonest /\ W!IdleHarmsNoCall
      /\ W!CloseLeavesNothing /\ W!AnswerIsForThisCall /\ W!Generations /\ W!ModelKnown /\ W!Dismissed /\ W!Matched
  BY DEF WorkerInv
<1>1. /\ UNCHANGED <<proc, stage, queue, out, model, child, spawning, stopping, idle, notified, pending>>
      /\ UNCHANGED <<pc, op, calls, answer, why, load, unready, crashed, closing>>
  BY DEF recognition
<1>2. W!TypeOK'
  BY <1>0, <1>1 DEF W!TypeOK
<1>3. W!Generations'
  BY <1>0, <1>1 DEF W!Generations
<1>4. W!OneWorker' /\ W!TranscribesWithModel' /\ W!IdleHarmsNoCall' /\ W!AnswerIsForThisCall' /\ W!CloseLeavesNothing'
  BY <1>0, <1>1, <1>2, <1>3, OneFollowsNext
  DEF W!TranscribesWithModel, W!IdleHarmsNoCall, W!AnswerIsForThisCall, W!CloseLeavesNothing
<1>5. W!HealthIsHonest' /\ W!ModelKnown' /\ W!Dismissed'
  BY <1>0, <1>1 DEF W!HealthIsHonest, W!HealthOk, W!Closed, W!ModelKnown, W!Dismissed
<1>6. W!Matched'
  BY <1>0, <1>1 DEF W!Matched, W!Current
<1> QED BY <1>2, <1>3, <1>4, <1>5, <1>6 DEF WorkerInv

\* Every step of the worker keeps it
LEMMA WorkerStep == WorkerInv /\ W!Next => WorkerInv'
<1> SUFFICES ASSUME WorkerInv, W!Next PROVE WorkerInv'
  OBVIOUS
<1>1. ASSUME NEW c \in Callers, W!Call(c) \/ W!TryAgain(c) PROVE WorkerInv'
  BY <1>1, CallKeeps, TryAgainKeeps
<1>2. ASSUME NEW g \in W!Gens, W!Serves(g) \/ W!Dies(g) \/ W!GraceEnds(g) \/ W!CloseEvent(g) \/ W!Dispatch(g)
      PROVE  WorkerInv'
  BY <1>2, ServesKeeps, DiesKeeps, WorkerGraceEndsKeeps, CloseEventKeeps, DispatchKeeps
<1>3. CASE W!Spawned \/ W!SpawnFails
  BY <1>3, SpawnedKeeps, SpawnFailsKeeps
<1>4. CASE W!WriteFails \/ W!TimesOut \/ W!IdleFires
  BY <1>4, WriteFailsKeeps, TimesOutKeeps, IdleFiresKeeps
<1>5. CASE W!Close \/ W!ShutDown \/ W!CloseEnds
  BY <1>5, WorkerCloseKeeps, ShutDownKeeps, CloseEndsKeeps
<1> QED BY <1>1, <1>2, <1>3, <1>4, <1>5 DEF W!Next

\* There is one worker at a time, asked to transcribe only with its model in memory,
\* reported as it is, retired under nobody's call and gone after close(), but for a process
\* that outlived the grace after SIGKILL; a caller is given the answer to its own call, for
\* any number of callers, calls and processes (WorkerProcess, MlxAsr).
THEOREM WorkerInvariant == W!Spec => []WorkerInv
<1>1. WorkerInv /\ [W!Next]_(W!vars) => WorkerInv'
  <2> SUFFICES ASSUME WorkerInv, [W!Next]_(W!vars) PROVE WorkerInv'
    OBVIOUS
  <2>1. W!Next \/ UNCHANGED recognition
    BY DEF W!vars, W!processes, W!worker, W!callers, W!owner, recognition
  <2> QED BY <2>1, WorkerStep, WorkerUnchanged
<1> QED BY <1>1, WorkerStarts, PTL DEF W!Spec

\* The run checks it where the other child exists too: a behaviour of the stream leaves
\* the worker where it began.
THEOREM ChildrenWorker == ChildrenSpec => []WorkerInv
<1>1. ChildrenInit => WorkerInv
  BY WorkerStarts DEF ChildrenInit
<1>2. WorkerInv /\ [ChildrenNext]_<<runs, recognition, capture>> => WorkerInv'
  <2> SUFFICES ASSUME WorkerInv, [ChildrenNext]_<<runs, recognition, capture>> PROVE WorkerInv'
    OBVIOUS
  <2>1. W!Next \/ UNCHANGED recognition
    BY DEF ChildrenNext
  <2> QED BY <2>1, WorkerStep, WorkerUnchanged
<1> QED BY <1>1, <1>2, PTL DEF ChildrenSpec
=============================================================================
