----------------------------- MODULE SoundProofs -----------------------------
(***************************************************************************)
(* Proofs about Sound, for every queue length, slice length, byte range,   *)
(* set of durations and number of power-offs: what holds of every program, *)
(* and that the driver implements NoteQueue: in the programs of CleanSpec  *)
(* the ring stays consistent, no tone outlives its note, and the notes     *)
(* that DONOTE accepts are played in order, each once, each for its whole  *)
(* duration.                                                               *)
(***************************************************************************)
EXTENDS Sound, TLAPS, SequenceTheorems

------------------------------------------------------------------------------
(* Arithmetic of the driver                                                  *)

\* A ring index stays in the ring (inc al; and al, DW_SND_QUEUE_MASK).
LEMMA SlotInRing == \A i \in Nat : Slot(i) \in Slots
  BY SoundAssumption, SMT DEF Slot, Slots

\* A slice is a positive part of what is left, unless nothing is left.
LEMMA SliceBounds ==
  ASSUME NEW units \in Nat
  PROVE  /\ SliceOf(units) \in 0 .. MaxSlice
         /\ units - SliceOf(units) \in Nat
         /\ units # 0 => SliceOf(units) # 0
  BY SoundAssumption DEF SliceOf

\* The count written to port 53 is never 0, which would stop the timer, and
\* never wraps the byte it is written as.
LEMMA CountFitsByte ==
  ASSUME NEW x \in Nat, x <= 12 * MaxSlice + 4
  PROVE  CountOf(x) \in 1 .. 255
  BY SoundAssumption DEF CountOf

LEMMA FifthsBounds ==
  ASSUME NEW units \in 0 .. MaxSlice, NEW frac \in 0 .. 4
  PROVE  /\ Fifths(units, frac) \in Nat
         /\ Fifths(units, frac) <= 12 * MaxSlice + 4
         /\ Fifths(units, frac) % 5 \in 0 .. 4
  BY SoundAssumption DEF Fifths

------------------------------------------------------------------------------
(* Type correctness                                                          *)

\* The handler's dw_music_arm_next keeps the bytes in range.
LEMMA IsrArmType ==
  ASSUME NEW s, BytesType(s), IsrArm(s)
  PROVE  BytesType(snd') /\ timer' \in BOOLEAN /\ irq' \in BOOLEAN
         /\ wake' \in BOOLEAN /\ masked' \in BOOLEAN
  <1>1. SliceOf(s.remaining) \in 0 .. MaxSlice
    BY SliceBounds DEF BytesType, SndVars
  <1>2. Fifths(SliceOf(s.remaining), s.count_frac) % 5 \in 0 .. 4
    BY <1>1, FifthsBounds DEF BytesType
  <1> DEFINE sl == SliceOf(s.remaining)
             fr == Fifths(sl, s.count_frac) % 5
  <1>3. sl \in Nat /\ fr \in 0 .. 4
    BY <1>1, <1>2, SoundAssumption
  <1>4. snd' = [[s EXCEPT !["slice"] = sl] EXCEPT !["count_frac"] = fr]
    BY DEF IsrArm
  <1> HIDE DEF sl, fr
  <1>5. BytesType(snd')
    BY <1>3, <1>4 DEF BytesType, SndVars
  <1>6. timer' \in BOOLEAN /\ irq' \in BOOLEAN /\ wake' \in BOOLEAN /\ masked' \in BOOLEAN
    BY DEF IsrArm
  <1> QED
    BY <1>5, <1>6

\* A tick that starts a note arms the timer for it from bytes in range.
LEMMA F9NoteArms ==
  ASSUME TypeOK, F9Note
  PROVE  \E s : BytesType(s) /\ IsrArm(s)
  <1> USE DEF TypeOK
  <1>0. QueueLen \in Nat \ {0} /\ CountMod \in Nat /\ QueueLen < CountMod
    BY SoundAssumption
  <1>1. PICK k \in 0 .. snd.q_count - 1 :
          /\ queue[Slot(snd.q_head + k)].dur # 0
          /\ IsrArm([snd EXCEPT !.q_head = Slot(snd.q_head + k + 1),
                                !.q_count = @ - (k + 1),
                                !.remaining = queue[Slot(snd.q_head + k)].dur,
                                !.active = 1])
    BY DEF F9Note
  <1> DEFINE s == [snd EXCEPT !.q_head = Slot(snd.q_head + k + 1),
                              !.q_count = @ - (k + 1),
                              !.remaining = queue[Slot(snd.q_head + k)].dur,
                              !.active = 1]
  <1>2. snd.q_head + k \in Nat /\ snd.q_head + k + 1 \in Nat
    BY <1>0 DEF BytesType, Slots
  <1>3. Slot(snd.q_head + k + 1) \in Slots /\ Slot(snd.q_head + k) \in Slots
    BY <1>2, SlotInRing
  <1>4. queue[Slot(snd.q_head + k)].dur \in Nat
    BY <1>3 DEF Notes
  <1>5. snd.q_count - (k + 1) \in 0 .. CountMod - 1
    BY <1>0 DEF BytesType
  <1>6. Slot(snd.q_head + k + 1) \in Nat /\ snd.q_count - (k + 1) \in Nat
    BY <1>3, <1>5, <1>0 DEF Slots
  <1>7. BytesType(s)
    BY <1>3, <1>4, <1>5, <1>6 DEF BytesType, SndVars
  <1> QED
    BY <1>1, <1>7

LEMMA TypeInit == Init => TypeOK /\ AccumulatorOK
  <1> SUFFICES ASSUME Init PROVE TypeOK /\ AccumulatorOK
    OBVIOUS
  <1>1. 0 \in Slots
    BY SoundAssumption DEF Slots
  <1>2. 0 \in 0 .. CountMod - 1 /\ 0 \in 0 .. MaxPresses
    BY SoundAssumption
  <1>3. BytesType(snd)
    BY <1>1, <1>2 DEF Init, Silent, BytesType, SndVars
  <1>4. DeviceType
    BY <1>2 DEF Init, DeviceType, RomVector, Vectors, InstallFF, Install
  <1>5. queue \in [Slots -> Notes]
    BY DEF Init, Notes
  <1>6. ControlType
    <2>1. pc = "idle" /\ mode = "reset" /\ cx = FALSE /\ dx = 0 /\ ax = 0 /\ line = 1
      BY DEF Init
    <2>2. cx \in BOOLEAN
      BY <2>1
    <2>3. dx \in Nat /\ ax \in Nat /\ line \in 1 .. 8
      BY <2>1
    <2> QED
      BY <2>1, <2>2, <2>3 DEF ControlType, Labels, Modes
  <1>7. AccumulatorOK
    BY DEF Init, AccumulatorOK
  <1> QED
    BY <1>3, <1>4, <1>5, <1>6, <1>7 DEF TypeOK

\* Each step leaves pc at a label of the program and the registers in range.
LEMMA ControlNext ==
  ASSUME TypeOK, AccumulatorOK, [Next]_vars
  PROVE  ControlType' /\ AccumulatorOK'
  <1> USE DEF TypeOK, ControlType
  <1>1. CASE Call
    BY <1>1, SoundAssumption DEF Call, DONOTE, Goto, Labels, Modes, AccumulatorOK
  <1>2. CASE MusicInstall \/ EnqueueFull \/ EnqueueStore \/ EnqueueCount \/ EnqueueActive
    BY <1>2 DEF MusicInstall, EnqueueFull, EnqueueStore, EnqueueCount, EnqueueActive,
                Goto, Return, regs, Labels, AccumulatorOK
  <1>3. CASE StartSteps
    <2>1. CASE StartHead
      <3>1. snd.q_head + 1 \in Nat
        BY SoundAssumption DEF BytesType, Slots
      <3>2. Slot(snd.q_head + 1) \in Slots
        BY <3>1, SlotInRing
      <3>3. Slot(snd.q_head + 1) \in Nat
        BY <3>2, SoundAssumption DEF Slots
      <3> QED
        BY <2>1, <3>2, <3>3 DEF StartHead, Goto, Labels, AccumulatorOK
    <2>2. CASE StartRead
      <3>1. queue[snd.q_head] \in Notes
        BY DEF BytesType
      <3> QED
        BY <2>2, <3>1 DEF StartRead, Goto, Labels, AccumulatorOK, Notes
    <2>3. CASE StartNext \/ StartAdvance \/ StartCount \/ StartRemaining \/ StartActive
               \/ StartSpeaker \/ EmptyActive \/ EmptyRemaining \/ EmptySlice
      BY <2>3 DEF StartNext, StartAdvance, StartCount, StartRemaining, StartActive,
                  StartSpeaker, EmptyActive, EmptyRemaining, EmptySlice,
                  Goto, regs, Labels, AccumulatorOK
    <2> QED
      BY <1>3, <2>1, <2>2, <2>3 DEF StartSteps
  <1>4. CASE ArmSteps
    <2>1. CASE ArmNext
      <3>1. snd.remaining \in Nat
        BY DEF BytesType, SndVars
      <3>2. SliceOf(snd.remaining) \in 0 .. MaxSlice
        BY <3>1, SliceBounds
      <3> QED
        BY <2>1, <3>2, SoundAssumption DEF ArmNext, Goto, Return, Labels, AccumulatorOK
    <2>2. CASE ArmUnits
      <3>1. ax \in 0 .. MaxSlice
        BY <2>2 DEF ArmUnits, AccumulatorOK
      <3>2. Fifths(ax, snd.count_frac) \in Nat
            /\ Fifths(ax, snd.count_frac) <= 12 * MaxSlice + 4
        BY <3>1, FifthsBounds DEF BytesType
      <3> QED
        BY <2>2, <3>2 DEF ArmUnits, Goto, Labels, AccumulatorOK
    <2>3. CASE ArmFrac
      <3>1. CountOf(ax) \in 1 .. 255
        BY <2>3, CountFitsByte DEF ArmFrac, AccumulatorOK
      <3> QED
        BY <2>3, <3>1 DEF ArmFrac, Goto, Labels, AccumulatorOK
    <2>4. CASE ArmSlice \/ ArmWake \/ ArmUnmask \/ ArmCount
      BY <2>4 DEF ArmSlice, ArmWake, ArmUnmask, ArmCount, Goto, regs, Labels, AccumulatorOK
    <2> QED
      BY <1>4, <2>1, <2>2, <2>3, <2>4 DEF ArmSteps
  <1>5. CASE ResetStore \/ SpeakerStop \/ MusicRestore \/ ResetRestore
    BY <1>5 DEF ResetStore, SpeakerStop, MusicRestore, ResetRestore,
                Goto, Return, regs, Labels, Modes, AccumulatorOK
  <1>6. CASE WaitNext
    <2>1. SliceOf(dx) \in 0 .. MaxSlice /\ dx - SliceOf(dx) \in Nat
      BY SliceBounds
    <2>2. FixedCount(SliceOf(dx)) \in 1 .. 255
      <3> DEFINE x == 12 * SliceOf(dx) + 4
      <3>1. x \in Nat /\ x <= 12 * MaxSlice + 4
        BY <2>1, SoundAssumption
      <3> QED
        BY <3>1, CountFitsByte DEF FixedCount
    <2> QED
      BY <1>6, <2>1, <2>2 DEF WaitNext, Goto, Labels, AccumulatorOK
  <1>7. CASE NoteStart \/ WaitSpin \/ PowerRestore
    BY <1>7 DEF NoteStart, WaitSpin, PowerRestore, Goto, regs, Labels, AccumulatorOK
  <1>8. CASE WaitSlice
    BY <1>8 DEF WaitSlice, Goto, regs, Labels, AccumulatorOK
  <1>9. CASE Poll
    BY <1>9 DEF Poll, PollEnter, PollSleep, PollNoKey, PollKey,
                Goto, Return, regs, Labels, AccumulatorOK
  <1>10. CASE Interrupt \/ TimerExpires \/ PowerCycle \/ UNCHANGED vars
    <2>1. UNCHANGED <<pc, mode, regs>>
      BY <1>10 DEF Interrupt, RomF9, F9Waiting, F9Quiet, F9Slice, F9Note, F9Empty,
                   TimerExpires, PowerCycle, vars, regs
    <2> QED
      BY <2>1 DEF regs, AccumulatorOK
  <1>11. CASE Launch
    BY <1>11 DEF Launch, Goto, Labels, Modes, AccumulatorOK
  <1> QED
    BY <1>1, <1>2, <1>3, <1>4, <1>5, <1>6, <1>7, <1>8, <1>9, <1>10, <1>11 DEF Next, Step

\* Each step leaves the dw_snd_* bytes and the queue in range.
LEMMA BytesNext ==
  ASSUME TypeOK, AccumulatorOK, [Next]_vars
  PROVE  BytesType(snd)' /\ (queue \in [Slots -> Notes])'
  <1> USE DEF TypeOK
  <1>0. QueueLen \in Nat \ {0} /\ CountMod \in Nat /\ QueueLen < CountMod
    BY SoundAssumption
  <1>1. CASE EnqueueStore
    <2>1. snd.q_tail \in Slots /\ [tone |-> cx, dur |-> dx] \in Notes
      BY DEF BytesType, ControlType, Notes
    <2>2. snd.q_tail + 1 \in Nat
      BY <2>1, <1>0 DEF Slots
    <2>3. Slot(snd.q_tail + 1) \in Slots
      BY <2>2, SlotInRing
    <2>4. Slot(snd.q_tail + 1) \in Nat
      BY <2>3, <1>0 DEF Slots
    <2>5. (queue \in [Slots -> Notes])'
      BY <1>1, <2>1 DEF EnqueueStore
    <2>6. BytesType(snd)'
      BY <1>1, <2>3, <2>4 DEF EnqueueStore, BytesType, SndVars
    <2> QED
      BY <2>5, <2>6
  <1>2. CASE EnqueueCount \/ StartCount
    <2>1. /\ (snd.q_count + 1) % CountMod \in 0 .. CountMod - 1
          /\ (snd.q_count + CountMod - 1) % CountMod \in 0 .. CountMod - 1
      BY <1>0 DEF BytesType
    <2>2. /\ (snd.q_count + 1) % CountMod \in Nat
          /\ (snd.q_count + CountMod - 1) % CountMod \in Nat
      BY <2>1, <1>0
    <2> QED
      BY <1>2, <2>1, <2>2 DEF EnqueueCount, StartCount, BytesType, SndVars
  <1>3. CASE StartAdvance
    <2>1. ax \in Slots /\ ax \in Nat
      BY <1>3 DEF StartAdvance, AccumulatorOK, ControlType
    <2> QED
      BY <1>3, <2>1 DEF StartAdvance, BytesType, SndVars
  <1>4. CASE StartRemaining \/ StartActive \/ EmptyActive \/ EmptyRemaining
             \/ EmptySlice \/ ArmSlice \/ WaitSlice \/ F9Waiting
    BY <1>4 DEF StartRemaining, StartActive, EmptyActive, EmptyRemaining, EmptySlice,
                ArmSlice, WaitSlice, F9Waiting, BytesType, SndVars, ControlType
  <1>5. CASE ArmFrac
    <2>1. ax % 5 \in 0 .. 4
      BY DEF ControlType
    <2> QED
      BY <1>5, <2>1 DEF ArmFrac, BytesType, SndVars
  <1>6. CASE ResetStore
    <2>1. 0 \in Slots /\ 0 \in 0 .. CountMod - 1
      BY <1>0 DEF Slots
    <2>2. snd' = [snd EXCEPT ![ResetOrder[line]] = 0]
      BY <1>6 DEF ResetStore
    <2>3. \A v \in SndVars : snd'[v] = snd[v] \/ snd'[v] = 0
      BY <2>2 DEF BytesType
    <2>4. snd' \in [SndVars -> Nat]
      BY <2>2 DEF BytesType
    <2> QED
      BY <1>6, <2>1, <2>3, <2>4 DEF ResetStore, BytesType, SndVars
  <1>7. CASE F9Slice
    <2> DEFINE s == [snd EXCEPT !.remaining = @ - snd.slice]
    <2>1. snd.remaining - snd.slice \in Nat
      BY <1>7 DEF F9Slice, NoteEnds, BytesType, SndVars
    <2>2. BytesType(s)
      BY <2>1 DEF BytesType, SndVars
    <2>3. IsrArm(s)
      BY <1>7 DEF F9Slice
    <2> QED
      BY <1>7, <2>2, <2>3, IsrArmType DEF F9Slice
  <1>8. CASE F9Note
    BY <1>8, IsrArmType, F9NoteArms DEF F9Note
  <1>9. CASE F9Empty
    <2>1. snd.q_head + snd.q_count \in Nat
      BY <1>0 DEF BytesType, Slots
    <2>2. Slot(snd.q_head + snd.q_count) \in Slots
      BY <2>1, SlotInRing
    <2>3. Slot(snd.q_head + snd.q_count) \in Nat /\ 0 \in 0 .. CountMod - 1
      BY <2>2, <1>0 DEF Slots
    <2> QED
      BY <1>9, <2>2, <2>3 DEF F9Empty, BytesType, SndVars
  <1>10. CASE Launch
    <2>1. 0 \in Slots /\ 0 \in 0 .. CountMod - 1
      BY <1>0 DEF Slots
    <2> QED
      BY <1>10, <2>1 DEF Launch, Silent, BytesType, SndVars, Notes
  <1>11. CASE UNCHANGED <<snd, queue>>
    BY <1>11 DEF BytesType
  <1> QED
    <2>1. Call \/ Poll => UNCHANGED <<snd, queue>>
      BY DEF Call, DONOTE, Poll, PollEnter, PollSleep, PollNoKey, PollKey
    <2>2. RomF9 \/ F9Quiet \/ TimerExpires \/ PowerCycle \/ UNCHANGED vars
            => UNCHANGED <<snd, queue>>
      BY DEF RomF9, F9Quiet, TimerExpires, PowerCycle, vars
    <2>3. MusicInstall \/ EnqueueFull \/ EnqueueActive \/ StartNext \/ StartRead
          \/ StartHead \/ StartSpeaker \/ ArmNext \/ ArmUnits \/ ArmWake \/ ArmUnmask
          \/ ArmCount \/ SpeakerStop \/ MusicRestore \/ ResetRestore \/ NoteStart
          \/ WaitNext \/ WaitSpin \/ PowerRestore => UNCHANGED <<snd, queue>>
      BY DEF MusicInstall, EnqueueFull, EnqueueActive, StartNext, StartRead, StartHead,
             StartSpeaker, ArmNext, ArmUnits, ArmWake, ArmUnmask, ArmCount, SpeakerStop,
             MusicRestore, ResetRestore, NoteStart, WaitNext, WaitSpin, PowerRestore
    <2> QED
      BY <1>1, <1>2, <1>3, <1>4, <1>5, <1>6, <1>7, <1>8, <1>9, <1>10, <1>11,
         <2>1, <2>2, <2>3 DEF Next, Step, StartSteps, ArmSteps, Interrupt

\* Installing and restoring a vector that can be handed back leaves it so.
LEMMA VectorOps ==
  ASSUME NEW v \in Vectors, Returnable(v)
  PROVE  /\ Install(v) \in Vectors /\ Returnable(Install(v))
         /\ Restore(v) \in Vectors /\ Returnable(Restore(v))
         /\ ~Restore(v).installed /\ Restore(v).vector = "rom"
         /\ [v EXCEPT !.vector = "rom"] \in Vectors
         /\ Returnable([v EXCEPT !.vector = "rom"])
  <1>1. CASE v.installed
    BY <1>1 DEF Returnable, Vectors, Install, Restore
  <1>2. CASE ~v.installed
    BY <1>2 DEF Returnable, Vectors, Install, Restore
  <1> QED
    BY <1>1, <1>2

LEMMA FFOps ==
  ASSUME NEW v \in Vectors, Returnable(v)
  PROVE  LET u == [v EXCEPT !.vector = "rom"]
         IN InstallFF(u) \in Vectors /\ Returnable(InstallFF(u))
  <1> DEFINE u == [v EXCEPT !.vector = "rom"]
  <1>1. u \in Vectors /\ Returnable(u)
    BY VectorOps
  <1>2. Install(u) \in Vectors /\ Returnable(Install(u)) /\ Install(u).installed
    <2>1. Install(u).installed
      BY <1>1 DEF Install, Vectors
    <2> QED
      BY <1>1, <2>1, VectorOps
  <1> HIDE DEF u
  <1>3. InstallFF(u) \in Vectors /\ Returnable(InstallFF(u))
    BY <1>2 DEF InstallFF, Vectors, Returnable
  <1> QED
    BY <1>3 DEF u

LEMMA LaunchOps ==
  ASSUME NEW v \in Vectors, v.vector = "rom"
  PROVE  LET u == [RomVector EXCEPT !.vector = v.vector]
         IN /\ u \in Vectors /\ Returnable(u)
            /\ InstallFF(u) \in Vectors /\ Returnable(InstallFF(u))
  BY DEF RomVector, Returnable, InstallFF, Install, Vectors

\* Each step leaves the hardware and the vectors in range.
LEMMA DeviceNext ==
  ASSUME TypeOK, VectorsHandedBack, [Next]_vars
  PROVE  DeviceType'
  <1> USE DEF TypeOK, DeviceType
  <1>1. f9 \in Vectors /\ ff \in Vectors /\ Returnable(f9) /\ Returnable(ff)
    BY DEF VectorsHandedBack
  <1>2. CASE MusicInstall \/ MusicRestore \/ ResetRestore \/ PowerRestore \/ Launch \/ PowerCycle
    <2>1. Launch => f9' \in Vectors /\ ff' \in Vectors
      <3> SUFFICES ASSUME Launch PROVE f9' \in Vectors /\ ff' \in Vectors
        OBVIOUS
      <3>1. f9.vector = "rom" /\ ff.vector = "rom"
        BY DEF Launch, VectorsHandedBack
      <3> QED
        BY <1>1, <3>1, LaunchOps DEF Launch
    <2>2. ~Launch => f9' \in Vectors /\ ff' \in Vectors
      BY <1>1, <1>2, VectorOps, FFOps
         DEF MusicInstall, MusicRestore, ResetRestore, PowerRestore, PowerCycle
    <2>4. f9' \in Vectors /\ ff' \in Vectors
      BY <2>1, <2>2
    <2>5. UNCHANGED <<speaker, timerHw>> \/ PowerCycle
      BY <1>2 DEF MusicInstall, MusicRestore, ResetRestore, PowerRestore, Launch
    <2>6. speaker' \in BOOLEAN /\ timer' \in BOOLEAN /\ irq' \in BOOLEAN
          /\ masked' \in BOOLEAN /\ wake' \in BOOLEAN
      BY <2>5 DEF timerHw, PowerCycle
    <2>7. presses' \in 0 .. MaxPresses
      BY <1>2, SoundAssumption
         DEF MusicInstall, MusicRestore, ResetRestore, PowerRestore, Launch, PowerCycle
    <2> QED
      BY <2>4, <2>6, <2>7
  <1>3. CASE F9Slice
    <2>1. timer' \in BOOLEAN /\ irq' \in BOOLEAN /\ wake' \in BOOLEAN /\ masked' \in BOOLEAN
      BY <1>3 DEF F9Slice, IsrArm
    <2> QED
      BY <1>3, <2>1 DEF F9Slice, vectors
  <1>4. CASE F9Note
    <2>1. timer' \in BOOLEAN /\ irq' \in BOOLEAN /\ wake' \in BOOLEAN /\ masked' \in BOOLEAN
      BY <1>4 DEF F9Note, IsrArm
    <2>2. PICK k \in 0 .. snd.q_count - 1 : speaker' = queue[Slot(snd.q_head + k)].tone
      BY <1>4 DEF F9Note
    <2>3. snd.q_head + k \in Nat
      BY SoundAssumption DEF BytesType, Slots
    <2>4. Slot(snd.q_head + k) \in Slots
      BY <2>3, SlotInRing
    <2>5. speaker' \in BOOLEAN
      BY <2>2, <2>4 DEF Notes
    <2> QED
      BY <1>4, <2>1, <2>5 DEF F9Note, vectors
  <1>5. CASE F9Empty
    <2>1. f9' \in Vectors
      BY <1>1, <1>5, VectorOps DEF F9Empty
    <2> QED
      BY <1>5, <2>1 DEF F9Empty
  <1>6. CASE RomF9 \/ F9Waiting \/ F9Quiet \/ TimerExpires \/ Poll
    <2>1. UNCHANGED <<speaker, f9, ff, presses>>
      BY <1>6 DEF RomF9, F9Waiting, F9Quiet, TimerExpires, Poll, PollEnter, PollSleep,
                  PollNoKey, PollKey, vectors, timerHw
    <2>2. timer' \in BOOLEAN /\ irq' \in BOOLEAN /\ wake' \in BOOLEAN /\ masked' \in BOOLEAN
      BY <1>6 DEF RomF9, F9Waiting, F9Quiet, TimerExpires, Poll, PollEnter, PollSleep,
                  PollNoKey, PollKey, timerHw
    <2> QED
      BY <2>1, <2>2
  <1>7. CASE ArmWake \/ ArmUnmask \/ ArmCount
    <2>1. UNCHANGED <<speaker, f9, ff, presses>>
      BY <1>7 DEF ArmWake, ArmUnmask, ArmCount, vectors
    <2>2. timer' \in BOOLEAN /\ irq' \in BOOLEAN /\ wake' \in BOOLEAN /\ masked' \in BOOLEAN
      BY <1>7 DEF ArmWake, ArmUnmask, ArmCount
    <2> QED
      BY <2>1, <2>2
  <1>8. CASE StartSpeaker \/ NoteStart \/ SpeakerStop
    <2>1. UNCHANGED <<timer, irq, masked, wake, f9, ff, presses>>
      BY <1>8 DEF StartSpeaker, NoteStart, SpeakerStop, timerHw, vectors
    <2>2. speaker' \in BOOLEAN
      BY <1>8 DEF StartSpeaker, NoteStart, SpeakerStop, ControlType
    <2> QED
      BY <2>1, <2>2
  <1>9. CASE UNCHANGED <<speaker, timerHw, vectors, presses>>
    BY <1>9 DEF timerHw, vectors
  <1> QED
    <2>1. Call \/ UNCHANGED vars => UNCHANGED <<speaker, timerHw, vectors, presses>>
      BY DEF Call, DONOTE, vars, timerHw, vectors
    <2>2. EnqueueFull \/ EnqueueStore \/ EnqueueCount \/ EnqueueActive \/ StartNext
          \/ StartRead \/ StartHead \/ StartAdvance \/ StartCount \/ StartRemaining
          \/ StartActive \/ EmptyActive \/ EmptyRemaining \/ EmptySlice \/ ArmNext
          \/ ArmSlice \/ ArmUnits \/ ArmFrac \/ ResetStore \/ WaitNext \/ WaitSlice
          \/ WaitSpin => UNCHANGED <<speaker, timerHw, vectors, presses>>
      BY DEF EnqueueFull, EnqueueStore, EnqueueCount, EnqueueActive, StartNext, StartRead,
             StartHead, StartAdvance, StartCount, StartRemaining, StartActive, EmptyActive,
             EmptyRemaining, EmptySlice, ArmNext, ArmSlice, ArmUnits, ArmFrac, ResetStore,
             WaitNext, WaitSlice, WaitSpin
    <2> QED
      BY <1>2, <1>3, <1>4, <1>5, <1>6, <1>7, <1>8, <1>9, <2>1, <2>2
         DEF Next, Step, StartSteps, ArmSteps, Interrupt

------------------------------------------------------------------------------
(* The vectors                                                               *)

\* The handlers that are put back are the ROM's, and none is left behind.
LEMMA VectorsNext ==
  ASSUME TypeOK, HandedBack, VectorsHandedBack, [Next]_vars
  PROVE  HandedBack' /\ VectorsHandedBack'
  <1>0. f9 \in Vectors /\ ff \in Vectors /\ Returnable(f9) /\ Returnable(ff)
    BY DEF VectorsHandedBack, TypeOK, DeviceType
  <1> USE DEF HandedBack, VectorsHandedBack
  <1>1. CASE MusicInstall
    BY <1>0, <1>1, VectorOps DEF MusicInstall, Goto
  <1>2. CASE MusicRestore \/ ResetRestore
    BY <1>0, <1>2, VectorOps DEF MusicRestore, ResetRestore, Goto, Return
  <1>3. CASE PowerRestore
    BY <1>0, <1>3, VectorOps DEF PowerRestore, Goto, Returnable
  <1>4. CASE Launch
    BY <1>0, <1>4, LaunchOps DEF Launch, Goto
  <1>5. CASE PowerCycle
    <2>1. pc # "exited"
      BY <1>5 DEF PowerCycle
    <2>2. Returnable(f9') /\ Returnable(ff')
      BY <1>0, <1>5, VectorOps, FFOps DEF PowerCycle
    <2>3. f9'.installed = f9.installed
      BY <1>0, <1>5 DEF PowerCycle, Vectors
    <2> QED
      BY <1>5, <2>1, <2>2, <2>3 DEF PowerCycle
  <1>6. CASE F9Empty
    BY <1>0, <1>6, VectorOps DEF F9Empty
  <1>7. CASE UNCHANGED <<pc, f9, ff>>
    BY <1>7
  <1>8. CASE UNCHANGED <<f9, ff>> /\ pc' \notin {"power_restore", "exited"}
    BY <1>8
  <1> QED
    <2>1. Call \/ Poll => UNCHANGED <<f9, ff>> /\ pc' \notin {"power_restore", "exited"}
      BY DEF Call, DONOTE, Poll, PollEnter, PollSleep, PollNoKey, PollKey, Goto, Return, vectors
    <2>2. RomF9 \/ F9Waiting \/ F9Quiet \/ F9Slice \/ F9Note \/ TimerExpires \/ UNCHANGED vars
            => UNCHANGED <<pc, f9, ff>>
      BY DEF RomF9, F9Waiting, F9Quiet, F9Slice, F9Note, TimerExpires, vars, vectors
    <2>3. EnqueueFull \/ EnqueueStore \/ EnqueueCount \/ EnqueueActive \/ StartNext
          \/ StartRead \/ StartHead \/ StartAdvance \/ StartCount \/ StartRemaining
          \/ StartActive \/ StartSpeaker \/ EmptyActive \/ EmptyRemaining \/ EmptySlice
            => UNCHANGED <<f9, ff>> /\ pc' \notin {"power_restore", "exited"}
      BY DEF EnqueueFull, EnqueueStore, EnqueueCount, EnqueueActive, StartNext, StartRead,
             StartHead, StartAdvance, StartCount, StartRemaining, StartActive, StartSpeaker,
             EmptyActive, EmptyRemaining, EmptySlice, Goto, Return, vectors
    <2>4. ArmNext \/ ArmSlice \/ ArmUnits \/ ArmFrac \/ ArmWake \/ ArmUnmask \/ ArmCount
          \/ ResetStore \/ SpeakerStop \/ NoteStart \/ WaitNext \/ WaitSlice \/ WaitSpin
            => UNCHANGED <<f9, ff>> /\ pc' \notin {"power_restore", "exited"}
      BY DEF ArmNext, ArmSlice, ArmUnits, ArmFrac, ArmWake, ArmUnmask, ArmCount, ResetStore,
             SpeakerStop, NoteStart, WaitNext, WaitSlice, WaitSpin, Goto, Return, vectors
    <2> QED
      BY <1>1, <1>2, <1>3, <1>4, <1>5, <1>6, <1>7, <1>8, <2>1, <2>2, <2>3, <2>4
         DEF Next, Step, StartSteps, ArmSteps, Interrupt

------------------------------------------------------------------------------
(* The foreground note                                                       *)

\* Which routine runs for which call
LEMMA ModeNext ==
  ASSUME ModeOK, [Next]_vars
  PROVE  ModeOK'
  <1> USE DEF ModeOK, NoteSteps, ArmStores
  <1>1. CASE Call
    BY <1>1 DEF Call, DONOTE, Goto
  <1>2. CASE MusicInstall \/ EnqueueFull \/ EnqueueStore \/ EnqueueCount \/ EnqueueActive
    BY <1>2 DEF MusicInstall, EnqueueFull, EnqueueStore, EnqueueCount, EnqueueActive,
                Goto, Return, regs
  <1>3. CASE StartSteps
    BY <1>3 DEF StartSteps, StartNext, StartRead, StartHead, StartAdvance, StartCount,
                StartRemaining, StartActive, StartSpeaker, EmptyActive, EmptyRemaining,
                EmptySlice, Goto
  <1>4. CASE ArmSteps
    BY <1>4 DEF ArmSteps, ArmNext, ArmSlice, ArmUnits, ArmFrac, ArmWake, ArmUnmask,
                ArmCount, Goto, Return
  <1>5. CASE ResetStore \/ SpeakerStop \/ MusicRestore \/ ResetRestore
    BY <1>5 DEF ResetStore, SpeakerStop, MusicRestore, ResetRestore, Goto, Return
  <1>6. CASE NoteStart \/ WaitNext \/ WaitSlice \/ WaitSpin \/ PowerRestore
    BY <1>6 DEF NoteStart, WaitNext, WaitSlice, WaitSpin, PowerRestore, Goto
  <1>7. CASE Poll \/ Launch
    BY <1>7 DEF Poll, PollEnter, PollSleep, PollNoKey, PollKey, Launch, Goto, Return
  <1>8. CASE UNCHANGED <<pc, mode>>
    BY <1>8
  <1> QED
    <2>1. Interrupt \/ TimerExpires \/ PowerCycle \/ UNCHANGED vars => UNCHANGED <<pc, mode>>
      BY DEF Interrupt, RomF9, F9Waiting, F9Quiet, F9Slice, F9Note, F9Empty,
             TimerExpires, PowerCycle, vars
    <2> QED
      BY <1>1, <1>2, <1>3, <1>4, <1>5, <1>6, <1>7, <1>8, <2>1 DEF Next, Step

\* A tick that finds nothing queued and nothing playing starts nothing: from the
\* stores of the reset to the end of the note, the queue stays empty and quiet.
LEMMA NothingToPlayNext ==
  ASSUME TypeOK, ModeOK, NothingToPlay, [Next]_vars
  PROVE  NothingToPlay'
  <1> USE DEF NothingToPlay, InNote, NoteSteps, ArmStores
  <1>0. snd \in [SndVars -> Nat] /\ line \in 1 .. 8
    BY DEF TypeOK, BytesType, ControlType
  <1>1. CASE Call \/ Poll \/ Launch
    BY <1>1 DEF Call, DONOTE, Poll, PollEnter, PollSleep, PollNoKey, PollKey, Launch,
                Goto, Return, regs
  <1>2. CASE MusicInstall \/ EnqueueFull \/ EnqueueStore \/ EnqueueCount \/ EnqueueActive
    BY <1>2 DEF MusicInstall, EnqueueFull, EnqueueStore, EnqueueCount, EnqueueActive,
                Goto, Return, regs, ModeOK
  <1>3. CASE StartSteps
    BY <1>3 DEF StartSteps, StartNext, StartRead, StartHead, StartAdvance, StartCount,
                StartRemaining, StartActive, StartSpeaker, EmptyActive, EmptyRemaining,
                EmptySlice, Goto, ModeOK
  <1>4. CASE ArmNext \/ ArmSlice \/ ArmUnits \/ ArmFrac
    BY <1>4 DEF ArmNext, ArmSlice, ArmUnits, ArmFrac, Goto, Return, ModeOK
  <1>5. CASE ArmWake \/ ArmUnmask \/ ArmCount
    BY <1>5 DEF ArmWake, ArmUnmask, ArmCount, Goto
  <1>6. CASE ResetStore
    <2>1. ResetOrder[line] \in SndVars
      BY <1>0 DEF ResetOrder, SndVars
    <2>2. snd' = [snd EXCEPT ![ResetOrder[line]] = 0]
      BY <1>6 DEF ResetStore
    <2>3. \A v \in SndVars : snd'[v] = IF v = ResetOrder[line] THEN 0 ELSE snd[v]
      BY <1>0, <2>2
    <2>4. line = 3 => ResetOrder[line] = "q_count"
      BY DEF ResetOrder
    <2>5. line = 4 => ResetOrder[line] = "active"
      BY DEF ResetOrder
    <2>6. snd.q_count = 0 => snd'.q_count = 0
      BY <2>3 DEF SndVars
    <2>7. snd.active = 0 => snd'.active = 0
      BY <2>3 DEF SndVars
    <2>8. line = 3 => snd'.q_count = 0
      BY <2>3, <2>4 DEF SndVars
    <2>9. line = 4 => snd'.active = 0
      BY <2>3, <2>5 DEF SndVars
    <2>10. pc = "reset" /\ IF line < 8 THEN line' = line + 1 /\ pc' = pc
                                        ELSE line' = 1 /\ pc' = "reset_stop"
      BY <1>6 DEF ResetStore, Goto
    <2> QED
      BY <1>0, <2>6, <2>7, <2>8, <2>9, <2>10
  <1>7. CASE SpeakerStop \/ MusicRestore \/ ResetRestore
    BY <1>0, <1>7 DEF SpeakerStop, MusicRestore, ResetRestore, Goto, Return, regs, ModeOK
  <1>8. CASE NoteStart \/ WaitNext \/ WaitSlice \/ WaitSpin \/ PowerRestore
    BY <1>0, <1>8 DEF NoteStart, WaitNext, WaitSlice, WaitSpin, PowerRestore, Goto, SndVars
  <1>9. CASE F9Slice \/ F9Note \/ F9Empty \/ F9Waiting
    <2>1. UNCHANGED <<pc, mode, line>>
      BY <1>9 DEF F9Slice, F9Note, F9Empty, F9Waiting, regs
    <2>2. CASE F9Waiting
      BY <1>0, <2>1, <2>2 DEF F9Waiting, SndVars
    <2>3. CASE F9Empty
      <3>1. snd'.q_count = 0 /\ snd'.active = 0
        BY <1>0, <2>3 DEF F9Empty, SndVars
      <3> QED
        BY <2>1, <3>1
    <2>4. CASE F9Slice
      <3>1. snd'.q_count = snd.q_count /\ snd.active # 0
        BY <1>0, <2>4 DEF F9Slice, IsrArm, SndVars
      <3> QED
        BY <2>1, <3>1
    <2>5. CASE F9Note
      <3>1. snd.q_count # 0
        BY <2>5 DEF F9Note
      <3> QED
        BY <1>0, <2>1, <3>1
    <2> QED
      BY <1>9, <2>2, <2>3, <2>4, <2>5
  <1>10. CASE UNCHANGED <<pc, mode, line, snd>>
    BY <1>10
  <1> QED
    <2>1. RomF9 \/ F9Quiet \/ TimerExpires \/ PowerCycle \/ UNCHANGED vars
            => UNCHANGED <<pc, mode, line, snd>>
      BY DEF RomF9, F9Quiet, TimerExpires, PowerCycle, vars, regs
    <2> QED
      BY <1>1, <1>2, <1>3, <1>4, <1>5, <1>6, <1>7, <1>8, <1>9, <1>10, <2>1
         DEF Next, Step, ArmSteps, Interrupt

\* During a note the F9 vector is DW-BASIC's and F9 is unmasked when the timer is
\* started: no tick uninstalls the handler, since there is nothing to play.
LEMMA NoteNext ==
  ASSUME TypeOK, ModeOK, NothingToPlay, NoteOwnsF9, Unmasked, VectorsHandedBack, [Next]_vars
  PROVE  NoteOwnsF9' /\ Unmasked'
  <1> USE DEF NoteOwnsF9, Unmasked, InNote, NoteSteps, ArmStores
  <1>0. presses \in Nat /\ presses' \in Nat /\ (presses' = 0 => presses = 0)
    <2>1. presses \in Nat
      BY SoundAssumption DEF TypeOK, DeviceType
    <2>2. presses' = presses \/ presses' = presses + 1
      BY DEF Next, Call, DONOTE, Step, Poll, Interrupt, StartSteps, ArmSteps,
             MusicInstall, EnqueueFull, EnqueueStore, EnqueueCount, EnqueueActive,
             StartNext, StartRead, StartHead, StartAdvance, StartCount, StartRemaining,
             StartActive, StartSpeaker, EmptyActive, EmptyRemaining, EmptySlice,
             ArmNext, ArmSlice, ArmUnits, ArmFrac, ArmWake, ArmUnmask, ArmCount,
             ResetStore, SpeakerStop, MusicRestore, ResetRestore, NoteStart, WaitNext,
             WaitSlice, WaitSpin, PowerRestore, PollEnter, PollSleep, PollNoKey, PollKey,
             RomF9, F9Waiting, F9Quiet, F9Slice, IsrArm, F9Note, F9Empty, TimerExpires,
             Launch, PowerCycle, vars
    <2> QED
      BY <2>1, <2>2
  <1>1. CASE Call \/ Poll \/ Launch
    BY <1>0, <1>1 DEF Call, DONOTE, Poll, PollEnter, PollSleep, PollNoKey, PollKey, Launch,
                RomVector, Goto, Return, regs, vectors
  <1>2. CASE MusicInstall
    <2>1. f9'.installed /\ (presses = 0 => f9'.vector = "dw")
      BY <1>2 DEF MusicInstall, Install
    <2> QED
      BY <1>2, <2>1 DEF MusicInstall, Goto
  <1>3. CASE EnqueueFull \/ EnqueueStore \/ EnqueueCount \/ EnqueueActive \/ StartSteps
    <2>1. UNCHANGED <<f9, presses, mode>>
      BY <1>3 DEF EnqueueFull, EnqueueStore, EnqueueCount, EnqueueActive,
                  StartSteps, StartNext, StartRead, StartHead, StartAdvance, StartCount,
                  StartRemaining, StartActive, StartSpeaker, EmptyActive, EmptyRemaining,
                  EmptySlice, vectors
    <2>2. mode = "background" /\ pc' \notin {"install"} \cup NoteSteps \cup ArmStores
      BY <1>3 DEF EnqueueFull, EnqueueStore, EnqueueCount, EnqueueActive,
                  StartSteps, StartNext, StartRead, StartHead, StartAdvance, StartCount,
                  StartRemaining, StartActive, StartSpeaker, EmptyActive, EmptyRemaining,
                  EmptySlice, Goto, Return, ModeOK
    <2> QED
      BY <2>1, <2>2
  <1>4. CASE ArmSteps
    BY <1>0, <1>4 DEF ArmSteps, ArmNext, ArmSlice, ArmUnits, ArmFrac, ArmWake, ArmUnmask,
                ArmCount, Goto, Return, ModeOK, vectors
  <1>5. CASE ResetStore \/ SpeakerStop
    BY <1>5 DEF ResetStore, SpeakerStop, Goto, vectors
  <1>10. CASE MusicRestore \/ ResetRestore
    <2>1. f9' = Restore(f9) /\ f9 \in Vectors /\ Returnable(f9)
      BY <1>10 DEF MusicRestore, ResetRestore, TypeOK, DeviceType, VectorsHandedBack
    <2>2. ~f9'.installed
      BY <2>1, VectorOps
    <2> QED
      BY <1>10, <2>2 DEF MusicRestore, ResetRestore, Goto, Return
  <1>6. CASE NoteStart \/ WaitNext \/ WaitSlice \/ WaitSpin \/ PowerRestore
    BY <1>0, <1>6 DEF NoteStart, WaitNext, WaitSlice, WaitSpin, PowerRestore, Goto, vectors
  <1>7. CASE RomF9 \/ F9Waiting \/ F9Quiet \/ F9Slice \/ F9Note \/ TimerExpires \/ UNCHANGED vars
    <2>1. UNCHANGED <<pc, mode, f9, presses>> /\ (masked' = masked \/ masked' = FALSE)
      BY <1>7 DEF RomF9, F9Waiting, F9Quiet, F9Slice, F9Note, IsrArm, TimerExpires, vars, vectors
    <2> QED
      BY <2>1
  <1>8. CASE F9Empty
    <2>1. snd.active # 0 \/ snd.q_count # 0
      BY <1>8 DEF F9Empty, F9Advances
    <2>2. ~InNote
      BY <2>1 DEF NothingToPlay
    <2>3. f9' = Restore(f9) /\ f9 \in Vectors /\ Returnable(f9)
      BY <1>8 DEF F9Empty, TypeOK, DeviceType, VectorsHandedBack
    <2>4. ~f9'.installed
      BY <2>3, VectorOps
    <2> QED
      BY <1>8, <2>2, <2>4 DEF F9Empty
  <1>9. CASE PowerCycle
    <2>1. presses' # 0
      BY <1>0, <1>9 DEF PowerCycle
    <2>2. f9'.installed = f9.installed
      BY <1>9 DEF PowerCycle, TypeOK, DeviceType, Vectors
    <2> QED
      BY <1>9, <2>1, <2>2 DEF PowerCycle
  <1> QED
    BY <1>1, <1>2, <1>3, <1>4, <1>5, <1>6, <1>7, <1>8, <1>9, <1>10 DEF Next, Step, Interrupt

\* Every tick for the spinning note that is lost is one that has already ended it.
LEMMA SpinNext ==
  ASSUME TypeOK, AccumulatorOK, Unmasked, SpinEnds, NoteOwnsF9', [Next]_vars
  PROVE  SpinEnds'
  <1> SUFFICES ASSUME presses' = 0, pc' = "spin", snd'.waiting # 0
               PROVE  ~masked' /\ (timer' \/ irq')
    <2>1. pc' = "spin" => InNote' /\ pc' \notin {"note_start", "install"}
      BY DEF InNote, NoteSteps
    <2>2. presses' = 0 /\ pc' = "spin" => f9'.vector = "dw"
      BY <2>1 DEF NoteOwnsF9
    <2> QED
      BY <2>2 DEF SpinEnds
  <1>1. CASE ArmCount
    <2>1. timer' = (ax % 256 # 0) /\ ax \in 1 .. 255 /\ mode = "foreground" /\ presses = 0
      BY <1>1 DEF ArmCount, AccumulatorOK, Goto
    <2>2. ax % 256 # 0
      BY <2>1
    <2>3. ~masked'
      BY <1>1, <2>1 DEF ArmCount, Unmasked
    <2> QED
      BY <2>1, <2>2, <2>3
  <1>2. CASE PowerCycle
    <2>1. presses' # 0
      BY <1>2 DEF PowerCycle, TypeOK, DeviceType
    <2> QED
      BY <2>1
  <1>3. CASE F9Waiting
    <2>1. snd'.waiting = 0
      BY <1>3 DEF F9Waiting, TypeOK, BytesType, SndVars
    <2> QED
      BY <2>1
  <1>4. CASE F9Quiet
    <2>1. snd.waiting = 0 /\ snd' = snd
      BY <1>4 DEF F9Quiet, DWSND_ACTIVE
    <2> QED
      BY <2>1
  <1>5. CASE F9Slice \/ F9Note \/ F9Empty
    <2>1. snd.waiting = 0
      BY <1>5 DEF F9Slice, F9Note, F9Empty, F9Advances
    <2>2. snd'.waiting = snd.waiting
      BY <1>5 DEF F9Slice, F9Note, F9Empty, IsrArm, TypeOK, BytesType, SndVars
    <2> QED
      BY <2>1, <2>2
  <1>6. CASE RomF9
    <2>1. presses = 0 /\ pc = "spin" /\ snd.waiting # 0 /\ f9.vector = "rom"
      BY <1>6 DEF RomF9, F9Taken
    <2> QED
      BY <2>1 DEF SpinEnds
  <1>7. CASE TimerExpires \/ UNCHANGED vars
    <2>1. UNCHANGED <<pc, snd, masked, presses>>
      BY <1>7 DEF TimerExpires, vars
    <2>2. presses = 0 /\ pc = "spin" /\ snd.waiting # 0
      BY <2>1
    <2>3. ~masked /\ (timer \/ irq)
      BY <2>2 DEF SpinEnds
    <2>4. timer' \/ irq'
      BY <1>7, <2>3 DEF TimerExpires, vars
    <2>5. ~masked'
      BY <2>1, <2>3
    <2> QED
      BY <2>4, <2>5
  <1>8. Call \/ Poll \/ Launch => pc' # "spin"
    BY DEF Call, DONOTE, Poll, PollEnter, PollSleep, PollNoKey, PollKey, Launch, Goto, Return
  <1>9. Step => ArmCount \/ pc' # "spin"
    BY DEF Step, StartSteps, ArmSteps, MusicInstall, EnqueueFull, EnqueueStore, EnqueueCount,
           EnqueueActive, StartNext, StartRead, StartHead, StartAdvance, StartCount,
           StartRemaining, StartActive, StartSpeaker, EmptyActive, EmptyRemaining,
           EmptySlice, ArmNext, ArmSlice, ArmUnits, ArmFrac, ArmWake, ArmUnmask, ResetStore,
           SpeakerStop, MusicRestore, ResetRestore, NoteStart, WaitNext, WaitSlice,
           WaitSpin, PowerRestore, Goto, Return
  <1> QED
    BY <1>1, <1>2, <1>3, <1>4, <1>5, <1>6, <1>7, <1>8, <1>9 DEF Next, Interrupt

\* The handler that arms the timer starts it.
LEMMA IsrArmTick ==
  ASSUME NEW s, BytesType(s), IsrArm(s)
  PROVE  ~masked' /\ timer'
  <1>1. SliceOf(s.remaining) \in 0 .. MaxSlice
    BY SliceBounds DEF BytesType, SndVars
  <1> DEFINE x == Fifths(SliceOf(s.remaining), s.count_frac)
  <1>2. x \in Nat /\ x <= 12 * MaxSlice + 4
    BY <1>1, FifthsBounds DEF BytesType
  <1>3. CountOf(x) \in 1 .. 255
    BY <1>2, CountFitsByte
  <1>4. CountOf(x) % 256 # 0
    BY <1>3
  <1> QED
    BY <1>4 DEF IsrArm

\* Whoever sets the ROM's wait bit starts a tick that will clear it.
LEMMA WakeNext ==
  ASSUME TypeOK, AccumulatorOK, WakeHasTick, [Next]_vars
  PROVE  WakeHasTick'
  <1> USE DEF WakeHasTick
  <1>1. CASE ArmWake \/ ArmUnmask
    BY <1>1 DEF ArmWake, ArmUnmask, Goto
  <1>2. CASE ArmCount
    <2>1. timer' = (ax % 256 # 0) /\ ax \in 1 .. 255
      BY <1>2 DEF ArmCount, AccumulatorOK
    <2>2. ax % 256 # 0
      BY <2>1
    <2>3. wake => ~masked
      BY <1>2 DEF ArmCount
    <2> QED
      BY <1>2, <2>1, <2>2, <2>3 DEF ArmCount
  <1>3. CASE RomF9 \/ F9Waiting \/ F9Quiet \/ F9Empty \/ PowerCycle
    BY <1>3 DEF RomF9, F9Waiting, F9Quiet, F9Empty, PowerCycle
  <1>4. CASE F9Slice
    <2> DEFINE s == [snd EXCEPT !.remaining = @ - snd.slice]
    <2>1. snd.remaining - snd.slice \in Nat
      BY <1>4 DEF F9Slice, NoteEnds, TypeOK, BytesType, SndVars
    <2>2. BytesType(s) /\ IsrArm(s)
      BY <1>4, <2>1 DEF F9Slice, TypeOK, BytesType, SndVars
    <2> QED
      BY <2>2, IsrArmTick
  <1>5. CASE F9Note
    BY <1>5, F9NoteArms, IsrArmTick
  <1>6. CASE TimerExpires
    BY <1>6 DEF TimerExpires
  <1>7. CASE Poll
    BY <1>7 DEF Poll, PollEnter, PollSleep, PollNoKey, PollKey, timerHw
  <1>8. CASE UNCHANGED timerHw /\ pc \notin {"arm_unmask", "arm_count"}
    BY <1>8 DEF timerHw
  <1>9. CASE UNCHANGED vars
    BY <1>9 DEF vars
  <1> QED
    <2>1. Call \/ Launch => UNCHANGED timerHw /\ pc \notin {"arm_unmask", "arm_count"}
      BY DEF Call, DONOTE, Launch
    <2>2. Step => \/ ArmWake \/ ArmUnmask \/ ArmCount
                  \/ UNCHANGED timerHw /\ pc \notin {"arm_unmask", "arm_count"}
      BY DEF Step, StartSteps, ArmSteps, MusicInstall, EnqueueFull, EnqueueStore,
             EnqueueCount, EnqueueActive, StartNext, StartRead, StartHead, StartAdvance,
             StartCount, StartRemaining, StartActive, StartSpeaker, EmptyActive,
             EmptyRemaining, EmptySlice, ArmNext, ArmSlice, ArmUnits, ArmFrac, ResetStore,
             SpeakerStop, MusicRestore, ResetRestore, NoteStart, WaitNext, WaitSlice,
             WaitSpin, PowerRestore
    <2> QED
      BY <1>1, <1>2, <1>3, <1>4, <1>5, <1>6, <1>7, <1>8, <1>9, <2>1, <2>2
         DEF Next, Interrupt

------------------------------------------------------------------------------
(* The theorems                                                              *)

\* The invariant holds at the start and every step of every program keeps it.
LEMMA InvInit == Init => SoundInv
  <1> SUFFICES ASSUME Init PROVE SoundInv
    OBVIOUS
  <1>1. TypeOK /\ AccumulatorOK
    BY TypeInit
  <1>2. snd.q_count = 0 /\ snd.active = 0 /\ snd.waiting = 0
    BY DEF Init, Silent, SndVars
  <1>3. ModeOK /\ NothingToPlay
    BY DEF Init, ModeOK, NothingToPlay, InNote, NoteSteps, ArmStores
  <1>4. NoteOwnsF9 /\ Unmasked /\ HandedBack
    BY DEF Init, NoteOwnsF9, Unmasked, HandedBack, InNote, NoteSteps, ArmStores, RomVector
  <1>5. VectorsHandedBack
    BY DEF Init, VectorsHandedBack, Returnable, RomVector, InstallFF, Install
  <1>6. SpinEnds /\ WakeHasTick
    BY DEF Init, SpinEnds, WakeHasTick
  <1> QED
    BY <1>1, <1>3, <1>4, <1>5, <1>6 DEF SoundInv

LEMMA InvNext == SoundInv /\ [Next]_vars => SoundInv'
  <1> SUFFICES ASSUME SoundInv, [Next]_vars PROVE SoundInv'
    OBVIOUS
  <1> USE DEF SoundInv
  <1>1. ControlType' /\ AccumulatorOK'
    BY ControlNext
  <1>2. BytesType(snd)' /\ (queue \in [Slots -> Notes])'
    BY BytesNext
  <1>3. DeviceType'
    BY DeviceNext
  <1>4. ModeOK'
    BY ModeNext
  <1>5. NothingToPlay'
    BY NothingToPlayNext
  <1>6. NoteOwnsF9' /\ Unmasked'
    BY NoteNext
  <1>7. HandedBack' /\ VectorsHandedBack'
    BY VectorsNext
  <1>8. SpinEnds'
    BY <1>6, SpinNext
  <1>9. WakeHasTick'
    BY WakeNext
  <1> QED
    BY <1>1, <1>2, <1>3, <1>4, <1>5, <1>6, <1>7, <1>8, <1>9 DEF TypeOK

LEMMA Inductive == Spec => []SoundInv
  BY InvInit, InvNext, PTL DEF Spec

\* The registers, the dw_snd_* bytes, the queue and the two vectors stay in range:
\* no ring index leaves the ring and no count wraps its byte to a non-byte.
THEOREM TypeCorrect == Spec => []TypeOK
  <1>1. SoundInv => TypeOK
    BY DEF SoundInv
  <1> QED
    BY <1>1, Inductive, PTL

\* What dw_music_restore and dw_power_restore put back is the ROM's own handler,
\* and none of BASIC's handlers is installed once SYSTEM has returned.
THEOREM ReturnsVectors == Spec => []VectorsHandedBack
  <1>1. SoundInv => VectorsHandedBack
    BY DEF SoundInv
  <1> QED
    BY <1>1, Inductive, PTL

\* While no power-off interferes, the tick that dw_music_wait spins on is coming.
THEOREM SpinHasTick == Spec => []SpinEnds
  <1>1. SoundInv => SpinEnds
    BY DEF SoundInv
  <1> QED
    BY <1>1, Inductive, PTL

\* The ROM's wait bit is never left set with no tick on its way to clear it.
THEOREM PollHasTick == Spec => []WakeHasTick
  <1>1. SoundInv => WakeHasTick
    BY DEF SoundInv
  <1> QED
    BY <1>1, Inductive, PTL

------------------------------------------------------------------------------
(* The inductive invariant of undisturbed programs                           *)

\* A background DONOTE before it looks at dw_snd_active
Accepting == {"install", "enqueue", "enqueue_count", "enqueue_active"}

\* dw_music_start_next until it sets dw_snd_active, when it finds the queue empty,
\* and after it has set dw_snd_active
Starting == {"start_next", "start_read", "start_head", "start_advance", "start_count",
             "start_remaining", "start_active"}
Emptying == {"empty_active", "empty_remaining", "empty_slice", "empty_stop", "empty_restore"}
Started  == {"start_speaker", "arm_next", "arm_slice", "arm_units", "arm_frac"}

InAccept == pc \in Accepting /\ mode = "background"
InStart  == pc \in Starting \cup Emptying
InArm    == pc \in Started \/ (pc \in ArmStores /\ mode = "background")

\* The foreground writes what a tick reads only while no tick can come.
NoTickWhileStarting ==
  InStart \/ InArm \/ (InAccept /\ snd.active = 0) => ~timer /\ ~irq

\* A note that plays has at most one tick under way.
OneTick == snd.active # 0 => ~(timer /\ irq)

\* A note plays from start_active until a tick finds the queue empty, and no
\* call but a background DONOTE runs while it does.
ActiveWhile ==
  /\ InStart => snd.active = 0
  /\ InArm => snd.active # 0
  /\ snd.active # 0 => pc = "idle" \/ InAccept \/ InArm

\* While nothing plays, the queue holds at most the one note about to start: none
\* if it was over before the foreground looked at dw_snd_active.
OneWaiting ==
  /\ snd.active = 0 => snd.q_count \in {0, 1}
  /\ snd.active = 0 /\ snd.q_count # 0
       => pc \in {"enqueue_active", "start_next", "start_read", "start_head",
                  "start_advance", "start_count"}
  /\ pc \in {"start_read", "start_head", "start_advance", "start_count"} => snd.q_count = 1

\* dw_snd_remaining is what is left of the note that plays, dw_snd_slice its
\* next slice.
LeftOK ==
  /\ snd.active = 0 /\ pc # "start_active" => snd.remaining = 0
  /\ pc = "start_active" => snd.remaining = dx
  /\ snd.active # 0 => snd.remaining # 0
  /\ pc = "arm_slice" => ax = SliceOf(snd.remaining)
  /\ snd.active # 0 /\ pc \notin {"start_speaker", "arm_next", "arm_slice"}
       => snd.slice = SliceOf(snd.remaining)

\* The note carried in CX and DX: accepted ones have a duration of Durations, the
\* one being started is the entry at q_head.
NoteOK ==
  /\ InAccept => dx \in Durations \ {0}
  /\ pc = "enqueue_count"
       => queue[Slot(snd.q_head + snd.q_count)] = [tone |-> cx, dur |-> dx]
  /\ pc \in {"start_head", "start_advance"} => dx = queue[snd.q_head].dur
  /\ pc \in {"start_head", "start_advance", "start_count", "start_remaining", "start_active"}
       => dx # 0
  /\ pc = "start_advance" => ax = Slot(snd.q_head + 1)

\* Entries between q_head and q_tail, in the middle of the two updates too
Held == snd.q_count + (IF pc = "enqueue_count" THEN 1 ELSE 0)
                    - (IF pc = "start_count" THEN 1 ELSE 0)

RingOK ==
  /\ Held \in 0 .. QueueLen
  /\ pc # "reset" => Slot(snd.q_head + Held) = snd.q_tail
  /\ (pc = "reset" /\ line > 1) \/ pc \in {"reset_stop", "reset_restore"} => snd.q_head = 0
  /\ (pc = "reset" /\ line > 2) \/ pc \in {"reset_stop", "reset_restore"} => snd.q_tail = 0
  /\ \A i \in 0 .. Held - 1 : queue[Slot(snd.q_head + i)].dur # 0

\* A tone sounds while a note is active, or during a foreground note.
SpeakerOK ==
  speaker /\ snd.active = 0 => InNote /\ cx /\ pc \notin {"note_start", "note_restore"}

CleanInv == /\ SoundInv /\ NoTickWhileStarting /\ OneTick /\ ActiveWhile /\ OneWaiting
            /\ LeftOK /\ NoteOK /\ RingOK /\ SpeakerOK

------------------------------------------------------------------------------
(* Ring arithmetic                                                           *)

\* A remainder below twice the divisor, which is all the driver ever takes.
LEMMA SmallMod ==
  ASSUME NEW m \in Nat \ {0}, NEW i \in 0 .. 2 * m - 1
  PROVE  i % m = IF i < m THEN i ELSE i - m
  <1>1. i = m * (i \div m) + (i % m) /\ i % m \in 0 .. m - 1 /\ i \div m \in Int
    OBVIOUS
  <1> DEFINE q == i \div m
  <1>2. q \in Int /\ i = m * q + (i % m) /\ i % m \in 0 .. m - 1
    BY <1>1
  <1> HIDE DEF q
  <1>3. q >= 2 => m * q >= 2 * m
    BY <1>2, SMTT(30)
  <1>4. q < 0 => m * q <= -m
    BY <1>2, SMTT(30)
  <1>5. q \in {0, 1}
    BY <1>2, <1>3, <1>4
  <1> QED
    BY <1>2, <1>5

\* An index of the ring plus at most the ring's length wraps once at most.
LEMMA SlotWraps ==
  ASSUME NEW h \in Slots, NEW c \in 0 .. QueueLen
  PROVE  Slot(h + c) = IF h + c < QueueLen THEN h + c ELSE h + c - QueueLen
  <1>1. QueueLen \in Nat \ {0} /\ h \in Nat /\ h + c \in 0 .. 2 * QueueLen - 1
    BY SoundAssumption DEF Slots
  <1>2. (h + c) % QueueLen = IF h + c < QueueLen THEN h + c ELSE (h + c) - QueueLen
    BY <1>1, SmallMod
  <1> QED
    BY <1>1, <1>2 DEF Slot

------------------------------------------------------------------------------
(* What a tick does                                                          *)

LEMMA CleanIsNext == CleanNext => Next
  BY DEF CleanNext, Next, CleanCall, Call

\* The dw_snd_* fields one by one
LEMMA Fields ==
  ASSUME TypeOK
  PROVE  /\ snd \in [SndVars -> Nat]
         /\ snd.q_head \in Slots /\ snd.q_tail \in Slots
         /\ snd.q_count \in Nat /\ snd.active \in Nat
         /\ snd.remaining \in Nat /\ snd.slice \in Nat /\ snd.count_frac \in 0 .. 4
         /\ dx \in Nat /\ ax \in Nat /\ line \in 1 .. 8
         /\ QueueLen \in Nat \ {0} /\ MaxSlice \in Nat \ {0}
  BY SoundAssumption DEF TypeOK, BytesType, ControlType, SndVars

\* The handler advances only a note that plays: nothing is queued otherwise while
\* a tick can come.
LEMMA TickFindsNote ==
  ASSUME CleanInv, irq
  PROVE  /\ ~InStart /\ ~InArm /\ pc # "start_count"
         /\ snd.active = 0 => snd.q_count = 0
         /\ snd.active # 0 => pc = "idle" \/ InAccept
         /\ snd.active # 0 => snd.slice = SliceOf(snd.remaining)
  <1>1. ~InStart /\ ~InArm /\ (InAccept => snd.active # 0)
    BY DEF CleanInv, NoTickWhileStarting
  <1>2. pc # "start_count"
    BY <1>1 DEF InStart, Starting
  <1>3. snd.active = 0 => snd.q_count = 0
    BY <1>1 DEF CleanInv, OneWaiting, InStart, Starting, InAccept, Accepting, SoundInv, ModeOK
  <1>4. snd.active # 0 => pc = "idle" \/ InAccept
    BY <1>1 DEF CleanInv, ActiveWhile
  <1>5. snd.active # 0 => snd.slice = SliceOf(snd.remaining)
    BY <1>4 DEF CleanInv, LeftOK, InAccept, Accepting
  <1> QED
    BY <1>1, <1>2, <1>3, <1>4, <1>5

\* dw_music_arm_next in the handler changes the slice and the fifths.
LEMMA IsrArmFields ==
  ASSUME NEW s, BytesType(s), IsrArm(s)
  PROVE  /\ snd' \in [SndVars -> Nat]
         /\ snd'.slice = SliceOf(s.remaining)
         /\ \A v \in SndVars \ {"slice", "count_frac"} : snd'[v] = s[v]
         /\ ~irq'
  <1>1. BytesType(snd')
    BY IsrArmType
  <1>2. s \in [SndVars -> Nat]
    BY DEF BytesType
  <1> QED
    BY <1>1, <1>2 DEF IsrArm, BytesType, SndVars

\* In the middle of a note a tick takes a whole slice off it.
LEMMA SliceTick ==
  ASSUME CleanInv, F9Slice
  PROVE  /\ snd' \in [SndVars -> Nat]
         /\ snd.active # 0 /\ snd.remaining > MaxSlice
         /\ snd'.remaining = snd.remaining - MaxSlice
         /\ snd'.slice = SliceOf(snd'.remaining)
         /\ snd'.q_head = snd.q_head /\ snd'.q_tail = snd.q_tail
         /\ snd'.q_count = snd.q_count /\ snd'.active = snd.active
  <1> DEFINE s == [snd EXCEPT !.remaining = @ - snd.slice]
  <1>1. TypeOK /\ irq /\ snd.active # 0 /\ ~NoteEnds
    BY DEF CleanInv, SoundInv, F9Slice, F9Taken
  <1>2. snd.slice = SliceOf(snd.remaining)
    BY <1>1, TickFindsNote
  <1>3. snd.remaining > snd.slice
    BY <1>1, Fields DEF NoteEnds
  <1>4. snd.slice = MaxSlice /\ snd.remaining > MaxSlice
    BY <1>1, <1>2, <1>3, Fields DEF SliceOf
  <1>5. BytesType(s)
    BY <1>1, <1>3, Fields DEF TypeOK, BytesType, SndVars
  <1>6. IsrArm(s)
    BY DEF F9Slice
  <1>7. /\ s.remaining = snd.remaining - MaxSlice
        /\ s.q_head = snd.q_head /\ s.q_tail = snd.q_tail
        /\ s.q_count = snd.q_count /\ s.active = snd.active
    BY <1>1, <1>4, Fields DEF SndVars
  <1> HIDE DEF s
  <1> QED
    BY <1>1, <1>4, <1>5, <1>6, <1>7, IsrArmFields DEF SndVars

\* At the end of a note a tick starts the oldest one queued: none is skipped.
LEMMA NoteTick ==
  ASSUME CleanInv, F9Note
  PROVE  /\ snd' \in [SndVars -> Nat]
         /\ snd.active # 0 /\ snd.remaining <= MaxSlice /\ snd.q_count # 0
         /\ queue[snd.q_head].dur # 0
         /\ snd'.remaining = queue[snd.q_head].dur
         /\ snd'.slice = SliceOf(snd'.remaining)
         /\ snd'.q_head = Slot(snd.q_head + 1) /\ snd'.q_tail = snd.q_tail
         /\ snd'.q_count = snd.q_count - 1 /\ snd'.active = 1
  <1>1. TypeOK /\ irq /\ F9Advances
    BY DEF CleanInv, SoundInv, F9Note, F9Advances, F9Taken
  <1>2. snd.active # 0 /\ NoteEnds
    BY <1>1, TickFindsNote DEF F9Advances
  <1>3. snd.slice = SliceOf(snd.remaining) /\ snd.remaining # 0
    BY <1>1, <1>2, TickFindsNote DEF CleanInv, LeftOK
  <1>4. snd.remaining <= MaxSlice
    BY <1>1, <1>2, <1>3, Fields DEF NoteEnds, SliceOf
  <1>5. PICK k \in 0 .. snd.q_count - 1 :
          /\ SkipsTo(k)
          /\ queue[Slot(snd.q_head + k)].dur # 0
          /\ IsrArm([snd EXCEPT !.q_head = Slot(snd.q_head + k + 1),
                                !.q_count = @ - (k + 1),
                                !.remaining = queue[Slot(snd.q_head + k)].dur,
                                !.active = 1])
    BY DEF F9Note
  <1>6. snd.q_count # 0 /\ snd.q_count \in Nat
    BY <1>1, <1>5, Fields
  <1>7. Held >= 1 /\ Held \in Nat
    BY <1>1, <1>6, TickFindsNote DEF Held
  <1>8. Slot(snd.q_head + 0) = snd.q_head
    BY <1>1, Fields, SlotWraps DEF Slots
  <1>9. queue[snd.q_head].dur # 0
    BY <1>7, <1>8 DEF CleanInv, RingOK
  <1>10. k = 0
    BY <1>5, <1>6, <1>8, <1>9 DEF SkipsTo
  <1> DEFINE s == [snd EXCEPT !.q_head = Slot(snd.q_head + 1),
                              !.q_count = @ - 1,
                              !.remaining = queue[snd.q_head].dur,
                              !.active = 1]
  <1>11. IsrArm(s)
    <2>1. /\ snd.q_head + k = snd.q_head + 0 /\ snd.q_head + k + 1 = snd.q_head + 1
          /\ snd.q_count - (k + 1) = snd.q_count - 1
      BY <1>1, <1>6, <1>10, Fields DEF Slots
    <2> QED
      BY <1>5, <1>8, <2>1
  <1>12. Slot(snd.q_head + 1) \in Slots /\ Slot(snd.q_head + 1) \in Nat
         /\ queue[snd.q_head].dur \in Nat
    <2>1. snd.q_head + 1 \in Nat
      BY <1>1, Fields DEF Slots
    <2>2. Slot(snd.q_head + 1) \in Slots
      BY <2>1, SlotInRing
    <2> QED
      BY <1>1, <2>2, Fields DEF TypeOK, Notes, Slots
  <1>13. BytesType(s)
    <2>1. snd.q_count - 1 \in 0 .. CountMod - 1 /\ snd.q_count - 1 \in Nat
      BY <1>1, <1>6, SoundAssumption DEF TypeOK, BytesType
    <2> QED
      BY <1>1, <1>12, <2>1, Fields DEF TypeOK, BytesType, SndVars
  <1>14. /\ s.remaining = queue[snd.q_head].dur
         /\ s.q_head = Slot(snd.q_head + 1) /\ s.q_tail = snd.q_tail
         /\ s.q_count = snd.q_count - 1 /\ s.active = 1
    BY <1>1, Fields DEF SndVars
  <1> HIDE DEF s
  <1> QED
    BY <1>2, <1>4, <1>6, <1>9, <1>11, <1>13, <1>14, IsrArmFields DEF SndVars

\* At the end of the last note a tick finds the queue empty and leaves it so.
LEMMA EmptyTick ==
  ASSUME CleanInv, F9Empty
  PROVE  /\ snd' \in [SndVars -> Nat]
         /\ snd.active # 0 /\ snd.remaining \in 1 .. MaxSlice /\ snd.q_count = 0
         /\ snd'.remaining = 0 /\ snd'.slice = 0 /\ snd'.active = 0
         /\ snd'.q_head = snd.q_head /\ snd'.q_tail = snd.q_tail /\ snd'.q_count = 0
  <1>1. TypeOK /\ irq /\ F9Advances
    BY DEF CleanInv, SoundInv, F9Empty, F9Advances, F9Taken
  <1>2. snd.active # 0 /\ NoteEnds
    BY <1>1, TickFindsNote DEF F9Advances
  <1>3. snd.slice = SliceOf(snd.remaining) /\ snd.remaining # 0
    BY <1>1, <1>2, TickFindsNote DEF CleanInv, LeftOK
  <1>4. snd.remaining \in 1 .. MaxSlice
    BY <1>1, <1>2, <1>3, Fields DEF NoteEnds, SliceOf
  <1>5. Slot(snd.q_head + 0) = snd.q_head
    BY <1>1, Fields, SlotWraps DEF Slots
  <1>6. snd.q_count = 0
    <2> SUFFICES ASSUME snd.q_count # 0 PROVE FALSE
      OBVIOUS
    <2>1. Held >= 1 /\ Held \in Nat
      BY <1>1, Fields, TickFindsNote DEF Held
    <2>2. queue[snd.q_head].dur # 0
      BY <1>5, <2>1 DEF CleanInv, RingOK
    <2>3. queue[Slot(snd.q_head + 0)].dur = 0
      BY <1>1, Fields DEF F9Empty, SkipsTo
    <2> QED
      BY <1>5, <2>2, <2>3
  <1>7. snd' = [snd EXCEPT !.q_head = snd.q_head, !.q_count = 0,
                           !.active = 0, !.remaining = 0, !.slice = 0]
    BY <1>5, <1>6 DEF F9Empty
  <1>8. snd.q_head \in Nat
    BY <1>1, Fields DEF Slots
  <1> QED
    BY <1>1, <1>2, <1>4, <1>6, <1>7, <1>8, Fields DEF SndVars

------------------------------------------------------------------------------
(* Each step keeps the invariant                                             *)

\* The two updates of dw_snd_q_count do not wrap the byte.
LEMMA CountSteps ==
  ASSUME CleanInv
  PROVE  /\ pc = "enqueue_count" => (snd.q_count + 1) % CountMod = snd.q_count + 1
         /\ pc = "start_count" => (snd.q_count + CountMod - 1) % CountMod = 0
  <1>1. TypeOK /\ CountMod \in Nat \ {0} /\ QueueLen < CountMod
    BY SoundAssumption DEF CleanInv, SoundInv
  <1>2. ASSUME pc = "enqueue_count" PROVE (snd.q_count + 1) % CountMod = snd.q_count + 1
    <2>1. snd.q_count + 1 \in 0 .. 2 * CountMod - 1 /\ snd.q_count + 1 < CountMod
      BY <1>1, <1>2, Fields DEF CleanInv, RingOK, Held
    <2> QED
      BY <1>1, <2>1, SmallMod
  <1>3. ASSUME pc = "start_count" PROVE (snd.q_count + CountMod - 1) % CountMod = 0
    <2>1. snd.q_count + CountMod - 1 = CountMod /\ CountMod \in 0 .. 2 * CountMod - 1
      BY <1>1, <1>3 DEF CleanInv, OneWaiting
    <2>2. CountMod % CountMod = 0
      BY <1>1, <2>1, SmallMod
    <2> QED
      BY <2>1, <2>2
  <1> QED
    BY <1>2, <1>3

\* Until the foreground has armed the timer for a new note, nothing else does.
LEMMA QuietNext ==
  ASSUME CleanInv, CleanNext
  PROVE  NoTickWhileStarting' /\ OneTick'
  <1> USE DEF NoTickWhileStarting, OneTick, InStart, InArm, InAccept, Starting, Emptying,
              Started, Accepting, ArmStores
  <1>0. /\ TypeOK /\ ModeOK /\ NoTickWhileStarting /\ OneTick /\ ActiveWhile
        /\ snd \in [SndVars -> Nat]
    BY Fields DEF CleanInv, SoundInv
  <1>1. CASE CleanCall
    BY <1>0, <1>1 DEF CleanCall, DONOTE, Undisturbed, Goto, timerHw
  <1>2. CASE MusicInstall \/ EnqueueFull \/ EnqueueStore \/ EnqueueCount \/ EnqueueActive
    <2>1. snd'.active = snd.active /\ UNCHANGED <<timer, irq, mode>>
      BY <1>0, <1>2 DEF MusicInstall, EnqueueFull, EnqueueStore, EnqueueCount, EnqueueActive,
                        timerHw, SndVars
    <2> QED
      BY <1>0, <1>2, <2>1 DEF MusicInstall, EnqueueFull, EnqueueStore, EnqueueCount,
                              EnqueueActive, Goto, Return, ModeOK
  <1>3. CASE StartSteps
    <2>1. UNCHANGED <<timer, irq, mode>> /\ (InStart \/ InArm)
      BY <1>3 DEF StartSteps, StartNext, StartRead, StartHead, StartAdvance, StartCount,
                  StartRemaining, StartActive, StartSpeaker, EmptyActive, EmptyRemaining,
                  EmptySlice, timerHw
    <2> QED
      BY <1>0, <2>1
  <1>4. CASE ArmNext \/ ArmSlice \/ ArmUnits \/ ArmFrac
    <2>1. UNCHANGED <<timer, irq, mode>> /\ InArm
      BY <1>4 DEF ArmNext, ArmSlice, ArmUnits, ArmFrac, timerHw
    <2> QED
      BY <1>0, <2>1
  <1>5. CASE ArmWake \/ ArmUnmask
    <2>1. UNCHANGED <<timer, irq, mode, snd>> /\ pc \in ArmStores /\ pc' \in ArmStores
      BY <1>5 DEF ArmWake, ArmUnmask, Goto
    <2> QED
      BY <1>0, <2>1
  <1>6. CASE ArmCount
    <2>1. snd.active # 0 => ~irq
      BY <1>0, <1>6 DEF ArmCount, ActiveWhile
    <2> QED
      BY <1>0, <1>6, <2>1 DEF ArmCount, Goto
  <1>7. CASE ResetStore
    <2>1. UNCHANGED <<timer, irq>> /\ snd.active = 0 /\ pc' \in {"reset", "reset_stop"}
      BY <1>0, <1>7 DEF ResetStore, Goto, timerHw, ActiveWhile
    <2>2. snd'.active = 0
      BY <1>0, <1>7, <2>1 DEF ResetStore, SndVars
    <2> QED
      BY <2>1, <2>2
  <1>8. CASE SpeakerStop \/ MusicRestore \/ ResetRestore \/ NoteStart \/ WaitNext
             \/ WaitSpin \/ PowerRestore
    <2>1. UNCHANGED <<timer, irq, snd>>
      BY <1>8 DEF SpeakerStop, MusicRestore, ResetRestore, NoteStart, WaitNext, WaitSpin,
                  PowerRestore, timerHw
    <2> QED
      BY <1>0, <1>8, <2>1 DEF SpeakerStop, MusicRestore, ResetRestore, NoteStart, WaitNext,
                  WaitSpin, PowerRestore, Goto, Return, ModeOK, NoteSteps
  <1>9. CASE WaitSlice
    <2>1. UNCHANGED <<timer, irq, mode>> /\ mode = "foreground" /\ pc' = "arm_wake"
      BY <1>0, <1>9 DEF WaitSlice, timerHw, Goto, ModeOK, NoteSteps
    <2>2. snd'.active = snd.active
      BY <1>0, <1>9 DEF WaitSlice, SndVars
    <2> QED
      BY <1>0, <2>1, <2>2
  <1>10. CASE Poll \/ Launch
    <2>1. snd.active = 0
      BY <1>0, <1>10 DEF Poll, PollEnter, PollSleep, PollNoKey, PollKey, Launch,
                         DWSND_ACTIVE, ActiveWhile
    <2>2. snd'.active = 0 /\ pc' \in {"poll", "poll_sleep", "idle", "reset"}
      BY <1>10, <2>1 DEF Poll, PollEnter, PollSleep, PollNoKey, PollKey, Launch,
                         Goto, Return, Silent, SndVars
    <2> QED
      BY <2>2
  <1>11. CASE RomF9 \/ F9Waiting \/ F9Quiet
    <2>1. UNCHANGED <<pc, mode, timer>> /\ ~irq' /\ irq
      BY <1>11 DEF RomF9, F9Waiting, F9Quiet, F9Taken
    <2>2. snd'.active = snd.active
      BY <1>0, <1>11 DEF RomF9, F9Waiting, F9Quiet, SndVars
    <2> QED
      BY <1>0, <2>1, <2>2
  <1>12. CASE F9Slice \/ F9Note
    <2>1. UNCHANGED <<pc, mode>> /\ irq /\ ~irq'
      BY <1>12 DEF F9Slice, F9Note, F9Advances, F9Taken, IsrArm
    <2>2. snd'.active # 0
      BY <1>12, SliceTick, NoteTick
    <2> QED
      BY <1>0, <2>1, <2>2
  <1>13. CASE F9Empty
    <2>1. UNCHANGED <<pc, mode, timer>> /\ irq /\ ~irq'
      BY <1>13 DEF F9Empty, F9Advances, F9Taken
    <2>2. snd.active # 0 /\ snd'.active = 0
      BY <1>13, EmptyTick
    <2> QED
      BY <1>0, <2>1, <2>2
  <1>14. CASE TimerExpires
    BY <1>0, <1>14 DEF TimerExpires
  <1> QED
    BY <1>1, <1>2, <1>3, <1>4, <1>5, <1>6, <1>7, <1>8, <1>9, <1>10, <1>11, <1>12, <1>13, <1>14
       DEF CleanNext, Step, ArmSteps, Interrupt

\* A note is active from start_active to the tick that ends the queue, and only
\* background notes are accepted meanwhile.
LEMMA ActiveNext ==
  ASSUME CleanInv, CleanNext
  PROVE  ActiveWhile'
  <1> USE DEF ActiveWhile, InStart, InArm, InAccept, Starting, Emptying, Started, Accepting,
              ArmStores
  <1>0. /\ TypeOK /\ ModeOK /\ ActiveWhile /\ LeftOK /\ OneWaiting
        /\ snd \in [SndVars -> Nat]
    BY Fields DEF CleanInv, SoundInv
  <1>1. CASE CleanCall
    BY <1>0, <1>1 DEF CleanCall, DONOTE, Undisturbed, Goto
  <1>2. CASE MusicInstall \/ EnqueueFull \/ EnqueueStore \/ EnqueueCount \/ EnqueueActive
    <2>1. snd'.active = snd.active /\ UNCHANGED mode
      BY <1>0, <1>2 DEF MusicInstall, EnqueueFull, EnqueueStore, EnqueueCount, EnqueueActive,
                        SndVars
    <2> QED
      BY <1>0, <1>2, <2>1 DEF MusicInstall, EnqueueFull, EnqueueStore, EnqueueCount,
                              EnqueueActive, Goto, Return, ModeOK
  <1>3. CASE StartNext \/ StartRead \/ StartHead \/ StartAdvance \/ StartCount
             \/ StartRemaining \/ EmptyActive \/ EmptyRemaining \/ EmptySlice
    <2>1. snd.active = 0 /\ pc' \in Starting \cup Emptying
      BY <1>0, <1>3 DEF StartNext, StartRead, StartHead, StartAdvance, StartCount,
                  StartRemaining, EmptyActive, EmptyRemaining, EmptySlice, Goto
    <2>2. snd'.active = 0
      BY <1>0, <1>3, <2>1 DEF StartNext, StartRead, StartHead, StartAdvance, StartCount,
                  StartRemaining, EmptyActive, EmptyRemaining, EmptySlice, SndVars
    <2> QED
      BY <2>1, <2>2
  <1>4. CASE StartActive
    BY <1>0, <1>4 DEF StartActive, Goto, SndVars
  <1>5. CASE StartSpeaker \/ ArmNext \/ ArmSlice \/ ArmUnits \/ ArmFrac \/ ArmWake \/ ArmUnmask
             \/ ArmCount
    <2>1. snd'.active = snd.active /\ UNCHANGED mode
      BY <1>0, <1>5 DEF StartSpeaker, ArmNext, ArmSlice, ArmUnits, ArmFrac, ArmWake, ArmUnmask,
                        ArmCount, SndVars
    <2> QED
      BY <1>0, <1>5, <2>1 DEF StartSpeaker, ArmNext, ArmSlice, ArmUnits, ArmFrac, ArmWake,
                              ArmUnmask, ArmCount, Goto, Return, ModeOK
  <1>6. CASE ResetStore
    <2>1. snd.active = 0 /\ pc' \in {"reset", "reset_stop"}
      BY <1>0, <1>6 DEF ResetStore, Goto
    <2>2. snd'.active = 0
      BY <1>0, <1>6, <2>1 DEF ResetStore, SndVars
    <2> QED
      BY <2>1, <2>2
  <1>7. CASE SpeakerStop \/ MusicRestore \/ ResetRestore \/ NoteStart \/ WaitNext
             \/ WaitSlice \/ WaitSpin \/ PowerRestore
    <2>1. snd.active = 0
      BY <1>0, <1>7 DEF SpeakerStop, MusicRestore, ResetRestore, NoteStart, WaitNext, WaitSlice,
                        WaitSpin, PowerRestore
    <2>2. snd'.active = 0
      BY <1>0, <1>7, <2>1 DEF SpeakerStop, MusicRestore, ResetRestore, NoteStart, WaitNext,
                              WaitSlice, WaitSpin, PowerRestore, SndVars
    <2>3. ~InArm'
      BY <1>0, <1>7 DEF SpeakerStop, MusicRestore, ResetRestore, NoteStart, WaitNext,
                        WaitSlice, WaitSpin, PowerRestore, Goto, Return, ModeOK, NoteSteps
    <2> QED
      BY <2>2, <2>3
  <1>8. CASE Poll \/ Launch
    <2>1. snd.active = 0
      BY <1>0, <1>8 DEF Poll, PollEnter, PollSleep, PollNoKey, PollKey, Launch, DWSND_ACTIVE
    <2>2. snd'.active = 0 /\ pc' \in {"poll", "poll_sleep", "idle", "reset"}
      BY <1>8, <2>1 DEF Poll, PollEnter, PollSleep, PollNoKey, PollKey, Launch,
                        Goto, Return, Silent, SndVars
    <2> QED
      BY <2>2
  <1>9. CASE RomF9 \/ F9Waiting \/ F9Quiet \/ TimerExpires
    <2>1. UNCHANGED <<pc, mode>>
      BY <1>9 DEF RomF9, F9Waiting, F9Quiet, TimerExpires
    <2>2. snd'.active = snd.active
      BY <1>0, <1>9 DEF RomF9, F9Waiting, F9Quiet, TimerExpires, SndVars
    <2> QED
      BY <1>0, <2>1, <2>2
  <1>10. CASE F9Slice \/ F9Note \/ F9Empty
    <2>1. UNCHANGED <<pc, mode>> /\ irq
      BY <1>10 DEF F9Slice, F9Note, F9Empty, F9Advances, F9Taken
    <2>2. snd.active # 0
      BY <1>10, SliceTick, NoteTick, EmptyTick
    <2> QED
      BY <1>0, <2>1, <2>2, TickFindsNote
  <1> QED
    BY <1>1, <1>2, <1>3, <1>4, <1>5, <1>6, <1>7, <1>8, <1>9, <1>10
       DEF CleanNext, Step, StartSteps, ArmSteps, Interrupt

\* Nothing waits in the queue while nothing plays.
LEMMA WaitingNext ==
  ASSUME CleanInv, CleanNext
  PROVE  OneWaiting'
  <1> USE DEF OneWaiting
  <1>0. /\ TypeOK /\ OneWaiting /\ ActiveWhile /\ snd \in [SndVars -> Nat]
        /\ QueueLen \in Nat \ {0}
    BY Fields DEF CleanInv, SoundInv
  <1>1. CASE CleanCall \/ MusicInstall \/ EnqueueFull \/ EnqueueActive
             \/ StartRead \/ StartHead
    BY <1>0, <1>1 DEF CleanCall, DONOTE, Undisturbed, MusicInstall, EnqueueFull, EnqueueActive,
                      StartRead, StartHead, Goto, Return
  <1>10. CASE StartNext
    <2>1. snd.active = 0
      BY <1>0, <1>10 DEF StartNext, ActiveWhile, InStart, Starting
    <2> QED
      BY <1>0, <1>10, <2>1 DEF StartNext, Goto
  <1>2. CASE EnqueueStore \/ StartAdvance
    <2>1. snd'.active = snd.active /\ snd'.q_count = snd.q_count
      BY <1>0, <1>2 DEF EnqueueStore, StartAdvance, SndVars
    <2> QED
      BY <1>0, <1>2, <2>1 DEF EnqueueStore, StartAdvance, Goto
  <1>3. CASE EnqueueCount
    <2>1. snd'.active = snd.active /\ snd'.q_count = snd.q_count + 1 /\ snd.q_count \in Nat
      BY <1>0, <1>3, CountSteps, Fields DEF EnqueueCount, SndVars
    <2> QED
      BY <1>0, <1>3, <2>1 DEF EnqueueCount, Goto
  <1>4. CASE StartCount
    <2>1. snd'.q_count = 0 /\ dx # 0
      BY <1>0, <1>4, CountSteps DEF StartCount, CleanInv, NoteOK, SndVars
    <2> QED
      BY <1>4, <2>1 DEF StartCount, Goto
  <1>5. CASE StartRemaining \/ StartActive \/ EmptyActive \/ EmptyRemaining \/ EmptySlice
    <2>1. snd.active = 0 /\ snd.q_count = 0
      BY <1>0, <1>5 DEF StartRemaining, StartActive, EmptyActive, EmptyRemaining, EmptySlice,
                        ActiveWhile, InStart, Starting, Emptying
    <2>2. snd'.q_count = 0
      BY <1>0, <1>5, <2>1 DEF StartRemaining, StartActive, EmptyActive, EmptyRemaining,
                              EmptySlice, SndVars
    <2> QED
      BY <1>5, <2>2 DEF StartRemaining, StartActive, EmptyActive, EmptyRemaining, EmptySlice,
                        Goto
  <1>6. CASE StartSpeaker \/ ArmSteps \/ SpeakerStop \/ MusicRestore
             \/ NoteStart \/ WaitNext \/ WaitSlice \/ WaitSpin \/ PowerRestore \/ Poll
    <2>1. snd'.active = snd.active /\ snd'.q_count = snd.q_count
      BY <1>0, <1>6 DEF StartSpeaker, ArmSteps, ArmNext, ArmSlice, ArmUnits, ArmFrac, ArmWake,
                        ArmUnmask, ArmCount, SpeakerStop, MusicRestore, NoteStart, WaitNext,
                        WaitSlice, WaitSpin, PowerRestore, Poll, PollEnter, PollSleep, PollNoKey,
                        PollKey, SndVars
    <2>2. /\ pc \notin {"enqueue_active", "start_next", "start_read", "start_head",
                         "start_advance", "start_count"}
          /\ pc' \notin {"start_read", "start_head", "start_advance", "start_count"}
      BY <1>6 DEF StartSpeaker, ArmSteps, ArmNext, ArmSlice, ArmUnits, ArmFrac, ArmWake,
                  ArmUnmask, ArmCount, SpeakerStop, MusicRestore, NoteStart, WaitNext,
                  WaitSlice, WaitSpin, PowerRestore, Poll, PollEnter, PollSleep, PollNoKey,
                  PollKey, Goto, Return
    <2> QED
      BY <1>0, <2>1, <2>2
  <1>7. CASE ResetStore \/ ResetRestore \/ Launch
    <2>1. snd.q_count = 0 /\ pc' \in {"reset", "reset_stop", "power_restore", "note_start", "idle"}
      BY <1>0, <1>7 DEF ResetStore, ResetRestore, Launch, Goto, Return,
                        ActiveWhile, InAccept, Accepting, InArm, Started, ArmStores
    <2>2. snd'.q_count = 0
      BY <1>0, <1>7, <2>1 DEF ResetStore, ResetRestore, Launch, Silent, SndVars
    <2> QED
      BY <2>1, <2>2
  <1>8. CASE RomF9 \/ F9Waiting \/ F9Quiet \/ TimerExpires
    <2>1. UNCHANGED pc
      BY <1>8 DEF RomF9, F9Waiting, F9Quiet, TimerExpires
    <2>2. snd'.active = snd.active /\ snd'.q_count = snd.q_count
      BY <1>0, <1>8 DEF RomF9, F9Waiting, F9Quiet, TimerExpires, SndVars
    <2> QED
      BY <1>0, <2>1, <2>2
  <1>9. CASE F9Slice \/ F9Note \/ F9Empty
    <2>1. UNCHANGED pc /\ irq
      BY <1>9 DEF F9Slice, F9Note, F9Empty, F9Advances, F9Taken
    <2>2. pc \notin {"start_read", "start_head", "start_advance", "start_count"}
      BY <2>1, TickFindsNote DEF InStart, Starting
    <2>3. snd'.active # 0 \/ snd'.q_count = 0
      BY <1>9, SliceTick, NoteTick, EmptyTick
    <2> QED
      BY <2>1, <2>2, <2>3
  <1> QED
    BY <1>1, <1>2, <1>3, <1>4, <1>5, <1>6, <1>7, <1>8, <1>9, <1>10
       DEF CleanNext, Step, StartSteps, Interrupt

\* dw_snd_remaining and dw_snd_slice are those of the note that plays, and 0 left
\* means that none does.
LEMMA LeftNext ==
  ASSUME CleanInv, CleanNext
  PROVE  LeftOK'
  <1> USE DEF LeftOK
  <1>0. /\ TypeOK /\ LeftOK /\ ActiveWhile /\ snd \in [SndVars -> Nat]
    BY Fields DEF CleanInv, SoundInv
  <1>1. CASE CleanCall \/ MusicInstall \/ EnqueueFull \/ EnqueueActive
             \/ StartNext \/ StartSpeaker \/ SpeakerStop \/ MusicRestore
             \/ ResetRestore \/ NoteStart \/ WaitSpin \/ PowerRestore
    <2>1. UNCHANGED snd
      BY <1>1 DEF CleanCall, DONOTE, MusicInstall, EnqueueFull, EnqueueActive, StartNext,
                  StartSpeaker, SpeakerStop, MusicRestore, ResetRestore, NoteStart, WaitSpin,
                  PowerRestore
    <2>2. pc' \notin {"start_active", "arm_slice"} /\ pc # "start_active"
          /\ (pc = "arm_next" => pc' = "idle")
      BY <1>1 DEF CleanCall, DONOTE, MusicInstall, EnqueueFull, EnqueueActive, StartNext,
                  StartSpeaker, SpeakerStop, MusicRestore, ResetRestore, NoteStart, WaitSpin,
                  PowerRestore, Goto, Return
    <2>3. pc = "start_speaker" => pc' = "arm_next"
      BY <1>1 DEF CleanCall, DONOTE, MusicInstall, EnqueueFull, EnqueueActive, StartNext,
                  StartSpeaker, SpeakerStop, MusicRestore, ResetRestore, NoteStart, WaitSpin,
                  PowerRestore, Goto
    <2>4. pc \notin {"arm_next", "arm_slice"}
      BY <1>1 DEF CleanCall, DONOTE, MusicInstall, EnqueueFull, EnqueueActive, StartNext,
                  StartSpeaker, SpeakerStop, MusicRestore, ResetRestore, NoteStart, WaitSpin,
                  PowerRestore
    <2> QED
      BY <1>0, <2>1, <2>2, <2>3, <2>4
  <1>2. CASE EnqueueStore \/ EnqueueCount \/ StartAdvance \/ StartCount
    <2>1. /\ snd'.active = snd.active /\ snd'.remaining = snd.remaining
          /\ snd'.slice = snd.slice
      BY <1>0, <1>2 DEF EnqueueStore, EnqueueCount, StartAdvance, StartCount, SndVars
    <2>2. /\ pc \notin {"start_active", "start_speaker", "arm_next", "arm_slice"}
          /\ pc' \notin {"start_active", "arm_slice"}
      BY <1>2 DEF EnqueueStore, EnqueueCount, StartAdvance, StartCount, Goto
    <2> QED
      BY <1>0, <2>1, <2>2
  <1>3. CASE StartRead \/ StartHead
    BY <1>0, <1>3 DEF StartRead, StartHead, Goto
  <1>4. CASE StartRemaining \/ StartActive
    <2>1. snd.active = 0 /\ dx # 0 /\ dx \in Nat
      BY <1>0, <1>4, Fields DEF StartRemaining, StartActive, CleanInv, NoteOK, ActiveWhile,
                                InStart, Starting
    <2> QED
      BY <1>0, <1>4, <2>1 DEF StartRemaining, StartActive, Goto, regs, SndVars
  <1>5. CASE EmptyActive \/ EmptyRemaining \/ EmptySlice
    <2>1. snd.active = 0 /\ snd.remaining = 0
      BY <1>0, <1>5 DEF EmptyActive, EmptyRemaining, EmptySlice, ActiveWhile, InStart, Emptying
    <2> QED
      BY <1>0, <1>5, <2>1 DEF EmptyActive, EmptyRemaining, EmptySlice, Goto, SndVars
  <1>6. CASE ArmNext \/ ArmSlice
    <2>1. snd.active # 0
      BY <1>0, <1>6 DEF ArmNext, ArmSlice, ActiveWhile, InArm, Started
    <2> QED
      BY <1>0, <1>6, <2>1 DEF ArmNext, ArmSlice, Goto, SndVars
  <1>7. CASE ArmUnits \/ ArmWake \/ ArmUnmask \/ ArmCount \/ WaitNext
    BY <1>0, <1>7 DEF ArmUnits, ArmWake, ArmUnmask, ArmCount, WaitNext, Goto
  <1>8. CASE ArmFrac \/ WaitSlice \/ F9Waiting
    <2>1. /\ snd'.active = snd.active /\ snd'.remaining = snd.remaining
          /\ snd'.slice = snd.slice
      BY <1>0, <1>8 DEF ArmFrac, WaitSlice, F9Waiting, SndVars
    <2>2. UNCHANGED <<pc, ax, dx>> \/ (pc \in {"arm_frac", "wait_slice"} /\ pc' = "arm_wake")
      BY <1>8 DEF ArmFrac, WaitSlice, F9Waiting, Goto, regs
    <2> QED
      BY <1>0, <2>1, <2>2
  <1>9. CASE ResetStore \/ Launch \/ Poll
    <2>1. snd.active = 0 /\ snd.remaining = 0
      BY <1>0, <1>9 DEF ResetStore, Launch, Poll, PollEnter, PollSleep, PollNoKey, PollKey,
                        DWSND_ACTIVE, ActiveWhile, InAccept, Accepting, InArm, Started, ArmStores
    <2>2. snd'.active = 0 /\ snd'.remaining = 0
      BY <1>0, <1>9, <2>1 DEF ResetStore, Launch, Silent, Poll, PollEnter, PollSleep, PollNoKey,
                              PollKey, SndVars
    <2>3. pc' \notin {"start_active", "arm_slice"}
      BY <1>9 DEF ResetStore, Launch, Poll, PollEnter, PollSleep, PollNoKey, PollKey,
                  Goto, Return
    <2> QED
      BY <2>2, <2>3
  <1>10. CASE RomF9 \/ F9Quiet \/ TimerExpires
    <2>1. UNCHANGED <<pc, ax, dx, snd>>
      BY <1>10 DEF RomF9, F9Quiet, TimerExpires, regs
    <2> QED
      BY <1>0, <2>1
  <1>11. CASE F9Slice \/ F9Note \/ F9Empty
    <2>1. UNCHANGED <<pc, ax, dx>> /\ irq
      BY <1>11 DEF F9Slice, F9Note, F9Empty, F9Advances, F9Taken, regs
    <2>2. pc \notin {"start_active", "arm_slice"}
      BY <2>1, TickFindsNote DEF InStart, Starting, InArm, Started
    <2>3. CASE F9Slice
      <3>1. snd'.remaining # 0
        BY <1>0, <2>3, SliceTick, Fields
      <3> QED
        BY <2>1, <2>2, <2>3, <3>1, SliceTick
    <2>4. CASE F9Note
      BY <2>1, <2>2, <2>4, NoteTick
    <2>5. CASE F9Empty
      BY <2>1, <2>2, <2>5, EmptyTick
    <2> QED
      BY <1>11, <2>3, <2>4, <2>5
  <1> QED
    BY <1>1, <1>2, <1>3, <1>4, <1>5, <1>6, <1>7, <1>8, <1>9, <1>10, <1>11
       DEF CleanNext, Step, StartSteps, ArmSteps, Interrupt

\* The gate of the speaker is open only for a note that is under way.
LEMMA SpeakerNext ==
  ASSUME CleanInv, CleanNext
  PROVE  SpeakerOK'
  <1> USE DEF SpeakerOK, InNote, NoteSteps, ArmStores
  <1>0. /\ TypeOK /\ SpeakerOK /\ ModeOK /\ ActiveWhile /\ snd \in [SndVars -> Nat]
    BY Fields DEF CleanInv, SoundInv
  <1>1. CASE CleanCall \/ MusicInstall \/ EnqueueFull \/ EnqueueActive
             \/ StartNext \/ StartHead
    BY <1>0, <1>1 DEF CleanCall, DONOTE, Undisturbed, MusicInstall, EnqueueFull,
                      EnqueueActive, StartNext, StartHead, Goto, Return, regs, ModeOK
  <1>2. CASE EnqueueStore \/ EnqueueCount \/ StartAdvance \/ StartCount \/ StartRemaining
             \/ EmptyActive \/ EmptyRemaining \/ EmptySlice \/ ResetStore \/ StartRead
    <2>1. ~InNote /\ UNCHANGED speaker
      BY <1>0, <1>2 DEF EnqueueStore, EnqueueCount, StartAdvance, StartCount, StartRemaining,
                        EmptyActive, EmptyRemaining, EmptySlice, ResetStore, StartRead
    <2>2. snd.active # 0 => snd'.active # 0
      BY <1>0, <1>2 DEF EnqueueStore, EnqueueCount, StartAdvance, StartCount, StartRemaining,
                        EmptyActive, EmptyRemaining, EmptySlice, ResetStore, StartRead, SndVars,
                        ActiveWhile, InStart, Emptying, Starting, InAccept, Accepting, InArm,
                        Started
    <2> QED
      BY <1>0, <2>1, <2>2
  <1>3. CASE StartActive \/ StartSpeaker
    <2>1. snd'.active # 0
      BY <1>0, <1>3 DEF StartActive, StartSpeaker, SndVars, ActiveWhile, InArm, Started
    <2> QED
      BY <2>1
  <1>4. CASE ArmSteps
    <2>1. UNCHANGED <<speaker, mode, cx>> /\ snd'.active = snd.active
      BY <1>0, <1>4 DEF ArmSteps, ArmNext, ArmSlice, ArmUnits, ArmFrac, ArmWake, ArmUnmask,
                        ArmCount, regs, SndVars
    <2> QED
      BY <1>0, <1>4, <2>1 DEF ArmSteps, ArmNext, ArmSlice, ArmUnits, ArmFrac, ArmWake, ArmUnmask,
                              ArmCount, Goto, Return, ModeOK
  <1>5. CASE SpeakerStop \/ F9Empty
    <2>1. speaker' = FALSE
      BY <1>5 DEF SpeakerStop, F9Empty
    <2> QED
      BY <2>1
  <1>6. CASE MusicRestore \/ ResetRestore \/ PowerRestore \/ Poll
    <2>1. UNCHANGED <<snd, speaker>> /\ (~InNote \/ pc = "note_restore")
      BY <1>0, <1>6 DEF MusicRestore, ResetRestore, PowerRestore, Poll, PollEnter, PollSleep,
                        PollNoKey, PollKey
    <2> QED
      BY <1>0, <2>1
  <1>7. CASE NoteStart \/ WaitNext \/ WaitSlice \/ WaitSpin
    <2>1. snd'.active = snd.active /\ UNCHANGED <<mode, cx>> /\ mode = "foreground"
      BY <1>0, <1>7 DEF NoteStart, WaitNext, WaitSlice, WaitSpin, regs, SndVars, ModeOK
    <2> QED
      BY <1>0, <1>7, <2>1 DEF NoteStart, WaitNext, WaitSlice, WaitSpin, Goto
  <1>8. CASE RomF9 \/ F9Waiting \/ F9Quiet \/ TimerExpires
    <2>1. UNCHANGED <<pc, mode, cx, speaker>>
      BY <1>8 DEF RomF9, F9Waiting, F9Quiet, TimerExpires, regs
    <2>2. snd'.active = snd.active
      BY <1>0, <1>8 DEF RomF9, F9Waiting, F9Quiet, TimerExpires, SndVars
    <2> QED
      BY <1>0, <2>1, <2>2
  <1>9. CASE F9Slice \/ F9Note
    <2>1. snd'.active # 0
      BY <1>9, SliceTick, NoteTick
    <2> QED
      BY <2>1
  <1>10. CASE Launch
    <2>1. ~InNote /\ UNCHANGED speaker /\ snd.active = 0
      BY <1>0, <1>10 DEF Launch, ActiveWhile, InAccept, Accepting, InArm, Started
    <2> QED
      BY <1>0, <2>1
  <1> QED
    BY <1>1, <1>2, <1>3, <1>4, <1>5, <1>6, <1>7, <1>8, <1>9, <1>10
       DEF CleanNext, Step, StartSteps, Interrupt

\* Moving q_head on by one moves every index behind it down by one.
LEMMA SlotShift ==
  ASSUME NEW h \in Slots, NEW i \in 0 .. QueueLen - 1
  PROVE  Slot(h + 1) \in Slots /\ Slot(Slot(h + 1) + i) = Slot(h + (i + 1))
  <1>1. /\ QueueLen \in Nat \ {0} /\ h \in 0 .. QueueLen - 1
        /\ 1 \in 0 .. QueueLen /\ i \in 0 .. QueueLen /\ i + 1 \in 0 .. QueueLen
    BY SoundAssumption DEF Slots
  <1>2. Slot(h + 1) = IF h + 1 < QueueLen THEN h + 1 ELSE h + 1 - QueueLen
    BY <1>1, SlotWraps
  <1>3. Slot(h + 1) \in Slots
    BY <1>1, <1>2 DEF Slots
  <1> DEFINE g == Slot(h + 1)
  <1>4. Slot(g + i) = IF g + i < QueueLen THEN g + i ELSE g + i - QueueLen
    BY <1>1, <1>3, SlotWraps
  <1>5. Slot(h + (i + 1)) = IF h + (i + 1) < QueueLen THEN h + (i + 1) ELSE h + (i + 1) - QueueLen
    BY <1>1, SlotWraps
  <1>6. g = IF h + 1 < QueueLen THEN h + 1 ELSE h + 1 - QueueLen
    BY <1>2
  <1> HIDE DEF g
  <1>7. g + i \in Int /\ g \in Int
    BY <1>1, <1>6
  <1>8. Slot(g + i) = Slot(h + (i + 1))
    BY <1>1, <1>4, <1>5, <1>6, <1>7
  <1> QED
    BY <1>3, <1>8 DEF g

\* Indices less than the ring's length apart are different slots.
LEMMA SlotDistinct ==
  ASSUME NEW h \in Slots, NEW i \in Nat, NEW c \in 0 .. QueueLen - 1, i < c
  PROVE  Slot(h + i) # Slot(h + c)
  <1>1. QueueLen \in Nat \ {0} /\ h \in 0 .. QueueLen - 1 /\ i \in 0 .. QueueLen
        /\ c \in 0 .. QueueLen
    BY SoundAssumption DEF Slots
  <1>2. Slot(h + i) = IF h + i < QueueLen THEN h + i ELSE h + i - QueueLen
    BY <1>1, SlotWraps
  <1>3. Slot(h + c) = IF h + c < QueueLen THEN h + c ELSE h + c - QueueLen
    BY <1>1, SlotWraps
  <1> QED
    BY <1>1, <1>2, <1>3

\* DONOTE stores the note it was called with; dw_music_start_next reads the oldest.
LEMMA NoteOKNext ==
  ASSUME CleanInv, CleanNext
  PROVE  NoteOK'
  <1> USE DEF NoteOK
  <1>0. /\ TypeOK /\ NoteOK /\ ModeOK /\ ActiveWhile /\ OneWaiting /\ RingOK
        /\ snd \in [SndVars -> Nat]
    BY Fields DEF CleanInv, SoundInv
  <1>1. CASE CleanCall
    BY <1>0, <1>1, SoundAssumption DEF CleanCall, DONOTE, Goto, InAccept, Accepting
  <1>2. CASE MusicInstall \/ EnqueueFull \/ EnqueueActive \/ StartNext
    BY <1>0, <1>2 DEF MusicInstall, EnqueueFull, EnqueueActive, StartNext, Goto, Return, regs,
                      InAccept, Accepting
  <1>3. CASE EnqueueStore
    <2>1. /\ snd'.q_head = snd.q_head /\ snd'.q_count = snd.q_count
          /\ pc' = "enqueue_count" /\ UNCHANGED <<mode, cx, dx>>
      BY <1>0, <1>3 DEF EnqueueStore, SndVars, Goto, regs
    <2>2. InAccept
      BY <1>0, <1>3 DEF EnqueueStore, InAccept, Accepting, ModeOK
    <2>3. Slot(snd.q_head + snd.q_count) = snd.q_tail
      <3>1. Held = snd.q_count
        BY <1>0, <1>3, Fields DEF EnqueueStore, Held
      <3> QED
        BY <1>0, <1>3, <3>1 DEF EnqueueStore, RingOK
    <2>4. queue'[snd.q_tail] = [tone |-> cx, dur |-> dx]
      BY <1>0, <1>3, Fields DEF EnqueueStore, TypeOK
    <2> QED
      BY <1>0, <2>1, <2>2, <2>3, <2>4
  <1>4. CASE EnqueueCount
    BY <1>0, <1>4 DEF EnqueueCount, Goto, regs, InAccept, Accepting
  <1>5. CASE StartRead
    <2>1. snd.active = 0 /\ snd.q_count = 1
      BY <1>0, <1>5 DEF StartRead, ActiveWhile, OneWaiting, InStart, Starting
    <2>2. Held = 1
      BY <1>5, <2>1 DEF StartRead, Held
    <2>3. Slot(snd.q_head + 0) = snd.q_head
      BY <1>0, Fields, SlotWraps DEF Slots
    <2>4. queue[snd.q_head].dur # 0
      BY <1>0, <2>2, <2>3 DEF RingOK
    <2> QED
      BY <1>5, <2>4 DEF StartRead, Goto, InAccept, Accepting
  <1>6. CASE StartHead
    BY <1>0, <1>6 DEF StartHead, Goto, InAccept, Accepting
  <1>7. CASE StartAdvance \/ StartCount \/ StartRemaining
    BY <1>0, <1>7 DEF StartAdvance, StartCount, StartRemaining, Goto, regs, InAccept, Accepting
  <1>8. CASE StartActive \/ StartSpeaker \/ EmptyActive \/ EmptyRemaining \/ EmptySlice
             \/ ArmSteps
    BY <1>0, <1>8 DEF StartActive, StartSpeaker, EmptyActive, EmptyRemaining, EmptySlice,
                      ArmSteps, ArmNext, ArmSlice, ArmUnits, ArmFrac, ArmWake, ArmUnmask, ArmCount,
                      Goto, Return, InAccept, Accepting
  <1>9. CASE ResetStore \/ SpeakerStop \/ MusicRestore \/ ResetRestore
    BY <1>0, <1>9 DEF ResetStore, SpeakerStop, MusicRestore, ResetRestore,
                      Goto, Return, InAccept, Accepting
  <1>10. CASE NoteStart \/ WaitNext \/ WaitSlice \/ WaitSpin \/ PowerRestore
    BY <1>0, <1>10 DEF NoteStart, WaitNext, WaitSlice, WaitSpin, PowerRestore, Goto,
                       InAccept, Accepting, ModeOK, NoteSteps
  <1>11. CASE Poll \/ Launch
    BY <1>0, <1>11 DEF Poll, PollEnter, PollSleep, PollNoKey, PollKey, Launch, Goto, Return,
                       InAccept, Accepting
  <1>12. CASE RomF9 \/ F9Waiting \/ F9Quiet \/ TimerExpires
    <2>1. UNCHANGED <<pc, mode, regs, queue>>
      BY <1>12 DEF RomF9, F9Waiting, F9Quiet, TimerExpires
    <2>2. snd'.q_head = snd.q_head /\ snd'.q_count = snd.q_count
      BY <1>0, <1>12 DEF RomF9, F9Waiting, F9Quiet, TimerExpires, SndVars
    <2> QED
      BY <1>0, <2>1, <2>2 DEF regs, InAccept
  <1>13. CASE F9Slice \/ F9Note \/ F9Empty
    <2>1. UNCHANGED <<pc, mode, regs, queue>> /\ irq
      BY <1>13 DEF F9Slice, F9Note, F9Empty, F9Advances, F9Taken
    <2>2. pc \notin Starting
      BY <2>1, TickFindsNote DEF InStart
    <2>3. Slot(snd'.q_head + snd'.q_count) = Slot(snd.q_head + snd.q_count)
      <3>1. CASE F9Slice \/ F9Empty
        BY <3>1, SliceTick, EmptyTick
      <3>2. CASE F9Note
        <4>1. pc # "start_count"
          BY <2>2 DEF Starting
        <4>2. snd.q_head \in Slots /\ snd.q_count \in 1 .. QueueLen
          BY <1>0, <3>2, <4>1, NoteTick, Fields DEF RingOK, Held
        <4>3. snd.q_count - 1 \in 0 .. QueueLen - 1 /\ (snd.q_count - 1) + 1 = snd.q_count
          BY <4>2, SoundAssumption
        <4> QED
          BY <3>2, <4>2, <4>3, NoteTick, SlotShift
      <3> QED
        BY <1>13, <3>1, <3>2
    <2> QED
      BY <1>0, <2>1, <2>2, <2>3 DEF regs, InAccept, Starting
  <1> QED
    BY <1>1, <1>2, <1>3, <1>4, <1>5, <1>6, <1>7, <1>8, <1>9, <1>10, <1>11, <1>12, <1>13
       DEF CleanNext, Step, StartSteps, Interrupt

\* The entries between q_head and q_tail are those counted, by the foreground and by
\* the handler, and all of them are notes.
LEMMA RingNext ==
  ASSUME CleanInv, CleanNext
  PROVE  RingOK'
  <1>0. /\ TypeOK /\ NoteOK /\ ModeOK /\ ActiveWhile /\ OneWaiting /\ RingOK
        /\ snd \in [SndVars -> Nat] /\ queue \in [Slots -> Notes]
        /\ snd.q_head \in Slots /\ snd.q_tail \in Slots /\ snd.q_count \in Nat
        /\ QueueLen \in Nat \ {0} /\ dx \in Nat
    BY Fields DEF CleanInv, SoundInv, TypeOK
  <1> DEFINE Quiet == {"reset", "reset_stop", "reset_restore", "enqueue_count", "start_count"}
  <1>1. CASE EnqueueStore
    <2>1. /\ snd'.q_head = snd.q_head /\ snd'.q_count = snd.q_count
          /\ snd'.q_tail = Slot(snd.q_tail + 1)
          /\ pc = "enqueue" /\ pc' = "enqueue_count" /\ snd.q_count < QueueLen
          /\ queue' = [queue EXCEPT ![snd.q_tail] = [tone |-> cx, dur |-> dx]]
      BY <1>0, <1>1 DEF EnqueueStore, SndVars, Goto
    <2>2. Held = snd.q_count /\ Held' = snd.q_count + 1
      BY <1>0, <2>1 DEF Held
    <2>3. Slot(snd.q_head + snd.q_count) = snd.q_tail
      BY <1>0, <2>1, <2>2 DEF RingOK
    <2>4. Slot(snd.q_head + (snd.q_count + 1)) = Slot(snd.q_tail + 1)
      <3>1. snd.q_head \in 0 .. QueueLen - 1 /\ snd.q_tail \in 0 .. QueueLen - 1
            /\ snd.q_count \in 0 .. QueueLen /\ snd.q_count + 1 \in 0 .. QueueLen
            /\ 1 \in 0 .. QueueLen
        BY <1>0, <2>1 DEF Slots
      <3>2. snd.q_tail = IF snd.q_head + snd.q_count < QueueLen THEN snd.q_head + snd.q_count
                         ELSE snd.q_head + snd.q_count - QueueLen
        BY <1>0, <2>3, <3>1, SlotWraps
      <3>3. Slot(snd.q_tail + 1) = IF snd.q_tail + 1 < QueueLen THEN snd.q_tail + 1
                                   ELSE snd.q_tail + 1 - QueueLen
        BY <1>0, <3>1, SlotWraps
      <3>4. Slot(snd.q_head + (snd.q_count + 1))
              = IF snd.q_head + (snd.q_count + 1) < QueueLen THEN snd.q_head + (snd.q_count + 1)
                ELSE snd.q_head + (snd.q_count + 1) - QueueLen
        BY <1>0, <3>1, SlotWraps
      <3> QED
        BY <1>0, <3>1, <3>2, <3>3, <3>4
    <2>5. ASSUME NEW i \in 0 .. snd.q_count
          PROVE  queue'[Slot(snd.q_head + i)].dur # 0
      <3>1. dx # 0
        BY <1>0, <2>1 DEF NoteOK, ModeOK, InAccept, Accepting
      <3>2. CASE i = snd.q_count
        BY <1>0, <2>1, <2>3, <3>1, <3>2
      <3>3. CASE i # snd.q_count
        <4>1. i \in Nat /\ i < snd.q_count /\ snd.q_count \in 0 .. QueueLen - 1
              /\ i \in 0 .. Held - 1
          BY <1>0, <2>1, <2>2, <3>3
        <4>2. Slot(snd.q_head + i) # snd.q_tail
          BY <1>0, <2>3, <4>1, SlotDistinct
        <4>3. Slot(snd.q_head + i) \in Slots
          <5>1. snd.q_head + i \in Nat
            BY <1>0, <4>1 DEF Slots
          <5> QED
            BY <5>1, SlotInRing
        <4>4. queue[Slot(snd.q_head + i)].dur # 0
          BY <1>0, <4>1 DEF RingOK
        <4> QED
          BY <1>0, <2>1, <4>2, <4>3, <4>4
      <3> QED
        BY <3>2, <3>3
    <2>6. \A i \in 0 .. Held' - 1 : queue'[Slot(snd'.q_head + i)].dur # 0
      BY <1>0, <2>1, <2>2, <2>5
    <2> QED
      BY <1>0, <2>1, <2>2, <2>4, <2>6 DEF RingOK
  <1>2. CASE EnqueueCount \/ StartCount
    <2>1. /\ snd'.q_head = snd.q_head /\ snd'.q_tail = snd.q_tail /\ UNCHANGED queue
          /\ pc' \notin Quiet /\ pc \in {"enqueue_count", "start_count"}
      BY <1>0, <1>2 DEF EnqueueCount, StartCount, SndVars, Goto
    <2>2. Held' = Held
      <3>1. CASE EnqueueCount
        BY <1>0, <3>1, CountSteps DEF EnqueueCount, Held, Goto, SndVars
      <3>2. CASE StartCount
        BY <1>0, <3>2, CountSteps DEF StartCount, Held, Goto, SndVars, OneWaiting
      <3> QED
        BY <1>2, <3>1, <3>2
    <2> QED
      BY <1>0, <2>1, <2>2 DEF RingOK
  <1>3. CASE StartAdvance
    <2>1. /\ snd'.q_head = ax /\ snd'.q_tail = snd.q_tail /\ snd'.q_count = snd.q_count
          /\ pc = "start_advance" /\ pc' = "start_count" /\ snd.q_count = 1
          /\ ax = Slot(snd.q_head + 1)
      BY <1>0, <1>3, Fields DEF StartAdvance, SndVars, Goto, OneWaiting, NoteOK
    <2>2. Held = 1 /\ Held' = 0
      BY <2>1 DEF Held
    <2>3. Slot(snd.q_head + 1) = snd.q_tail
      BY <1>0, <2>1, <2>2 DEF RingOK
    <2>4. Slot(snd.q_tail + 0) = snd.q_tail
      <3>1. /\ snd.q_tail \in Slots /\ 0 \in 0 .. QueueLen
            /\ snd.q_tail + 0 = snd.q_tail /\ snd.q_tail < QueueLen
        BY <1>0 DEF Slots
      <3> QED
        BY <3>1, SlotWraps
    <2> QED
      BY <1>0, <2>1, <2>2, <2>3, <2>4 DEF RingOK
  <1>4. CASE ResetStore
    <2>1. snd.q_count = 0 /\ pc = "reset" /\ line \in 1 .. 8
      BY <1>0, <1>4, Fields DEF ResetStore, ActiveWhile, OneWaiting, InAccept, Accepting, InArm,
                        Started, ArmStores
    <2>2. pc' = (IF line < 8 THEN "reset" ELSE "reset_stop")
          /\ line' = (IF line < 8 THEN line + 1 ELSE 1)
      BY <1>4 DEF ResetStore, Goto
    <2>3. \A v \in SndVars : snd'[v] = IF v = ResetOrder[line] THEN 0 ELSE snd[v]
      BY <1>0, <1>4 DEF ResetStore
    <2>4. /\ snd'.q_head = (IF line = 1 THEN 0 ELSE snd.q_head)
          /\ snd'.q_tail = (IF line = 2 THEN 0 ELSE snd.q_tail)
          /\ snd'.q_count = 0
      BY <2>1, <2>3 DEF ResetOrder, SndVars
    <2>5. Held' = 0
      BY <2>2, <2>4 DEF Held
    <2>6. snd'.q_head \in Slots
      BY <1>0, <2>4 DEF Slots
    <2>7. Slot(0 + 0) = 0
      BY <1>0, SlotWraps DEF Slots
    <2>8. (line > 1 => snd'.q_head = 0) /\ (line = 1 => snd'.q_head = 0)
          /\ (line > 1 => snd'.q_tail = 0)
      BY <1>0, <2>1, <2>4 DEF RingOK
    <2> QED
      BY <1>0, <2>1, <2>2, <2>5, <2>7, <2>8 DEF RingOK
  <1>5. CASE Launch
    <2>1. snd'.q_head = 0 /\ snd'.q_tail = 0 /\ snd'.q_count = 0 /\ pc' = "reset"
      BY <1>5 DEF Launch, Silent, SndVars, Goto
    <2>2. Held' = 0
      BY <2>1 DEF Held
    <2> QED
      BY <1>0, <2>1, <2>2 DEF RingOK
  <1>6. CASE F9Note
    <2>1. UNCHANGED <<pc, line, queue>> /\ irq
      BY <1>6 DEF F9Note, F9Advances, F9Taken, regs
    <2>2. /\ snd'.q_head = Slot(snd.q_head + 1) /\ snd'.q_tail = snd.q_tail
          /\ snd'.q_count = snd.q_count - 1 /\ snd.q_count # 0 /\ snd.active # 0
      BY <1>6, NoteTick
    <2>3. pc \notin {"reset", "reset_stop", "reset_restore", "start_count"}
      BY <2>1, <2>2, TickFindsNote DEF InAccept, Accepting
    <2>4. Held' = Held - 1 /\ Held \in 1 .. QueueLen
      BY <1>0, <2>1, <2>2, <2>3 DEF Held, RingOK
    <2>5. ASSUME NEW i \in 0 .. Held - 1
          PROVE  Slot(snd'.q_head + i) = Slot(snd.q_head + (i + 1))
      BY <1>0, <2>2, <2>4, <2>5, SlotShift
    <2>6. Slot(snd'.q_head + Held') = snd.q_tail
      <3>1. Held - 1 \in 0 .. Held - 1 /\ (Held - 1) + 1 = Held
        BY <2>4
      <3> QED
        BY <1>0, <2>3, <2>4, <2>5, <3>1 DEF RingOK
    <2>7. ASSUME NEW i \in 0 .. Held' - 1 PROVE queue'[Slot(snd'.q_head + i)].dur # 0
      <3>1. i \in 0 .. Held - 1 /\ i + 1 \in 0 .. Held - 1
        BY <2>4, <2>7
      <3> QED
        BY <1>0, <2>1, <2>5, <3>1 DEF RingOK
    <2> QED
      BY <1>0, <2>1, <2>2, <2>3, <2>4, <2>6, <2>7 DEF RingOK
  <1>7. CASE F9Slice \/ F9Empty \/ F9Waiting \/ RomF9 \/ F9Quiet \/ TimerExpires
    <2>1. UNCHANGED <<pc, line, queue>>
      BY <1>7 DEF F9Slice, F9Empty, F9Waiting, RomF9, F9Quiet, TimerExpires, regs
    <2>2. /\ snd'.q_head = snd.q_head /\ snd'.q_tail = snd.q_tail
          /\ snd'.q_count = snd.q_count
      <3>1. CASE F9Slice \/ F9Empty
        BY <3>1, SliceTick, EmptyTick
      <3>2. CASE F9Waiting \/ RomF9 \/ F9Quiet \/ TimerExpires
        BY <1>0, <3>2 DEF F9Waiting, RomF9, F9Quiet, TimerExpires, SndVars
      <3> QED
        BY <1>7, <3>1, <3>2
    <2>3. Held' = Held
      BY <2>1, <2>2 DEF Held
    <2> QED
      BY <1>0, <2>1, <2>2, <2>3 DEF RingOK
  <1>8. CASE StartRemaining \/ StartActive \/ EmptyActive \/ EmptyRemaining \/ EmptySlice
             \/ ArmSlice \/ ArmFrac \/ WaitSlice
    <2>1. /\ snd'.q_head = snd.q_head /\ snd'.q_tail = snd.q_tail
          /\ snd'.q_count = snd.q_count /\ UNCHANGED queue
          /\ pc \notin Quiet /\ pc' \notin Quiet
      BY <1>0, <1>8 DEF StartRemaining, StartActive, EmptyActive, EmptyRemaining, EmptySlice,
                        ArmSlice, ArmFrac, WaitSlice, SndVars, Goto
    <2>2. Held' = Held
      BY <2>1 DEF Held
    <2> QED
      BY <1>0, <2>1, <2>2 DEF RingOK
  <1>9. CASE SpeakerStop \/ ResetRestore
    <2>1. UNCHANGED <<snd, queue, line>> /\ pc \notin {"reset", "enqueue_count", "start_count"}
          /\ pc' \notin {"enqueue_count", "start_count"}
          /\ (pc' \in {"reset", "reset_restore"} => pc \in {"reset_stop", "reset_restore"})
          /\ pc' # "reset_stop"
      BY <1>9 DEF SpeakerStop, ResetRestore, regs, Goto, Return
    <2>2. Held' = Held
      BY <2>1 DEF Held
    <2> QED
      BY <1>0, <2>1, <2>2 DEF RingOK
  <1>10. CASE CleanCall
    <2>1. UNCHANGED <<snd, queue>> /\ pc = "idle"
          /\ (pc' = "install" \/ (pc' = "reset" /\ line' = 1))
      BY <1>10 DEF CleanCall, DONOTE, Goto
    <2>2. Held' = Held
      BY <2>1 DEF Held
    <2> QED
      BY <1>0, <2>1, <2>2 DEF RingOK
  <1>11. CASE UNCHANGED <<snd, queue>> /\ pc \notin Quiet /\ pc' \notin Quiet
    <2>1. Held' = Held
      BY <1>11 DEF Held
    <2> QED
      BY <1>0, <1>11, <2>1 DEF RingOK
  <1> QED
    <2>1. MusicInstall \/ EnqueueFull \/ EnqueueActive \/ StartNext \/ StartRead \/ StartHead
          \/ StartSpeaker \/ ArmNext \/ ArmUnits \/ ArmWake \/ ArmUnmask \/ ArmCount
          \/ MusicRestore \/ NoteStart \/ WaitNext \/ WaitSpin \/ PowerRestore \/ Poll
            => UNCHANGED <<snd, queue>> /\ pc \notin Quiet /\ pc' \notin Quiet
      BY DEF MusicInstall, EnqueueFull, EnqueueActive, StartNext, StartRead, StartHead,
             StartSpeaker, ArmNext, ArmUnits, ArmWake, ArmUnmask, ArmCount, MusicRestore,
             NoteStart, WaitNext, WaitSpin, PowerRestore, Poll, PollEnter, PollSleep, PollNoKey,
             PollKey, Goto, Return
    <2> QED
      BY <1>1, <1>2, <1>3, <1>4, <1>5, <1>6, <1>7, <1>8, <1>9, <1>10, <1>11, <2>1
         DEF CleanNext, Step, StartSteps, ArmSteps, Interrupt

LEMMA CleanInvInit == Init => CleanInv
  <1> SUFFICES ASSUME Init PROVE CleanInv
    OBVIOUS
  <1>1. SoundInv
    BY InvInit
  <1>2. /\ snd.q_head = 0 /\ snd.q_tail = 0 /\ snd.q_count = 0 /\ snd.active = 0
        /\ snd.remaining = 0 /\ snd.slice = 0 /\ pc = "idle" /\ speaker = FALSE
        /\ mode = "reset"
    BY DEF Init, Silent, SndVars
  <1>3. NoTickWhileStarting /\ OneTick /\ ActiveWhile /\ OneWaiting
    BY <1>2 DEF NoTickWhileStarting, OneTick, ActiveWhile, OneWaiting, InStart, InArm, InAccept,
                Starting, Emptying, Started, Accepting, ArmStores
  <1>4. LeftOK /\ NoteOK /\ SpeakerOK
    BY <1>2 DEF LeftOK, NoteOK, SpeakerOK, InAccept
  <1>5. Held = 0
    BY <1>2 DEF Held
  <1>6. Slot(0 + 0) = 0 /\ QueueLen \in Nat
    <2>1. 0 \in Slots /\ 0 \in 0 .. QueueLen /\ QueueLen \in Nat \ {0}
      BY SoundAssumption DEF Slots
    <2> QED
      BY <2>1, SlotWraps
  <1>7. RingOK
    BY <1>2, <1>5, <1>6 DEF RingOK
  <1> QED
    BY <1>1, <1>3, <1>4, <1>7 DEF CleanInv

LEMMA CleanInvNext == CleanInv /\ [CleanNext]_vars => CleanInv'
  <1> SUFFICES ASSUME CleanInv, [CleanNext]_vars PROVE CleanInv'
    OBVIOUS
  <1>1. CASE CleanNext
    <2>1. SoundInv'
      BY <1>1, CleanIsNext, InvNext DEF CleanInv
    <2> QED
      BY <1>1, <2>1, QuietNext, ActiveNext, WaitingNext, LeftNext, NoteOKNext, RingNext,
         SpeakerNext DEF CleanInv
  <1>2. CASE UNCHANGED vars
    <2>1. SoundInv'
      BY <1>2, InvNext DEF CleanInv
    <2>2. Held' = Held
      BY <1>2 DEF vars, Held
    <2>3. NoTickWhileStarting' /\ OneTick' /\ ActiveWhile' /\ OneWaiting'
      BY <1>2 DEF CleanInv, vars, NoTickWhileStarting, OneTick, ActiveWhile, OneWaiting,
                  InStart, InArm, InAccept
    <2>4. LeftOK' /\ NoteOK' /\ SpeakerOK'
      BY <1>2 DEF CleanInv, vars, LeftOK, NoteOK, SpeakerOK, InAccept, InNote
    <2>5. RingOK'
      BY <1>2, <2>2 DEF CleanInv, vars, RingOK
    <2> QED
      BY <2>1, <2>3, <2>4, <2>5 DEF CleanInv
  <1> QED
    BY <1>1, <1>2

LEMMA CleanInductive == CleanSpec => []CleanInv
  BY CleanInvInit, CleanInvNext, PTL DEF CleanSpec

\* Also between the stores of an update that is not atomic, q_count and the ring
\* indices agree, and the ring never holds more than DW_SND_QUEUE_LEN notes: DONOTE
\* overwrites no note that is still to be played.
THEOREM RingStaysConsistent == CleanSpec => []RingConsistent
  <1>1. CleanInv => RingConsistent
    <2> SUFFICES ASSUME CleanInv PROVE RingConsistent
      OBVIOUS
    <2>1. Held \in 0 .. QueueLen /\ (pc # "reset" => Slot(snd.q_head + Held) = snd.q_tail)
      BY DEF CleanInv, RingOK
    <2> QED
      BY <2>1 DEF RingConsistent, Held
  <1> QED
    BY <1>1, CleanInductive, PTL

\* Back in BASIC, the speaker is on only while a queued note is active: every path out of
\* DONOTE and of the tick handler that leaves none has closed the gate.  That the note ends
\* is not said.
THEOREM ToneOnlyInNote == CleanSpec => []ToneHasNote
  <1>1. CleanInv => ToneHasNote
    BY DEF CleanInv, SpeakerOK, ToneHasNote, InNote, NoteSteps, ArmStores
  <1> QED
    BY <1>1, CleanInductive, PTL

------------------------------------------------------------------------------
(* The refinement                                                            *)

\* The notes counted in the ring and not yet taken from it
Waiting == snd.q_count - (IF pc = "start_count" THEN 1 ELSE 0)

\* n entries of the ring, from the index h on
Entries(q, h, n) == [i \in 1 .. n |-> q[Slot(h + i - 1)]]

LEMMA EntriesSeq ==
  ASSUME NEW q \in [Slots -> Notes], NEW h \in Slots, NEW n \in Nat
  PROVE  Entries(q, h, n) \in Seq(Notes) /\ Len(Entries(q, h, n)) = n
  <1> DEFINE e(i) == q[Slot(h + i - 1)]
  <1>1. ASSUME NEW i \in 1 .. n PROVE e(i) \in Notes
    <2>1. h + i - 1 \in Nat
      BY SoundAssumption DEF Slots
    <2> QED
      BY <2>1, SlotInRing
  <1>2. Entries(q, h, n) = [i \in 1 .. n |-> e(i)]
    BY DEF Entries
  <1> HIDE DEF e
  <1> QED
    BY <1>1, <1>2, IsASeq

LEMMA QueuedIs ==
  ASSUME CleanInv
  PROVE  /\ Waiting \in 0 .. QueueLen
         /\ Queued \in Seq(Notes) /\ Len(Queued) = Waiting
         /\ Queued = Entries(queue, snd.q_head, Waiting)
  <1>0. /\ TypeOK /\ queue \in [Slots -> Notes] /\ snd.q_count \in Nat
        /\ snd.q_head \in Slots /\ QueueLen \in Nat /\ RingOK /\ OneWaiting
    BY Fields DEF CleanInv, SoundInv, TypeOK
  <1>1. Waiting \in 0 .. QueueLen
    BY <1>0 DEF Waiting, RingOK, Held, OneWaiting
  <1>2. Queued = Entries(queue, snd.q_head, Waiting)
    BY DEF Queued, Waiting, Entries
  <1> QED
    BY <1>0, <1>1, <1>2, EntriesSeq

\* A step that leaves the entries counted and q_head alone leaves the queue.
LEMMA SameQueue ==
  ASSUME CleanInv, Waiting' = Waiting,
         \A i \in 1 .. Waiting : queue'[Slot(snd'.q_head + i - 1)] = queue[Slot(snd.q_head + i - 1)]
  PROVE  Queued' = Queued
  <1>1. Queued = Entries(queue, snd.q_head, Waiting)
    BY QueuedIs
  <1>2. Queued' = Entries(queue', snd'.q_head, Waiting')
    BY DEF Queued, Waiting, Entries
  <1> QED
    BY <1>1, <1>2 DEF Entries

\* Counting the stored entry appends it to the queue.
LEMMA AcceptStep ==
  ASSUME CleanInv, EnqueueCount
  PROVE  NoteQueueSpec!Accept([tone |-> cx, dur |-> dx])
         /\ [tone |-> cx, dur |-> dx] \in NoteQueueSpec!Notes
  <1> DEFINE note == [tone |-> cx, dur |-> dx]
  <1>0. /\ TypeOK /\ snd \in [SndVars -> Nat] /\ snd.q_count \in Nat /\ snd.q_head \in Slots
        /\ snd.q_head \in Nat /\ QueueLen \in Nat /\ cx \in BOOLEAN
        /\ queue \in [Slots -> Notes]
    BY Fields DEF CleanInv, SoundInv, TypeOK, ControlType, Slots
  <1>1. /\ snd'.q_head = snd.q_head /\ snd'.q_count = snd.q_count + 1
        /\ snd'.remaining = snd.remaining /\ queue' = queue
        /\ pc = "enqueue_count" /\ pc' = "enqueue_active" /\ UNCHANGED dx
    BY <1>0, CountSteps DEF EnqueueCount, SndVars, Goto, regs
  <1>2. Waiting = snd.q_count /\ Waiting' = snd.q_count + 1 /\ Held = snd.q_count + 1
    BY <1>0, <1>1 DEF Waiting, Held
  <1>3. Len(Queued) < QueueLen
    BY <1>0, <1>2, QueuedIs DEF CleanInv, RingOK
  <1>4. Left' = Left
    BY <1>1 DEF Left
  <1>5. queue[Slot(snd.q_head + snd.q_count)] = note
    BY <1>1 DEF CleanInv, NoteOK
  <1>6. note \in NoteQueueSpec!Notes /\ note \in Notes
    BY <1>0, <1>1, SoundAssumption
       DEF CleanInv, SoundInv, NoteOK, InAccept, Accepting, ModeOK, NoteQueueSpec!Notes, Notes
  <1>7. Queued' = Entries(queue, snd.q_head, snd.q_count + 1)
    BY <1>1, <1>2 DEF Queued, Waiting, Entries
  <1>8. Queued \in Seq(Notes) /\ Len(Queued) = snd.q_count
        /\ \A i \in 1 .. snd.q_count : Queued[i] = queue[Slot(snd.q_head + i - 1)]
    BY <1>2, QueuedIs DEF Entries
  <1>9. Queued' \in Seq(Notes) /\ Len(Queued') = snd.q_count + 1
        /\ \A i \in 1 .. snd.q_count + 1 : Queued'[i] = queue[Slot(snd.q_head + i - 1)]
    <2>1. snd.q_count + 1 \in Nat
      BY <1>0
    <2>2. Queued' \in Seq(Notes) /\ Len(Queued') = snd.q_count + 1
      BY <1>0, <1>7, <2>1, EntriesSeq
    <2> QED
      BY <1>7, <2>2 DEF Entries
  <1>10. /\ Append(Queued, note) \in Seq(Notes)
         /\ Len(Append(Queued, note)) = snd.q_count + 1
         /\ \A i \in 1 .. snd.q_count : Append(Queued, note)[i] = Queued[i]
         /\ Append(Queued, note)[snd.q_count + 1] = note
    BY <1>6, <1>8, AppendProperties
  <1>11. ASSUME NEW i \in 1 .. snd.q_count + 1 PROVE Queued'[i] = Append(Queued, note)[i]
    <2>1. CASE i = snd.q_count + 1
      <3>1. snd.q_head + (snd.q_count + 1) - 1 = snd.q_head + snd.q_count
        BY <1>0
      <3> QED
        BY <1>5, <1>9, <1>10, <2>1, <3>1
    <2>2. CASE i # snd.q_count + 1
      <3>1. i \in 1 .. snd.q_count
        BY <1>0, <2>2
      <3> QED
        BY <1>8, <1>9, <1>10, <3>1
    <2> QED
      BY <2>1, <2>2
  <1>12. Queued' = Append(Queued, note)
    BY <1>9, <1>10, <1>11, SeqEqual
  <1> QED
    BY <1>3, <1>4, <1>6, <1>12 DEF NoteQueueSpec!Accept

\* Taking the entry at q_head takes the first note of the queue.
LEMMA TakeStep ==
  ASSUME CleanInv, snd'.q_head = Slot(snd.q_head + 1), queue' = queue,
         Waiting # 0, Waiting' = Waiting - 1
  PROVE  /\ Queued # <<>> /\ Queued' = Tail(Queued)
         /\ Head(Queued) = queue[snd.q_head]
  <1>0. /\ TypeOK /\ snd.q_head \in Slots /\ QueueLen \in Nat \ {0}
        /\ snd.q_head \in 0 .. QueueLen - 1 /\ queue \in [Slots -> Notes]
    BY Fields DEF CleanInv, SoundInv, TypeOK, Slots
  <1>1. Waiting \in 1 .. QueueLen
    BY QueuedIs
  <1>2. Queued \in Seq(Notes) /\ Len(Queued) = Waiting
        /\ \A i \in 1 .. Waiting : Queued[i] = queue[Slot(snd.q_head + i - 1)]
    BY QueuedIs DEF Entries
  <1>3. Queued # <<>>
    BY <1>1, <1>2, EmptySeq
  <1>4. Head(Queued) = queue[snd.q_head]
    <2>1. snd.q_head + 1 - 1 = snd.q_head + 0 /\ 0 \in 0 .. QueueLen
          /\ snd.q_head + 0 < QueueLen /\ snd.q_head + 0 = snd.q_head
      BY <1>0
    <2>2. Slot(snd.q_head + 1 - 1) = snd.q_head
      BY <1>0, <2>1, SlotWraps
    <2>3. Head(Queued) = Queued[1]
      OBVIOUS
    <2> QED
      BY <1>1, <1>2, <2>2, <2>3
  <1>5. snd'.q_head \in Slots /\ snd'.q_head \in Nat
    <2>1. 0 \in 0 .. QueueLen - 1
      BY <1>0
    <2>2. snd'.q_head \in Slots
      BY <1>0, <2>1, SlotShift
    <2> QED
      BY <2>2, SoundAssumption DEF Slots
  <1>6. Queued' \in Seq(Notes) /\ Len(Queued') = Waiting - 1
        /\ \A i \in 1 .. Waiting - 1 : Queued'[i] = queue[Slot(snd'.q_head + i - 1)]
    <2>1. Queued' = Entries(queue, snd'.q_head, Waiting - 1)
      BY DEF Queued, Waiting, Entries
    <2>2. Waiting - 1 \in Nat
      BY <1>0, <1>1
    <2>3. Queued' \in Seq(Notes) /\ Len(Queued') = Waiting - 1
      BY <1>0, <1>5, <2>1, <2>2, EntriesSeq
    <2> QED
      BY <2>1, <2>3 DEF Entries
  <1>7. /\ Tail(Queued) \in Seq(Notes) /\ Len(Tail(Queued)) = Waiting - 1
        /\ \A i \in 1 .. Waiting - 1 : Tail(Queued)[i] = Queued[i + 1]
    BY <1>2, <1>3, HeadTailProperties
  <1>8. ASSUME NEW i \in 1 .. Waiting - 1 PROVE Queued'[i] = Tail(Queued)[i]
    <2>1. i - 1 \in 0 .. QueueLen - 1 /\ i + 1 \in 1 .. Waiting /\ i \in Nat
      BY <1>0, <1>1
    <2>2. Slot(snd'.q_head + (i - 1)) = Slot(snd.q_head + ((i - 1) + 1))
      BY <1>0, <2>1, SlotShift
    <2>3. /\ snd'.q_head + (i - 1) = snd'.q_head + i - 1
          /\ snd.q_head + ((i - 1) + 1) = snd.q_head + (i + 1) - 1
      BY <1>0, <1>5, <2>1
    <2>4. Slot(snd'.q_head + i - 1) = Slot(snd.q_head + (i + 1) - 1)
      BY <2>2, <2>3
    <2>5. Queued'[i] = queue[Slot(snd.q_head + (i + 1) - 1)]
      BY <1>6, <2>4
    <2>6. Queued[i + 1] = queue[Slot(snd.q_head + (i + 1) - 1)]
      BY <1>2, <2>1
    <2> QED
      BY <1>7, <2>5, <2>6
  <1>9. Queued' = Tail(Queued)
    BY <1>6, <1>7, <1>8, SeqEqual
  <1> QED
    BY <1>3, <1>4, <1>9

\* A tick takes a slice off the note, begins the next one, or ends the last one.
LEMMA TickSteps ==
  ASSUME CleanInv, F9Slice \/ F9Note \/ F9Empty
  PROVE  NoteQueueSpec!Slice \/ NoteQueueSpec!Begin \/ NoteQueueSpec!Finish
  <1>0. /\ TypeOK /\ QueueLen \in Nat \ {0} /\ snd.q_count \in Nat
        /\ MaxSlice \in Nat \ {0} /\ snd.remaining \in Nat
    BY Fields DEF CleanInv, SoundInv
  <1>1. UNCHANGED <<pc, dx, queue>> /\ irq
    BY DEF F9Slice, F9Note, F9Empty, F9Advances, F9Taken, regs
  <1>2. pc \notin {"start_count", "start_remaining"}
    BY <1>1, TickFindsNote DEF InStart, Starting
  <1>3. /\ Left = snd.remaining /\ Left' = snd'.remaining
        /\ Waiting = snd.q_count /\ Waiting' = snd'.q_count
    <2>1. snd'.q_count \in Int
      BY <1>0, SliceTick, NoteTick, EmptyTick
    <2> QED
      BY <1>0, <1>1, <1>2, <2>1 DEF Left, Waiting
  <1>4. CASE F9Slice
    <2>1. Queued' = Queued
      BY <1>1, <1>3, <1>4, SliceTick, SameQueue
    <2> QED
      BY <1>3, <1>4, <2>1, SliceTick DEF NoteQueueSpec!Slice
  <1>5. CASE F9Note
    <2>1. Queued # <<>> /\ Queued' = Tail(Queued) /\ Head(Queued) = queue[snd.q_head]
      BY <1>1, <1>3, <1>5, NoteTick, TakeStep
    <2> QED
      BY <1>3, <1>5, <2>1, NoteTick DEF NoteQueueSpec!Begin
  <1>6. CASE F9Empty
    <2>1. Queued' = Queued
      BY <1>1, <1>3, <1>6, EmptyTick, SameQueue
    <2>2. Queued = <<>>
      BY <1>3, <1>6, EmptyTick, QueuedIs, EmptySeq
    <2> QED
      BY <1>3, <1>6, <2>1, <2>2, EmptyTick DEF NoteQueueSpec!Finish
  <1> QED
    BY <1>4, <1>5, <1>6

\* The foreground begins a note by moving q_head past it, with nothing left to play.
LEMMA StartStep ==
  ASSUME CleanInv, StartAdvance
  PROVE  NoteQueueSpec!Begin
  <1>0. TypeOK /\ snd \in [SndVars -> Nat] /\ MaxSlice \in Nat
    BY Fields DEF CleanInv, SoundInv
  <1>1. /\ snd'.q_head = ax /\ snd'.q_count = snd.q_count /\ UNCHANGED <<queue, dx>>
        /\ pc = "start_advance" /\ pc' = "start_count"
    BY <1>0, Fields DEF StartAdvance, SndVars, Goto, regs
  <1>2. snd.q_count = 1 /\ snd.active = 0
    BY <1>1 DEF CleanInv, OneWaiting, ActiveWhile, InStart, Starting
  <1>3. ax = Slot(snd.q_head + 1) /\ dx = queue[snd.q_head].dur
    BY <1>1 DEF CleanInv, NoteOK
  <1>4. Waiting = 1 /\ Waiting' = 0
    BY <1>1, <1>2 DEF Waiting
  <1>5. Queued # <<>> /\ Queued' = Tail(Queued) /\ Head(Queued) = queue[snd.q_head]
    BY <1>1, <1>3, <1>4, TakeStep
  <1>6. Left = 0 /\ Left' = dx
    BY <1>1, <1>2 DEF Left, CleanInv, LeftOK
  <1> QED
    BY <1>0, <1>3, <1>5, <1>6 DEF NoteQueueSpec!Begin

\* Nothing else is seen by the listener: the stores of a reset find an empty queue,
\* the stores of a start and of the arming do not touch what is left.
LEMMA StutterSteps ==
  ASSUME CleanInv, CleanNext, ~EnqueueCount, ~StartAdvance, ~F9Slice, ~F9Note, ~F9Empty
  PROVE  UNCHANGED <<Queued, Left>>
  <1>0. /\ TypeOK /\ snd \in [SndVars -> Nat] /\ ActiveWhile /\ OneWaiting /\ LeftOK /\ RingOK
        /\ snd.q_count \in Nat /\ snd.q_head \in Slots /\ snd.q_tail \in Slots
        /\ queue \in [Slots -> Notes] /\ QueueLen \in Nat \ {0}
    BY Fields DEF CleanInv, SoundInv, TypeOK
  <1>1. CASE EnqueueStore
    <2>1. /\ snd'.q_head = snd.q_head /\ snd'.q_count = snd.q_count
          /\ snd'.remaining = snd.remaining
          /\ pc = "enqueue" /\ pc' = "enqueue_count" /\ snd.q_count < QueueLen
          /\ queue' = [queue EXCEPT ![snd.q_tail] = [tone |-> cx, dur |-> dx]]
      BY <1>0, <1>1 DEF EnqueueStore, SndVars, Goto
    <2>2. Waiting = snd.q_count /\ Waiting' = snd.q_count /\ Held = snd.q_count
      BY <1>0, <2>1 DEF Waiting, Held
    <2>3. Slot(snd.q_head + snd.q_count) = snd.q_tail
      BY <1>0, <2>1, <2>2 DEF RingOK
    <2>4. ASSUME NEW i \in 1 .. Waiting
          PROVE  queue'[Slot(snd'.q_head + i - 1)] = queue[Slot(snd.q_head + i - 1)]
      <3>1. i - 1 \in Nat /\ i - 1 < snd.q_count /\ snd.q_count \in 0 .. QueueLen - 1
        BY <1>0, <2>1, <2>2
      <3>2. Slot(snd.q_head + (i - 1)) # snd.q_tail
        BY <1>0, <2>3, <3>1, SlotDistinct
      <3>3. snd.q_head + (i - 1) = snd.q_head + i - 1 /\ snd.q_head + i - 1 \in Nat
        BY <1>0, <2>2, <3>1 DEF Slots
      <3>4. Slot(snd.q_head + i - 1) \in Slots
        BY <3>3, SlotInRing
      <3> QED
        BY <1>0, <2>1, <3>2, <3>3, <3>4
    <2>5. Queued' = Queued
      BY <2>2, <2>4, SameQueue
    <2> QED
      BY <2>1, <2>5 DEF Left
  <1>2. CASE StartCount
    <2>1. /\ snd'.q_head = snd.q_head /\ snd'.q_count = 0 /\ snd.q_count = 1 /\ dx # 0
          /\ pc = "start_count" /\ pc' = "start_remaining" /\ UNCHANGED <<queue, dx>>
      BY <1>0, <1>2, CountSteps DEF StartCount, SndVars, Goto, regs, OneWaiting, CleanInv, NoteOK
    <2>2. Waiting = 0 /\ Waiting' = 0
      BY <2>1 DEF Waiting
    <2>3. Queued' = Queued
      BY <2>1, <2>2, SameQueue
    <2> QED
      BY <2>1, <2>3 DEF Left
  <1>3. CASE StartRemaining
    <2>1. /\ snd'.q_head = snd.q_head /\ snd'.q_count = snd.q_count /\ snd'.remaining = dx
          /\ pc = "start_remaining" /\ pc' = "start_active" /\ UNCHANGED <<queue, dx>>
      BY <1>0, <1>3, Fields DEF StartRemaining, SndVars, Goto, regs
    <2>2. Waiting' = Waiting
      BY <2>1 DEF Waiting
    <2>3. Queued' = Queued
      BY <2>1, <2>2, SameQueue
    <2> QED
      BY <2>1, <2>3 DEF Left
  <1>4. CASE ResetStore \/ Launch \/ EmptyActive \/ EmptyRemaining \/ EmptySlice
    <2>1. /\ snd.active = 0 /\ snd.q_count = 0 /\ snd.remaining = 0
          /\ pc \notin {"start_count", "start_remaining"}
          /\ pc' \notin {"start_count", "start_remaining"}
      BY <1>0, <1>4 DEF ResetStore, Launch, EmptyActive, EmptyRemaining, EmptySlice, Goto,
                        ActiveWhile, OneWaiting, LeftOK, InStart, Emptying, InAccept, Accepting,
                        InArm, Started, ArmStores
    <2>2. snd'.q_count = 0 /\ snd'.remaining = 0
      BY <1>0, <1>4, <2>1 DEF ResetStore, Launch, Silent, EmptyActive, EmptyRemaining, EmptySlice,
                              SndVars
    <2>3. Waiting = 0 /\ Waiting' = 0
      <3>1. pc # "start_count" /\ pc' # "start_count"
        BY <2>1
      <3>2. Waiting = 0 - 0
        BY <2>1, <3>1 DEF Waiting
      <3>3. Waiting' = 0 - 0
        BY <2>2, <3>1 DEF Waiting
      <3> QED
        BY <3>2, <3>3
    <2>4. Queued' = Queued
      BY <2>3, SameQueue
    <2> QED
      BY <2>1, <2>2, <2>4 DEF Left
  <1>5. CASE StartActive \/ ArmSlice \/ ArmFrac \/ WaitSlice \/ F9Waiting
    <2>1. /\ snd'.q_head = snd.q_head /\ snd'.q_count = snd.q_count
          /\ snd'.remaining = snd.remaining /\ UNCHANGED <<queue, dx>>
      BY <1>0, <1>5 DEF StartActive, ArmSlice, ArmFrac, WaitSlice, F9Waiting, SndVars, regs
    <2>2. UNCHANGED pc \/ {pc, pc'} \cap {"start_count", "start_remaining"} = {}
      BY <1>5 DEF StartActive, ArmSlice, ArmFrac, WaitSlice, F9Waiting, Goto
    <2>3. Waiting' = Waiting /\ Left' = Left
      BY <2>1, <2>2 DEF Waiting, Left
    <2> QED
      BY <2>1, <2>3, SameQueue
  <1>6. CASE UNCHANGED <<snd, queue>> /\ (UNCHANGED <<pc, dx>>
                  \/ {pc, pc'} \cap {"start_count", "start_remaining"} = {})
    <2>1. Waiting' = Waiting /\ Left' = Left
      BY <1>6 DEF Waiting, Left
    <2> QED
      BY <1>6, <2>1, SameQueue
  <1> QED
    <2>1. CleanCall \/ Poll \/ MusicInstall \/ EnqueueFull \/ EnqueueActive \/ StartNext
          \/ StartRead \/ StartHead \/ StartSpeaker \/ ArmNext \/ ArmUnits \/ ArmWake
          \/ ArmUnmask \/ ArmCount \/ SpeakerStop \/ MusicRestore \/ ResetRestore \/ NoteStart
          \/ WaitNext \/ WaitSpin \/ PowerRestore
            => UNCHANGED <<snd, queue>> /\ {pc, pc'} \cap {"start_count", "start_remaining"} = {}
      BY DEF CleanCall, DONOTE, Poll, PollEnter, PollSleep, PollNoKey, PollKey, MusicInstall,
             EnqueueFull, EnqueueActive, StartNext, StartRead, StartHead, StartSpeaker, ArmNext,
             ArmUnits, ArmWake, ArmUnmask, ArmCount, SpeakerStop, MusicRestore, ResetRestore,
             NoteStart, WaitNext, WaitSpin, PowerRestore, Goto, Return
    <2>2. RomF9 \/ F9Quiet \/ TimerExpires => UNCHANGED <<snd, queue, pc, dx>>
      BY DEF RomF9, F9Quiet, TimerExpires, regs
    <2> QED
      BY <1>1, <1>2, <1>3, <1>4, <1>5, <1>6, <2>1, <2>2
         DEF CleanNext, Step, StartSteps, ArmSteps, Interrupt

\* Every step of the driver is a step of the note queue or changes nothing it shows.
LEMMA NoteQueueStep ==
  CleanInv /\ [CleanNext]_vars => [NoteQueueSpec!Next]_(NoteQueueSpec!vars)
  <1> SUFFICES ASSUME CleanInv, [CleanNext]_vars
               PROVE  NoteQueueSpec!Next \/ UNCHANGED <<Queued, Left>>
    BY DEF NoteQueueSpec!vars
  <1>1. CASE EnqueueCount
    BY <1>1, AcceptStep DEF NoteQueueSpec!Next
  <1>2. CASE StartAdvance
    BY <1>2, StartStep DEF NoteQueueSpec!Next
  <1>3. CASE F9Slice \/ F9Note \/ F9Empty
    BY <1>3, TickSteps DEF NoteQueueSpec!Next
  <1>4. CASE CleanNext /\ ~EnqueueCount /\ ~StartAdvance /\ ~F9Slice /\ ~F9Note /\ ~F9Empty
    BY <1>4, StutterSteps
  <1>5. CASE UNCHANGED vars
    BY <1>5 DEF vars, Queued, Left
  <1> QED
    BY <1>1, <1>2, <1>3, <1>4, <1>5

\* The driver implements the bounded queue: DONOTE loses no note it accepts, plays
\* them in the order of the PLAY and SOUND statements, each once, and a tick neither
\* cuts a note short nor lets it run on, whatever the ticks and calls interleave.
THEOREM PlaysTheQueue == CleanSpec => ImplementsNoteQueue
  <1>1. Init => NoteQueueSpec!Init
    <2> SUFFICES ASSUME Init PROVE Queued = <<>> /\ Left = 0
      BY DEF NoteQueueSpec!Init
    <2>1. CleanInv /\ pc = "idle" /\ snd.q_count = 0 /\ snd.remaining = 0
      BY CleanInvInit DEF Init, Silent, SndVars
    <2>2. Waiting = 0 /\ Left = 0
      BY <2>1 DEF Waiting, Left
    <2> QED
      BY <2>1, <2>2, QueuedIs, EmptySeq
  <1>2. CleanInv /\ [CleanNext]_vars => [NoteQueueSpec!Next]_(NoteQueueSpec!vars)
    BY NoteQueueStep
  <1> QED
    BY <1>1, <1>2, CleanInductive, PTL DEF CleanSpec, ImplementsNoteQueue, NoteQueueSpec!Spec
==============================================================================
