-------------------------------- MODULE Sound --------------------------------
(***************************************************************************)
(* The sound driver of DW-BASIC (dw-basic/src/gw/dwstubs.asm): the DONOTE  *)
(* primitive that PLAY, SOUND and BEEP call, the 32-entry background note  *)
(* queue, and the F9 one-shot timer interrupt that ends slices and notes.  *)
(*                                                                         *)
(* Two actors share the dw_snd_* bytes without a lock.  The foreground     *)
(* runs DONOTE with interrupts enabled, so each of its accesses to a       *)
(* shared byte is an action of its own; the routines it brackets with      *)
(* pushf/cli ... popf are one action.  The F9 handler runs with interrupts *)
(* disabled, so it is one action, whatever it calls.                       *)
(*                                                                         *)
(* The timer is shared with the ROM: an INT 21h AH=0B status poll leaves   *)
(* it armed when it returns, so a tick may be in flight when DONOTE is     *)
(* entered.  A power-off is an FF interrupt that powers down, and a warm   *)
(* start that rebuilds the ROM vectors and runs dw_power_resume.           *)
(***************************************************************************)
EXTENDS Integers

CONSTANTS
  QueueLen,    \* DW_SND_QUEUE_LEN, 32 in the program
  MaxSlice,    \* DW_SND_MAX_SLICE, 40 in the program
  CountMod,    \* the range of the byte dw_snd_q_count, 256 in the program
  Durations,   \* the values of DX that PLAY and SOUND pass to DONOTE
  MaxPresses   \* bound: how often the user presses the power key

ASSUME SoundAssumption ==
  /\ QueueLen \in Nat \ {0}
  /\ CountMod \in Nat /\ QueueLen < CountMod
  /\ MaxSlice \in Nat \ {0} /\ 12 * MaxSlice + 4 < 5 * 256
  /\ Durations \subseteq Nat
  /\ MaxPresses \in Nat

VARIABLES
  pc,       \* the foreground instruction about to touch shared state
  mode,     \* which DONOTE (or SYSTEM) call is running
  cx, dx,   \* its note: is CX a tone (or a rest), and the duration in DX
  ax,       \* the accumulator, where a value is carried between two steps
  line,     \* the next store of dw_music_reset
  snd,      \* the dw_snd_* bytes and words
  queue,    \* dw_snd_queue
  speaker,  \* the gate at port 52: TRUE while a tone sounds
  timer,    \* the one-shot behind port 53 is running
  irq,      \* F9 is latched in the interrupt controller
  masked,   \* bit 02 of [6D4F] and port 60: F9 is held back
  wake,     \* bit 01 of [6DA9]: the ROM waits for a tick
  f9, ff,   \* the two interrupt vectors and their dw_xx_old, dw_xx_installed
  presses   \* power-offs so far

regs    == <<cx, dx, ax, line>>
timerHw == <<timer, irq, masked, wake>>
vectors == <<f9, ff>>
vars    == <<pc, mode, cx, dx, ax, line, snd, queue, speaker,
             timer, irq, masked, wake, f9, ff, presses>>

------------------------------------------------------------------------------
(* Data                                                                      *)

Modes == {"background", "foreground", "reset", "system", "systme"}

Slots == 0 .. QueueLen - 1

Notes == [tone : BOOLEAN, dur : Nat]

\* The stores of dw_music_reset, in the order the code makes them.
ResetOrder == <<"q_head", "q_tail", "q_count", "active",
                "count_frac", "waiting", "remaining", "slice">>

SndVars == {"q_head", "q_tail", "q_count", "active",
            "count_frac", "waiting", "remaining", "slice"}

Silent == [v \in SndVars |-> 0]

\* Mutant of Slot: the index wraps one entry late.
SlotWrapsLate(i) == i % (QueueLen + 1)

Slot(i) == i % QueueLen

SliceOf(units) == IF units <= MaxSlice THEN units ELSE MaxSlice

\* dw_music_units_to_timer_count: 12/5 timer counts a unit, the fifths carried.
Fifths(units, frac) == 12 * units + frac
CountOf(fifths)     == IF fifths \div 5 = 0 THEN 1 ELSE fifths \div 5

\* dw_music_units_to_timer_count_fixed: rounded up instead.
FixedCount(units) == CountOf(12 * units + 4)

\* DWSND_ACTIVE
DWSND_ACTIVE == snd.active # 0 \/ snd.q_count # 0 \/ snd.waiting # 0

RomVector == [vector |-> "rom", old |-> "none", installed |-> FALSE]

\* Mutant of Install: the saved vector is overwritten by a second install.
InstallAlways(v) == [vector |-> "dw", old |-> v.vector, installed |-> TRUE]

Install(v) == IF v.installed THEN v
              ELSE [vector |-> "dw", old |-> v.vector, installed |-> TRUE]

Restore(v) == IF v.installed
              THEN [vector |-> v.old, old |-> v.old, installed |-> FALSE]
              ELSE v

\* dw_power_install saves once but writes the vector every time.
InstallFF(v) == [Install(v) EXCEPT !.vector = "dw"]

------------------------------------------------------------------------------
(* DONOTE: entry, the background path and dw_music_enqueue                   *)

Goto(l) == pc' = l

Return == Goto("idle")

\* A background note of duration 0 returns at once and changes nothing.
DONOTE(m, tone, dur) ==
  /\ pc = "idle"
  /\ m = "background" => dur # 0
  /\ m \in {"reset", "system"} => ~tone /\ dur = 0
  /\ mode' = m /\ cx' = tone /\ dx' = dur /\ ax' = 0 /\ line' = 1
  /\ Goto(IF m = "background" THEN "install" ELSE "reset")
  /\ UNCHANGED <<snd, queue, speaker, timerHw, vectors, presses>>

\* dw_music_install, for the queue and for dw_music_wait
MusicInstall ==
  /\ pc = "install"
  /\ f9' = Install(f9)
  /\ Goto(IF mode = "background" THEN "enqueue" ELSE "wait_next")
  /\ UNCHANGED <<mode, regs, snd, queue, speaker, timerHw, ff, presses>>

EnqueueFull ==
  /\ pc = "enqueue"
  /\ snd.q_count >= QueueLen
  /\ Return
  /\ UNCHANGED <<mode, regs, snd, queue, speaker, timerHw, vectors, presses>>

\* Mutant of EnqueueStore: the comparison with the queue's length is off by one.
EnqueueStoreOverfills ==
  /\ pc = "enqueue"
  /\ snd.q_count <= QueueLen
  /\ queue' = [queue EXCEPT ![snd.q_tail] = [tone |-> cx, dur |-> dx]]
  /\ snd' = [snd EXCEPT !.q_tail = Slot(snd.q_tail + 1)]
  /\ Goto("enqueue_count")
  /\ UNCHANGED <<mode, regs, speaker, timerHw, vectors, presses>>

\* The ISR never reads the entry at q_tail nor q_tail: one step.
EnqueueStore ==
  /\ pc = "enqueue"
  /\ snd.q_count < QueueLen
  /\ queue' = [queue EXCEPT ![snd.q_tail] = [tone |-> cx, dur |-> dx]]
  /\ snd' = [snd EXCEPT !.q_tail = Slot(snd.q_tail + 1)]
  /\ Goto("enqueue_count")
  /\ UNCHANGED <<mode, regs, speaker, timerHw, vectors, presses>>

EnqueueCount ==
  /\ pc = "enqueue_count"
  /\ snd' = [snd EXCEPT !.q_count = (@ + 1) % CountMod]
  /\ Goto("enqueue_active")
  /\ UNCHANGED <<mode, regs, queue, speaker, timerHw, vectors, presses>>

EnqueueActive ==
  /\ pc = "enqueue_active"
  /\ IF snd.active # 0 THEN Return ELSE Goto("start_next")
  /\ UNCHANGED <<mode, regs, snd, queue, speaker, timerHw, vectors, presses>>

------------------------------------------------------------------------------
(* dw_music_start_next, run by the foreground                                *)

StartNext ==
  /\ pc = "start_next"
  /\ Goto(IF snd.q_count = 0 THEN "empty_active" ELSE "start_read")
  /\ UNCHANGED <<mode, regs, snd, queue, speaker, timerHw, vectors, presses>>

StartRead ==
  /\ pc = "start_read"
  /\ cx' = queue[snd.q_head].tone /\ dx' = queue[snd.q_head].dur
  /\ Goto("start_head")
  /\ UNCHANGED <<mode, ax, line, snd, queue, speaker, timerHw, vectors, presses>>

StartHead ==
  /\ pc = "start_head"
  /\ ax' = Slot(snd.q_head + 1)
  /\ Goto("start_advance")
  /\ UNCHANGED <<mode, cx, dx, line, snd, queue, speaker, timerHw, vectors, presses>>

StartAdvance ==
  /\ pc = "start_advance"
  /\ snd' = [snd EXCEPT !.q_head = ax]
  /\ Goto("start_count")
  /\ UNCHANGED <<mode, regs, queue, speaker, timerHw, vectors, presses>>

\* The entry is consumed; one of duration 0 is skipped.
StartCount ==
  /\ pc = "start_count"
  /\ snd' = [snd EXCEPT !.q_count = (@ + CountMod - 1) % CountMod]
  /\ Goto(IF dx = 0 THEN "start_next" ELSE "start_remaining")
  /\ UNCHANGED <<mode, regs, queue, speaker, timerHw, vectors, presses>>

StartRemaining ==
  /\ pc = "start_remaining"
  /\ snd' = [snd EXCEPT !.remaining = dx]
  /\ Goto("start_active")
  /\ UNCHANGED <<mode, regs, queue, speaker, timerHw, vectors, presses>>

StartActive ==
  /\ pc = "start_active"
  /\ snd' = [snd EXCEPT !.active = 1]
  /\ Goto("start_speaker")
  /\ UNCHANGED <<mode, regs, queue, speaker, timerHw, vectors, presses>>

StartSpeaker ==
  /\ pc = "start_speaker"
  /\ speaker' = cx
  /\ Goto("arm_next")
  /\ UNCHANGED <<mode, regs, snd, queue, timerHw, vectors, presses>>

EmptyActive ==
  /\ pc = "empty_active"
  /\ snd' = [snd EXCEPT !.active = 0]
  /\ Goto("empty_remaining")
  /\ UNCHANGED <<mode, regs, queue, speaker, timerHw, vectors, presses>>

EmptyRemaining ==
  /\ pc = "empty_remaining"
  /\ snd' = [snd EXCEPT !.remaining = 0]
  /\ Goto("empty_slice")
  /\ UNCHANGED <<mode, regs, queue, speaker, timerHw, vectors, presses>>

EmptySlice ==
  /\ pc = "empty_slice"
  /\ snd' = [snd EXCEPT !.slice = 0]
  /\ Goto("empty_stop")
  /\ UNCHANGED <<mode, regs, queue, speaker, timerHw, vectors, presses>>

------------------------------------------------------------------------------
(* dw_music_arm_next and dw_timer_arm_count, run by the foreground           *)

ArmNext ==
  /\ pc = "arm_next"
  /\ ax' = SliceOf(snd.remaining)
  /\ IF snd.remaining = 0 THEN Return ELSE Goto("arm_slice")
  /\ UNCHANGED <<mode, cx, dx, line, snd, queue, speaker, timerHw, vectors, presses>>

ArmSlice ==
  /\ pc = "arm_slice"
  /\ snd' = [snd EXCEPT !.slice = ax]
  /\ Goto("arm_units")
  /\ UNCHANGED <<mode, regs, queue, speaker, timerHw, vectors, presses>>

ArmUnits ==
  /\ pc = "arm_units"
  /\ ax' = Fifths(ax, snd.count_frac)
  /\ Goto("arm_frac")
  /\ UNCHANGED <<mode, cx, dx, line, snd, queue, speaker, timerHw, vectors, presses>>

ArmFrac ==
  /\ pc = "arm_frac"
  /\ snd' = [snd EXCEPT !.count_frac = ax % 5]
  /\ ax' = CountOf(ax)
  /\ Goto("arm_wake")
  /\ UNCHANGED <<mode, cx, dx, line, queue, speaker, timerHw, vectors, presses>>

ArmWake ==
  /\ pc = "arm_wake"
  /\ wake' = TRUE
  /\ Goto("arm_unmask")
  /\ UNCHANGED <<mode, regs, snd, queue, speaker, timer, irq, masked, vectors, presses>>

\* Mutant of ArmUnmask: the timer is armed without unmasking F9.
ArmLeavesMask ==
  /\ pc = "arm_unmask"
  /\ Goto("arm_count")
  /\ UNCHANGED <<mode, regs, snd, queue, speaker, timerHw, vectors, presses>>

ArmUnmask ==
  /\ pc = "arm_unmask"
  /\ masked' = FALSE
  /\ Goto("arm_count")
  /\ UNCHANGED <<mode, regs, snd, queue, speaker, timer, irq, wake, vectors, presses>>

\* A count of 0 stops the one-shot; any other restarts it.
ArmCount ==
  /\ pc = "arm_count"
  /\ timer' = (ax % 256 # 0)
  /\ Goto(IF mode = "foreground" THEN "spin" ELSE "idle")
  /\ UNCHANGED <<mode, regs, snd, queue, speaker, irq, masked, wake, vectors, presses>>

------------------------------------------------------------------------------
(* dw_music_reset, the foreground note and dw_music_wait                     *)

ResetStore ==
  /\ pc = "reset"
  /\ snd' = [snd EXCEPT ![ResetOrder[line]] = 0]
  /\ IF line < 8 THEN line' = line + 1 /\ UNCHANGED pc
                 ELSE line' = 1 /\ Goto("reset_stop")
  /\ UNCHANGED <<mode, cx, dx, ax, queue, speaker, timerHw, vectors, presses>>

\* dw_speaker_stop, at the end of a reset, of the queue and of a note
SpeakerStop ==
  /\ pc \in {"reset_stop", "empty_stop", "note_stop"}
  /\ speaker' = FALSE
  /\ Goto(CASE pc = "reset_stop" -> "reset_restore"
            [] pc = "empty_stop" -> "empty_restore"
            [] pc = "note_stop"  -> "note_restore")
  /\ UNCHANGED <<mode, regs, snd, queue, timerHw, vectors, presses>>

\* dw_music_restore at the end of the queue and of a foreground note
MusicRestore ==
  /\ pc \in {"empty_restore", "note_restore"}
  /\ f9' = Restore(f9)
  /\ Return
  /\ UNCHANGED <<mode, regs, snd, queue, speaker, timerHw, ff, presses>>

\* The dw_music_restore that ends dw_music_reset, and what its caller does next
ResetRestore ==
  /\ pc = "reset_restore"
  /\ f9' = Restore(f9)
  /\ CASE mode = "system" -> mode' = "systme" /\ Goto("reset")
       [] mode = "systme" -> Goto("power_restore") /\ UNCHANGED mode
       [] mode = "foreground" /\ dx # 0 -> Goto("note_start") /\ UNCHANGED mode
       [] OTHER -> Return /\ UNCHANGED mode
  /\ UNCHANGED <<regs, snd, queue, speaker, timerHw, ff, presses>>

\* dw_speaker_start for a tone, dw_speaker_stop for a rest
NoteStart ==
  /\ pc = "note_start"
  /\ speaker' = cx
  /\ Goto("install")
  /\ UNCHANGED <<mode, regs, snd, queue, timerHw, vectors, presses>>

\* Mutant of WaitNext: the slice is not taken off the duration.
WaitNextForgetsSlice ==
  /\ pc = "wait_next"
  /\ ax' = FixedCount(SliceOf(dx))
  /\ Goto(IF dx # 0 THEN "wait_slice" ELSE IF cx THEN "note_stop" ELSE "note_restore")
  /\ UNCHANGED <<mode, cx, dx, line, snd, queue, speaker, timerHw, vectors, presses>>

\* .next: a tone ends with dw_speaker_stop, a rest does not call it again.
WaitNext ==
  /\ pc = "wait_next"
  /\ dx' = dx - SliceOf(dx)
  /\ ax' = FixedCount(SliceOf(dx))
  /\ Goto(IF dx # 0 THEN "wait_slice" ELSE IF cx THEN "note_stop" ELSE "note_restore")
  /\ UNCHANGED <<mode, cx, line, snd, queue, speaker, timerHw, vectors, presses>>

WaitSlice ==
  /\ pc = "wait_slice"
  /\ snd' = [snd EXCEPT !.waiting = 1]
  /\ Goto("arm_wake")
  /\ UNCHANGED <<mode, regs, queue, speaker, timerHw, vectors, presses>>

WaitSpin ==
  /\ pc = "spin"
  /\ snd.waiting = 0
  /\ Goto("wait_next")
  /\ UNCHANGED <<mode, regs, snd, queue, speaker, timerHw, vectors, presses>>

------------------------------------------------------------------------------
(* The F9 interrupt                                                          *)

TimerExpires ==
  /\ timer
  /\ timer' = FALSE /\ irq' = TRUE
  /\ UNCHANGED <<pc, mode, regs, snd, queue, speaker, masked, wake, vectors, presses>>

F9Taken(handler) == irq /\ ~masked /\ f9.vector = handler

\* The ROM handler: acknowledge, and end the ROM's own wait.
RomF9 ==
  /\ F9Taken("rom")
  /\ irq' = FALSE /\ wake' = FALSE
  /\ UNCHANGED <<pc, mode, regs, snd, queue, speaker, timer, masked, vectors, presses>>

\* dw_music_f9_isr while dw_music_wait is waiting
F9Waiting ==
  /\ F9Taken("dw")
  /\ snd.waiting # 0
  /\ snd' = [snd EXCEPT !.waiting = 0]
  /\ irq' = FALSE /\ wake' = FALSE
  /\ UNCHANGED <<pc, mode, regs, queue, speaker, timer, masked, vectors, presses>>

\* Mutant of F9Quiet: the ROM's wait bit is cleared only when a note is active.
F9QuietKeepsWake ==
  /\ F9Taken("dw")
  /\ ~DWSND_ACTIVE
  /\ irq' = FALSE
  /\ UNCHANGED <<pc, mode, regs, snd, queue, speaker, timer, masked, wake, vectors, presses>>

\* dw_music_tick with nothing playing and nothing queued
F9Quiet ==
  /\ F9Taken("dw")
  /\ ~DWSND_ACTIVE
  /\ irq' = FALSE /\ wake' = FALSE
  /\ UNCHANGED <<pc, mode, regs, snd, queue, speaker, timer, masked, vectors, presses>>

\* dw_music_arm_next inside the handler
IsrArm(s) ==
  LET fifths == Fifths(SliceOf(s.remaining), s.count_frac)
  IN /\ snd' = [s EXCEPT !.slice = SliceOf(s.remaining), !.count_frac = fifths % 5]
     /\ timer' = (CountOf(fifths) % 256 # 0)
     /\ irq' = FALSE /\ wake' = TRUE /\ masked' = FALSE

\* Mutant of NoteEnds: jae for ja, a note of n slices takes one more tick.
NoteEndsLate == snd.slice = 0 \/ snd.remaining < snd.slice

NoteEnds == snd.slice = 0 \/ snd.remaining <= snd.slice

\* dw_music_tick in the middle of a note: the next slice
F9Slice ==
  /\ F9Taken("dw")
  /\ snd.waiting = 0 /\ snd.active # 0 /\ ~NoteEnds
  /\ IsrArm([snd EXCEPT !.remaining = @ - snd.slice])
  /\ UNCHANGED <<pc, mode, regs, queue, speaker, vectors, presses>>

\* dw_music_tick calls dw_music_start_next.
F9Advances ==
  /\ F9Taken("dw")
  /\ snd.waiting = 0
  /\ IF snd.active # 0 THEN NoteEnds ELSE snd.q_count # 0

\* The first k entries have duration 0: dw_music_start_next skips them.
SkipsTo(k) == \A j \in 0 .. k - 1 : queue[Slot(snd.q_head + j)].dur = 0

F9Note ==
  /\ F9Advances
  /\ \E k \in 0 .. snd.q_count - 1 :
       LET note == queue[Slot(snd.q_head + k)]
       IN /\ SkipsTo(k) /\ note.dur # 0
          /\ IsrArm([snd EXCEPT !.q_head = Slot(snd.q_head + k + 1),
                                !.q_count = @ - (k + 1),
                                !.remaining = note.dur, !.active = 1])
          /\ speaker' = note.tone
  /\ UNCHANGED <<pc, mode, regs, queue, vectors, presses>>

\* Mutant of F9Empty: the speaker is left on when the queue runs out.
F9EmptyLeavesTone ==
  /\ F9Advances
  /\ SkipsTo(snd.q_count)
  /\ snd' = [snd EXCEPT !.q_head = Slot(snd.q_head + snd.q_count), !.q_count = 0,
                        !.active = 0, !.remaining = 0, !.slice = 0]
  /\ f9' = Restore(f9)
  /\ irq' = FALSE /\ wake' = FALSE
  /\ UNCHANGED <<pc, mode, regs, queue, speaker, timer, masked, ff, presses>>

F9Empty ==
  /\ F9Advances
  /\ SkipsTo(snd.q_count)
  /\ snd' = [snd EXCEPT !.q_head = Slot(snd.q_head + snd.q_count), !.q_count = 0,
                        !.active = 0, !.remaining = 0, !.slice = 0]
  /\ speaker' = FALSE
  /\ f9' = Restore(f9)
  /\ irq' = FALSE /\ wake' = FALSE
  /\ UNCHANGED <<pc, mode, regs, queue, timer, masked, ff, presses>>

------------------------------------------------------------------------------
(* The firmware status poll (INT 21h AH=0B), which KEYINP calls between      *)
(* statements while no sound is active: it sleeps through one short tick and *)
(* returns with a long one armed.                                            *)

PollEnter ==
  /\ pc = "idle"
  /\ ~DWSND_ACTIVE
  /\ Goto("poll")
  /\ UNCHANGED <<mode, regs, snd, queue, speaker, timerHw, vectors, presses>>

PollSleep ==
  /\ pc = "poll"
  /\ ~wake
  /\ wake' = TRUE /\ masked' = FALSE /\ timer' = TRUE
  /\ Goto("poll_sleep")
  /\ UNCHANGED <<mode, regs, snd, queue, speaker, irq, vectors, presses>>

PollNoKey ==
  /\ pc = "poll_sleep"
  /\ ~wake
  /\ wake' = TRUE /\ masked' = FALSE /\ timer' = TRUE
  /\ Return
  /\ UNCHANGED <<mode, regs, snd, queue, speaker, irq, vectors, presses>>

\* A key ends the poll, which disarms the timer on the way out if it slept.
PollKey ==
  /\ \/ pc = "poll" /\ UNCHANGED <<wake, masked>>
     \/ pc = "poll_sleep" /\ wake' = FALSE /\ masked' = TRUE
  /\ Return
  /\ UNCHANGED <<mode, regs, snd, queue, speaker, timer, irq, vectors, presses>>

------------------------------------------------------------------------------
(* Leaving BASIC, starting it again, and the power key                       *)

\* SYSTME: dw_power_restore and the jump to the loader's exit thunk
PowerRestore ==
  /\ pc = "power_restore"
  /\ ff' = Restore(ff)
  /\ Goto("exited")
  /\ UNCHANGED <<mode, regs, snd, queue, speaker, timerHw, f9, presses>>

\* The loader reads a fresh image; GWINI installs FF, then INIT calls SNDRST.
Launch ==
  /\ pc = "exited"
  /\ snd' = Silent
  /\ queue' = [i \in Slots |-> [tone |-> FALSE, dur |-> 0]]
  /\ f9' = [RomVector EXCEPT !.vector = f9.vector]
  /\ ff' = InstallFF([RomVector EXCEPT !.vector = ff.vector])
  /\ mode' = "reset" /\ line' = 1
  /\ Goto("reset")
  /\ UNCHANGED <<cx, dx, ax, speaker, timerHw, presses>>

\* dw_power_ff_isr powers down; the warm start rebuilds the ROM vectors and
\* dw_power_resume puts back FF and the interrupted instruction.
PowerCycle ==
  /\ presses < MaxPresses
  /\ ff.vector = "dw"
  /\ presses' = presses + 1
  /\ speaker' = FALSE
  /\ timer' = FALSE /\ irq' = FALSE /\ masked' = TRUE /\ wake' = FALSE
  /\ f9' = [f9 EXCEPT !.vector = "rom"]
  /\ ff' = InstallFF([ff EXCEPT !.vector = "rom"])
  /\ UNCHANGED <<pc, mode, regs, snd, queue>>

------------------------------------------------------------------------------
Init ==
  /\ pc = "idle" /\ mode = "reset"
  /\ cx = FALSE /\ dx = 0 /\ ax = 0 /\ line = 1
  /\ snd = Silent
  /\ queue = [i \in Slots |-> [tone |-> FALSE, dur |-> 0]]
  /\ speaker = FALSE
  /\ timer = FALSE /\ irq = FALSE /\ masked = TRUE /\ wake = FALSE
  /\ f9 = RomVector
  /\ ff = InstallFF(RomVector)
  /\ presses = 0

Call == \E m \in {"background", "foreground", "reset", "system"}, tone \in BOOLEAN,
           dur \in Durations \cup {0} : DONOTE(m, tone, dur)

StartSteps == StartNext \/ StartRead \/ StartHead \/ StartAdvance \/ StartCount
              \/ StartRemaining \/ StartActive \/ StartSpeaker
              \/ EmptyActive \/ EmptyRemaining \/ EmptySlice

ArmSteps == ArmNext \/ ArmSlice \/ ArmUnits \/ ArmFrac
            \/ ArmWake \/ ArmUnmask \/ ArmCount

\* The foreground inside DONOTE and SYSTEM
Step ==
  \/ MusicInstall \/ EnqueueFull \/ EnqueueStore \/ EnqueueCount \/ EnqueueActive
  \/ StartSteps \/ ArmSteps
  \/ ResetStore \/ SpeakerStop \/ MusicRestore \/ ResetRestore
  \/ NoteStart \/ WaitNext \/ WaitSlice \/ WaitSpin
  \/ PowerRestore

Poll == PollEnter \/ PollSleep \/ PollNoKey \/ PollKey

Interrupt == RomF9 \/ F9Waiting \/ F9Quiet \/ F9Slice \/ F9Note \/ F9Empty

Next == Call \/ Step \/ Poll \/ Interrupt \/ TimerExpires \/ Launch \/ PowerCycle

Spec == Init /\ [][Next]_vars

\* The processor runs, takes the interrupts it is given, and the timer expires.
Fairness ==
  /\ WF_vars(Step) /\ WF_vars(PollSleep \/ PollNoKey)
  /\ WF_vars(Interrupt) /\ WF_vars(TimerExpires)

FairSpec == Spec /\ Fairness

\* Programs that start a note, or reset the queue, only while no other tick is in
\* flight, and that add to the queue freely while it plays; the power stays on.
Undisturbed(m) == IF snd.active # 0 THEN m = "background"
                  ELSE snd.q_count = 0 /\ ~timer /\ ~irq

CleanCall == \E m \in {"background", "foreground", "reset", "system"}, tone \in BOOLEAN,
                dur \in Durations \cup {0} : Undisturbed(m) /\ DONOTE(m, tone, dur)

CleanNext == CleanCall \/ Step \/ Poll \/ Interrupt \/ TimerExpires \/ Launch

CleanSpec == Init /\ [][CleanNext]_vars

------------------------------------------------------------------------------
(* Properties of every program                                               *)

Labels == {"idle", "install", "enqueue", "enqueue_count", "enqueue_active",
           "start_next", "start_read", "start_head", "start_advance", "start_count",
           "start_remaining", "start_active", "start_speaker",
           "empty_active", "empty_remaining", "empty_slice", "empty_stop", "empty_restore",
           "arm_next", "arm_slice", "arm_units", "arm_frac",
           "arm_wake", "arm_unmask", "arm_count",
           "reset", "reset_stop", "reset_restore",
           "note_start", "note_stop", "note_restore", "wait_next", "wait_slice", "spin",
           "poll", "poll_sleep", "power_restore", "exited"}

Vectors == [vector : {"rom", "dw"}, old : {"none", "rom", "dw"}, installed : BOOLEAN]

ControlType ==
  /\ pc \in Labels /\ mode \in Modes
  /\ cx \in BOOLEAN /\ dx \in Nat /\ ax \in Nat /\ line \in 1 .. 8

BytesType(s) ==
  /\ s \in [SndVars -> Nat]
  /\ s.q_head \in Slots /\ s.q_tail \in Slots
  /\ s.q_count \in 0 .. CountMod - 1 /\ s.count_frac \in 0 .. 4

DeviceType ==
  /\ speaker \in BOOLEAN /\ timer \in BOOLEAN /\ irq \in BOOLEAN
  /\ masked \in BOOLEAN /\ wake \in BOOLEAN
  /\ f9 \in Vectors /\ ff \in Vectors
  /\ presses \in 0 .. MaxPresses

TypeOK ==
  /\ ControlType /\ BytesType(snd) /\ queue \in [Slots -> Notes] /\ DeviceType

Returnable(v) == IF v.installed THEN v.old = "rom" ELSE v.vector = "rom"

\* However notes, resets, ticks, power-offs, exits and relaunches interleave, what
\* dw_music_restore and dw_power_restore put back is the ROM's own handler, and
\* once SYSTEM has returned to the loader no vector points into BASIC's memory.
VectorsHandedBack ==
  /\ Returnable(f9) /\ Returnable(ff)
  /\ pc = "exited" => f9.vector = "rom" /\ ff.vector = "rom"

\* While dw_music_wait spins on dw_snd_waiting, the tick that will clear it is on
\* its way to DW-BASIC's own handler: whatever ticks were in flight when DONOTE
\* was entered, whatever a firmware poll did to the mask, for every duration.
SpinEnds ==
  presses = 0 /\ pc = "spin" /\ snd.waiting # 0
    => f9.vector = "dw" /\ ~masked /\ (timer \/ irq)

\* The firmware poll sleeps until [6DA9] bit 01 is clear.  Whoever armed the timer
\* last, a tick that will clear it is coming and is not masked, except in the
\* two steps of dw_timer_arm_count that are about to start it.
WakeHasTick ==
  wake => \/ ~masked /\ (timer \/ irq)
          \/ pc = "arm_unmask"
          \/ pc = "arm_count" /\ ~masked

\* A foreground note, a reset, SYSTEM and a firmware poll all return, whatever
\* ticks are in flight.  (A background DONOTE is left out: ticks that keep pace with
\* its instructions one for one could hold it in start_next for ever, and nothing
\* in the model says how slow the timer is.)
Blocked == pc \notin {"idle", "exited"}
           /\ (mode = "background" => pc \in {"poll", "poll_sleep"})

ForegroundReturns == Blocked ~> ~Blocked

\* They do if the power stays on.
ReturnsWhilePowered == [](presses = 0) => ForegroundReturns

------------------------------------------------------------------------------
(* The inductive invariant behind these properties                           *)

\* The accumulator holds what the next step expects of it.
AccumulatorOK ==
  /\ pc = "start_advance" => ax \in Slots
  /\ pc \in {"arm_slice", "arm_units"} => ax \in 0 .. MaxSlice
  /\ pc = "arm_frac" => ax <= 12 * MaxSlice + 4
  /\ pc \in {"wait_slice", "arm_wake", "arm_unmask", "arm_count"} => ax \in 1 .. 255

\* The part of a foreground note that begins when its reset is over
NoteSteps == {"note_start", "wait_next", "wait_slice", "spin", "note_stop", "note_restore"}
ArmStores == {"arm_wake", "arm_unmask", "arm_count"}
InNote    == pc \in NoteSteps \/ (mode = "foreground" /\ pc \in ArmStores \cup {"install"})

\* Only the background path runs dw_music_enqueue, dw_music_start_next and
\* dw_music_arm_next in the foreground; only a note or a start writes the timer.
ModeOK ==
  /\ pc \in {"install"} \cup ArmStores => mode \in {"background", "foreground"}
  /\ pc \in {"enqueue", "enqueue_count", "enqueue_active",
             "start_next", "start_read", "start_head", "start_advance", "start_count",
             "start_remaining", "start_active", "start_speaker",
             "empty_active", "empty_remaining", "empty_slice", "empty_stop",
             "empty_restore", "arm_next", "arm_slice", "arm_units", "arm_frac"}
       => mode = "background"
  /\ pc \in NoteSteps => mode = "foreground"

\* A reset leaves nothing for a tick to start or to end, from its third and fourth
\* store to the end of the note: no tick uninstalls the handler under the note.
NothingToPlay ==
  /\ InNote \/ pc \in {"reset_stop", "reset_restore"} \/ (pc = "reset" /\ line > 3)
       => snd.q_count = 0
  /\ InNote \/ pc \in {"reset_stop", "reset_restore"} \/ (pc = "reset" /\ line > 4)
       => snd.active = 0

NoteOwnsF9 ==
  /\ InNote /\ pc \notin {"note_start", "install"} => f9.installed
  /\ presses = 0 /\ f9.installed => f9.vector = "dw"

Unmasked ==
  mode = "foreground" /\ pc = "arm_count" /\ presses = 0 => ~masked

HandedBack ==
  /\ pc \in {"power_restore", "exited"} => ~f9.installed
  /\ pc = "exited" => ~ff.installed

SoundInv == /\ TypeOK /\ AccumulatorOK /\ ModeOK /\ NothingToPlay
            /\ NoteOwnsF9 /\ Unmasked /\ HandedBack
            /\ VectorsHandedBack /\ SpinEnds /\ WakeHasTick

------------------------------------------------------------------------------
(* Properties of undisturbed programs (CleanSpec)                            *)

\* The number of entries between q_head and q_tail is q_count, also in the middle
\* of the two updates that are not atomic, and never more than the queue holds.
RingConsistent ==
  LET stored == IF pc = "enqueue_count" THEN 1 ELSE 0
      taken  == IF pc = "start_count" THEN 1 ELSE 0
      held   == snd.q_count + stored - taken
  IN pc # "reset" => held \in 0 .. QueueLen /\ Slot(snd.q_head + held) = snd.q_tail

\* A tone sounds between statements only while a queued note is playing.
ToneHasNote == pc = "idle" /\ speaker => snd.active # 0

\* The notes still queued, oldest first, and the units left of the one playing.
Queued == LET taken == IF pc = "start_count" THEN 1 ELSE 0
          IN [i \in 1 .. snd.q_count - taken |-> queue[Slot(snd.q_head + i - 1)]]

Left == IF pc \in {"start_count", "start_remaining"} THEN dx ELSE snd.remaining

NoteQueueSpec == INSTANCE NoteQueue WITH queued <- Queued, left <- Left

\* Accepted notes are played in order, each once, each for its whole duration.
ImplementsNoteQueue == NoteQueueSpec!Spec

==============================================================================
