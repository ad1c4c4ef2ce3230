-------------------------------- MODULE Power --------------------------------
(***************************************************************************)
(* Warm power resume (dw_power_ff_isr and dw_power_resume in               *)
(* dw-basic/src/gw/dwstubs.asm), one instruction at a time wherever        *)
(* interrupts are enabled.                                                 *)
(*                                                                         *)
(* The power key interrupts BASIC.  The handler stores the context of the  *)
(* interrupted code twice: its registers in the firmware's retained area   *)
(* at 0:6D65, with the trampoline dw_power_resume as the address to resume *)
(* at, and its CS:IP and SS:SP in variables of its own.  It then powers    *)
(* down.  At the next power-on the ROM rebuilds the interrupt vectors,     *)
(* restores the retained registers and jumps to the trampoline, which puts *)
(* the handler back and jumps to the saved CS:IP.                          *)
(*                                                                         *)
(* Sound's PowerCycle is this whole module in one step.                    *)
(***************************************************************************)
EXTENDS Naturals

CONSTANTS
  Words,      \* the values of a register that BASIC's code tells apart
  MaxPresses  \* bound: how often the user presses the power key

ASSUME PowerAssumption == Words # {} /\ MaxPresses \in Nat

VARIABLES
  at,        \* the next instruction
  ax, bx,    \* AX, which the trampoline uses, and BX for the others
  stack,     \* whose stack SS:SP points into
  ints,      \* the interrupt flag
  ff,        \* the handler in interrupt vector FF
  retained,  \* the retained context at 0:6D65, with its checksum
  resume,    \* dw_power_resume_ptr, _ss:_sp, _ax and _flags
  marker,    \* [6809], the firmware's startup and power marker
  presses,   \* how often the key was pressed
  basic      \* what was interrupted last in BASIC itself (history)

vars == <<at, ax, bx, stack, ints, ff, retained, resume, marker, presses, basic>>

\* dw_power_resume up to its cli, and from its popf on: the instructions that
\* run with interrupts enabled.  "body" stands for those between cli and popf.
Entry      == {"pushf", "pop_flags", "cli"}
Exit       == {"mov_ax", "jmp"}
Trampoline == Entry \cup {"body"} \cup Exit

\* The key is seen while the machine is on; once the built-in applications have
\* taken over, BASIC's session is gone and the model ends.
Running == at \notin {"off", "firmware"}

------------------------------------------------------------------------------
(* BASIC, and the key                                                        *)

\* BASIC computes, with interrupts enabled.
Compute ==
  /\ at = "basic"
  /\ ax' \in Words /\ bx' \in Words
  /\ UNCHANGED <<at, stack, ints, ff, retained, resume, marker, presses, basic>>

\* Mutant of PressDW: the handler keeps the stack but not the address.
PressForgetsAddress ==
  /\ ints /\ ff = "dw" /\ Running
  /\ presses < MaxPresses /\ presses' = presses + 1
  /\ retained' = [ax |-> ax, bx |-> bx, target |-> "pushf", sum |-> TRUE]
  /\ resume' = [resume EXCEPT !.stack = stack]
  /\ basic' = IF at = "basic" THEN [ax |-> ax, bx |-> bx] ELSE basic
  /\ at' = "off" /\ ints' = FALSE
  /\ UNCHANGED <<ax, bx, stack, ff, marker>>

\* Mutant of PressDW: the handler keeps the address but not the stack.
PressKeepsStack ==
  /\ ints /\ ff = "dw" /\ Running
  /\ presses < MaxPresses /\ presses' = presses + 1
  /\ retained' = [ax |-> ax, bx |-> bx, target |-> "pushf", sum |-> TRUE]
  /\ resume' = [resume EXCEPT !.at = at]
  /\ basic' = IF at = "basic" THEN [ax |-> ax, bx |-> bx] ELSE basic
  /\ at' = "off" /\ ints' = FALSE
  /\ UNCHANGED <<ax, bx, stack, ff, marker>>

\* dw_power_ff_isr: save, checksum, and power down through port 70.
PressDW ==
  /\ ints /\ ff = "dw" /\ Running
  /\ presses < MaxPresses /\ presses' = presses + 1
  /\ retained' = [ax |-> ax, bx |-> bx, target |-> "pushf", sum |-> TRUE]
  /\ resume' = [resume EXCEPT !.at = at, !.stack = stack]
  /\ basic' = IF at = "basic" THEN [ax |-> ax, bx |-> bx] ELSE basic
  /\ at' = "off" /\ ints' = FALSE
  /\ UNCHANGED <<ax, bx, stack, ff, marker>>

\* The ROM's own handler of FF: after startup it only leaves a mark; during
\* startup it retains an address of its own, without a checksum, and powers down.
PressRom ==
  /\ ints /\ ff = "rom" /\ Running
  /\ presses < MaxPresses /\ presses' = presses + 1
  /\ IF marker = "starting"
     THEN /\ retained' = [retained EXCEPT !.target = "firmware", !.sum = FALSE]
          /\ at' = "off" /\ ints' = FALSE
          /\ UNCHANGED marker
     ELSE /\ marker' = "requested"
          /\ UNCHANGED <<at, ints, retained>>
  /\ UNCHANGED <<ax, bx, stack, ff, resume, basic>>

\* The firmware's status poll finds the mark: it retains its own idle loop, and
\* the next startup goes to the built-in applications.
FirmwarePowersDown ==
  /\ at = "basic" /\ marker = "requested"
  /\ at' = "firmware"
  /\ UNCHANGED <<ax, bx, stack, ints, ff, retained, resume, marker, presses, basic>>

------------------------------------------------------------------------------
(* Startup by the ROM                                                        *)

\* The ROM sets up its stack and vectors and enables interrupts.
Startup ==
  /\ at = "off"
  /\ at' = "starting" /\ stack' = "rom" /\ ints' = TRUE
  /\ ff' = "rom" /\ marker' = "starting"
  /\ ax' \in Words /\ bx' \in Words
  /\ UNCHANGED <<retained, resume, presses, basic>>

\* It checks the retained context, restores it with interrupts disabled, and
\* enables them again by restoring the flags.
RestoreContext ==
  /\ at = "starting"
  /\ IF retained.sum
     THEN /\ at' = retained.target
          /\ ax' = retained.ax /\ bx' = retained.bx
          /\ marker' = "none"
     ELSE /\ at' = "firmware"
          /\ UNCHANGED <<ax, bx, marker>>
  /\ UNCHANGED <<stack, ints, ff, retained, resume, presses, basic>>

------------------------------------------------------------------------------
(* dw_power_resume                                                           *)

ResumePushf ==
  /\ at = "pushf" /\ at' = "pop_flags"
  /\ UNCHANGED <<ax, bx, stack, ints, ff, retained, resume, marker, presses, basic>>

ResumePopFlags ==
  /\ at = "pop_flags" /\ at' = "cli"
  /\ resume' = [resume EXCEPT !.ints = ints]
  /\ UNCHANGED <<ax, bx, stack, ints, ff, retained, marker, presses, basic>>

ResumeCli ==
  /\ at = "cli" /\ at' = "body"
  /\ ints' = FALSE
  /\ UNCHANGED <<ax, bx, stack, ff, retained, resume, marker, presses, basic>>

\* mov [resume_ax], ax to popf: the stack, dw_power_install and the flags
ResumeBody ==
  /\ at = "body" /\ at' = "mov_ax"
  /\ resume' = [resume EXCEPT !.ax = ax]
  /\ stack' = resume.stack
  /\ ff' = "dw"
  /\ ints' = resume.ints
  /\ UNCHANGED <<ax, bx, retained, marker, presses, basic>>

ResumeMovAx ==
  /\ at = "mov_ax" /\ at' = "jmp"
  /\ ax' = resume.ax
  /\ UNCHANGED <<bx, stack, ints, ff, retained, resume, marker, presses, basic>>

\* Mutant of ResumeJump: the far pointer is the trampoline's own address.
ResumeJumpsBack ==
  /\ at = "jmp" /\ at' = retained.target
  /\ UNCHANGED <<ax, bx, stack, ints, ff, retained, resume, marker, presses, basic>>

ResumeJump ==
  /\ at = "jmp" /\ at' = resume.at
  /\ UNCHANGED <<ax, bx, stack, ints, ff, retained, resume, marker, presses, basic>>

------------------------------------------------------------------------------
Init ==
  /\ at = "basic"
  /\ ax \in Words /\ bx \in Words
  /\ stack = "basic" /\ ints = TRUE /\ ff = "dw"
  /\ retained = [ax |-> ax, bx |-> bx, target |-> "firmware", sum |-> FALSE]
  /\ resume = [at |-> "none", stack |-> "none", ax |-> ax, ints |-> FALSE]
  /\ marker = "none" /\ presses = 0
  /\ basic = [ax |-> ax, bx |-> bx]

ResumeStep == ResumePushf \/ ResumePopFlags \/ ResumeCli \/ ResumeBody
              \/ ResumeMovAx \/ ResumeJump

Next == Compute \/ PressDW \/ PressRom \/ FirmwarePowersDown
        \/ Startup \/ RestoreContext \/ ResumeStep

Spec == Init /\ [][Next]_vars

\* The machine is switched on again and the processor runs; nothing is assumed of
\* the user, who may press the key in every state.
FairSpec == Spec /\ WF_vars(Startup) /\ WF_vars(RestoreContext) /\ WF_vars(ResumeStep)

------------------------------------------------------------------------------
(* Properties                                                                *)

Places == {"basic", "off", "starting", "firmware"} \cup Trampoline

Contexts == [ax : Words, bx : Words]

TypeOK ==
  /\ at \in Places
  /\ ax \in Words /\ bx \in Words
  /\ stack \in {"basic", "rom"} /\ ints \in BOOLEAN /\ ff \in {"rom", "dw"}
  /\ retained \in [ax : Words, bx : Words, target : {"pushf", "firmware"}, sum : BOOLEAN]
  /\ resume \in [at : {"none"} \cup Places, stack : {"none", "basic", "rom"},
                 ax : Words, ints : BOOLEAN]
  /\ marker \in {"none", "starting", "requested"}
  /\ presses \in 0 .. MaxPresses
  /\ basic \in Contexts

\* Whenever the key is pressed, in BASIC, in the ROM's startup or inside the
\* trampoline itself: if BASIC's code runs again it runs with the registers and the
\* stack it was interrupted with, interrupts enabled and the handler installed.
ResumesExactly ==
  [][at # "basic" /\ at' = "basic"
       => /\ ax' = basic.ax /\ bx' = basic.bx /\ stack' = "basic"
          /\ ints' /\ ff' = "dw"]_vars

\* After every power-off the machine, switched on again, comes back to BASIC: there
\* are only two ways to lose the session, a press in the last two instructions of
\* the trampoline and a press in the ROM's startup, which retains no checksum.
PowerOnReturns ==
  at = "off" ~> at = "basic" \/ resume.at \in Exit \/ ~retained.sum

------------------------------------------------------------------------------
(* The inductive invariant behind ResumesExactly                             *)

\* Which handler the vector holds, and where interrupts are enabled
HandlerInPlace ==
  /\ at \in {"basic"} \cup Exit => ff = "dw" /\ ints
  /\ at \in {"starting", "body"} \cup Entry => ff = "rom"
  /\ at \in {"starting", "pushf", "pop_flags", "cli"} => ints
  /\ at \in {"cli", "body"} => resume.ints
  /\ at = "basic" => stack = "basic"

\* The pointer is BASIC's or, after a second press, one of the last two
\* instructions of the trampoline; then BASIC never runs again.
PointerFromPress ==
  /\ resume.at \in {"none", "basic"} \cup Exit
  /\ resume.at \in Exit => at # "basic"
  /\ resume.at # "none" => resume.stack # "none"
  /\ resume.at = "none" => at = "basic" \/ at = "firmware"
  /\ retained.sum => retained.target = "pushf"

\* While the pointer is BASIC's, its registers are where the next step takes them
\* from: retained until the ROM restores them, then in the processor.
Holds(context) == context.ax = basic.ax /\ context.bx = basic.bx

ContextKept ==
  resume.at = "basic" =>
    /\ resume.stack = "basic"
    /\ at \in {"off", "starting"} /\ retained.sum => Holds(retained)
    /\ at \in Entry \cup {"body"} => Holds([ax |-> ax, bx |-> bx])
    /\ at = "mov_ax" => resume.ax = basic.ax /\ bx = basic.bx /\ stack = "basic"
    /\ at = "jmp" => Holds([ax |-> ax, bx |-> bx]) /\ stack = "basic"

PowerInv == TypeOK /\ HandlerInPlace /\ PointerFromPress /\ ContextKept

=============================================================================
