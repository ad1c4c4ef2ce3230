----------------------------- MODULE PowerProofs -----------------------------
(***************************************************************************)
(* Proofs about Power, for every set of register values and every number   *)
(* of presses of the power key.                                            *)
(***************************************************************************)
EXTENDS Power, TLAPS

LEMMA PowerInit == Init => PowerInv
  BY PowerAssumption
     DEF Init, PowerInv, TypeOK, HandlerInPlace, PointerFromPress, ContextKept,
         Places, Trampoline, Entry, Exit, Contexts

\* Values stay in range, and the trampoline keeps the order of its instructions.
LEMMA PowerTypeNext ==
  ASSUME PowerInv, [Next]_vars
  PROVE  TypeOK'
  <1> USE PowerAssumption DEF PowerInv, TypeOK, Contexts
  <1>0. Places = {"basic", "off", "starting", "firmware", "pushf", "pop_flags",
                  "cli", "body", "mov_ax", "jmp"}
    BY DEF Places, Trampoline, Entry, Exit
  <1>1. CASE Compute \/ FirmwarePowersDown
    BY <1>0, <1>1 DEF Compute, FirmwarePowersDown
  <1>2. CASE Startup
    BY <1>0, <1>2 DEF Startup
  <1>3. CASE PressDW
    <2>1. presses' \in 0 .. MaxPresses
      BY <1>3 DEF PressDW
    <2>2. retained' \in [ax : Words, bx : Words, target : {"pushf", "firmware"},
                         sum : BOOLEAN]
      BY <1>3 DEF PressDW
    <2>3. resume'.at = at /\ resume'.stack = stack
          /\ resume' = [at |-> at, stack |-> stack, ax |-> resume.ax,
                        ints |-> resume.ints]
      BY <1>3 DEF PressDW
    <2>4. resume.ax \in Words /\ resume.ints \in BOOLEAN
      OBVIOUS
    <2>5. resume' \in [at : {"none"} \cup Places, stack : {"none", "basic", "rom"},
                       ax : Words, ints : BOOLEAN]
      BY <2>3, <2>4
    <2>6. basic' \in [ax : Words, bx : Words]
      BY <1>3 DEF PressDW
    <2>7. at' \in Places /\ ints' \in BOOLEAN
      BY <1>0, <1>3 DEF PressDW
    <2>8. UNCHANGED <<ax, bx, stack, ff, marker>>
      BY <1>3 DEF PressDW
    <2> QED
      BY <2>1, <2>2, <2>5, <2>6, <2>7, <2>8
  <1>4. CASE PressRom
    <2>1. retained' \in [ax : Words, bx : Words, target : {"pushf", "firmware"},
                         sum : BOOLEAN]
      BY <1>4 DEF PressRom
    <2>2. at' \in Places /\ marker' \in {"none", "starting", "requested"}
      BY <1>0, <1>4 DEF PressRom
    <2>3. ints' \in BOOLEAN
      BY <1>4 DEF PressRom
    <2>4. presses' \in 0 .. MaxPresses
      BY <1>4 DEF PressRom
    <2>5. UNCHANGED <<ax, bx, stack, ff, resume, basic>>
      BY <1>4 DEF PressRom
    <2> QED
      BY <2>1, <2>2, <2>3, <2>4, <2>5
  <1>5. CASE RestoreContext
    BY <1>0, <1>5 DEF RestoreContext
  <1>6. CASE ResumePushf \/ ResumeCli
    BY <1>0, <1>6 DEF ResumePushf, ResumeCli
  <1>7. CASE ResumePopFlags
    BY <1>0, <1>7 DEF ResumePopFlags
  <1>8. CASE ResumeBody
    <2>1. resume.stack \in {"basic", "rom"}
      BY <1>8 DEF ResumeBody, HandlerInPlace, PointerFromPress, ContextKept, Exit
    <2>2. resume.ints \in BOOLEAN
      OBVIOUS
    <2>3. stack' \in {"basic", "rom"} /\ ints' \in BOOLEAN
      BY <1>8, <2>1, <2>2 DEF ResumeBody
    <2>4. resume' \in [at : {"none"} \cup Places, stack : {"none", "basic", "rom"},
                       ax : Words, ints : BOOLEAN]
      BY <1>8 DEF ResumeBody
    <2>5. at' \in Places /\ ff' \in {"rom", "dw"}
          /\ UNCHANGED <<ax, bx, retained, marker, presses, basic>>
      BY <1>0, <1>8 DEF ResumeBody
    <2> QED
      BY <2>3, <2>4, <2>5
  <1>9. CASE ResumeMovAx \/ ResumeJump
    BY <1>0, <1>9 DEF ResumeMovAx, ResumeJump, PointerFromPress, Exit
  <1>10. CASE UNCHANGED vars
    BY <1>10 DEF vars
  <1> QED
    BY <1>1, <1>2, <1>3, <1>4, <1>5, <1>6, <1>7, <1>8, <1>9, <1>10
       DEF Next, ResumeStep

LEMMA PowerStep ==
  ASSUME PowerInv, [Next]_vars
  PROVE  HandlerInPlace' /\ PointerFromPress' /\ ContextKept'
  <1> USE DEF Running, PowerInv, TypeOK, HandlerInPlace, PointerFromPress, ContextKept, Holds,
              Places, Trampoline, Entry, Exit
  <1>1. CASE Compute
    BY <1>1 DEF Compute
  <1>2. CASE PressDW
    BY <1>2 DEF PressDW, Running
  <1>3. CASE PressRom
    BY <1>3 DEF PressRom, Running
  <1>4. CASE FirmwarePowersDown
    BY <1>4 DEF FirmwarePowersDown
  <1>5. CASE Startup
    BY <1>5 DEF Startup
  <1>6. CASE RestoreContext
    BY <1>6 DEF RestoreContext
  <1>7. CASE ResumePushf \/ ResumePopFlags
    BY <1>7 DEF ResumePushf, ResumePopFlags
  <1>8. CASE ResumeCli \/ ResumeBody
    BY <1>8 DEF ResumeCli, ResumeBody
  <1>9. CASE ResumeMovAx \/ ResumeJump
    BY <1>9 DEF ResumeMovAx, ResumeJump
  <1>10. CASE UNCHANGED vars
    BY <1>10 DEF vars
  <1> QED
    BY <1>1, <1>2, <1>3, <1>4, <1>5, <1>6, <1>7, <1>8, <1>9, <1>10 DEF Next, ResumeStep

LEMMA PowerInductive == Spec => []PowerInv
  <1>1. PowerInv /\ [Next]_vars => PowerInv'
    BY PowerTypeNext, PowerStep DEF PowerInv
  <1> QED
    BY <1>1, PowerInit, PTL DEF Spec

\* Every place, register and saved word stays in range: in particular the
\* trampoline never runs with its saved stack or pointer unset.
THEOREM PowerTypeCorrect == Spec => []TypeOK
  <1>1. PowerInv => TypeOK
    BY DEF PowerInv
  <1> QED
    BY <1>1, PowerInductive, PTL

\* However often and wherever the key is pressed, BASIC's code only ever resumes
\* with the registers, the stack and the handler it was interrupted with.
THEOREM ResumeIsExact == Spec => ResumesExactly
  <1> DEFINE Exact == at # "basic" /\ at' = "basic"
                        => /\ ax' = basic.ax /\ bx' = basic.bx /\ stack' = "basic"
                           /\ ints' /\ ff' = "dw"
  <1>1. PowerInv /\ [Next]_vars => [Exact]_vars
    <2> SUFFICES ASSUME PowerInv, [Next]_vars, at # "basic", at' = "basic"
                 PROVE  Exact
      OBVIOUS
    <2>1. CASE ResumeJump
      BY <2>1 DEF ResumeJump, PowerInv, TypeOK, HandlerInPlace, PointerFromPress,
                  ContextKept, Holds, Exit, Entry, Trampoline, Places
    <2>2. ~ResumeJump => FALSE
      BY DEF Next, ResumeStep, Compute, PressDW, PressRom, FirmwarePowersDown, Startup,
             RestoreContext, ResumePushf, ResumePopFlags, ResumeCli, ResumeBody,
             ResumeMovAx, PowerInv, TypeOK, PointerFromPress, vars
    <2> QED
      BY <2>1, <2>2
  <1> QED
    BY <1>1, PowerInductive, PTL DEF Spec, ResumesExactly
=============================================================================
