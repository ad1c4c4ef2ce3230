----------------------------- MODULE DiskProofs -----------------------------
(***************************************************************************)
(* Proofs about Disk: whatever firmware calls fail, in whatever order, a   *)
(* statement of DW-BASIC ends after two errors at most and leaves file 0,  *)
(* FREFDB, NLONLY and PTRFIL as the next statement needs them.  And what   *)
(* the files hold: until a call fails that leaves an FDB behind, no two    *)
(* file numbers share a slot, files hold what was written and are read in  *)
(* order.                                                                  *)
(***************************************************************************)
EXTENDS Disk, SequenceTheorems, TLAPS

------------------------------------------------------------------------------
(* The inductive invariant                                                   *)

Calling == {"open", "create", "seek"}
Using   == {"io", "read", "more"}
Closing == {"write_eof", "close"}

\* The registers and variables that the code at a label relies on.
Places ==
  /\ at \in Calling \cup Using => ptrfil \in Files
  /\ at \in Calling => filnm \in Names /\ Allocated(ptrfil)
  /\ at = "seek" => Used(fdb[ptrfil].handle) /\ SlotOf(ptrfil).name = filnm
  /\ at \in Closing => closing \in Files /\ Allocated(closing) /\ freFdb = closing /\ back # None
  /\ at \notin Closing \cup {"finprt"} => freFdb = None
  /\ at = "read" \/ (at = "more" /\ stmt = "input") => got[ptrfil] # <<>>

\* No load is in progress once there was an error, and file 0 is its file.
Loading == nlonly => errs = <<>> /\ ptrfil \in Files

\* Where errors can have happened, and how many: CLSFIL for FINPRT is the only code
\* that can fail after an error, and then FREFDB is file 0.
ErrorPath ==
  /\ at \in Calling \cup Using \cup {"ready", "clsall"} => errs = <<>>
  /\ at \in Closing /\ back = "done" => closing = File0 /\ Len(errs) <= 1 /\ ~nlonly
  /\ at \in Closing /\ back # "done" => errs = <<>>
  /\ at = "finprt" => Len(errs) <= 1 \/ (Len(errs) = 2 /\ freFdb = File0)
  /\ at \in {"done", "ended"} => Len(errs) <= 2

\* Clean, and on the way to clean
Clean == ptrfil = None /\ ~Allocated(File0) /\ ~nlonly

CleanPath ==
  /\ at \in {"ready", "ended"} => Clean
  /\ at \in Closing /\ back = "ended" => Clean
  /\ at = "done" => nlonly \/ ~Allocated(File0)

Control == Places /\ Loading /\ ErrorPath /\ CleanPath

\* The type invariant in the parts that the lemmas keep.
TypeCtl ==
  /\ at \in Labels /\ stmt \in Statements
  /\ ptrfil \in Optional(Files) /\ filnm \in Optional(Names)
  /\ closing \in Optional(Files) /\ back \in Optional({"done", "ended", "clsall"})
  /\ freFdb \in Optional(Files) /\ nlonly \in BOOLEAN
  /\ failed \subseteq {"open", "final", "close"}

TypeFdb == fdb \in [Files -> Fdbs] /\ (freFdb # None => Allocated(freFdb))

TypeDisk ==
  /\ slot \in [Handles -> Slots]
  /\ DOMAIN content \subseteq Names /\ DOMAIN saved = DOMAIN content
  /\ \A f \in DOMAIN content : content[f] \in Seq(Bytes) /\ saved[f] \in Seq(Bytes)
  /\ \A h \in Handles : Used(h) => Present(slot[h].name)

TypeGot == got \in [Files -> Seq(Bytes)]

\* As long as every final ^Z could be written: a used slot has an owner, which is not
\* the FDB that waits for its handle, and FINPRT frees no FDB with a used slot.
Owners ==
  "final" \notin failed =>
    /\ \A h \in Handles : Used(h) =>
         \E n \in Files : /\ Allocated(n) /\ fdb[n].handle = h
                          /\ at \in {"open", "create"} => n # ptrfil
    /\ at = "finprt" /\ freFdb # None => ~Used(fdb[freFdb].handle)

DiskInv == TypeOK /\ Control /\ Owners

\* A step raises an error.
Raised == \E e \in Errors : Raise(e)

\* The only statements about errors: a step adds one of Errors through Raise, keeps them,
\* or begins without any (EndStatement).
LEMMA Outcome ==
  ASSUME Step \/ Statement
  PROVE  Raised \/ errs' = errs \/ errs' = <<>>
<1>1. "Device I/O Error" \in Errors /\ "File not found" \in Errors
      /\ "File already open" \in Errors
      /\ "Input past end" \in Errors /\ "Direct statement in file" \in Errors
  BY DEF Errors
<1>2. CASE OpenAgain \/ InchEof \/ InputEnds
  <2>1. Raise("File already open") \/ Raise("Input past end")
        \/ Raise("Direct statement in file") \/ errs' = errs
    BY <1>2 DEF OpenAgain, AlreadyOpen, InchEof, InputEnds
  <2> QED BY <1>1, <2>1 DEF Raised
<1>3. CASE WriteEof \/ CloseFails \/ OpenFails \/ CreateFails
  <2>1. Raise("Device I/O Error") \/ Raise("File not found") \/ errs' = errs
    BY <1>3 DEF WriteEof, CloseFails, OpenFails, CreateFails, Fails
  <2> QED BY <1>1, <2>1 DEF Raised
<1>4. CASE AppendSeekFails \/ OutDo \/ InchFails
  <2>1. Raise("Device I/O Error") \/ errs' = errs
    BY <1>4 DEF AppendSeekFails, OutDo, InchFails, control
  <2> QED BY <1>1, <2>1 DEF Raised
<1>5. CASE Open \/ Load \/ Save \/ PrintFile \/ InputFile \/ Close \/ Clear
  BY <1>5 DEF Open, Load, Save, OpnFil, PrintFile, InputFile, UseFile, Close, Clear, Begin
<1>6. CASE FinPrt \/ Done \/ EndStatement \/ CloseHandle \/ ClsAllNext \/ ClsAllEnds
  BY <1>6 DEF FinPrt, Done, EndStatement, CloseHandle, ClsAllNext, ClsAllEnds
<1>7. CASE OpenHandle \/ CreateHandle \/ AppendSeek \/ OutputEnds \/ InchBacked \/ InchByte
           \/ BakChr
  BY <1>7 DEF OpenHandle, CreateHandle, AppendSeek, Opened, OutputEnds, InchBacked, InchByte,
       BakChr
<1> QED BY <1>2, <1>3, <1>4, <1>5, <1>6, <1>7 DEF Step, Statement

\* The errors of a statement stay a sequence of Errors.
LEMMA ErrsType ==
  ASSUME errs \in Seq(Errors), Next
  PROVE  errs' \in Seq(Errors)
<1>1. ASSUME NEW e \in Errors, Raise(e) PROVE errs' \in Seq(Errors)
  BY <1>1 DEF Raise
<1>2. Raised \/ errs' = errs \/ errs' = <<>>
  BY Outcome DEF Next
<1>3. CASE Raised
  BY <1>1, <1>3 DEF Raised
<1>4. CASE errs' = errs \/ errs' = <<>>
  <2>1. <<>> \in Seq(Errors)
    OBVIOUS
  <2> QED BY <1>4, <2>1
<1> QED BY <1>2, <1>3, <1>4

\* What programs were given stays a sequence of bytes for each number; BAKCHR takes
\* back a byte only where there is one.
LEMMA GotType ==
  ASSUME TypeCtl, TypeFdb, TypeDisk, TypeGot, Places, Next
  PROVE  TypeGot'
<1>1. CASE FinPrt
  BY <1>1 DEF FinPrt, TypeGot
<1>2. CASE CloseHandle
  <2>1. got' = [got EXCEPT ![closing] = <<>>] /\ closing \in Files
    BY <1>2 DEF CloseHandle, Freed, Places, Closing
  <2>2. <<>> \in Seq(Bytes)
    OBVIOUS
  <2> QED BY <2>1, <2>2 DEF TypeGot
<1>3. CASE InchBacked
  <2>1. ptrfil \in Files /\ fdb[ptrfil].backed \in Bytes
    BY <1>3 DEF InchBacked, Reading, Places, Using, TypeFdb, Fdbs, Optional
  <2> QED BY <1>3, <2>1 DEF InchBacked, Deliver, TypeGot
<1>4. CASE InchByte
  <2>1. ptrfil \in Files /\ fdb[ptrfil].handle \in Handles /\ SlotOf(ptrfil).pos \in Nat
        /\ SlotOf(ptrfil).name \in DOMAIN content
    BY <1>4 DEF InchByte, ReadsDevice, Reading, Places, Using, Fdbs, Used, Present, SlotOf,
         TypeDisk, Slots
  <2>2. TextOf(ptrfil) \in Seq(Bytes)
    BY <2>1 DEF TextOf, TypeDisk
  <2>3. TextOf(ptrfil)[SlotOf(ptrfil).pos + 1] \in Bytes
    BY <1>4, <2>1, <2>2 DEF InchByte
  <2> QED BY <1>4, <2>1, <2>3 DEF InchByte, Deliver, TypeGot
<1>5. CASE BakChr
  <2>1. ptrfil \in Files /\ got[ptrfil] \in Seq(Bytes) /\ got[ptrfil] # <<>>
    BY <1>5 DEF BakChr, Reading, Places, Using, TypeGot
  <2>2. SubSeq(got[ptrfil], 1, Len(got[ptrfil]) - 1) \in Seq(Bytes)
    BY <2>1
  <2> QED BY <1>5, <2>1, <2>2 DEF BakChr, TypeGot
<1>6. CASE OpenAgain \/ InchEof \/ InputEnds \/ WriteEof \/ CloseFails \/ OpenFails
  <2>1. got' = got
    BY <1>6 DEF OpenAgain, AlreadyOpen, InchEof, InputEnds, WriteEof, CloseFails, OpenFails,
         history
  <2> QED BY <2>1 DEF TypeGot
<1>7. CASE CreateFails \/ AppendSeekFails \/ OutDo \/ InchFails \/ Open \/ Load \/ Save
           \/ PrintFile \/ InputFile \/ Close \/ Clear
  <2>1. got' = got
    BY <1>7 DEF CreateFails, AppendSeekFails, OutDo, InchFails, Open, Load, Save, OpnFil,
         PrintFile, InputFile, UseFile, Close, Clear, history
  <2> QED BY <2>1 DEF TypeGot
<1>8. CASE Done \/ EndStatement \/ ClsAllNext \/ ClsAllEnds \/ OpenHandle \/ CreateHandle
           \/ AppendSeek \/ OutputEnds
  <2>1. got' = got
    BY <1>8 DEF Done, EndStatement, ClsAllNext, ClsAllEnds, OpenHandle, CreateHandle,
         AppendSeek, OutputEnds, history
  <2> QED BY <2>1 DEF TypeGot
<1> QED BY <1>1, <1>2, <1>3, <1>4, <1>5, <1>6, <1>7, <1>8 DEF Step, Statement, Next

\* The firmware's slots and the directory keep their types, and a used slot its file.
LEMMA DiskType ==
  ASSUME TypeCtl, TypeFdb, TypeDisk, Places, Next
  PROVE  TypeDisk'
<1>0. FreeSlot \in Slots /\ FreeSlot.name = None /\ CtrlZ \in Bytes
  BY DEF FreeSlot, Slots, Optional, Bytes
<1>1. ASSUME NEW n \in Files, NEW b \in Bytes, WriteByte(n, b),
             saved' = saved \/ (saved' = [saved EXCEPT ![SlotOf(n).name] = Append(@, b)])
      PROVE  TypeDisk'
  <2>1. fdb[n].handle \in Handles /\ SlotOf(n).pos \in Nat /\ SlotOf(n).name \in DOMAIN content
    BY <1>1 DEF WriteByte, TypeDisk, Used, Present, SlotOf, Slots
  <2>2. Patch(TextOf(n), SlotOf(n).pos, b) \in Seq(Bytes)
    <3>1. TextOf(n) \in Seq(Bytes)
      BY <2>1 DEF TextOf, TypeDisk
    <3> QED BY <3>1, <2>1 DEF Patch
  <2>3. content' = [content EXCEPT ![SlotOf(n).name] = Patch(TextOf(n), SlotOf(n).pos, b)]
    BY <1>1 DEF WriteByte, TextOf
  <2>4. slot' = [slot EXCEPT ![fdb[n].handle].pos = @ + 1]
    BY <1>1 DEF WriteByte
  <2>5. slot' \in [Handles -> Slots]
    BY <2>1, <2>4 DEF TypeDisk, Slots, SlotOf
  <2>6. \A h \in Handles : slot'[h].name = slot[h].name
    BY <2>1, <2>4 DEF TypeDisk, Slots, SlotOf
  <2>7. DOMAIN content' = DOMAIN content /\ DOMAIN saved' = DOMAIN saved
    BY <1>1, <2>3
  <2>8. \A f \in DOMAIN content : content'[f] \in Seq(Bytes) /\ saved'[f] \in Seq(Bytes)
    <3>1. ASSUME NEW f \in DOMAIN content PROVE content'[f] \in Seq(Bytes)
      BY <2>1, <2>2, <2>3, <3>1 DEF TypeDisk
    <3>2. ASSUME NEW f \in DOMAIN content PROVE saved'[f] \in Seq(Bytes)
      <4>1. saved[f] \in Seq(Bytes) /\ Append(saved[f], b) \in Seq(Bytes) /\ f \in DOMAIN saved
        BY <1>1 DEF TypeDisk
      <4> QED BY <1>1, <4>1
    <3> QED BY <3>1, <3>2
  <2> QED BY <2>5, <2>6, <2>7, <2>8 DEF TypeDisk, Used, Present
<1>2. ASSUME NEW h \in Handles, slot' = [slot EXCEPT ![h] = FreeSlot],
             UNCHANGED <<content, saved>>
      PROVE  TypeDisk'
  BY <1>0, <1>2 DEF TypeDisk, Used, Present
<1>3. ASSUME NEW h \in Handles, NEW pos \in Nat, filnm \in Names,
             slot' = [slot EXCEPT ![h] = [name |-> filnm, pos |-> pos]],
             \/ Present(filnm) /\ UNCHANGED <<content, saved>>
             \/ content' = Put(content, filnm, <<>>) /\ saved' = Put(saved, filnm, <<>>)
      PROVE  TypeDisk'
  <2>1. slot' \in [Handles -> Slots]
    BY <1>3 DEF TypeDisk, Slots, Optional
  <2>2. DOMAIN content' \subseteq Names /\ DOMAIN saved' = DOMAIN content'
        /\ DOMAIN content' = DOMAIN content \cup {filnm}
    BY <1>3 DEF TypeDisk, Put, Present
  <2>3. \A f \in DOMAIN content' : content'[f] \in Seq(Bytes) /\ saved'[f] \in Seq(Bytes)
    <3>1. <<>> \in Seq(Bytes)
      OBVIOUS
    <3> QED BY <1>3, <3>1 DEF TypeDisk, Put
  <2>4. \A g \in Handles : slot'[g].name = IF g = h THEN filnm ELSE slot[g].name
    BY <1>3 DEF TypeDisk
  <2> QED BY <2>1, <2>2, <2>3, <2>4 DEF TypeDisk, Used, Present
<1>4. ASSUME UNCHANGED <<slot, content, saved>> PROVE TypeDisk'
  BY <1>4 DEF TypeDisk, Used, Present
<1>5. CASE WriteEof
  <2>1. closing \in Files
    BY <1>5 DEF WriteEof, Places, Closing
  <2>2. CASE WriteByte(closing, CtrlZ)
    BY <1>0, <1>1, <1>5, <2>1, <2>2 DEF WriteEof
  <2>3. CASE UNCHANGED <<content, slot>>
    BY <1>4, <1>5, <2>3 DEF WriteEof
  <2> QED BY <1>5, <2>2, <2>3 DEF WriteEof
<1>6. CASE CloseHandle
  BY <1>2, <1>6 DEF CloseHandle, Used
<1>7. CASE CloseFails
  BY <1>2, <1>4, <1>7 DEF CloseFails, Used
<1>8. CASE OpenHandle
  <2>1. filnm \in Names
    BY <1>8 DEF OpenHandle, Places, Calling
  <2> QED BY <1>3, <1>8, <2>1 DEF OpenHandle, Opened, history
<1>9. CASE CreateHandle
  <2>1. filnm \in Names
    BY <1>9 DEF CreateHandle, Places, Calling
  <2> QED BY <1>3, <1>9, <2>1 DEF CreateHandle, Opened
<1>10. CASE AppendSeek
  <2>1. ptrfil \in Files /\ filnm \in Names /\ fdb[ptrfil].handle \in Handles
        /\ SlotOf(ptrfil).name = filnm /\ Present(filnm)
    BY <1>10 DEF AppendSeek, Places, Calling, Used, TypeDisk, SlotOf
  <2>2. AppendAt(TextOf(ptrfil)) \in Nat
    <3>1. TextOf(ptrfil) \in Seq(Bytes)
      BY <2>1 DEF TextOf, TypeDisk, Present
    <3> QED BY <3>1 DEF AppendAt
  <2>3. slot' = [slot EXCEPT ![fdb[ptrfil].handle] =
                   [name |-> filnm, pos |-> AppendAt(TextOf(ptrfil))]]
        /\ UNCHANGED <<content, saved>>
    BY <1>10 DEF AppendSeek, Opened, history
  <2> QED BY <1>3, <2>1, <2>2, <2>3
<1>11. CASE OutDo
  <2>1. ptrfil \in Files
    BY <1>11 DEF OutDo, Writing, Places, Using
  <2>2. CASE UNCHANGED <<content, slot, saved>>
    BY <1>4, <2>2
  <2>3. CASE ~UNCHANGED <<content, slot, saved>>
    BY <1>1, <1>11, <2>1, <2>3 DEF OutDo
  <2> QED BY <2>2, <2>3
<1>12. CASE InchByte
  <2>1. ptrfil \in Files /\ fdb[ptrfil].handle \in Handles
    BY <1>12 DEF InchByte, ReadsDevice, Reading, Places, Using, Used
  <2>2. slot' \in [Handles -> Slots] /\ \A h \in Handles : slot'[h].name = slot[h].name
    BY <1>12, <2>1 DEF InchByte, TypeDisk, Slots
  <2> QED BY <1>12, <2>2 DEF InchByte, TypeDisk, Used, Present
<1>13. CASE OpenAgain \/ InchEof \/ InputEnds \/ OpenFails \/ CreateFails \/ AppendSeekFails
            \/ InchFails
  <2>1. UNCHANGED <<slot, content, saved>>
    BY <1>13 DEF OpenAgain, AlreadyOpen, InchEof, InputEnds, OpenFails, CreateFails,
         AppendSeekFails, InchFails, history
  <2> QED BY <1>4, <2>1
<1>14. CASE Open \/ Load \/ Save \/ PrintFile \/ InputFile \/ Close \/ Clear \/ FinPrt \/ Done
  <2>1. UNCHANGED <<slot, content, saved>>
    BY <1>14 DEF Open, Load, Save, OpnFil, PrintFile, InputFile, UseFile, Close, Clear, FinPrt,
         Done, history
  <2> QED BY <1>4, <2>1
<1>15. CASE EndStatement \/ ClsAllNext \/ ClsAllEnds \/ OutputEnds \/ InchBacked \/ BakChr
  <2>1. UNCHANGED <<slot, content, saved>>
    BY <1>15 DEF EndStatement, ClsAllNext, ClsAllEnds, OutputEnds, InchBacked, BakChr, history
  <2> QED BY <1>4, <2>1
<1> QED BY <1>5, <1>6, <1>7, <1>8, <1>9, <1>10, <1>11, <1>12, <1>13, <1>14, <1>15 DEF Step,
       Statement, Next

\* The FDBs keep their types, and FREFDB is an FDB that exists.
LEMMA FdbType ==
  ASSUME TypeCtl, TypeFdb, TypeGot, Places, DiskAssumption, Next
  PROVE  TypeFdb'
<1>0. NoFdb \in Fdbs /\ None \notin Files
  BY DEF NoFdb, Fdbs, Stales, Optional, DiskAssumption, Files
<1>1. ASSUME NEW mode \in Modes, NEW s \in Stales
      PROVE  IniFdb(mode, s) \in Fdbs
  BY DEF IniFdb, Fdbs, Optional
<1>o. ASSUME NEW n \in Files, NEW h \in Stales, NEW b \in BOOLEAN, freFdb' = None,
             fdb' = [fdb EXCEPT ![n].handle = h, ![n].mode = "output", ![n].binary = b]
      PROVE  TypeFdb'
  BY <1>o DEF TypeFdb, Fdbs, Modes
<1>2. CASE Open \/ Load \/ Save
  <2>1. PICK n \in Files, mode \in Modes, s \in Stales :
             fdb' = [fdb EXCEPT ![n] = IniFdb(mode, s)]
    BY <1>2 DEF Open, Load, Save, OpnFil, Files, Modes
  <2>2. freFdb' = None
    BY <1>2 DEF Open, Load, Save, OpnFil, Begin, Places, Closing
  <2> QED BY <1>1, <2>1, <2>2 DEF TypeFdb
<1>3. CASE FinPrt
  <2>1. CASE fdb' = fdb /\ freFdb' = None
    BY <2>1 DEF TypeFdb
  <2> QED BY <1>0, <1>3, <2>1 DEF FinPrt, ClsFil, TypeFdb, Allocated, Files
<1>4. CASE CloseHandle
  BY <1>0, <1>4 DEF CloseHandle, Freed, TypeFdb
<1>5. CASE OpenHandle
  <2>1. ptrfil \in Files /\ freFdb' = None
    BY <1>5 DEF OpenHandle, Places, Calling, Closing
  <2> QED BY <1>5, <2>1 DEF OpenHandle, Opened, TypeFdb, Fdbs, Stales, Modes
<1>6. CASE CreateHandle
  <2>1. ptrfil \in Files /\ freFdb' = None
    BY <1>6 DEF CreateHandle, Places, Calling, Closing
  <2>2. fdb[ptrfil].handle \in Stales
    BY <2>1 DEF TypeFdb, Fdbs
  <2>3. \E h \in Stales : fdb' = [fdb EXCEPT ![ptrfil].handle = h, ![ptrfil].mode = "output",
                                       ![ptrfil].binary = (stmt = "save")]
    BY <1>6, <2>2 DEF CreateHandle, Opened, Stales
  <2> QED BY <1>o, <2>1, <2>3
<1>7. CASE AppendSeek
  <2>1. ptrfil \in Files /\ freFdb' = None
    BY <1>7 DEF AppendSeek, Places, Calling, Closing
  <2>2. fdb[ptrfil].handle \in Stales
    BY <2>1 DEF TypeFdb, Fdbs
  <2>3. \E h \in Stales : fdb' = [fdb EXCEPT ![ptrfil].handle = h, ![ptrfil].mode = "output",
                                       ![ptrfil].binary = (stmt = "save")]
    BY <1>7, <2>2 DEF AppendSeek, Opened, Stales
  <2> QED BY <1>o, <2>1, <2>3
<1>8. CASE InchBacked
  <2>1. ptrfil \in Files /\ freFdb' = None
    BY <1>8 DEF InchBacked, Reading, Places, Using, Closing
  <2> QED BY <1>8, <2>1 DEF InchBacked, TypeFdb, Fdbs, Optional
<1>9. CASE InchEof
  <2>1. ptrfil \in Files /\ freFdb' = None /\ fdb' = [fdb EXCEPT ![ptrfil].atEof = TRUE]
    BY <1>9 DEF InchEof, Reading, Places, Using, Closing
  <2> QED BY <2>1 DEF TypeFdb, Fdbs, Optional
<1>10. CASE BakChr
  <2>1. ptrfil \in Files /\ freFdb' = None /\ got[ptrfil] \in Seq(Bytes) /\ got[ptrfil] # <<>>
    BY <1>10 DEF BakChr, Reading, Places, Using, Closing, TypeGot
  <2>2. got[ptrfil][Len(got[ptrfil])] \in Bytes
    BY <2>1
  <2> QED BY <1>10, <2>1, <2>2 DEF BakChr, TypeFdb, Fdbs, Optional
<1>11. CASE Close \/ ClsAllNext
  BY <1>11 DEF Close, ClsAllNext, ClsFil, TypeFdb, Allocated
<1>12. CASE OpenAgain \/ InputEnds \/ WriteEof \/ CloseFails \/ OpenFails \/ CreateFails
            \/ AppendSeekFails
  <2>1. UNCHANGED <<fdb, freFdb>>
    BY <1>12 DEF OpenAgain, AlreadyOpen, InputEnds, WriteEof, CloseFails, OpenFails,
         CreateFails, AppendSeekFails
  <2> QED BY <2>1 DEF TypeFdb, Allocated
<1>13. CASE OutDo \/ InchFails \/ InchByte \/ OutputEnds \/ PrintFile \/ InputFile \/ Clear
  <2>1. UNCHANGED <<fdb, freFdb>>
    BY <1>13 DEF OutDo, InchFails, InchByte, OutputEnds, PrintFile, InputFile, UseFile, Clear
  <2> QED BY <2>1 DEF TypeFdb, Allocated
<1>14. CASE Done \/ EndStatement \/ ClsAllEnds
  <2>1. UNCHANGED <<fdb, freFdb>>
    BY <1>14 DEF Done, EndStatement, ClsAllEnds
  <2> QED BY <2>1 DEF TypeFdb, Allocated
<1> QED BY <1>2, <1>3, <1>4, <1>5, <1>6, <1>7, <1>8, <1>9, <1>10, <1>11, <1>12, <1>13,
       <1>14 DEF Step, Statement, Next

\* The variables that steer a statement keep their types.
LEMMA CtlType ==
  ASSUME TypeCtl, TypeFdb, Places, DiskAssumption, Next
  PROVE  TypeCtl'
<1>1. ASSUME NEW e, Raise(e), freFdb' = freFdb, failed' \subseteq {"open", "final", "close"}
      PROVE  TypeCtl'
  BY <1>1 DEF Raise, TypeCtl, Labels, Optional
<1>2. failed \subseteq {"open", "final", "close"}
  BY DEF TypeCtl
<1>3. CASE OpenAgain
  BY <1>1, <1>2, <1>3 DEF OpenAgain, AlreadyOpen, history
<1>4. CASE Open \/ Load \/ Save
  BY <1>4 DEF Open, Load, Save, OpnFil, Begin, Goto, history, TypeCtl, Labels, Statements,
       Optional, Files
<1>5. CASE PrintFile \/ InputFile
  BY <1>5 DEF PrintFile, InputFile, UseFile, Begin, Goto, history, TypeCtl, Labels, Statements,
       Optional, Files
<1>6. CASE Close \/ Clear \/ ClsAllNext
  BY <1>6 DEF Close, Clear, ClsAllNext, Begin, ClsFil, Goto, history, TypeCtl, Labels,
       Statements, Optional, Files
<1>7. CASE FinPrt
  BY <1>7 DEF FinPrt, ClsFil, Goto, TypeCtl, Labels, Optional, Files
<1>8. CASE Done \/ EndStatement \/ ClsAllEnds \/ OutputEnds
  BY <1>8 DEF Done, EndStatement, ClsAllEnds, OutputEnds, Goto, history, TypeCtl, Labels,
       Statements, Optional
<1>9. CASE WriteEof
  <2>1. CASE Fails("final", "Device I/O Error")
    BY <1>1, <1>2, <1>9, <2>1 DEF WriteEof, Fails
  <2>2. CASE ~Fails("final", "Device I/O Error")
    BY <1>9, <2>2 DEF WriteEof, Goto, TypeCtl, Labels
  <2> QED BY <2>1, <2>2
<1>10. CASE CloseHandle
  BY <1>10 DEF CloseHandle, Freed, Goto, Places, Closing, TypeCtl, Labels, Optional
<1>11. CASE CloseFails
  BY <1>1, <1>2, <1>11 DEF CloseFails, Fails
<1>12. CASE OpenHandle
  BY <1>12 DEF OpenHandle, Opened, Body, Goto, history, TypeCtl, Labels
<1>13. CASE OpenFails
  <2>1. CASE fdb[ptrfil].mode = "append"
    BY <1>13, <2>1 DEF OpenFails, Goto, TypeCtl, Labels
  <2>2. CASE fdb[ptrfil].mode # "append"
    BY <1>1, <1>2, <1>13, <2>2 DEF OpenFails, Fails
  <2> QED BY <2>1, <2>2
<1>14. CASE CreateHandle
  BY <1>14 DEF CreateHandle, Opened, Body, Goto, TypeCtl, Labels
<1>15. CASE CreateFails
  BY <1>1, <1>2, <1>15 DEF CreateFails, Fails
<1>16. CASE AppendSeek
  BY <1>16 DEF AppendSeek, Opened, Body, Goto, history, TypeCtl, Labels
<1>17. CASE AppendSeekFails \/ InchFails
  BY <1>1, <1>2, <1>17 DEF AppendSeekFails, InchFails, history
<1>18. CASE OutDo
  <2>1. CASE Raise("Device I/O Error")
    BY <1>1, <1>2, <1>18, <2>1 DEF OutDo
  <2>2. CASE ~Raise("Device I/O Error")
    BY <1>18, <2>2 DEF OutDo, control, TypeCtl
  <2> QED BY <2>1, <2>2
<1>19. CASE InchBacked \/ InchByte
  BY <1>19 DEF InchBacked, InchByte, Deliver, Goto, TypeCtl, Labels
<1>20. CASE InchEof
  <2>1. CASE Raise("Input past end")
    BY <1>1, <1>2, <1>20, <2>1 DEF InchEof, history
  <2>2. CASE ~Raise("Input past end")
    BY <1>20, <2>2 DEF InchEof, Goto, history, TypeCtl, Labels
  <2> QED BY <2>1, <2>2
<1>21. CASE BakChr
  BY <1>21 DEF BakChr, Goto, TypeCtl, Labels
<1>22. CASE InputEnds
  <2>1. CASE Raise("Direct statement in file")
    BY <1>1, <1>2, <1>22, <2>1 DEF InputEnds, history
  <2>2. CASE ~Raise("Direct statement in file")
    BY <1>22, <2>2 DEF InputEnds, Goto, history, TypeCtl, Labels
  <2> QED BY <2>1, <2>2
<1> QED BY <1>3, <1>4, <1>5, <1>6, <1>7, <1>8, <1>9, <1>10, <1>11, <1>12, <1>13, <1>14, <1>15,
       <1>16, <1>17, <1>18, <1>19, <1>20, <1>21, <1>22 DEF Step, Statement, Next

\* An error keeps the control part of the invariant: it is the first of its statement,
\* or the second, after CLSFIL was closing file 0 for FINPRT.
LEMMA Raises ==
  ASSUME TypeCtl, errs \in Seq(Errors), NEW e \in Errors, Raise(e), freFdb' = freFdb,
         errs = <<>> \/ (Len(errs) <= 1 /\ freFdb = File0)
  PROVE  Control'
<1>1. errs' \in Seq(Errors) /\ Len(errs') = Len(errs) + 1 /\ Len(errs) \in Nat
  BY DEF Raise
<1>2. at' = "finprt" /\ ~nlonly'
  BY DEF Raise
<1>3. Len(errs') <= 1 \/ (Len(errs') = 2 /\ freFdb' = File0)
  BY <1>1
<1> QED BY <1>2, <1>3 DEF Control, Places, Loading, ErrorPath, CleanPath, Calling, Using, Closing

\* OPEN, LOAD and SAVE give dw_disk_open an FDB that is allocated and a name.
LEMMA OpnFilStep ==
  ASSUME TypeFdb, Places, NEW s, NEW n \in Files, NEW mode \in Modes, NEW f \in Names,
         NEW stale, OpnFil(s, n, mode, f, stale)
  PROVE  Places'
<1>1. at' \in {"open", "create"} /\ ptrfil' = n /\ filnm' = f /\ freFdb' = None
  BY DEF OpnFil, Begin, Goto, Places, Closing
<1>2. fdb'[n].mode = mode
  BY DEF OpnFil, IniFdb, TypeFdb
<1> QED BY <1>1, <1>2 DEF Places, Calling, Using, Closing, Allocated, Modes

\* Every step keeps the control part of the invariant.
LEMMA ControlStep ==
  ASSUME TypeCtl, TypeFdb, TypeDisk, TypeGot, errs \in Seq(Errors), Control, DiskAssumption, Next
  PROVE  Control'
<1>a. Places /\ Loading /\ ErrorPath /\ CleanPath
  BY DEF Control
<1>b. None \notin Files /\ File0 \in Files /\ Numbers \subseteq Files /\ None \notin Names
      /\ File0 \notin Numbers
      /\ None \notin {"done", "ended", "clsall"}
  BY DEF DiskAssumption, Files
<1>c. Len(errs) \in Nat /\ (errs = <<>> <=> Len(errs) = 0)
  OBVIOUS
<1>1. CASE Open
  <2>1. Places'
    BY <1>a, <1>b, <1>1, OpnFilStep DEF Open, Modes
  <2>2. Loading'
    BY <1>a, <1>b, <1>1 DEF Open, OpnFil, IniFdb, Begin, Modes, Loading
  <2>3. ErrorPath'
    BY <1>a, <1>1 DEF Open, OpnFil, IniFdb, Begin, Modes, Goto, ErrorPath, Closing
  <2>4. CleanPath'
    BY <1>a, <1>1 DEF Open, OpnFil, IniFdb, Modes, Goto, CleanPath, Closing
  <2> QED BY <2>1, <2>2, <2>3, <2>4 DEF Control
<1>2. CASE OpenAgain
  <2>1. Raise("File already open") /\ freFdb' = freFdb
        /\ (errs = <<>> \/ (Len(errs) <= 1 /\ freFdb = File0))
    BY <1>a, <1>2 DEF OpenAgain, AlreadyOpen, ErrorPath
  <2>2. "File already open" \in Errors
    BY DEF Errors
  <2> QED BY <2>1, <2>2, Raises
<1>3. CASE Load
  <2>1. Places'
    BY <1>a, <1>b, <1>3, OpnFilStep DEF Load, Modes
  <2>2. Loading'
    BY <1>a, <1>b, <1>3 DEF Load, OpnFil, IniFdb, Begin, Loading
  <2>3. ErrorPath'
    BY <1>a, <1>3 DEF Load, OpnFil, IniFdb, Begin, Goto, ErrorPath, Closing
  <2>4. CleanPath'
    BY <1>a, <1>3 DEF Load, OpnFil, IniFdb, Goto, CleanPath, Closing
  <2> QED BY <2>1, <2>2, <2>3, <2>4 DEF Control
<1>4. CASE Save
  <2>1. Places'
    BY <1>a, <1>b, <1>4, OpnFilStep DEF Save, Modes
  <2>2. Loading'
    BY <1>a, <1>b, <1>4 DEF Save, OpnFil, IniFdb, Begin, Loading
  <2>3. ErrorPath'
    BY <1>a, <1>4 DEF Save, OpnFil, IniFdb, Begin, Goto, ErrorPath, Closing
  <2>4. CleanPath'
    BY <1>a, <1>4 DEF Save, OpnFil, IniFdb, Goto, CleanPath, Closing
  <2> QED BY <2>1, <2>2, <2>3, <2>4 DEF Control
<1>5. CASE PrintFile
  <2>1. Places'
    BY <1>a, <1>b, <1>5 DEF PrintFile, UseFile, Begin, Goto, Places, Calling, Closing
  <2>2. Loading'
    BY <1>a, <1>b, <1>5 DEF PrintFile, UseFile, Begin, Loading
  <2>3. ErrorPath'
    BY <1>a, <1>5 DEF PrintFile, UseFile, Begin, Goto, ErrorPath, Closing
  <2>4. CleanPath'
    BY <1>a, <1>5 DEF PrintFile, UseFile, Goto, CleanPath, Closing
  <2> QED BY <2>1, <2>2, <2>3, <2>4 DEF Control
<1>6. CASE InputFile
  <2>1. Places'
    BY <1>a, <1>b, <1>6 DEF InputFile, UseFile, Begin, Goto, Places, Calling, Closing
  <2>2. Loading'
    BY <1>a, <1>b, <1>6 DEF InputFile, UseFile, Begin, Loading
  <2>3. ErrorPath'
    BY <1>a, <1>6 DEF InputFile, UseFile, Begin, Goto, ErrorPath, Closing
  <2>4. CleanPath'
    BY <1>a, <1>6 DEF InputFile, UseFile, Goto, CleanPath, Closing
  <2> QED BY <2>1, <2>2, <2>3, <2>4 DEF Control
<1>7. CASE Close
  <2>1. Places'
    BY <1>a, <1>b, <1>7 DEF Close, ClsFil, Goto, Places, Calling, Using, Closing, Allocated
  <2>2. Loading'
    BY <1>a, <1>7 DEF Close, Begin, ClsFil, Loading
  <2>3. ErrorPath'
    BY <1>a, <1>7 DEF Close, Begin, ClsFil, ErrorPath
  <2>4. CleanPath'
    BY <1>a, <1>7 DEF Close, Begin, ClsFil, CleanPath, Clean, Allocated
  <2> QED BY <2>1, <2>2, <2>3, <2>4 DEF Control
<1>8. CASE Clear
  <2>1. Places'
    BY <1>a, <1>8 DEF Clear, Begin, Goto, Places, Calling, Using, Closing
  <2>2. Loading'
    BY <1>a, <1>8 DEF Clear, Begin, Loading
  <2>3. ErrorPath'
    BY <1>a, <1>8 DEF Clear, Begin, Goto, ErrorPath, Closing
  <2>4. CleanPath'
    BY <1>a, <1>8 DEF Clear, Goto, CleanPath, Closing
  <2> QED BY <2>1, <2>2, <2>3, <2>4 DEF Control
<1>9. CASE FinPrt
  <2>1. errs' = errs /\ ptrfil' = ptrfil /\ nlonly' = nlonly /\ at = "finprt"
    BY <1>9 DEF FinPrt
  <2>2. freFdb \in Optional(Files) /\ (freFdb \in Files => freFdb # None)
    BY <1>b DEF TypeCtl
  <2>3. fdb' = IF freFdb = None THEN fdb ELSE [fdb EXCEPT ![freFdb] = NoFdb]
    BY <1>9 DEF FinPrt
  <2>4. freFdb = File0 => fdb'[File0].mode = "none"
    BY <1>b, <2>3 DEF NoFdb, TypeFdb
  <2>5. \/ /\ ~nlonly /\ Allocated(File0)' /\ freFdb' = File0 /\ closing' = File0
              /\ back' = "done"
           /\ at' \in Closing
        \/ /\ freFdb' = None /\ at' = "done"
           /\ nlonly \/ ~Allocated(File0)'
    BY <1>9 DEF FinPrt, ClsFil, Goto, Closing, Allocated
  <2>6. Places'
    BY <1>b, <2>1, <2>5 DEF Places, Calling, Using, Closing
  <2>7. Loading'
    BY <1>a, <2>1 DEF Loading
  <2>8. ErrorPath'
    <3>1. CASE freFdb' = File0
      <4>1. freFdb # File0
        BY <1>b, <2>4, <2>5, <3>1 DEF Allocated
      <4>2. Len(errs) <= 1
        BY <1>a, <2>1, <4>1 DEF ErrorPath
      <4> QED BY <1>b, <2>1, <2>5, <3>1, <4>2 DEF ErrorPath, Calling, Using, Closing
    <3>2. CASE freFdb' # File0
      <4>1. at' = "done"
        BY <2>5, <3>2
      <4>2. Len(errs) <= 1 \/ Len(errs) = 2
        BY <1>a, <2>1, Zenon DEF ErrorPath
      <4>3. ASSUME NEW k \in Nat, k <= 1 \/ k = 2 PROVE k <= 2
        BY <4>3
      <4>4. Len(errs) <= 2
        BY <1>c, <4>2, <4>3, Zenon
      <4> QED BY <2>1, <4>1, <4>4 DEF ErrorPath, Calling, Using, Closing
    <3> QED BY <3>1, <3>2
  <2>9. CleanPath'
    BY <1>b, <2>1, <2>5 DEF CleanPath, Closing
  <2> QED BY <2>6, <2>7, <2>8, <2>9 DEF Control
<1>10. CASE Done
  <2>1. Places'
    <3>1. errs' = errs /\ got' = got /\ freFdb' = freFdb /\ freFdb = None /\ Len(errs) <= 2
      BY <1>a, <1>10 DEF Done, history, Places, ErrorPath, Closing
    <3>2. CASE nlonly
      <4>1. at' = "io" /\ ptrfil' = ptrfil /\ ptrfil \in Files /\ errs = <<>>
        BY <1>a, <1>10, <3>2 DEF Done, Goto, Loading
      <4> QED BY <3>1, <4>1 DEF Places, Calling, Closing
    <3>3. CASE ~nlonly
      <4>1. at' = "ended"
        BY <1>10, <3>3 DEF Done, Goto
      <4> QED BY <3>1, <4>1 DEF Places, Calling, Using, Closing
    <3> QED BY <3>2, <3>3
  <2>2. Loading'
    BY <1>a, <1>10 DEF Done, Loading
  <2>3. ErrorPath'
    <3>1. errs' = errs /\ got' = got /\ freFdb' = freFdb /\ freFdb = None /\ Len(errs) <= 2
      BY <1>a, <1>10 DEF Done, history, Places, ErrorPath, Closing
    <3>2. CASE nlonly
      <4>1. at' = "io" /\ ptrfil' = ptrfil /\ ptrfil \in Files /\ errs = <<>>
        BY <1>a, <1>10, <3>2 DEF Done, Goto, Loading
      <4> QED BY <3>1, <4>1 DEF ErrorPath, Closing
    <3>3. CASE ~nlonly
      <4>1. at' = "ended"
        BY <1>10, <3>3 DEF Done, Goto
      <4> QED BY <3>1, <4>1 DEF ErrorPath, Calling, Using, Closing
    <3> QED BY <3>2, <3>3
  <2>4. CleanPath'
    BY <1>a, <1>10 DEF Done, Goto, CleanPath, Clean, Closing, Allocated
  <2> QED BY <2>1, <2>2, <2>3, <2>4 DEF Control
<1>11. CASE EndStatement
  <2>1. Places'
    BY <1>a, <1>11 DEF EndStatement, Goto, Places, Calling, Using, Closing
  <2>2. Loading'
    BY <1>a, <1>11 DEF EndStatement, Loading
  <2>3. ErrorPath'
    BY <1>a, <1>11 DEF EndStatement, Goto, ErrorPath, Closing
  <2>4. CleanPath'
    BY <1>a, <1>11 DEF EndStatement, CleanPath, Clean, Allocated
  <2> QED BY <2>1, <2>2, <2>3, <2>4 DEF Control
<1>12. CASE WriteEof
  <2>1. CASE Raise("Device I/O Error")
    <3>1. freFdb' = freFdb /\ (errs = <<>> \/ (Len(errs) <= 1 /\ freFdb = File0))
      BY <1>a, <1>12, <2>1 DEF WriteEof, Fails, Closing, Places, ErrorPath
    <3>2. "Device I/O Error" \in Errors
      BY DEF Errors
    <3> QED BY <3>1, <3>2, <2>1, Raises
  <2>2. CASE ~Raise("Device I/O Error")
    <3>1. Places'
      BY <1>a, <1>12, <2>2 DEF WriteEof, WriteByte, Fails, Goto, Places, Calling, Using,
           Closing, Allocated
    <3>2. Loading'
      BY <1>a, <1>12, <2>2 DEF WriteEof, WriteByte, Fails, Loading
    <3>3. ErrorPath'
      <4>1. at = "write_eof" /\ at' = "close"
            /\ UNCHANGED <<stmt, ptrfil, filnm, closing, back, nlonly, errs, fdb, freFdb>>
        BY <1>12, <2>2 DEF WriteEof, Fails, Goto
      <4> QED BY <1>a, <4>1 DEF ErrorPath, Calling, Using, Closing
    <3>4. CleanPath'
      <4>1. at = "write_eof" /\ at' = "close"
            /\ UNCHANGED <<stmt, ptrfil, filnm, closing, back, nlonly, errs, fdb, freFdb>>
        BY <1>12, <2>2 DEF WriteEof, Fails, Goto
      <4> QED BY <1>a, <4>1 DEF CleanPath, Clean, Allocated, Closing
    <3> QED BY <3>1, <3>2, <3>3, <3>4 DEF Control
  <2> QED BY <2>1, <2>2
<1>13. CASE CloseHandle
  <2>1. Places'
    BY <1>a, <1>13 DEF CloseHandle, Freed, Goto, Places, Calling, Using, Closing, TypeCtl,
         Optional
  <2>2. Loading'
    BY <1>a, <1>13 DEF CloseHandle, Freed, Loading
  <2>3. ErrorPath'
    BY <1>a, <1>13 DEF CloseHandle, Freed, Goto, ErrorPath, Calling, Using, Closing
  <2>4. CleanPath'
    <3>1. closing \in Files /\ back \in {"done", "ended", "clsall"}
      BY <1>a, <1>13 DEF CloseHandle, Places, Closing, TypeCtl, Optional
    <3>2. at' = back /\ back' = None /\ fdb' = [fdb EXCEPT ![closing] = NoFdb]
          /\ UNCHANGED <<ptrfil, nlonly>>
      BY <1>13 DEF CloseHandle, Freed, Goto
    <3>3. NoFdb.mode = "none"
      BY DEF NoFdb
    <3>4. ~Allocated(File0) => ~Allocated(File0)'
      BY <1>b, <3>1, <3>2, <3>3 DEF Allocated, TypeFdb
    <3>5. CASE back = "done"
      <4>1. closing = File0
        BY <1>a, <1>13, <3>5 DEF CloseHandle, ErrorPath, Closing
      <4>2. ~Allocated(File0)'
        BY <1>b, <3>2, <3>3, <4>1 DEF Allocated, TypeFdb
      <4> QED BY <3>2, <3>5, <4>2 DEF CleanPath, Closing
    <3>6. CASE back = "ended"
      <4>1. Clean
        BY <1>a, <1>13, <3>6 DEF CloseHandle, CleanPath, Closing
      <4> QED BY <3>2, <3>4, <3>6, <4>1 DEF CleanPath, Clean, Closing
    <3>7. CASE back = "clsall"
      BY <3>2, <3>7 DEF CleanPath, Closing
    <3> QED BY <3>1, <3>5, <3>6, <3>7
  <2> QED BY <2>1, <2>2, <2>3, <2>4 DEF Control
<1>14. CASE CloseFails
  <2>1. Raise("Device I/O Error") /\ freFdb' = freFdb
        /\ (errs = <<>> \/ (Len(errs) <= 1 /\ freFdb = File0))
    BY <1>a, <1>14 DEF CloseFails, Fails, Closing, Places, ErrorPath
  <2>2. "Device I/O Error" \in Errors
    BY DEF Errors
  <2> QED BY <2>1, <2>2, Raises
<1>15. CASE ClsAllNext
  <2>1. Places'
    BY <1>a, <1>15 DEF ClsAllNext, ClsFil, Goto, Places, Calling, Using, Closing, Allocated
  <2>2. Loading'
    BY <1>a, <1>15 DEF ClsAllNext, ClsFil, Loading
  <2>3. ErrorPath'
    BY <1>a, <1>15 DEF ClsAllNext, ClsFil, ErrorPath
  <2>4. CleanPath'
    BY <1>a, <1>15 DEF ClsAllNext, ClsFil, Goto, CleanPath
  <2> QED BY <2>1, <2>2, <2>3, <2>4 DEF Control
<1>16. CASE ClsAllEnds
  <2>1. Places'
    BY <1>a, <1>16 DEF ClsAllEnds, Goto, Places, Calling, Using, Closing
  <2>2. Loading'
    BY <1>a, <1>16 DEF ClsAllEnds, Loading
  <2>3. ErrorPath'
    BY <1>a, <1>16 DEF ClsAllEnds, Goto, ErrorPath, Closing
  <2>4. CleanPath'
    BY <1>a, <1>16 DEF ClsAllEnds, Goto, CleanPath, Closing
  <2> QED BY <2>1, <2>2, <2>3, <2>4 DEF Control
<1>17. CASE OpenHandle
  <2>1. Places'
    <3>1. at' \in {"finprt", "clsall", "io", "seek"} /\ UNCHANGED <<ptrfil, filnm, freFdb>>
          /\ freFdb = None
          /\ ptrfil \in Files /\ filnm \in Names
      BY <1>a, <1>17 DEF OpenHandle, Opened, Body, Goto, Places, Calling, Closing
    <3>2. CASE at' = "seek"
      <4>1. PICK h \in Handles : /\ slot' = [slot EXCEPT ![h] = [name |-> filnm, pos |-> 0]]
                                 /\ fdb' = [fdb EXCEPT ![ptrfil].handle = h]
        BY <1>17, <3>2 DEF OpenHandle, Opened
      <4>2. fdb'[ptrfil].handle = h /\ slot'[h].name = filnm
            /\ fdb'[ptrfil].mode = fdb[ptrfil].mode
        BY <3>1, <4>1 DEF TypeFdb, TypeDisk, Fdbs
      <4>3. (Used(fdb[ptrfil].handle) /\ SlotOf(ptrfil).name = filnm)'
        BY <1>b, <3>1, <4>2 DEF Used, SlotOf
      <4>4. Allocated(ptrfil)'
        BY <1>a, <1>17, <3>1, <4>2 DEF OpenHandle, Places, Calling, Allocated
      <4> QED BY <3>1, <3>2, <4>3, <4>4 DEF Places, Closing
    <3> QED BY <3>1, <3>2 DEF Places, Calling, Closing
  <2>2. Loading'
    <3>1. errs' = errs /\ errs = <<>> /\ ptrfil' = ptrfil /\ ptrfil \in Files
      BY <1>a, <1>17 DEF OpenHandle, Opened, Places, ErrorPath, Calling
    <3> QED BY <3>1 DEF Loading
  <2>3. ErrorPath'
    BY <1>a, <1>17 DEF OpenHandle, Opened, Body, Goto, ErrorPath, Calling, Closing
  <2>4. CleanPath'
    BY <1>a, <1>17 DEF OpenHandle, Opened, Body, Goto, CleanPath, Closing
  <2> QED BY <2>1, <2>2, <2>3, <2>4 DEF Control
<1>18. CASE OpenFails
  <2>1. CASE Raise("File not found")
    <3>1. freFdb' = freFdb /\ (errs = <<>> \/ (Len(errs) <= 1 /\ freFdb = File0))
      BY <1>a, <1>18, <2>1 DEF OpenFails, Fails, Calling, ErrorPath
    <3>2. "File not found" \in Errors
      BY DEF Errors
    <3> QED BY <3>1, <3>2, <2>1, Raises
  <2>2. CASE ~Raise("File not found")
    <3>1. Places'
      BY <1>a, <1>18, <2>2 DEF OpenFails, Fails, Goto, Places, Calling, Closing, Allocated
    <3>2. Loading'
      BY <1>a, <1>18, <2>2 DEF OpenFails, Fails, Loading
    <3>3. ErrorPath'
      BY <1>a, <1>18, <2>2 DEF OpenFails, Fails, Goto, ErrorPath, Calling, Closing
    <3>4. CleanPath'
      BY <1>a, <1>18, <2>2 DEF OpenFails, Fails, Goto, CleanPath, Closing
    <3> QED BY <3>1, <3>2, <3>3, <3>4 DEF Control
  <2> QED BY <2>1, <2>2
<1>19. CASE CreateHandle
  <2>1. Places'
    BY <1>a, <1>19 DEF CreateHandle, Opened, Body, Goto, Places, Calling, Closing
  <2>2. Loading'
    <3>1. errs' = errs /\ errs = <<>> /\ ptrfil' = ptrfil /\ ptrfil \in Files
      BY <1>a, <1>19 DEF CreateHandle, Opened, Places, ErrorPath, Calling
    <3> QED BY <3>1 DEF Loading
  <2>3. ErrorPath'
    BY <1>a, <1>19 DEF CreateHandle, Opened, Body, Goto, ErrorPath, Calling, Closing
  <2>4. CleanPath'
    BY <1>a, <1>19 DEF CreateHandle, Opened, Body, Goto, CleanPath, Closing
  <2> QED BY <2>1, <2>2, <2>3, <2>4 DEF Control
<1>20. CASE CreateFails
  <2>1. Raise("Device I/O Error") /\ freFdb' = freFdb
        /\ (errs = <<>> \/ (Len(errs) <= 1 /\ freFdb = File0))
    BY <1>a, <1>20 DEF CreateFails, Fails, Calling, ErrorPath
  <2>2. "Device I/O Error" \in Errors
    BY DEF Errors
  <2> QED BY <2>1, <2>2, Raises
<1>21. CASE AppendSeek
  <2>1. Places'
    BY <1>a, <1>21 DEF AppendSeek, Opened, Body, Goto, Places, Calling, Closing
  <2>2. Loading'
    <3>1. errs' = errs /\ errs = <<>> /\ ptrfil' = ptrfil /\ ptrfil \in Files
      BY <1>a, <1>21 DEF AppendSeek, Opened, Places, ErrorPath, Calling
    <3> QED BY <3>1 DEF Loading
  <2>3. ErrorPath'
    BY <1>a, <1>21 DEF AppendSeek, Opened, Body, Goto, ErrorPath, Calling, Closing
  <2>4. CleanPath'
    BY <1>a, <1>21 DEF AppendSeek, Opened, Body, Goto, CleanPath, Closing
  <2> QED BY <2>1, <2>2, <2>3, <2>4 DEF Control
<1>22. CASE AppendSeekFails
  <2>1. Raise("Device I/O Error") /\ freFdb' = freFdb
        /\ (errs = <<>> \/ (Len(errs) <= 1 /\ freFdb = File0))
    BY <1>a, <1>22 DEF AppendSeekFails, Calling, ErrorPath
  <2>2. "Device I/O Error" \in Errors
    BY DEF Errors
  <2> QED BY <2>1, <2>2, Raises
<1>23. CASE OutDo
  <2>1. CASE Raise("Device I/O Error")
    <3>1. freFdb' = freFdb /\ (errs = <<>> \/ (Len(errs) <= 1 /\ freFdb = File0))
      BY <1>a, <1>23, <2>1 DEF OutDo, Writing, Using, ErrorPath
    <3>2. "Device I/O Error" \in Errors
      BY DEF Errors
    <3> QED BY <3>1, <3>2, <2>1, Raises
  <2>2. CASE ~Raise("Device I/O Error")
    <3>1. Places'
      BY <1>a, <1>23, <2>2 DEF OutDo, Writing, control, Places, Calling, Closing
    <3>2. Loading'
      BY <1>a, <1>23, <2>2 DEF OutDo, Writing, control, Loading
    <3>3. ErrorPath'
      BY <1>a, <1>23, <2>2 DEF OutDo, Writing, control, ErrorPath, Closing
    <3>4. CleanPath'
      BY <1>a, <1>23, <2>2 DEF OutDo, Writing, control, CleanPath, Closing
    <3> QED BY <3>1, <3>2, <3>3, <3>4 DEF Control
  <2> QED BY <2>1, <2>2
<1>24. CASE OutputEnds
  <2>1. Places'
    BY <1>a, <1>24 DEF OutputEnds, Writing, Goto, Places, Calling, Using, Closing
  <2>2. Loading'
    BY <1>a, <1>24 DEF OutputEnds, Writing, Loading
  <2>3. ErrorPath'
    BY <1>a, <1>24 DEF OutputEnds, Writing, Goto, ErrorPath, Using, Closing
  <2>4. CleanPath'
    BY <1>a, <1>24 DEF OutputEnds, Writing, Goto, CleanPath, Closing
  <2> QED BY <2>1, <2>2, <2>3, <2>4 DEF Control
<1>25. CASE InchBacked
  <2>1. Places'
    <3>1. PICK byte : got' = [got EXCEPT ![ptrfil] = Append(@, byte)]
      BY <1>25 DEF InchBacked, Deliver
    <3>2. at' \in {"read", "more"} /\ UNCHANGED <<ptrfil, freFdb>> /\ freFdb = None
          /\ ptrfil \in Files
      BY <1>a, <1>25 DEF InchBacked, Deliver, ReadsDevice, Reading, Goto, Places, Using, Closing
    <3>3. got'[ptrfil'] = Append(got[ptrfil], byte)
      BY <3>1, <3>2 DEF TypeGot
    <3>4. got[ptrfil] \in Seq(Bytes \cup {byte})
      BY <3>2 DEF TypeGot
    <3>5. got'[ptrfil'] # <<>>
      BY <3>3, <3>4, AppendProperties
    <3> QED BY <3>2, <3>5 DEF Places, Calling, Closing
  <2>2. Loading'
    BY <1>a, <1>25 DEF InchBacked, Deliver, Loading
  <2>3. ErrorPath'
    BY <1>a, <1>25 DEF InchBacked, Deliver, Reading, Goto, ErrorPath, Using, Closing
  <2>4. CleanPath'
    BY <1>a, <1>25 DEF InchBacked, Deliver, Goto, CleanPath, Closing
  <2> QED BY <2>1, <2>2, <2>3, <2>4 DEF Control
<1>26. CASE InchByte
  <2>1. Places'
    <3>1. PICK byte : got' = [got EXCEPT ![ptrfil] = Append(@, byte)]
      BY <1>26 DEF InchByte, Deliver
    <3>2. at' \in {"read", "more"} /\ UNCHANGED <<ptrfil, freFdb>> /\ freFdb = None
          /\ ptrfil \in Files
      BY <1>a, <1>26 DEF InchByte, Deliver, ReadsDevice, Reading, Goto, Places, Using, Closing
    <3>3. got'[ptrfil'] = Append(got[ptrfil], byte)
      BY <3>1, <3>2 DEF TypeGot
    <3>4. got[ptrfil] \in Seq(Bytes \cup {byte})
      BY <3>2 DEF TypeGot
    <3>5. got'[ptrfil'] # <<>>
      BY <3>3, <3>4, AppendProperties
    <3> QED BY <3>2, <3>5 DEF Places, Calling, Closing
  <2>2. Loading'
    BY <1>a, <1>26 DEF InchByte, Deliver, ReadsDevice, Loading
  <2>3. ErrorPath'
    BY <1>a, <1>26 DEF InchByte, Deliver, ReadsDevice, Reading, Goto, ErrorPath, Using, Closing
  <2>4. CleanPath'
    BY <1>a, <1>26 DEF InchByte, Deliver, ReadsDevice, Goto, CleanPath, Closing
  <2> QED BY <2>1, <2>2, <2>3, <2>4 DEF Control
<1>27. CASE InchFails
  <2>1. Raise("Device I/O Error") /\ freFdb' = freFdb
        /\ (errs = <<>> \/ (Len(errs) <= 1 /\ freFdb = File0))
    BY <1>a, <1>27 DEF InchFails, ReadsDevice, Reading, Using, ErrorPath
  <2>2. "Device I/O Error" \in Errors
    BY DEF Errors
  <2> QED BY <2>1, <2>2, Raises
<1>28. CASE InchEof
  <2>1. CASE Raise("Input past end")
    <3>1. freFdb' = freFdb /\ (errs = <<>> \/ (Len(errs) <= 1 /\ freFdb = File0))
      BY <1>a, <1>28, <2>1 DEF InchEof, ReadsDevice, Reading, Using, ErrorPath
    <3>2. "Input past end" \in Errors
      BY DEF Errors
    <3> QED BY <3>1, <3>2, <2>1, Raises
  <2>2. CASE ~Raise("Input past end")
    <3>1. Places'
      BY <1>a, <1>28, <2>2 DEF InchEof, Goto, Places, Calling, Using, Closing
    <3>2. Loading'
      BY <1>a, <1>28, <2>2 DEF InchEof, Loading
    <3>3. ErrorPath'
      <4>1. at' = "finprt" /\ errs' = errs /\ errs = <<>>
        BY <1>a, <1>28, <2>2 DEF InchEof, Reading, Goto, ErrorPath, Using
      <4> QED BY <4>1 DEF ErrorPath, Closing
    <3>4. CleanPath'
      BY <1>a, <1>28, <2>2 DEF InchEof, Goto, CleanPath, Closing
    <3> QED BY <3>1, <3>2, <3>3, <3>4 DEF Control
  <2> QED BY <2>1, <2>2
<1>29. CASE BakChr
  <2>1. Places'
    BY <1>a, <1>29 DEF BakChr, Goto, Places, Calling, Using, Closing
  <2>2. Loading'
    BY <1>a, <1>29 DEF BakChr, Loading
  <2>3. ErrorPath'
    BY <1>a, <1>29 DEF BakChr, Reading, Goto, ErrorPath, Using, Closing
  <2>4. CleanPath'
    BY <1>a, <1>29 DEF BakChr, Goto, CleanPath, Closing
  <2> QED BY <2>1, <2>2, <2>3, <2>4 DEF Control
<1>30. CASE InputEnds
  <2>1. CASE Raise("Direct statement in file")
    <3>1. freFdb' = freFdb /\ (errs = <<>> \/ (Len(errs) <= 1 /\ freFdb = File0))
      BY <1>a, <1>30, <2>1 DEF InputEnds, Reading, Using, ErrorPath
    <3>2. "Direct statement in file" \in Errors
      BY DEF Errors
    <3> QED BY <3>1, <3>2, <2>1, Raises
  <2>2. CASE ~Raise("Direct statement in file")
    <3>1. Places'
      BY <1>a, <1>30, <2>2 DEF InputEnds, Goto, Places, Calling, Using, Closing
    <3>2. Loading'
      BY <1>a, <1>30, <2>2 DEF InputEnds, Loading
    <3>3. ErrorPath'
      <4>1. at' = "finprt" /\ errs' = errs /\ errs = <<>>
        BY <1>a, <1>30, <2>2 DEF InputEnds, Reading, Goto, ErrorPath, Using
      <4> QED BY <4>1 DEF ErrorPath, Closing
    <3>4. CleanPath'
      BY <1>a, <1>30, <2>2 DEF InputEnds, Goto, CleanPath, Closing
    <3> QED BY <3>1, <3>2, <3>3, <3>4 DEF Control
  <2> QED BY <2>1, <2>2
<1> QED BY <1>1, <1>2, <1>3, <1>4, <1>5, <1>6, <1>7, <1>8, <1>9, <1>10, <1>11, <1>12, <1>13,
       <1>14, <1>15, <1>16, <1>17, <1>18, <1>19, <1>20, <1>21, <1>22, <1>23, <1>24, <1>25,
       <1>26, <1>27, <1>28, <1>29, <1>30 DEF Step, Statement, Next

\* Every step keeps the owners of the slots: the slot of an FDB that is freed was closed
\* before, and an FDB that waits for its handle owns no slot yet.
LEMMA OwnersStep ==
  ASSUME TypeCtl, TypeFdb, TypeDisk, Places, DiskAssumption, Owners, Next
  PROVE  Owners'
<1>a. None \notin Files /\ None \notin Names /\ FreeSlot.name = None /\ NoFdb.mode = "none"
      /\ fdb \in [Files -> Fdbs]
      /\ slot \in [Handles -> Slots]
  BY DEF DiskAssumption, Files, FreeSlot, NoFdb, TypeFdb, TypeDisk
<1>f. failed \subseteq failed'
  <2>1. CASE WriteEof \/ CloseFails \/ OpenFails \/ CreateFails \/ OutDo \/ InchFails \/ OpenAgain
    BY <2>1 DEF WriteEof, CloseFails, OpenFails, CreateFails, OutDo, InchFails, OpenAgain,
         AlreadyOpen, Fails, history
  <2>2. CASE Open \/ Load \/ Save \/ PrintFile \/ InputFile \/ Close \/ Clear
    BY <2>2 DEF Open, Load, Save, OpnFil, PrintFile, InputFile, UseFile, Close, Clear, history
  <2>3. CASE FinPrt \/ Done \/ EndStatement \/ CloseHandle \/ ClsAllNext \/ ClsAllEnds
             \/ OpenHandle \/ CreateHandle
    BY <2>3 DEF FinPrt, Done, EndStatement, CloseHandle, Freed, ClsAllNext, ClsAllEnds,
         OpenHandle, CreateHandle, history
  <2>4. CASE AppendSeek \/ AppendSeekFails \/ OutputEnds \/ InchBacked \/ InchByte \/ InchEof
             \/ BakChr \/ InputEnds
    BY <2>4 DEF AppendSeek, AppendSeekFails, OutputEnds, InchBacked, InchByte, InchEof, BakChr,
         InputEnds, history
  <2> QED BY <2>1, <2>2, <2>3, <2>4 DEF Next, Step, Statement
<1>i. "final" \notin failed' =>
        /\ \A h \in Handles : Used(h) =>
             \E n \in Files : Allocated(n) /\ fdb[n].handle = h
             /\ (at \in {"open", "create"} => n # ptrfil)
        /\ at = "finprt" /\ freFdb # None => ~Used(fdb[freFdb].handle)
  BY <1>f DEF Owners
<1>w. ASSUME NEW n, NEW b, WriteByte(n, b) PROVE \A h \in Handles : slot'[h].name = slot[h].name
  <2>1. fdb[n].handle \in Handles /\ slot' = [slot EXCEPT ![fdb[n].handle].pos = @ + 1]
    BY <1>w DEF WriteByte, Used
  <2> QED BY <1>a, <2>1 DEF Slots
<1>k. ASSUME \A h \in Handles : slot'[h].name = slot[h].name,
             \A n \in Files : fdb'[n].mode = fdb[n].mode /\ fdb'[n].handle = fdb[n].handle,
             at' \notin {"open", "create"}, at' = "finprt" => freFdb' = None
      PROVE  Owners'
  BY <1>i, <1>k DEF Owners, Used, Allocated
<1>l. ASSUME slot' = slot, fdb' = fdb, at' \notin {"open", "create"},
             at' = "finprt" => freFdb' = None
      PROVE  Owners'
  BY <1>k, <1>l
<1>1. CASE OpenAgain \/ PrintFile \/ InputFile \/ Close \/ Clear
  <2>1. slot' = slot /\ fdb' = fdb
    BY <1>1 DEF OpenAgain, AlreadyOpen, PrintFile, InputFile, UseFile, Close, Clear
  <2>2. at' \notin {"open", "create"}
    BY <1>1 DEF OpenAgain, AlreadyOpen, PrintFile, InputFile, UseFile, Close, Clear, Raise,
         ClsFil, Goto
  <2>3. at' = "finprt" => freFdb' = None
    BY <1>1 DEF OpenAgain, AlreadyOpen, PrintFile, InputFile, UseFile, Close, Clear, Raise,
         ClsFil, Goto, Places, Closing
  <2> QED BY <1>l, <2>1, <2>2, <2>3
<1>2. CASE Done \/ EndStatement \/ ClsAllNext \/ ClsAllEnds \/ OutputEnds
  <2>1. slot' = slot /\ fdb' = fdb
    BY <1>2 DEF Done, EndStatement, ClsAllNext, ClsAllEnds, OutputEnds
  <2>2. at' \notin {"open", "create"}
    BY <1>2 DEF Done, EndStatement, ClsAllNext, ClsAllEnds, OutputEnds, Writing, ClsFil, Goto
  <2>3. at' = "finprt" => freFdb' = None
    BY <1>2 DEF Done, EndStatement, ClsAllNext, ClsAllEnds, OutputEnds, Writing, ClsFil, Goto,
         Places, Closing
  <2> QED BY <1>l, <2>1, <2>2, <2>3
<1>3. CASE CreateFails \/ AppendSeekFails \/ InchFails \/ InputEnds
  <2>1. slot' = slot /\ fdb' = fdb
    BY <1>3 DEF CreateFails, AppendSeekFails, InchFails, InputEnds
  <2>2. at' \notin {"open", "create"}
    BY <1>3 DEF CreateFails, AppendSeekFails, InchFails, InputEnds, ReadsDevice, Fails, Raise,
         Goto
  <2>3. at' = "finprt" => freFdb' = None
    BY <1>3 DEF CreateFails, AppendSeekFails, InchFails, InputEnds, ReadsDevice, Reading, Fails,
         Raise, Places, Closing
  <2> QED BY <1>l, <2>1, <2>2, <2>3
<1>4. CASE InchBacked \/ InchByte \/ BakChr
  <2>1. ptrfil \in Files /\ at' \notin {"open", "create"} /\ freFdb' = None
    BY <1>4 DEF InchBacked, InchByte, BakChr, ReadsDevice, Reading, Deliver, Goto, Places,
         Using, Closing
  <2>2. \A n \in Files : fdb'[n].mode = fdb[n].mode /\ fdb'[n].handle = fdb[n].handle
    BY <1>4, <1>a, <2>1 DEF InchBacked, InchByte, BakChr, Fdbs
  <2>3. \A h \in Handles : slot'[h].name = slot[h].name
    <3>1. CASE InchByte
      <4>1. fdb[ptrfil].handle \in Handles
            /\ slot' = [slot EXCEPT ![fdb[ptrfil].handle].pos = @ + 1]
        BY <3>1 DEF InchByte, Used
      <4> QED BY <1>a, <4>1 DEF Slots
    <3>2. CASE InchBacked \/ BakChr
      BY <3>2 DEF InchBacked, BakChr
    <3> QED BY <1>4, <3>1, <3>2
  <2> QED BY <1>k, <2>1, <2>2, <2>3
<1>5. CASE InchEof
  <2>1. ptrfil \in Files /\ freFdb' = None /\ at' \notin {"open", "create"}
    BY <1>5 DEF InchEof, Reading, Raise, Goto, Places, Using, Closing
  <2>2. \A n \in Files : fdb'[n].mode = fdb[n].mode /\ fdb'[n].handle = fdb[n].handle
    BY <1>5, <1>a, <2>1 DEF InchEof, Fdbs
  <2>3. \A h \in Handles : slot'[h].name = slot[h].name
    BY <1>5 DEF InchEof
  <2> QED BY <1>k, <2>1, <2>2, <2>3
<1>6. CASE OutDo
  <2>1. freFdb' = None /\ at' \notin {"open", "create"} /\ fdb' = fdb
    BY <1>6 DEF OutDo, Writing, control, Raise, Places, Closing
  <2>2. \A h \in Handles : slot'[h].name = slot[h].name
    BY <1>6, <1>w DEF OutDo
  <2> QED BY <1>k, <2>1, <2>2
<1>7. CASE WriteEof
  <2>1. CASE Fails("final", "Device I/O Error")
    BY <2>1 DEF Fails, Owners
  <2>2. CASE ~Fails("final", "Device I/O Error")
    <3>1. at' = "close" /\ fdb' = fdb
      BY <1>7, <2>2 DEF WriteEof, Goto
    <3>2. \A h \in Handles : slot'[h].name = slot[h].name
      BY <1>7, <2>2, <1>w DEF WriteEof
    <3> QED BY <1>k, <3>1, <3>2
  <2> QED BY <2>1, <2>2
<1>8. CASE Open \/ Load \/ Save
  <2>1. PICK n \in Files, x \in {IniFdb(mode, s) : mode \in Modes, s \in Stales} :
           ~Allocated(n) /\ fdb' = [fdb EXCEPT ![n] = x] /\ ptrfil' = n
    BY <1>8 DEF Open, Load, Save, OpnFil, Files, Modes
  <2>2. slot' = slot /\ at' \in {"open", "create"}
    BY <1>8 DEF Open, Load, Save, OpnFil, Goto
  <2>3. \A m \in Files : Allocated(m) => m # n /\ Allocated(m)' /\ fdb'[m].handle = fdb[m].handle
    BY <1>a, <2>1 DEF Allocated
  <2> QED BY <1>i, <2>1, <2>2, <2>3 DEF Owners, Used
<1>9. CASE FinPrt
  <2>1. slot' = slot /\ at' \in {"done", "write_eof", "close"} /\ at = "finprt"
    BY <1>9 DEF FinPrt, ClsFil, Goto
  <2>2. \A n \in Files : Allocated(n) /\ n # freFdb => Allocated(n)'
        /\ fdb'[n].handle = fdb[n].handle
    BY <1>9, <1>a DEF FinPrt, Allocated
  <2>3. freFdb \in Files \cup {None}
    BY DEF TypeCtl, Optional
  <2>4. ASSUME "final" \notin failed', NEW h \in Handles, Used(h)
        PROVE  \E n \in Files : Allocated(n)' /\ fdb'[n].handle = h
    BY <1>i, <1>a, <2>1, <2>2, <2>3, <2>4
  <2> QED BY <2>1, <2>4 DEF Owners, Used
<1>10. CASE CloseHandle
  <2>1. closing \in Files /\ fdb[closing].handle \in Handles /\ at = "close"
    BY <1>10 DEF CloseHandle, Places, Closing, Used
  <2>2. slot' = [slot EXCEPT ![fdb[closing].handle] = FreeSlot]
        /\ fdb' = [fdb EXCEPT ![closing] = NoFdb]
        /\ at' = back /\ freFdb' = None
    BY <1>10 DEF CloseHandle, Freed, Goto
  <2>3. back \notin {"open", "create"}
    BY <1>10 DEF CloseHandle, TypeCtl, Optional, Places, Closing
  <2>4. \A h \in Handles : Used(h)' => Used(h) /\ h # fdb[closing].handle
    BY <1>a, <2>1, <2>2 DEF Used
  <2>5. \A n \in Files : Allocated(n) /\ n # closing => Allocated(n)'
        /\ fdb'[n].handle = fdb[n].handle
    BY <1>a, <2>1, <2>2 DEF Allocated
  <2>6. ASSUME "final" \notin failed', NEW h \in Handles, Used(h)'
        PROVE  \E n \in Files : Allocated(n)' /\ fdb'[n].handle = h
    BY <1>i, <2>4, <2>5, <2>6
  <2> QED BY <2>2, <2>3, <2>6 DEF Owners
<1>11. CASE CloseFails
  <2>1. closing \in Files /\ freFdb = closing
    BY <1>11 DEF CloseFails, Places, Closing
  <2>2. at' = "finprt" /\ fdb' = fdb /\ freFdb' = freFdb
    BY <1>11 DEF CloseFails, Fails, Raise
  <2>3. \A h \in Handles : Used(h)' => Used(h) /\ h # fdb[closing].handle
    BY <1>11, <1>a DEF CloseFails, Used
  <2>4. ~Used(fdb[freFdb].handle)'
    BY <2>1, <2>2, <2>3 DEF Used
  <2> QED BY <1>i, <2>1, <2>2, <2>3, <2>4 DEF Owners, Allocated, Used
<1>12. CASE OpenFails
  <2>1. slot' = slot /\ fdb' = fdb /\ at = "open" /\ freFdb' = None
    BY <1>12 DEF OpenFails, Places, Closing
  <2>2. (at' = "create" /\ ptrfil' = ptrfil) \/ at' = "finprt"
    BY <1>12 DEF OpenFails, Goto, Fails, Raise
  <2> QED BY <1>i, <2>1, <2>2 DEF Owners, Used, Allocated
<1>13. ASSUME NEW h \in Handles, NEW x, ptrfil \in Files, slot' = [slot EXCEPT ![h] = x],
              fdb'[ptrfil].mode # "none", fdb'[ptrfil].handle = h,
              \A n \in Files : n # ptrfil => fdb'[n] = fdb[n],
              at \in {"open", "create"} \/ h = fdb[ptrfil].handle,
              at' \notin {"open", "create"}, at' = "finprt" => freFdb' = None
       PROVE  Owners'
  <2>1. \A g \in Handles : g # h /\ Used(g)' => Used(g)
    BY <1>13, <1>a DEF Used
  <2>2. ASSUME "final" \notin failed', NEW g \in Handles, Used(g)'
        PROVE  \E n \in Files : Allocated(n)' /\ fdb'[n].handle = g
    <3>1. CASE g = h
      BY <1>13, <3>1 DEF Allocated
    <3>2. CASE g # h
      <4>1. PICK n \in Files : Allocated(n) /\ fdb[n].handle = g
                 /\ (at \in {"open", "create"} => n # ptrfil)
        BY <1>i, <2>1, <2>2, <3>2
      <4>2. n # ptrfil
        BY <1>13, <3>2, <4>1
      <4> QED BY <1>13, <4>1, <4>2 DEF Allocated
    <3> QED BY <3>1, <3>2
  <2> QED BY <1>13, <2>2 DEF Owners
<1>14. CASE OpenHandle
  <2>1. ptrfil \in Files /\ filnm \in Names /\ at = "open" /\ freFdb' = None
        /\ at' \notin {"open", "create"}
      /\ fdb[ptrfil].mode # "none"
    BY <1>14 DEF Allocated, OpenHandle, Opened, Body, Goto, Places, Calling, Closing
  <2>2. PICK h \in Handles :
          /\ slot' = [slot EXCEPT ![h] = [name |-> filnm, pos |-> 0]]
          /\ \/ fdb' = [fdb EXCEPT ![ptrfil].handle = h, ![ptrfil].mode = "input",
                                  ![ptrfil].binary = (stmt = "save")]
             \/ fdb[ptrfil].mode # "none" /\ fdb' = [fdb EXCEPT ![ptrfil].handle = h]
    BY <1>14, <2>1 DEF OpenHandle, Opened
  <2>3. fdb'[ptrfil].mode # "none" /\ fdb'[ptrfil].handle = h
        /\ \A n \in Files : n # ptrfil => fdb'[n] = fdb[n]
    BY <1>a, <2>1, <2>2 DEF Fdbs
  <2> QED BY <1>13, <2>1, <2>2, <2>3
<1>15. CASE CreateHandle
  <2>1. ptrfil \in Files /\ filnm \in Names /\ at = "create" /\ freFdb' = None
        /\ at' \notin {"open", "create"}
    BY <1>15 DEF CreateHandle, Opened, Body, Goto, Places, Calling, Closing
  <2>2. PICK h \in Handles :
          /\ slot' = [slot EXCEPT ![h] = [name |-> filnm, pos |-> 0]]
          /\ fdb' = [fdb EXCEPT ![ptrfil].handle = h, ![ptrfil].mode = "output",
                               ![ptrfil].binary = (stmt = "save")]
    BY <1>15 DEF CreateHandle, Opened
  <2>3. fdb'[ptrfil].mode # "none" /\ fdb'[ptrfil].handle = h
        /\ \A n \in Files : n # ptrfil => fdb'[n] = fdb[n]
    BY <1>a, <2>1, <2>2 DEF Fdbs
  <2> QED BY <1>13, <2>1, <2>2, <2>3
<1>16. CASE AppendSeek
  <2>1. ptrfil \in Files /\ filnm \in Names /\ fdb[ptrfil].handle \in Handles /\ freFdb' = None
        /\ at' \notin {"open", "create"}
    BY <1>16 DEF AppendSeek, Opened, Body, Goto, Places, Calling, Closing, Used
  <2>2. PICK pos :
          /\ slot' = [slot EXCEPT ![fdb[ptrfil].handle] = [name |-> filnm, pos |-> pos]]
          /\ fdb' = [fdb EXCEPT ![ptrfil].handle = fdb[ptrfil].handle, ![ptrfil].mode = "output",
                               ![ptrfil].binary = (stmt = "save")]
    BY <1>16 DEF AppendSeek, Opened
  <2>3. fdb'[ptrfil].mode # "none" /\ fdb'[ptrfil].handle = fdb[ptrfil].handle
        /\ \A n \in Files : n # ptrfil => fdb'[n] = fdb[n]
    BY <1>a, <2>1, <2>2 DEF Fdbs
  <2> QED BY <1>13, <2>1, <2>2, <2>3
<1> QED BY <1>1, <1>2, <1>3, <1>4, <1>5, <1>6, <1>7, <1>8, <1>9, <1>10, <1>11, <1>12, <1>14,
       <1>15, <1>16 DEF Next, Step, Statement

\* The inductive invariant holds in every behaviour of the specification.
THEOREM DiskInvariant == Spec => []DiskInv
<1>1. Init => DiskInv
  <2> SUFFICES ASSUME Init PROVE DiskInv
    OBVIOUS
  <2>1. TypeCtl
    BY DEF Init, TypeCtl, Labels, Statements, Optional
  <2>2. <<>> \in Seq(Errors) /\ <<>> \in Seq(Bytes) /\ Len(<<>>) = 0
    OBVIOUS
  <2>3. TypeFdb
    BY DEF Init, TypeFdb, NoFdb, Fdbs, Stales, Optional
  <2>4. TypeDisk
    BY <2>2 DEF Init, TypeDisk, FreeSlot, Slots, Optional, Used
  <2>5. TypeGot
    BY <2>2 DEF Init, TypeGot
  <2>6. File0 \in Files /\ NoFdb.mode = "none"
    BY DEF Files, NoFdb
  <2>7. Control
    <3>1. Places
      BY DEF Init, Places, Calling, Using, Closing
    <3>2. Loading
      BY DEF Init, Loading
    <3>3. ErrorPath
      BY <2>2 DEF Init, ErrorPath, Calling, Using, Closing
    <3>4. CleanPath
      BY <2>6 DEF Init, CleanPath, Clean, Allocated, Closing
    <3> QED BY <3>1, <3>2, <3>3, <3>4 DEF Control
  <2>8. TypeOK
    BY <2>1, <2>2, <2>3, <2>4, <2>5 DEF Init, TypeOK, TypeCtl, TypeFdb, TypeDisk
  <2>9. Owners
    BY DEF Init, Owners, Used, FreeSlot
  <2> QED BY <2>7, <2>8, <2>9 DEF DiskInv
<1>2. DiskInv /\ [Next]_vars => DiskInv'
  <2> SUFFICES ASSUME DiskInv, [Next]_vars PROVE DiskInv'
    OBVIOUS
  <2>1. TypeCtl /\ TypeFdb /\ TypeDisk /\ TypeGot /\ errs \in Seq(Errors) /\ Control /\ Places
        /\ Owners
    BY DEF DiskInv, TypeOK, Control, TypeCtl, TypeFdb, TypeDisk, TypeGot
  <2>2. CASE Next
    <3>1. TypeCtl' /\ TypeFdb' /\ TypeDisk' /\ TypeGot' /\ (errs \in Seq(Errors))' /\ Control'
          /\ Owners'
      BY <2>1, <2>2, DiskAssumption, CtlType, FdbType, DiskType, GotType, ErrsType, ControlStep,
           OwnersStep
    <3> QED BY <3>1 DEF DiskInv, TypeOK, TypeCtl, TypeFdb, TypeDisk, TypeGot
  <2>3. CASE UNCHANGED vars
    BY <2>3 DEF vars, DiskInv, TypeOK, Control, Places, Loading, ErrorPath, CleanPath, Clean,
         Owners, Allocated, Used, SlotOf, Present
  <2> QED BY <2>2, <2>3
<1> QED BY <1>1, <1>2, PTL DEF Spec

\* The type invariant of Disk, which says too that FINPRT only frees an FDB that exists
\* and that a slot is open on a file that exists, holds for every set of files and slots.
THEOREM TypeCorrect == Spec => []TypeOK
<1>1. DiskInv => TypeOK
  BY DEF DiskInv
<1> QED BY <1>1, DiskInvariant, PTL

\* Whatever fails in a statement, the next one finds the console current, file 0 free,
\* FREFDB empty and no load in progress, for every set of files and slots.
THEOREM NothingLeft == Spec => []StatementLeavesNothing
<1>1. DiskInv => StatementLeavesNothing
  BY DEF DiskInv, Control, Places, CleanPath, Clean, StatementLeavesNothing, Closing
<1> QED BY <1>1, DiskInvariant, PTL

\* A statement meets two errors at most, however many files there are and whatever fails:
\* FINPRT never meets the same FDB again.
THEOREM CleanupBound == Spec => []CleanupEnds
<1>1. DiskInv => CleanupEnds
  <2> SUFFICES ASSUME DiskInv PROVE Len(errs) <= 2
    BY DEF CleanupEnds
  <2>1. at \in Labels /\ errs \in Seq(Errors) /\ ErrorPath
    BY DEF DiskInv, TypeOK, Control
  <2>2. Len(errs) \in Nat /\ Len(<<>>) = 0
    BY <2>1
  <2>3. CASE at \in {"done", "ended"}
    BY <2>1, <2>3 DEF ErrorPath
  <2>4. CASE at = "finprt"
    <3>1. Len(errs) <= 1 \/ Len(errs) = 2
      BY <2>1, <2>4, Zenon DEF ErrorPath
    <3>2. ASSUME NEW k \in Nat, k <= 1 \/ k = 2 PROVE k <= 2
      BY <3>2
    <3> QED BY <2>2, <3>1, <3>2, Zenon
  <2>5. CASE at \in Closing
    BY <2>1, <2>2, <2>5 DEF ErrorPath
  <2>6. CASE at \in Calling \cup Using \cup {"ready", "clsall"}
    BY <2>1, <2>2, <2>6 DEF ErrorPath
  <2> QED BY <2>1, <2>3, <2>4, <2>5, <2>6 DEF Labels, Calling, Using, Closing
<1> QED BY <1>1, DiskInvariant, PTL

\* As long as every final ^Z could be written, no open-file slot of the firmware is ever
\* left without a file number that can close it, for every number of files and slots.
THEOREM SlotsHaveOwners == Spec => []SlotsOwned
<1>1. DiskInv => SlotsOwned
  BY DEF DiskInv, Owners, SlotsOwned
<1> QED BY <1>1, DiskInvariant, PTL

------------------------------------------------------------------------------
(* What the files hold and what is read of them                              *)

Writes == {"print", "save", "save_a"}
Reads  == {"input", "load"}

\* Modes and statements that the code at a label goes with
Steering ==
  /\ at \in Calling => /\ stmt \in {"open", "load", "save", "save_a"}
                       /\ stmt = "open" <=> ptrfil # File0
                       /\ stmt = "load" => fdb[ptrfil].mode = "input"
                       /\ stmt \in {"save", "save_a"} => fdb[ptrfil].mode = "output"
  /\ at = "open" => fdb[ptrfil].mode \in {"input", "append"}
  /\ at = "create" => fdb[ptrfil].mode \in {"output", "append"}
  /\ at = "seek" => fdb[ptrfil].mode = "append"
  /\ at = "write_eof" => fdb[closing].mode = "output" /\ ~fdb[closing].binary
  /\ at \in Using => \/ stmt \in Reads /\ fdb[ptrfil].mode = "input"
                     \/ /\ stmt \in Writes /\ fdb[ptrfil].mode = "output"
                        /\ fdb[ptrfil].binary <=> stmt = "save"
  /\ nlonly => /\ stmt = "load" /\ ptrfil = File0 /\ fdb[File0].mode = "input"
               /\ at \in Closing => closing # File0
  /\ at = "finprt" /\ freFdb # None => ~nlonly /\ failed # {}
  /\ \A n \in Numbers : ~fdb[n].binary

\* What the steps need of the first invariant
Ground == DiskInv /\ TypeCtl /\ TypeFdb /\ TypeDisk /\ TypeGot /\ Places /\ Loading /\ ErrorPath
          /\ CleanPath

LEMMA Grounded == DiskInv => Ground
  BY DEF Ground, DiskInv, TypeOK, Control, TypeCtl, TypeFdb, TypeDisk, TypeGot

\* An error ends the statement's own business.
LEMMA RaiseSteers ==
  ASSUME Steering, NEW e, Raise(e), UNCHANGED fdb, freFdb' # None => failed' # {}
  PROVE  Steering'
  BY DEF Raise, Steering, Calling, Using

LEMMA SteeringStep ==
  ASSUME Ground, Steering, Next
  PROVE  Steering'
<1>a. /\ TypeCtl /\ TypeFdb /\ Places /\ Loading /\ ErrorPath /\ CleanPath
      /\ Files = Numbers \cup {File0} /\ File0 \notin Numbers /\ None \notin Files
      /\ NoFdb.mode = "none" /\ NoFdb.binary = FALSE
  BY DiskAssumption DEF Ground, Files, NoFdb
<1>b. at \notin Closing \cup {"finprt"} => freFdb = None
  BY <1>a DEF Places
<1>1. CASE WriteEof
  <2>1. CASE Fails("final", "Device I/O Error")
    <3>1. failed' # {} /\ Raise("Device I/O Error") /\ UNCHANGED fdb
      BY <1>1, <2>1 DEF Fails, WriteEof
    <3> QED BY <3>1, RaiseSteers
  <2>2. CASE ~Fails("final", "Device I/O Error")
    <3>1. /\ at = "write_eof" /\ at' = "close"
          /\ UNCHANGED <<stmt, ptrfil, closing, nlonly, fdb, freFdb, failed>>
      BY <1>1, <2>2 DEF WriteEof, Goto
    <3> QED BY <3>1 DEF Steering, Calling, Using, Closing
  <2> QED BY <2>1, <2>2
<1>2. CASE CloseFails
  <2>1. failed' # {} /\ Raise("Device I/O Error") /\ UNCHANGED fdb
    BY <1>2 DEF Fails, CloseFails
  <2> QED BY <2>1, RaiseSteers
<1>3. CASE OpenFails
  <2>1. CASE fdb[ptrfil].mode = "append"
    BY <1>3, <2>1 DEF OpenFails, Steering, Goto, Calling, Using, Closing
  <2>2. CASE fdb[ptrfil].mode # "append"
    <3>1. Raise("File not found") /\ UNCHANGED <<fdb, freFdb>> /\ at = "open"
      BY <1>3, <2>2 DEF Fails, OpenFails
    <3> QED BY <1>b, <3>1, RaiseSteers DEF Closing
  <2> QED BY <2>1, <2>2
<1>4. CASE CreateFails \/ AppendSeekFails
  <2>1. Raise("Device I/O Error") /\ UNCHANGED <<fdb, freFdb>> /\ at \in {"create", "seek"}
    BY <1>4 DEF CreateFails, AppendSeekFails, Fails
  <2> QED BY <1>b, <2>1, RaiseSteers DEF Closing
<1>5. CASE InchFails \/ OpenAgain
  <2>1. \/ Raise("Device I/O Error") /\ at \in Using
        \/ Raise("File already open") /\ at = "ready"
    BY <1>5 DEF InchFails, ReadsDevice, Reading, Using, OpenAgain, AlreadyOpen
  <2>2. UNCHANGED <<fdb, freFdb>>
    BY <1>5 DEF InchFails, OpenAgain, AlreadyOpen
  <2> QED BY <1>b, <2>1, <2>2, RaiseSteers DEF Closing, Using
<1>6. CASE OutDo
  <2>1. at = "io" /\ UNCHANGED <<fdb, freFdb, failed>>
    BY <1>6 DEF OutDo, Writing
  <2>2. CASE Raise("Device I/O Error")
    BY <1>b, <2>1, <2>2, RaiseSteers DEF Closing
  <2>3. CASE ~Raise("Device I/O Error")
    <3>1. UNCHANGED <<at, stmt, ptrfil, closing, nlonly>>
      BY <1>6, <2>3 DEF OutDo, control
    <3> QED BY <2>1, <3>1 DEF Steering
  <2> QED BY <2>2, <2>3
<1>7. CASE InchEof
  <2>1. /\ at \in Using /\ ptrfil \in Files /\ freFdb' = None /\ at' = "finprt" /\ ~nlonly'
        /\ fdb' = [fdb EXCEPT ![ptrfil].atEof = TRUE] /\ UNCHANGED <<stmt, ptrfil>>
    BY <1>7, <1>a, <1>b DEF InchEof, Raise, Goto, Reading, Places, Using, Closing
  <2>2. \A n \in Numbers : fdb'[n].binary = fdb[n].binary
    BY <1>a, <2>1 DEF TypeFdb, Fdbs
  <2> QED BY <2>1, <2>2 DEF Steering, Calling, Using
<1>8. CASE InputEnds
  <2>1. CASE Raise("Direct statement in file")
    <3>1. UNCHANGED <<fdb, freFdb>> /\ at \in Using
      BY <1>8 DEF InputEnds, Reading, Using
    <3> QED BY <1>b, <2>1, <3>1, RaiseSteers DEF Closing, Using
  <2>2. CASE ~Raise("Direct statement in file")
    BY <1>8, <1>b, <2>2 DEF InputEnds, Goto, Reading, Steering, Calling, Using, Closing
  <2> QED BY <2>1, <2>2
<1>9. CASE OutputEnds
  BY <1>9, <1>b DEF OutputEnds, Writing, Goto, Steering, Calling, Using, Closing
<1>10. CASE InchBacked \/ BakChr
  <2>1. /\ at \in Using /\ ptrfil \in Files /\ freFdb' = None /\ at' \in Using \cup {"finprt"}
        /\ \E b : fdb' = [fdb EXCEPT ![ptrfil].backed = b]
        /\ UNCHANGED <<stmt, ptrfil, nlonly, closing>>
    BY <1>10, <1>a, <1>b DEF InchBacked, BakChr, Deliver, Goto, Reading, Places, Using, Closing
  <2>2. \A n \in Files : fdb'[n].binary = fdb[n].binary /\ fdb'[n].mode = fdb[n].mode
    BY <1>a, <2>1 DEF TypeFdb, Fdbs
  <2> QED BY <1>a, <2>1, <2>2 DEF Steering, Calling, Using, Closing
<1>11. CASE InchByte
  <2>1. /\ at \in Using /\ at' \in Using
        /\ UNCHANGED <<stmt, ptrfil, nlonly, closing, fdb, freFdb, failed>>
    BY <1>11 DEF InchByte, Deliver, Goto, ReadsDevice, Reading, Using
  <2> QED BY <2>1 DEF Steering, Calling, Using, Closing
<1>12. CASE PrintFile \/ InputFile
  <2>1. /\ at = "ready" /\ at' = "io" /\ ptrfil' \in Numbers /\ UNCHANGED <<nlonly, fdb, freFdb>>
        /\ \/ stmt' = "print" /\ fdb[ptrfil'].mode = "output"
           \/ stmt' = "input" /\ fdb[ptrfil'].mode = "input"
    BY <1>12 DEF PrintFile, InputFile, UseFile, Begin, Goto
  <2>2. ~nlonly
    BY <1>a, <2>1 DEF CleanPath, Clean
  <2> QED BY <1>a, <2>1, <2>2 DEF Steering, Calling, Using, Closing, Reads, Writes
<1>13. CASE Open \/ Load \/ Save
  <2>1. PICK n \in Files, mode \in Modes, s \in Stales :
          /\ at = "ready" /\ ptrfil' = n /\ fdb' = [fdb EXCEPT ![n] = IniFdb(mode, s)]
          /\ at' = IF mode = "output" THEN "create" ELSE "open"
          /\ UNCHANGED <<nlonly, freFdb>>
          /\ \/ stmt' = "open" /\ n \in Numbers
             \/ stmt' = "load" /\ n = File0 /\ mode = "input"
             \/ stmt' \in {"save", "save_a"} /\ n = File0 /\ mode = "output"
    BY <1>13 DEF Open, Load, Save, OpnFil, Begin, Goto, Files, Modes
  <2>2. ~nlonly
    BY <1>a, <2>1 DEF CleanPath, Clean
  <2>3. /\ fdb'[n].mode = mode /\ ~fdb'[n].binary
        /\ \A m \in Files : m # n => fdb'[m] = fdb[m]
    BY <1>a, <2>1 DEF TypeFdb, IniFdb
  <2> QED BY <1>a, <2>1, <2>2, <2>3 DEF Steering, Calling, Using, Closing, Modes
<1>14. CASE Close
  <2>1. PICK n \in Numbers :
          /\ at = "ready" /\ closing' = n /\ UNCHANGED <<fdb, nlonly>>
          /\ at' = IF fdb[n].mode = "output" /\ ~fdb[n].binary THEN "write_eof" ELSE "close"
    BY <1>14 DEF Close, Begin, ClsFil, Goto
  <2>2. ~nlonly
    BY <1>a, <2>1 DEF CleanPath, Clean
  <2> QED BY <2>1, <2>2 DEF Steering, Calling, Using
<1>15. CASE ClsAllNext
  <2>1. PICK n \in Files :
          /\ at = "clsall" /\ closing' = n /\ UNCHANGED <<fdb, nlonly, stmt, ptrfil>>
          /\ nlonly => n # File0
          /\ at' = IF fdb[n].mode = "output" /\ ~fdb[n].binary THEN "write_eof" ELSE "close"
    BY <1>15 DEF ClsAllNext, ClsFil, Goto
  <2> QED BY <2>1 DEF Steering, Calling, Using
<1>16. CASE Clear
  <2>1. at = "ready" /\ at' = "clsall" /\ UNCHANGED <<fdb, nlonly>>
    BY <1>16 DEF Clear, Begin, Goto
  <2>2. ~nlonly
    BY <1>a, <2>1 DEF CleanPath, Clean
  <2> QED BY <2>1, <2>2 DEF Steering, Calling, Using
<1>17. CASE FinPrt
  <2> DEFINE kept == IF freFdb = None THEN fdb ELSE [fdb EXCEPT ![freFdb] = NoFdb]
  <2>1. /\ at = "finprt" /\ fdb' = kept /\ UNCHANGED <<nlonly, stmt, ptrfil, failed>>
        /\ \/ /\ ~nlonly /\ closing' = File0
              /\ at' = IF kept[File0].mode = "output" /\ ~kept[File0].binary
                       THEN "write_eof" ELSE "close"
           \/ at' = "done"
    <3>1. /\ at = "finprt" /\ fdb' = kept /\ UNCHANGED <<nlonly, stmt, ptrfil, failed>>
          /\ IF ~nlonly /\ kept[File0].mode # "none"
             THEN ClsFil(File0, "done") ELSE at' = "done"
      BY <1>17 DEF FinPrt, Goto
    <3>2. CASE ~nlonly /\ kept[File0].mode # "none"
      <4>1. ClsFil(File0, "done")
        BY <3>1, <3>2
      <4>2. closing' = File0 /\ at' = IF fdb[File0].mode = "output" /\ ~fdb[File0].binary
                                      THEN "write_eof" ELSE "close"
        BY <4>1 DEF ClsFil, Goto
      <4>3. kept[File0] = fdb[File0]
        BY <1>a, <3>2 DEF TypeFdb, TypeCtl, Optional
      <4> QED BY <3>1, <3>2, <4>2, <4>3
    <3> QED BY <3>1, <3>2
  <2>2. \A n \in Files : kept[n] = fdb[n] \/ (kept[n] = NoFdb /\ freFdb # None)
    BY <1>a DEF TypeFdb, TypeCtl, Optional
  <2> HIDE DEF kept
  <2>3. \A n \in Numbers : ~kept[n].binary
    BY <1>a, <2>2 DEF Steering
  <2>4. nlonly => kept[File0].mode = "input"
    BY <1>a, <2>1, <2>2 DEF Steering
  <2> QED BY <1>a, <2>1, <2>3, <2>4 DEF Steering, Calling, Using, Closing
<1>18. CASE Done
  <2>1. /\ at = "done" /\ UNCHANGED <<fdb, nlonly, stmt, freFdb, failed>>
        /\ IF nlonly THEN at' = "io" /\ UNCHANGED ptrfil ELSE at' = "ended"
    BY <1>18 DEF Done, Goto, history
  <2> QED BY <2>1 DEF Steering, Calling, Using, Closing, Reads
<1>19. CASE EndStatement
  <2>1. at = "ended" /\ at' = "ready" /\ UNCHANGED <<fdb, nlonly>>
    BY <1>19 DEF EndStatement, Goto
  <2>2. ~nlonly
    BY <1>a, <2>1 DEF CleanPath, Clean
  <2> QED BY <2>1, <2>2 DEF Steering, Calling, Using
<1>20. CASE CloseHandle
  <2>1. /\ at = "close" /\ closing \in Files /\ fdb' = [fdb EXCEPT ![closing] = NoFdb]
        /\ at' = back /\ freFdb' = None /\ UNCHANGED <<nlonly, stmt, ptrfil>>
    BY <1>20, <1>a DEF CloseHandle, Freed, Goto, Places, Closing
  <2>2. at' \in {"done", "ended", "clsall"}
    BY <1>a, <2>1 DEF TypeCtl, Optional, Places, Closing
  <2>3. \A n \in Files : fdb'[n] = IF n = closing THEN NoFdb ELSE fdb[n]
    BY <1>a, <2>1 DEF TypeFdb
  <2>4. nlonly => closing # File0
    BY <2>1 DEF Steering, Closing
  <2> QED BY <1>a, <2>1, <2>2, <2>3, <2>4 DEF Steering, Calling, Using, Closing
<1>21. CASE ClsAllEnds
  BY <1>21, <1>b DEF ClsAllEnds, Goto, Steering, Calling, Using, Closing
<1>o. ASSUME NEW mode, at \in Calling,
             fdb'[ptrfil].mode = mode, fdb'[ptrfil].binary = (stmt = "save"),
             \A n \in Files : n # ptrfil => fdb'[n] = fdb[n],
             mode = "input" \/ (mode = "output" /\ stmt # "load"),
             mode = "input" => stmt \in {"open", "load"},
             nlonly' = (stmt = "load"), at' = Body(ptrfil), UNCHANGED <<stmt, ptrfil, freFdb>>
      PROVE  Steering'
  <2>1. ptrfil \in Files /\ freFdb = None
    BY <1>a, <1>b, <1>o DEF Places, Calling, Closing
  <2>2. /\ stmt \in {"open", "load", "save", "save_a"}
        /\ stmt = "open" <=> ptrfil # File0
        /\ stmt = "load" => mode = "input"
    BY <1>o DEF Steering
  <2>3. at' \in {"finprt", "clsall", "io"} /\ (at' = "io" => stmt \in {"save", "save_a"})
    BY <1>o, <2>2 DEF Body
  <2>4. \A n \in Numbers : ~fdb'[n].binary
    BY <1>a, <1>o, <2>1, <2>2 DEF Steering
  <2> QED BY <1>o, <2>1, <2>2, <2>3, <2>4 DEF Steering, Calling, Using, Closing, Writes
<1>22. CASE OpenHandle
  <2>1. at = "open" /\ ptrfil \in Files /\ UNCHANGED freFdb /\ fdb \in [Files -> Fdbs]
    BY <1>22, <1>a DEF OpenHandle, Places, Calling, TypeFdb
  <2>2. CASE fdb[ptrfil].mode = "input"
    <3>1. PICK h \in Handles : Opened(ptrfil, h, "input", 0)
      BY <1>22, <2>2 DEF OpenHandle
    <3>2. /\ fdb' = [fdb EXCEPT ![ptrfil].handle = h, ![ptrfil].mode = "input",
                                ![ptrfil].binary = (stmt = "save")]
          /\ nlonly' = (stmt = "load") /\ at' = Body(ptrfil) /\ UNCHANGED <<stmt, ptrfil>>
      BY <3>1 DEF Opened, Goto
    <3>3. fdb'[ptrfil].mode = "input" /\ fdb'[ptrfil].binary = (stmt = "save")
          /\ \A n \in Files : n # ptrfil => fdb'[n] = fdb[n]
      BY <2>1, <3>2 DEF Fdbs
    <3>4. stmt \in {"open", "load"}
      BY <2>1, <2>2 DEF Steering, Calling
    <3> QED BY <1>o, <2>1, <3>2, <3>3, <3>4 DEF Calling
  <2>3. CASE fdb[ptrfil].mode # "input"
    <3>1. PICK h \in Handles : /\ fdb' = [fdb EXCEPT ![ptrfil].handle = h] /\ at' = "seek"
                               /\ UNCHANGED <<stmt, ptrfil, nlonly, failed>>
      BY <1>22, <2>3 DEF OpenHandle, Goto, history
    <3>2. \A n \in Files : fdb'[n].mode = fdb[n].mode /\ fdb'[n].binary = fdb[n].binary
      BY <2>1, <3>1 DEF Fdbs
    <3> QED BY <1>a, <2>1, <2>3, <3>1, <3>2 DEF Steering, Calling, Using, Closing
  <2> QED BY <2>2, <2>3
<1>23. CASE CreateHandle
  <2>1. at = "create" /\ ptrfil \in Files /\ UNCHANGED freFdb /\ fdb \in [Files -> Fdbs]
    BY <1>23, <1>a DEF CreateHandle, Places, Calling, TypeFdb
  <2>2. PICK h \in Handles : Opened(ptrfil, h, "output", 0)
    BY <1>23 DEF CreateHandle
  <2>3. /\ fdb' = [fdb EXCEPT ![ptrfil].handle = h, ![ptrfil].mode = "output",
                              ![ptrfil].binary = (stmt = "save")]
        /\ nlonly' = (stmt = "load") /\ at' = Body(ptrfil) /\ UNCHANGED <<stmt, ptrfil>>
    BY <2>2 DEF Opened, Goto
  <2>4. fdb'[ptrfil].mode = "output" /\ fdb'[ptrfil].binary = (stmt = "save")
        /\ \A n \in Files : n # ptrfil => fdb'[n] = fdb[n]
    BY <2>1, <2>3 DEF Fdbs
  <2>5. stmt # "load"
    BY <2>1 DEF Steering, Calling
  <2> QED BY <1>o, <2>1, <2>3, <2>4, <2>5 DEF Calling
<1>24. CASE AppendSeek
  <2>1. at = "seek" /\ ptrfil \in Files /\ UNCHANGED freFdb /\ fdb \in [Files -> Fdbs]
    BY <1>24, <1>a DEF AppendSeek, Places, Calling, TypeFdb
  <2>2. Opened(ptrfil, fdb[ptrfil].handle, "output", AppendAt(TextOf(ptrfil)))
    BY <1>24 DEF AppendSeek
  <2>3. /\ fdb' = [fdb EXCEPT ![ptrfil].handle = fdb[ptrfil].handle, ![ptrfil].mode = "output",
                              ![ptrfil].binary = (stmt = "save")]
        /\ nlonly' = (stmt = "load") /\ at' = Body(ptrfil) /\ UNCHANGED <<stmt, ptrfil>>
    BY <2>2 DEF Opened, Goto
  <2>4. fdb'[ptrfil].mode = "output" /\ fdb'[ptrfil].binary = (stmt = "save")
        /\ \A n \in Files : n # ptrfil => fdb'[n] = fdb[n]
    BY <2>1, <2>3 DEF Fdbs
  <2>5. stmt # "load"
    BY <2>1 DEF Steering, Calling
  <2> QED BY <1>o, <2>1, <2>3, <2>4, <2>5 DEF Calling
<1> QED BY <1>1, <1>2, <1>3, <1>4, <1>5, <1>6, <1>7, <1>8, <1>9, <1>10, <1>11, <1>12, <1>13,
       <1>14, <1>15, <1>16, <1>17, <1>18, <1>19, <1>20, <1>21, <1>22, <1>23, <1>24
       DEF Next, Step, Statement

\* Only an open file that is read has been read, and only one character is backed up at a time.
Fresh ==
  /\ \A n \in Files : fdb[n].mode # "input" \/ (at \in {"open", "create"} /\ n = ptrfil)
                        => got[n] = <<>> /\ fdb[n].backed = None
  /\ at = "read" \/ (at = "more" /\ stmt = "input") => fdb[ptrfil].backed = None

\* What the steps that open a file do to the FDB and the slot.
LEMMA OpenMoves ==
  ASSUME Ground, Steering, OpenHandle \/ CreateHandle \/ AppendSeek
  PROVE  \E h \in Handles, mode \in {"input", "output", "append"}, pos \in Nat :
           /\ at \in Calling /\ ptrfil \in Files /\ filnm \in Names
           /\ UNCHANGED <<stmt, ptrfil, filnm, freFdb, got, failed>>
           /\ at' = IF mode = "append" THEN "seek" ELSE Body(ptrfil)
           /\ slot' = [slot EXCEPT ![h] = [name |-> filnm, pos |-> pos]]
           /\ fdb'[ptrfil].handle = h /\ fdb'[ptrfil].mode = mode
           /\ fdb'[ptrfil].backed = fdb[ptrfil].backed
           /\ mode # "append" => fdb'[ptrfil].binary = (stmt = "save")
           /\ \A n \in Files : n # ptrfil => fdb'[n] = fdb[n]
           /\ \/ /\ at = "open" /\ ~Used(h) /\ pos = 0 /\ Present(filnm)
                 /\ mode \in {"input", "append"} /\ (mode = "input" <=> fdb[ptrfil].mode = "input")
                 /\ UNCHANGED <<content, saved>>
              \/ /\ at = "create" /\ ~Used(h) /\ pos = 0 /\ mode = "output"
                 /\ content' = Put(content, filnm, <<>>) /\ saved' = Put(saved, filnm, <<>>)
              \/ /\ at = "seek" /\ h = fdb[ptrfil].handle /\ mode = "output"
                 /\ pos = AppendAt(TextOf(ptrfil))
                 /\ UNCHANGED <<content, saved>>
<1>a. fdb \in [Files -> Fdbs] /\ Places
  BY DEF Ground, TypeFdb
<1>b. ASSUME NEW h \in Handles, NEW mode \in {"input", "output"}, NEW pos \in Nat,
             Opened(ptrfil, h, mode, pos), ptrfil \in Files
      PROVE  /\ UNCHANGED <<stmt, ptrfil, filnm>> /\ at' = Body(ptrfil)
             /\ slot' = [slot EXCEPT ![h] = [name |-> filnm, pos |-> pos]]
             /\ fdb'[ptrfil].handle = h /\ fdb'[ptrfil].mode = mode
             /\ fdb'[ptrfil].backed = fdb[ptrfil].backed
             /\ fdb'[ptrfil].binary = (stmt = "save")
             /\ \A n \in Files : n # ptrfil => fdb'[n] = fdb[n]
  <2>1. fdb' = [fdb EXCEPT ![ptrfil].handle = h, ![ptrfil].mode = mode,
                           ![ptrfil].binary = (stmt = "save")]
    BY <1>b DEF Opened
  <2>2. /\ fdb'[ptrfil].handle = h /\ fdb'[ptrfil].mode = mode
        /\ fdb'[ptrfil].backed = fdb[ptrfil].backed
        /\ fdb'[ptrfil].binary = (stmt = "save")
        /\ \A n \in Files : n # ptrfil => fdb'[n] = fdb[n]
    BY <1>a, <1>b, <2>1 DEF Fdbs
  <2> QED BY <1>b, <2>2 DEF Opened, Goto
<1>1. CASE OpenHandle
  <2>1. /\ at = "open" /\ ptrfil \in Files /\ filnm \in Names /\ at \in Calling /\ Present(filnm)
        /\ UNCHANGED <<freFdb, got, failed, content, saved>>
    BY <1>1, <1>a DEF OpenHandle, history, Places, Calling
  <2>2. CASE fdb[ptrfil].mode = "input"
    <3>1. PICK h \in Handles : ~Used(h) /\ Opened(ptrfil, h, "input", 0)
      BY <1>1, <2>2 DEF OpenHandle
    <3> QED BY <1>b, <2>1, <2>2, <3>1
  <2>3. CASE fdb[ptrfil].mode # "input"
    <3>1. PICK h \in Handles :
            /\ ~Used(h) /\ slot' = [slot EXCEPT ![h] = [name |-> filnm, pos |-> 0]]
            /\ fdb' = [fdb EXCEPT ![ptrfil].handle = h]
            /\ at' = "seek" /\ UNCHANGED <<stmt, ptrfil, filnm>>
      BY <1>1, <2>3 DEF OpenHandle, Goto
    <3>2. /\ fdb'[ptrfil].handle = h /\ fdb'[ptrfil].mode = fdb[ptrfil].mode
          /\ fdb'[ptrfil].backed = fdb[ptrfil].backed
          /\ \A n \in Files : n # ptrfil => fdb'[n] = fdb[n]
      BY <1>a, <2>1, <3>1 DEF Fdbs
    <3>3. fdb[ptrfil].mode = "append"
      BY <2>1, <2>3 DEF Steering
    <3> QED BY <2>1, <3>1, <3>2, <3>3
  <2> QED BY <2>2, <2>3
<1>2. CASE CreateHandle
  <2>1. /\ at = "create" /\ ptrfil \in Files /\ filnm \in Names /\ at \in Calling
        /\ UNCHANGED <<freFdb, got, failed>>
        /\ content' = Put(content, filnm, <<>>) /\ saved' = Put(saved, filnm, <<>>)
    BY <1>2, <1>a DEF CreateHandle, Places, Calling
  <2>2. PICK h \in Handles : ~Used(h) /\ Opened(ptrfil, h, "output", 0)
    BY <1>2 DEF CreateHandle
  <2> QED BY <1>b, <2>1, <2>2
<1>3. CASE AppendSeek
  <2>1. /\ at = "seek" /\ ptrfil \in Files /\ filnm \in Names /\ at \in Calling
        /\ UNCHANGED <<freFdb, got, failed, content, saved>>
        /\ fdb[ptrfil].handle \in Handles
    BY <1>3, <1>a DEF AppendSeek, history, Places, Calling, Used
  <2>2. Opened(ptrfil, fdb[ptrfil].handle, "output", AppendAt(TextOf(ptrfil)))
    BY <1>3 DEF AppendSeek
  <2>3. AppendAt(TextOf(ptrfil)) \in Nat
    <3>1. TextOf(ptrfil) \in Seq(Bytes)
      BY <2>1, <1>3 DEF AppendSeek, Ground, Places, TextOf, SlotOf, Used, TypeDisk, Present
    <3>2. Len(TextOf(ptrfil)) \in Nat /\ (TextOf(ptrfil) # <<>> => Len(TextOf(ptrfil)) > 0)
      BY <3>1
    <3> QED BY <3>1, <3>2 DEF AppendAt
  <2> QED BY <1>b, <2>1, <2>2, <2>3
<1> QED BY <1>1, <1>2, <1>3

LEMMA FreshStep ==
  ASSUME Ground, Steering, Fresh, Next
  PROVE  Fresh'
<1>a. /\ fdb \in [Files -> Fdbs] /\ got \in [Files -> Seq(Bytes)] /\ Places /\ CleanPath
      /\ None \notin Files
      /\ NoFdb.mode = "none" /\ NoFdb.backed = None
  BY DiskAssumption DEF Ground, TypeFdb, TypeGot, Files, NoFdb
\* A file that is no longer used is fresh.
<1>f. ASSUME NEW n \in Files, fdb' = [fdb EXCEPT ![n] = NoFdb], got' = [got EXCEPT ![n] = <<>>],
             at \notin {"open", "create"}, at' \notin {"open", "create"} \cup Using
      PROVE  Fresh'
  <2>1. \A m \in Files : /\ fdb'[m] = IF m = n THEN NoFdb ELSE fdb[m]
                         /\ got'[m] = IF m = n THEN <<>> ELSE got[m]
    BY <1>a, <1>f
  <2> QED BY <1>a, <1>f, <2>1 DEF Fresh, Using
\* A step that keeps what was read of each file, and the modes but for the file it opens.
<1>k. ASSUME UNCHANGED got, \A n \in Files : fdb'[n].backed = fdb[n].backed,
             at \in {"open", "create"} => ptrfil' = ptrfil,
             \A n \in Files : fdb'[n].mode = fdb[n].mode \/ (at \in Calling /\ n = ptrfil),
             at = "seek" => fdb'[ptrfil].mode = "output",
             at' \in {"open", "create"} => at \in {"open", "create"},
             at' \notin {"read", "more"}
      PROVE  Fresh'
  <2>1. at = "seek" => fdb[ptrfil].mode = "append"
    BY DEF Steering
  <2> QED BY <1>k, <2>1 DEF Fresh, Calling
<1>1. CASE WriteEof \/ CloseFails \/ CreateFails \/ OpenFails
  <2>1. /\ UNCHANGED <<got, fdb>> /\ at \in {"write_eof", "close", "create", "open"}
        /\ UNCHANGED ptrfil
        /\ at' \notin {"read", "more", "open"} /\ (at' = "create" => at = "open")
    BY <1>1 DEF WriteEof, CloseFails, CreateFails, OpenFails, Fails, Raise, Goto
  <2> QED BY <1>k, <2>1
<1>2. CASE AppendSeekFails
  <2>1. UNCHANGED <<got, fdb>> /\ at = "seek" /\ at' = "finprt"
    BY <1>2 DEF AppendSeekFails, Raise, history
  <2> QED BY <2>1 DEF Fresh
<1>3. CASE InchFails \/ OpenAgain \/ InputEnds \/ OutputEnds \/ Done \/ EndStatement
  <2>1. /\ UNCHANGED <<got, fdb>> /\ at \notin Calling
        /\ at' \notin {"read", "more", "open", "create"}
    BY <1>3 DEF InchFails, ReadsDevice, Reading, OpenAgain, AlreadyOpen, InputEnds, OutputEnds,
         Writing, Done, EndStatement, Raise, Goto, history, Calling
  <2> QED BY <1>k, <2>1 DEF Calling
<1>4. CASE PrintFile \/ InputFile \/ Close \/ Clear \/ ClsAllNext \/ ClsAllEnds
  <2>1. /\ UNCHANGED <<got, fdb>> /\ at \notin Calling
        /\ at' \notin {"read", "more", "open", "create"}
    BY <1>4 DEF PrintFile, InputFile, UseFile, Close, Clear, Begin, ClsAllNext, ClsAllEnds, ClsFil,
         Goto, history, Calling
  <2> QED BY <1>k, <2>1 DEF Calling
<1>5. CASE OutDo
  <2>1. UNCHANGED <<got, fdb>> /\ at = "io" /\ at' \in {"io", "finprt"}
    BY <1>5 DEF OutDo, Writing, Raise, control
  <2> QED BY <2>1 DEF Fresh
<1>6. CASE InchEof
  <2>1. /\ UNCHANGED got /\ ptrfil \in Files /\ at \in Using
        /\ fdb' = [fdb EXCEPT ![ptrfil].atEof = TRUE] /\ at' = "finprt"
    BY <1>6, <1>a DEF InchEof, Reading, Raise, Goto, history, Places, Using
  <2>2. \A n \in Files : fdb'[n].backed = fdb[n].backed /\ fdb'[n].mode = fdb[n].mode
    BY <1>a, <2>1 DEF Fdbs
  <2> QED BY <1>k, <2>1, <2>2 DEF Calling, Using
<1>7. CASE InchBacked
  <2>1. /\ ptrfil \in Files /\ at \in Using /\ UNCHANGED <<stmt, ptrfil>>
        /\ fdb' = [fdb EXCEPT ![ptrfil].backed = None] /\ at' \in {"read", "more"}
        /\ \A n \in Files : n # ptrfil => got'[n] = got[n]
        /\ stmt \in Reads
    BY <1>7, <1>a DEF InchBacked, Reading, Deliver, Goto, Places, Using, Reads
  <2>2. \A n \in Files : /\ fdb'[n].mode = fdb[n].mode
                         /\ fdb'[n].backed = IF n = ptrfil THEN None ELSE fdb[n].backed
    BY <1>a, <2>1 DEF Fdbs
  <2>3. fdb[ptrfil].mode = "input"
    BY <2>1 DEF Steering, Reads, Writes
  <2> QED BY <2>1, <2>2, <2>3 DEF Fresh, Using
<1>8. CASE InchByte
  <2>1. /\ ptrfil \in Files /\ at \in Using /\ UNCHANGED <<stmt, ptrfil, fdb>>
        /\ at' \in {"read", "more"} /\ fdb[ptrfil].backed = None
        /\ \A n \in Files : n # ptrfil => got'[n] = got[n]
        /\ stmt \in Reads
    BY <1>8, <1>a DEF InchByte, ReadsDevice, Reading, Deliver, Goto, Places, Using, Reads
  <2>3. fdb[ptrfil].mode = "input"
    BY <2>1 DEF Steering, Reads, Writes
  <2> QED BY <2>1, <2>3 DEF Fresh, Using
<1>9. CASE BakChr
  <2>1. /\ ptrfil \in Files /\ at \in Using /\ UNCHANGED <<stmt, ptrfil>> /\ stmt \in Reads
        /\ \E b : fdb' = [fdb EXCEPT ![ptrfil].backed = b]
        /\ at' = IF stmt = "load" THEN "more" ELSE "finprt"
        /\ \A n \in Files : n # ptrfil => got'[n] = got[n]
    BY <1>9, <1>a DEF BakChr, Reading, Goto, Places, Using, Reads
  <2>2. \A n \in Files : /\ fdb'[n].mode = fdb[n].mode
                         /\ n # ptrfil => fdb'[n].backed = fdb[n].backed
    BY <1>a, <2>1 DEF Fdbs
  <2>3. fdb[ptrfil].mode = "input"
    BY <2>1 DEF Steering, Reads, Writes
  <2> QED BY <2>1, <2>2, <2>3 DEF Fresh, Using
<1>10. CASE Open \/ Load \/ Save
  <2>1. PICK n \in Files, mode \in Modes, s \in Stales :
          /\ at = "ready" /\ ptrfil' = n /\ fdb' = [fdb EXCEPT ![n] = IniFdb(mode, s)]
          /\ at' \in {"create", "open"} /\ fdb[n].mode = "none" /\ UNCHANGED got
    BY <1>10 DEF Open, Load, Save, OpnFil, Begin, Goto, Files, Modes, Allocated, history
  <2>2. /\ fdb'[n].backed = None /\ got[n] = <<>>
        /\ \A m \in Files : m # n => fdb'[m] = fdb[m]
    BY <1>a, <2>1 DEF IniFdb, Fresh
  <2> QED BY <2>1, <2>2 DEF Fresh
<1>11. CASE FinPrt
  <2>1. CASE freFdb = None
    <3>1. /\ fdb' = fdb /\ at = "finprt" /\ at' \in {"write_eof", "close", "done"}
          /\ got' = [n \in Files |-> got[n]]
      BY <1>11, <1>a, <2>1 DEF FinPrt, ClsFil, Goto
    <3>2. got' = got
      BY <1>a, <3>1
    <3> QED BY <1>k, <3>1, <3>2 DEF Calling
  <2>2. CASE freFdb # None
    <3>1. freFdb \in Files
      BY <2>2 DEF Ground, TypeCtl, Optional
    <3>2. /\ fdb' = [fdb EXCEPT ![freFdb] = NoFdb] /\ at = "finprt"
          /\ at' \in {"write_eof", "close", "done"}
          /\ got' = [n \in Files |-> IF n = freFdb THEN <<>> ELSE got[n]]
      BY <1>11, <2>2 DEF FinPrt, ClsFil, Goto
    <3>3. got' = [got EXCEPT ![freFdb] = <<>>]
      BY <1>a, <3>2
    <3> QED BY <1>f, <3>1, <3>2, <3>3 DEF Using
  <2> QED BY <2>1, <2>2
<1>12. CASE CloseHandle
  <2>1. /\ at = "close" /\ closing \in Files /\ fdb' = [fdb EXCEPT ![closing] = NoFdb]
        /\ got' = [got EXCEPT ![closing] = <<>>]
        /\ at' = back /\ back \in {"done", "ended", "clsall"}
    BY <1>12, <1>a DEF CloseHandle, Freed, Goto, Places, Closing, Ground, TypeCtl, Optional
  <2> QED BY <1>f, <2>1 DEF Using
<1>13. CASE OpenHandle \/ CreateHandle \/ AppendSeek
  <2>1. /\ UNCHANGED <<got, ptrfil>> /\ ptrfil \in Files
        /\ at \in Calling /\ at' \in {"finprt", "clsall", "io", "seek"}
        /\ fdb'[ptrfil].backed = fdb[ptrfil].backed
        /\ \A n \in Files : n # ptrfil => fdb'[n] = fdb[n]
        /\ at = "seek" => fdb'[ptrfil].mode = "output"
    BY <1>13, OpenMoves DEF Body
  <2>2. \A n \in Files : fdb'[n].backed = fdb[n].backed
    BY <2>1
  <2>3. \A n \in Files : fdb'[n].mode = fdb[n].mode \/ (at \in Calling /\ n = ptrfil)
    BY <2>1
  <2> QED BY <1>k, <2>1, <2>2, <2>3
<1> QED BY <1>1, <1>2, <1>3, <1>4, <1>5, <1>6, <1>7, <1>8, <1>9, <1>10, <1>11, <1>12, <1>13
       DEF Next, Step, Statement

\* The FDB waits for a handle, or for FINPRT to free it.
Waiting(n) == \/ at \in {"open", "create"} /\ n = ptrfil
              \/ at = "finprt" /\ n = freFdb

Holds(n) == Allocated(n) /\ ~Waiting(n)

\* Every other FDB has an open slot of its own.
Each == /\ \A n \in Files : Holds(n) => Used(fdb[n].handle)
        /\ \A n, m \in Files : Holds(n) /\ Holds(m) /\ fdb[n].handle = fdb[m].handle => n = m

\* What is written is open under no other number.
Apart ==
  /\ \A n, m \in Files :
       Holds(n) /\ Holds(m) /\ n # m /\ SlotOf(n).name = SlotOf(m).name => fdb[n].mode = "input"
  /\ at \in {"open", "create"} =>
       \A n \in Files : Holds(n) /\ SlotOf(n).name = filnm
                          => fdb[n].mode = "input" /\ fdb[ptrfil].mode = "input"

\* A step keeps the slot of an FDB, or it is the one that gives it a free slot.
Keeps(n) == /\ Holds(n) /\ fdb'[n].handle = fdb[n].handle
            /\ fdb'[n].mode = "input" <=> fdb[n].mode = "input"
            /\ slot'[fdb[n].handle].name = slot[fdb[n].handle].name

Takes(n) == /\ n = ptrfil /\ at \in {"open", "create"} /\ at' \notin {"open", "create"}
            /\ ~Used(fdb'[n].handle) /\ fdb'[n].handle \in Handles
            /\ slot'[fdb'[n].handle].name = filnm /\ filnm # None
            /\ fdb'[n].mode = "input" <=> fdb[n].mode = "input"

LEMMA ApartKept ==
  ASSUME Each, Apart, ptrfil' = ptrfil \/ at \notin {"open", "create"},
         \A n \in Files : Holds(n)' => Keeps(n) \/ Takes(n),
         at' \in {"open", "create"} =>
           \A n \in Files : Holds(n) /\ SlotOf(n).name = filnm'
                              => fdb[n].mode = "input" /\ fdb'[ptrfil'].mode = "input"
  PROVE  Each' /\ Apart'
<1>1. ASSUME NEW n \in Files, Holds(n)' PROVE Used(fdb[n].handle)'
  BY <1>1 DEF Each, Keeps, Takes, Used
<1>2. ASSUME NEW n \in Files, NEW m \in Files, Holds(n)', Holds(m)', fdb'[n].handle = fdb'[m].handle
      PROVE  n = m
  BY <1>2 DEF Each, Keeps, Takes
<1>3. ASSUME NEW n \in Files, NEW m \in Files, Holds(n)', Holds(m)', n # m,
             SlotOf(n)'.name = SlotOf(m)'.name
      PROVE  fdb'[n].mode = "input"
  <2>1. CASE Keeps(n) /\ Keeps(m)
    <3>1. SlotOf(n).name = SlotOf(m).name
      BY <1>3, <2>1 DEF Keeps, SlotOf
    <3> QED BY <1>3, <2>1, <3>1 DEF Keeps, Apart
  <2>2. CASE Takes(n) /\ Keeps(m)
    <3>1. SlotOf(m).name = filnm
      BY <1>3, <2>2 DEF Keeps, Takes, SlotOf
    <3> QED BY <1>3, <2>2, <3>1 DEF Keeps, Takes, Apart
  <2>3. CASE Keeps(n) /\ Takes(m)
    <3>1. SlotOf(n).name = filnm
      BY <1>3, <2>3 DEF Keeps, Takes, SlotOf
    <3> QED BY <1>3, <2>3, <3>1 DEF Keeps, Takes, Apart
  <2> QED BY <1>3, <2>1, <2>2, <2>3 DEF Takes
<1>4. ASSUME at' \in {"open", "create"}, NEW n \in Files, Holds(n)', SlotOf(n)'.name = filnm'
      PROVE  fdb'[n].mode = "input" /\ fdb'[ptrfil'].mode = "input"
  <2>1. Keeps(n)
    BY <1>4 DEF Takes
  <2>2. SlotOf(n).name = filnm'
    BY <1>4, <2>1 DEF Keeps, SlotOf
  <2> QED BY <1>4, <2>1, <2>2 DEF Keeps
<1> QED BY <1>1, <1>2, <1>3, <1>4 DEF Each, Apart

\* A step that leaves slots and modes alone and makes no FDB wait less.
LEMMA ApartQuiet ==
  ASSUME Each, Apart,
         \A n \in Files : /\ fdb'[n].mode = fdb[n].mode /\ fdb'[n].handle = fdb[n].handle
                          /\ slot'[fdb[n].handle].name = slot[fdb[n].handle].name,
         at \notin {"open", "create", "finprt"}
           \/ (at = "open" /\ at' = "create" /\ UNCHANGED <<ptrfil, filnm>> /\ ptrfil \in Files),
         at' = "open" => FALSE,
         at' = "create" => at = "open"
  PROVE  Each' /\ Apart'
<1>1. \A n \in Files : Holds(n)' => Keeps(n)
  BY DEF Holds, Waiting, Allocated, Keeps
<1> QED BY <1>1, ApartKept DEF Apart

LEMMA ApartStep ==
  ASSUME Ground, Steering, Each, Apart, Next, "open" \notin failed'
  PROVE  Each' /\ Apart'
<1>a. /\ fdb \in [Files -> Fdbs] /\ slot \in [Handles -> Slots] /\ Places /\ CleanPath
      /\ None \notin Files /\ None \notin Names /\ NoFdb.mode = "none"
  BY DiskAssumption DEF Ground, TypeFdb, TypeDisk, Files, NoFdb
<1>1. CASE OpenFails \/ CreateFails
  <2>1. /\ UNCHANGED <<fdb, slot, ptrfil, filnm>> /\ at = "open" /\ at' = "create"
        /\ ptrfil \in Files
    BY <1>1, <1>a DEF OpenFails, CreateFails, Fails, Goto, Places, Calling
  <2> QED BY <2>1, ApartQuiet
<1>2. CASE AppendSeekFails \/ InchFails \/ OpenAgain \/ InputEnds \/ OutputEnds \/ Done
           \/ EndStatement
  <2>1. /\ UNCHANGED <<fdb, slot>> /\ at \notin {"open", "create", "finprt"}
        /\ at' \notin {"open", "create"}
    BY <1>2 DEF AppendSeekFails, InchFails, ReadsDevice, Reading, OpenAgain, AlreadyOpen,
         InputEnds, OutputEnds, Writing, Done, EndStatement, Raise, Goto
  <2> QED BY <2>1, ApartQuiet
<1>3. CASE PrintFile \/ InputFile \/ Close \/ Clear \/ ClsAllNext \/ ClsAllEnds
  <2>1. /\ UNCHANGED <<fdb, slot>> /\ at \notin {"open", "create", "finprt"}
        /\ at' \notin {"open", "create"}
    BY <1>3 DEF PrintFile, InputFile, UseFile, Close, Clear, Begin, ClsAllNext, ClsAllEnds, ClsFil,
         Goto
  <2> QED BY <2>1, ApartQuiet
<1>w. ASSUME NEW n \in Files, NEW b, WriteByte(n, b)
      PROVE  \A h : slot'[h].name = slot[h].name \/ h \notin Handles
  BY <1>w, <1>a DEF WriteByte, Used, Slots
<1>n. \A n \in Files : Holds(n) => fdb[n].handle \in Handles
  BY DEF Each, Used
<1>4. CASE WriteEof \/ OutDo
  <2>1. /\ UNCHANGED fdb /\ at \in {"write_eof", "io"} /\ at' \in {"close", "io", "finprt"}
        /\ slot' = slot \/ \E n \in Files, b \in Bytes : WriteByte(n, b)
    BY <1>4, <1>a DEF WriteEof, OutDo, Fails, Raise, Goto, Writing, control, Bytes, Places, Closing,
         Using
  <2>2. \A h \in Handles : slot'[h].name = slot[h].name
    BY <1>w, <2>1
  <2>3. \A n \in Files : Holds(n)' => Keeps(n)
    <3>1. ASSUME NEW n \in Files, Holds(n)' PROVE Holds(n)
      BY <2>1, <3>1 DEF Holds, Waiting, Allocated
    <3> QED BY <1>n, <2>1, <2>2, <3>1 DEF Keeps
  <2> QED BY <2>1, <2>3, ApartKept
<1>5. CASE InchEof \/ InchBacked \/ BakChr
  <2>1. /\ ptrfil \in Files /\ at \in Using /\ at' \in Using \cup {"finprt"} /\ UNCHANGED slot
        /\ \/ fdb' = [fdb EXCEPT ![ptrfil].atEof = TRUE]
           \/ \E b : fdb' = [fdb EXCEPT ![ptrfil].backed = b]
    BY <1>5, <1>a DEF InchEof, InchBacked, BakChr, Reading, Raise, Deliver, Goto, Places, Using
  <2>2. \A n \in Files : fdb'[n].mode = fdb[n].mode /\ fdb'[n].handle = fdb[n].handle
    BY <1>a, <2>1 DEF Fdbs
  <2> QED BY <2>1, <2>2, ApartQuiet DEF Using
<1>6. CASE InchByte
  <2>1. /\ ptrfil \in Files /\ at \in Using /\ at' \in Using /\ UNCHANGED fdb
        /\ slot' = [slot EXCEPT ![fdb[ptrfil].handle].pos = @ + 1] /\ fdb[ptrfil].handle \in Handles
    BY <1>6, <1>a DEF InchByte, ReadsDevice, Reading, Deliver, Goto, Places, Using, Used
  <2>2. \A h \in Handles : slot'[h].name = slot[h].name
    BY <1>a, <2>1 DEF Slots
  <2>3. \A n \in Files : Holds(n)' => Keeps(n)
    <3>1. ASSUME NEW n \in Files, Holds(n)' PROVE Holds(n)
      BY <2>1, <3>1 DEF Holds, Waiting, Allocated, Using
    <3> QED BY <1>n, <2>1, <2>2, <3>1 DEF Keeps
  <2> QED BY <2>1, <2>3, ApartKept DEF Using
<1>7. CASE Open \/ Load \/ Save
  <2>1. PICK n \in Files, mode \in Modes, s \in Stales :
          /\ at = "ready" /\ ptrfil' = n /\ fdb' = [fdb EXCEPT ![n] = IniFdb(mode, s)]
          /\ at' \in {"create", "open"} /\ Shares(mode, filnm') /\ UNCHANGED slot
    BY <1>7 DEF Open, Load, Save, OpnFil, Begin, Goto, Files, Modes
  <2>2. /\ fdb'[n].mode = mode
        /\ \A m \in Files : m # n => fdb'[m] = fdb[m]
    BY <1>a, <2>1 DEF IniFdb
  <2>3. \A m \in Files : Holds(m)' => Keeps(m)
    BY <2>1, <2>2 DEF Holds, Waiting, Allocated, Keeps
  <2>4. \A m \in Files : Holds(m) /\ SlotOf(m).name = filnm'
                           => fdb[m].mode = "input" /\ fdb'[ptrfil'].mode = "input"
    BY <2>1, <2>2 DEF Shares, Each, Holds
  <2> QED BY <2>1, <2>3, <2>4, ApartKept
<1>8. CASE FinPrt
  <2> DEFINE kept == IF freFdb = None THEN fdb ELSE [fdb EXCEPT ![freFdb] = NoFdb]
  <2>1. /\ fdb' = kept /\ at = "finprt" /\ at' \in {"write_eof", "close", "done"} /\ UNCHANGED slot
    BY <1>8 DEF FinPrt, ClsFil, Goto
  <2>2. \A n \in Files : kept[n] = IF n = freFdb THEN NoFdb ELSE fdb[n]
    BY <1>a DEF Ground, TypeCtl, Optional
  <2> HIDE DEF kept
  <2>3. \A n \in Files : Holds(n)' => Keeps(n)
    BY <1>a, <2>1, <2>2 DEF Holds, Waiting, Allocated, Keeps
  <2> QED BY <2>1, <2>3, ApartKept
<1>9. CASE CloseHandle \/ CloseFails
  <2>1. /\ at = "close" /\ closing \in Files /\ Allocated(closing) /\ freFdb = closing
        /\ back \in {"done", "ended", "clsall"}
    BY <1>9, <1>a DEF CloseHandle, CloseFails, Places, Closing, Ground, TypeCtl, Optional
  <2>2. Holds(closing)
    BY <2>1 DEF Holds, Waiting
  <2>3. slot' = [slot EXCEPT ![fdb[closing].handle] = FreeSlot]
    BY <1>9, <2>2, <2>1 DEF Each, CloseHandle, CloseFails
  <2>4. \/ at' = back /\ fdb' = [fdb EXCEPT ![closing] = NoFdb]
        \/ at' = "finprt" /\ freFdb' = closing /\ fdb' = fdb
    BY <1>9, <2>1 DEF CloseHandle, Freed, Goto, CloseFails, Fails, Raise
  <2>5. \A n \in Files : Holds(n)' => n # closing /\ Holds(n) /\ fdb'[n] = fdb[n]
    BY <1>a, <2>1, <2>4 DEF Holds, Waiting, Allocated
  <2>6. \A n \in Files : Holds(n)' => fdb[n].handle # fdb[closing].handle
    BY <2>1, <2>2, <2>5 DEF Each
  <2>7. \A n \in Files : Holds(n)' => slot'[fdb[n].handle] = slot[fdb[n].handle]
    BY <1>a, <1>n, <2>3, <2>5, <2>6
  <2>8. \A n \in Files : Holds(n)' => Keeps(n)
    BY <2>5, <2>7 DEF Keeps
  <2> QED BY <2>1, <2>4, <2>8, ApartKept
<1>10. CASE OpenHandle \/ CreateHandle \/ AppendSeek
  <2>1. PICK h \in Handles, mode \in {"input", "output", "append"}, pos \in Nat :
           /\ at \in Calling /\ ptrfil \in Files /\ filnm \in Names /\ ptrfil' = ptrfil
           /\ freFdb' = freFdb
           /\ at' \in {"seek", "finprt", "clsall", "io"}
           /\ slot' = [slot EXCEPT ![h] = [name |-> filnm, pos |-> pos]]
           /\ fdb'[ptrfil].handle = h /\ fdb'[ptrfil].mode = mode
           /\ \A n \in Files : n # ptrfil => fdb'[n] = fdb[n]
           /\ \/ at = "open" /\ ~Used(h) /\ (mode = "input" <=> fdb[ptrfil].mode = "input")
              \/ at = "create" /\ ~Used(h) /\ mode = "output"
              \/ at = "seek" /\ h = fdb[ptrfil].handle /\ mode = "output"
    BY <1>10, OpenMoves DEF Body
  <2>2. \A g \in Handles : slot'[g] = IF g = h THEN [name |-> filnm, pos |-> pos] ELSE slot[g]
    BY <1>a, <2>1
  <2>3. freFdb = None /\ \A n \in Files : n # ptrfil /\ Holds(n)' => Holds(n)
    BY <1>a, <2>1 DEF Holds, Waiting, Allocated, Places, Calling, Closing
  <2>4. CASE at \in {"open", "create"}
    <3>1. \A n \in Files : n # ptrfil /\ Holds(n)' => Keeps(n)
      BY <1>n, <2>1, <2>2, <2>3, <2>4 DEF Keeps, Each
    <3>2. Takes(ptrfil)
      BY <1>a, <2>1, <2>2, <2>4 DEF Takes, Steering
    <3> QED BY <2>1, <3>1, <3>2, ApartKept
  <2>5. CASE at = "seek"
    <3>1. Holds(ptrfil) /\ SlotOf(ptrfil).name = filnm /\ h = fdb[ptrfil].handle
      BY <1>a, <2>1, <2>5 DEF Holds, Waiting, Places, Calling
    <3>2. \A n \in Files : n # ptrfil /\ Holds(n)' => Keeps(n)
      <4>1. ASSUME NEW n \in Files, n # ptrfil, Holds(n)' PROVE fdb[n].handle # h
        BY <2>1, <2>3, <3>1, <4>1 DEF Each
      <4> QED BY <1>n, <2>1, <2>2, <2>3, <4>1 DEF Keeps
    <3>3. Keeps(ptrfil)
      BY <2>1, <2>2, <2>5, <3>1 DEF Keeps, SlotOf, Steering
    <3> QED BY <2>1, <3>2, <3>3, ApartKept
  <2> QED BY <2>1, <2>4, <2>5
<1> QED BY <1>1, <1>2, <1>3, <1>4, <1>5, <1>6, <1>7, <1>8, <1>9, <1>10 DEF Next, Step, Statement

\* What programs were given of a file and the character that is backed up
Given(n) == IF fdb[n].backed = None THEN got[n] ELSE Append(got[n], fdb[n].backed)

\* They are the bytes before the position of the slot.
Right(n) == SlotOf(n).pos <= Len(TextOf(n)) /\ SubSeq(TextOf(n), 1, SlotOf(n).pos) = Given(n)

InOrder == \A n \in Files : Holds(n) /\ fdb[n].mode = "input" => Right(n)

\* A step does not touch an FDB, its slot and its file.
Steady(n) == /\ Holds(n) /\ fdb'[n].mode = fdb[n].mode /\ fdb'[n].handle = fdb[n].handle
             /\ fdb'[n].backed = fdb[n].backed /\ got'[n] = got[n]
             /\ slot'[fdb[n].handle] = slot[fdb[n].handle]
             /\ content'[SlotOf(n).name] = content[SlotOf(n).name]

LEMMA InOrderKept ==
  ASSUME InOrder, \A n \in Files : Holds(n)' /\ fdb'[n].mode = "input" => Steady(n) \/ Right(n)'
  PROVE  InOrder'
<1>1. ASSUME NEW n \in Files, Steady(n), Right(n) PROVE Right(n)'
  <2>1. SlotOf(n)' = SlotOf(n)
    BY <1>1 DEF Steady, SlotOf
  <2>2. TextOf(n)' = TextOf(n)
    BY <1>1, <2>1 DEF Steady, TextOf
  <2>3. Given(n)' = Given(n)
    BY <1>1 DEF Steady, Given
  <2> QED BY <1>1, <2>1, <2>2, <2>3 DEF Right
<1> QED BY <1>1 DEF InOrder, Steady

\* What is open has a file.
LEMMA HoldsFile ==
  ASSUME Ground, Each, NEW n \in Files, Holds(n)
  PROVE  /\ fdb[n].handle \in Handles /\ SlotOf(n).name \in DOMAIN content
         /\ SlotOf(n).pos \in Nat /\ TextOf(n) \in Seq(Bytes)
<1>1. Used(fdb[n].handle)
  BY DEF Each
<1> QED BY <1>1 DEF Ground, TypeDisk, Used, Present, SlotOf, TextOf, Slots

LEMMA InOrderStep ==
  ASSUME Ground, Steering, Fresh, Each, Apart, InOrder, Next, "open" \notin failed'
  PROVE  InOrder'
<1>a. /\ fdb \in [Files -> Fdbs] /\ slot \in [Handles -> Slots] /\ got \in [Files -> Seq(Bytes)]
      /\ Places /\ CleanPath
      /\ None \notin Files /\ None \notin Bytes /\ NoFdb.mode = "none"
  BY DiskAssumption DEF Ground, TypeFdb, TypeDisk, TypeGot, Files, NoFdb, Bytes
<1>n. \A n \in Files : Holds(n) => fdb[n].handle \in Handles
  BY HoldsFile
<1>q. ASSUME \A n \in Files : /\ fdb'[n].mode = fdb[n].mode /\ fdb'[n].handle = fdb[n].handle
                              /\ fdb'[n].backed = fdb[n].backed,
             UNCHANGED <<slot, content, got>>,
             at \notin {"open", "create", "finprt"}
               \/ (at = "open" /\ at' = "create" /\ UNCHANGED ptrfil)
      PROVE  InOrder'
  <2>1. \A n \in Files : Holds(n)' => Steady(n)
    BY <1>q DEF Holds, Waiting, Allocated, Steady
  <2> QED BY <2>1, InOrderKept
<1>1. CASE OpenFails \/ CreateFails
  <2>1. /\ UNCHANGED <<fdb, slot, content, got, ptrfil>> /\ at = "open" /\ at' = "create"
    BY <1>1 DEF OpenFails, CreateFails, Fails, Goto
  <2> QED BY <2>1, <1>q
<1>2. CASE AppendSeekFails \/ InchFails \/ OpenAgain \/ InputEnds \/ OutputEnds \/ Done
           \/ EndStatement
  <2>1. UNCHANGED <<fdb, slot, content, got>> /\ at \notin {"open", "create", "finprt"}
    BY <1>2 DEF AppendSeekFails, InchFails, ReadsDevice, Reading, OpenAgain, AlreadyOpen,
         InputEnds, OutputEnds, Writing, Done, EndStatement, history
  <2> QED BY <2>1, <1>q
<1>3. CASE PrintFile \/ InputFile \/ Close \/ Clear \/ ClsAllNext \/ ClsAllEnds
  <2>1. UNCHANGED <<fdb, slot, content, got>> /\ at \notin {"open", "create", "finprt"}
    BY <1>3 DEF PrintFile, InputFile, UseFile, Close, Clear, Begin, ClsAllNext, ClsAllEnds, history
  <2> QED BY <2>1, <1>q
<1>4. CASE InchEof
  <2>1. /\ ptrfil \in Files /\ at \in Using /\ UNCHANGED <<slot, content, got>>
        /\ fdb' = [fdb EXCEPT ![ptrfil].atEof = TRUE]
    BY <1>4, <1>a DEF InchEof, Reading, Places, Using, history
  <2>2. \A n \in Files : /\ fdb'[n].mode = fdb[n].mode /\ fdb'[n].handle = fdb[n].handle
                         /\ fdb'[n].backed = fdb[n].backed
    BY <1>a, <2>1 DEF Fdbs
  <2> QED BY <2>1, <2>2, <1>q DEF Using
<1>5. CASE WriteEof \/ OutDo
  <2>1. /\ UNCHANGED <<fdb, got>> /\ at \in {"write_eof", "io"}
        /\ \/ UNCHANGED <<content, slot>>
           \/ \E n \in Files, b \in Bytes : WriteByte(n, b) /\ fdb[n].mode = "output"
    <3>1. CASE WriteEof
      <4>1. closing \in Files /\ fdb[closing].mode = "output" /\ at = "write_eof" /\ CtrlZ \in Bytes
        BY <1>a, <3>1 DEF WriteEof, Places, Closing, Steering, Bytes
      <4> QED BY <3>1, <4>1 DEF WriteEof
    <3>2. CASE OutDo
      <4>1. ptrfil \in Files /\ fdb[ptrfil].mode = "output" /\ at = "io"
        BY <1>a, <3>2 DEF OutDo, Writing, Places, Using, Steering, Reads
      <4> QED BY <3>2, <4>1 DEF OutDo
    <3> QED BY <1>5, <3>1, <3>2
  <2>2. CASE UNCHANGED <<content, slot>>
    BY <2>1, <2>2, <1>q
  <2>3. ASSUME NEW w \in Files, NEW b \in Bytes, WriteByte(w, b), fdb[w].mode = "output"
        PROVE  InOrder'
    <3>1. Holds(w)
      BY <2>1, <2>3 DEF Holds, Waiting, Allocated
    <3>2. /\ slot' = [slot EXCEPT ![fdb[w].handle].pos = @ + 1]
          /\ content' = [content EXCEPT ![SlotOf(w).name] = Patch(@, SlotOf(w).pos, b)]
      BY <2>3 DEF WriteByte
    <3>3. ASSUME NEW n \in Files, Holds(n)', fdb'[n].mode = "input" PROVE Steady(n)
      <4>1. Holds(n) /\ fdb[n].mode = "input" /\ n # w
        BY <2>1, <2>3, <3>3 DEF Holds, Waiting, Allocated
      <4>2. fdb[n].handle # fdb[w].handle /\ fdb[n].handle \in Handles
        BY <1>n, <3>1, <4>1 DEF Each
      <4>3. SlotOf(n).name # SlotOf(w).name
        BY <2>3, <3>1, <4>1 DEF Apart
      <4>4. slot'[fdb[n].handle] = slot[fdb[n].handle]
        BY <1>a, <3>2, <4>2
      <4>5. content'[SlotOf(n).name] = content[SlotOf(n).name]
        BY <3>2, <4>1, <4>3, HoldsFile
      <4> QED BY <2>1, <4>1, <4>4, <4>5 DEF Steady
    <3> QED BY <3>3, InOrderKept
  <2> QED BY <2>1, <2>2, <2>3
<1>6. CASE InchBacked
  <2>1. /\ ptrfil \in Files /\ at \in Using /\ fdb[ptrfil].backed # None
        /\ fdb' = [fdb EXCEPT ![ptrfil].backed = None]
        /\ got' = [got EXCEPT ![ptrfil] = Append(@, fdb[ptrfil].backed)]
        /\ UNCHANGED <<slot, content, ptrfil>> /\ at' \in Using /\ stmt \in Reads
    BY <1>6, <1>a DEF InchBacked, Reading, Deliver, Goto, Places, Using, Reads
  <2>2. \A n \in Files : /\ fdb'[n].mode = fdb[n].mode /\ fdb'[n].handle = fdb[n].handle
                         /\ n # ptrfil => fdb'[n].backed = fdb[n].backed /\ got'[n] = got[n]
    BY <1>a, <2>1 DEF Fdbs
  <2>3. fdb'[ptrfil].backed = None /\ got'[ptrfil] = Given(ptrfil)
    BY <1>a, <2>1 DEF Fdbs, Given
  <2>4. \A n \in Files : Holds(n)' => Holds(n)
    BY <2>1, <2>2 DEF Holds, Waiting, Allocated, Using
  <2>5. Right(ptrfil) => Right(ptrfil)'
    BY <2>1, <2>2, <2>3 DEF Right, Given, SlotOf, TextOf
  <2>6. \A n \in Files : Holds(n)' /\ fdb'[n].mode = "input" => Steady(n) \/ Right(n)'
    BY <2>1, <2>2, <2>4, <2>5 DEF Steady, InOrder
  <2> QED BY <2>6, InOrderKept
<1>7. CASE InchByte
  <2> DEFINE p == SlotOf(ptrfil).pos
             text == TextOf(ptrfil)
  <2>1. /\ ptrfil \in Files /\ at \in Using /\ fdb[ptrfil].backed = None
        /\ got' = [got EXCEPT ![ptrfil] = Append(@, text[p + 1])]
        /\ p < Len(text) /\ slot' = [slot EXCEPT ![fdb[ptrfil].handle].pos = @ + 1]
        /\ UNCHANGED <<fdb, content, ptrfil>> /\ at' \in Using /\ stmt \in Reads
    BY <1>7, <1>a DEF InchByte, ReadsDevice, Reading, Deliver, Goto, Places, Using, Reads
  <2>2. fdb[ptrfil].mode = "input"
    BY <2>1 DEF Steering, Reads, Writes
  <2>3. Holds(ptrfil)
    BY <2>1, <2>2 DEF Holds, Waiting, Allocated, Using
  <2>4. /\ fdb[ptrfil].handle \in Handles /\ p \in Nat /\ text \in Seq(Bytes)
        /\ p <= Len(text) /\ SubSeq(text, 1, p) = got[ptrfil]
    BY <2>1, <2>2, <2>3, HoldsFile DEF InOrder, Right, Given
  <2>5. /\ SlotOf(ptrfil)'.pos = p + 1 /\ SlotOf(ptrfil)'.name = SlotOf(ptrfil).name
        /\ \A h \in Handles : h # fdb[ptrfil].handle => slot'[h] = slot[h]
    BY <1>a, <2>1, <2>4 DEF SlotOf, Slots
  <2>6. TextOf(ptrfil)' = text
    BY <2>1, <2>5 DEF TextOf
  <2>7. Given(ptrfil)' = Append(got[ptrfil], text[p + 1])
    BY <1>a, <2>1 DEF Given
  <2> HIDE DEF p, text
  <2>8. p + 1 <= Len(text) /\ SubSeq(text, 1, p + 1) = Append(SubSeq(text, 1, p), text[p + 1])
    <3>1. p + 1 <= Len(text) /\ p + 1 \in 1 .. Len(text) /\ p \in 0 .. Len(text) /\ Len(text) \in Nat
      BY <2>1, <2>4
    <3>2. SubSeq(text, 1, p + 1) = SubSeq(text, 1, p) \o <<text[p + 1]>>
      <4>1. 1 \in 1 .. Len(text) /\ p + 1 \in 1 .. Len(text) /\ p + 1 - 1 = p
        BY <2>4, <3>1
      <4>2. SubSeq(text, 1, p + 1) = SubSeq(text, 1, p + 1 - 1) \o <<text[p + 1]>>
        BY <2>4, <4>1, SubSeqRecursiveSecond
      <4> QED BY <4>1, <4>2, Zenon
    <3>3. SubSeq(text, 1, p) \in Seq(Bytes) /\ text[p + 1] \in Bytes
      BY <2>4, <3>1
    <3> QED BY <3>1, <3>2, <3>3, AppendIsConcat
  <2>9. Right(ptrfil)'
    BY <2>4, <2>5, <2>6, <2>7, <2>8 DEF Right
  <2>10. ASSUME NEW n \in Files, Holds(n)', fdb'[n].mode = "input", n # ptrfil PROVE Steady(n)
    <3>1. Holds(n)
      BY <2>1, <2>10 DEF Holds, Waiting, Allocated, Using
    <3>2. slot'[fdb[n].handle] = slot[fdb[n].handle]
      BY <1>n, <2>1, <2>3, <2>5, <2>10, <3>1 DEF Each
    <3>3. got'[n] = got[n]
      BY <1>a, <2>1, <2>10
    <3> QED BY <2>1, <3>1, <3>2, <3>3 DEF Steady
  <2>11. \A n \in Files : Holds(n)' /\ fdb'[n].mode = "input" => Steady(n) \/ Right(n)'
    BY <2>1, <2>9, <2>10
  <2> QED BY <2>11, InOrderKept
<1>8. CASE BakChr
  <2> DEFINE last == Len(got[ptrfil])
  <2>1. /\ ptrfil \in Files /\ at \in Using
        /\ fdb' = [fdb EXCEPT ![ptrfil].backed = got[ptrfil][last]]
        /\ got' = [got EXCEPT ![ptrfil] = SubSeq(@, 1, last - 1)]
        /\ UNCHANGED <<slot, content, ptrfil>> /\ at' \in Using \cup {"finprt"}
        /\ freFdb' = None
        /\ at = "read" \/ (at = "more" /\ stmt = "input")
    BY <1>8, <1>a DEF BakChr, Reading, Goto, Places, Using, Closing
  <2>2. fdb[ptrfil].backed = None /\ got[ptrfil] # <<>> /\ got[ptrfil] \in Seq(Bytes)
    BY <1>a, <2>1 DEF Fresh, Places
  <2>3. last \in Nat /\ last > 0 /\ got[ptrfil][last] \in Bytes
        /\ Append(SubSeq(got[ptrfil], 1, last - 1), got[ptrfil][last]) = got[ptrfil]
    BY <2>2
  <2>4. \A n \in Files : /\ fdb'[n].mode = fdb[n].mode /\ fdb'[n].handle = fdb[n].handle
                         /\ n # ptrfil => fdb'[n].backed = fdb[n].backed /\ got'[n] = got[n]
    BY <1>a, <2>1 DEF Fdbs
  <2>5. /\ fdb'[ptrfil].backed = got[ptrfil][last]
        /\ got'[ptrfil] = SubSeq(got[ptrfil], 1, last - 1)
    BY <1>a, <2>1 DEF Fdbs
  <2> HIDE DEF last
  <2>6. Given(ptrfil)' = got[ptrfil] /\ Given(ptrfil) = got[ptrfil]
    BY <1>a, <2>1, <2>2, <2>3, <2>5 DEF Given
  <2>7. \A n \in Files : Holds(n)' => Holds(n)
    BY <2>1, <2>4 DEF Holds, Waiting, Allocated, Using
  <2>8. Right(ptrfil) => Right(ptrfil)'
    BY <2>1, <2>4, <2>6 DEF Right, SlotOf, TextOf
  <2>9. \A n \in Files : Holds(n)' /\ fdb'[n].mode = "input" => Steady(n) \/ Right(n)'
    BY <2>1, <2>4, <2>7, <2>8 DEF Steady, InOrder
  <2> QED BY <2>9, InOrderKept
<1>9. CASE Open \/ Load \/ Save
  <2>1. PICK n \in Files, mode \in Modes, s \in Stales :
          /\ at = "ready" /\ ptrfil' = n /\ fdb' = [fdb EXCEPT ![n] = IniFdb(mode, s)]
          /\ at' \in {"create", "open"} /\ UNCHANGED <<slot, content, got>>
    BY <1>9 DEF Open, Load, Save, OpnFil, Begin, Goto, Files, Modes, history
  <2>2. \A m \in Files : m # n => fdb'[m] = fdb[m]
    BY <1>a, <2>1
  <2>3. \A m \in Files : Holds(m)' => Steady(m)
    BY <2>1, <2>2 DEF Holds, Waiting, Allocated, Steady
  <2> QED BY <2>3, InOrderKept
<1>10. CASE FinPrt
  <2> DEFINE kept == IF freFdb = None THEN fdb ELSE [fdb EXCEPT ![freFdb] = NoFdb]
  <2>1. /\ fdb' = kept /\ at = "finprt" /\ UNCHANGED <<slot, content>>
        /\ got' = [n \in Files |-> IF n = freFdb THEN <<>> ELSE got[n]]
    BY <1>10 DEF FinPrt
  <2>2. \A n \in Files : kept[n] = IF n = freFdb THEN NoFdb ELSE fdb[n]
    BY <1>a DEF Ground, TypeCtl, Optional
  <2> HIDE DEF kept
  <2>3. \A n \in Files : Holds(n)' => Steady(n)
    BY <1>a, <2>1, <2>2 DEF Holds, Waiting, Allocated, Steady
  <2> QED BY <2>3, InOrderKept
<1>11. CASE CloseHandle \/ CloseFails
  <2>1. /\ at = "close" /\ closing \in Files /\ Allocated(closing) /\ freFdb = closing
        /\ back \in {"done", "ended", "clsall"} /\ UNCHANGED content
    BY <1>11, <1>a DEF CloseHandle, CloseFails, Places, Closing, Ground, TypeCtl, Optional
  <2>2. Holds(closing)
    BY <2>1 DEF Holds, Waiting
  <2>3. slot' = [slot EXCEPT ![fdb[closing].handle] = FreeSlot]
    BY <1>11, <2>2, <2>1 DEF Each, CloseHandle, CloseFails
  <2>4. \/ at' = back /\ fdb' = [fdb EXCEPT ![closing] = NoFdb] /\ got' = [got EXCEPT ![closing] = <<>>]
        \/ at' = "finprt" /\ freFdb' = closing /\ fdb' = fdb /\ got' = got
    BY <1>11, <2>1 DEF CloseHandle, Freed, Goto, CloseFails, Fails, Raise
  <2>5. \A n \in Files : Holds(n)' =>
          n # closing /\ Holds(n) /\ fdb'[n] = fdb[n] /\ got'[n] = got[n]
    BY <1>a, <2>1, <2>4 DEF Holds, Waiting, Allocated
  <2>6. \A n \in Files : Holds(n)' => fdb[n].handle # fdb[closing].handle
    BY <2>1, <2>2, <2>5 DEF Each
  <2>7. \A n \in Files : Holds(n)' => slot'[fdb[n].handle] = slot[fdb[n].handle]
    BY <1>a, <1>n, <2>3, <2>5, <2>6
  <2>8. \A n \in Files : Holds(n)' => Steady(n)
    BY <2>1, <2>5, <2>7 DEF Steady
  <2> QED BY <2>8, InOrderKept
<1>12. CASE OpenHandle \/ CreateHandle \/ AppendSeek
  <2>1. PICK h \in Handles, mode \in {"input", "output", "append"}, pos \in Nat :
           /\ at \in Calling /\ ptrfil \in Files /\ filnm \in Names /\ ptrfil' = ptrfil
           /\ freFdb' = freFdb /\ got' = got
           /\ slot' = [slot EXCEPT ![h] = [name |-> filnm, pos |-> pos]]
           /\ fdb'[ptrfil].handle = h /\ fdb'[ptrfil].mode = mode
           /\ fdb'[ptrfil].backed = fdb[ptrfil].backed
           /\ \A n \in Files : n # ptrfil => fdb'[n] = fdb[n]
           /\ \/ at = "open" /\ ~Used(h) /\ pos = 0 /\ Present(filnm) /\ UNCHANGED content
              \/ at = "create" /\ ~Used(h) /\ mode = "output" /\ content' = Put(content, filnm, <<>>)
              \/ at = "seek" /\ h = fdb[ptrfil].handle /\ mode = "output" /\ UNCHANGED content
    BY <1>12, OpenMoves
  <2>2. \A g \in Handles : slot'[g] = IF g = h THEN [name |-> filnm, pos |-> pos] ELSE slot[g]
    BY <1>a, <2>1
  <2>3. freFdb = None /\ \A n \in Files : n # ptrfil /\ Holds(n)' => Holds(n)
    BY <1>a, <2>1 DEF Holds, Waiting, Allocated, Places, Calling, Closing
  <2>4. ASSUME NEW n \in Files, Holds(n)', fdb'[n].mode = "input", n # ptrfil
        PROVE  Steady(n)
    <3>1. fdb'[n] = fdb[n] /\ Holds(n) /\ fdb[n].handle \in Handles
      BY <1>n, <2>1, <2>3, <2>4
    <3>2. fdb[n].handle # h
      <4>1. CASE at = "seek"
        <5>1. Holds(ptrfil)
          BY <1>a, <2>1, <4>1 DEF Holds, Waiting, Places, Calling
        <5> QED BY <2>1, <2>4, <3>1, <4>1, <5>1 DEF Each
      <4> QED BY <2>1, <3>1, <4>1 DEF Each
    <3>3. slot'[fdb[n].handle] = slot[fdb[n].handle]
      BY <2>2, <3>1, <3>2
    <3>4. content'[SlotOf(n).name] = content[SlotOf(n).name]
      <4>1. CASE at = "create"
        <5>1. SlotOf(n).name # filnm
          BY <2>1, <3>1, <4>1 DEF Apart, Steering
        <5>2. SlotOf(n).name \in DOMAIN content
          BY <3>1, HoldsFile
        <5> QED BY <2>1, <4>1, <5>1, <5>2 DEF Put
      <4> QED BY <2>1, <4>1
    <3> QED BY <2>1, <3>1, <3>3, <3>4 DEF Steady
  <2>5. ASSUME fdb'[ptrfil].mode = "input" PROVE Right(ptrfil)'
    <3>1. at = "open" /\ pos = 0 /\ Present(filnm) /\ UNCHANGED content
      BY <2>1, <2>5
    <3>2. SlotOf(ptrfil)' = [name |-> filnm, pos |-> 0]
      BY <2>1, <2>2, <3>1 DEF SlotOf
    <3>3. TextOf(ptrfil)' = content[filnm] /\ content[filnm] \in Seq(Bytes)
      BY <3>1, <3>2 DEF TextOf, Present, Ground, TypeDisk
    <3>4. Given(ptrfil)' = <<>>
      BY <2>1, <3>1 DEF Fresh, Given
    <3>5. SubSeq(content[filnm], 1, 0) = <<>> /\ 0 <= Len(content[filnm])
      BY <3>3
    <3>6. SlotOf(ptrfil)'.pos = 0
      BY <3>2
    <3> QED BY <3>3, <3>4, <3>5, <3>6 DEF Right
  <2>6. \A n \in Files : Holds(n)' /\ fdb'[n].mode = "input" => Steady(n) \/ Right(n)'
    BY <2>1, <2>4, <2>5
  <2> QED BY <2>6, InOrderKept
<1> QED BY <1>1, <1>2, <1>3, <1>4, <1>5, <1>6, <1>7, <1>8, <1>9, <1>10, <1>11, <1>12
       DEF Next, Step, Statement

\* FDB n writes file f.
WritesTo(n, f) == Holds(n) /\ fdb[n].mode = "output" /\ SlotOf(n).name = f

\* A file holds what was written to it, and at most one ^Z more; its writer is where the written
\* bytes end.  Only where a text file is still being written do they end in a ^Z of their own
\* without another behind it.
Written ==
  /\ \A f \in DOMAIN content : content[f] \in {saved[f], Append(saved[f], CtrlZ)}
  /\ \A n \in Files : Holds(n) /\ fdb[n].mode = "output" /\ ~(at = "close" /\ closing = n)
                        => SlotOf(n).pos = Len(saved[SlotOf(n).name])
  /\ at = "close" /\ fdb[closing].mode = "output" /\ ~fdb[closing].binary
       => TextOf(closing) = Append(saved[SlotOf(closing).name], CtrlZ)
  /\ \A f \in DOMAIN content :
       content[f] = saved[f] /\ saved[f] # <<>> /\ saved[f][Len(saved[f])] = CtrlZ
         => \E n \in Files : WritesTo(n, f) /\ ~fdb[n].binary

\* Writing a byte behind what was saved, over a final ^Z or at the end
LEMMA PatchEnd ==
  ASSUME NEW s \in Seq(Bytes), NEW t, t = s \/ t = Append(s, CtrlZ), NEW b \in Bytes
  PROVE  Patch(t, Len(s), b) = Append(s, b)
<1>1. CtrlZ \in Bytes /\ Len(s) \in Nat
  BY DEF Bytes
<1>2. CASE t = s
  BY <1>1, <1>2 DEF Patch
<1>3. CASE t = Append(s, CtrlZ)
  <2>1. /\ t \in Seq(Bytes) /\ Len(t) = Len(s) + 1
        /\ \A k \in 1 .. Len(s) : t[k] = s[k]
    BY <1>1, <1>3
  <2>2. Patch(t, Len(s), b) = [t EXCEPT ![Len(s) + 1] = b]
    BY <1>1, <2>1 DEF Patch
  <2>3. /\ [t EXCEPT ![Len(s) + 1] = b] \in Seq(Bytes)
        /\ Len([t EXCEPT ![Len(s) + 1] = b]) = Len(s) + 1
    BY <1>1, <2>1
  <2>4. Append(s, b) \in Seq(Bytes) /\ Len(Append(s, b)) = Len(s) + 1
    BY <1>1
  <2>5. \A k \in 1 .. Len(s) + 1 : [t EXCEPT ![Len(s) + 1] = b][k] = Append(s, b)[k]
    BY <1>1, <2>1
  <2> QED BY <2>2, <2>3, <2>4, <2>5, SeqEqual
<1> QED BY <1>2, <1>3

\* Where dw_append_seek goes
LEMMA AppendAtEndOf ==
  ASSUME NEW s \in Seq(Bytes), NEW t, t = s \/ t = Append(s, CtrlZ),
         t = s /\ s # <<>> => s[Len(s)] # CtrlZ
  PROVE  AppendAt(t) = Len(s)
<1>1. CtrlZ \in Bytes /\ Len(s) \in Nat
  BY DEF Bytes
<1>2. CASE t = s
  <2>1. s = <<>> => Len(s) = 0
    OBVIOUS
  <2> QED BY <1>1, <1>2, <2>1 DEF AppendAt
<1>3. CASE t = Append(s, CtrlZ)
  <2>1. t # <<>> /\ Len(t) = Len(s) + 1 /\ t[Len(t)] = CtrlZ
    BY <1>1, <1>3
  <2> QED BY <1>1, <2>1 DEF AppendAt
<1> QED BY <1>2, <1>3

\* A byte more makes another sequence.
LEMMA AppendDiffers ==
  ASSUME NEW s \in Seq(Bytes)
  PROVE  Append(s, CtrlZ) # s
<1>1. CtrlZ \in Bytes /\ Len(s) \in Nat /\ Len(Append(s, CtrlZ)) = Len(s) + 1
  BY DEF Bytes
<1> QED BY <1>1

\* A step that writes to no file and ends no writer of one that may end in ^Z.
LEMMA WrittenQuiet ==
  ASSUME Written, UNCHANGED <<content, saved>>,
         \A n \in Files : Holds(n)' /\ fdb'[n].mode = "output" =>
           /\ WritesTo(n, SlotOf(n).name) /\ SlotOf(n)' = SlotOf(n)
           /\ ~(at = "close" /\ closing = n),
         \A n \in Files : Holds(n) /\ fdb[n].mode = "output" /\ ~fdb[n].binary =>
           \/ /\ Holds(n)' /\ fdb'[n].mode = "output" /\ ~fdb'[n].binary
              /\ SlotOf(n)' = SlotOf(n)
           \/ content[SlotOf(n).name] # saved[SlotOf(n).name],
         at' = "close" => fdb'[closing'].mode # "output" \/ fdb'[closing'].binary
  PROVE  Written'
<1>1. ASSUME NEW n \in Files, Holds(n)', fdb'[n].mode = "output"
      PROVE  SlotOf(n)'.pos = Len(saved'[SlotOf(n)'.name])
  BY <1>1 DEF Written, WritesTo
<1>2. ASSUME NEW f \in DOMAIN content', content'[f] = saved'[f], saved'[f] # <<>>,
             saved'[f][Len(saved'[f])] = CtrlZ
      PROVE  \E n \in Files : WritesTo(n, f)' /\ ~fdb'[n].binary
  <2>1. PICK n \in Files : WritesTo(n, f) /\ ~fdb[n].binary
    BY <1>2 DEF Written
  <2>2. Holds(n) /\ fdb[n].mode = "output" /\ SlotOf(n).name = f
    BY <2>1 DEF WritesTo
  <2>3. Holds(n)' /\ fdb'[n].mode = "output" /\ ~fdb'[n].binary /\ SlotOf(n)' = SlotOf(n)
    BY <1>2, <2>1, <2>2
  <2>4. WritesTo(n, f)'
    BY <2>2, <2>3 DEF WritesTo
  <2> QED BY <2>3, <2>4
<1>3. \A f \in DOMAIN content' : content'[f] \in {saved'[f], Append(saved'[f], CtrlZ)}
  BY DEF Written
<1> QED BY <1>1, <1>2, <1>3 DEF Written

LEMMA WrittenStep ==
  ASSUME Ground, Steering, Each, Apart, Written, Next, failed' = {}, failed = {}
  PROVE  Written'
<1>a. /\ fdb \in [Files -> Fdbs] /\ slot \in [Handles -> Slots] /\ Places /\ CleanPath
      /\ None \notin Files /\ NoFdb.mode = "none" /\ CtrlZ \in Bytes
      /\ Files = Numbers \cup {File0}
      /\ \A f \in DOMAIN content : content[f] \in Seq(Bytes) /\ saved[f] \in Seq(Bytes)
      /\ DOMAIN saved = DOMAIN content
  BY DiskAssumption DEF Ground, TypeFdb, TypeDisk, Files, NoFdb, Bytes
<1>b. at = "finprt" => freFdb = None
  BY DEF Steering
<1>n. \A n \in Files : Holds(n) => fdb[n].handle \in Handles /\ SlotOf(n).name \in DOMAIN content
  BY HoldsFile
<1>q. ASSUME UNCHANGED <<content, saved>>,
             \A n \in Files : /\ fdb'[n].mode = fdb[n].mode /\ fdb'[n].handle = fdb[n].handle
                              /\ fdb'[n].binary = fdb[n].binary,
             \A n \in Files : Holds(n) /\ fdb[n].mode = "output" =>
               slot'[fdb[n].handle] = slot[fdb[n].handle],
             at \notin {"open", "create", "close"} \/ (at = "open" /\ ptrfil' = ptrfil),
             freFdb' = None \/ at' # "finprt",
             at' \notin {"open", "create"} \/ (at = "open" /\ ptrfil' = ptrfil),
             at = "open" => at' = "create",
             at' = "close" => fdb[closing'].mode # "output" \/ fdb[closing'].binary,
             at' = "close" => closing' \in Files
      PROVE  Written'
  <2>1. \A n \in Files : Holds(n)' <=> Holds(n)
    BY <1>a, <1>b, <1>q DEF Holds, Waiting, Allocated
  <2>2. \A n \in Files : Holds(n) /\ fdb[n].mode = "output" => SlotOf(n)' = SlotOf(n)
    BY <1>q DEF SlotOf
  <2>3. \A n \in Files : Holds(n)' /\ fdb'[n].mode = "output" =>
          /\ WritesTo(n, SlotOf(n).name) /\ SlotOf(n)' = SlotOf(n)
          /\ ~(at = "close" /\ closing = n)
    BY <1>q, <2>1, <2>2 DEF WritesTo
  <2>4. \A n \in Files : Holds(n) /\ fdb[n].mode = "output" /\ ~fdb[n].binary =>
          /\ Holds(n)' /\ fdb'[n].mode = "output" /\ ~fdb'[n].binary /\ SlotOf(n)' = SlotOf(n)
    BY <1>q, <2>1, <2>2
  <2>5. at' = "close" => fdb'[closing'].mode # "output" \/ fdb'[closing'].binary
    BY <1>q
  <2> QED BY <1>q, <2>3, <2>4, <2>5, WrittenQuiet
<1>1. CASE OpenFails \/ CreateFails \/ CloseFails
  <2>1. /\ UNCHANGED <<fdb, slot, content, saved, freFdb, ptrfil>> /\ at = "open" /\ at' = "create"
    BY <1>1 DEF OpenFails, CreateFails, CloseFails, Fails, Goto
  <2> QED BY <2>1, <1>q
<1>2. CASE AppendSeekFails \/ InchFails \/ OpenAgain \/ InputEnds \/ OutputEnds \/ Done
           \/ EndStatement
  <2>1. /\ UNCHANGED <<fdb, slot, content, saved, freFdb>>
        /\ at \notin {"open", "create", "close", "write_eof", "finprt"}
        /\ at' \notin {"open", "create", "close"}
    BY <1>2 DEF AppendSeekFails, InchFails, ReadsDevice, Reading, OpenAgain, AlreadyOpen,
         InputEnds, OutputEnds, Writing, Done, EndStatement, Raise, Goto, history
  <2>2. freFdb' = None
    BY <1>a, <2>1 DEF Places, Closing
  <2> QED BY <2>1, <2>2, <1>q
<1>3. CASE PrintFile \/ InputFile \/ Clear \/ ClsAllEnds
  <2>1. /\ UNCHANGED <<fdb, slot, content, saved, freFdb>> /\ at \in {"ready", "clsall"}
        /\ at' \in {"io", "clsall", "finprt"}
    BY <1>3 DEF PrintFile, InputFile, UseFile, Clear, Begin, ClsAllEnds, Goto, history
  <2>2. freFdb' = None
    BY <1>a, <2>1 DEF Places, Closing
  <2> QED BY <2>1, <2>2, <1>q
<1>4. CASE Close \/ ClsAllNext
  <2>1. /\ UNCHANGED <<fdb, slot, content, saved>> /\ at \in {"ready", "clsall"}
        /\ closing' \in Files
        /\ at' = IF fdb[closing'].mode = "output" /\ ~fdb[closing'].binary
                 THEN "write_eof" ELSE "close"
    BY <1>4, <1>a DEF Close, ClsAllNext, ClsFil, Begin, Goto, history
  <2> QED BY <2>1, <1>q
<1>5. CASE FinPrt
  <2>1. freFdb = None /\ at = "finprt"
    BY <1>5, <1>b DEF FinPrt
  <2>2. /\ UNCHANGED <<fdb, slot, content, saved>>
        /\ \/ /\ closing' = File0
              /\ at' = IF fdb[File0].mode = "output" /\ ~fdb[File0].binary
                       THEN "write_eof" ELSE "close"
           \/ at' = "done"
    BY <1>5, <2>1 DEF FinPrt, ClsFil, Goto
  <2> QED BY <1>a, <2>1, <2>2, <1>q
<1>6. CASE InchEof \/ InchBacked \/ BakChr
  <2>1. /\ ptrfil \in Files /\ at \in Using /\ at' \in Using \cup {"finprt"} /\ freFdb' = None
        /\ UNCHANGED <<slot, content, saved>>
        /\ \/ fdb' = [fdb EXCEPT ![ptrfil].atEof = TRUE]
           \/ \E b : fdb' = [fdb EXCEPT ![ptrfil].backed = b]
    BY <1>6, <1>a DEF InchEof, InchBacked, BakChr, Reading, Raise, Deliver, Goto, Places, Using,
         Closing, history
  <2>2. \A n \in Files : /\ fdb'[n].mode = fdb[n].mode /\ fdb'[n].handle = fdb[n].handle
                         /\ fdb'[n].binary = fdb[n].binary
    BY <1>a, <2>1 DEF Fdbs
  <2> QED BY <2>1, <2>2, <1>q DEF Using
<1>7. CASE InchByte
  <2>1. /\ ptrfil \in Files /\ at \in Using /\ at' \in Using /\ stmt \in Reads
        /\ UNCHANGED <<fdb, content, saved>>
        /\ slot' = [slot EXCEPT ![fdb[ptrfil].handle].pos = @ + 1]
    BY <1>7, <1>a DEF InchByte, ReadsDevice, Reading, Deliver, Goto, Places, Using, Reads
  <2>2. fdb[ptrfil].mode = "input" /\ Holds(ptrfil)
    BY <2>1 DEF Steering, Reads, Writes, Holds, Waiting, Allocated, Using
  <2>3. \A n \in Files : Holds(n) /\ fdb[n].mode = "output" =>
          slot'[fdb[n].handle] = slot[fdb[n].handle]
    <3>1. ASSUME NEW n \in Files, Holds(n), fdb[n].mode = "output"
          PROVE  fdb[n].handle # fdb[ptrfil].handle
      BY <2>1, <2>2, <3>1 DEF Each
    <3> QED BY <1>a, <1>n, <2>1, <3>1
  <2> QED BY <2>1, <2>3, <1>q DEF Using
\* Writing a byte behind what was saved
<1>w. ASSUME NEW w \in Files, NEW b \in Bytes, WriteByte(w, b), Holds(w), fdb[w].mode = "output",
             UNCHANGED fdb, at # "close", at \notin {"open", "create", "finprt"},
             at' \notin {"open", "create", "finprt"}
      PROVE  /\ \A n \in Files : Holds(n)' <=> Holds(n)
             /\ SlotOf(w).name \in DOMAIN content
             /\ DOMAIN content' = DOMAIN content
             /\ content'[SlotOf(w).name] = Append(saved[SlotOf(w).name], b)
             /\ \A f \in DOMAIN content : f # SlotOf(w).name => content'[f] = content[f]
             /\ SlotOf(w)'.name = SlotOf(w).name
             /\ SlotOf(w)'.pos = Len(saved[SlotOf(w).name]) + 1
             /\ \A n \in Files : n # w /\ Holds(n) /\ fdb[n].mode = "output" =>
                  SlotOf(n)' = SlotOf(n) /\ SlotOf(n).name # SlotOf(w).name
  <2> DEFINE f == SlotOf(w).name
             p == SlotOf(w).pos
  <2>1. /\ slot' = [slot EXCEPT ![fdb[w].handle].pos = @ + 1]
        /\ content' = [content EXCEPT ![f] = Patch(@, p, b)]
    BY <1>w DEF WriteByte
  <2>2. f \in DOMAIN content /\ fdb[w].handle \in Handles
    BY <1>n, <1>w
  <2>3. p = Len(saved[f]) /\ content[f] \in {saved[f], Append(saved[f], CtrlZ)}
        /\ saved[f] \in Seq(Bytes)
    BY <1>a, <1>w, <2>2 DEF Written
  <2>4. SlotOf(w)'.name = f /\ SlotOf(w)'.pos = p + 1
        /\ \A h \in Handles : h # fdb[w].handle => slot'[h] = slot[h]
    BY <1>a, <1>w, <2>1, <2>2 DEF SlotOf, Slots
  <2>5. ASSUME NEW n \in Files, n # w, Holds(n), fdb[n].mode = "output"
        PROVE  SlotOf(n)' = SlotOf(n) /\ SlotOf(n).name # f
    <3>1. fdb[n].handle # fdb[w].handle /\ fdb[n].handle \in Handles
      BY <1>n, <1>w, <2>5 DEF Each
    <3>2. SlotOf(n).name # f
      BY <1>w, <2>5 DEF Apart
    <3> QED BY <1>w, <2>4, <3>1, <3>2 DEF SlotOf
  <2>6. \A n \in Files : Holds(n)' <=> Holds(n)
    BY <1>w DEF Holds, Waiting, Allocated
  <2> HIDE DEF f, p
  <2>7. content'[f] = Append(saved[f], b) /\ DOMAIN content' = DOMAIN content
        /\ \A g \in DOMAIN content : g # f => content'[g] = content[g]
    BY <2>1, <2>2, <2>3, PatchEnd
  <2> QED BY <2>2, <2>3, <2>4, <2>5, <2>6, <2>7 DEF f, p
<1>8. CASE WriteEof
  <2> DEFINE f == SlotOf(closing).name
  <2>1. /\ WriteByte(closing, CtrlZ) /\ at = "write_eof" /\ at' = "close"
        /\ UNCHANGED <<fdb, saved, closing>> /\ closing \in Files /\ Allocated(closing)
    BY <1>8, <1>a DEF WriteEof, Fails, Goto, Places, Closing
  <2>2. fdb[closing].mode = "output" /\ ~fdb[closing].binary /\ Holds(closing)
    BY <2>1 DEF Steering, Holds, Waiting
  <2>3. /\ \A n \in Files : Holds(n)' <=> Holds(n)
        /\ f \in DOMAIN content
        /\ DOMAIN content' = DOMAIN content
        /\ content'[f] = Append(saved[f], CtrlZ)
        /\ \A g \in DOMAIN content : g # f => content'[g] = content[g]
        /\ SlotOf(closing)'.name = f
        /\ \A n \in Files : n # closing /\ Holds(n) /\ fdb[n].mode = "output" =>
             SlotOf(n)' = SlotOf(n) /\ SlotOf(n).name # f
    BY <1>a, <1>w, <2>1, <2>2
  <2>4. content'[f] # saved'[f]
    BY <1>a, <2>1, <2>3, AppendDiffers
  <2> HIDE DEF f
  <2>5. \A g \in DOMAIN content' : content'[g] \in {saved'[g], Append(saved'[g], CtrlZ)}
    BY <2>1, <2>3 DEF Written
  <2>6. \A n \in Files : Holds(n)' /\ fdb'[n].mode = "output" /\ n # closing =>
          SlotOf(n)'.pos = Len(saved'[SlotOf(n)'.name])
    BY <2>1, <2>3 DEF Written
  <2>7. TextOf(closing)' = Append(saved'[SlotOf(closing)'.name], CtrlZ)
    BY <2>1, <2>3 DEF TextOf
  <2>8. ASSUME NEW g \in DOMAIN content', content'[g] = saved'[g], saved'[g] # <<>>,
               saved'[g][Len(saved'[g])] = CtrlZ
        PROVE  \E n \in Files : WritesTo(n, g)' /\ ~fdb'[n].binary
    <3>1. g # f /\ g \in DOMAIN content /\ content[g] = saved[g] /\ saved'[g] = saved[g]
      BY <2>1, <2>3, <2>4, <2>8
    <3>2. PICK n \in Files : WritesTo(n, g) /\ ~fdb[n].binary
      BY <2>1, <2>8, <3>1 DEF Written
    <3>3. n # closing
      BY <3>1, <3>2 DEF WritesTo, f
    <3> QED BY <2>1, <2>3, <3>2, <3>3 DEF WritesTo
  <2> QED BY <2>1, <2>5, <2>6, <2>7, <2>8 DEF Written
<1>9. CASE OutDo
  <2>1. /\ UNCHANGED <<fdb, freFdb, ptrfil>> /\ at = "io" /\ ptrfil \in Files
        /\ stmt \in Writes
    BY <1>9, <1>a DEF OutDo, Writing, Places, Using, Writes, control, Raise
  <2>2. CASE Raise("Device I/O Error") /\ UNCHANGED <<content, slot, saved>>
    <3>1. freFdb' = None /\ at' = "finprt"
      BY <1>a, <2>1, <2>2 DEF Places, Closing, Raise
    <3> QED BY <2>1, <2>2, <3>1, <1>q
  <2>3. CASE ~(Raise("Device I/O Error") /\ UNCHANGED <<content, slot, saved>>)
    <3> DEFINE f == SlotOf(ptrfil).name
    <3>1. PICK b \in Bytes :
            /\ stmt = "save" => b # CtrlZ
            /\ WriteByte(ptrfil, b) /\ saved' = [saved EXCEPT ![f] = Append(@, b)]
            /\ at' = "io"
      BY <1>9, <2>1, <2>3 DEF OutDo, control
    <3>2. fdb[ptrfil].mode = "output" /\ (fdb[ptrfil].binary <=> stmt = "save") /\ Holds(ptrfil)
      BY <2>1 DEF Steering, Holds, Waiting, Allocated, Using, Reads, Writes
    <3>3. /\ \A n \in Files : Holds(n)' <=> Holds(n)
          /\ f \in DOMAIN content
          /\ DOMAIN content' = DOMAIN content
          /\ content'[f] = Append(saved[f], b)
          /\ \A g \in DOMAIN content : g # f => content'[g] = content[g]
          /\ SlotOf(ptrfil)'.name = f /\ SlotOf(ptrfil)'.pos = Len(saved[f]) + 1
          /\ \A n \in Files : n # ptrfil /\ Holds(n) /\ fdb[n].mode = "output" =>
               SlotOf(n)' = SlotOf(n) /\ SlotOf(n).name # f
      BY <1>a, <1>w, <2>1, <3>1, <3>2
    <3>4. /\ saved'[f] = Append(saved[f], b) /\ Len(saved'[f]) = Len(saved[f]) + 1
          /\ saved'[f][Len(saved'[f])] = b
          /\ \A g \in DOMAIN content : g # f => saved'[g] = saved[g]
      BY <1>a, <3>1, <3>3
    <3> HIDE DEF f
    <3>5. \A g \in DOMAIN content' : content'[g] \in {saved'[g], Append(saved'[g], CtrlZ)}
      BY <3>3, <3>4 DEF Written
    <3>6. \A n \in Files : Holds(n)' /\ fdb'[n].mode = "output" =>
            SlotOf(n)'.pos = Len(saved'[SlotOf(n)'.name])
      <4>1. ASSUME NEW n \in Files, Holds(n)', fdb'[n].mode = "output", n # ptrfil
            PROVE  SlotOf(n)'.pos = Len(saved'[SlotOf(n)'.name])
        <5>1. Holds(n) /\ fdb[n].mode = "output" /\ SlotOf(n)' = SlotOf(n) /\ SlotOf(n).name # f
          BY <2>1, <3>3, <4>1
        <5>2. SlotOf(n).name \in DOMAIN content /\ SlotOf(n).pos = Len(saved[SlotOf(n).name])
          BY <1>n, <2>1, <5>1 DEF Written
        <5> QED BY <3>4, <5>1, <5>2
      <4>2. SlotOf(ptrfil)'.pos = Len(saved'[SlotOf(ptrfil)'.name])
        BY <3>3, <3>4
      <4> QED BY <2>1, <4>1, <4>2
    <3>7. ASSUME NEW g \in DOMAIN content', content'[g] = saved'[g], saved'[g] # <<>>,
                 saved'[g][Len(saved'[g])] = CtrlZ
          PROVE  \E n \in Files : WritesTo(n, g)' /\ ~fdb'[n].binary
      <4>1. CASE g = f
        <5>1. b = CtrlZ
          BY <3>4, <3>7, <4>1
        <5>2. SlotOf(ptrfil)'.name = g /\ ~fdb'[ptrfil].binary
          BY <2>1, <3>1, <3>2, <3>3, <4>1, <5>1
        <5> QED BY <2>1, <3>2, <3>3, <5>2 DEF WritesTo
      <4>2. CASE g # f
        <5>1. g \in DOMAIN content /\ content[g] = saved[g] /\ saved'[g] = saved[g]
          BY <3>3, <3>4, <3>7, <4>2
        <5>2. PICK n \in Files : WritesTo(n, g) /\ ~fdb[n].binary
          BY <3>7, <5>1 DEF Written
        <5>3. n # ptrfil
          BY <4>2, <5>2 DEF WritesTo, f
        <5> QED BY <2>1, <3>3, <5>2, <5>3 DEF WritesTo
      <4> QED BY <4>1, <4>2
    <3> QED BY <3>1, <3>5, <3>6, <3>7 DEF Written
  <2> QED BY <2>2, <2>3
<1>10. CASE Open \/ Load \/ Save
  <2>1. PICK n \in Files, mode \in Modes, s \in Stales :
          /\ at = "ready" /\ ptrfil' = n /\ fdb' = [fdb EXCEPT ![n] = IniFdb(mode, s)]
          /\ at' \in {"create", "open"} /\ fdb[n].mode = "none"
          /\ UNCHANGED <<slot, content, saved>>
    BY <1>10, <1>a DEF Open, Load, Save, OpnFil, Begin, Goto, Modes, Allocated, history
  <2>2. \A m \in Files : m # n => fdb'[m] = fdb[m]
    BY <1>a, <2>1
  <2>3. /\ \A m \in Files : Holds(m)' => m # n
        /\ \A m \in Files : Holds(m) => Holds(m)' /\ m # n
        /\ \A m \in Files : m # n => (Holds(m)' => Holds(m)) /\ SlotOf(m)' = SlotOf(m)
    BY <2>1, <2>2 DEF Holds, Waiting, Allocated, SlotOf
  <2> QED BY <2>1, <2>2, <2>3, WrittenQuiet DEF WritesTo
<1>11. CASE CloseHandle
  <2>1. /\ at = "close" /\ closing \in Files /\ Allocated(closing)
        /\ slot' = [slot EXCEPT ![fdb[closing].handle] = FreeSlot]
        /\ fdb' = [fdb EXCEPT ![closing] = NoFdb] /\ freFdb' = None
        /\ at' \in {"done", "ended", "clsall"} /\ UNCHANGED <<content, saved>>
    BY <1>11, <1>a DEF CloseHandle, Freed, Goto, Places, Closing, Ground, TypeCtl, Optional
  <2>2. /\ fdb'[closing] = NoFdb /\ \A m \in Files : m # closing => fdb'[m] = fdb[m]
    BY <1>a, <2>1
  <2>3. Holds(closing)
    BY <2>1 DEF Holds, Waiting
  <2>4. \A m \in Files : m # closing => Holds(m)' = Holds(m)
    BY <1>a, <2>1, <2>2 DEF Holds, Waiting, Allocated
  <2>5. ASSUME NEW m \in Files, m # closing, Holds(m)
        PROVE  SlotOf(m)' = SlotOf(m)
    <3>1. fdb[m].handle # fdb[closing].handle /\ fdb[m].handle \in Handles
      BY <1>n, <2>1, <2>3, <2>5 DEF Each
    <3> QED BY <1>a, <2>1, <2>2, <2>5, <3>1 DEF SlotOf
  <2>6. fdb[closing].mode = "output" /\ ~fdb[closing].binary =>
          content[SlotOf(closing).name] # saved[SlotOf(closing).name]
    BY <1>a, <1>n, <2>1, <2>3, AppendDiffers DEF Written, TextOf
  <2>7. \A n \in Files : Holds(n)' => n # closing
    BY <1>a, <2>2 DEF Holds, Allocated
  <2>8. \A n \in Files : Holds(n)' /\ fdb'[n].mode = "output" =>
          /\ WritesTo(n, SlotOf(n).name) /\ SlotOf(n)' = SlotOf(n)
          /\ ~(at = "close" /\ closing = n)
    BY <2>2, <2>4, <2>5, <2>7 DEF WritesTo
  <2>9. \A n \in Files : Holds(n) /\ fdb[n].mode = "output" /\ ~fdb[n].binary =>
          \/ /\ Holds(n)' /\ fdb'[n].mode = "output" /\ ~fdb'[n].binary
             /\ SlotOf(n)' = SlotOf(n)
          \/ content[SlotOf(n).name] # saved[SlotOf(n).name]
    BY <2>2, <2>4, <2>5, <2>6
  <2> QED BY <2>1, <2>8, <2>9, WrittenQuiet
<1>12. CASE OpenHandle \/ CreateHandle \/ AppendSeek
  <2>1. PICK h \in Handles, mode \in {"input", "output", "append"}, pos \in Nat :
          /\ at \in Calling /\ ptrfil \in Files /\ filnm \in Names
          /\ UNCHANGED <<ptrfil, freFdb>>
          /\ at' = IF mode = "append" THEN "seek" ELSE Body(ptrfil)
          /\ slot' = [slot EXCEPT ![h] = [name |-> filnm, pos |-> pos]]
          /\ fdb'[ptrfil].handle = h /\ fdb'[ptrfil].mode = mode
          /\ \A n \in Files : n # ptrfil => fdb'[n] = fdb[n]
          /\ \/ /\ at = "open" /\ ~Used(h) /\ mode \in {"input", "append"}
                /\ UNCHANGED <<content, saved>>
             \/ /\ at = "create" /\ ~Used(h) /\ pos = 0
                /\ content' = Put(content, filnm, <<>>) /\ saved' = Put(saved, filnm, <<>>)
             \/ /\ at = "seek" /\ h = fdb[ptrfil].handle
                /\ pos = AppendAt(TextOf(ptrfil))
                /\ UNCHANGED <<content, saved>>
    BY <1>12, OpenMoves
  <2>2. /\ at' \in {"seek", "finprt", "clsall", "io"} /\ freFdb' = None
        /\ at \in {"open", "create", "seek"}
    BY <1>a, <2>1 DEF Places, Calling, Closing, Body
  <2>3. \A n \in Files : n # ptrfil => (Holds(n)' <=> Holds(n))
    BY <1>a, <2>1, <2>2 DEF Holds, Waiting, Allocated
  <2>4. at \in {"open", "create"} => ~Holds(ptrfil)
    BY DEF Holds, Waiting
  <2>5. at = "seek" => fdb[ptrfil].mode = "append" /\ Holds(ptrfil)
                        /\ SlotOf(ptrfil).name = filnm
    BY <1>a, <2>2 DEF Steering, Places, Holds, Waiting, Calling
  <2>6. ASSUME NEW n \in Files, n # ptrfil, Holds(n)
        PROVE  SlotOf(n)' = SlotOf(n)
    <3>1. fdb[n].handle \in Handles /\ Used(fdb[n].handle)
      BY <1>n, <2>6 DEF Each
    <3>2. fdb[n].handle # h
      BY <2>1, <2>5, <2>6, <3>1 DEF Each
    <3> QED BY <1>a, <2>1, <2>6, <3>1, <3>2 DEF SlotOf
  <2>7. CASE at = "open"
    <3>1. mode # "output" /\ UNCHANGED <<content, saved>>
      BY <2>1, <2>7
    <3>2. \A n \in Files : Holds(n)' /\ fdb'[n].mode = "output" =>
            /\ WritesTo(n, SlotOf(n).name) /\ SlotOf(n)' = SlotOf(n)
            /\ ~(at = "close" /\ closing = n)
      BY <2>1, <2>3, <2>6, <2>7, <3>1 DEF WritesTo
    <3>3. \A n \in Files : Holds(n) /\ fdb[n].mode = "output" /\ ~fdb[n].binary =>
            /\ Holds(n)' /\ fdb'[n].mode = "output" /\ ~fdb'[n].binary
            /\ SlotOf(n)' = SlotOf(n)
      BY <2>1, <2>3, <2>4, <2>6, <2>7
    <3> QED BY <2>2, <3>1, <3>2, <3>3, WrittenQuiet
  <2>8. CASE at \in {"create", "seek"}
    <3>1. ASSUME NEW n \in Files, n # ptrfil, Holds(n), fdb[n].mode = "output"
          PROVE  SlotOf(n).name # filnm
      BY <2>1, <2>5, <2>8, <3>1 DEF Apart
    <3>2. SlotOf(ptrfil)' = [name |-> filnm, pos |-> pos]
      BY <1>a, <2>1 DEF SlotOf
    <3>3. \A f \in DOMAIN content : f # filnm => content'[f] = content[f] /\ saved'[f] = saved[f]
      BY <1>a, <2>1, <2>8 DEF Put
    <3>4. pos = Len(saved'[filnm]) /\ filnm \in DOMAIN content'
      <4>1. CASE at = "create"
        <5>1. saved'[filnm] = <<>> /\ pos = 0 /\ filnm \in DOMAIN content'
          BY <2>1, <4>1 DEF Put
        <5> QED BY <5>1
      <4>2. CASE at = "seek"
        <5>1. /\ filnm \in DOMAIN content /\ TextOf(ptrfil) = content[filnm]
              /\ saved[filnm] \in Seq(Bytes)
          BY <1>a, <1>n, <2>1, <2>5, <4>2 DEF TextOf
        <5>2. ASSUME content[filnm] = saved[filnm], saved[filnm] # <<>>
              PROVE  saved[filnm][Len(saved[filnm])] # CtrlZ
          <6>1. SUFFICES ASSUME saved[filnm][Len(saved[filnm])] = CtrlZ
                         PROVE  FALSE
            OBVIOUS
          <6>2. PICK n \in Files : WritesTo(n, filnm)
            BY <5>1, <5>2, <6>1 DEF Written
          <6>3. n # ptrfil
            BY <2>5, <4>2, <6>2 DEF WritesTo
          <6> QED BY <3>1, <6>2, <6>3 DEF WritesTo
        <5>3. content[filnm] = saved[filnm] \/ content[filnm] = Append(saved[filnm], CtrlZ)
          BY <5>1 DEF Written
        <5>4. AppendAt(content[filnm]) = Len(saved[filnm])
          BY <5>1, <5>2, <5>3, AppendAtEndOf
        <5> QED BY <2>1, <4>2, <5>1, <5>4
      <4> QED BY <2>8, <4>1, <4>2
    <3>5. \A f \in DOMAIN content' : content'[f] \in {saved'[f], Append(saved'[f], CtrlZ)}
      <4>1. CASE at = "create"
        <5>1. content'[filnm] = saved'[filnm] /\ DOMAIN content' = DOMAIN content \cup {filnm}
          BY <2>1, <4>1 DEF Put
        <5> QED BY <3>3, <5>1 DEF Written
      <4>2. CASE at = "seek"
        BY <2>1, <4>2 DEF Written
      <4> QED BY <2>8, <4>1, <4>2
    <3>6. ASSUME NEW n \in Files, Holds(n)', fdb'[n].mode = "output"
          PROVE  SlotOf(n)'.pos = Len(saved'[SlotOf(n)'.name])
      <4>1. CASE n = ptrfil
        BY <2>1, <3>2, <3>4, <4>1 DEF SlotOf
      <4>2. CASE n # ptrfil
        <5>1. Holds(n) /\ fdb[n].mode = "output" /\ SlotOf(n)' = SlotOf(n)
          BY <2>1, <2>3, <2>6, <3>6, <4>2
        <5>2. /\ SlotOf(n).name \in DOMAIN content /\ SlotOf(n).name # filnm
              /\ SlotOf(n).pos = Len(saved[SlotOf(n).name])
          BY <1>n, <2>8, <3>1, <4>2, <5>1 DEF Written
        <5> QED BY <3>3, <5>1, <5>2
      <4> QED BY <4>1, <4>2
    <3>7. ASSUME NEW f \in DOMAIN content', content'[f] = saved'[f], saved'[f] # <<>>,
                 saved'[f][Len(saved'[f])] = CtrlZ
          PROVE  \E n \in Files : WritesTo(n, f)' /\ ~fdb'[n].binary
      <4>1. f \in DOMAIN content /\ content[f] = saved[f] /\ saved'[f] = saved[f]
        BY <2>1, <2>8, <3>3, <3>7 DEF Put
      <4>2. PICK n \in Files : WritesTo(n, f) /\ ~fdb[n].binary
        BY <3>7, <4>1 DEF Written
      <4>3. n # ptrfil /\ Holds(n) /\ fdb[n].mode = "output" /\ SlotOf(n).name = f
        BY <2>4, <2>5, <2>8, <4>2 DEF WritesTo
      <4> QED BY <2>1, <2>3, <2>6, <4>2, <4>3 DEF WritesTo
    <3> QED BY <2>2, <3>5, <3>6, <3>7 DEF Written
  <2> QED BY <2>2, <2>7, <2>8
<1> QED BY <1>1, <1>2, <1>3, <1>4, <1>5, <1>6, <1>7, <1>8, <1>9, <1>10, <1>11, <1>12
       DEF Next, Step, Statement

\* What has failed stays on record.
LEMMA FailedStays ==
  ASSUME Next
  PROVE  failed \subseteq failed'
<1>1. CASE WriteEof \/ CloseFails \/ OpenFails \/ CreateFails
  BY <1>1 DEF WriteEof, CloseFails, OpenFails, CreateFails, Fails
<1>2. CASE Statement
  BY <1>2 DEF Statement, Open, Load, Save, OpnFil, OpenAgain, AlreadyOpen, PrintFile, InputFile,
       UseFile, Close, Clear, history
<1>3. CASE FinPrt \/ Done \/ EndStatement \/ CloseHandle \/ ClsAllNext \/ ClsAllEnds
           \/ OpenHandle \/ CreateHandle
  BY <1>3 DEF FinPrt, Done, EndStatement, CloseHandle, ClsAllNext, ClsAllEnds, OpenHandle,
       CreateHandle, history
<1>4. CASE AppendSeek \/ AppendSeekFails \/ OutDo \/ OutputEnds \/ InchBacked \/ InchByte
           \/ InchFails \/ InchEof \/ BakChr \/ InputEnds
  BY <1>4 DEF AppendSeek, AppendSeekFails, OutDo, OutputEnds, InchBacked, InchByte, InchFails,
       InchEof, BakChr, InputEnds, history
<1> QED BY <1>1, <1>2, <1>3, <1>4 DEF Next, Step

------------------------------------------------------------------------------
(* The second invariant and its theorems                                     *)

\* The second invariant: the slots are apart and files are read in order as long as no OPEN has
\* failed, and the files hold what was written as long as nothing has.
DataInv ==
  /\ Steering /\ Fresh
  /\ "open" \notin failed => Each /\ Apart /\ InOrder
  /\ failed = {} => Written

LEMMA InitData ==
  ASSUME Init
  PROVE  DataInv
<1>1. /\ at = "ready" /\ nlonly = FALSE /\ freFdb = None /\ saved = content
      /\ \A n \in Files : ~Allocated(n) /\ ~fdb[n].binary /\ fdb[n].backed = None
                          /\ fdb[n].mode = "none" /\ got[n] = <<>>
      /\ \A f \in DOMAIN content : content[f] = <<>>
      /\ Numbers \subseteq Files
  BY DEF Init, NoFdb, Allocated, Files
<1>2. \A n \in Files : ~Holds(n)
  BY <1>1 DEF Holds
<1>3. Steering
  BY <1>1 DEF Steering, Calling, Using
<1>4. Fresh
  BY <1>1 DEF Fresh
<1>5. Each /\ Apart /\ InOrder
  BY <1>1, <1>2 DEF Each, Apart, InOrder
<1>6. Written
  BY <1>1, <1>2 DEF Written
<1> QED BY <1>3, <1>4, <1>5, <1>6 DEF DataInv

LEMMA StepData ==
  ASSUME DiskInv, DataInv, Next
  PROVE  DataInv'
<1>1. Ground
  BY Grounded
<1>2. Steering' /\ Fresh'
  BY <1>1, SteeringStep, FreshStep DEF DataInv
<1>3. failed \subseteq failed'
  BY FailedStays
<1>4. ASSUME "open" \notin failed'
      PROVE  Each' /\ Apart' /\ InOrder'
  <2>1. Each /\ Apart /\ InOrder /\ Steering /\ Fresh
    BY <1>3, <1>4 DEF DataInv
  <2> QED BY <1>1, <1>4, <2>1, ApartStep, InOrderStep
<1>5. ASSUME failed' = {}
      PROVE  Written'
  <2>1. Each /\ Apart /\ Steering /\ Written /\ failed = {}
    BY <1>3, <1>5 DEF DataInv
  <2> QED BY <1>1, <1>5, <2>1, WrittenStep
<1> QED BY <1>2, <1>4, <1>5 DEF DataInv

LEMMA StutterData ==
  ASSUME DataInv, UNCHANGED vars
  PROVE  DataInv'
<1>1. /\ UNCHANGED <<at, stmt, ptrfil, filnm, closing, fdb, freFdb, nlonly>>
      /\ UNCHANGED <<slot, content, saved, got, failed>>
  BY DEF vars
<1>2. Steering' /\ Fresh'
  BY <1>1 DEF DataInv, Steering, Fresh
<1>3. ASSUME NEW n \in Files
      PROVE  /\ Holds(n)' <=> Holds(n)
             /\ SlotOf(n)' = SlotOf(n) /\ TextOf(n)' = TextOf(n)
             /\ Right(n)' <=> Right(n)
  BY <1>1 DEF Holds, Waiting, Allocated, SlotOf, TextOf, Right, Given
<1>4. Each /\ Apart /\ InOrder => Each' /\ Apart' /\ InOrder'
  BY <1>1, <1>3 DEF Each, Apart, InOrder, Used
<1>5. Written => Written'
  <2>1. \A n \in Files : \A f : WritesTo(n, f)' <=> WritesTo(n, f)
    BY <1>1, <1>3 DEF WritesTo
  <2> QED BY <1>1, <1>3, <2>1 DEF Written, TextOf, SlotOf
<1> QED BY <1>1, <1>2, <1>4, <1>5 DEF DataInv

\* The second invariant holds in every state, whatever has failed.
THEOREM DataInvariant == Spec => []DataInv
<1>1. Init => DataInv
  BY InitData
<1>2. DiskInv /\ DataInv /\ [Next]_vars => DataInv'
  BY StepData, StutterData
<1> QED BY <1>1, <1>2, DiskInvariant, PTL DEF Spec

\* Between statements every open file number has an open slot of its own, for every set of
\* numbers and slots, until an OPEN fails.
THEOREM SlotForEach == Spec => []EachFdbItsSlot
<1>1. DiskInv /\ DataInv => EachFdbItsSlot
  <2> SUFFICES ASSUME DiskInv, DataInv, at = "ready", "open" \notin failed
               PROVE  /\ \A n \in Files : Allocated(n) => Used(fdb[n].handle)
                      /\ \A n, m \in Files :
                           Allocated(n) /\ Allocated(m) /\ fdb[n].handle = fdb[m].handle => n = m
    BY DEF EachFdbItsSlot
  <2>1. \A n \in Files : Allocated(n) => Holds(n)
    BY DEF Holds, Waiting
  <2> QED BY <2>1 DEF DataInv, Each
<1> QED BY <1>1, DiskInvariant, DataInvariant, PTL

\* Between statements each file holds what programs wrote and at most one ^Z more, and its writer
\* is at the end of it, until an OPEN, a final ^Z or a CLOSE fails.
THEOREM DiskHasText == Spec => []TextOnDisk
<1>1. DiskInv /\ DataInv => TextOnDisk
  <2> SUFFICES ASSUME DiskInv, DataInv, at = "ready", failed = {}
               PROVE  \A f \in DOMAIN content :
                        /\ content[f] \in {saved[f], Append(saved[f], CtrlZ)}
                        /\ \A n \in Writer(f) : SlotOf(n).pos = Len(saved[f])
    BY DEF TextOnDisk
  <2>1. Written
    BY DEF DataInv
  <2>2. \A f : \A n \in Writer(f) : /\ n \in Files /\ Holds(n) /\ fdb[n].mode = "output"
                                    /\ SlotOf(n).name = f
    BY DEF Writer, Files, Holds, Waiting, Allocated
  <2> QED BY <2>1, <2>2 DEF Written
<1> QED BY <1>1, DiskInvariant, DataInvariant, PTL

\* INPUT# and LOAD are given the bytes of their file in order, none twice and none skipped, until
\* an OPEN fails.
THEOREM GivenInOrder == Spec => []ReadsInOrder
<1>1. DiskInv /\ DataInv => ReadsInOrder
  <2> SUFFICES ASSUME DiskInv, DataInv, at \in {"ready", "io", "read", "more"},
                      "open" \notin failed, NEW n \in Files, fdb[n].mode = "input"
               PROVE  SubSeq(TextOf(n), 1, SlotOf(n).pos) = Given(n)
    BY DEF ReadsInOrder, Given
  <2>1. Holds(n)
    BY DEF Holds, Waiting, Allocated
  <2> QED BY <2>1 DEF DataInv, InOrder, Right
<1> QED BY <1>1, DiskInvariant, DataInvariant, PTL
==============================================================================
