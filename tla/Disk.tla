-------------------------------- MODULE Disk --------------------------------
(***************************************************************************)
(* Sequential files of DW-BASIC: the handle-based backend                  *)
(* dw-basic/src/gw/dwdisk.asm under the device-independent statements of   *)
(* dw-basic/src/gw/gio86.asm.                                              *)
(*                                                                         *)
(* A file number owns a file data block (FDB), and an open FDB a handle,   *)
(* which is one of the few open-file slots of the firmware.  A statement   *)
(* makes several firmware calls and each of them may fail; an error resets *)
(* the stack and runs FINPRT, which closes file 0 and may fail in turn.    *)
(* One action is one firmware call with the code up to the next one.       *)
(*                                                                         *)
(* An FDB is linked before its handle is known: until OPEN stores it, the  *)
(* handle word is whatever the memory held.                                *)
(***************************************************************************)
EXTENDS Integers, Sequences

CONSTANTS
  Numbers,  \* the file numbers of OPEN ... AS #n
  File0,    \* the file number 0, which LOAD and SAVE use
  Handles,  \* the firmware's open-file slots
  Names,    \* file names
  Data,     \* bytes that programs write, besides ^Z
  CtrlZ,    \* ASCCTZ
  None,     \* no file, no name, no byte
  MaxLen    \* bound: a file has room for this many bytes and a final ^Z

ASSUME DiskAssumption ==
  /\ File0 \notin Numbers /\ CtrlZ \notin Data
  /\ None \notin Names \cup Data \cup {CtrlZ, File0} \cup Numbers
  /\ "bad" \notin Handles /\ None \notin {"done", "ended", "clsall"}
  /\ MaxLen \in Nat

VARIABLES
  at,        \* the next firmware call, or "ready" between statements
  stmt,      \* the statement that uses a file
  ptrfil,    \* PTRFIL: the file number that OUTDO and INCHR use
  filnm,     \* FILNM: the name being opened
  closing,   \* the file number CLSFIL is closing
  back,      \* where CLSFIL returns to
  fdb,       \* the file data blocks
  freFdb,    \* FREFDB: the FDB that FINPRT must free
  nlonly,    \* bit 01 of NLONLY: do not close file 0
  slot,      \* the firmware's open-file slots
  content,   \* the files on the card; the domain is the directory
  errs,      \* the errors of the statement; the last one, in DL, is shown
  saved,     \* what programs wrote to each file since it was created (history)
  got,       \* what programs were given of each open file (history)
  failed     \* an "open", the "final" ^Z or a "close" has failed so far (history)

control == <<at, stmt, ptrfil, filnm, closing, back, nlonly, errs>>
history == <<saved, got, failed>>
vars    == <<at, stmt, ptrfil, filnm, closing, back, fdb, freFdb, nlonly,
             slot, content, errs, saved, got, failed>>

Files == Numbers \cup {File0}
Bytes == Data \cup {CtrlZ}

------------------------------------------------------------------------------
(* File data blocks and the firmware's slots                                 *)

NoFdb == [mode |-> "none", handle |-> "bad", atEof |-> FALSE,
          backed |-> None, binary |-> FALSE]

\* INIFDB: mode and flags are set, the handle is not.
IniFdb(mode, stale) == [mode |-> mode, handle |-> stale, atEof |-> FALSE,
                        backed |-> None, binary |-> FALSE]

Allocated(n) == fdb[n].mode # "none"

FreeSlot == [name |-> None, pos |-> 0]

Used(h)    == h \in Handles /\ slot[h].name # None
SlotOf(n)  == slot[fdb[n].handle]
TextOf(n)  == content[SlotOf(n).name]
Present(f) == f \in DOMAIN content

Patch(text, pos, byte) ==
  IF pos < Len(text) THEN [text EXCEPT ![pos + 1] = byte] ELSE Append(text, byte)

\* A program that writes a file uses it under no other number.
Shares(mode, f) ==
  \A n \in Files : Allocated(n) /\ Used(fdb[n].handle) /\ SlotOf(n).name = f =>
                  mode = "input" /\ fdb[n].mode = "input"

Put(f, g, x) == [y \in DOMAIN f \cup {g} |-> IF y = g THEN x ELSE f[y]]

------------------------------------------------------------------------------
(* ERROR, FINPRT and CLSFIL                                                  *)

\* ERROR clears NLONLY, and the reset of the stack runs FINPRT.
Raise(e) ==
  /\ errs' = Append(errs, e)
  /\ nlonly' = FALSE
  /\ at' = "finprt"
  /\ closing' = None /\ back' = None
  /\ UNCHANGED <<stmt, ptrfil, filnm>>

\* A firmware call of this kind has failed.
Fails(kind, e) == failed' = failed \cup {kind} /\ Raise(e)

Goto(l) == at' = l

\* Mutant of ClsFil: FREFDB is not set before the device routine runs.
ClsFilForgets(n, return) ==
  /\ freFdb' = None
  /\ closing' = n /\ back' = return
  /\ Goto(IF fdb[n].mode = "output" /\ ~fdb[n].binary THEN "write_eof" ELSE "close")

\* CLSFIL for an allocated FDB, into dw_disk_close: text files get a final ^Z.
ClsFil(n, return) ==
  /\ freFdb' = n
  /\ closing' = n /\ back' = return
  /\ Goto(IF fdb[n].mode = "output" /\ ~fdb[n].binary THEN "write_eof" ELSE "close")

\* Mutant of FinPrt: file 0 is not closed.
FinPrtFreesOnly ==
  /\ at = "finprt"
  /\ fdb' = IF freFdb = None THEN fdb ELSE [fdb EXCEPT ![freFdb] = NoFdb]
  /\ freFdb' = None /\ Goto("done")
  /\ UNCHANGED <<stmt, ptrfil, filnm, closing, back, nlonly, slot, content, errs, history>>

\* FINPRT frees the FDB of FREFDB, then closes file 0 if there is one.
FinPrt ==
  /\ at = "finprt"
  /\ LET kept == IF freFdb = None THEN fdb ELSE [fdb EXCEPT ![freFdb] = NoFdb]
     IN /\ fdb' = kept
        /\ got' = [n \in Files |-> IF n = freFdb THEN <<>> ELSE got[n]]
        /\ IF ~nlonly /\ kept[File0].mode # "none"
           THEN ClsFil(File0, "done")
           ELSE freFdb' = None /\ Goto("done") /\ UNCHANGED <<closing, back>>
  /\ UNCHANGED <<stmt, ptrfil, filnm, nlonly, slot, content, errs, saved, failed>>

\* PTRFIL is the console again, unless a program is being loaded.
Done ==
  /\ at = "done"
  /\ IF nlonly THEN Goto("io") /\ UNCHANGED ptrfil
               ELSE Goto("ended") /\ ptrfil' = None
  /\ UNCHANGED <<stmt, filnm, closing, back, nlonly, errs,
                 fdb, freFdb, slot, content, history>>

\* The error is shown, and the next statement begins.
EndStatement ==
  /\ at = "ended"
  /\ Goto("ready")
  /\ stmt' = "none" /\ filnm' = None /\ errs' = <<>>
  /\ UNCHANGED <<ptrfil, closing, back, nlonly, fdb, freFdb, slot, content, history>>

\* AH=40 for one byte: it moves the position, or fails and writes nothing.
WriteByte(n, byte) ==
  /\ Used(fdb[n].handle) /\ SlotOf(n).pos <= MaxLen
  /\ content' = [content EXCEPT ![SlotOf(n).name] = Patch(@, SlotOf(n).pos, byte)]
  /\ slot' = [slot EXCEPT ![fdb[n].handle].pos = @ + 1]

WriteEof ==
  /\ at = "write_eof"
  /\ \/ WriteByte(closing, CtrlZ) /\ Goto("close")
        /\ UNCHANGED <<stmt, ptrfil, filnm, closing, back, nlonly, errs, failed>>
     \/ Fails("final", "Device I/O Error") /\ UNCHANGED <<content, slot>>
  /\ UNCHANGED <<fdb, freFdb, saved, got>>

\* FFREE and the return of CLSFIL
Freed ==
  /\ freFdb' = None
  /\ fdb' = [fdb EXCEPT ![closing] = NoFdb]
  /\ got' = [got EXCEPT ![closing] = <<>>]
  /\ Goto(back) /\ closing' = None /\ back' = None

\* Mutant of CloseHandle: the FDB is freed and the handle is not closed.
CloseKeepsSlot ==
  /\ at = "close"
  /\ Used(fdb[closing].handle)
  /\ Freed
  /\ UNCHANGED <<stmt, ptrfil, filnm, nlonly, errs, slot, content, saved, failed>>

\* Mutant of CloseHandle: the handle is closed and the FDB is not freed.
CloseKeepsFdb ==
  /\ at = "close"
  /\ Used(fdb[closing].handle)
  /\ slot' = [slot EXCEPT ![fdb[closing].handle] = FreeSlot]
  /\ freFdb' = None
  /\ Goto(back) /\ closing' = None /\ back' = None
  /\ UNCHANGED <<stmt, ptrfil, filnm, nlonly, errs, fdb, content, history>>

\* AH=3E
CloseHandle ==
  /\ at = "close"
  /\ Used(fdb[closing].handle)
  /\ slot' = [slot EXCEPT ![fdb[closing].handle] = FreeSlot]
  /\ Freed
  /\ UNCHANGED <<stmt, ptrfil, filnm, nlonly, errs, content, saved, failed>>

\* The firmware rejects a handle that is not open, and releases the slot of one
\* whose directory entry it cannot update.
CloseFails ==
  /\ at = "close"
  /\ slot' = IF Used(fdb[closing].handle)
             THEN [slot EXCEPT ![fdb[closing].handle] = FreeSlot] ELSE slot
  /\ Fails("close", "Device I/O Error")
  /\ UNCHANGED <<fdb, freFdb, content, saved, got>>

\* CLSALL takes the next allocated FDB; CLSFIL skips file 0 while it loads.
ClsAllNext ==
  /\ at = "clsall"
  /\ \E n \in Files : Allocated(n) /\ (nlonly => n # File0) /\ ClsFil(n, "clsall")
  /\ UNCHANGED <<stmt, ptrfil, filnm, nlonly, errs, fdb, slot, content, history>>

ClsAllEnds ==
  /\ at = "clsall"
  /\ \A n \in Files : Allocated(n) => nlonly /\ n = File0
  /\ Goto("finprt")
  /\ UNCHANGED <<stmt, ptrfil, filnm, closing, back, nlonly, errs,
                 fdb, freFdb, slot, content, history>>

------------------------------------------------------------------------------
(* OPEN                                                                      *)

Begin(s) == at = "ready" /\ stmt' = s /\ UNCHANGED errs

\* OPNFIL up to the first firmware call of dw_disk_open
OpnFil(s, n, mode, f, stale) ==
  /\ Begin(s)
  /\ ~Allocated(n) /\ Shares(mode, f)
  /\ fdb' = [fdb EXCEPT ![n] = IniFdb(mode, stale)]
  /\ ptrfil' = n /\ filnm' = f
  /\ Goto(IF mode = "output" THEN "create" ELSE "open")
  /\ UNCHANGED <<closing, back, freFdb, nlonly, slot, content, history>>

AlreadyOpen(n) ==
  /\ at = "ready" /\ Allocated(n)
  /\ Raise("File already open")
  /\ UNCHANGED <<fdb, freFdb, slot, content, history>>

\* Where a statement goes on with its open file
Body(n) == IF stmt = "open" THEN "finprt" ELSE IF stmt = "load" THEN "clsall" ELSE "io"

\* LOAD sets NLONLY, and SAVE without ,A the binary code.
Opened(n, h, mode, pos) ==
  /\ slot' = [slot EXCEPT ![h] = [name |-> filnm, pos |-> pos]]
  /\ fdb' = [fdb EXCEPT ![n].handle = h, ![n].mode = mode,
                        ![n].binary = (stmt = "save")]
  /\ nlonly' = (stmt = "load")
  /\ Goto(Body(n))
  /\ UNCHANGED <<stmt, ptrfil, filnm, closing, back, errs>>

\* AH=3D for input and append
OpenHandle ==
  /\ at = "open"
  /\ Present(filnm)
  /\ \E h \in Handles :
       /\ ~Used(h)
       /\ IF fdb[ptrfil].mode = "input"
          THEN Opened(ptrfil, h, "input", 0)
          ELSE /\ slot' = [slot EXCEPT ![h] = [name |-> filnm, pos |-> 0]]
               /\ fdb' = [fdb EXCEPT ![ptrfil].handle = h]
               /\ Goto("seek")
               /\ UNCHANGED <<stmt, ptrfil, filnm, closing, back, nlonly, errs>>
  /\ UNCHANGED <<freFdb, content, history>>

\* It fails when the file is missing, no slot is free or the store is unreadable.
\* Append creates the file then; the FDB stays allocated when OPEN gives up.
OpenFails ==
  /\ at = "open"
  /\ IF fdb[ptrfil].mode = "append"
     THEN Goto("create") /\ UNCHANGED <<stmt, ptrfil, filnm, closing, back, nlonly,
                                        errs, failed>>
     ELSE Fails("open", "File not found")
  /\ UNCHANGED <<fdb, freFdb, slot, content, saved, got>>

\* AH=3C: an existing file is emptied.  For append it succeeds only where AH=3D
\* failed because the file is missing.  (dw_append_seek finds an empty file.)
CreateHandle ==
  /\ at = "create"
  /\ fdb[ptrfil].mode = "append" => ~Present(filnm)
  /\ content' = Put(content, filnm, <<>>)
  /\ saved' = Put(saved, filnm, <<>>)
  /\ \E h \in Handles : ~Used(h) /\ Opened(ptrfil, h, "output", 0)
  /\ UNCHANGED <<freFdb, got, failed>>

CreateFails ==
  /\ at = "create"
  /\ Fails("open", "Device I/O Error")
  /\ UNCHANGED <<fdb, freFdb, slot, content, saved, got>>

\* Mutant of AppendAt: no test for an empty file.
AppendAtLast(text) == IF text # <<>> /\ text[Len(text)] # CtrlZ THEN Len(text) ELSE Len(text) - 1

\* Mutant of AppendAt: the final ^Z stays in the file.
AppendAtEnd(text) == Len(text)

\* dw_append_seek goes to the end, or before a final ^Z.
AppendAt(text) ==
  IF text # <<>> /\ text[Len(text)] = CtrlZ THEN Len(text) - 1 ELSE Len(text)

AppendSeek ==
  /\ at = "seek"
  /\ Opened(ptrfil, fdb[ptrfil].handle, "output", AppendAt(TextOf(ptrfil)))
  /\ UNCHANGED <<freFdb, content, history>>

\* The last byte cannot be read: the mode is still append, the handle is stored.
AppendSeekFails ==
  /\ at = "seek"
  /\ Raise("Device I/O Error")
  /\ UNCHANGED <<fdb, freFdb, slot, content, history>>

------------------------------------------------------------------------------
(* The statements                                                            *)

Stales == Handles \cup {"bad"}

Open == \E n \in Numbers, mode \in {"input", "output", "append"}, f \in Names, s \in Stales :
          OpnFil("open", n, mode, f, s)

OpenAgain == \E n \in Numbers : AlreadyOpen(n)

Load == \E f \in Names, s \in Stales : OpnFil("load", File0, "input", f, s)

Save == \E how \in {"save", "save_a"}, f \in Names, s \in Stales :
          OpnFil(how, File0, "output", f, s)

\* PRINT# and INPUT#: FILGET checks the mode and sets PTRFIL.
UseFile(s, mode) ==
  \E n \in Numbers :
    /\ Begin(s)
    /\ fdb[n].mode = mode
    /\ ptrfil' = n
    /\ Goto("io")
    /\ UNCHANGED <<filnm, closing, back, nlonly, fdb, freFdb, slot, content, history>>

PrintFile == UseFile("print", "output")
InputFile == UseFile("input", "input")

Close ==
  \E n \in Numbers :
    /\ Begin("close")
    /\ Allocated(n) /\ ClsFil(n, "ended")
    /\ UNCHANGED <<ptrfil, filnm, nlonly, fdb, slot, content, history>>

\* NEW, CLEAR and RUN: CLSALL, then FINPRT as the stack is reset
Clear ==
  /\ Begin("clear")
  /\ Goto("clsall")
  /\ UNCHANGED <<ptrfil, filnm, closing, back, nlonly, fdb, freFdb, slot, content, history>>

Writing == at = "io" /\ stmt \in {"print", "save", "save_a"}
Reading == at \in {"io", "read", "more"} /\ stmt \in {"input", "load"}

\* OUTDO, or a byte of OUTBLK; a program saved in binary ends in a zero, not ^Z.
OutDo ==
  /\ Writing
  /\ \/ \E byte \in Bytes :
          /\ stmt = "save" => byte # CtrlZ
          /\ Used(fdb[ptrfil].handle) /\ SlotOf(ptrfil).pos < MaxLen
          /\ Len(saved[SlotOf(ptrfil).name]) < MaxLen
          /\ WriteByte(ptrfil, byte)
          /\ saved' = [saved EXCEPT ![SlotOf(ptrfil).name] = Append(@, byte)]
          /\ UNCHANGED control
     \/ Raise("Device I/O Error") /\ UNCHANGED <<content, slot, saved>>
  /\ UNCHANGED <<fdb, freFdb, got, failed>>

OutputEnds ==
  /\ Writing
  /\ Goto("finprt")
  /\ UNCHANGED <<stmt, ptrfil, filnm, closing, back, nlonly, errs,
                 fdb, freFdb, slot, content, history>>

\* "io" is before the first byte, "read" after it and "more" after others.
Deliver(byte) ==
  /\ got' = [got EXCEPT ![ptrfil] = Append(@, byte)]
  /\ Goto(IF at = "io" THEN "read" ELSE "more")

\* Mutant of InchBacked: the flag FL_BKC is not cleared.
InchBackedTwice ==
  /\ Reading /\ ~fdb[ptrfil].atEof /\ fdb[ptrfil].backed # None
  /\ Deliver(fdb[ptrfil].backed)
  /\ UNCHANGED <<stmt, ptrfil, filnm, closing, back, nlonly, errs,
                 fdb, freFdb, slot, content, saved, failed>>

\* INCHSI with a character backed up
InchBacked ==
  /\ Reading /\ ~fdb[ptrfil].atEof /\ fdb[ptrfil].backed # None
  /\ Deliver(fdb[ptrfil].backed)
  /\ fdb' = [fdb EXCEPT ![ptrfil].backed = None]
  /\ UNCHANGED <<stmt, ptrfil, filnm, closing, back, nlonly, errs,
                 freFdb, slot, content, saved, failed>>

ReadsDevice == Reading /\ ~fdb[ptrfil].atEof /\ fdb[ptrfil].backed = None

\* INCHSI through dw_disk_sin: ^Z is a byte like any other.
InchByte ==
  /\ ReadsDevice
  /\ Used(fdb[ptrfil].handle) /\ SlotOf(ptrfil).pos < Len(TextOf(ptrfil))
  /\ Len(got[ptrfil]) <= MaxLen
  /\ Deliver(TextOf(ptrfil)[SlotOf(ptrfil).pos + 1])
  /\ slot' = [slot EXCEPT ![fdb[ptrfil].handle].pos = @ + 1]
  /\ UNCHANGED <<stmt, ptrfil, filnm, closing, back, nlonly, errs,
                 fdb, freFdb, content, saved, failed>>

InchFails ==
  /\ ReadsDevice
  /\ Raise("Device I/O Error")
  /\ UNCHANGED <<fdb, freFdb, slot, content, history>>

\* No byte left, now or at an earlier call: LOAD is complete; INPUT# ends its item
\* or, at the first byte, gives Input past end.
InchEof ==
  /\ Reading
  /\ \/ fdb[ptrfil].atEof
     \/ ReadsDevice /\ Used(fdb[ptrfil].handle) /\ SlotOf(ptrfil).pos >= Len(TextOf(ptrfil))
  /\ fdb' = [fdb EXCEPT ![ptrfil].atEof = TRUE]
  /\ IF stmt = "input" /\ at = "io"
     THEN Raise("Input past end")
     ELSE /\ nlonly' = FALSE /\ Goto("finprt")
          /\ UNCHANGED <<stmt, ptrfil, filnm, closing, back, errs>>
  /\ UNCHANGED <<freFdb, slot, content, history>>

\* BAKCHR gives back the byte just read: the end of an item, or the first byte of
\* a program in ASCII.
BakChr ==
  /\ Reading /\ at # "io"
  /\ stmt = "load" => at = "read"
  /\ LET last == Len(got[ptrfil])
     IN /\ fdb' = [fdb EXCEPT ![ptrfil].backed = got[ptrfil][last]]
        /\ got' = [got EXCEPT ![ptrfil] = SubSeq(@, 1, last - 1)]
  /\ Goto(IF stmt = "load" THEN "more" ELSE "finprt")
  /\ UNCHANGED <<stmt, ptrfil, filnm, closing, back, nlonly, errs,
                 freFdb, slot, content, saved, failed>>

\* INPUT# has its item; LOAD meets a line it cannot take.
InputEnds ==
  /\ Reading /\ at # "io"
  /\ IF stmt = "input"
     THEN /\ Goto("finprt")
          /\ UNCHANGED <<stmt, ptrfil, filnm, closing, back, nlonly, errs>>
     ELSE Raise("Direct statement in file")
  /\ UNCHANGED <<fdb, freFdb, slot, content, history>>

------------------------------------------------------------------------------
Init ==
  /\ at = "ready" /\ stmt = "none" /\ ptrfil = None /\ filnm = None
  /\ closing = None /\ back = None
  /\ fdb = [n \in Files |-> NoFdb] /\ freFdb = None /\ nlonly = FALSE
  /\ slot = [h \in Handles |-> FreeSlot]
  /\ \E S \in SUBSET Names : content = [f \in S |-> <<>>]
  /\ errs = <<>>
  /\ saved = content /\ got = [n \in Files |-> <<>>] /\ failed = {}

Statement == Open \/ OpenAgain \/ Load \/ Save \/ PrintFile \/ InputFile \/ Close \/ Clear

Step ==
  \/ FinPrt \/ Done \/ EndStatement
  \/ WriteEof \/ CloseHandle \/ CloseFails \/ ClsAllNext \/ ClsAllEnds
  \/ OpenHandle \/ OpenFails \/ CreateHandle \/ CreateFails
  \/ AppendSeek \/ AppendSeekFails
  \/ OutDo \/ OutputEnds
  \/ InchBacked \/ InchByte \/ InchFails \/ InchEof \/ BakChr \/ InputEnds

Next == Statement \/ Step

Spec == Init /\ [][Next]_vars

------------------------------------------------------------------------------
(* Properties                                                                *)

Modes  == {"input", "output", "append"}
Labels == {"ready", "finprt", "done", "ended", "write_eof", "close", "clsall", "open",
           "create", "seek", "io", "read", "more"}
Errors == {"Device I/O Error", "File not found", "File already open",
           "Input past end", "Direct statement in file"}
Statements == {"none", "open", "load", "save", "save_a", "print", "input",
               "close", "clear"}
Optional(S) == S \cup {None}
Fdbs == [mode : Modes \cup {"none"}, handle : Stales, atEof : BOOLEAN,
         backed : Optional(Bytes), binary : BOOLEAN]
Slots == [name : Optional(Names), pos : Nat]

\* The state of the channel; FINPRT is only ever told to free an FDB that exists, and
\* a slot is open on a file that exists.
TypeOK ==
  /\ at \in Labels /\ stmt \in Statements
  /\ ptrfil \in Optional(Files) /\ filnm \in Optional(Names)
  /\ closing \in Optional(Files) /\ back \in Optional({"done", "ended", "clsall"})
  /\ freFdb \in Optional(Files) /\ nlonly \in BOOLEAN
  /\ errs \in Seq(Errors)
  /\ fdb \in [Files -> Fdbs] /\ slot \in [Handles -> Slots]
  /\ DOMAIN content \subseteq Names /\ DOMAIN saved = DOMAIN content
  /\ \A f \in DOMAIN content : content[f] \in Seq(Bytes) /\ saved[f] \in Seq(Bytes)
  /\ got \in [Files -> Seq(Bytes)]
  /\ failed \subseteq {"open", "final", "close"}
  /\ freFdb # None => Allocated(freFdb)
  /\ \A h \in Handles : Used(h) => Present(slot[h].name)

\* Whatever failed in a statement, and in what order, the next statement finds
\* the console as the current file, file 0 free, nothing left for FINPRT to free
\* and no load in progress (FINPRT and ERROR).
StatementLeavesNothing ==
  at = "ready" => /\ ptrfil = None /\ ~Allocated(File0)
                  /\ freFdb = None /\ ~nlonly

\* FINPRT closes file 0, and may fail in it, after any error, an error of CLSFIL or of
\* FINPRT included: it never meets the same file again, so that a statement ends after
\* two errors at most (FREFDB, set before the device's close routine runs).
CleanupEnds == Len(errs) <= 2

\* An open-file slot of the firmware always belongs to a file number that can
\* still be closed, so slots are not used up -- as long as every final ^Z could be
\* written (dw_disk_close, CLSFIL, FFREE).
SlotsOwned ==
  "final" \notin failed =>
    \A h \in Handles : Used(h) => \E n \in Files : Allocated(n) /\ fdb[n].handle = h

\* As long as no OPEN has failed, every open file number has an open slot of its
\* own between statements: no statement closes the file of another.
EachFdbItsSlot ==
  at = "ready" /\ "open" \notin failed =>
    /\ \A n \in Files : Allocated(n) => Used(fdb[n].handle)
    /\ \A n, m \in Files :
         Allocated(n) /\ Allocated(m) /\ fdb[n].handle = fdb[m].handle => n = m

Writer(f) == {n \in Numbers : fdb[n].mode = "output" /\ SlotOf(n).name = f}

\* Between statements a file holds what programs wrote, over any number of OPENs
\* for output and append, up to the position of the number that writes it, and at
\* most one ^Z after that, whichever bytes were ^Z themselves, as long as no OPEN,
\* final ^Z or CLOSE has failed (dw_append_seek, dw_disk_close).
TextOnDisk ==
  at = "ready" /\ failed = {} =>
    \A f \in DOMAIN content :
      /\ content[f] \in {saved[f], Append(saved[f], CtrlZ)}
      /\ \A n \in Writer(f) : SlotOf(n).pos = Len(saved[f])

\* INPUT# and LOAD are given the bytes of the file in order, none twice and none
\* skipped, over characters that are backed up by one statement and read by the
\* next (BAKCHR, INCHSI, dw_disk_sin).
ReadsInOrder ==
  at \in {"ready", "io", "read", "more"} /\ "open" \notin failed =>
    \A n \in Files : fdb[n].mode = "input" =>
      SubSeq(TextOf(n), 1, SlotOf(n).pos) =
        IF fdb[n].backed = None THEN got[n] ELSE Append(got[n], fdb[n].backed)

\* An OPEN that fails leaves its number free for another OPEN: FINPRT is meant to
\* release the FDB "if some error occurs in between" (the comment on FREFDB).
FailedOpenFreesNumber ==
  at = "done" /\ stmt = "open" /\ errs # <<>> => ~Allocated(ptrfil)
==============================================================================
