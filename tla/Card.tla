-------------------------------- MODULE Card --------------------------------
(***************************************************************************)
(* A card from the tools to the machine.  The firmware saves and deletes     *)
(* files on it; build_basic_eromcard.py puts a program, a BASIC file and a   *)
(* page of ROM on it; install_eromcard.py puts files on it; the ROM CARD     *)
(* menu loads EROMCARD.X from it and runs the program step by step, which    *)
(* maps the page, calls into it and hands the machine back to the menu.      *)
(* A tool works on a copy in memory and writes the image at its end: a run   *)
(* that fails changes no card, and is no step here.                          *)
(***************************************************************************)
EXTENDS CardVolume, CardStub

CONSTANTS
  Saves,      \* files the firmware may save: File records
  Builds,     \* command lines of the builder: [kind, segment, limit, basic]
  Installs,   \* sequences of files install_eromcard.py may be given
  StubSize    \* kind -> sectors of the program

ASSUME FilesAssumption ==
  /\ \A file \in Saves : /\ file = File(file.name, "none", file.size) /\ file.size \in Nat
                         /\ file.name \in {"TEST.TXT", "DW-BASIC.COD"}
  /\ \A b \in Builds : b.kind \in Kinds /\ b.basic \in Nat
  /\ StubSize \in [Kinds -> Nat \ {0}]

VARIABLES
  vol,    \* the volume
  page,   \* the card page behind it
  files,  \* the files written last, by name
  mach    \* the machine while a program runs, and what it left behind

vars == <<vol, page, files, mach>>

Names  == {"TEST.TXT", "DW-BASIC.COD", "BASIC.BAS", "EROMCARD.X"}
NoFile == File("deleted", "none", 0)
NoPage == [ff00 |-> "none", pocket |-> {}]
Menu   == [rest |-> <<>>, bank |-> "rom", lcd |-> "menu", flag |-> "0",
           ds |-> "zero", open |-> FALSE, result |-> "none"]

Idle == mach.rest = <<>>

------------------------------------------------------------------------------
(* The firmware on the card, and the tools                                   *)

Save(file) ==
  /\ Idle
  /\ ~Exists(vol.root, file.name) /\ CanWrite(vol, file, RootEntries)
  /\ vol' = WriteFile(vol, file, 1, RootEntries)
  /\ files' = [files EXCEPT ![file.name] = file]
  /\ UNCHANGED <<page, mach>>

Delete(i) ==
  /\ Idle
  /\ vol.root[i] # NoEntry
  /\ vol' = Deleted(vol, i)
  /\ files' = [files EXCEPT ![vol.root[i].name] = NoFile]
  /\ UNCHANGED <<page, mach>>

\* What main refuses before it touches the image: A4F0 is where the firmware loads the
\* program, C84 the least work area of the 325 BASIC, the LCD value one byte.
Accepts(b) ==
  LET base == (b.segment * 16) % 65536
  IN /\ b.limit >= 3204
     /\ ~(base <= 42224 /\ 42224 < base + b.limit)
     /\ b.segment \div 32 <= 255
     /\ StubOf(b.kind).ok /\ Routine(Ff00(b.kind)).ok

Stub(kind)  == File("EROMCARD.X", kind, StubSize[kind])
Basic(size) == File("BASIC.BAS", "none", size)

\* Hidden behind a free entry, where find_root_entry does not look
Hidden(root, name) == \E i, j \in DOMAIN root : i < j /\ root[i] = NoEntry /\ root[j].name = name

\* The page put on the card itself before the files are known to fit
BuildInPlace(b) ==
  /\ Idle
  /\ Accepts(b)
  /\ \A name \in {"EROMCARD.X", "BASIC.BAS"} : ~Hidden(vol.root, name)
  /\ page' = Page(b.kind)
  /\ LET v == WriteFile(vol, Stub(b.kind), 1, RootEntries)
     IN IF CanWrite(vol, Stub(b.kind), RootEntries) /\ CanWrite(v, Basic(b.basic), RootEntries)
        THEN /\ vol' = WriteFile(v, Basic(b.basic), 1, RootEntries)
             /\ files' = [files EXCEPT !["EROMCARD.X"] = Stub(b.kind),
                                       !["BASIC.BAS"] = Basic(b.basic)]
        ELSE UNCHANGED <<vol, files>>
  /\ UNCHANGED mach

\* main: the page, the program, the BASIC file, and then the card
Build(b) ==
  /\ Idle
  /\ Accepts(b)
  /\ \A name \in {"EROMCARD.X", "BASIC.BAS"} : ~Hidden(vol.root, name)
  /\ CanWrite(vol, Stub(b.kind), RootEntries)
  /\ LET v == WriteFile(vol, Stub(b.kind), 1, RootEntries)
     IN /\ CanWrite(v, Basic(b.basic), RootEntries)
        /\ vol' = WriteFile(v, Basic(b.basic), 1, RootEntries)
  /\ page' = Page(b.kind)
  /\ files' = [files EXCEPT !["EROMCARD.X"] = Stub(b.kind), !["BASIC.BAS"] = Basic(b.basic)]
  /\ UNCHANGED mach

\* install_eromcard.py: EROMCARD.X and further files, all of them or none; the page is not
\* touched.
Install(list) ==
  LET made[k \in 0 .. Len(list)] ==
        IF k = 0 THEN vol ELSE WriteFile(made[k - 1], list[k], 3, InstallEntries)
  IN /\ Idle
     /\ \A k \in DOMAIN list : /\ ~Hidden(vol.root, list[k].name)
                               /\ CanWrite(made[k - 1], list[k], InstallEntries)
     /\ vol' = made[Len(list)]
     /\ files' = [name \in Names |-> IF \E k \in DOMAIN list : list[k].name = name
                                     THEN list[CHOOSE k \in DOMAIN list : list[k].name = name]
                                     ELSE files[name]]
     /\ UNCHANGED <<page, mach>>

------------------------------------------------------------------------------
(* The program in the machine                                                *)

\* OTHERS, ROM CARD: the first EROMCARD.X there is
Boot ==
  /\ Idle
  /\ Exists(vol.root, "EROMCARD.X")
  /\ LET e == Entry(vol, "EROMCARD.X")
     IN /\ Readable(vol, e)
        /\ ReadFile(vol, e)[1].kind \in Kinds
        /\ mach' = [mach EXCEPT !.rest = StubOf(ReadFile(vol, e)[1].kind).steps]
  /\ UNCHANGED <<vol, page, files>>

At(ops) == ~Idle /\ Head(mach.rest).op \in ops

Now == Head(mach.rest)
Goes(m) == mach' = [m EXCEPT !.rest = Tail(mach.rest)] /\ UNCHANGED <<vol, page, files>>

OutPort ==
  /\ At({"bank", "lcd"})
  /\ Goes(IF Now.op = "bank" THEN [mach EXCEPT !.bank = Now.arg] ELSE [mach EXCEPT !.lcd = Now.arg])

SetFlag == At({"flag"}) /\ Goes([mach EXCEPT !.flag = Now.arg])

\* The steps that end with another DS
SetData == At({"path", "reloc", "ds", "work", "say"}) /\ Goes([mach EXCEPT !.ds = Now.arg])

\* [0244], [0248], [0250] and the display and key vectors
CallVector ==
  /\ At({"vector"})
  /\ CASE Now.arg = "open"  ->
            \E got \in {Exists(vol.root, "BASIC.BAS"), FALSE} :
              Goes([mach EXCEPT !.open = got, !.result = IF got THEN "opened" ELSE "fails"])
       [] Now.arg = "read"  -> \E r \in {"marked", "fails"} : Goes([mach EXCEPT !.result = r])
       [] Now.arg = "close" -> Goes([mach EXCEPT !.open = FALSE])
       [] OTHER             -> Goes(mach)

\* 31B6, the 325 loader, from RAM or in the page
AtLoader == At({"load"}) \/ (At({"slot"}) /\ Now.arg = "31B6")

Loads ==
  /\ AtLoader
  /\ \E ok \in {Exists(vol.root, "BASIC.BAS"), FALSE} :
       Goes([mach EXCEPT !.result = IF ok THEN "loaded" ELSE "fails"])

\* It reads the file from the card.  With the page mapped that may reset the machine, or hang
\* it until it is reset (docs/basic-eromcard.md:519, 690).
LoadResets ==
  /\ AtLoader /\ mach.bank = "card"
  /\ mach' = Menu
  /\ UNCHANGED <<vol, page, files>>

\* The other calls into the page come back, BASIC too if it ends.
CallPage ==
  /\ At({"slot", "trampoline", "basic", "show"}) /\ Now.arg # "31B6"
  /\ Goes(mach)

EnterPage ==
  /\ At({"enter"})
  /\ mach' = [mach EXCEPT !.rest = Routine(page.ff00).steps \o Tail(mach.rest)]
  /\ UNCHANGED <<vol, page, files>>

\* "fails": the steps after a load that failed; the others: those unless the result is this
Branches ==
  /\ At({"fails", "opened", "marked"})
  /\ LET elsewhere == IF Now.op = "fails" THEN mach.result = "fails" ELSE mach.result # Now.op
     IN mach' = [mach EXCEPT !.rest = IF elsewhere THEN Now.else ELSE Tail(mach.rest),
                              !.result = "none"]
  /\ UNCHANGED <<vol, page, files>>

Program == \/ OutPort \/ SetFlag \/ SetData \/ CallVector \/ Loads \/ LoadResets
           \/ CallPage \/ EnterPage \/ Branches

------------------------------------------------------------------------------
Init == /\ vol = Formatted /\ page = NoPage /\ mach = Menu
        /\ files = [name \in Names |-> NoFile]

Next == \/ \E file \in Saves : Save(file)
        \/ \E i \in 1 .. RootEntries : Delete(i)
        \/ \E b \in Builds : Build(b)
        \/ Boot \/ Program

Spec == Init /\ [][Next]_vars

\* With install_eromcard.py at work on the card as well
NextInstall == Next \/ \E list \in Installs : Install(list)

SpecInstall == Init /\ [][NextInstall]_vars

------------------------------------------------------------------------------
(* Properties                                                                *)

\* Table, directory and machine are well formed: an entry that is in use starts with a
\* cluster of the volume.
TypeOK ==
  /\ DOMAIN vol.fat = Nibbles /\ \A n \in Nibbles : vol.fat[n] \in 0 .. 15
  /\ \A i \in 1 .. RootEntries : vol.root[i] = NoEntry \/ vol.root[i].first \in Clusters
  /\ DOMAIN vol.data = Clusters
  /\ DOMAIN files = Names
  /\ mach.open \in BOOLEAN /\ mach.result \in {"none", "opened", "marked", "loaded", "fails"}
  /\ mach.bank \in {"rom", "card"} /\ mach.lcd \in {"menu", "basic"} /\ mach.flag \in {"0", "1"}

Whole(file) == [n \in 1 .. file.size |-> Sector(file, n)]

\* Every file reads back as it was written, whatever has been written, deleted and built
\* since, and in whatever pieces it lies.
FilesRead ==
  \A name \in Names : files[name] # NoFile =>
    /\ Exists(vol.root, name)
    /\ Readable(vol, Entry(vol, name)) /\ ReadFile(vol, Entry(vol, name)) = Whole(files[name])

ChainOf(i) ==
  LET at == Walk(vol.fat, vol.root[i].first)
  IN {at[k] : k \in 1 .. Needed(vol.root[i].size)}

InUse == {i \in 1 .. RootEntries : vol.root[i] # NoEntry}

\* A cluster is taken exactly if it is in the chain of a file, and then of one file only:
\* no space is lost and no sector shared.
NothingLost ==
  /\ UNION {ChainOf(i) : i \in InUse} = Clusters \ Free(vol.fat)
  /\ \A i, j \in InUse : i # j => ChainOf(i) \cap ChainOf(j) = {}

Cod == File("DW-BASIC.COD", "none", CodSize)

\* The loader takes an image exactly if all its sectors lie one behind the other in the
\* store, in an entry it looks at: only such an image can run in place.
CodeRunsInPlace ==
  TakesCode(vol) <=>
    \E i \in 1 .. LoaderEntries :
      /\ vol.root[i].name = "DW-BASIC.COD" /\ vol.root[i].size = CodSize
      /\ vol.root[i].first + CodSize - 1 \in Clusters
      /\ CodeImage(vol, vol.root[i].first) = Whole(Cod)

\* A program that calls into the page, or shows a text of it, has mapped it, and finds there
\* what it calls, whatever builds failed and whatever was deleted and built again before.  Of
\* a loader in RAM nothing is said: it needs the tables of the page, and fails to read the
\* card while the page is mapped.
CallsLand ==
  At({"slot", "enter", "show", "trampoline", "basic"}) =>
    /\ mach.bank = "card"
    /\ Now.op = "slot" => Now.arg \in page.pocket
    /\ Now.op = "show" => page.ff00 = "smoke-map"
    /\ Now.op = "enter" => page.ff00 \in IF Now.arg = "basic"
                                         THEN {"basic-exec", "basic-probe", "basic-steps"}
                                         ELSE {"smoke-exec", "f200-smoke"}

\* The menu gets the machine back with its own picture on the LCD, the BASIC flag clear, its
\* data segment in DS and no file open, on every way through every program.  The page is not
\* in it: most programs that map it leave it mapped on one way out or another.
HandsBack ==
  Idle => mach.lcd = "menu" /\ mach.flag = "0" /\ mach.ds = "zero" /\ ~mach.open
============================================================================
