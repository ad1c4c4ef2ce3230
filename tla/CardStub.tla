------------------------------ MODULE CardStub ------------------------------
(***************************************************************************)
(* The programs that src/tools/build_basic_eromcard.py can put on a card as *)
(* EROMCARD.X, and the routines it patches into the card page that such a   *)
(* program maps into the top 128 KiB of the address space.  A program is the *)
(* sequence of the things it does that something else can see; registers    *)
(* and text are left out.                                                    *)
(***************************************************************************)
EXTENDS Naturals, Sequences, FiniteSets

\* A step: what it does, an argument, the field of the template it is filled in from, and
\* for "fails" the steps taken instead of the rest when loading failed.
Step(op, arg, field) == [op |-> op, arg |-> arg, field |-> field, else |-> <<>>]

MapPage    == Step("bank", "card", "bank")
UnmapPage  == Step("bank", "rom", "none")
PathFixed  == Step("path", "cs", "path")     \* copies the path to 0:7F5F, leaves DS = CS
Say        == Step("say", "zero", "text")    \* show_message: sets DS to 0, shows, waits for a key
SayMapped  == Step("trampoline", "say", "text")  \* the same by way of F200:0004 and F200:0030
FlagSet    == Step("flag", "1", "none")      \* [7653]: BASIC owns the screen
FlagClear  == Step("flag", "0", "none")
ShowBasic  == Step("lcd", "basic", "lcd")    \* the picture copied, and port 0 set
ShowMenu   == Step("lcd", "menu", "restore")
WorkArea   == Step("work", "zero", "work")   \* sets DS to 0, fills the fields at 0:478E
Reloc      == Step("reloc", "cs", "reloc")   \* copies the slice of the 325 ROM to RAM
LoadInRam  == Step("load", "ram", "reloc")   \* far call of 31B6 in the slice
DataZero   == Step("ds", "zero", "none")
Slot(name) == Step("slot", name, "wrappers") \* far call of a wrapper in the pocket of the page
Enter(name) == Step("enter", name, "routine") \* far call of the routine at FF00:0000
ShowMapped == Step("show", "message", "message") \* the text at FF00:0000, by vector
RunBasic   == Step("basic", "7DAB", "work")  \* far call of F200:7DAB
Vector(name) == Step("vector", name, "none") \* far call by way of a vector at 0:02xx
Unless(op, steps) == [Step(op, "none", "none") EXCEPT !.else = steps]
IfFailed(steps)   == Unless("fails", steps)

------------------------------------------------------------------------------
(* The templates                                                             *)

BASIC_STUB ==
  <<MapPage, PathFixed, FlagSet, ShowBasic, DataZero, RunBasic, ShowMenu, FlagClear, MapPage>>

BASIC_EXEC_STUB == <<MapPage, Enter("basic"), MapPage>>

BASIC_LOAD_PROBE_STUB ==
  <<MapPage, PathFixed, Say, WorkArea, Slot("31B6"), MapPage, IfFailed(<<Say>>), Say>>

BASIC_FILE_PROBE_STUB ==
  <<PathFixed, Say, DataZero, Vector("open"), Unless("opened", <<Say>>), Say,
    DataZero, Vector("read"), Unless("marked", <<Vector("close"), Say>>), Vector("close"), Say>>

Loading == <<Reloc, PathFixed, Say, WorkArea, MapPage, LoadInRam>>

BASIC_RAM_LOAD_PROBE_STUB == Loading \o <<IfFailed(<<Say>>), Say>>

Loaded == Loading \o <<IfFailed(<<Say>>), Say, MapPage>>

InitCalls == <<Slot("83EB"), Slot("7C82"), Slot("7C1E")>>

BASIC_INIT_STEPS_PROBE_STUB ==
  Loaded \o <<Say, InitCalls[1], Say, Say, InitCalls[2], Say, Say, InitCalls[3], Say, MapPage>>

BASIC_RUNTIME_PROBE_STUB ==
  Loaded \o InitCalls
    \o <<Say, FlagSet, ShowBasic, DataZero, Slot("7D00"), ShowMenu, FlagClear, Say, MapPage>>

BASIC_RUNTIME_STEPS_PROBE_STUB ==
  Loaded \o InitCalls \o <<Say, Slot("6800"), Say, Say, Slot("C3FD"), Say, UnmapPage>>

\* Whatever the token is, one message and the way out
BASIC_RUNTIME_BRANCH_PROBE_STUB ==
  Loaded \o InitCalls \o <<Slot("6800"), Slot("C3FD"), Say, Say, UnmapPage>>

BASIC_RUNTIME_LETTER_PROBE_STUB ==
  Loaded \o InitCalls \o <<Say, Slot("84D5"), Say, UnmapPage>>

MappedNoRestore == <<PathFixed, FlagSet, ShowBasic, DataZero, RunBasic, FlagClear>>

BASIC_MAPPED_WRAPPER ==
  <<PathFixed, FlagSet, ShowBasic, DataZero, RunBasic, ShowMenu, FlagClear>>

BASIC_PROBE_MAPPED_WRAPPER == <<SayMapped>> \o BASIC_MAPPED_WRAPPER \o <<DataZero, SayMapped>>

BASIC_STEPS_MAPPED_WRAPPER ==
  <<SayMapped, PathFixed, SayMapped, FlagSet, SayMapped, DataZero, SayMapped, SayMapped,
    ShowBasic, SayMapped, ShowMenu, SayMapped, SayMapped, FlagClear>>

SMOKE_STUB == <<DataZero, Vector("say")>>

SMOKE_MAP_STUB ==
  <<DataZero, MapPage, ShowMapped, UnmapPage>>

SMOKE_EXEC_STUB == <<DataZero, MapPage, Enter("exec"), UnmapPage>>

F200_SMOKE_ROUTINE == <<SayMapped>>

MAPPED_ROUTINE == <<DataZero, Vector("say")>>

------------------------------------------------------------------------------
(* The build_... functions: a template and the fields it is given            *)

Fields(steps) ==
  UNION {{steps[i].field} \cup {steps[i].else[j].field : j \in DOMAIN steps[i].else}
           : i \in DOMAIN steps} \ {"none"}

\* str.format raises KeyError for a field it is not given.
Format(template, given) ==
  [ok |-> Fields(template) \subseteq given, steps |-> template]

build_basic_stub == Format(BASIC_STUB, {"path", "bank", "work", "lcd", "restore"})
build_basic_exec_stub == Format(BASIC_EXEC_STUB, {"bank", "routine"})
build_basic_load_probe_stub ==
  Format(BASIC_LOAD_PROBE_STUB, {"path", "bank", "wrappers", "work", "text"})
build_basic_file_probe_stub == Format(BASIC_FILE_PROBE_STUB, {"path", "text"})
build_basic_ram_load_probe_stub ==
  Format(BASIC_RAM_LOAD_PROBE_STUB, {"path", "reloc", "work", "text"})
build_basic_init_steps_probe_stub ==
  Format(BASIC_INIT_STEPS_PROBE_STUB, {"path", "reloc", "bank", "wrappers", "work", "text"})
build_basic_runtime_probe_stub ==
  Format(BASIC_RUNTIME_PROBE_STUB,
         {"path", "reloc", "bank", "wrappers", "work", "lcd", "restore", "text"})
build_basic_runtime_steps_probe_stub ==
  Format(BASIC_RUNTIME_STEPS_PROBE_STUB, {"path", "reloc", "bank", "wrappers", "work", "text"})
build_basic_runtime_branch_probe_stub ==
  Format(BASIC_RUNTIME_BRANCH_PROBE_STUB, {"path", "reloc", "bank", "wrappers", "work", "text"})
build_basic_runtime_letter_probe_stub ==
  Format(BASIC_RUNTIME_LETTER_PROBE_STUB, {"path", "reloc", "bank", "wrappers", "work", "text"})
build_smoke_stub == Format(SMOKE_STUB, {"text"})
build_smoke_map_stub == Format(SMOKE_MAP_STUB, {"bank", "message"})
build_smoke_exec_stub == Format(SMOKE_EXEC_STUB, {"bank", "routine"})

build_basic_mapped_wrapper ==
  Format(BASIC_MAPPED_WRAPPER, {"path", "routine", "work", "lcd", "restore"})
build_basic_probe_mapped_wrapper ==
  Format(BASIC_PROBE_MAPPED_WRAPPER, {"path", "text", "routine", "work", "lcd", "restore"})
build_basic_steps_mapped_wrapper ==
  Format(BASIC_STEPS_MAPPED_WRAPPER, {"path", "text", "routine", "work", "lcd", "restore"})
build_mapped_routine == Format(MAPPED_ROUTINE, {"text", "routine"})
build_f200_smoke_routine == Format(F200_SMOKE_ROUTINE, {"text", "routine"})

------------------------------------------------------------------------------
(* main: the page and the program for --stub                                 *)

Kinds == {"basic", "basic-exec", "basic-file-probe", "basic-init-steps-probe",
          "basic-load-probe", "basic-probe", "basic-ram-load-probe",
          "basic-runtime-branch-probe", "basic-runtime-letter-probe", "basic-runtime-probe",
          "basic-runtime-steps-probe", "basic-steps", "smoke", "smoke-map", "smoke-exec",
          "f200-smoke"}

StubOf(kind) ==
  CASE kind = "basic" -> build_basic_stub
    [] kind = "basic-load-probe" -> build_basic_load_probe_stub
    [] kind = "basic-file-probe" -> build_basic_file_probe_stub
    [] kind = "basic-ram-load-probe" -> build_basic_ram_load_probe_stub
    [] kind = "basic-init-steps-probe" -> build_basic_init_steps_probe_stub
    [] kind = "basic-runtime-probe" -> build_basic_runtime_probe_stub
    [] kind = "basic-runtime-branch-probe" -> build_basic_runtime_branch_probe_stub
    [] kind = "basic-runtime-steps-probe" -> build_basic_runtime_steps_probe_stub
    [] kind = "basic-runtime-letter-probe" -> build_basic_runtime_letter_probe_stub
    [] kind \in {"basic-exec", "basic-probe", "basic-steps"} -> build_basic_exec_stub
    [] kind = "smoke" -> build_smoke_stub
    [] kind = "smoke-map" -> build_smoke_map_stub
    [] kind \in {"smoke-exec", "f200-smoke"} -> build_smoke_exec_stub

\* What lies at FF00:0000 of the page
Ff00(kind) == IF kind \in {"smoke-map", "smoke-exec", "f200-smoke", "basic-exec", "basic-probe",
                           "basic-steps"} THEN kind ELSE "rom"

\* The routine there, as a sequence of steps
Routine(name) ==
  CASE name = "smoke-exec"  -> build_mapped_routine
    [] name = "f200-smoke"  -> build_f200_smoke_routine
    [] name = "basic-exec"  -> build_basic_mapped_wrapper
    [] name = "basic-probe" -> build_basic_probe_mapped_wrapper
    [] name = "basic-steps" -> build_basic_steps_mapped_wrapper
    [] OTHER                -> [ok |-> TRUE, steps |-> <<>>]

InitProbes == {"basic-init-steps-probe", "basic-runtime-branch-probe", "basic-runtime-letter-probe",
               "basic-runtime-probe", "basic-runtime-steps-probe"}

\* The wrappers in the pocket at F200:DE3A
Pocket(kind) ==
  CASE kind = "basic-load-probe" -> {"31B6"}
    [] kind \in InitProbes ->
         {"83EB", "7C82", "7C1E"}
           \cup (IF kind = "basic-runtime-probe" THEN {"7D00"} ELSE {})
           \cup (IF kind \in {"basic-runtime-branch-probe", "basic-runtime-steps-probe"}
                 THEN {"6800", "C3FD"} ELSE {})
           \cup (IF kind = "basic-runtime-letter-probe" THEN {"84D5"} ELSE {})
    [] OTHER -> {}

Page(kind) == [ff00 |-> Ff00(kind), pocket |-> Pocket(kind)]
============================================================================
