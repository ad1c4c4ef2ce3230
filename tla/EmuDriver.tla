----------------------------- MODULE EmuDriver -----------------------------
(***************************************************************************)
(* src/tools/run_dwbasic_mame.py: starts MAME with the input bridge, walks  *)
(* the firmware menus by key, checking each menu's picture first, and then  *)
(* passes the user's commands on until it ends MAME.  The driver and MAME,  *)
(* with the bridge inside it, are two processes that share a socket and the *)
(* snapshot directory.  A failure is a Python exception: it leads to the    *)
(* finally clause whatever the driver was doing.                            *)
(***************************************************************************)
EXTENDS InputBridge

CONSTANTS
  Rows,        \* pictures BASIC may show: sequences of lines
  Blank,       \* the rows of a menu
  Indices,     \* snapshot numbers, 0 .. a bound
  Runs,        \* the command lines: prepared, clean, check, fixed, stop, watch
  Leftovers,   \* what an earlier run may have left: [snaps, nvram, sockfile]
  Typing,      \* what the user may have the bridge type: [op, arg]
  MaxTries,    \* bound: snapshots, or attempts to connect, before a deadline
  MaxCommands, \* bound: commands of the user
  MaxEvents    \* bound: EVT lines not read yet

Screens == {"booting", "buttons", "wp", "others", "romcard", "basic"}
Picture == [screen : {"none"} \cup Screens, rows : Rows \cup {Blank, <<>>}]

ASSUME RowsAssumption ==
  \A rows \in Rows \cup {Blank} : Len(rows) \in Nat /\ DOMAIN rows = 1 .. Len(rows)

ASSUME BoundsAssumption == Indices \subseteq Nat /\ {MaxTries, MaxCommands, MaxEvents} \subseteq Nat

\* No key of the menus needs a modifier, and each has a matrix field of its own.
ASSUME MenuKeysAssumption ==
  /\ {"Page_Down", "6", "4", "Enter"} \subseteq DOMAIN Layout
  /\ \A m, n \in {"Page_Down", "6", "4", "Enter"} :
       Layout[m].mods = {} /\ (Layout[m].key = Layout[n].key => m = n)

ASSUME RunsAssumption ==
  Runs \subseteq [prepared : BOOLEAN, clean : BOOLEAN, check : BOOLEAN, fixed : BOOLEAN,
                 stop : BOOLEAN, watch : BOOLEAN]

\* No socket of an earlier run is still open.
ASSUME LeftoversAssumption ==
  \A left \in Leftovers : /\ left.snaps \in [Indices -> Picture]
                          /\ left.nvram \in {"empty", "prepared"}
                          /\ left.sockfile \in {"none", "stale"}

\* Debugger points are set by the driver alone; a key is one name.
ASSUME TypingAssumption ==
  \A c \in Typing : /\ c.op \in {"KEY", "TEXT", "TYPE", "QUERY"}
                    /\ c.arg \in Seq(DOMAIN Layout \cup {"unknown"})
                    /\ c.op = "KEY" => Len(c.arg) = 1

VARIABLES
  args,   \* options: prepared, clean, check, and fixed, stop, watch, the debugger points
  drv,    \* the driver
  emu,    \* MAME and the machine in it
  sent,   \* the command line on its way to the bridge
  lines,  \* lines on their way to the driver
  snaps   \* snapshot number -> what it shows

vars == <<args, drv, emu, sent, lines, snaps, queue, step>>

NoSnap == [screen |-> "none", rows |-> <<>>]
NoLine == [kind |-> "none", op |-> "none", id |-> 0]
NoCmd  == [op |-> "none", arg |-> <<>>, id |-> 0]

Present == {n \in Indices : snaps[n] # NoSnap}

\* The menus on the way to BASIC, and the key that leaves each
Route == IF args.prepared THEN <<[menu |-> "romcard", key |-> "Enter"]>>
         ELSE <<[menu |-> "buttons", key |-> "Page_Down"], [menu |-> "wp", key |-> "6"],
                [menu |-> "others", key |-> "4"]>>

Goto(label) == drv' = [drv EXCEPT !.pc = label]

DriverStart == [pc |-> "start", stage |-> 1, tries |-> 0, req |-> NoCmd, ret |-> "ended",
                answer |-> NoLine, before |-> {}, use |-> "signpost", cached |-> NoSnap,
                shown |-> {}, commands |-> 0]

\* The exception unwinds main as far as the finally clause, with all that it held.
FailNoFinally == drv' = [DriverStart EXCEPT !.pc = "ended"]

Fail == drv' = [DriverStart EXCEPT !.pc = "terminate"]

------------------------------------------------------------------------------
(* main: arguments and launch                                                *)

\* A file is missing: nothing is cleaned and nothing launched
BadArguments ==
  /\ drv.pc = "start"
  /\ Goto("ended")
  /\ UNCHANGED <<args, emu, sent, lines, snaps, queue, step>>

\* clean_run_state unless --no-clean, which deletes the pictures and copies the prepared
\* NVRAM, and clean_socket
CleanSnaps == IF args.clean THEN [n \in Indices |-> NoSnap] ELSE snaps

CleanMame == [emu EXCEPT !.sockfile = "none",
                         !.nvram = IF ~args.clean THEN @
                                   ELSE IF args.prepared THEN "prepared" ELSE "empty"]

\* A debugger point does not parse: it is noticed when the files are gone.
BadPoints ==
  /\ drv.pc = "start" /\ (args.fixed \/ args.stop)
  /\ snaps' = CleanSnaps /\ emu' = CleanMame
  /\ Goto("ended")
  /\ UNCHANGED <<args, sent, lines, queue, step>>

Launch ==
  /\ drv.pc = "start"
  /\ snaps' = CleanSnaps /\ emu' = [CleanMame EXCEPT !.proc = "running"]
  /\ Goto("window")
  /\ UNCHANGED <<args, sent, lines, queue, step>>

\* find_mame_window and move_window.  xdotool search --sync returns when there is a
\* window: no deadline is looked at before that.
FindWindow ==
  /\ drv.pc = "window" /\ emu.window
  /\ Goto("connect") \/ Fail
  /\ UNCHANGED <<args, emu, sent, lines, snaps, queue, step>>

Connect ==
  /\ drv.pc = "connect" /\ emu.proc = "running" /\ emu.sockfile = "bound"
  /\ drv' = [drv EXCEPT !.pc = "look", !.tries = 0]
  /\ UNCHANGED <<args, emu, sent, lines, snaps, queue, step>>

ConnectRefused ==
  /\ drv.pc = "connect"
  /\ emu.proc = "running" /\ emu.sockfile # "bound" /\ drv.tries < MaxTries
  /\ drv' = [drv EXCEPT !.tries = @ + 1]
  /\ UNCHANGED <<args, emu, sent, lines, snaps, queue, step>>

ConnectFails ==
  /\ drv.pc = "connect"
  /\ emu.proc # "running" \/ drv.tries = MaxTries
  /\ Fail
  /\ UNCHANGED <<args, emu, sent, lines, snaps, queue, step>>

------------------------------------------------------------------------------
(* bridge_request                                                            *)

\* ret is where the driver goes on with the response
Request(op, arg, ret, d) ==
  /\ drv' = [d EXCEPT !.pc = "recv", !.ret = ret, !.answer = NoLine, !.shown = {},
                      !.req = [op |-> op, arg |-> arg, id |-> drv.req.id + 1]]
  /\ sent' = drv'.req

AcceptsAny(line) == TRUE

\* Text and keys take any OK, the others want their own prefix.
Accepts(line) ==
  line.kind = "ok" /\ (drv.req.op \in {"TEXT", "TYPE", "KEY"} \/ line.op = drv.req.op)

\* The response is the first line; what came with it in the same chunk is dropped.
Receive ==
  /\ drv.pc = "recv" /\ lines # <<>>
  /\ \E n \in 1 .. Len(lines) : lines' = SubSeq(lines, n + 1, Len(lines))
  /\ IF Accepts(Head(lines))
     THEN drv' = [drv EXCEPT !.pc = drv.ret, !.answer = Head(lines)]
     ELSE Fail
  /\ UNCHANGED <<args, emu, sent, snaps, queue, step>>

\* The socket times out, or MAME is gone and the socket with it
ReceiveFails ==
  /\ drv.pc = "recv"
  /\ Fail
  /\ UNCHANGED <<args, emu, sent, lines, snaps, queue, step>>

------------------------------------------------------------------------------
(* snapshot                                                                  *)

\* The directory is listed before SNAP is sent.
Snap(use) ==
  /\ Request("SNAP", <<>>, "poll", [drv EXCEPT !.before = Present, !.use = use])

CreatedAny == Present

Created == Present \ drv.before

Newest == CHOOSE n \in Created : \A m \in Created : m <= n

\* wait_for_signpost takes one more snapshot, or main takes one without a look at it.
Look ==
  /\ drv.pc = "look"
  /\ Snap("signpost")
  /\ UNCHANGED <<args, emu, lines, snaps, queue, step>>

\* No file appears in time
PollFails ==
  /\ drv.pc = "poll" /\ Created = {}
  /\ Fail
  /\ UNCHANGED <<args, emu, sent, lines, snaps, queue, step>>

\* The picture is that of the menu expected, or is not compared: on to the key,
\* after the first menu by way of the debugger setup.
SignpostSeen ==
  /\ drv.pc = "poll" /\ drv.use = "signpost" /\ Created # {}
  /\ args.check => snaps[Newest].screen = Route[drv.stage].menu
  /\ drv' = [drv EXCEPT !.pc = IF drv.stage = 1 THEN "debug" ELSE "press",
                        !.before = {}, !.answer = NoLine]
  /\ UNCHANGED <<args, emu, sent, lines, snaps, queue, step>>

SignpostNotYet ==
  /\ drv.pc = "poll" /\ drv.use = "signpost" /\ Created # {}
  /\ args.check /\ snaps[Newest].screen # Route[drv.stage].menu
  /\ IF drv.tries < MaxTries
     THEN drv' = [drv EXCEPT !.tries = @ + 1, !.pc = "look"]
     ELSE Fail
  /\ UNCHANGED <<args, emu, sent, lines, snaps, queue, step>>

------------------------------------------------------------------------------
(* install_debug_setup and the menu keys                                     *)

If(condition, command) == IF condition THEN <<command>> ELSE <<>>

NoPoints == ~args.fixed /\ ~args.stop /\ ~args.watch

\* The commands of a batch: points are cleared before any is set.
Batch ==
  IF NoPoints THEN <<>>
  ELSE If(args.stop, "bpclear") \o <<"rpclear">> \o If(args.fixed, "rpset")
         \o If(args.stop, "bpset") \o If(args.watch, "watch")

InstallDebug ==
  /\ drv.pc = "debug" /\ Batch # <<>>
  /\ Request("DBG", Batch, "press", drv)
  /\ UNCHANGED <<args, emu, lines, snaps, queue, step>>

NoDebug ==
  /\ drv.pc = "debug" /\ Batch = <<>>
  /\ Goto("press")
  /\ UNCHANGED <<args, emu, sent, lines, snaps, queue, step>>

PressPastLast ==
  /\ drv.pc = "press"
  /\ Request("KEY", <<Route[drv.stage].key>>, "look", [drv EXCEPT !.stage = @ + 1, !.tries = 0])
  /\ UNCHANGED <<args, emu, lines, snaps, queue, step>>

\* The key of this menu; the next one is looked for after the response
PressMenuKey ==
  /\ drv.pc = "press"
  /\ IF drv.stage = Len(Route)
     THEN Request("KEY", <<Route[drv.stage].key>>, "loop", drv)
     ELSE Request("KEY", <<Route[drv.stage].key>>, "look",
                  [drv EXCEPT !.stage = @ + 1, !.tries = 0])
  /\ UNCHANGED <<args, emu, lines, snaps, queue, step>>

------------------------------------------------------------------------------
(* interactive_loop                                                          *)

\* A plain line, :type, :key, or one of the commands that only print the response
UserTypes ==
  /\ drv.pc = "loop" /\ drv.commands < MaxCommands
  /\ \E c \in Typing : Request(c.op, c.arg, "loop", [drv EXCEPT !.commands = @ + 1])
  /\ UNCHANGED <<args, emu, lines, snaps, queue, step>>

\* :csnap, or :snap with nothing, all, or a range of lines
UserSnaps ==
  /\ drv.pc = "loop" /\ drv.commands < MaxCommands
  /\ \E use \in {"quiet", "changed", "all", "range"} :
       Request("SNAP", <<>>, "poll", [drv EXCEPT !.before = Present, !.use = use,
                                                 !.commands = @ + 1])
  /\ UNCHANGED <<args, emu, lines, snaps, queue, step>>

\* Rows that show what the row k below showed, if all rows of the overlap do;
\* the smallest such k counts.
Overlap(old, new, k) == 1 .. IF Len(new) < Len(old) - k THEN Len(new) ELSE Len(old) - k

Scrolled(old, new) ==
  LET shifts == {k \in 1 .. Len(old) - 1 :
                   new # <<>> /\ \A i \in Overlap(old, new, k) : new[i] = old[k + i]}
  IN IF shifts = {} THEN {}
     ELSE Overlap(old, new, CHOOSE k \in shifts : \A j \in shifts : k <= j)

ChangedLinesWide(old, new) ==
  {i \in DOMAIN new : ~(i \in DOMAIN old /\ new[i] = old[i])
                      /\ ~(i <= Len(old) /\ Scrolled(old, new) # {})}

\* changed_lines: the rows printed
ChangedLines(old, new) ==
  {i \in DOMAIN new : ~(i \in DOMAIN old /\ new[i] = old[i]) /\ i \notin Scrolled(old, new)}

\* slice_lines: any range the user asks for, and none for a range that is refused
SliceLines(new) == {{}} \cup {i .. j : i, j \in DOMAIN new}

\* The snapshot is cached whatever is printed of it, also when the range is refused.
SnapShown ==
  /\ drv.pc = "poll" /\ drv.use \in {"quiet", "changed", "all", "range"} /\ Created # {}
  /\ LET new == snaps[Newest].rows
     IN \E shown \in CASE drv.use = "quiet"   -> {{}}
                       [] drv.use = "changed" -> {IF drv.cached = NoSnap THEN DOMAIN new
                                                  ELSE ChangedLines(drv.cached.rows, new)}
                       [] drv.use = "all"     -> {DOMAIN new}
                       [] drv.use = "range"   -> SliceLines(new) :
          drv' = [drv EXCEPT !.pc = "loop", !.before = {}, !.answer = NoLine,
                             !.shown = shown, !.cached = snaps[Newest]]
  /\ UNCHANGED <<args, emu, sent, lines, snaps, queue, step>>

\* :quit or the end of the input
Quit ==
  /\ drv.pc = "loop"
  /\ drv' = [DriverStart EXCEPT !.pc = "terminate"]
  /\ UNCHANGED <<args, emu, sent, lines, snaps, queue, step>>

------------------------------------------------------------------------------
(* The finally clause of main                                                *)

Terminate ==
  /\ drv.pc = "terminate"
  /\ Goto("wait")
  /\ emu' = [emu EXCEPT !.signal = "term"]
  /\ UNCHANGED <<args, sent, lines, snaps, queue, step>>

WaitAgain ==
  /\ drv.pc = "wait" /\ emu.proc = "running"
  /\ Goto("wait")
  /\ emu' = [emu EXCEPT !.signal = "term"]
  /\ UNCHANGED <<args, sent, lines, snaps, queue, step>>

WaitTimesOut ==
  /\ drv.pc = "wait" /\ emu.proc = "running"
  /\ Goto("killed")
  /\ emu' = [emu EXCEPT !.signal = "kill"]
  /\ UNCHANGED <<args, sent, lines, snaps, queue, step>>

Reaped ==
  /\ drv.pc \in {"wait", "killed"} /\ emu.proc = "dead"
  /\ Goto("ended")
  /\ UNCHANGED <<args, emu, sent, lines, snaps, queue, step>>

\* The wait for the killed process has a deadline too, and nothing catches its exception.
KillTimesOut ==
  /\ drv.pc = "killed" /\ emu.proc = "running"
  /\ Goto("unreaped")
  /\ UNCHANGED <<args, emu, sent, lines, snaps, queue, step>>

\* ^C: an exception as any other in the try clause; the finally clause catches only that
\* of its first wait, so it is left where it stands.
Interrupt ==
  /\ \/ /\ drv.pc \in {"window", "connect", "look", "recv", "poll", "debug", "press", "loop"}
        /\ Fail
     \/ drv.pc \in {"terminate", "wait", "killed"} /\ Goto("interrupted")
  /\ UNCHANGED <<args, emu, sent, lines, snaps, queue, step>>

------------------------------------------------------------------------------
(* The bridge: one frame of process_frame                                    *)

Running == emu.proc = "running"

\* The frame that opens the socket reads no command yet; a file in the way stops it.
OpenSocket ==
  /\ Running /\ emu.sockfile = "none"
  /\ emu' = [emu EXCEPT !.sockfile = "bound"]
  /\ UNCHANGED <<args, drv, sent, lines, snaps, queue, step>>

\* What the firmware does when a key goes down: a menu key leaves its menu, and the
\* next picture is drawn later.  The first keys are the driver's, one to a menu (keys
\* counts them); those of the user are queued behind them.
MenuKeys == {<<"buttons", "Page_Down", "wp">>, <<"wp", "6", "others">>,
             <<"others", "4", "basic">>, <<"romcard", "Enter", "basic">>}

Down == step'.fields \ step.fields

Firmware(e) ==
  LET hits == {m \in MenuKeys : Layout[m[2]].key \in Down}
      good == {m \in hits : m[1] = e.screen /\ e.drawing = "none"}
      driven == Down # {} /\ e.keys < Len(Route)
  IN [e EXCEPT !.drawing = IF good = {} THEN @ ELSE (CHOOSE m \in good : TRUE)[3],
               !.keys = IF driven THEN @ + 1 ELSE @,
               !.misfired = @ \/ (driven /\ good = {})]

Frame ==
  /\ Running /\ emu.sockfile = "bound" /\ sent = NoCmd
  /\ Advance(queue)
  /\ emu' = Firmware(emu)
  /\ UNCHANGED <<args, drv, sent, lines, snaps>>

After(set, command) == CASE command = "rpclear" -> set \ {"rp", "watch"}
                         [] command = "bpclear" -> set \ {"bp"}
                         [] command = "rpset"   -> set \cup {"rp"}
                         [] command = "bpset"   -> set \cup {"bp"}
                         [] command = "watch"   -> set \cup {"watch"}

\* The points behind the commands of a batch, one after the other
AfterAll(set, commands) ==
  LET after[k \in 0 .. Len(commands)] ==
        IF k = 0 THEN set ELSE After(after[k - 1], commands[k])
  IN after[Len(commands)]

\* MAME takes the first number that is free; the file is complete when it answers.
FreeIndex == CHOOSE n \in Indices \ Present : \A m \in Indices \ Present : n <= m

Pictures ==
  {snaps} \cup {[snaps EXCEPT ![FreeIndex] = [screen |-> emu.screen, rows |-> emu.lcd]]}

\* read_commands and handle_line: one command, one response, and then the queue
FrameWithCommand ==
  /\ Running /\ emu.sockfile = "bound" /\ sent # NoCmd
  /\ sent' = NoCmd
  /\ lines' = Append(lines, [kind |-> Answered(sent), op |-> sent.op, id |-> sent.id])
  /\ IF sent.op = "SNAP" THEN snaps' \in Pictures ELSE UNCHANGED snaps
  /\ Advance(queue \o Typed(sent))
  /\ emu' = Firmware(IF sent.op = "DBG"
                     THEN [emu EXCEPT !.points = AfterAll(@, sent.arg)] ELSE emu)
  /\ UNCHANGED <<args, drv>>

Over == {"ended", "unreaped", "interrupted"}

Connected == drv.pc \notin {"start", "window", "connect"} \cup Over

\* A watched address is touched: an EVT line goes out on the same socket.
Watched ==
  /\ Running /\ emu.sockfile = "bound" /\ Connected
  /\ Cardinality({n \in DOMAIN lines : lines[n].kind = "evt"}) < MaxEvents
  /\ lines' = Append(lines, [kind |-> "evt", op |-> "none", id |-> 0])
  /\ UNCHANGED <<args, drv, emu, sent, snaps, queue, step>>

------------------------------------------------------------------------------
(* MAME and the firmware                                                     *)

MameStart(nvram, sockfile) ==
  [proc |-> "none", signal |-> "none", window |-> FALSE, nvram |-> nvram,
   screen |-> "booting", drawing |-> "none", lcd |-> Blank, sockfile |-> sockfile,
   points |-> {}, keys |-> 0, misfired |-> FALSE]

OpenWindow ==
  /\ Running /\ ~emu.window
  /\ emu' = [emu EXCEPT !.window = TRUE]
  /\ UNCHANGED <<args, drv, sent, lines, snaps, queue, step>>

Boot ==
  /\ Running /\ emu.screen = "booting"
  /\ emu' = [emu EXCEPT !.screen = IF emu.nvram = "prepared" THEN "romcard" ELSE "buttons"]
  /\ UNCHANGED <<args, drv, sent, lines, snaps, queue, step>>

Draw ==
  /\ Running /\ emu.drawing # "none"
  /\ emu' = [emu EXCEPT !.screen = emu.drawing, !.drawing = "none"]
  /\ UNCHANGED <<args, drv, sent, lines, snaps, queue, step>>

BasicPrints ==
  /\ Running /\ emu.screen = "basic"
  /\ \E rows \in Rows : rows # emu.lcd /\ emu' = [emu EXCEPT !.lcd = rows]
  /\ UNCHANGED <<args, drv, sent, lines, snaps, queue, step>>

\* On SIGTERM, by a crash, or because its window is closed
Dies ==
  /\ Running
  /\ emu' = [MameStart(emu.nvram, "stale") EXCEPT !.proc = "dead"]
  /\ queue' = <<>> /\ step' = NoStep /\ sent' = NoCmd
  /\ UNCHANGED <<args, drv, lines, snaps>>

------------------------------------------------------------------------------
Init ==
  /\ args \in Runs
  /\ drv = DriverStart
  /\ \E left \in Leftovers : snaps = left.snaps /\ emu = MameStart(left.nvram, left.sockfile)
  /\ sent = NoCmd /\ lines = <<>>
  /\ BridgeInit

Start   == BadArguments \/ BadPoints \/ Launch \/ FindWindow \/ Connect \/ ConnectRefused \/ ConnectFails
Driving == \/ Receive \/ ReceiveFails \/ Look \/ PollFails \/ SignpostSeen \/ SignpostNotYet
           \/ InstallDebug \/ NoDebug \/ PressMenuKey \/ SnapShown
Finally == Terminate \/ WaitTimesOut \/ KillTimesOut \/ Reaped
User    == UserTypes \/ UserSnaps \/ Quit \/ Interrupt
Machine == \/ OpenSocket \/ Frame \/ FrameWithCommand \/ Watched
           \/ OpenWindow \/ Boot \/ Draw \/ BasicPrints \/ Dies

Next == Start \/ Driving \/ Finally \/ User \/ Machine

Spec == Init /\ [][Next]_vars

\* The driver runs on: its waits have deadlines.  SIGKILL ends MAME.
Fairness == /\ WF_vars(Start \/ Driving \/ Finally)
            /\ WF_vars(emu.signal = "kill" /\ Dies)

FairSpec == Spec /\ Fairness

------------------------------------------------------------------------------
(* Properties                                                                *)

Command == [op : {"none", "SNAP", "DBG", "KEY", "TEXT", "TYPE", "QUERY"},
            arg : Seq(DOMAIN Layout \cup {"unknown", "rpset", "rpclear", "bpset", "bpclear",
                      "watch"}), id : Nat]
Line    == [kind : {"none", "ok", "err", "evt"}, op : {"none", "SNAP", "DBG", "KEY", "TEXT", "TYPE", "QUERY"},
            id : Nat]

\* Driver, machine and wire hold what the program's types allow.
TypeOK ==
  /\ args \in Runs
  /\ drv.pc \in {"start", "window", "connect", "look", "recv", "poll", "debug", "press",
                 "loop", "terminate", "wait", "killed"} \cup Over
  /\ drv.stage \in 1 .. Len(Route) /\ drv.tries \in 0 .. MaxTries
  /\ drv.req \in Command /\ sent \in Command
  /\ drv.answer \in Line /\ \A n \in DOMAIN lines : lines[n] \in Line
  /\ drv.before \subseteq Indices /\ snaps \in [Indices -> Picture]
  /\ drv.cached \in Picture
  /\ emu.points \subseteq {"rp", "bp", "watch"} /\ emu.sockfile \in {"none", "stale", "bound"}

\* With signposts checked, a menu key goes down only while its menu is on the screen:
\* no stale snapshot, of this run or an earlier one, and no slow redraw is taken for it.
KeysOnTheirMenu == args.check => ~emu.misfired

\* Before the first key is queued, all debugger points asked for are set at once.
\* (run_dwbasic_mame.py:737, "before ROM CARD navigation")
DebugBeforeKeys ==
  queue # <<>> \/ step # NoStep =>
    /\ args.fixed => "rp" \in emu.points
    /\ args.stop  => "bp" \in emu.points
    /\ args.watch => "watch" \in emu.points

\* Keys are hit neither too early nor too late: not before what they start is watched,
\* not before their menu is there, not after it is gone.
KeysInTime == KeysOnTheirMenu /\ DebugBeforeKeys

\* A response the driver goes on with is the response to its own request, also with EVT
\* lines on the same socket.
ResponseIsOwn == drv.answer # NoLine => drv.answer.id = drv.req.id

Mods(fields) == fields \cap UNION {Layout[n].mods : n \in DOMAIN Layout}
Keys(fields) == fields \ Mods(fields)

\* The firmware never sees one key turn into another, nor a modifier change while a
\* key goes down or up, however requests follow each other.
KeysChangeCleanly ==
  [][Running /\ emu'.proc = "running" /\ Keys(step'.fields) # Keys(step.fields) =>
       /\ Keys(step'.fields) = {} \/ Keys(step.fields) = {}
       /\ Mods(step'.fields) = Mods(step.fields)]_vars

\* A row that :snap leaves out was on the screen at the snapshot before.
OmittedWasSeen ==
  [][drv.pc = "poll" /\ drv'.pc = "loop" /\ drv.use = "changed" /\ drv.cached # NoSnap =>
       \A i \in DOMAIN drv'.cached.rows \ drv'.shown :
         \E j \in DOMAIN drv.cached.rows : drv.cached.rows[j] = drv'.cached.rows[i]]_vars

\* Whatever fails, the driver does not leave MAME to itself: it ends when MAME has ended,
\* or with an exception when MAME has not gone within five seconds of its SIGKILL.  A user
\* who hits ^C in the finally clause is the one exception.
EndsWithMame ==
  /\ drv.pc = "ended" => emu.proc # "running"
  /\ drv.pc = "unreaped" /\ emu.proc = "running" => emu.signal = "kill"

Busy == {"connect", "look", "recv", "poll", "debug", "press", "terminate", "wait", "killed"}

\* Once there is a window, the driver never waits for ever: it comes to the prompt or
\* it ends, whatever MAME does; and a MAME it could not wait for ends after it.
NeverStuck == /\ drv.pc \in Busy ~> drv.pc \in {"loop"} \cup Over
              /\ drv.pc = "unreaped" ~> emu.proc = "dead"
============================================================================
