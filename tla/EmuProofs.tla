----------------------------- MODULE EmuProofs -----------------------------
(***************************************************************************)
(* Safety of the driver, the bridge and the machine between them.  In this  *)
(* order: a response belongs to its request, and MAME does not outlive the  *)
(* driver (Inv); types (TypeInv); what a :snap leaves out was seen; keys    *)
(* change cleanly (Joined); and no key is early or late, neither for the    *)
(* debugger points (PointInv) nor for its menu (MenuInv).                   *)
(***************************************************************************)
EXTENDS EmuDriver, TLAPS, SequenceTheorems, WellFoundedInduction

\* drv and emu keep their fields, whatever these hold.
Fields == /\ {"pc", "req", "answer", "ret"} \subseteq DOMAIN drv
          /\ {"proc", "signal"} \subseteq DOMAIN emu

\* MAME is launched once, and the driver ends behind it, or with a MAME that it has killed.
Life == /\ drv.pc = "start" => emu.proc = "none"
        /\ drv.pc = "ended" => emu.proc # "running"
        /\ drv.pc \in {"killed", "unreaped"} /\ emu.proc = "running" => emu.signal = "kill"

Evt(line) == line.kind = "evt"
OnlyEvts  == \A n \in DOMAIN lines : Evt(lines[n])

\* Of the lines that are no EVT lines there is one, with the number of the request.
OneReply == \A m, n \in DOMAIN lines :
              ~Evt(lines[m]) => lines[m].id = drv.req.id /\ (~Evt(lines[n]) => m = n)

\* What the two ends of the socket owe each other: between two requests neither a command
\* nor a response is under way, and while the driver waits there is its own command, or at
\* most one response, which is to that.
Wire ==
  /\ \E S : lines \in Seq(S)
  /\ drv.pc \in {"start", "window", "connect"} => lines = <<>> /\ sent = NoCmd
  /\ drv.pc \in {"look", "poll", "debug", "press", "loop"} => OnlyEvts /\ sent = NoCmd
  /\ drv.pc = "recv" => /\ drv.ret \in {"look", "poll", "press", "loop"}
                        /\ \/ sent = drv.req /\ OnlyEvts
                           \/ sent = NoCmd /\ OneReply

Inv == Fields /\ Life /\ Wire /\ ResponseIsOwn

------------------------------------------------------------------------------
(* Parts of steps                                                            *)

\* A request starts with no response.
LEMMA Requested ==
  ASSUME NEW op, NEW arg, NEW ret, NEW d, {"pc", "req", "answer", "ret"} \subseteq DOMAIN d,
         Request(op, arg, ret, d)
  PROVE  /\ DOMAIN drv' = DOMAIN d
         /\ drv'.pc = "recv" /\ drv'.answer = NoLine /\ drv'.ret = ret
         /\ sent' = drv'.req
<1> DEFINE r == [op |-> op, arg |-> arg, id |-> drv.req.id + 1]
<1> HIDE DEF r
<1>1. drv' = [d EXCEPT !.pc = "recv", !.ret = ret, !.answer = NoLine, !.shown = {}, !.req = r]
  BY Zenon DEF Request, r
<1>2. PICK a : a = [d EXCEPT !.pc = "recv"]
  OBVIOUS
<1>3. PICK b : b = [a EXCEPT !.ret = ret]
  OBVIOUS
<1>4. PICK c : c = [b EXCEPT !.answer = NoLine]
  OBVIOUS
<1>5. PICK e : e = [c EXCEPT !.shown = {}]
  OBVIOUS
<1>6. drv' = [e EXCEPT !.req = r]
  BY <1>1, <1>2, <1>3, <1>4, <1>5
<1>7. QED
  BY <1>2, <1>3, <1>4, <1>5, <1>6, Zenon DEF Request

\* A driver that has sent its request while no other was under way keeps the invariant.
LEMMA RequestKeeps ==
  ASSUME Inv, OnlyEvts, UNCHANGED <<emu, lines>>,
         {"pc", "req", "answer", "ret"} \subseteq DOMAIN drv',
         drv'.pc = "recv", drv'.answer = NoLine, sent' = drv'.req,
         drv'.ret \in {"look", "poll", "press", "loop"}
  PROVE  Inv'
<1>1. Fields' /\ Life' /\ ResponseIsOwn'
  BY DEF Inv, Fields, Life, ResponseIsOwn
<1>2. OnlyEvts'
  BY DEF OnlyEvts
<1>3. Wire'
  BY <1>2 DEF Inv, Wire
<1>4. QED
  BY <1>1, <1>3 DEF Inv

\* An exception drops all that the driver held and goes to the finally clause.
LEMMA FailKeeps ==
  ASSUME Inv, \E S : lines' \in Seq(S), emu' = emu, Fail \/ drv' = [DriverStart EXCEPT !.pc = "terminate"]
  PROVE  Inv'
<1>1. /\ {"pc", "req", "answer", "ret"} \subseteq DOMAIN drv'
      /\ drv'.pc = "terminate" /\ drv'.answer = NoLine
  BY Zenon DEF Fail, DriverStart
<1>2. Fields' /\ Life' /\ ResponseIsOwn'
  BY <1>1 DEF Inv, Fields, Life, ResponseIsOwn
<1>3. Wire'
  BY <1>1 DEF Wire
<1>4. QED
  BY <1>2, <1>3 DEF Inv

\* What the firmware does with a key does not end MAME.
LEMMA FirmwareKeeps ==
  ASSUME NEW e, {"proc", "signal"} \subseteq DOMAIN e
  PROVE  /\ {"proc", "signal"} \subseteq DOMAIN Firmware(e)
         /\ Firmware(e).proc = e.proc /\ Firmware(e).signal = e.signal
  BY DEF Firmware

------------------------------------------------------------------------------
(* The actions                                                               *)

\* Arguments, launch and connection
LEMMA StartKeeps ==
  ASSUME Inv, Start
  PROVE  Inv'
<1>1. CASE BadArguments
  <2>1. drv' = [drv EXCEPT !.pc = "ended"] /\ drv.pc = "start"
        /\ UNCHANGED <<emu, sent, lines>>
    BY <1>1 DEF BadArguments, Goto
  <2>2. QED
    BY <2>1 DEF Inv, Fields, Life, Wire, ResponseIsOwn
<1>2. CASE BadPoints
  <2>1. drv' = [drv EXCEPT !.pc = "ended"] /\ drv.pc = "start" /\ emu' = CleanMame
        /\ UNCHANGED <<sent, lines>>
    BY <1>2 DEF BadPoints, Goto
  <2>2. {"proc", "signal"} \subseteq DOMAIN CleanMame /\ CleanMame.proc = emu.proc
    BY DEF CleanMame, Inv, Fields
  <2>3. QED
    BY <2>1, <2>2 DEF Inv, Fields, Life, Wire, ResponseIsOwn
<1>3. CASE Launch
  <2>1. drv' = [drv EXCEPT !.pc = "window"] /\ drv.pc = "start"
        /\ emu' = [CleanMame EXCEPT !.proc = "running"]
        /\ UNCHANGED <<sent, lines>>
    BY <1>3 DEF Launch, Goto
  <2>2. {"proc", "signal"} \subseteq DOMAIN CleanMame
    BY DEF CleanMame, Inv, Fields
  <2>3. QED
    BY <2>1, <2>2 DEF Inv, Fields, Life, Wire, ResponseIsOwn
<1>4. CASE FindWindow
  <2>1. drv.pc = "window" /\ UNCHANGED <<emu, sent, lines>>
        /\ (drv' = [drv EXCEPT !.pc = "connect"] \/ Fail)
    BY <1>4 DEF FindWindow, Goto
  <2>2. CASE Fail
    BY <2>1, <2>2, FailKeeps DEF Inv, Wire
  <2>3. CASE drv' = [drv EXCEPT !.pc = "connect"]
    BY <2>1, <2>3 DEF Inv, Fields, Life, Wire, ResponseIsOwn
  <2>4. QED
    BY <2>1, <2>2, <2>3
<1>5. CASE Connect
  <2>1. drv.pc = "connect" /\ UNCHANGED <<emu, sent, lines>>
        /\ drv' = [drv EXCEPT !.pc = "look", !.tries = 0]
    BY <1>5 DEF Connect
  <2>2. /\ {"pc", "req", "answer", "ret"} \subseteq DOMAIN drv'
        /\ drv'.pc = "look" /\ drv'.answer = drv.answer /\ drv'.req = drv.req
    BY <2>1 DEF Inv, Fields
  <2>3. OnlyEvts'
    BY <2>1 DEF Inv, Wire, OnlyEvts
  <2>4. QED
    BY <2>1, <2>2, <2>3 DEF Inv, Fields, Life, Wire, ResponseIsOwn
<1>6. CASE ConnectRefused
  <2>1. drv.pc = "connect" /\ UNCHANGED <<emu, sent, lines>>
        /\ drv' = [drv EXCEPT !.tries = @ + 1]
    BY <1>6 DEF ConnectRefused
  <2>2. QED
    BY <2>1 DEF Inv, Fields, Life, Wire, ResponseIsOwn
<1>7. CASE ConnectFails
  BY <1>7, FailKeeps DEF ConnectFails, Inv, Wire
<1>8. QED
  BY <1>1, <1>2, <1>3, <1>4, <1>5, <1>6, <1>7 DEF Start

\* Between two requests the driver moves on its own; nothing is under way.
LEMMA BetweenKeeps ==
  ASSUME Inv, UNCHANGED <<emu, sent, lines>>,
         drv.pc \in {"look", "poll", "debug", "press", "loop"},
         drv'.pc \in {"look", "poll", "debug", "press", "loop"},
         {"pc", "req", "answer", "ret"} \subseteq DOMAIN drv',
         drv'.answer = NoLine \/ (drv'.answer = drv.answer /\ drv'.req = drv.req)
  PROVE  Inv'
<1>1. OnlyEvts'
  BY DEF Inv, Wire, OnlyEvts
<1>2. QED
  BY <1>1 DEF Inv, Fields, Life, Wire, ResponseIsOwn

\* The length of what follows the first y of x elements
LEMMA RestLength ==
  \A x \in Nat \ {0} : \A y \in 1 .. x :
    (IF y + 1 <= x THEN x - (y + 1) + 1 ELSE 0) <= x - y
OBVIOUS

\* The first line of a chunk is taken, the rest of the chunk dropped.
LEMMA ReceiveKeeps ==
  ASSUME Inv, Receive
  PROVE  Inv'
<1>1. /\ drv.pc = "recv" /\ lines # <<>> /\ UNCHANGED <<emu, sent>>
      /\ \/ Accepts(Head(lines)) /\ drv' = [drv EXCEPT !.pc = drv.ret, !.answer = Head(lines)]
         \/ Fail
  BY DEF Receive
<1>2. PICK n \in 1 .. Len(lines) : lines' = SubSeq(lines, n + 1, Len(lines))
  BY DEF Receive
<1>3. PICK S : lines \in Seq(S)
  BY DEF Inv, Wire
<1>4. /\ Len(lines) \in Nat \ {0} /\ DOMAIN lines = 1 .. Len(lines) /\ Head(lines) = lines[1]
      /\ 1 \in DOMAIN lines
  BY <1>1, <1>3
<1>5. /\ lines' \in Seq(S) /\ Len(lines') <= Len(lines) - n
      /\ \A k \in 1 .. Len(lines) - n : lines'[k] = lines[k + n]
  <2>1. n + 1 \in Int /\ Len(lines) \in Int /\ \A i \in n + 1 .. Len(lines) : lines[i] \in S
    BY <1>3, <1>4
  <2>2. /\ lines' \in Seq(S)
        /\ Len(lines') = IF n + 1 <= Len(lines) THEN Len(lines) - (n + 1) + 1 ELSE 0
        /\ \A k \in 1 .. Len(lines) - (n + 1) + 1 : lines'[k] = lines[n + 1 + k - 1]
    BY <1>2, <2>1, SubSeqProperties
  <2>3. \A k \in 1 .. Len(lines) - n : n + 1 + k - 1 = k + n
    BY <1>4
  <2>4. Len(lines) - (n + 1) + 1 = Len(lines) - n /\ n <= Len(lines)
    BY <1>4
  <2>5. Len(lines') <= Len(lines) - n
    <3>1. Len(lines) \in Nat \ {0} /\ n \in 1 .. Len(lines)
      BY <1>4
    <3>2. (IF n + 1 <= Len(lines) THEN Len(lines) - (n + 1) + 1 ELSE 0) <= Len(lines) - n
      BY ONLY <3>1, RestLength, Zenon
    <3>3. Len(lines') = IF n + 1 <= Len(lines) THEN Len(lines) - (n + 1) + 1 ELSE 0
      BY <2>2
    <3>4. QED
      BY ONLY <3>2, <3>3, Zenon
  <2>6. \A k \in 1 .. Len(lines) - n : lines'[k] = lines[k + n]
    BY <2>2, <2>3, <2>4, Zenon
  <2>7. QED
    BY <2>2, <2>5, <2>6
<1>6. \A k \in DOMAIN lines' : k + n \in DOMAIN lines /\ k + n # 1 /\ lines'[k] = lines[k + n]
  BY <1>3, <1>4, <1>5
<1>7. CASE Fail
  BY <1>1, <1>5, <1>7, FailKeeps
<1>8. CASE Accepts(Head(lines)) /\ drv' = [drv EXCEPT !.pc = drv.ret, !.answer = Head(lines)]
  <2>1. ~Evt(lines[1])
    BY <1>4, <1>8 DEF Accepts, Evt
  <2>2. sent = NoCmd /\ OneReply
    <3>1. ~OnlyEvts
      BY <1>4, <2>1, Zenon DEF OnlyEvts
    <3>2. QED
      BY <1>1, <3>1, Zenon DEF Inv, Wire
  <2>3. lines[1].id = drv.req.id /\ \A m \in DOMAIN lines : m # 1 => Evt(lines[m])
    BY <1>4, <2>1, <2>2 DEF OneReply
  <2>4. OnlyEvts'
    BY <1>6, <2>3 DEF OnlyEvts, Evt
  <2>5. /\ {"pc", "req", "answer", "ret"} \subseteq DOMAIN drv'
        /\ drv'.pc = drv.ret /\ drv'.answer = lines[1] /\ drv'.req = drv.req
        /\ drv.ret \in {"look", "poll", "press", "loop"}
    <3>1. {"pc", "req", "answer", "ret"} \subseteq DOMAIN drv
      BY DEF Inv, Fields
    <3>2. drv.ret \in {"look", "poll", "press", "loop"}
      BY <1>1 DEF Inv, Wire
    <3>3. drv' = [drv EXCEPT !.pc = drv.ret, !.answer = lines[1]]
      BY <1>4, <1>8
    <3>4. PICK a : a = [drv EXCEPT !.pc = drv.ret]
      OBVIOUS
    <3>5. drv' = [a EXCEPT !.answer = lines[1]]
      BY <3>3, <3>4
    <3>6. QED
      BY <3>1, <3>2, <3>4, <3>5
  <2>6. Fields' /\ Life'
    BY <1>1, <2>5 DEF Inv, Fields, Life
  <2>7. ResponseIsOwn'
    BY <2>3, <2>5 DEF ResponseIsOwn
  <2>8. Wire'
    BY <1>1, <1>5, <2>2, <2>4, <2>5 DEF Wire
  <2>9. QED
    BY <2>6, <2>7, <2>8 DEF Inv
<1>9. QED
  BY <1>1, <1>7, <1>8

\* Responses, pictures, debugger setup and menu keys
LEMMA DrivingKeeps ==
  ASSUME Inv, Driving
  PROVE  Inv'
<1> USE DEF Fields
<1>1. CASE Receive
  BY <1>1, ReceiveKeeps
<1>2. CASE ReceiveFails
  BY <1>2, FailKeeps DEF ReceiveFails, Inv, Wire
<1>3. CASE Look
  <2>1. /\ drv.pc = "look" /\ UNCHANGED <<emu, lines>>
        /\ Request("SNAP", <<>>, "poll", [drv EXCEPT !.before = Present, !.use = "signpost"])
    BY <1>3 DEF Look, Snap
  <2>2. PICK d : d = [drv EXCEPT !.before = Present, !.use = "signpost"]
    OBVIOUS
  <2>3. {"pc", "req", "answer", "ret"} \subseteq DOMAIN d /\ Request("SNAP", <<>>, "poll", d)
    BY <2>1, <2>2 DEF Inv
  <2>4. QED
    BY <2>1, <2>3, Requested, RequestKeeps DEF Inv, Wire
<1>4. CASE PollFails
  BY <1>4, FailKeeps DEF PollFails, Inv, Wire
<1>5. CASE SignpostSeen
  <2>1. /\ drv.pc = "poll" /\ UNCHANGED <<emu, sent, lines>>
        /\ drv' = [drv EXCEPT !.pc = IF drv.stage = 1 THEN "debug" ELSE "press",
                              !.before = {}, !.answer = NoLine]
    BY <1>5 DEF SignpostSeen
  <2>2. /\ {"pc", "req", "answer", "ret"} \subseteq DOMAIN drv'
        /\ drv'.pc \in {"debug", "press"} /\ drv'.answer = NoLine
    BY <2>1 DEF Inv
  <2>3. QED
    BY <2>1, <2>2, BetweenKeeps
<1>6. CASE SignpostNotYet
  <2>1. /\ drv.pc = "poll" /\ UNCHANGED <<emu, sent, lines>>
        /\ drv' = [drv EXCEPT !.tries = @ + 1, !.pc = "look"] \/ Fail
    BY <1>6 DEF SignpostNotYet
  <2>2. CASE drv' = [drv EXCEPT !.tries = @ + 1, !.pc = "look"]
    <3>1. /\ {"pc", "req", "answer", "ret"} \subseteq DOMAIN drv'
          /\ drv'.pc = "look" /\ drv'.answer = drv.answer /\ drv'.req = drv.req
      BY <2>2 DEF Inv
    <3>2. QED
      BY <2>1, <3>1, BetweenKeeps
  <2>3. CASE Fail
    BY <2>1, <2>3, FailKeeps DEF Inv, Wire
  <2>4. QED
    BY <2>1, <2>2, <2>3
<1>7. CASE InstallDebug
  <2>1. drv.pc = "debug" /\ UNCHANGED <<emu, lines>> /\ Request("DBG", Batch, "press", drv)
    BY <1>7 DEF InstallDebug
  <2>2. QED
    BY <2>1, Requested, RequestKeeps DEF Inv, Wire
<1>8. CASE NoDebug
  <2>1. drv.pc = "debug" /\ UNCHANGED <<emu, sent, lines>> /\ drv' = [drv EXCEPT !.pc = "press"]
    BY <1>8 DEF NoDebug, Goto
  <2>2. /\ {"pc", "req", "answer", "ret"} \subseteq DOMAIN drv'
        /\ drv'.pc = "press" /\ drv'.answer = drv.answer /\ drv'.req = drv.req
    BY <2>1 DEF Inv
  <2>3. QED
    BY <2>1, <2>2, BetweenKeeps
<1>9. CASE PressMenuKey
  <2>1. /\ drv.pc = "press" /\ UNCHANGED <<emu, lines>>
    BY <1>9 DEF PressMenuKey
  <2>2. PICK key : key = <<Route[drv.stage].key>>
    OBVIOUS
  <2>3. PICK d : d = [drv EXCEPT !.stage = @ + 1, !.tries = 0]
    OBVIOUS
  <2>4. Request("KEY", key, "loop", drv) \/ Request("KEY", key, "look", d)
    BY <1>9, <2>2, <2>3 DEF PressMenuKey
  <2>5. {"pc", "req", "answer", "ret"} \subseteq DOMAIN d
    BY <2>3 DEF Inv
  <2>6. {"pc", "req", "answer", "ret"} \subseteq DOMAIN drv
    BY DEF Inv
  <2>7. QED
    BY <2>1, <2>4, <2>5, <2>6, Requested, RequestKeeps DEF Inv, Wire
<1>10. CASE SnapShown
  <2>1. /\ drv.pc = "poll" /\ UNCHANGED <<emu, sent, lines>>
        /\ \E shown, new : drv' = [drv EXCEPT !.pc = "loop", !.before = {}, !.answer = NoLine,
                                              !.shown = shown, !.cached = new]
    BY <1>10, Zenon DEF SnapShown
  <2>2. /\ {"pc", "req", "answer", "ret"} \subseteq DOMAIN drv'
        /\ drv'.pc = "loop" /\ drv'.answer = NoLine
    BY <2>1 DEF Inv
  <2>3. QED
    BY <2>1, <2>2, BetweenKeeps
<1>11. QED
  BY <1>1, <1>2, <1>3, <1>4, <1>5, <1>6, <1>7, <1>8, <1>9, <1>10 DEF Driving

\* Commands of the user, and the end
LEMMA UserKeeps ==
  ASSUME Inv, User
  PROVE  Inv'
<1>1. CASE UserTypes
  <2>1. /\ drv.pc = "loop" /\ UNCHANGED <<emu, lines>>
        /\ \E op, arg : Request(op, arg, "loop", [drv EXCEPT !.commands = @ + 1])
    BY <1>1, Zenon DEF UserTypes
  <2>2. QED
    BY <2>1, Requested, RequestKeeps DEF Inv, Wire, Fields
<1>2. CASE UserSnaps
  <2>1. /\ drv.pc = "loop" /\ UNCHANGED <<emu, lines>>
        /\ \E use : Request("SNAP", <<>>, "poll", [drv EXCEPT !.before = Present, !.use = use,
                                                              !.commands = @ + 1])
    BY <1>2, Zenon DEF UserSnaps
  <2>2. PICK use : Request("SNAP", <<>>, "poll", [drv EXCEPT !.before = Present, !.use = use,
                                                             !.commands = @ + 1])
    BY <2>1
  <2>3. PICK d : d = [drv EXCEPT !.before = Present, !.use = use, !.commands = @ + 1]
    OBVIOUS
  <2>4. {"pc", "req", "answer", "ret"} \subseteq DOMAIN d
    BY <2>3 DEF Inv, Fields
  <2>5. Request("SNAP", <<>>, "poll", d)
    BY <2>2, <2>3
  <2>6. QED
    BY <2>1, <2>4, <2>5, Requested, RequestKeeps DEF Inv, Wire
<1>3. CASE Quit
  BY <1>3, FailKeeps DEF Quit, Inv, Wire
<1>4. CASE Interrupt
  <2>1. UNCHANGED <<emu, sent, lines>> /\ (Fail \/ drv' = [drv EXCEPT !.pc = "interrupted"])
    BY <1>4 DEF Interrupt, Goto
  <2>2. CASE Fail
    BY <2>1, <2>2, FailKeeps DEF Inv, Wire
  <2>3. CASE drv' = [drv EXCEPT !.pc = "interrupted"]
    BY <2>1, <2>3 DEF Inv, Fields, Life, Wire, ResponseIsOwn
  <2>4. QED
    BY <2>1, <2>2, <2>3
<1>5. QED
  BY <1>1, <1>2, <1>3, <1>4 DEF User

\* The finally clause ends MAME before the driver ends, or has killed it.
LEMMA FinallyKeeps ==
  ASSUME Inv, Finally
  PROVE  Inv'
<1>1. /\ UNCHANGED <<sent, lines>> /\ drv.pc \in {"terminate", "wait", "killed"}
      /\ \/ (drv' = [drv EXCEPT !.pc = "wait"] /\ emu' = [emu EXCEPT !.signal = "term"])
         \/ (drv' = [drv EXCEPT !.pc = "killed"] /\ emu' = [emu EXCEPT !.signal = "kill"])
         \/ (drv' = [drv EXCEPT !.pc = "ended"] /\ emu' = emu /\ emu.proc = "dead")
         \/ (drv' = [drv EXCEPT !.pc = "unreaped"] /\ emu' = emu /\ drv.pc = "killed")
  BY DEF Finally, Terminate, WaitTimesOut, KillTimesOut, Reaped, Goto
<1>2. /\ {"pc", "req", "answer", "ret"} \subseteq DOMAIN drv'
      /\ {"proc", "signal"} \subseteq DOMAIN emu'
      /\ drv'.answer = drv.answer /\ drv'.req = drv.req /\ emu'.proc = emu.proc
      /\ \/ drv'.pc = "wait"
         \/ drv'.pc = "ended" /\ emu.proc = "dead"
         \/ drv'.pc \in {"killed", "unreaped"} /\ (emu.proc = "running" => emu'.signal = "kill")
  BY <1>1 DEF Inv, Fields, Life
<1>3. QED
  BY <1>1, <1>2 DEF Inv, Fields, Life, Wire, ResponseIsOwn

\* A step of MAME leaves the driver alone and does not bring MAME back.
LEMMA MameKeeps ==
  ASSUME Inv, UNCHANGED drv, {"proc", "signal"} \subseteq DOMAIN emu',
         (emu'.proc = emu.proc /\ emu'.signal = emu.signal) \/ emu'.proc = "dead",
         emu.proc = "running", Wire'
  PROVE  Inv'
  BY DEF Inv, Fields, Life, ResponseIsOwn

\* MAME, the bridge in it and the firmware
LEMMA MachineKeeps ==
  ASSUME Inv, Machine
  PROVE  Inv'
<1> DEFINE Same == UNCHANGED <<drv, sent, lines>>
<1>1. Same => Wire'
  BY DEF Inv, Wire, OnlyEvts, OneReply
<1>2. CASE OpenSocket \/ OpenWindow \/ Boot \/ Draw \/ BasicPrints
  <2>1. /\ Same /\ Running
        /\ \/ \E k, v : k \notin {"proc", "signal"} /\ emu' = [emu EXCEPT ![k] = v]
           \/ \E v, w : emu' = [emu EXCEPT !.screen = v, !.drawing = w]
    BY <1>2 DEF OpenSocket, OpenWindow, Boot, Draw, BasicPrints
  <2>2. {"proc", "signal"} \subseteq DOMAIN emu' /\ emu'.proc = emu.proc /\ emu'.signal = emu.signal
    BY <2>1 DEF Inv, Fields
  <2>3. QED
    BY <1>1, <2>1, <2>2, MameKeeps DEF Running
<1>3. CASE Frame
  <2>1. Same /\ Running /\ emu' = Firmware(emu)
    BY <1>3 DEF Frame
  <2>2. QED
    BY <1>1, <2>1, FirmwareKeeps, MameKeeps DEF Running, Inv, Fields
<1>4. CASE FrameWithCommand
  <2>1. /\ UNCHANGED drv /\ Running /\ sent # NoCmd /\ sent' = NoCmd
        /\ lines' = Append(lines, [kind |-> Answered(sent), op |-> sent.op, id |-> sent.id])
        /\ \E e : (e = emu \/ \E p : e = [emu EXCEPT !.points = p]) /\ emu' = Firmware(e)
    BY <1>4, Zenon DEF FrameWithCommand
  <2>2. {"proc", "signal"} \subseteq DOMAIN emu' /\ emu'.proc = emu.proc /\ emu'.signal = emu.signal
    <3>1. PICK e : (e = emu \/ \E p : e = [emu EXCEPT !.points = p]) /\ emu' = Firmware(e)
      BY <2>1
    <3>2. {"proc", "signal"} \subseteq DOMAIN e /\ e.proc = emu.proc /\ e.signal = emu.signal
      BY <3>1 DEF Inv, Fields
    <3>3. QED
      BY <3>1, <3>2, FirmwareKeeps
  <2>3. PICK S : lines \in Seq(S)
    BY DEF Inv, Wire
  <2> DEFINE reply == [kind |-> Answered(sent), op |-> sent.op, id |-> sent.id]
  <2>4. /\ reply.id = sent.id /\ reply.kind # "evt"
    BY DEF Answered
  <2> HIDE DEF reply
  <2>5. lines' = Append(lines, reply)
    BY <2>1 DEF reply
  <2>6. /\ lines' \in Seq(S \cup {reply}) /\ Len(lines) \in Nat /\ DOMAIN lines' = 1 .. Len(lines) + 1
        /\ DOMAIN lines = 1 .. Len(lines) /\ lines'[Len(lines) + 1] = reply
        /\ \A n \in DOMAIN lines : lines'[n] = lines[n]
    <3>1. lines \in Seq(S \cup {reply}) /\ reply \in S \cup {reply}
      BY <2>3
    <3>2. QED
      BY <2>5, <3>1
  <2>7. drv.pc = "recv" => OneReply'
    <3>1. SUFFICES ASSUME drv.pc = "recv" PROVE OneReply'
      OBVIOUS
    <3>2. sent = drv.req /\ \A n \in DOMAIN lines : Evt(lines[n])
      BY <2>1, <3>1 DEF Inv, Wire, OnlyEvts
    <3>3. \A n \in DOMAIN lines' : n \in DOMAIN lines \/ n = Len(lines) + 1
      BY <2>6
    <3>4. \A n \in DOMAIN lines' : ~Evt(lines'[n]) => n = Len(lines) + 1
      BY <2>6, <3>2, <3>3, Zenon DEF Evt
    <3>5. lines'[Len(lines) + 1].id = drv'.req.id
      BY <2>1, <2>4, <2>6, <3>2
    <3>6. QED
      BY <3>4, <3>5 DEF OneReply, Evt
  <2>8. Wire'
    <3>1. drv.pc \in {"start", "window", "connect", "look", "poll", "debug", "press", "loop"} => FALSE
      BY <2>1 DEF Inv, Wire
    <3>2. drv.pc = "recv" => drv.ret \in {"look", "poll", "press", "loop"}
      BY DEF Inv, Wire
    <3>3. QED
      BY <2>1, <2>6, <2>7, <3>1, <3>2, Zenon DEF Wire
  <2>9. QED
    BY <2>1, <2>2, <2>8, MameKeeps DEF Running
<1>5. CASE Watched
  <2>1. /\ UNCHANGED <<drv, emu, sent>> /\ Running
        /\ drv.pc \notin {"start", "window", "connect", "ended"}
        /\ lines' = Append(lines, [kind |-> "evt", op |-> "none", id |-> 0])
    BY <1>5 DEF Watched, Connected, Over
  <2> DEFINE evt == [kind |-> "evt", op |-> "none", id |-> 0]
  <2>2. PICK S : lines \in Seq(S)
    BY DEF Inv, Wire
  <2>3. Evt(evt)
    BY DEF Evt
  <2>4. lines' = Append(lines, evt)
    BY <2>1
  <2> HIDE DEF evt
  <2>5. /\ lines' \in Seq(S \cup {evt}) /\ Len(lines) \in Nat /\ DOMAIN lines' = 1 .. Len(lines) + 1
        /\ DOMAIN lines = 1 .. Len(lines) /\ lines'[Len(lines) + 1] = evt
        /\ \A n \in DOMAIN lines : lines'[n] = lines[n]
    <3>1. lines \in Seq(S \cup {evt}) /\ evt \in S \cup {evt}
      BY <2>2
    <3>2. QED
      BY <2>4, <3>1
  <2>6. \A n \in DOMAIN lines' : (n \in DOMAIN lines /\ lines'[n] = lines[n]) \/ Evt(lines'[n])
    <3>1. \A n \in DOMAIN lines' : n \in DOMAIN lines \/ n = Len(lines) + 1
      BY <2>5
    <3>2. QED
      BY <2>3, <2>5, <3>1, Zenon
  <2>7. OnlyEvts => OnlyEvts'
    BY <2>6 DEF OnlyEvts, Evt
  <2>8. OneReply => OneReply'
    BY <2>1, <2>6 DEF OneReply, Evt
  <2>9. Wire'
    BY <2>1, <2>5, <2>7, <2>8, Zenon DEF Inv, Wire
  <2>10. QED
    BY <2>1, <2>9, MameKeeps DEF Running, Inv, Fields
<1>6. CASE Dies
  <2>1. /\ UNCHANGED <<drv, lines>> /\ Running /\ sent' = NoCmd
        /\ emu' = [MameStart(emu.nvram, "stale") EXCEPT !.proc = "dead"]
    BY <1>6 DEF Dies
  <2>2. {"proc", "signal"} \subseteq DOMAIN emu' /\ emu'.proc = "dead"
    BY <2>1 DEF MameStart
  <2>3. OnlyEvts => OneReply
    BY DEF OnlyEvts, OneReply
  <2>4. (OneReply => OneReply') /\ (OnlyEvts => OnlyEvts')
    BY <2>1 DEF OneReply, OnlyEvts
  <2>5. Wire'
    BY <2>1, <2>3, <2>4 DEF Inv, Wire
  <2>6. QED
    BY <2>1, <2>2, <2>5, MameKeeps DEF Running
<1>7. QED
  BY <1>2, <1>3, <1>4, <1>5, <1>6 DEF Machine

------------------------------------------------------------------------------
(* The theorems                                                              *)

\* Before the launch there is no MAME and nothing on the socket.
LEMMA InitInv == Init => Inv
<1> SUFFICES ASSUME Init PROVE Inv
  OBVIOUS
<1>1. /\ drv = DriverStart /\ sent = NoCmd /\ lines = <<>>
      /\ \E nvram, sockfile : emu = MameStart(nvram, sockfile)
  BY Zenon DEF Init
<1>2. /\ {"pc", "req", "answer", "ret"} \subseteq DOMAIN drv
      /\ drv.pc = "start" /\ drv.answer = NoLine
  BY <1>1 DEF DriverStart
<1>3. {"proc", "signal"} \subseteq DOMAIN emu /\ emu.proc = "none"
  BY <1>1 DEF MameStart
<1>4. \E S : lines \in Seq(S)
  BY <1>1
<1>5. QED
  BY <1>1, <1>2, <1>3, <1>4 DEF Inv, Fields, Life, Wire, ResponseIsOwn

\* Every step of driver, user and MAME keeps the invariant.
LEMMA NextInv == Inv /\ [Next]_vars => Inv'
<1> SUFFICES ASSUME Inv, [Next]_vars PROVE Inv'
  OBVIOUS
<1>1. CASE UNCHANGED vars
  BY <1>1 DEF vars, Inv, Fields, Life, Wire, OnlyEvts, OneReply, ResponseIsOwn
<1>2. QED
  BY <1>1, StartKeeps, DrivingKeeps, FinallyKeeps, UserKeeps, MachineKeeps DEF Next

\* The invariant holds in every state of every behaviour.
LEMMA SpecInv == Spec => []Inv
  BY InitInv, NextInv, PTL DEF Spec

\* bridge_request: whatever the user types, however many EVT lines the bridge prints and
\* whenever MAME dies, a response the driver goes on with is that to its own request.
THEOREM ResponsesAreOwn == Spec => []ResponseIsOwn
<1>1. Inv => ResponseIsOwn
  BY DEF Inv
<1>2. QED
  BY <1>1, SpecInv, PTL

\* main: whatever fails in the driver, MAME has ended when it ends, or the driver raises after
\* it has killed MAME; only ^C in the finally clause leaves MAME as it is.
THEOREM MameEnds == Spec => []EndsWithMame
<1>1. Inv => EndsWithMame
  BY DEF Inv, Life, EndsWithMame
<1>2. QED
  BY <1>1, SpecInv, PTL

------------------------------------------------------------------------------
(* Induction, and what is computed step by step                              *)

\* A set that has a and with k also k + 1, up to b, has all from a to b.
LEMMA UpTo ==
  ASSUME NEW a \in Nat, NEW b \in Nat, NEW S,
         a \in S, \A k \in a .. b - 1 : k \in S => k + 1 \in S
  PROVE  \A k \in a .. b : k \in S
<1> DEFINE T == {k \in a .. b : k \notin S}
<1>1. SUFFICES ASSUME T # {} PROVE FALSE
  OBVIOUS
<1>2. T \in SUBSET Nat
  OBVIOUS
<1>3. \E k \in T : \A j \in T : ~ (<<j, k>> \in OpToRel(<, Nat))
  BY <1>1, <1>2, WFMin, NatLessThanWellFounded
<1>4. PICK k \in T : \A j \in T : ~ (j < k)
  BY <1>2, <1>3, Zenon DEF OpToRel
<1>5. k \in a .. b /\ k # a
  OBVIOUS
<1>6. k - 1 \in a .. b - 1 /\ k - 1 \notin T /\ k - 1 + 1 = k
  <2>1. k - 1 \in a .. b - 1 /\ k - 1 + 1 = k /\ k - 1 < k
    BY <1>5
  <2>2. QED
    BY <1>4, <2>1
<1>7. k - 1 \in S
  BY <1>6
<1>8. QED
  BY <1>6, <1>7

\* f has what the steps make of base one after the other.
Iterates(f, D, base, n, next) ==
  /\ f \in [0 .. n -> D]
  /\ f[0] = base
  /\ \A k \in 1 .. n : f[k] = next[k][f[k - 1]]

\* What is computed in n steps, each from the result of the one before, exists.
LEMMA IteratesExist ==
  ASSUME NEW D, NEW base, base \in D, NEW n, n \in Nat, NEW next, next \in [1 .. n -> [D -> D]]
  PROVE  \E f : Iterates(f, D, base, n, next)
<1> DEFINE Done(f, m) == /\ f \in [0 .. m -> D] /\ f[0] = base
                         /\ \A k \in 1 .. m : f[k] = next[k][f[k - 1]]
           S == {m \in 0 .. n : \E f : Done(f, m)}
<1>1. 0 \in S
  <2>1. Done([k \in 0 .. 0 |-> base], 0)
    OBVIOUS
  <2>2. \E f : Done(f, 0)
    BY <2>1
  <2> HIDE DEF Done
  <2>3. QED
    BY <2>2
<1>2. \A m \in 0 .. n - 1 : m \in S => m + 1 \in S
  <2> SUFFICES ASSUME NEW m \in 0 .. n - 1, m \in S PROVE m + 1 \in S
    OBVIOUS
  <2>1. PICK f : Done(f, m)
    OBVIOUS
  <2> DEFINE g == [k \in 0 .. m + 1 |-> IF k <= m THEN f[k] ELSE next[m + 1][f[m]]]
  <2>2. next[m + 1] \in [D -> D] /\ f[m] \in D
    BY <2>1
  <2>3. \A k \in 0 .. m + 1 : g[k] \in D
    BY <2>1, <2>2
  <2>4. \A k \in 1 .. m + 1 : g[k] = next[k][g[k - 1]]
    <3>1. SUFFICES ASSUME NEW k \in 1 .. m + 1 PROVE g[k] = next[k][g[k - 1]]
      OBVIOUS
    <3>2. CASE k <= m
      BY <2>1, <3>2
    <3>3. CASE k = m + 1
      BY <2>1, <3>3
    <3>4. QED
      BY <3>2, <3>3
  <2>5. Done(g, m + 1)
    BY <2>1, <2>3, <2>4
  <2> HIDE DEF Done, g
  <2>6. QED
    BY <2>5
<1> HIDE DEF Done
<1>3. \A m \in 0 .. n : m \in S
  <2> HIDE DEF S
  <2>1. QED
    BY <1>1, <1>2, UpTo
<1>4. n \in S
  BY <1>3
<1>5. QED
  BY <1>4 DEF Done, Iterates

------------------------------------------------------------------------------
(* The types                                                                 *)

\* The menus of a run
LEMMA RouteFacts ==
  ASSUME args \in Runs
  PROVE  /\ args.prepared => /\ Len(Route) = 1
                             /\ Route[1] = [menu |-> "romcard", key |-> "Enter"]
         /\ ~args.prepared => /\ Len(Route) = 3
                              /\ Route[1] = [menu |-> "buttons", key |-> "Page_Down"]
                              /\ Route[2] = [menu |-> "wp", key |-> "6"]
                              /\ Route[3] = [menu |-> "others", key |-> "4"]
         /\ args.prepared \in BOOLEAN
<1>1. args.prepared \in BOOLEAN
  BY RunsAssumption
<1>2. QED
  BY <1>1 DEF Route

AllFields == UNION {Layout[n].mods \cup {Layout[n].key} : n \in DOMAIN Layout}
Entries   == [fields : SUBSET AllFields, frames : {Hold, Gap, Lead, Trail}]

Labels == {"start", "window", "connect", "look", "recv", "poll", "debug", "press", "loop",
           "terminate", "wait", "killed", "ended", "unreaped", "interrupted"}
Points == {"rp", "bp", "watch"}

Drivers == [pc : Labels, stage : Nat, tries : 0 .. MaxTries, req : Command, ret : Labels,
            answer : Line, before : SUBSET Indices,
            use : {"signpost", "quiet", "changed", "all", "range"}, cached : Picture,
            shown : SUBSET Nat, commands : Nat]
Mames   == [proc : {"none", "running", "dead"}, signal : {"none", "term", "kill"},
            window : BOOLEAN, nvram : {"empty", "prepared"}, screen : Screens,
            drawing : {"none"} \cup Screens, lcd : Rows \cup {Blank},
            sockfile : {"none", "stale", "bound"}, points : SUBSET Points, keys : Nat,
            misfired : BOOLEAN]

SetOut    == drv.pc \in {"start", "window", "connect"}
At(label) == drv.pc = label \/ (drv.pc = "recv" /\ drv.ret = label)

\* One picture is new at most, and none before SNAP is answered.
OneNew == At("poll") => (\E n : Created \subseteq {n}) /\ (sent # NoCmd => Created = {})

DrvType   == /\ drv \in Drivers /\ drv.stage \in 1 .. Len(Route)
             /\ SetOut => drv.stage = 1
EmuType   == emu \in Mames /\ emu.keys <= Len(Route)
WireType  == /\ sent \in Command /\ lines \in Seq(Line)
             /\ sent.op = "KEY" => Len(sent.arg) = 1
             /\ sent.op = "DBG" => sent.arg = Batch
QueueType == queue \in Seq(Entries) /\ step.fields \subseteq AllFields /\ "fields" \in DOMAIN step

\* TypeOK, with the types of what it leaves out, and what they rest on
TypeInv == /\ args \in Runs
           /\ DrvType /\ EmuType /\ WireType /\ QueueType
           /\ snaps \in [Indices -> Picture] /\ OneNew

\* What a key adds to the queue
LEMMA StrokesType ==
  ASSUME NEW n
  PROVE  Strokes(n) \in Seq(Entries)
<1>1. CASE n \in DOMAIN Layout
  <2>1. /\ Layout[n].mods \subseteq AllFields /\ {Layout[n].key} \subseteq AllFields
        /\ Layout[n].mods \cup {Layout[n].key} \subseteq AllFields /\ {} \subseteq AllFields
    BY <1>1 DEF AllFields
  <2>2. \A f \in SUBSET AllFields : \A c \in {Hold, Gap, Lead, Trail} : Entry(f, c) \in Entries
    BY DEF Entry, Entries
  <2> HIDE DEF Entries
  <2>3. /\ Entry({Layout[n].key}, Hold) \in Entries /\ Entry({}, Gap) \in Entries
        /\ Entry(Layout[n].mods, IF Layout[n].chord THEN Hold ELSE Lead) \in Entries
        /\ Entry(Layout[n].mods \cup {Layout[n].key}, Hold) \in Entries
        /\ Entry(Layout[n].mods, IF Layout[n].chord THEN Hold ELSE Trail) \in Entries
    BY <2>1, <2>2
  <2> HIDE DEF Entry
  <2>4. QED
    BY <1>1, <2>3 DEF Strokes, Press
<1>2. CASE n \notin DOMAIN Layout
  BY <1>2 DEF Strokes
<1>3. QED
  BY <1>1, <1>2

------------------------------------------------------------------------------
(* What commands add to the queue                                            *)

\* One set of fields may follow another: no key turns into another, and no modifier
\* changes with a key.
Change(a, b) == Keys(a) = Keys(b) \/ ((Keys(a) = {} \/ Keys(b) = {}) /\ Mods(a) = Mods(b))

\* Entries that begin and end with nothing down and change cleanly in between
Tidy(q) == /\ q # <<>> => Change({}, q[1].fields) /\ q[Len(q)].fields = {}
           /\ \A i \in 1 .. Len(q) - 1 : Change(q[i].fields, q[i + 1].fields)

TidyQueues == {q \in Seq(Entries) : Tidy(q)}

\* A key goes down and up, with and without modifiers.
LEMMA KeyChanges ==
  ASSUME NEW n \in DOMAIN Layout
  PROVE  /\ Change({}, {Layout[n].key}) /\ Change({Layout[n].key}, {})
         /\ Change({}, Layout[n].mods) /\ Change(Layout[n].mods, {})
         /\ Change(Layout[n].mods, Layout[n].mods \cup {Layout[n].key})
         /\ Change(Layout[n].mods \cup {Layout[n].key}, Layout[n].mods)
<1> DEFINE mods == Layout[n].mods
           key  == Layout[n].key
           all  == UNION {Layout[m].mods : m \in DOMAIN Layout}
<1>1. mods \subseteq all /\ key \notin all
  BY LayoutAssumption
<1>2. \A f : Mods(f) = f \cap all /\ Keys(f) = f \ (f \cap all)
  BY DEF Mods, Keys
<1> HIDE DEF mods, key, all
<1>3. /\ Keys({}) = {} /\ Mods({}) = {} /\ Keys({key}) = {key} /\ Mods({key}) = {}
      /\ Keys(mods) = {} /\ Mods(mods) = mods
      /\ Keys(mods \cup {key}) = {key} /\ Mods(mods \cup {key}) = mods
  BY <1>1, <1>2
<1>4. QED
  BY <1>3 DEF Change, mods, key

\* A single key is pressed and released.
LEMMA StrokesTidy ==
  ASSUME NEW n
  PROVE  Strokes(n) \in TidyQueues
<1>1. Strokes(n) \in Seq(Entries)
  BY StrokesType
<1>2. CASE n \notin DOMAIN Layout
  <2>1. Strokes(n) = <<>>
    BY <1>2 DEF Strokes
  <2>2. QED
    BY <1>1, <2>1 DEF TidyQueues, Tidy
<1>3. CASE n \in DOMAIN Layout /\ Layout[n].mods = {}
  <2>1. Strokes(n) = <<Entry({Layout[n].key}, Hold), Entry({}, Gap)>>
    BY <1>3 DEF Strokes, Press
  <2> DEFINE q == Strokes(n)
  <2>2. Len(q) = 2 /\ q[1].fields = {Layout[n].key} /\ q[2].fields = {}
    BY <2>1 DEF Entry
  <2> HIDE DEF q
  <2>3. Change({}, {Layout[n].key}) /\ Change({Layout[n].key}, {})
    BY <1>3, KeyChanges
  <2>4. Tidy(q)
    <3>1. Change({}, q[1].fields) /\ q[Len(q)].fields = {}
      BY <2>2, <2>3
    <3>2. ASSUME NEW i \in 1 .. Len(q) - 1 PROVE Change(q[i].fields, q[i + 1].fields)
      <4>1. i = 1 /\ i + 1 = 2
        BY <2>2
      <4>2. QED
        BY <2>2, <2>3, <4>1
    <3>3. QED
      BY <3>1, <3>2 DEF Tidy
  <2>5. QED
    BY <1>1, <2>4 DEF TidyQueues, q
<1>4. CASE n \in DOMAIN Layout /\ Layout[n].mods # {}
  <2> DEFINE k == Layout[n]
  <2>1. Strokes(n) = <<Entry(k.mods, IF k.chord THEN Hold ELSE Lead),
                       Entry(k.mods \cup {k.key}, Hold),
                       Entry(k.mods, IF k.chord THEN Hold ELSE Trail), Entry({}, Gap)>>
    BY <1>4 DEF Strokes, Press
  <2> DEFINE q == Strokes(n)
  <2>2. /\ Len(q) = 4 /\ q[1].fields = k.mods /\ q[2].fields = k.mods \cup {k.key}
        /\ q[3].fields = k.mods /\ q[4].fields = {}
    BY <2>1 DEF Entry
  <2>3. /\ Change({}, k.mods) /\ Change(k.mods, {})
        /\ Change(k.mods, k.mods \cup {k.key}) /\ Change(k.mods \cup {k.key}, k.mods)
    BY <1>4, KeyChanges
  <2> HIDE DEF q, k
  <2>4. Change({}, q[1].fields) /\ q[Len(q)].fields = {}
    BY <2>2, <2>3
  <2>5. Tidy(q)
    <3>1. ASSUME NEW i \in 1 .. Len(q) - 1 PROVE Change(q[i].fields, q[i + 1].fields)
      <4>1. (i = 1 /\ i + 1 = 2) \/ (i = 2 /\ i + 1 = 3) \/ (i = 3 /\ i + 1 = 4)
        BY <2>2
      <4>2. QED
        BY <2>2, <2>3, <4>1
    <3>2. QED
      BY <2>4, <3>1 DEF Tidy
  <2>6. QED
    BY <1>1, <2>5 DEF TidyQueues, q
<1>5. QED
  BY <1>2, <1>3, <1>4

\* One after the other
LEMMA ConcatTidy ==
  ASSUME NEW q \in TidyQueues, NEW r \in TidyQueues
  PROVE  q \o r \in TidyQueues
<1> DEFINE s == q \o r
<1>1. q \in Seq(Entries) /\ r \in Seq(Entries) /\ Tidy(q) /\ Tidy(r)
  BY DEF TidyQueues
<1>2. /\ s \in Seq(Entries) /\ Len(s) = Len(q) + Len(r) /\ Len(q) \in Nat /\ Len(r) \in Nat
      /\ \A i \in 1 .. Len(q) : s[i] = q[i]
      /\ \A i \in 1 .. Len(r) : s[Len(q) + i] = r[i]
      /\ q = <<>> <=> Len(q) = 0
      /\ r = <<>> <=> Len(r) = 0
      /\ s = <<>> <=> Len(s) = 0
  BY <1>1
<1> HIDE DEF s
<1>3. \A i \in 1 .. Len(s) : i \in 1 .. Len(q) \/ (i - Len(q) \in 1 .. Len(r) /\ s[i] = r[i - Len(q)])
  <2>1. SUFFICES ASSUME NEW i \in 1 .. Len(s), i \notin 1 .. Len(q)
                 PROVE  i - Len(q) \in 1 .. Len(r) /\ s[i] = r[i - Len(q)]
    OBVIOUS
  <2>2. i - Len(q) \in 1 .. Len(r) /\ Len(q) + (i - Len(q)) = i
    BY <1>2, <2>1
  <2>3. QED
    BY <1>2, <2>2
<1>4. ASSUME s # <<>> PROVE Change({}, s[1].fields) /\ s[Len(s)].fields = {}
  <2>1. CASE q = <<>>
    BY <1>1, <1>2, <1>4, <2>1 DEF Tidy
  <2>2. CASE q # <<>> /\ r = <<>>
    <3>1. s[1] = q[1] /\ s[Len(s)] = q[Len(q)]
      BY <1>2, <2>2
    <3>2. QED
      BY <1>1, <2>2, <3>1 DEF Tidy
  <2>3. CASE q # <<>> /\ r # <<>>
    <3>1. s[1] = q[1] /\ s[Len(s)] = r[Len(r)]
      BY <1>2, <2>3
    <3>2. QED
      BY <1>1, <2>3, <3>1 DEF Tidy
  <2>4. QED
    BY <2>1, <2>2, <2>3
<1>5. ASSUME NEW i \in 1 .. Len(s) - 1
      PROVE  Change(s[i].fields, s[i + 1].fields)
  <2>1. i \in 1 .. Len(s) /\ i + 1 \in 1 .. Len(s)
    BY <1>2
  <2>2. CASE i + 1 \in 1 .. Len(q)
    <3>1. i \in 1 .. Len(q) - 1 /\ i \in 1 .. Len(q)
      BY <1>2, <2>1, <2>2
    <3>2. s[i] = q[i] /\ s[i + 1] = q[i + 1]
      BY <1>2, <2>2, <3>1
    <3>3. QED
      BY <1>1, <3>1, <3>2 DEF Tidy
  <2>3. CASE i = Len(q)
    <3>1. i + 1 - Len(q) = 1 /\ s[i + 1] = r[1] /\ s[i] = q[Len(q)] /\ q # <<>> /\ r # <<>>
      BY <1>2, <2>1, <2>3
    <3>2. QED
      BY <1>1, <3>1 DEF Tidy
  <2>4. CASE i > Len(q)
    <3>1. /\ i - Len(q) \in 1 .. Len(r) - 1 /\ i + 1 - Len(q) = i - Len(q) + 1
          /\ i \notin 1 .. Len(q) /\ i + 1 \notin 1 .. Len(q)
      BY <1>2, <2>1, <2>4
    <3>2. s[i] = r[i - Len(q)] /\ s[i + 1] = r[i - Len(q) + 1]
      BY <1>3, <2>1, <3>1
    <3>3. QED
      BY <1>1, <3>1, <3>2 DEF Tidy
  <2>5. QED
    BY <1>2, <2>1, <2>2, <2>3, <2>4
<1>6. QED
  BY <1>2, <1>4, <1>5 DEF TidyQueues, Tidy, s

\* Text is typed key by key.
LEMMA TextTidy ==
  ASSUME NEW names, Len(names) \in Nat, NEW add_return
  PROVE  Text(names, add_return) \in TidyQueues
<1> DEFINE n == Len(names)
           Makes(f) == f = [k \in 0 .. n |-> IF k = 0 THEN <<>> ELSE f[k - 1] \o Strokes(names[k])]
           typed == CHOOSE f : Makes(f)
           next == [k \in 1 .. n |-> [q \in TidyQueues |-> q \o Strokes(names[k])]]
<1>1. <<>> \in TidyQueues
  BY DEF TidyQueues, Tidy
<1>2. \A k \in 1 .. n, q \in TidyQueues : q \o Strokes(names[k]) \in TidyQueues
  BY StrokesTidy, ConcatTidy
<1>3. next \in [1 .. n -> [TidyQueues -> TidyQueues]]
  BY <1>2
<1>4. PICK f \in [0 .. n -> TidyQueues] : f[0] = <<>> /\ \A k \in 1 .. n : f[k] = next[k][f[k - 1]]
  <2> HIDE DEF next
  <2>1. \E f : Iterates(f, TidyQueues, <<>>, n, next)
    BY <1>1, <1>3, IteratesExist
  <2>2. QED
    BY <2>1 DEF Iterates
<1>5. \A k \in 1 .. n : f[k - 1] \in TidyQueues
  <2>1. \A k \in 1 .. n : k - 1 \in 0 .. n
    OBVIOUS
  <2>2. QED
    BY <1>4, <2>1
<1>6. \A k \in 1 .. n : f[k] = f[k - 1] \o Strokes(names[k])
  BY <1>4, <1>5
<1>7. Makes(f)
  <2> HIDE DEF n
  <2>1. \A k \in 0 .. n : k # 0 => k \in 1 .. n
    OBVIOUS
  <2>2. \A k \in 0 .. n : f[k] = IF k = 0 THEN <<>> ELSE f[k - 1] \o Strokes(names[k])
    BY <1>4, <1>6, <2>1, Zenon
  <2>3. f = [k \in 0 .. n |-> f[k]]
    BY <1>4, Zenon
  <2>4. QED
    BY <2>2, <2>3, Zenon
<1>8. Makes(typed)
  <2> HIDE DEF Makes
  <2>1. QED
    BY <1>7
<1>9. Text(names, add_return) = typed[n] \o IF add_return THEN Strokes(Return) ELSE <<>>
  BY Zenon DEF Text
<1> HIDE DEF typed
<1>a. ASSUME NEW f1, Makes(f1), NEW j \in 0 .. n
      PROVE  f1[j] = IF j = 0 THEN <<>> ELSE f1[j - 1] \o Strokes(names[j])
  BY <1>a, Zenon
<1>b. \A j \in 0 .. n : typed[j] = IF j = 0 THEN <<>> ELSE typed[j - 1] \o Strokes(names[j])
  <2> HIDE DEF Makes, n
  <2>1. QED
    BY <1>8, <1>a
<1> DEFINE S == {k \in 0 .. n : typed[k] \in TidyQueues}
<1>10. 0 \in S
  <2>1. 0 \in 0 .. n
    OBVIOUS
  <2>2. typed[0] = <<>>
    BY <1>8, <2>1, Zenon
  <2>3. QED
    BY <1>1, <2>1, <2>2
<1>11. \A k \in 0 .. n - 1 : k \in S => k + 1 \in S
  <2>1. SUFFICES ASSUME NEW k \in 0 .. n - 1, typed[k] \in TidyQueues
                 PROVE  typed[k + 1] \in TidyQueues
    OBVIOUS
  <2> DEFINE j == k + 1
  <2>2. j \in 0 .. n /\ j # 0 /\ j - 1 = k /\ j \in 1 .. n
    OBVIOUS
  <2> HIDE DEF j, n, S
  <2>3. typed[j] = IF j = 0 THEN <<>> ELSE typed[j - 1] \o Strokes(names[j])
    BY <1>b, <2>2
  <2>4. typed[j] = typed[k] \o Strokes(names[j])
    BY <2>2, <2>3
  <2>5. typed[j] \in TidyQueues
    BY <1>2, <2>1, <2>2, <2>4
  <2>6. QED
    BY <2>5 DEF j
<1> HIDE DEF S
<1>12. n \in S
  <2>1. \A k \in 0 .. n : k \in S
    BY <1>10, <1>11, UpTo
  <2>2. QED
    BY <2>1
<1>13. typed[n] \in TidyQueues
  BY <1>12 DEF S
<1>14. CASE add_return
  BY <1>9, <1>13, <1>14, StrokesTidy, ConcatTidy
<1>15. CASE ~add_return
  <2>1. typed[n] \in Seq(Entries)
    BY <1>13 DEF TidyQueues
  <2>2. Text(names, add_return) = typed[n] \o <<>>
    BY <1>9, <1>15
  <2>3. QED
    BY <1>1, <1>13, <2>2, ConcatTidy
<1>16. QED
  BY <1>14, <1>15

\* Every command adds whole keys to the queue.
LEMMA TypedTidy ==
  ASSUME NEW c \in Command
  PROVE  Typed(c) \in TidyQueues
<1>1. Len(c.arg) \in Nat
  BY DEF Command
<1>2. <<>> \in TidyQueues
  BY DEF TidyQueues, Tidy
<1>3. CASE c.op \in {"TEXT", "TYPE"}
  BY <1>1, <1>3, TextTidy DEF Typed
<1>4. CASE c.op = "KEY"
  BY <1>4, StrokesTidy DEF Typed
<1>5. CASE c.op \notin {"TEXT", "TYPE", "KEY"}
  BY <1>2, <1>5 DEF Typed
<1>6. QED
  BY <1>3, <1>4, <1>5

------------------------------------------------------------------------------
(* Debugger points                                                           *)

BatchCommands == {"rpclear", "bpclear", "rpset", "bpset", "watch"}

\* f has what the commands leave of a set of points, one after the other.
PointSteps(f, set, commands, n) ==
  /\ f \in [0 .. n -> SUBSET Points]
  /\ f[0] = set
  /\ \A k \in 1 .. n : f[k] = After(f[k - 1], commands[k])

\* The commands of a batch work one after the other.
LEMMA AfterSteps ==
  ASSUME NEW set \in SUBSET Points, NEW commands, NEW n \in Nat, n = Len(commands),
         \A k \in 1 .. n : commands[k] \in BatchCommands
  PROVE  \E f : PointSteps(f, set, commands, n) /\ AfterAll(set, commands) = f[n]
<1> DEFINE Makes(f) == f = [k \in 0 .. n |-> IF k = 0 THEN set ELSE After(f[k - 1], commands[k])]
           after == CHOOSE f : Makes(f)
           next == [k \in 1 .. n |-> [p \in SUBSET Points |-> After(p, commands[k])]]
<1>1. \A k \in 1 .. n, p \in SUBSET Points : After(p, commands[k]) \in SUBSET Points
  BY DEF After, BatchCommands, Points
<1>2. next \in [1 .. n -> [SUBSET Points -> SUBSET Points]]
  BY <1>1
<1>3. PICK f \in [0 .. n -> SUBSET Points] : f[0] = set /\ \A k \in 1 .. n : f[k] = next[k][f[k - 1]]
  <2> HIDE DEF next
  <2>1. \E f : Iterates(f, SUBSET Points, set, n, next)
    BY <1>2, IteratesExist
  <2>2. QED
    BY <2>1 DEF Iterates
<1>4. \A k \in 1 .. n : f[k] = After(f[k - 1], commands[k])
  <2>1. \A k \in 1 .. n : k - 1 \in 0 .. n
    OBVIOUS
  <2>2. QED
    BY <1>3, <2>1
<1>5. Makes(f)
  <2>1. \A k \in 0 .. n : k # 0 => k \in 1 .. n
    OBVIOUS
  <2>2. \A k \in 0 .. n : f[k] = IF k = 0 THEN set ELSE After(f[k - 1], commands[k])
    BY <1>3, <1>4, <2>1, Zenon
  <2>3. f = [k \in 0 .. n |-> f[k]]
    BY <1>3, Zenon
  <2>4. QED
    BY <2>2, <2>3, Zenon
<1>6. Makes(after)
  <2> HIDE DEF Makes
  <2>1. QED
    BY <1>5
<1>7. AfterAll(set, commands) = after[n]
  BY Zenon DEF AfterAll
<1> HIDE DEF after
<1>8. after = [k \in 0 .. n |-> IF k = 0 THEN set ELSE After(after[k - 1], commands[k])]
  BY <1>6
<1>9. after[0] = set /\ \A k \in 1 .. n : after[k] = After(after[k - 1], commands[k])
  <2>1. 0 \in 0 .. n /\ \A k \in 1 .. n : k \in 0 .. n /\ k # 0
    OBVIOUS
  <2>2. after[0] = set
    BY <1>8, <2>1, Zenon
  <2>3. ASSUME NEW k \in 1 .. n PROVE after[k] = After(after[k - 1], commands[k])
    BY <1>8, <2>1, <2>3, Zenon
  <2>4. QED
    BY <2>2, <2>3
<1> HIDE DEF Makes
<1> DEFINE S == {k \in 0 .. n : after[k] \in SUBSET Points}
<1>10. 0 \in S
  BY <1>9
<1>11. \A k \in 0 .. n - 1 : k \in S => k + 1 \in S
  <2>1. SUFFICES ASSUME NEW k \in 0 .. n - 1, after[k] \in SUBSET Points
                 PROVE  after[k + 1] \in SUBSET Points
    OBVIOUS
  <2> DEFINE j == k + 1
  <2>2. j \in 1 .. n /\ j - 1 = k
    OBVIOUS
  <2> HIDE DEF j
  <2>3. after[j] \in SUBSET Points
    BY <1>1, <1>9, <2>1, <2>2
  <2>4. QED
    BY <2>3 DEF j
<1>12. \A k \in 0 .. n : k \in S
  <2> HIDE DEF S
  <2>1. QED
    BY <1>10, <1>11, UpTo
<1>13. after \in [0 .. n -> SUBSET Points]
  BY <1>8, <1>12, Zenon
<1>14. QED
  BY <1>7, <1>9, <1>13 DEF PointSteps

\* All debugger points asked for are set.
PointsIn(points) == /\ args.fixed => "rp" \in points
                    /\ args.stop  => "bp" \in points
                    /\ args.watch => "watch" \in points

\* A command at the end of a batch, or none
Longer(r, S, b, c, x) == /\ r \in Seq(S) /\ Len(r) = Len(b) + IF c THEN 1 ELSE 0
                         /\ \A i \in 1 .. Len(b) : r[i] = b[i]
                         /\ c => r[Len(b) + 1] = x

\* A command behind those of a batch, if its condition holds
LEMMA IfAppended ==
  ASSUME NEW S, NEW b \in Seq(S), NEW c \in BOOLEAN, NEW x \in S
  PROVE  Longer(b \o If(c, x), S, b, c, x)
<1>1. CASE c
  <2>1. If(c, x) = <<x>>
    BY <1>1 DEF If
  <2> DEFINE r == <<x>>
  <2>2. r \in Seq(S) /\ Len(r) = 1 /\ r[1] = x /\ Len(b) \in Nat
    OBVIOUS
  <2>8. r = <<x>>
    OBVIOUS
  <2> HIDE DEF r
  <2>3. /\ b \o r \in Seq(S) /\ Len(b \o r) = Len(b) + 1
        /\ \A i \in 1 .. Len(b) + 1 : (b \o r)[i] = IF i <= Len(b) THEN b[i] ELSE r[i - Len(b)]
    <3>1. /\ b \o r \in Seq(S) /\ Len(b \o r) = Len(b) + Len(r)
          /\ \A i \in 1 .. Len(b) + Len(r) : (b \o r)[i] = IF i <= Len(b) THEN b[i] ELSE r[i - Len(b)]
      BY <2>2, ConcatProperties, Zenon
    <3>2. QED
      BY <2>2, <3>1
  <2>4. Len(b) + 1 - Len(b) = 1 /\ ~(Len(b) + 1 <= Len(b))
        /\ \A i \in 1 .. Len(b) : i \in 1 .. Len(b) + 1 /\ i <= Len(b)
    BY <2>2
  <2>5. (b \o r)[Len(b) + 1] = x /\ \A i \in 1 .. Len(b) : (b \o r)[i] = b[i]
    BY <2>2, <2>3, <2>4
  <2>6. b \o If(c, x) = b \o r
    BY <2>1, <2>8
  <2>7. QED
    BY <1>1, <2>3, <2>5, <2>6 DEF Longer
<1>2. CASE ~c
  BY <1>2 DEF If, Longer
<1>3. QED
  BY <1>1, <1>2

\* A batch sets what it is to set, whatever there was.
LEMMA BatchSets ==
  ASSUME args \in Runs, NEW set \in SUBSET Points
  PROVE  /\ Batch \in Seq(BatchCommands)
         /\ Batch = <<>> => ~args.fixed /\ ~args.stop /\ ~args.watch
         /\ AfterAll(set, Batch) \in SUBSET Points
         /\ PointsIn(AfterAll(set, Batch))
<1>1. PICK fixed \in BOOLEAN, stop \in BOOLEAN, watch \in BOOLEAN :
        fixed = args.fixed /\ stop = args.stop /\ watch = args.watch
  BY RunsAssumption
<1> DEFINE n == Len(Batch)
           one   == If(stop, "bpclear") \o <<"rpclear">>
           two   == one \o If(fixed, "rpset")
           three == two \o If(stop, "bpset")
           four  == three \o If(watch, "watch")
<1>2. Batch = IF ~fixed /\ ~stop /\ ~watch THEN <<>> ELSE four
  BY <1>1 DEF Batch, NoPoints
<1>3. {"rpclear", "bpclear", "rpset", "bpset", "watch"} \subseteq BatchCommands
  BY DEF BatchCommands
<1>4. one \in Seq(BatchCommands) /\ Len(one) \in 1 .. 2
  <2> DEFINE r == <<"rpclear">>
  <2>1. r \in Seq(BatchCommands) /\ Len(r) = 1
    BY <1>3
  <2> HIDE DEF r
  <2>2. If(stop, "bpclear") \in Seq(BatchCommands) /\ Len(If(stop, "bpclear")) \in 0 .. 1
    BY <1>3 DEF If
  <2>3. PICK q \in Seq(BatchCommands) : q = If(stop, "bpclear") /\ Len(q) \in 0 .. 1
    BY <2>2
  <2>4. q \o r \in Seq(BatchCommands) /\ Len(q \o r) = Len(q) + 1
    <3>1. q \o r \in Seq(BatchCommands) /\ Len(q \o r) = Len(q) + Len(r)
      BY <2>1, ConcatProperties
    <3>2. QED
      BY <2>1, <3>1
  <2>5. one = q \o r
    BY <2>3 DEF r
  <2>6. QED
    BY <2>3, <2>4, <2>5
<1> HIDE DEF one
<1>5. /\ two \in Seq(BatchCommands) /\ Len(two) = Len(one) + IF fixed THEN 1 ELSE 0
      /\ fixed => two[Len(one) + 1] = "rpset"
  <2>1. two = one \o If(fixed, "rpset")
    OBVIOUS
  <2>2. "rpset" \in BatchCommands
    BY <1>3
  <2>3. one \in Seq(BatchCommands)
    BY <1>4
  <2>4. Longer(one \o If(fixed, "rpset"), BatchCommands, one, fixed, "rpset")
    BY <2>2, <2>3, IfAppended
  <2> HIDE DEF two
  <2>5. QED
    BY <2>1, <2>4 DEF Longer
<1> HIDE DEF two
<1>6. /\ three \in Seq(BatchCommands) /\ Len(three) = Len(two) + IF stop THEN 1 ELSE 0
      /\ \A i \in 1 .. Len(two) : three[i] = two[i]
      /\ stop => three[Len(two) + 1] = "bpset"
  <2>1. three = two \o If(stop, "bpset")
    OBVIOUS
  <2>2. "bpset" \in BatchCommands
    BY <1>3
  <2>3. two \in Seq(BatchCommands)
    BY <1>5
  <2>4. Longer(two \o If(stop, "bpset"), BatchCommands, two, stop, "bpset")
    BY <2>2, <2>3, IfAppended
  <2> HIDE DEF three
  <2>5. QED
    BY <2>1, <2>4 DEF Longer
<1> HIDE DEF three
<1>7. /\ four \in Seq(BatchCommands) /\ Len(four) = Len(three) + IF watch THEN 1 ELSE 0
      /\ \A i \in 1 .. Len(three) : four[i] = three[i]
      /\ watch => four[Len(three) + 1] = "watch"
  <2>1. four = three \o If(watch, "watch")
    OBVIOUS
  <2>2. "watch" \in BatchCommands
    BY <1>3
  <2>3. three \in Seq(BatchCommands)
    BY <1>6
  <2>4. Longer(three \o If(watch, "watch"), BatchCommands, three, watch, "watch")
    BY <2>2, <2>3, IfAppended
  <2> HIDE DEF four
  <2>5. QED
    BY <2>1, <2>4 DEF Longer
<1> HIDE DEF four
<1>8. /\ Batch \in Seq(BatchCommands)
      /\ n \in Nat /\ \A k \in 1 .. n : Batch[k] \in BatchCommands
  BY <1>2, <1>7
<1>9. PICK f : PointSteps(f, set, Batch, n) /\ AfterAll(set, Batch) = f[n]
  BY <1>8, AfterSteps
<1> USE DEF PointSteps
<1>10. AfterAll(set, Batch) \in SUBSET Points
  BY <1>8, <1>9
<1>11. CASE ~fixed /\ ~stop /\ ~watch
  BY <1>1, <1>8, <1>10, <1>11 DEF PointsIn
<1>12. CASE fixed \/ stop \/ watch
  <2>1. Batch = four
    BY <1>2, <1>12
  <2>2. /\ Len(one) \in Nat /\ Len(two) \in Nat /\ Len(three) \in Nat
        /\ n = Len(three) + IF watch THEN 1 ELSE 0
    <3>1. n = Len(four)
      BY <2>1
    <3> HIDE DEF n
    <3>3. Len(one) \in Nat /\ Len(two) \in Nat /\ Len(three) \in Nat
      BY <1>4, <1>5, <1>6, LenProperties
    <3>2. QED
      BY <1>7, <3>1, <3>3
  <2>3. watch => n \in 1 .. n /\ Batch[n] = "watch"
    BY <1>7, <2>1, <2>2
  <2>4. stop => /\ Len(three) \in 1 .. n /\ Batch[Len(three)] = "bpset"
    BY <1>6, <1>7, <2>1, <2>2
  <2>5. fixed => /\ Len(two) \in 1 .. n /\ Batch[Len(two)] = "rpset"
    <3>1. ASSUME fixed PROVE Len(two) \in 1 .. Len(three) /\ two[Len(two)] = "rpset"
      BY <1>5, <1>6, <2>2, <3>1
    <3>2. ASSUME fixed PROVE Len(two) \in 1 .. Len(two) /\ Len(two) \in 1 .. n
      BY <2>2, <3>1, <3>2
    <3>3. QED
      BY <1>6, <1>7, <2>1, <3>1, <3>2
  <2>6. \A s : /\ "rp" \in After(s, "rpset") /\ "bp" \in After(s, "bpset")
               /\ "watch" \in After(s, "watch")
               /\ "rp" \in s => "rp" \in After(s, "bpset") /\ "rp" \in After(s, "watch")
               /\ "bp" \in s => "bp" \in After(s, "watch")
    BY DEF After
  <2>7. watch => "watch" \in f[n] /\ f[n] = After(f[Len(three)], "watch")
    <3>1. watch => n - 1 = Len(three)
      BY <2>2
    <3>2. QED
      BY <1>9, <2>3, <2>6, <3>1
  <2>8. ~watch => n = Len(three)
    BY <2>2
  <2>9. stop => "bp" \in f[Len(three)] /\ f[Len(three)] = After(f[Len(two)], "bpset")
    <3>1. stop => Len(three) - 1 = Len(two)
      BY <1>6, <2>2
    <3>2. QED
      BY <1>9, <2>4, <2>6, <3>1
  <2>10. ~stop => Len(three) = Len(two)
    BY <1>6, <2>2
  <2>11. fixed => "rp" \in f[Len(two)]
    BY <1>9, <2>5, <2>6
  <2>12. fixed => "rp" \in f[Len(three)]
    BY <1>1, <2>6, <2>9, <2>10, <2>11
  <2>13. fixed => "rp" \in f[n]
    BY <1>1, <2>6, <2>7, <2>8, <2>12
  <2>14. stop => "bp" \in f[n]
    BY <1>1, <2>6, <2>7, <2>8, <2>9
  <2>15. Batch # <<>>
    <3>1. Len(one) # 0
      BY <1>4
    <3>2. Len(three) # 0
      <4>1. Len(two) # 0
        BY <1>5, <2>2, <3>1
      <4>2. PICK k \in Nat : k = Len(two)
        BY <2>2
      <4>3. PICK m \in Nat : m = Len(three)
        BY <2>2
      <4>4. m = k \/ m = k + 1
        BY <1>6, <4>2, <4>3
      <4>5. QED
        BY <4>1, <4>2, <4>3, <4>4
    <3>3. n # 0
      BY <2>2, <3>2
    <3>4. QED
      BY <3>3
  <2>16. QED
    BY <1>1, <1>8, <1>9, <1>10, <2>7, <2>13, <2>14, <2>15 DEF PointsIn
<1>13. QED
  BY <1>8, <1>11, <1>12

------------------------------------------------------------------------------
(* Types of driver, machine and wire                                         *)

Arguments == DOMAIN Layout \cup {"unknown", "rpset", "rpclear", "bpset", "bpclear", "watch"}

\* The parts of a command
Sendable(op, arg) == /\ op \in {"SNAP", "DBG", "KEY", "TEXT", "TYPE", "QUERY"}
                     /\ arg \in Seq(Arguments)
                     /\ op = "KEY" => Len(arg) = 1
                     /\ op = "DBG" => arg = Batch

\* A request takes the driver to recv, and its command is sent.
LEMMA RequestType ==
  ASSUME drv \in Drivers, NEW d, d \in Drivers, NEW op, NEW arg, Sendable(op, arg),
         NEW ret, ret \in Labels, Request(op, arg, ret, d)
  PROVE  /\ drv' \in Drivers /\ drv'.pc = "recv" /\ drv'.ret = ret
         /\ drv'.stage = d.stage /\ drv'.before = d.before /\ drv'.use = d.use
         /\ drv'.cached = d.cached
         /\ sent' \in Command /\ sent'.op = op /\ sent'.arg = arg /\ sent' # NoCmd
<1> DEFINE r == [op |-> op, arg |-> arg, id |-> drv.req.id + 1]
<1>1. drv.req \in Command
  BY DEF Drivers
<1>2. drv.req.id \in Nat
  BY <1>1 DEF Command
<1>3. r \in Command /\ r.op = op /\ r.arg = arg
  BY <1>2 DEF Command, Sendable, Arguments
<1>4. drv' = [d EXCEPT !.pc = "recv", !.ret = ret, !.answer = NoLine, !.shown = {}, !.req = r]
      /\ sent' = drv'.req
  BY DEF Request
<1>5. NoLine \in Line /\ "recv" \in Labels
  BY DEF NoLine, Line, Labels
<1>6. op # "none" /\ NoCmd.op = "none"
  BY DEF Sendable, NoCmd
<1> HIDE DEF r
<1>7. /\ drv' \in Drivers /\ drv'.pc = "recv" /\ drv'.ret = ret
      /\ drv'.stage = d.stage /\ drv'.before = d.before /\ drv'.use = d.use
      /\ drv'.cached = d.cached /\ drv'.req = r
  BY <1>3, <1>4, <1>5 DEF Drivers
<1>8. QED
  BY <1>3, <1>4, <1>6, <1>7

\* The driver as it starts, and as it fails
LEMMA StartType ==
  ASSUME args \in Runs
  PROVE  /\ DriverStart \in Drivers /\ [DriverStart EXCEPT !.pc = "terminate"] \in Drivers
         /\ DriverStart.stage = 1 /\ [DriverStart EXCEPT !.pc = "terminate"].stage = 1
         /\ DriverStart.pc = "start" /\ [DriverStart EXCEPT !.pc = "terminate"].pc = "terminate"
         /\ 1 \in 1 .. Len(Route)
<1>1. 1 \in 1 .. Len(Route)
  BY RouteFacts
<1>2. NoCmd \in Command
  <2>1. <<>> \in Seq(DOMAIN Layout \cup {"unknown", "rpset", "rpclear", "bpset", "bpclear",
                                         "watch"})
    OBVIOUS
  <2>2. QED
    BY <2>1 DEF NoCmd, Command
<1>3. NoLine \in Line /\ NoSnap \in Picture /\ 0 \in 0 .. MaxTries
  BY BoundsAssumption DEF NoLine, Line, NoSnap, Picture
<1>4. DriverStart \in Drivers /\ DriverStart.stage = 1 /\ DriverStart.pc = "start"
  BY <1>2, <1>3 DEF DriverStart, Drivers, Labels
<1>5. /\ [DriverStart EXCEPT !.pc = "terminate"] \in Drivers
      /\ [DriverStart EXCEPT !.pc = "terminate"].stage = 1
      /\ [DriverStart EXCEPT !.pc = "terminate"].pc = "terminate"
  BY <1>4 DEF Drivers, Labels
<1>6. QED
  BY <1>1, <1>4, <1>5

\* A failure keeps the types.
LEMMA FailType ==
  ASSUME TypeInv, args' = args, Fail \/ drv' = [DriverStart EXCEPT !.pc = "terminate"]
  PROVE  DrvType' /\ OneNew' /\ drv'.pc = "terminate" /\ drv'.stage = 1
<1>1. args \in Runs /\ drv' = [DriverStart EXCEPT !.pc = "terminate"]
  BY DEF TypeInv, Fail
<1>2. drv' \in Drivers /\ drv'.pc = "terminate" /\ drv'.stage = 1 /\ 1 \in 1 .. Len(Route)
  BY <1>1, StartType
<1>3. Len(Route)' = Len(Route)
  BY DEF Route
<1>4. QED
  BY <1>2, <1>3 DEF DrvType, OneNew, SetOut, At

\* The machine: what the driver does not touch keeps its type.
LEMMA SameMachine ==
  ASSUME TypeInv, UNCHANGED <<args, emu, queue, step, snaps>>
  PROVE  /\ EmuType' /\ QueueType' /\ (args \in Runs)' /\ (snaps \in [Indices -> Picture])'
         /\ Route' = Route /\ Batch' = Batch
  BY DEF TypeInv, EmuType, QueueType, Route, Batch, NoPoints

\* The types hold when the driver starts.
LEMMA TypeInit == Init => TypeInv
<1> SUFFICES ASSUME Init PROVE TypeInv
  OBVIOUS
<1>1. args \in Runs /\ drv = DriverStart /\ sent = NoCmd /\ lines = <<>> /\ queue = <<>> /\ step = NoStep
  BY DEF Init, BridgeInit
<1>2. PICK left \in Leftovers : snaps = left.snaps /\ emu = MameStart(left.nvram, left.sockfile)
  BY DEF Init
<1>3. DrvType /\ OneNew
  BY <1>1, StartType DEF DrvType, OneNew, At
<1>4. EmuType /\ snaps \in [Indices -> Picture]
  <2>1. /\ left.snaps \in [Indices -> Picture] /\ left.nvram \in {"empty", "prepared"}
        /\ left.sockfile \in {"none", "stale", "bound"}
    BY LeftoversAssumption
  <2>2. Len(Route) \in Nat
    BY <1>1, RouteFacts
  <2>3. /\ emu = [proc |-> "none", signal |-> "none", window |-> FALSE, nvram |-> left.nvram,
                  screen |-> "booting", drawing |-> "none", lcd |-> Blank,
                  sockfile |-> left.sockfile, points |-> {}, keys |-> 0, misfired |-> FALSE]
    BY <1>2 DEF MameStart
  <2>4. emu \in Mames /\ emu.keys = 0
    BY <2>1, <2>3 DEF Mames, Points, Screens
  <2>5. QED
    BY <1>2, <2>1, <2>2, <2>4 DEF EmuType
<1>5. WireType
  <2>1. <<>> \in Seq(Line) /\ <<>> \in Seq(DOMAIN Layout \cup {"unknown", "rpset", "rpclear",
                                                               "bpset", "bpclear", "watch"})
    OBVIOUS
  <2>2. NoCmd \in Command /\ NoCmd.op = "none"
    BY <2>1 DEF NoCmd, Command
  <2>3. QED
    BY <1>1, <2>1, <2>2 DEF WireType
<1>6. QueueType
  BY <1>1 DEF QueueType, NoStep, Entry
<1>7. QED
  BY <1>1, <1>3, <1>4, <1>5, <1>6 DEF TypeInv

\* Arguments, launch and connection
LEMMA TypeStart ==
  ASSUME TypeInv, Start
  PROVE  TypeInv'
<1> USE DEF TypeInv
<1>1. /\ args' = args /\ sent' = sent /\ lines' = lines /\ queue' = queue /\ step' = step
      /\ Route' = Route /\ Batch' = Batch
  BY Zenon DEF Start, BadArguments, BadPoints, Launch, FindWindow, Connect, ConnectRefused,
               ConnectFails, Route, Batch, NoPoints
<1>2. WireType' /\ QueueType' /\ (args \in Runs)'
  BY <1>1 DEF WireType, QueueType
<1>3. /\ CleanMame \in Mames /\ CleanMame.keys = emu.keys
      /\ [CleanMame EXCEPT !.proc = "running"] \in Mames
      /\ [CleanMame EXCEPT !.proc = "running"].keys = emu.keys
  <2>1. CleanMame \in Mames /\ CleanMame.keys = emu.keys
    BY DEF EmuType, CleanMame, Mames
  <2>2. QED
    BY <2>1 DEF Mames
<1>4. CleanSnaps \in [Indices -> Picture]
  BY DEF CleanSnaps, NoSnap, Picture
<1>5. CASE BadArguments \/ BadPoints \/ Launch
  <2>1. /\ drv.pc = "start" /\ \E p \in {"ended", "window"} : drv' = [drv EXCEPT !.pc = p]
        /\ emu' \in {emu, CleanMame, [CleanMame EXCEPT !.proc = "running"]}
        /\ snaps' \in {snaps, CleanSnaps}
    BY <1>5 DEF BadArguments, BadPoints, Launch, Goto
  <2>2. drv' \in Drivers /\ drv'.stage = drv.stage /\ drv'.pc \in {"ended", "window"}
    BY <2>1 DEF DrvType, Drivers, Labels
  <2>3. DrvType' /\ OneNew'
    BY <1>1, <2>1, <2>2 DEF DrvType, OneNew, SetOut, At
  <2>4. EmuType' /\ (snaps \in [Indices -> Picture])'
    BY <1>1, <1>3, <1>4, <2>1 DEF EmuType
  <2>5. QED
    BY <1>2, <2>3, <2>4
<1>6. CASE FindWindow \/ Connect \/ ConnectRefused
  <2>1. /\ drv.pc \in {"window", "connect"} /\ UNCHANGED <<emu, snaps>>
        /\ \/ Fail
           \/ drv' = [drv EXCEPT !.pc = "connect"]
           \/ drv' = [drv EXCEPT !.pc = "look", !.tries = 0]
           \/ drv.tries < MaxTries /\ drv' = [drv EXCEPT !.tries = @ + 1]
    BY <1>6 DEF FindWindow, Connect, ConnectRefused, Goto
  <2>2. CASE Fail
    BY <1>1, <1>2, <2>1, <2>2, FailType DEF EmuType
  <2>3. CASE ~Fail
    <3>1. /\ drv' \in Drivers /\ drv'.stage = drv.stage
          /\ drv'.pc \in {"connect", "look", "window"}
      <4>1. drv \in Drivers /\ MaxTries \in Nat
        BY BoundsAssumption DEF DrvType
      <4>2. CASE drv' = [drv EXCEPT !.pc = "connect"]
        BY <4>1, <4>2 DEF Drivers, Labels
      <4>3. CASE drv' = [drv EXCEPT !.pc = "look", !.tries = 0]
        <5>1. 0 \in 0 .. MaxTries
          BY <4>1
        <5>2. QED
          BY <4>1, <4>3, <5>1 DEF Drivers, Labels
      <4>4. CASE drv.tries < MaxTries /\ drv' = [drv EXCEPT !.tries = @ + 1]
        <5>1. drv.tries + 1 \in 0 .. MaxTries
          BY <4>1, <4>4 DEF Drivers
        <5>2. PICK t \in 0 .. MaxTries : t = drv.tries + 1
          BY <5>1
        <5>3. drv' = [drv EXCEPT !.tries = t]
          BY <4>4, <5>2
        <5>4. QED
          BY <2>1, <4>1, <5>3 DEF Drivers
      <4>5. QED
        BY <2>1, <2>3, <4>2, <4>3, <4>4
    <3>2. DrvType' /\ OneNew'
      BY <1>1, <2>1, <3>1 DEF DrvType, OneNew, SetOut, At
    <3>3. QED
      BY <1>1, <1>2, <2>1, <3>2 DEF EmuType
  <2>4. QED
    BY <2>2, <2>3
<1>7. CASE ConnectFails
  BY <1>1, <1>2, <1>7, FailType DEF ConnectFails, EmuType
<1>8. QED
  BY <1>5, <1>6, <1>7 DEF Start

\* A request leaves the wire with its command.
LEMMA TypeRequest ==
  ASSUME TypeInv, UNCHANGED <<args, emu, lines, snaps, queue, step>>,
         NEW d, d \in Drivers, d.stage \in 1 .. Len(Route), NEW op, NEW arg, Sendable(op, arg),
         NEW ret, ret \in Labels \ {"start", "window", "connect"}, Request(op, arg, ret, d),
         ret = "poll" => d.before = Present
  PROVE  TypeInv'
<1>1. /\ drv' \in Drivers /\ drv'.pc = "recv" /\ drv'.ret = ret
      /\ drv'.stage = d.stage /\ drv'.before = d.before
      /\ sent' \in Command /\ sent'.op = op /\ sent'.arg = arg
  BY RequestType DEF TypeInv, DrvType
<1>2. /\ EmuType' /\ QueueType' /\ (args \in Runs)' /\ (snaps \in [Indices -> Picture])'
      /\ Route' = Route /\ Batch' = Batch
  BY SameMachine
<1>3. DrvType'
  BY <1>1, <1>2 DEF DrvType, SetOut
<1>4. WireType'
  BY <1>1, <1>2 DEF TypeInv, WireType, Sendable
<1>5. OneNew'
  <2>1. CASE ret = "poll"
    <3>1. Created' = {}
      BY <1>1, <2>1 DEF Created, Present
    <3>2. QED
      BY <3>1 DEF OneNew
  <2>2. CASE ret # "poll"
    BY <1>1, <2>2 DEF OneNew, At
  <2>3. QED
    BY <2>1, <2>2
<1>6. QED
  BY <1>2, <1>3, <1>4, <1>5 DEF TypeInv

\* The driver moves on its own.
LEMMA TypeBetween ==
  ASSUME TypeInv, UNCHANGED <<args, emu, sent, snaps, queue, step>>, lines' \in Seq(Line),
         drv' \in Drivers, drv'.stage = drv.stage, ~SetOut', ~(At("poll")')
  PROVE  TypeInv'
<1>1. /\ EmuType' /\ QueueType' /\ (args \in Runs)' /\ (snaps \in [Indices -> Picture])'
      /\ Route' = Route /\ Batch' = Batch
  BY SameMachine
<1>2. DrvType' /\ OneNew' /\ WireType'
  BY <1>1 DEF TypeInv, DrvType, OneNew, WireType
<1>3. QED
  BY <1>1, <1>2 DEF TypeInv

\* An exception drops all that the driver held.
LEMMA TypeFail ==
  ASSUME TypeInv, UNCHANGED <<args, emu, sent, snaps, queue, step>>, lines' \in Seq(Line),
         Fail \/ drv' = [DriverStart EXCEPT !.pc = "terminate"]
  PROVE  TypeInv'
<1>1. /\ EmuType' /\ QueueType' /\ (args \in Runs)' /\ (snaps \in [Indices -> Picture])'
      /\ Route' = Route /\ Batch' = Batch
  BY SameMachine
<1>2. DrvType' /\ OneNew'
  BY FailType
<1>3. WireType'
  BY <1>1 DEF TypeInv, WireType
<1>4. QED
  BY <1>1, <1>2, <1>3 DEF TypeInv

\* The picture the driver looks at is one of the numbers.
LEMMA NewestIsOne ==
  ASSUME OneNew, At("poll"), Created # {}
  PROVE  /\ Newest \in Created /\ Created = {Newest}
<1>1. PICK n : Created \subseteq {n}
  BY DEF OneNew
<1>2. Created = {n}
  BY <1>1
<1>3. Created \subseteq Indices
  BY DEF Created, Present
<1>4. n \in Nat
  BY <1>2, <1>3, BoundsAssumption
<1>5. n \in Created /\ \A m \in Created : m <= n
  BY <1>2, <1>4
<1>6. Newest \in Created
  BY <1>5 DEF Newest
<1>7. QED
  BY <1>2, <1>6

\* Responses, pictures, debugger setup and menu keys
LEMMA TypeDriving ==
  ASSUME TypeInv, Wire, Driving
  PROVE  TypeInv'
<1>1. drv \in Drivers /\ drv.stage \in 1 .. Len(Route) /\ lines \in Seq(Line) /\ args \in Runs
      /\ snaps \in [Indices -> Picture]
  BY DEF TypeInv, DrvType, WireType
<1>2. CASE Receive
  <2>1. /\ drv.pc = "recv" /\ lines # <<>> /\ UNCHANGED <<args, emu, sent, snaps, queue, step>>
        /\ \/ drv' = [drv EXCEPT !.pc = drv.ret, !.answer = Head(lines)]
           \/ Fail
    BY <1>2 DEF Receive
  <2>2. PICK n \in 1 .. Len(lines) : lines' = SubSeq(lines, n + 1, Len(lines))
    BY <1>2 DEF Receive
  <2>3. lines' \in Seq(Line)
    <3>1. n + 1 \in Int /\ Len(lines) \in Int /\ \A i \in n + 1 .. Len(lines) : lines[i] \in Line
      BY <1>1
    <3>2. QED
      BY <2>2, <3>1, SubSeqProperties
  <2>4. CASE Fail
    BY <2>1, <2>3, <2>4, TypeFail
  <2>5. CASE drv' = [drv EXCEPT !.pc = drv.ret, !.answer = Head(lines)]
    <3>1. Head(lines) \in Line
      BY <1>1, <2>1
    <3>2. PICK a \in Line : a = Head(lines)
      BY <3>1
    <3>3. drv' = [drv EXCEPT !.pc = drv.ret, !.answer = a]
      BY <2>5, <3>2
    <3>4. /\ drv' \in Drivers /\ drv'.stage = drv.stage /\ drv'.pc = drv.ret /\ drv'.ret = drv.ret
          /\ drv'.before = drv.before
      BY <1>1, <3>3 DEF Drivers
    <3>5. drv.ret \in {"look", "poll", "press", "loop"}
      BY <2>1 DEF Wire
    <3>6. EmuType' /\ QueueType' /\ Route' = Route /\ Batch' = Batch
      BY <2>1, SameMachine
    <3>7. DrvType' /\ WireType'
      BY <2>1, <2>3, <3>4, <3>5, <3>6 DEF TypeInv, DrvType, WireType, SetOut
    <3>8. OneNew'
      <4>1. Created' = Created /\ (At("poll")' => At("poll"))
        BY <2>1, <3>4, <3>5 DEF Created, Present, At
      <4>2. QED
        BY <2>1, <4>1 DEF TypeInv, OneNew
    <3>9. QED
      BY <1>1, <2>1, <3>6, <3>7, <3>8 DEF TypeInv
  <2>6. QED
    BY <2>1, <2>4, <2>5
<1>3. CASE ReceiveFails \/ PollFails
  BY <1>1, <1>3, TypeFail DEF ReceiveFails, PollFails
<1>4. CASE Look
  <2>1. /\ drv.pc = "look" /\ UNCHANGED <<args, emu, lines, snaps, queue, step>>
        /\ Request("SNAP", <<>>, "poll", [drv EXCEPT !.before = Present, !.use = "signpost"])
    BY <1>4 DEF Look, Snap
  <2>2. PICK d : d = [drv EXCEPT !.before = Present, !.use = "signpost"]
    OBVIOUS
  <2>3. Present \in SUBSET Indices
    BY DEF Present
  <2>4. d \in Drivers /\ d.stage = drv.stage /\ d.before = Present
    BY <1>1, <2>2, <2>3 DEF Drivers
  <2>5. Sendable("SNAP", <<>>) /\ "poll" \in Labels
    <3>1. <<>> \in Seq(Arguments)
      OBVIOUS
    <3>2. QED
      BY <3>1 DEF Sendable, Labels
  <2>6. Request("SNAP", <<>>, "poll", d)
    BY <2>1, <2>2
  <2>7. d.stage \in 1 .. Len(Route) /\ "poll" \in Labels \ {"start", "window", "connect"}
    BY <1>1, <2>4, <2>5
  <2>8. QED
    BY <2>1, <2>4, <2>5, <2>6, <2>7, TypeRequest
<1>5. CASE SignpostSeen
  <2>1. /\ UNCHANGED <<args, emu, sent, lines, snaps, queue, step>>
        /\ drv' = [drv EXCEPT !.pc = IF drv.stage = 1 THEN "debug" ELSE "press",
                              !.before = {}, !.answer = NoLine]
    BY <1>5 DEF SignpostSeen
  <2>2. NoLine \in Line
    BY DEF NoLine, Line
  <2>3. drv' \in Drivers /\ drv'.stage = drv.stage /\ drv'.pc \in {"debug", "press"}
    BY <1>1, <2>1, <2>2 DEF Drivers, Labels
  <2>4. QED
    BY <1>1, <2>1, <2>3, TypeBetween DEF SetOut, At
<1>6. CASE SignpostNotYet
  <2>1. /\ UNCHANGED <<args, emu, sent, lines, snaps, queue, step>>
        /\ \/ drv.tries < MaxTries /\ drv' = [drv EXCEPT !.tries = @ + 1, !.pc = "look"]
           \/ Fail
    BY <1>6 DEF SignpostNotYet
  <2>2. CASE Fail
    BY <1>1, <2>1, <2>2, TypeFail
  <2>3. CASE drv.tries < MaxTries /\ drv' = [drv EXCEPT !.tries = @ + 1, !.pc = "look"]
    <3>1. drv.tries + 1 \in 0 .. MaxTries
      BY <1>1, <2>3, BoundsAssumption DEF Drivers
    <3>2. PICK t \in 0 .. MaxTries : t = drv.tries + 1
      BY <3>1
    <3>3. drv' = [drv EXCEPT !.tries = t, !.pc = "look"]
      BY <2>3, <3>2
    <3>4. drv' \in Drivers /\ drv'.stage = drv.stage /\ drv'.pc = "look"
      BY <1>1, <3>3 DEF Drivers, Labels
    <3>5. QED
      BY <1>1, <2>1, <3>4, TypeBetween DEF SetOut, At
  <2>4. QED
    BY <2>1, <2>2, <2>3
<1>7. CASE InstallDebug
  <2>1. UNCHANGED <<args, emu, lines, snaps, queue, step>> /\ Request("DBG", Batch, "press", drv)
    BY <1>7 DEF InstallDebug
  <2>2. Batch \in Seq(Arguments)
    <3>1. Batch \in Seq(BatchCommands)
      <4>1. {} \in SUBSET Points
        OBVIOUS
      <4>2. QED
        BY <1>1, <4>1, BatchSets
    <3>2. BatchCommands \subseteq Arguments
      BY DEF BatchCommands, Arguments
    <3>3. QED
      BY <3>1, <3>2
  <2>3. Sendable("DBG", Batch) /\ "press" \in Labels
    BY <2>2 DEF Sendable, Labels
  <2>4. QED
    BY <1>1, <2>1, <2>3, TypeRequest
<1>8. CASE NoDebug
  <2>1. /\ UNCHANGED <<args, emu, sent, lines, snaps, queue, step>>
        /\ drv' = [drv EXCEPT !.pc = "press"]
    BY <1>8 DEF NoDebug, Goto
  <2>2. drv' \in Drivers /\ drv'.stage = drv.stage /\ drv'.pc = "press"
    BY <1>1, <2>1 DEF Drivers, Labels
  <2>3. QED
    BY <1>1, <2>1, <2>2, TypeBetween DEF SetOut, At
<1>9. CASE PressMenuKey
  <2>1. UNCHANGED <<args, emu, lines, snaps, queue, step>>
    BY <1>9 DEF PressMenuKey
  <2>2. PICK key : key = <<Route[drv.stage].key>>
    OBVIOUS
  <2>3. PICK d : d = [drv EXCEPT !.stage = @ + 1, !.tries = 0]
    OBVIOUS
  <2>4. \/ Request("KEY", key, "loop", drv)
        \/ drv.stage # Len(Route) /\ Request("KEY", key, "look", d)
    BY <1>9, <2>2, <2>3 DEF PressMenuKey
  <2>5. Sendable("KEY", key)
    <3>1. Route[drv.stage].key \in {"Page_Down", "6", "4", "Enter"}
      BY <1>1, RouteFacts
    <3>2. Route[drv.stage].key \in Arguments
      BY <3>1, MenuKeysAssumption DEF Arguments
    <3>3. key \in Seq(Arguments) /\ Len(key) = 1
      BY <2>2, <3>2
    <3>4. QED
      BY <3>3 DEF Sendable
  <2>6. /\ drv.stage + 1 \in Nat /\ 0 \in 0 .. MaxTries
        /\ drv.stage # Len(Route) => drv.stage + 1 \in 1 .. Len(Route)
    <3>1. Len(Route) \in Nat
      BY <1>1, RouteFacts
    <3>2. QED
      BY <1>1, <3>1, BoundsAssumption
  <2>7. d \in Drivers /\ d.stage = drv.stage + 1
    BY <1>1, <2>3, <2>6 DEF Drivers
  <2>8. "loop" \in Labels /\ "look" \in Labels
    BY DEF Labels
  <2>9. CASE Request("KEY", key, "loop", drv)
    BY <1>1, <2>1, <2>5, <2>8, <2>9, TypeRequest
  <2>10. CASE drv.stage # Len(Route) /\ Request("KEY", key, "look", d)
    BY <2>1, <2>5, <2>6, <2>7, <2>8, <2>10, TypeRequest
  <2>11. QED
    BY <2>4, <2>9, <2>10
<1>10. CASE SnapShown
  <2> DEFINE new == snaps[Newest].rows
  <2>1. /\ drv.pc = "poll" /\ Created # {} /\ UNCHANGED <<args, emu, sent, lines, snaps, queue, step>>
    BY <1>10 DEF SnapShown
  <2>2. Newest \in Indices /\ snaps[Newest] \in Picture
    <3>1. Newest \in Created
      BY <2>1, NewestIsOne DEF TypeInv, At
    <3>2. Newest \in Indices
      BY <3>1 DEF Created, Present
    <3>3. QED
      BY <1>1, <3>2
  <2>3. DOMAIN new \subseteq Nat
    <3>1. new \in Rows \cup {Blank, <<>>}
      BY <2>2 DEF Picture
    <3>2. CASE new = <<>>
      BY <3>2
    <3>3. CASE new \in Rows \cup {Blank}
      <4>1. DOMAIN new = 1 .. Len(new)
        BY <3>3, RowsAssumption
      <4>2. QED
        BY <4>1
    <3>4. QED
      BY <3>1, <3>2, <3>3
  <2>4. ChangedLines(drv.cached.rows, new) \in SUBSET Nat
    BY <2>3 DEF ChangedLines
  <2>5. SliceLines(new) \subseteq SUBSET Nat
    BY <2>3 DEF SliceLines
  <2>6. PICK shown \in SUBSET Nat :
          drv' = [drv EXCEPT !.pc = "loop", !.before = {}, !.answer = NoLine, !.shown = shown,
                             !.cached = snaps[Newest]]
    <3> HIDE DEF new
    <3>1. drv.use \in {"quiet", "changed", "all", "range"}
      BY <1>10 DEF SnapShown
    <3>2. \E shown \in CASE drv.use = "quiet"   -> {{}}
                         [] drv.use = "changed" -> {IF drv.cached = NoSnap THEN DOMAIN new
                                                    ELSE ChangedLines(drv.cached.rows, new)}
                         [] drv.use = "all"     -> {DOMAIN new}
                         [] drv.use = "range"   -> SliceLines(new) :
            drv' = [drv EXCEPT !.pc = "loop", !.before = {}, !.answer = NoLine, !.shown = shown,
                               !.cached = snaps[Newest]]
      BY <1>10, Zenon DEF SnapShown, new
    <3>3. (CASE drv.use = "quiet"   -> {{}}
             [] drv.use = "changed" -> {IF drv.cached = NoSnap THEN DOMAIN new
                                        ELSE ChangedLines(drv.cached.rows, new)}
             [] drv.use = "all"     -> {DOMAIN new}
             [] drv.use = "range"   -> SliceLines(new)) \subseteq SUBSET Nat
      BY <2>3, <2>4, <2>5, <3>1
    <3>4. QED
      BY <3>2, <3>3
  <2>7. NoLine \in Line
    BY DEF NoLine, Line
  <2>8. PICK picture \in Picture : picture = snaps[Newest]
    BY <2>2
  <2>9. drv' = [drv EXCEPT !.pc = "loop", !.before = {}, !.answer = NoLine, !.shown = shown,
                           !.cached = picture]
    BY <2>6, <2>8
  <2>10. drv' \in Drivers /\ drv'.stage = drv.stage /\ drv'.pc = "loop"
    BY <1>1, <2>7, <2>9 DEF Drivers, Labels
  <2>11. QED
    BY <1>1, <2>1, <2>10, TypeBetween DEF SetOut, At
<1>11. QED
  BY <1>2, <1>3, <1>4, <1>5, <1>6, <1>7, <1>8, <1>9, <1>10 DEF Driving

\* Commands of the user
LEMMA TypeUser ==
  ASSUME TypeInv, User
  PROVE  TypeInv'
<1>1. drv \in Drivers /\ drv.stage \in 1 .. Len(Route) /\ lines \in Seq(Line) /\ args \in Runs
  BY DEF TypeInv, DrvType, WireType
<1>2. drv.commands + 1 \in Nat
  BY <1>1 DEF Drivers
<1>3. PICK commands \in Nat : commands = drv.commands + 1
  BY <1>2
<1>4. CASE UserTypes
  <2>1. UNCHANGED <<args, emu, lines, snaps, queue, step>>
    BY <1>4 DEF UserTypes
  <2>2. PICK d : d = [drv EXCEPT !.commands = commands]
    OBVIOUS
  <2>3. d \in Drivers /\ d.stage = drv.stage
    BY <1>1, <2>2 DEF Drivers
  <2>4. PICK c \in Typing : Request(c.op, c.arg, "loop", d)
    BY <1>3, <1>4, <2>2 DEF UserTypes
  <2>5. Sendable(c.op, c.arg)
    <3>1. /\ c.op \in {"KEY", "TEXT", "TYPE", "QUERY"}
          /\ c.arg \in Seq(DOMAIN Layout \cup {"unknown"}) /\ (c.op = "KEY" => Len(c.arg) = 1)
      BY TypingAssumption
    <3>2. DOMAIN Layout \cup {"unknown"} \subseteq Arguments
      BY DEF Arguments
    <3>3. c.arg \in Seq(Arguments)
      BY <3>1, <3>2
    <3>4. QED
      BY <3>1, <3>3 DEF Sendable
  <2>6. "loop" \in Labels \ {"start", "window", "connect"} /\ "loop" # "poll"
    BY DEF Labels
  <2>7. QED
    BY <1>1, <2>1, <2>3, <2>4, <2>5, <2>6, TypeRequest
<1>5. CASE UserSnaps
  <2>1. UNCHANGED <<args, emu, lines, snaps, queue, step>>
    BY <1>5 DEF UserSnaps
  <2>2. PICK use \in {"quiet", "changed", "all", "range"} :
          Request("SNAP", <<>>, "poll", [drv EXCEPT !.before = Present, !.use = use,
                                                    !.commands = commands])
    BY <1>3, <1>5 DEF UserSnaps
  <2>3. PICK d : d = [drv EXCEPT !.before = Present, !.use = use, !.commands = commands]
    OBVIOUS
  <2>4. Request("SNAP", <<>>, "poll", d)
    BY <2>2, <2>3
  <2>5. Present \in SUBSET Indices
    BY DEF Present
  <2>6. d \in Drivers /\ d.stage = drv.stage /\ d.before = Present
    BY <1>1, <2>3, <2>5 DEF Drivers
  <2>7. Sendable("SNAP", <<>>) /\ "poll" \in Labels \ {"start", "window", "connect"}
    <3>1. <<>> \in Seq(Arguments)
      OBVIOUS
    <3>2. QED
      BY <3>1 DEF Sendable, Labels
  <2>8. QED
    BY <1>1, <2>1, <2>4, <2>6, <2>7, TypeRequest
<1>6. CASE Quit
  BY <1>1, <1>6, TypeFail DEF Quit
<1>7. CASE Interrupt
  <2>1. UNCHANGED <<args, emu, sent, lines, snaps, queue, step>>
        /\ (Fail \/ (drv.pc \in Labels /\ drv' = [drv EXCEPT !.pc = "interrupted"]))
    BY <1>7 DEF Interrupt, Goto, Labels
  <2>2. CASE Fail
    BY <1>1, <2>1, <2>2, TypeFail
  <2>3. CASE drv' = [drv EXCEPT !.pc = "interrupted"]
    <3>1. drv \in Drivers
      BY DEF TypeInv, DrvType
    <3>2. drv' \in Drivers /\ drv'.stage = drv.stage /\ drv'.pc = "interrupted"
      BY <2>3, <3>1 DEF Drivers, Labels
    <3>3. Route' = Route /\ Batch' = Batch
      BY <2>1 DEF Route, Batch, NoPoints
    <3>4. DrvType' /\ OneNew'
      BY <2>1, <3>2, <3>3 DEF TypeInv, DrvType, OneNew, SetOut, At
    <3>5. EmuType' /\ WireType' /\ QueueType'
      BY <2>1, <3>2, <3>3 DEF TypeInv, EmuType, WireType, QueueType
    <3>6. QED
      BY <2>1, <3>4, <3>5 DEF TypeInv
  <2>4. QED
    BY <2>1, <2>2, <2>3
<1>8. QED
  BY <1>4, <1>5, <1>6, <1>7 DEF User

\* The end
LEMMA TypeFinally ==
  ASSUME TypeInv, Finally
  PROVE  TypeInv'
<1>1. drv \in Drivers /\ emu \in Mames
  BY DEF TypeInv, DrvType, EmuType
<1>2. /\ drv.pc \in {"terminate", "wait", "killed"}
      /\ UNCHANGED <<args, sent, lines, snaps, queue, step>>
      /\ \E p \in {"wait", "killed", "ended", "unreaped"} : drv' = [drv EXCEPT !.pc = p]
      /\ \/ emu' = emu
         \/ \E s \in {"term", "kill"} : emu' = [emu EXCEPT !.signal = s]
  BY DEF Finally, Terminate, WaitTimesOut, KillTimesOut, Reaped, Goto
<1>3. drv' \in Drivers /\ drv'.stage = drv.stage /\ drv'.pc \in {"wait", "killed", "ended", "unreaped"}
  BY <1>1, <1>2 DEF Drivers, Labels
<1>4. emu' \in Mames /\ emu'.keys = emu.keys
  BY <1>1, <1>2 DEF Mames
<1>5. Route' = Route /\ Batch' = Batch
  BY <1>2 DEF Route, Batch, NoPoints
<1>6. DrvType' /\ OneNew'
  BY <1>2, <1>3, <1>5 DEF TypeInv, DrvType, OneNew, SetOut, At
<1>7. EmuType' /\ WireType' /\ QueueType'
  BY <1>2, <1>4, <1>5 DEF TypeInv, EmuType, WireType, QueueType
<1>8. QED
  BY <1>2, <1>6, <1>7 DEF TypeInv

\* What the firmware does with a key: drawing, keys and misfired
LEMMA FirmwareType ==
  ASSUME args \in Runs, NEW e \in Mames, e.keys <= Len(Route)
  PROVE  /\ Firmware(e) \in Mames /\ Firmware(e).keys <= Len(Route)
         /\ Firmware(e).proc = e.proc /\ Firmware(e).points = e.points
         /\ Firmware(e).screen = e.screen /\ Firmware(e).sockfile = e.sockfile
<1> DEFINE hits == {m \in MenuKeys : Layout[m[2]].key \in Down}
           good == {m \in hits : m[1] = e.screen /\ e.drawing = "none"}
           driven == Down # {} /\ e.keys < Len(Route)
           drawing == IF good = {} THEN e.drawing ELSE (CHOOSE m \in good : TRUE)[3]
           keys == IF driven THEN e.keys + 1 ELSE e.keys
           misfired == e.misfired \/ (driven /\ good = {})
<1>1. Firmware(e) = [e EXCEPT !.drawing = drawing, !.keys = keys, !.misfired = misfired]
  BY DEF Firmware
<1>2. drawing \in {"none"} \cup Screens
  <2>1. CASE good = {}
    BY <2>1 DEF Mames
  <2>2. CASE good # {}
    <3>1. (CHOOSE m \in good : TRUE) \in MenuKeys
      BY <2>2
    <3>2. \A m \in MenuKeys : m[3] \in Screens
      BY DEF MenuKeys, Screens
    <3>3. QED
      BY <2>2, <3>1, <3>2
  <2>3. QED
    BY <2>1, <2>2
<1>3. keys \in Nat /\ keys <= Len(Route)
  <2>1. e.keys \in Nat /\ Len(Route) \in Nat
    BY RouteFacts DEF Mames
  <2>2. QED
    BY <2>1
<1>4. misfired \in BOOLEAN
  BY DEF Mames
<1> HIDE DEF drawing, keys, misfired
<1>5. QED
  BY <1>1, <1>2, <1>3, <1>4 DEF Mames

\* One frame of the key queue
LEMMA AdvanceType ==
  ASSUME QueueType, NEW q \in Seq(Entries), Advance(q)
  PROVE  QueueType'
<1>1. CASE step.frames > 1
  <2>1. step' = [step EXCEPT !.frames = @ - 1] /\ queue' = q
    BY <1>1 DEF Advance
  <2>2. step'.fields = step.fields /\ "fields" \in DOMAIN step'
    BY <2>1 DEF QueueType
  <2>3. QED
    BY <2>1, <2>2 DEF QueueType
<1>2. CASE ~(step.frames > 1) /\ q = <<>>
  <2>1. step' = NoStep /\ queue' = q
    BY <1>2 DEF Advance
  <2>2. NoStep.fields = {} /\ "fields" \in DOMAIN NoStep
    BY DEF NoStep, Entry
  <2>3. QED
    BY <2>1, <2>2 DEF QueueType
<1>3. CASE ~(step.frames > 1) /\ q # <<>>
  <2>1. step' = Head(q) /\ queue' = Tail(q)
    BY <1>3 DEF Advance
  <2>2. Head(q) \in Entries /\ Tail(q) \in Seq(Entries)
    BY <1>3
  <2>3. step' \in Entries /\ queue' \in Seq(Entries)
    BY <2>1, <2>2
  <2>4. QED
    BY <2>3 DEF QueueType, Entries
<1>4. QED
  BY <1>1, <1>2, <1>3

\* A command of the wire to the queue
LEMMA TypedType ==
  ASSUME queue \in Seq(Entries), sent \in Command
  PROVE  queue \o Typed(sent) \in Seq(Entries)
<1>1. Typed(sent) \in Seq(Entries)
  BY TypedTidy DEF TidyQueues
<1>2. QED
  BY <1>1

\* A picture more, under a number that is free
LEMMA PicturesType ==
  ASSUME emu \in Mames, snaps \in [Indices -> Picture], snaps' \in Pictures
  PROVE  /\ snaps' \in [Indices -> Picture]
         /\ \E n : /\ \A m \in Indices : m # n => snaps'[m] = snaps[m]
                   /\ snaps' # snaps => snaps'[n].screen = emu.screen
<1> DEFINE p == [screen |-> emu.screen, rows |-> emu.lcd]
<1>1. p \in Picture /\ p.screen = emu.screen
  BY DEF Picture, Mames
<1> HIDE DEF p
<1>2. snaps' = snaps \/ snaps' = [snaps EXCEPT ![FreeIndex] = p]
  BY DEF Pictures, p
<1>3. CASE snaps' = snaps
  BY <1>3
<1>4. CASE snaps' = [snaps EXCEPT ![FreeIndex] = p]
  <2>1. snaps' \in [Indices -> Picture]
    BY <1>1, <1>4
  <2>2. \A m \in Indices : m # FreeIndex => snaps'[m] = snaps[m]
    BY <1>4
  <2>3. CASE FreeIndex \in Indices
    BY <1>1, <1>4, <2>1, <2>2, <2>3
  <2>4. CASE FreeIndex \notin Indices
    BY <1>4, <2>4
  <2>5. QED
    BY <2>3, <2>4
<1>5. QED
  BY <1>2, <1>3, <1>4

\* MAME, the bridge in it and the firmware
LEMMA TypeMachine ==
  ASSUME TypeInv, Machine
  PROVE  TypeInv'
<1>1. /\ args' = args /\ drv' = drv /\ Route' = Route /\ Batch' = Batch
  BY Zenon DEF Machine, OpenSocket, Frame, FrameWithCommand, Watched, OpenWindow, Boot, Draw,
               BasicPrints, Dies, Route, Batch, NoPoints
<1>2. /\ args \in Runs /\ emu \in Mames /\ emu.keys <= Len(Route) /\ sent \in Command
      /\ lines \in Seq(Line) /\ queue \in Seq(Entries) /\ snaps \in [Indices -> Picture]
  BY DEF TypeInv, EmuType, WireType, QueueType
<1>3. DrvType' /\ (args \in Runs)'
  BY <1>1 DEF TypeInv, DrvType, SetOut
<1>4. CASE OpenSocket \/ OpenWindow \/ Boot \/ Draw \/ BasicPrints
  <2>1. UNCHANGED <<sent, lines, snaps, queue, step>>
    BY <1>4 DEF OpenSocket, OpenWindow, Boot, Draw, BasicPrints
  <2>2. \/ emu' = [emu EXCEPT !.sockfile = "bound"]
        \/ emu' = [emu EXCEPT !.window = TRUE]
        \/ \E s \in Screens : emu' = [emu EXCEPT !.screen = s]
        \/ \E s \in Screens : emu' = [emu EXCEPT !.screen = s, !.drawing = "none"]
        \/ \E rows \in Rows : emu' = [emu EXCEPT !.lcd = rows]
    <3>1. CASE OpenSocket
      BY <3>1 DEF OpenSocket
    <3>2. CASE OpenWindow
      BY <3>2 DEF OpenWindow
    <3>3. CASE Boot
      BY <3>3 DEF Boot, Screens
    <3>4. CASE Draw
      <4>1. emu.drawing \in Screens /\ emu' = [emu EXCEPT !.screen = emu.drawing, !.drawing = "none"]
        BY <1>2, <3>4 DEF Draw, Mames
      <4>2. QED
        BY <4>1
    <3>5. CASE BasicPrints
      BY <3>5 DEF BasicPrints
    <3>6. QED
      BY <1>4, <3>1, <3>2, <3>3, <3>4, <3>5
  <2>3. emu' \in Mames /\ emu'.keys = emu.keys
    BY <1>2, <2>2 DEF Mames
  <2>4. EmuType' /\ WireType' /\ QueueType'
    BY <1>1, <2>1, <2>3 DEF TypeInv, EmuType, WireType, QueueType
  <2>5. OneNew'
    BY <1>1, <2>1 DEF TypeInv, OneNew, At, Created, Present
  <2>6. QED
    BY <1>2, <1>3, <2>1, <2>4, <2>5 DEF TypeInv
<1>5. CASE Frame
  <2>1. Advance(queue) /\ emu' = Firmware(emu) /\ UNCHANGED <<sent, lines, snaps>>
    BY <1>5 DEF Frame
  <2>2. EmuType'
    BY <1>1, <1>2, <2>1, FirmwareType DEF EmuType
  <2>3. QueueType'
    BY <1>2, <2>1, AdvanceType DEF TypeInv
  <2>4. WireType' /\ OneNew'
    BY <1>1, <2>1 DEF TypeInv, WireType, OneNew, At, Created, Present
  <2>5. QED
    BY <1>2, <1>3, <2>1, <2>2, <2>3, <2>4 DEF TypeInv
<1>6. CASE FrameWithCommand
  <2>1. /\ sent # NoCmd /\ sent' = NoCmd
        /\ lines' = Append(lines, [kind |-> Answered(sent), op |-> sent.op, id |-> sent.id])
        /\ IF sent.op = "SNAP" THEN snaps' \in Pictures ELSE UNCHANGED snaps
        /\ Advance(queue \o Typed(sent))
        /\ emu' = Firmware(IF sent.op = "DBG"
                           THEN [emu EXCEPT !.points = AfterAll(@, sent.arg)] ELSE emu)
    BY <1>6 DEF FrameWithCommand
  <2>2. EmuType'
    <3> DEFINE e == IF sent.op = "DBG" THEN [emu EXCEPT !.points = AfterAll(emu.points, Batch)]
                    ELSE emu
    <3>1. emu.points \in SUBSET Points
      BY <1>2 DEF Mames
    <3>2. AfterAll(emu.points, Batch) \in SUBSET Points
      BY <1>2, <3>1, BatchSets
    <3>3. e \in Mames /\ e.keys = emu.keys
      BY <1>2, <3>2 DEF Mames
    <3>4. emu' = Firmware(e)
      <4>1. sent.op = "DBG" => sent.arg = Batch
        BY DEF TypeInv, WireType
      <4>2. QED
        BY <2>1, <4>1
    <3> HIDE DEF e
    <3>5. QED
      BY <1>1, <1>2, <3>3, <3>4, FirmwareType DEF EmuType
  <2>3. QueueType'
    BY <1>2, <2>1, TypedType, AdvanceType DEF TypeInv
  <2>4. WireType'
    <3>1. [kind |-> Answered(sent), op |-> sent.op, id |-> sent.id] \in Line
      BY <1>2 DEF Command, Line, Answered
    <3>2. lines' \in Seq(Line)
      BY <1>2, <2>1, <3>1
    <3>3. NoCmd \in Command /\ NoCmd.op = "none"
      <4>1. <<>> \in Seq(DOMAIN Layout \cup {"unknown", "rpset", "rpclear", "bpset", "bpclear",
                                             "watch"})
        OBVIOUS
      <4>2. QED
        BY <4>1 DEF NoCmd, Command
    <3>4. QED
      BY <2>1, <3>2, <3>3 DEF WireType
  <2>5. (snaps \in [Indices -> Picture])' /\ OneNew'
    <3>1. CASE sent.op = "SNAP"
      <4>1. PICK n : \A m \in Indices : m # n => snaps'[m] = snaps[m]
        BY <1>2, <2>1, <3>1, PicturesType
      <4>2. (snaps \in [Indices -> Picture])'
        BY <1>2, <2>1, <3>1, PicturesType
      <4>3. ASSUME At("poll")' PROVE Created' \subseteq {n}
        <5>1. Created = {}
          BY <1>1, <2>1, <4>3 DEF TypeInv, OneNew, At
        <5>2. \A m \in Indices : snaps[m] # NoSnap => m \in drv.before
          BY <5>1 DEF Created, Present
        <5>3. QED
          BY <1>1, <4>1, <5>2 DEF Created, Present
      <4>4. QED
        BY <2>1, <4>2, <4>3 DEF OneNew
    <3>2. CASE sent.op # "SNAP"
      BY <1>1, <1>2, <2>1, <3>2 DEF TypeInv, OneNew, At, Created, Present
    <3>3. QED
      BY <3>1, <3>2
  <2>6. QED
    BY <1>3, <2>2, <2>3, <2>4, <2>5 DEF TypeInv
<1>7. CASE Watched
  <2>1. /\ lines' = Append(lines, [kind |-> "evt", op |-> "none", id |-> 0])
        /\ UNCHANGED <<emu, sent, snaps, queue, step>>
    BY <1>7 DEF Watched
  <2>2. [kind |-> "evt", op |-> "none", id |-> 0] \in Line
    BY DEF Line
  <2>3. lines' \in Seq(Line)
    BY <1>2, <2>1, <2>2
  <2>4. EmuType' /\ WireType' /\ QueueType' /\ OneNew'
    BY <1>1, <2>1, <2>3 DEF TypeInv, EmuType, WireType, QueueType, OneNew, At, Created, Present
  <2>5. QED
    BY <1>2, <1>3, <2>1, <2>4 DEF TypeInv
<1>8. CASE Dies
  <2>1. /\ emu' = [MameStart(emu.nvram, "stale") EXCEPT !.proc = "dead"]
        /\ queue' = <<>> /\ step' = NoStep /\ sent' = NoCmd /\ UNCHANGED <<lines, snaps>>
    BY <1>8 DEF Dies
  <2>2. EmuType'
    <3>1. emu.nvram \in {"empty", "prepared"}
      BY <1>2 DEF Mames
    <3>2. emu' = [proc |-> "dead", signal |-> "none", window |-> FALSE, nvram |-> emu.nvram,
                  screen |-> "booting", drawing |-> "none", lcd |-> Blank, sockfile |-> "stale",
                  points |-> {}, keys |-> 0, misfired |-> FALSE]
      BY <2>1 DEF MameStart
    <3>3. emu' \in Mames /\ emu'.keys = 0
      BY <3>1, <3>2 DEF Mames, Points, Screens
    <3>4. Len(Route) \in Nat
      BY <1>2, RouteFacts
    <3>5. QED
      BY <1>1, <3>3, <3>4 DEF EmuType
  <2>3. WireType' /\ QueueType'
    <3>1. NoCmd \in Command /\ NoCmd.op = "none"
      <4>1. <<>> \in Seq(DOMAIN Layout \cup {"unknown", "rpset", "rpclear", "bpset", "bpclear",
                                             "watch"})
        OBVIOUS
      <4>2. QED
        BY <4>1 DEF NoCmd, Command
    <3>2. WireType'
      BY <1>2, <2>1, <3>1 DEF WireType
    <3>3. QueueType'
      <4>1. NoStep.fields = {} /\ "fields" \in DOMAIN NoStep
        BY DEF NoStep, Entry
      <4>2. QED
        BY <2>1, <4>1 DEF QueueType
    <3>4. QED
      BY <3>2, <3>3
  <2>4. OneNew'
    BY <1>1, <2>1 DEF TypeInv, OneNew, At, Created, Present
  <2>5. QED
    BY <1>2, <1>3, <2>1, <2>2, <2>3, <2>4 DEF TypeInv
<1>9. QED
  BY <1>4, <1>5, <1>6, <1>7, <1>8 DEF Machine

\* The types are inductive, with what the socket owes its two ends.
LEMMA TypeNext == TypeInv /\ Inv /\ [Next]_vars => TypeInv'
<1> SUFFICES ASSUME TypeInv, Inv, [Next]_vars PROVE TypeInv'
  OBVIOUS
<1>1. CASE UNCHANGED vars
  BY <1>1 DEF vars, TypeInv, DrvType, EmuType, WireType, QueueType, OneNew, SetOut, At, Route,
              Batch, NoPoints, Created, Present
<1>2. CASE Start
  BY <1>2, TypeStart
<1>3. CASE Driving
  BY <1>3, TypeDriving DEF Inv
<1>4. CASE Finally
  BY <1>4, TypeFinally
<1>5. CASE User
  BY <1>5, TypeUser
<1>6. CASE Machine
  BY <1>6, TypeMachine
<1>7. QED
  BY <1>1, <1>2, <1>3, <1>4, <1>5, <1>6 DEF Next

\* They hold throughout.
LEMMA SpecTypes == Spec => []TypeInv
  BY TypeInit, TypeNext, SpecInv, PTL DEF Spec

\* Driver, machine, wire and pictures keep their types; the stage is one of the menus.
THEOREM TypeCorrect == Spec => []TypeOK
<1>1. TypeInv => TypeOK
  <2> SUFFICES ASSUME TypeInv PROVE TypeOK
    OBVIOUS
  <2>1. /\ drv.pc \in Labels /\ drv.tries \in 0 .. MaxTries /\ drv.req \in Command
        /\ drv.answer \in Line /\ drv.before \subseteq Indices /\ drv.cached \in Picture
    BY DEF TypeInv, DrvType, Drivers
  <2>2. emu.points \subseteq Points /\ emu.sockfile \in {"none", "stale", "bound"}
    BY DEF TypeInv, EmuType, Mames
  <2>3. \A n \in DOMAIN lines : lines[n] \in Line
    BY DEF TypeInv, WireType
  <2>4. QED
    BY <2>1, <2>2, <2>3 DEF TypeOK, TypeInv, DrvType, WireType, Labels, Over, Points
<1>2. QED
  BY <1>1, SpecTypes, PTL

------------------------------------------------------------------------------
(* What :snap leaves out                                                     *)

\* The rows of a picture are numbered from 1.
LEMMA RowsAreSequences ==
  ASSUME NEW picture \in Picture
  PROVE  /\ DOMAIN picture.rows = 1 .. Len(picture.rows) /\ Len(picture.rows) \in Nat
<1>1. picture.rows \in Rows \cup {Blank, <<>>}
  BY DEF Picture
<1>2. CASE picture.rows = <<>>
  BY <1>2
<1>3. CASE picture.rows \in Rows \cup {Blank}
  BY <1>3, RowsAssumption
<1>4. QED
  BY <1>1, <1>2, <1>3

\* changed_lines leaves out rows that were on the screen before, in the same place or above.
LEMMA ChangedLinesLeavesOut ==
  ASSUME NEW p \in Picture, NEW q \in Picture,
         NEW i \in DOMAIN q.rows \ ChangedLines(p.rows, q.rows)
  PROVE  \E j \in DOMAIN p.rows : p.rows[j] = q.rows[i]
<1> DEFINE old == p.rows
           new == q.rows
           shifts == {k \in 1 .. Len(old) - 1 :
                        new # <<>> /\ \A n \in Overlap(old, new, k) : new[n] = old[k + n]}
<1>1. /\ DOMAIN old = 1 .. Len(old) /\ Len(old) \in Nat
      /\ DOMAIN new = 1 .. Len(new) /\ Len(new) \in Nat
  BY RowsAreSequences
<1>2. (i \in DOMAIN old /\ new[i] = old[i]) \/ i \in Scrolled(old, new)
  BY DEF ChangedLines
<1>3. ASSUME i \in Scrolled(old, new) PROVE \E j \in DOMAIN old : old[j] = new[i]
  <2>1. shifts # {}
    BY <1>3 DEF Scrolled
  <2>2. \E k \in shifts : \A j \in shifts : k <= j
    <3>1. shifts \in SUBSET Nat
      OBVIOUS
    <3> HIDE DEF shifts
    <3>2. \E k \in shifts : \A j \in shifts : ~ (<<j, k>> \in OpToRel(<, Nat))
      BY <2>1, <3>1, WFMin, NatLessThanWellFounded
    <3>3. PICK k \in shifts : \A j \in shifts : ~ (<<j, k>> \in OpToRel(<, Nat))
      BY <3>2
    <3>4. \A j \in shifts : ~ (j < k)
      BY <3>1, <3>3, Zenon DEF OpToRel
    <3>5. QED
      BY <3>1, <3>4
  <2> DEFINE shift == CHOOSE k \in shifts : \A j \in shifts : k <= j
  <2>3. shift \in shifts
    <3> HIDE DEF shifts
    <3>1. QED
      BY <2>2
  <2>4. i \in Overlap(old, new, shift)
    BY <1>3, <2>1 DEF Scrolled
  <2> HIDE DEF shift
  <2>5. shift \in 1 .. Len(old) - 1 /\ new[i] = old[shift + i]
    BY <2>3, <2>4
  <2>6. i \in 1 .. Len(new) /\ i \in 1 .. Len(old) - shift
    BY <1>1, <2>4, <2>5 DEF Overlap
  <2>7. shift + i \in DOMAIN old
    BY <1>1, <2>5, <2>6
  <2>8. QED
    BY <2>5, <2>7
<1>4. QED
  BY <1>2, <1>3

\* A snapshot that is shown is cached.
LEMMA SnapShownRows ==
  ASSUME TypeInv, SnapShown, drv.use = "changed", drv.cached # NoSnap
  PROVE  /\ drv.cached \in Picture /\ drv'.cached \in Picture
         /\ drv'.shown = ChangedLines(drv.cached.rows, drv'.cached.rows)
<1>1. /\ drv \in Drivers /\ drv.pc = "poll" /\ Created # {} /\ snaps \in [Indices -> Picture]
  BY DEF TypeInv, DrvType, SnapShown
<1>2. snaps[Newest] \in Picture
  <2>1. Newest \in Created
    BY <1>1, NewestIsOne DEF TypeInv, At
  <2>2. QED
    BY <1>1, <2>1 DEF Created, Present
<1> DEFINE shown == ChangedLines(drv.cached.rows, snaps[Newest].rows)
<1>3. drv' = [drv EXCEPT !.pc = "loop", !.before = {}, !.answer = NoLine, !.shown = shown,
                         !.cached = snaps[Newest]]
  BY DEF SnapShown
<1> HIDE DEF shown
<1>4. PICK picture \in Picture : picture = snaps[Newest]
  BY <1>2
<1>5. drv' = [drv EXCEPT !.pc = "loop", !.before = {}, !.answer = NoLine, !.shown = shown,
                         !.cached = picture]
  BY <1>3, <1>4
<1>6. drv'.cached = picture /\ drv'.shown = shown
  BY <1>1, <1>5 DEF Drivers
<1>7. QED
  BY <1>1, <1>4, <1>6 DEF shown, Drivers

\* changed_lines, find_overlap_start: a row that :snap leaves out was on the screen at the
\* snapshot before, whatever BASIC printed in between.
THEOREM OmittedSeen == Spec => OmittedWasSeen
<1> DEFINE Shown == drv.pc = "poll" /\ drv'.pc = "loop"
           Seen == drv.pc = "poll" /\ drv'.pc = "loop" /\ drv.use = "changed"
                   /\ drv.cached # NoSnap =>
                     \A i \in DOMAIN drv'.cached.rows \ drv'.shown :
                       \E j \in DOMAIN drv.cached.rows : drv.cached.rows[j] = drv'.cached.rows[i]
<1>1. TypeInv /\ [Next]_vars => [Seen]_vars
  <2> SUFFICES ASSUME TypeInv, Next, Shown, drv.use = "changed", drv.cached # NoSnap,
                      NEW i \in DOMAIN drv'.cached.rows \ drv'.shown
               PROVE  \E j \in DOMAIN drv.cached.rows : drv.cached.rows[j] = drv'.cached.rows[i]
    OBVIOUS
  <2>1. drv \in Drivers
    BY DEF TypeInv, DrvType
  <2>2. ~Fail
    BY StartType DEF Fail, TypeInv
  <2>3. ~Start
    BY <2>2 DEF Start, BadArguments, BadPoints, Launch, FindWindow, Connect, ConnectRefused,
                ConnectFails
  <2>4. ~Finally /\ ~User /\ ~Machine
    <3>1. ~Finally
      BY DEF Finally, Terminate, WaitTimesOut, KillTimesOut, Reaped
    <3>2. ~User
      <4>1. ~UserTypes /\ ~UserSnaps /\ ~Quit
        BY DEF UserTypes, UserSnaps, Quit
      <4>2. ~Interrupt
        BY <2>1, <2>2 DEF Interrupt, Goto, Drivers
      <4>3. QED
        BY <4>1, <4>2 DEF User
    <3>3. ~Machine
      BY DEF Machine, OpenSocket, Frame, FrameWithCommand, Watched, OpenWindow, Boot, Draw,
             BasicPrints, Dies
    <3>4. QED
      BY <3>1, <3>2, <3>3
  <2>5. SnapShown
    <3>1. ~Receive /\ ~ReceiveFails /\ ~Look /\ ~PollFails /\ ~InstallDebug /\ ~NoDebug /\ ~PressMenuKey
      BY <2>2 DEF Receive, ReceiveFails, Look, PollFails, InstallDebug, NoDebug, PressMenuKey
    <3>2. ~SignpostSeen
      BY <2>1 DEF SignpostSeen, Drivers
    <3>3. ~SignpostNotYet
      BY <2>1, <2>2 DEF SignpostNotYet, Drivers
    <3>4. QED
      BY <2>3, <2>4, <3>1, <3>2, <3>3 DEF Next, Driving
  <2>6. QED
    BY <2>5, SnapShownRows, ChangedLinesLeavesOut
<1>2. QED
  BY <1>1, SpecTypes, PTL DEF Spec, OmittedWasSeen

------------------------------------------------------------------------------
(* How the keys change                                                       *)

\* The fields that are down and the queue behind them: changes are clean and the last
\* entry lets everything go.
Joined(fields, q) ==
  /\ IF q = <<>> THEN fields = {} ELSE Change(fields, q[1].fields) /\ q[Len(q)].fields = {}
  /\ \A i \in 1 .. Len(q) - 1 : Change(q[i].fields, q[i + 1].fields)

\* What a command adds is whole keys: the queue still changes cleanly.
LEMMA JoinedTyped ==
  ASSUME NEW fields, NEW q \in Seq(Entries), Joined(fields, q), NEW r \in TidyQueues
  PROVE  Joined(fields, q \o r) /\ q \o r \in Seq(Entries)
<1> DEFINE s == q \o r
<1>1. r \in Seq(Entries) /\ Tidy(r)
  BY DEF TidyQueues
<1>2. /\ s \in Seq(Entries) /\ Len(s) = Len(q) + Len(r) /\ Len(q) \in Nat /\ Len(r) \in Nat
      /\ \A i \in 1 .. Len(q) : s[i] = q[i]
      /\ \A i \in 1 .. Len(r) : s[Len(q) + i] = r[i]
  BY <1>1
<1>3. CASE q = <<>>
  <2>1. s = r /\ fields = {}
    BY <1>1, <1>3 DEF Joined
  <2> HIDE DEF s
  <2>2. QED
    BY <1>2, <2>1, <1>1 DEF Joined, Tidy, s
<1>4. CASE r = <<>>
  BY <1>2, <1>4
<1>5. CASE q # <<>> /\ r # <<>>
  <2>1. Len(q) \in Nat \ {0} /\ Len(r) \in Nat \ {0}
    BY <1>1, <1>5
  <2> HIDE DEF s
  <2>2. /\ s # <<>> /\ s[1] = q[1] /\ s[Len(q)] = q[Len(q)] /\ s[Len(q) + 1] = r[1]
        /\ s[Len(s)] = r[Len(r)]
    <3>1. 1 \in 1 .. Len(q) /\ Len(q) \in 1 .. Len(q) /\ 1 \in 1 .. Len(r) /\ Len(r) \in 1 .. Len(r)
      BY <2>1
    <3>2. Len(s) # 0
      BY <1>2, <2>1
    <3>3. QED
      BY <1>2, <3>1, <3>2
  <2>3. Change(q[Len(q)].fields, r[1].fields) /\ r[Len(r)].fields = {}
    BY <1>1, <1>5 DEF Joined, Tidy
  <2>4. ASSUME NEW i \in 1 .. Len(s) - 1 PROVE Change(s[i].fields, s[i + 1].fields)
    <3>1. CASE i \in 1 .. Len(q) - 1
      <4>1. i \in 1 .. Len(q) /\ i + 1 \in 1 .. Len(q)
        BY <1>2, <3>1
      <4>2. s[i] = q[i] /\ s[i + 1] = q[i + 1]
        BY <1>2, <4>1
      <4>3. QED
        BY <3>1, <4>2 DEF Joined
    <3>2. CASE i = Len(q)
      BY <2>2, <2>3, <3>2
    <3>3. CASE i > Len(q)
      <4>1. PICK j \in Nat : j = i - Len(q)
        <5>1. i \in Int /\ Len(q) \in Nat
          BY <1>2, <2>4
        <5>2. i - Len(q) \in Nat
          BY <3>3, <5>1
        <5>3. QED
          BY <5>2
      <4>2. j \in 1 .. Len(r) - 1 /\ j \in 1 .. Len(r) /\ j + 1 \in 1 .. Len(r)
            /\ i = Len(q) + j /\ i + 1 = Len(q) + (j + 1)
        BY <1>2, <2>4, <3>3, <4>1
      <4>3. s[i] = r[j] /\ s[i + 1] = r[j + 1]
        BY <1>2, <4>2
      <4>4. QED
        BY <1>1, <4>2, <4>3 DEF Tidy
    <3>4. QED
      BY <1>2, <3>1, <3>2, <3>3
  <2>5. QED
    BY <1>2, <1>5, <2>2, <2>3, <2>4 DEF Joined, s
<1>6. QED
  BY <1>3, <1>4, <1>5

\* A frame takes the next entry down, or leaves what is down.
LEMMA JoinedAdvance ==
  ASSUME QueueType, NEW q \in Seq(Entries), Joined(step.fields, q), Advance(q)
  PROVE  Joined(step'.fields, queue') /\ Change(step.fields, step'.fields)
<1>1. CASE step.frames > 1
  <2>1. step' = [step EXCEPT !.frames = @ - 1] /\ queue' = q
    BY <1>1 DEF Advance
  <2>2. step'.fields = step.fields
    BY <2>1 DEF QueueType
  <2>3. QED
    BY <2>1, <2>2 DEF Change
<1>2. CASE ~(step.frames > 1) /\ q = <<>>
  <2>1. step' = NoStep /\ queue' = q
    BY <1>2 DEF Advance
  <2>2. step'.fields = step.fields
    BY <1>2, <2>1 DEF NoStep, Entry, Joined
  <2>3. QED
    BY <2>1, <2>2 DEF Change
<1>3. CASE ~(step.frames > 1) /\ q # <<>>
  <2>1. step' = Head(q) /\ queue' = Tail(q)
    BY <1>3 DEF Advance
  <2>2. Len(q) \in Nat \ {0} /\ Head(q) = q[1]
    BY <1>3
  <2>3. PICK t : t = Tail(q)
    OBVIOUS
  <2>4. t \in Seq(Entries) /\ Len(t) = Len(q) - 1 /\ \A i \in 1 .. Len(q) - 1 : t[i] = q[i + 1]
    BY <1>3, <2>3
  <2>5. Change(step.fields, q[1].fields) /\ q[Len(q)].fields = {}
        /\ \A i \in 1 .. Len(q) - 1 : Change(q[i].fields, q[i + 1].fields)
    BY <1>3 DEF Joined
  <2>6. Joined(q[1].fields, t)
    <3>1. CASE Len(q) = 1
      BY <2>4, <2>5, <3>1 DEF Joined
    <3>2. CASE Len(q) # 1
      <4>1. 1 \in 1 .. Len(q) - 1 /\ Len(q) - 1 \in 1 .. Len(q) - 1 /\ Len(q) - 1 + 1 = Len(q)
        <5>1. \A n \in Nat \ {0} : n # 1 => 1 \in 1 .. n - 1 /\ n - 1 \in 1 .. n - 1 /\ n - 1 + 1 = n
          OBVIOUS
        <5>2. QED
          BY <2>2, <3>2, <5>1
      <4>2. t[1] = q[2] /\ t[Len(t)] = q[Len(q)] /\ t # <<>>
        <5>1. t[1] = q[1 + 1] /\ t[Len(q) - 1] = q[Len(q) - 1 + 1]
          BY <2>4, <4>1
        <5>2. Len(t) # 0
          BY <2>2, <2>4, <3>2
        <5>3. QED
          BY <2>4, <4>1, <5>1, <5>2
      <4>3. Change(q[1].fields, t[1].fields)
        BY <2>5, <4>1, <4>2
      <4>4. ASSUME NEW i \in 1 .. Len(t) - 1 PROVE Change(t[i].fields, t[i + 1].fields)
        <5>1. i \in 1 .. Len(q) - 1 /\ i + 1 \in 1 .. Len(q) - 1
          BY <2>2, <2>4
        <5>2. QED
          BY <2>4, <2>5, <5>1
      <4>5. QED
        BY <2>5, <4>2, <4>3, <4>4 DEF Joined
    <3>3. QED
      BY <3>1, <3>2
  <2>7. QED
    BY <2>1, <2>2, <2>3, <2>5, <2>6
<1>4. QED
  BY <1>1, <1>2, <1>3

\* What the bridge does with the queue in a step
LEMMA QueueStep ==
  ASSUME TypeInv, Joined(step.fields, queue), Frame \/ FrameWithCommand
  PROVE  Joined(step'.fields, queue') /\ Change(step.fields, step'.fields)
<1>1. QueueType /\ queue \in Seq(Entries) /\ sent \in Command
  BY DEF TypeInv, QueueType, WireType
<1>2. Advance(queue) \/ Advance(queue \o Typed(sent))
  BY DEF Frame, FrameWithCommand
<1>3. queue \o Typed(sent) \in Seq(Entries) /\ Joined(step.fields, queue \o Typed(sent))
  BY <1>1, TypedTidy, JoinedTyped
<1>4. QED
  BY <1>1, <1>2, <1>3, JoinedAdvance

\* No other step touches the queue, but the death of MAME.
LEMMA QueueElse ==
  ASSUME Next, ~Frame, ~FrameWithCommand
  PROVE  UNCHANGED <<queue, step>> \/ Dies
<1>1. CASE Start
  BY <1>1 DEF Start, BadArguments, BadPoints, Launch, FindWindow, Connect, ConnectRefused,
              ConnectFails
<1>2. CASE Driving
  BY <1>2, Zenon DEF Driving, Receive, ReceiveFails, Look, PollFails, SignpostSeen,
              SignpostNotYet, InstallDebug, NoDebug, PressMenuKey, SnapShown
<1>3. CASE Finally
  BY <1>3 DEF Finally, Terminate, WaitTimesOut, KillTimesOut, Reaped
<1>4. CASE User
  BY <1>4, Zenon DEF User, UserTypes, UserSnaps, Quit, Interrupt
<1>5. CASE Machine
  BY <1>5 DEF Machine, OpenSocket, Watched, OpenWindow, Boot, Draw, BasicPrints
<1>6. QED
  BY <1>1, <1>2, <1>3, <1>4, <1>5 DEF Next

\* MAME takes its queue along.
LEMMA DiesQueue ==
  ASSUME Dies
  PROVE  /\ queue' = <<>> /\ step' = NoStep /\ Joined(step'.fields, queue')
         /\ emu'.proc = "dead"
<1>1. queue' = <<>> /\ step' = NoStep
      /\ emu' = [MameStart(emu.nvram, "stale") EXCEPT !.proc = "dead"]
  BY DEF Dies
<1>2. Joined(step'.fields, queue')
  BY <1>1 DEF Joined, NoStep, Entry
<1>3. emu'.proc = "dead"
  BY <1>1 DEF MameStart
<1>4. QED
  BY <1>1, <1>2, <1>3

\* What is down and what is queued change cleanly throughout.
LEMMA SpecJoined == Spec => []Joined(step.fields, queue)
<1>1. Init => Joined(step.fields, queue)
  BY DEF Init, BridgeInit, NoStep, Entry, Joined
<1>2. TypeInv /\ Joined(step.fields, queue) /\ [Next]_vars => Joined(step.fields, queue)'
  <2> SUFFICES ASSUME TypeInv, Joined(step.fields, queue), [Next]_vars
               PROVE  Joined(step'.fields, queue')
    OBVIOUS
  <2>1. CASE UNCHANGED vars
    BY <2>1 DEF vars
  <2>2. CASE Next
    BY <2>2, QueueStep, QueueElse, DiesQueue
  <2>3. QED
    BY <2>1, <2>2
<1>3. QED
  BY <1>1, <1>2, SpecTypes, PTL DEF Spec

\* process_frame, enqueue_key: whatever is typed, of whatever requests, the firmware never
\* sees one key turn into another, nor a modifier change together with a key.
THEOREM KeysAreClean == Spec => KeysChangeCleanly
<1> DEFINE Clean == Running /\ emu'.proc = "running" /\ Keys(step'.fields) # Keys(step.fields) =>
                      /\ Keys(step'.fields) = {} \/ Keys(step.fields) = {}
                      /\ Mods(step'.fields) = Mods(step.fields)
<1>1. TypeInv /\ Joined(step.fields, queue) /\ [Next]_vars => [Clean]_vars
  <2> SUFFICES ASSUME TypeInv, Joined(step.fields, queue), Next PROVE Clean
    OBVIOUS
  <2>1. CASE Frame \/ FrameWithCommand
    BY <2>1, QueueStep DEF Change
  <2>2. CASE UNCHANGED <<queue, step>>
    BY <2>2
  <2>3. CASE Dies
    BY <2>3, DiesQueue
  <2>4. QED
    BY <2>1, <2>2, <2>3, QueueElse
<1>2. QED
  BY <1>1, SpecTypes, SpecJoined, PTL DEF Spec, KeysChangeCleanly

------------------------------------------------------------------------------
(* What the driver does, by where it is                                      *)

Stopped == {"terminate", "wait", "killed", "ended", "unreaped", "interrupted"}

Stop == drv'.pc \in Stopped /\ (drv'.stage = drv.stage \/ drv'.stage = 1) /\ sent' = sent

Go(pc) == /\ drv'.pc = pc /\ drv'.stage = drv.stage /\ drv'.use = drv.use
          /\ drv'.before = drv.before \/ pc # "poll"
          /\ sent' = sent

Ask(op, arg, ret, stage, use) ==
  /\ drv'.pc = "recv" /\ drv'.ret = ret /\ drv'.stage = stage /\ drv'.use = use
  /\ ret = "poll" => drv'.before = Present
  /\ sent'.op = op /\ sent'.arg = arg /\ sent' # NoCmd

SetsOut == drv.pc \in {"window", "connect"} /\ \E p \in {"window", "connect", "look"} : Go(p)

Hears == drv.pc = "recv" /\ drv.ret \in {"look", "poll", "press", "loop"} /\ sent = NoCmd /\ Go(drv.ret)

Looks ==
  \/ drv.pc = "look" /\ Ask("SNAP", <<>>, "poll", drv.stage, "signpost")
  \/ drv.pc = "poll" /\ drv.use = "signpost" /\ Go("look")
  \/ /\ drv.pc = "poll" /\ drv.use = "signpost" /\ Created # {}
     /\ args.check => snaps[Newest].screen = Route[drv.stage].menu
     /\ Go(IF drv.stage = 1 THEN "debug" ELSE "press")

Debugs == drv.pc = "debug" /\ \/ Ask("DBG", Batch, "press", drv.stage, drv.use)
                              \/ Batch = <<>> /\ Go("press")

Presses ==
  /\ drv.pc = "press"
  /\ \/ /\ drv.stage = Len(Route)
        /\ Ask("KEY", <<Route[drv.stage].key>>, "loop", drv.stage, drv.use)
     \/ /\ drv.stage # Len(Route)
        /\ Ask("KEY", <<Route[drv.stage].key>>, "look", drv.stage + 1, drv.use)

Serves ==
  \/ drv.pc = "loop" /\ \E c \in Typing : Ask(c.op, c.arg, "loop", drv.stage, drv.use)
  \/ drv.pc = "loop" /\ \E use : use # "signpost" /\ Ask("SNAP", <<>>, "poll", drv.stage, use)
  \/ drv.pc = "poll" /\ drv.use # "signpost" /\ Go("loop")

\* The machine as far as keys, menus and points go
SameKeys == /\ UNCHANGED <<args, queue, step>>
            /\ emu'.proc = emu.proc /\ emu'.screen = emu.screen /\ emu'.drawing = emu.drawing
            /\ emu'.keys = emu.keys /\ emu'.misfired = emu.misfired /\ emu'.points = emu.points

\* A request of the driver in terms of Ask
LEMMA Asked ==
  ASSUME drv \in Drivers, NEW d, d \in Drivers, NEW op, NEW arg, Sendable(op, arg),
         NEW ret, ret \in Labels, Request(op, arg, ret, d), ret = "poll" => d.before = Present
  PROVE  Ask(op, arg, ret, d.stage, d.use)
<1>1. /\ drv'.pc = "recv" /\ drv'.ret = ret /\ drv'.stage = d.stage /\ drv'.before = d.before
      /\ drv'.use = d.use /\ sent'.op = op /\ sent'.arg = arg /\ sent' # NoCmd
  BY RequestType
<1>2. QED
  BY <1>1 DEF Ask

\* A machine that does not step keeps its keys.
LEMMA SameIsSameKeys ==
  ASSUME UNCHANGED <<args, emu, queue, step>>
  PROVE  SameKeys
  BY DEF SameKeys

\* A failure leads to the finally clause.
LEMMA FailStops ==
  ASSUME TypeInv, sent' = sent, Fail \/ drv' = [DriverStart EXCEPT !.pc = "terminate"]
  PROVE  Stop
<1>1. drv'.pc = "terminate" /\ drv'.stage = 1
  BY StartType DEF TypeInv, Fail
<1>2. QED
  BY <1>1 DEF Stop, Stopped

\* Arguments and connection, without the launch
LEMMA StartMoves ==
  ASSUME TypeInv, Start, ~Launch
  PROVE  SameKeys /\ (Stop \/ (SetsOut /\ snaps' = snaps))
<1>1. drv \in Drivers /\ emu \in Mames
  BY DEF TypeInv, DrvType, EmuType
<1>2. CASE BadArguments \/ BadPoints
  <2>1. /\ drv' = [drv EXCEPT !.pc = "ended"] /\ emu' \in {emu, CleanMame}
        /\ UNCHANGED <<args, sent, queue, step>>
    BY <1>2 DEF BadArguments, BadPoints, Goto
  <2>2. drv'.pc = "ended" /\ drv'.stage = drv.stage
    BY <1>1, <2>1 DEF Drivers
  <2>3. /\ CleanMame.proc = emu.proc /\ CleanMame.screen = emu.screen
        /\ CleanMame.drawing = emu.drawing /\ CleanMame.keys = emu.keys
        /\ CleanMame.misfired = emu.misfired /\ CleanMame.points = emu.points
    BY <1>1 DEF CleanMame, Mames
  <2>4. QED
    BY <2>1, <2>2, <2>3 DEF Stop, Stopped, SameKeys
<1>3. CASE FindWindow \/ Connect \/ ConnectRefused \/ ConnectFails
  <2>1. /\ drv.pc \in {"window", "connect"} /\ UNCHANGED <<args, emu, sent, snaps, queue, step>>
        /\ \/ Fail
           \/ drv' = [drv EXCEPT !.pc = "connect"]
           \/ drv' = [drv EXCEPT !.pc = "look", !.tries = 0]
           \/ drv' = [drv EXCEPT !.tries = @ + 1]
    BY <1>3 DEF FindWindow, Connect, ConnectRefused, ConnectFails, Goto
  <2>2. SameKeys
    BY <2>1, SameIsSameKeys
  <2>3. CASE Fail
    BY <2>1, <2>2, <2>3, FailStops
  <2>4. CASE ~Fail
    <3>1. /\ drv'.pc \in {"connect", "look", drv.pc} /\ drv'.stage = drv.stage /\ drv'.use = drv.use
          /\ drv'.before = drv.before
      BY <1>1, <2>1, <2>4 DEF Drivers
    <3>2. QED
      BY <2>1, <2>2, <3>1 DEF SetsOut, Go
  <2>5. QED
    BY <2>3, <2>4
<1>4. QED
  BY <1>2, <1>3 DEF Start

\* The finally clause touches no key.
LEMMA FinallyMoves ==
  ASSUME TypeInv, Finally
  PROVE  SameKeys /\ Stop
<1>1. drv \in Drivers /\ emu \in Mames
  BY DEF TypeInv, DrvType, EmuType
<1>2. /\ UNCHANGED <<args, sent, lines, snaps, queue, step>>
      /\ \E p \in {"wait", "killed", "ended", "unreaped"} : drv' = [drv EXCEPT !.pc = p]
      /\ \/ emu' = emu
         \/ \E s \in {"term", "kill"} : emu' = [emu EXCEPT !.signal = s]
  BY DEF Finally, Terminate, WaitTimesOut, KillTimesOut, Reaped, Goto
<1>3. drv'.stage = drv.stage /\ drv'.pc \in Stopped
  BY <1>1, <1>2 DEF Drivers, Stopped
<1>4. SameKeys
  BY <1>1, <1>2 DEF SameKeys, Mames
<1>5. QED
  BY <1>2, <1>3, <1>4 DEF Stop

\* The commands of the user
LEMMA UserMoves ==
  ASSUME TypeInv, User
  PROVE  SameKeys /\ (Stop \/ (Serves /\ snaps' = snaps))
<1>1. drv \in Drivers /\ drv.commands + 1 \in Nat
  BY DEF TypeInv, DrvType, Drivers
<1>2. PICK commands \in Nat : commands = drv.commands + 1
  BY <1>1
<1>3. UNCHANGED <<args, emu, snaps, queue, step>>
  BY Zenon DEF User, UserTypes, UserSnaps, Quit, Interrupt
<1>4. CASE UserTypes
  <2>1. PICK d : d = [drv EXCEPT !.commands = commands]
    OBVIOUS
  <2>2. d \in Drivers /\ d.stage = drv.stage /\ d.use = drv.use
    BY <1>1, <2>1 DEF Drivers
  <2>3. PICK c \in Typing : Request(c.op, c.arg, "loop", d)
    BY <1>2, <1>4, <2>1 DEF UserTypes
  <2>4. Sendable(c.op, c.arg)
    <3>1. /\ c.op \in {"KEY", "TEXT", "TYPE", "QUERY"}
          /\ c.arg \in Seq(DOMAIN Layout \cup {"unknown"}) /\ (c.op = "KEY" => Len(c.arg) = 1)
      BY TypingAssumption
    <3>2. DOMAIN Layout \cup {"unknown"} \subseteq Arguments
      BY DEF Arguments
    <3>3. c.arg \in Seq(Arguments)
      BY <3>1, <3>2
    <3>4. QED
      BY <3>1, <3>3 DEF Sendable
  <2>5. "loop" \in Labels /\ "loop" # "poll"
    BY DEF Labels
  <2>6. Ask(c.op, c.arg, "loop", d.stage, d.use)
    BY <1>1, <2>2, <2>3, <2>4, <2>5, Asked
  <2>7. QED
    BY <1>3, <1>4, <2>2, <2>6, SameIsSameKeys DEF Serves, UserTypes
<1>5. CASE UserSnaps
  <2>1. PICK use \in {"quiet", "changed", "all", "range"} :
          Request("SNAP", <<>>, "poll", [drv EXCEPT !.before = Present, !.use = use,
                                                    !.commands = commands])
    BY <1>2, <1>5 DEF UserSnaps
  <2>2. PICK d : d = [drv EXCEPT !.before = Present, !.use = use, !.commands = commands]
    OBVIOUS
  <2>3. Request("SNAP", <<>>, "poll", d)
    BY <2>1, <2>2
  <2>4. Present \in SUBSET Indices
    BY DEF Present
  <2>5. d \in Drivers /\ d.stage = drv.stage /\ d.before = Present /\ d.use = use
    BY <1>1, <2>2, <2>4 DEF Drivers
  <2>6. Sendable("SNAP", <<>>) /\ "poll" \in Labels
    <3>1. <<>> \in Seq(Arguments)
      OBVIOUS
    <3>2. QED
      BY <3>1 DEF Sendable, Labels
  <2>7. Ask("SNAP", <<>>, "poll", drv.stage, use)
    <3>1. Ask("SNAP", <<>>, "poll", d.stage, d.use)
      BY <1>1, <2>3, <2>5, <2>6, Asked
    <3>2. QED
      BY <2>5, <3>1
  <2>8. QED
    BY <1>3, <1>5, <2>1, <2>7, SameIsSameKeys DEF Serves, UserSnaps
<1>6. CASE Quit
  BY <1>3, <1>6, FailStops, SameIsSameKeys DEF Quit
<1>7. CASE Interrupt
  <2>1. UNCHANGED <<emu, sent, queue, step>> /\ (Fail \/ drv' = [drv EXCEPT !.pc = "interrupted"])
    BY <1>7 DEF Interrupt, Goto
  <2>2. CASE Fail
    BY <1>3, <2>1, <2>2, FailStops, SameIsSameKeys
  <2>3. CASE drv' = [drv EXCEPT !.pc = "interrupted"]
    <3>1. drv'.stage = drv.stage /\ drv'.pc = "interrupted"
      BY <1>1, <2>3 DEF Drivers
    <3>2. QED
      BY <1>3, <2>1, <3>1, SameIsSameKeys DEF Stop, Stopped
  <2>4. QED
    BY <2>1, <2>2, <2>3
<1>8. QED
  BY <1>4, <1>5, <1>6, <1>7 DEF User

\* What the driver does between connection and end
LEMMA DrivingMoves ==
  ASSUME TypeInv, Wire, Driving
  PROVE  SameKeys /\ snaps' = snaps /\ (Stop \/ Hears \/ Looks \/ Debugs \/ Presses \/ Serves)
<1>1. drv \in Drivers /\ drv.stage \in 1 .. Len(Route) /\ args \in Runs /\ lines \in Seq(Line)
  BY DEF TypeInv, DrvType, WireType
<1>2. UNCHANGED <<args, emu, snaps, queue, step>>
  BY Zenon DEF Driving, Receive, ReceiveFails, Look, PollFails, SignpostSeen, SignpostNotYet,
              InstallDebug, NoDebug, PressMenuKey, SnapShown
<1>3. SameKeys
  BY <1>2, SameIsSameKeys
<1>4. CASE Fail /\ sent' = sent
  BY <1>2, <1>3, <1>4, FailStops
<1>5. CASE Receive /\ ~Fail
  <2>1. /\ drv.pc = "recv" /\ lines # <<>> /\ sent' = sent /\ Accepts(Head(lines))
        /\ drv' = [drv EXCEPT !.pc = drv.ret, !.answer = Head(lines)]
    BY <1>5 DEF Receive
  <2>2. drv'.pc = drv.ret /\ drv'.stage = drv.stage /\ drv'.use = drv.use /\ drv'.before = drv.before
    BY <1>1, <2>1 DEF Drivers
  <2>3. sent = NoCmd /\ drv.ret \in {"look", "poll", "press", "loop"}
    <3>1. 1 \in DOMAIN lines /\ Head(lines) = lines[1]
      BY <1>1, <2>1
    <3>2. ~OnlyEvts
      BY <2>1, <3>1 DEF Accepts, OnlyEvts, Evt
    <3>3. QED
      BY <2>1, <3>2 DEF Wire
  <2>4. QED
    BY <1>2, <1>3, <2>1, <2>2, <2>3 DEF Hears, Go
<1>6. CASE ReceiveFails \/ PollFails
  BY <1>4, <1>6 DEF ReceiveFails, PollFails
<1>7. CASE Look
  <2>1. drv.pc = "look" /\ Request("SNAP", <<>>, "poll", [drv EXCEPT !.before = Present, !.use = "signpost"])
    BY <1>7 DEF Look, Snap
  <2>2. PICK d : d = [drv EXCEPT !.before = Present, !.use = "signpost"]
    OBVIOUS
  <2>3. Present \in SUBSET Indices
    BY DEF Present
  <2>4. d \in Drivers /\ d.stage = drv.stage /\ d.before = Present /\ d.use = "signpost"
    BY <1>1, <2>2, <2>3 DEF Drivers
  <2>5. Sendable("SNAP", <<>>) /\ "poll" \in Labels
    <3>1. <<>> \in Seq(Arguments)
      OBVIOUS
    <3>2. QED
      BY <3>1 DEF Sendable, Labels
  <2>6. Request("SNAP", <<>>, "poll", d)
    BY <2>1, <2>2
  <2>7. Ask("SNAP", <<>>, "poll", d.stage, d.use)
    BY <1>1, <2>4, <2>5, <2>6, Asked
  <2>8. QED
    BY <1>2, <1>3, <2>1, <2>4, <2>7 DEF Looks
<1>8. CASE SignpostSeen
  <2>1. /\ drv.pc = "poll" /\ drv.use = "signpost" /\ Created # {} /\ sent' = sent
        /\ args.check => snaps[Newest].screen = Route[drv.stage].menu
        /\ drv' = [drv EXCEPT !.pc = IF drv.stage = 1 THEN "debug" ELSE "press",
                              !.before = {}, !.answer = NoLine]
    BY <1>8 DEF SignpostSeen
  <2>2. /\ drv'.pc = IF drv.stage = 1 THEN "debug" ELSE "press"
        /\ drv'.stage = drv.stage /\ drv'.use = drv.use
    BY <1>1, <2>1 DEF Drivers
  <2>3. QED
    BY <1>2, <1>3, <2>1, <2>2 DEF Looks, Go
<1>9. CASE SignpostNotYet /\ ~Fail
  <2>1. /\ drv.pc = "poll" /\ drv.use = "signpost" /\ sent' = sent
        /\ drv' = [drv EXCEPT !.tries = @ + 1, !.pc = "look"]
    BY <1>9 DEF SignpostNotYet
  <2>2. drv'.pc = "look" /\ drv'.stage = drv.stage /\ drv'.use = drv.use
    BY <1>1, <2>1 DEF Drivers
  <2>3. QED
    BY <1>2, <1>3, <2>1, <2>2 DEF Looks, Go
<1>10. CASE InstallDebug
  <2>1. drv.pc = "debug" /\ Request("DBG", Batch, "press", drv)
    BY <1>10 DEF InstallDebug
  <2>2. Sendable("DBG", Batch)
    <3>1. Batch \in Seq(BatchCommands)
      <4>1. {} \in SUBSET Points
        OBVIOUS
      <4>2. QED
        BY <1>1, <4>1, BatchSets
    <3>2. BatchCommands \subseteq Arguments
      BY DEF BatchCommands, Arguments
    <3>3. Batch \in Seq(Arguments)
      BY <3>1, <3>2
    <3>4. QED
      BY <3>3 DEF Sendable
  <2>3. "press" \in Labels /\ "press" # "poll"
    BY DEF Labels
  <2>4. Ask("DBG", Batch, "press", drv.stage, drv.use)
    BY <1>1, <2>1, <2>2, <2>3, Asked
  <2>5. QED
    BY <1>2, <1>3, <2>1, <2>4 DEF Debugs
<1>11. CASE NoDebug
  <2>1. drv.pc = "debug" /\ Batch = <<>> /\ sent' = sent /\ drv' = [drv EXCEPT !.pc = "press"]
    BY <1>11 DEF NoDebug, Goto
  <2>2. drv'.pc = "press" /\ drv'.stage = drv.stage /\ drv'.use = drv.use
    BY <1>1, <2>1 DEF Drivers
  <2>3. QED
    BY <1>2, <1>3, <2>1, <2>2 DEF Debugs, Go
<1>12. CASE PressMenuKey
  <2>1. drv.pc = "press"
    BY <1>12 DEF PressMenuKey
  <2>2. PICK key : key = <<Route[drv.stage].key>>
    OBVIOUS
  <2>3. PICK d : d = [drv EXCEPT !.stage = @ + 1, !.tries = 0]
    OBVIOUS
  <2>4. \/ drv.stage = Len(Route) /\ Request("KEY", key, "loop", drv)
        \/ drv.stage # Len(Route) /\ Request("KEY", key, "look", d)
    BY <1>12, <2>2, <2>3 DEF PressMenuKey
  <2>5. Sendable("KEY", key)
    <3>1. Route[drv.stage].key \in {"Page_Down", "6", "4", "Enter"}
      BY <1>1, RouteFacts
    <3>2. Route[drv.stage].key \in Arguments
      BY <3>1, MenuKeysAssumption DEF Arguments
    <3>3. key \in Seq(Arguments) /\ Len(key) = 1
      BY <2>2, <3>2
    <3>4. QED
      BY <3>3 DEF Sendable
  <2>6. d \in Drivers /\ d.stage = drv.stage + 1 /\ d.use = drv.use
    <3>1. drv.stage + 1 \in Nat /\ 0 \in 0 .. MaxTries
      BY <1>1, BoundsAssumption
    <3>2. QED
      BY <1>1, <2>3, <3>1 DEF Drivers
  <2>7. "loop" \in Labels /\ "look" \in Labels /\ "loop" # "poll" /\ "look" # "poll"
    BY DEF Labels
  <2>8. CASE drv.stage = Len(Route) /\ Request("KEY", key, "loop", drv)
    <3>1. Ask("KEY", key, "loop", drv.stage, drv.use)
      BY <1>1, <2>5, <2>7, <2>8, Asked
    <3>2. QED
      BY <1>2, <1>3, <2>1, <2>2, <2>8, <3>1 DEF Presses
  <2>9. CASE drv.stage # Len(Route) /\ Request("KEY", key, "look", d)
    <3>1. Ask("KEY", key, "look", d.stage, d.use)
      BY <1>1, <2>5, <2>6, <2>7, <2>9, Asked
    <3>2. QED
      BY <1>2, <1>3, <2>1, <2>2, <2>6, <2>9, <3>1 DEF Presses
  <2>10. QED
    BY <2>4, <2>8, <2>9
<1>13. CASE SnapShown
  <2>1. /\ drv.pc = "poll" /\ drv.use # "signpost" /\ sent' = sent
        /\ \E shown, new : drv' = [drv EXCEPT !.pc = "loop", !.before = {}, !.answer = NoLine,
                                              !.shown = shown, !.cached = new]
    <3>1. drv.use \in {"quiet", "changed", "all", "range"}
      BY <1>13 DEF SnapShown
    <3>2. drv.pc = "poll" /\ sent' = sent
      BY <1>13, Zenon DEF SnapShown
    <3>3. \E shown, new : drv' = [drv EXCEPT !.pc = "loop", !.before = {}, !.answer = NoLine,
                                             !.shown = shown, !.cached = new]
      BY <1>13, Zenon DEF SnapShown
    <3>4. QED
      BY <3>1, <3>2, <3>3
  <2>2. drv'.pc = "loop" /\ drv'.stage = drv.stage /\ drv'.use = drv.use
    BY <1>1, <2>1 DEF Drivers
  <2>3. QED
    BY <1>2, <1>3, <2>1, <2>2 DEF Serves, Go
<1>14. QED
  <2>1. SignpostNotYet => sent' = sent
    BY DEF SignpostNotYet
  <2>2. Receive => sent' = sent
    BY DEF Receive
  <2>3. QED
    BY <1>4, <1>5, <1>6, <1>7, <1>8, <1>9, <1>10, <1>11, <1>12, <1>13, <2>1, <2>2 DEF Driving

------------------------------------------------------------------------------
(* Debugger points                                                           *)

\* A MAME that does not run has seen no key.
Off == ~Running =>
         /\ emu.keys = 0 /\ emu.screen = "booting" /\ emu.drawing = "none" /\ emu.misfired = FALSE
         /\ queue = <<>> /\ step = NoStep

Session == At("loop") \/ (At("poll") /\ drv.use # "signpost")

\* Commands that type
Types(c) == c.op \in {"KEY", "TEXT", "TYPE"}

\* A key was sent, or is about to be.
KeysOut ==
  \/ queue # <<>> \/ step # NoStep \/ Types(sent)
  \/ drv.stage > 1 \/ drv.pc = "press" \/ Session
  \/ drv.pc = "recv" /\ drv.ret = "press" /\ sent = NoCmd

\* The points are set by then; what comes before press is the batch.
PointInv == /\ drv.pc = "recv" /\ drv.ret = "press" => sent = NoCmd \/ sent.op = "DBG"
            /\ Running /\ KeysOut => PointsIn(emu.points)

\* The steps of the machine that no key or menu has to do with
Idle == SameKeys /\ drv' = drv /\ sent' = sent /\ snaps' = snaps

\* What the machine does, with what it leaves to the driver
LEMMA MachineMoves ==
  ASSUME TypeInv, Machine
  PROVE  /\ Running /\ drv' = drv /\ args' = args
         /\ Idle \/ Boot \/ Draw \/ Frame \/ FrameWithCommand \/ Dies
<1>1. Running /\ drv' = drv /\ args' = args
  BY DEF Machine, OpenSocket, Frame, FrameWithCommand, Watched, OpenWindow, Boot, Draw,
         BasicPrints, Dies
<1>2. emu \in Mames
  BY DEF TypeInv, EmuType
<1>3. CASE Watched
  BY <1>3, SameIsSameKeys DEF Watched, Idle
<1>4. CASE OpenSocket \/ OpenWindow \/ BasicPrints
  <2>1. /\ UNCHANGED <<args, drv, sent, snaps, queue, step>>
        /\ \/ emu' = [emu EXCEPT !.sockfile = "bound"]
           \/ emu' = [emu EXCEPT !.window = TRUE]
           \/ \E rows : emu' = [emu EXCEPT !.lcd = rows]
    BY <1>4 DEF OpenSocket, OpenWindow, BasicPrints
  <2>2. SameKeys
    BY <1>2, <2>1 DEF SameKeys, Mames
  <2>3. QED
    BY <1>1, <2>1, <2>2 DEF Idle
<1>5. QED
  BY <1>1, <1>3, <1>4 DEF Machine

\* The two frames, as one step on the queue q and the machine e
LEMMA FrameStep ==
  ASSUME TypeInv, Frame \/ FrameWithCommand
  PROVE  \E e \in Mames :
           /\ emu' = Firmware(e) /\ e.proc = emu.proc /\ e.screen = emu.screen
           /\ e.drawing = emu.drawing /\ e.keys = emu.keys /\ e.misfired = emu.misfired
           /\ e.keys <= Len(Route)
           /\ IF sent.op = "DBG" THEN PointsIn(e.points) ELSE e.points = emu.points
           /\ sent' = NoCmd /\ Advance(queue \o Typed(sent))
           /\ queue \o Typed(sent) \in Seq(Entries)
           /\ ~Types(sent) => queue \o Typed(sent) = queue
<1>1. /\ args \in Runs /\ emu \in Mames /\ emu.keys <= Len(Route) /\ sent \in Command
      /\ queue \in Seq(Entries)
  BY DEF TypeInv, EmuType, WireType, QueueType
<1>2. queue \o Typed(sent) \in Seq(Entries)
  BY <1>1, TypedType
<1>3. ~Types(sent) => queue \o Typed(sent) = queue
  <2>1. ~Types(sent) => Typed(sent) = <<>>
    BY DEF Types, Typed
  <2>2. QED
    BY <1>1, <2>1
<1>4. CASE Frame
  <2>1. sent = NoCmd /\ sent' = sent /\ Advance(queue) /\ emu' = Firmware(emu)
    BY <1>4 DEF Frame
  <2>2. sent.op = "none"
    BY <2>1 DEF NoCmd
  <2>3. ~Types(sent) /\ sent.op # "DBG"
    BY <2>2 DEF Types
  <2>4. QED
    BY <1>1, <1>2, <1>3, <2>1, <2>3
<1>5. CASE FrameWithCommand
  <2> DEFINE e == IF sent.op = "DBG" THEN [emu EXCEPT !.points = AfterAll(emu.points, Batch)]
                  ELSE emu
  <2>1. emu.points \in SUBSET Points
    BY <1>1 DEF Mames
  <2>2. AfterAll(emu.points, Batch) \in SUBSET Points /\ PointsIn(AfterAll(emu.points, Batch))
    BY <1>1, <2>1, BatchSets
  <2>3. /\ e \in Mames /\ e.proc = emu.proc /\ e.screen = emu.screen /\ e.drawing = emu.drawing
        /\ e.keys = emu.keys /\ e.misfired = emu.misfired
        /\ IF sent.op = "DBG" THEN PointsIn(e.points) ELSE e.points = emu.points
    BY <1>1, <2>2 DEF Mames
  <2>4. emu' = Firmware(e) /\ sent' = NoCmd /\ Advance(queue \o Typed(sent))
    <3>1. sent.op = "DBG" => sent.arg = Batch
      BY DEF TypeInv, WireType
    <3>2. QED
      BY <1>5, <3>1 DEF FrameWithCommand
  <2> HIDE DEF e
  <2>5. QED
    BY <1>1, <1>2, <1>3, <2>3, <2>4
<1>6. QED
  BY <1>4, <1>5

\* With nothing queued and nothing down a frame does nothing.
LEMMA AdvanceIdle ==
  ASSUME Advance(<<>>), step = NoStep
  PROVE  queue' = <<>> /\ step' = NoStep
<1>1. ~(step.frames > 1)
  BY DEF NoStep, Entry
<1>2. QED
  BY <1>1 DEF Advance

\* A MAME that was killed or never launched has no keys.
LEMMA OffNext ==
  ASSUME TypeInv, Wire, Off, [Next]_vars
  PROVE  Off'
<1>1. CASE UNCHANGED vars
  BY <1>1 DEF vars, Off, Running
<1>2. CASE SameKeys
  BY <1>2 DEF SameKeys, Off, Running
<1>3. CASE Launch
  <2>1. emu' = [CleanMame EXCEPT !.proc = "running"] /\ emu \in Mames
    BY <1>3 DEF Launch, TypeInv, EmuType
  <2>2. CleanMame \in Mames
    BY <2>1 DEF CleanMame, Mames
  <2>3. emu'.proc = "running"
    BY <2>1, <2>2 DEF Mames
  <2>4. QED
    BY <2>3 DEF Off, Running
<1>4. CASE Machine
  <2>1. Running /\ emu \in Mames
    BY <1>4, MachineMoves DEF TypeInv, EmuType
  <2>2. CASE Boot \/ Draw
    <3>1. emu'.proc = emu.proc
      BY <2>1, <2>2 DEF Boot, Draw, Mames
    <3>2. QED
      BY <2>1, <3>1 DEF Off, Running
  <2>3. CASE Frame \/ FrameWithCommand
    <3>1. emu'.proc = emu.proc
      BY <2>3, FrameStep, FirmwareType DEF TypeInv
    <3>2. QED
      BY <2>1, <3>1 DEF Off, Running
  <2>4. CASE Dies
    <3>1. /\ queue' = <<>> /\ step' = NoStep
          /\ emu' = [MameStart(emu.nvram, "stale") EXCEPT !.proc = "dead"]
      BY <2>4 DEF Dies
    <3>2. /\ emu'.keys = 0 /\ emu'.screen = "booting" /\ emu'.drawing = "none"
          /\ emu'.misfired = FALSE
      BY <3>1 DEF MameStart
    <3>3. NoStep' = NoStep
      BY DEF NoStep, Entry
    <3>4. QED
      BY <3>1, <3>2, <3>3 DEF Off
  <2>5. QED
    BY <1>2, <1>4, <2>2, <2>3, <2>4, MachineMoves DEF Idle
<1>5. QED
  BY <1>1, <1>2, <1>3, <1>4, StartMoves, FinallyMoves, UserMoves, DrivingMoves DEF Next

\* The points are set by the time a key can be on its way: the batch is answered before.
LEMMA PointsNext ==
  ASSUME TypeInv, Inv, Off, PointInv, [Next]_vars
  PROVE  PointInv'
<1>1. CASE UNCHANGED vars
  BY <1>1 DEF vars, PointInv, Running, KeysOut, Types, Session, At, PointsIn, NoStep, NoCmd, Entry
<1>2. /\ drv \in Drivers /\ drv.stage \in Nat /\ drv.stage >= 1 /\ (SetOut => drv.stage = 1)
      /\ args \in Runs /\ emu \in Mames /\ Wire /\ Life
  BY DEF TypeInv, DrvType, EmuType, Inv, Drivers
<1>3. CASE Launch
  <2>1. /\ drv.pc = "start" /\ drv' = [drv EXCEPT !.pc = "window"]
        /\ UNCHANGED <<sent, queue, step>>
    BY <1>3 DEF Launch, Goto
  <2>2. drv'.pc = "window" /\ drv'.stage = 1
    BY <1>2, <2>1 DEF Drivers, SetOut
  <2>3. sent = NoCmd
    BY <1>2, <2>1 DEF Wire
  <2>4. queue = <<>> /\ step = NoStep
    <3>1. ~Running
      BY <1>2, <2>1 DEF Life, Running
    <3>2. QED
      BY <3>1 DEF Off
  <2>5. ~Types(NoCmd)
    BY DEF Types, NoCmd
  <2>6. QED
    BY <2>1, <2>2, <2>3, <2>4, <2>5 DEF PointInv, KeysOut, Session, At
<1>4. CASE Stop /\ SameKeys
  BY <1>2, <1>4 DEF Stop, Stopped, SameKeys, PointInv, KeysOut, Session, At, Running, PointsIn
<1>5. CASE SetsOut /\ SameKeys
  BY <1>2, <1>5 DEF SetsOut, Go, SameKeys, PointInv, KeysOut, Session, At, Running, PointsIn
<1>6. CASE Hears /\ SameKeys
  BY <1>2, <1>6 DEF Hears, Go, SameKeys, PointInv, KeysOut, Session, At, Running, PointsIn
<1>7. CASE Looks /\ SameKeys
  <2> USE DEF SameKeys, PointInv, KeysOut, Session, At, Running, PointsIn, Types
  <2>1. CASE Ask("SNAP", <<>>, "poll", drv.stage, "signpost") /\ drv.pc = "look"
    BY <1>7, <2>1 DEF Ask
  <2>2. CASE Go("look") /\ drv.pc = "poll"
    BY <1>7, <2>2 DEF Go
  <2>3. CASE Go(IF drv.stage = 1 THEN "debug" ELSE "press") /\ drv.pc = "poll"
    <3>1. drv.stage = 1 \/ drv.stage > 1
      BY <1>2
    <3>2. QED
      BY <1>7, <2>3, <3>1 DEF Go
  <2>4. QED
    BY <1>7, <2>1, <2>2, <2>3 DEF Looks
<1>8. CASE Debugs /\ SameKeys
  <2> USE DEF SameKeys, PointInv, KeysOut, Session, At, Running, PointsIn, Types
  <2>1. CASE Ask("DBG", Batch, "press", drv.stage, drv.use) /\ drv.pc = "debug"
    BY <1>8, <2>1 DEF Ask
  <2>2. CASE Batch = <<>> /\ Go("press")
    <3>1. PointsIn(emu.points)
      <4>1. {} \in SUBSET Points
        OBVIOUS
      <4>2. QED
        BY <1>2, <2>2, <4>1, BatchSets
    <3>2. QED
      BY <1>8, <2>2, <3>1 DEF Go
  <2>3. QED
    BY <1>8, <2>1, <2>2 DEF Debugs
<1>9. CASE Presses /\ SameKeys
  BY <1>2, <1>9 DEF Presses, Go, Ask, SameKeys, PointInv, KeysOut, Session, At, Running, PointsIn, Types
<1>10. CASE Serves /\ SameKeys
  BY <1>2, <1>10 DEF Serves, Go, Ask, SameKeys, PointInv, KeysOut, Session, At, Running, PointsIn, Types
<1>11. CASE Machine
  <2>1. drv' = drv /\ args' = args /\ Running
    BY <1>11, MachineMoves
  <2>2. CASE Idle
    BY <2>2 DEF Idle, SameKeys, PointInv, KeysOut, Session, At, Running, PointsIn, Types, NoStep,
                Entry, NoCmd
  <2>3. CASE Boot \/ Draw
    <3>1. /\ emu'.points = emu.points /\ UNCHANGED <<sent, queue, step>>
      BY <1>2, <2>3 DEF Boot, Draw, Mames
    <3>2. QED
      BY <2>1, <3>1 DEF PointInv, KeysOut, Session, At, PointsIn, Types, NoStep, Entry, NoCmd
  <2>4. CASE Frame \/ FrameWithCommand
    <3>1. PICK e \in Mames :
            /\ emu' = Firmware(e) /\ e.keys <= Len(Route)
            /\ IF sent.op = "DBG" THEN PointsIn(e.points) ELSE e.points = emu.points
            /\ sent' = NoCmd /\ Advance(queue \o Typed(sent))
            /\ ~Types(sent) => queue \o Typed(sent) = queue
      BY <2>4, FrameStep
    <3>2. emu'.points = e.points
      BY <1>2, <3>1, FirmwareType
    <3>3. (queue' # <<>> \/ step' # NoStep) => queue # <<>> \/ step # NoStep \/ Types(sent)
      BY <3>1, AdvanceIdle
    <3>4. ~(Types(sent)') /\ NoCmd' = NoCmd /\ NoStep' = NoStep
      BY <3>1 DEF Types, NoCmd, NoStep, Entry
    <3>5. KeysOut' => KeysOut \/ sent.op = "DBG"
      BY <2>1, <3>3, <3>4 DEF KeysOut, Session, At, PointInv
    <3>6. KeysOut' => PointsIn(emu'.points)
      <4>1. CASE sent.op = "DBG"
        BY <3>1, <3>2, <4>1
      <4>2. CASE sent.op # "DBG"
        BY <2>1, <3>1, <3>2, <3>5, <4>2 DEF PointInv
      <4>3. QED
        BY <4>1, <4>2
    <3>7. PointsIn(emu.points)' <=> PointsIn(emu'.points)
      BY <2>1 DEF PointsIn
    <3>8. QED
      BY <3>1, <3>4, <3>6, <3>7 DEF PointInv
  <2>5. CASE Dies
    <3>1. emu'.proc = "dead" /\ sent' = NoCmd /\ NoCmd' = NoCmd
      BY <2>5, DiesQueue DEF Dies, NoCmd
    <3>2. QED
      BY <3>1 DEF PointInv, Running
  <2>6. QED
    BY <1>11, <2>2, <2>3, <2>4, <2>5, MachineMoves
<1>12. QED
  BY <1>1, <1>2, <1>3, <1>4, <1>5, <1>6, <1>7, <1>8, <1>9, <1>10, <1>11, StartMoves, FinallyMoves,
     UserMoves, DrivingMoves DEF Next

\* That holds throughout.
LEMMA SpecOff == Spec => []Off
<1>1. Init => Off
  <2> SUFFICES ASSUME Init PROVE Off
    OBVIOUS
  <2>1. PICK left \in Leftovers : emu = MameStart(left.nvram, left.sockfile)
    BY DEF Init
  <2>2. queue = <<>> /\ step = NoStep
    BY DEF Init, BridgeInit
  <2>3. QED
    BY <2>1, <2>2 DEF MameStart, Off
<1>2. QED
  BY <1>1, OffNext, SpecTypes, SpecInv, PTL DEF Spec, Inv

\* The points are there throughout.
LEMMA SpecPoints == Spec => []PointInv
<1>1. Init => PointInv
  <2> SUFFICES ASSUME Init PROVE PointInv
    OBVIOUS
  <2>1. PICK left \in Leftovers : emu = MameStart(left.nvram, left.sockfile)
    BY DEF Init
  <2>2. ~Running
    BY <2>1 DEF MameStart, Running
  <2>3. drv.pc = "start"
    BY DEF Init, DriverStart
  <2>4. QED
    BY <2>2, <2>3 DEF PointInv
<1>2. QED
  BY <1>1, PointsNext, SpecOff, SpecTypes, SpecInv, PTL DEF Spec

------------------------------------------------------------------------------
(* Menus and their keys                                                      *)

MenuKey(k) == Layout[Route[k].key].key
AtMenu(k)  == emu.screen = Route[k].menu /\ emu.drawing = "none"

Silent(q) == \A i \in 1 .. Len(q) : q[i].fields = {}

\* No key is under way.
None(q, c) == Silent(q) /\ ~Types(c)

\* Of the keys in q the first is that of menu k, and before the last menu it is the only one.
KeyIn(q, k) ==
  \E i \in 1 .. Len(q) :
    /\ q[i].fields = {MenuKey(k)} /\ \A j \in 1 .. i - 1 : q[j].fields = {}
    /\ k < Len(Route) => \A j \in i + 1 .. Len(q) : q[j].fields = {}

\* The driver's next key is in q, and unless it is the last none follows.
Queued(q, c) == KeyIn(q, emu.keys + 1) /\ (emu.keys + 1 < Len(Route) => ~Types(c))

\* It is still a command.
Ordered(q, c) == Silent(q) /\ c.op = "KEY" /\ c.arg = <<Route[emu.keys + 1].key>>

\* The driver's next key will go down on its menu.
Coming == AtMenu(emu.keys + 1) /\ (Queued(queue, sent) \/ Ordered(queue, sent))

Pipeline == emu.keys < Len(Route) => None(queue, sent) \/ Coming

\* Where the machine is before the driver's last key
Position ==
  /\ emu.keys = 0 => emu.screen \in {"booting", "romcard", "buttons"} /\ emu.drawing = "none"
  /\ emu.keys \in 1 .. Len(Route) - 1 =>
       \/ emu.screen = Route[emu.keys].menu /\ emu.drawing = Route[emu.keys + 1].menu
       \/ AtMenu(emu.keys + 1)

\* At most the key of the menu before is down.
Held == emu.keys < Len(Route) =>
          step.fields \subseteq IF emu.keys = 0 THEN {} ELSE {MenuKey(emu.keys)}

Looking == At("poll") /\ drv.use = "signpost"
InMenus == At("look") \/ Looking \/ drv.pc = "debug" \/ At("press")

\* The menu of this stage is on the screen, and stays there until its key.
Ready == emu.keys = drv.stage - 1 /\ None(queue, sent) /\ AtMenu(drv.stage)

\* What the driver knows of the machine
Progress ==
  /\ SetOut => emu.keys = 0 /\ None(queue, sent)
  /\ InMenus => \/ emu.keys = drv.stage - 1 /\ None(queue, sent)
                \/ emu.keys = drv.stage - 2 /\ Coming
  /\ drv.pc = "debug" \/ At("press") => Ready
  /\ Looking => \A n \in Created : snaps[n].screen = Route[drv.stage].menu => Ready
  /\ Session => emu.keys = Len(Route) \/ (emu.keys = Len(Route) - 1 /\ Coming)

Menus == emu.misfired = FALSE /\ Pipeline /\ Position /\ Held

MenuInv == args.check /\ Running => Menus /\ Progress

\* What the key of menu k leads to
NextMenu(k) == IF k = Len(Route) THEN "basic" ELSE Route[k + 1].menu

\* Each menu has a picture and a key of its own, and the key leads to the next.
LEMMA RouteMenus ==
  ASSUME args \in Runs
  PROVE  /\ Len(Route) \in {1, 3}
         /\ \A k \in 1 .. Len(Route) :
              /\ Route[k].menu \notin {"none", "booting", "basic"}
              /\ Route[k].key \in DOMAIN Layout /\ Layout[Route[k].key].mods = {}
              /\ <<Route[k].menu, Route[k].key, NextMenu(k)>> \in MenuKeys
              /\ \A m \in MenuKeys : Layout[m[2]].key = MenuKey(k) =>
                   m = <<Route[k].menu, Route[k].key, NextMenu(k)>>
              /\ \A j \in 1 .. Len(Route) : j # k => /\ Route[j].menu # Route[k].menu
                                                     /\ MenuKey(j) # MenuKey(k)
<1> DEFINE keys == {"Page_Down", "6", "4", "Enter"}
<1>1. /\ keys \subseteq DOMAIN Layout
      /\ \A m, n \in keys : Layout[m].mods = {} /\ (Layout[m].key = Layout[n].key => m = n)
  BY MenuKeysAssumption
<1>2. \A m \in MenuKeys : m[2] \in keys
  BY DEF MenuKeys
<1>3. CASE args.prepared
  <2>1. Len(Route) = 1 /\ Route[1] = [menu |-> "romcard", key |-> "Enter"]
    BY <1>3, RouteFacts
  <2>2. <<"romcard", "Enter", "basic">> \in MenuKeys
        /\ \A m \in MenuKeys : m[2] = "Enter" => m = <<"romcard", "Enter", "basic">>
    BY DEF MenuKeys
  <2> HIDE DEF keys
  <2>3. \A k \in 1 .. 1 : k = 1
    OBVIOUS
  <2>4. "Enter" \in keys
    BY DEF keys
  <2>5. QED
    BY <1>1, <1>2, <2>1, <2>2, <2>3, <2>4 DEF NextMenu, MenuKey
<1>4. CASE ~args.prepared
  <2>1. /\ Len(Route) = 3
        /\ Route[1] = [menu |-> "buttons", key |-> "Page_Down"]
        /\ Route[2] = [menu |-> "wp", key |-> "6"]
        /\ Route[3] = [menu |-> "others", key |-> "4"]
    BY <1>4, RouteFacts
  <2>2. /\ <<"buttons", "Page_Down", "wp">> \in MenuKeys /\ <<"wp", "6", "others">> \in MenuKeys
        /\ <<"others", "4", "basic">> \in MenuKeys
        /\ \A m \in MenuKeys : /\ m[2] = "Page_Down" => m = <<"buttons", "Page_Down", "wp">>
                               /\ m[2] = "6" => m = <<"wp", "6", "others">>
                               /\ m[2] = "4" => m = <<"others", "4", "basic">>
    BY DEF MenuKeys
  <2>3. "Page_Down" \in keys /\ "6" \in keys /\ "4" \in keys
    OBVIOUS
  <2>4. NextMenu(1) = "wp" /\ NextMenu(2) = "others" /\ NextMenu(3) = "basic"
    BY <2>1 DEF NextMenu
  <2> HIDE DEF keys
  <2>5. \A k \in 1 .. 3 : k \in {1, 2, 3}
    OBVIOUS
  <2>6. \A k \in 1 .. 3 : /\ Route[k].menu \notin {"none", "booting", "basic"}
                          /\ Route[k].key \in DOMAIN Layout /\ Layout[Route[k].key].mods = {}
                          /\ <<Route[k].menu, Route[k].key, NextMenu(k)>> \in MenuKeys
    BY <1>1, <2>1, <2>2, <2>3, <2>4, <2>5
  <2>7. \A k \in 1 .. 3 : \A m \in MenuKeys : Layout[m[2]].key = MenuKey(k) =>
          m = <<Route[k].menu, Route[k].key, NextMenu(k)>>
    <3>1. SUFFICES ASSUME NEW k \in 1 .. 3, NEW m \in MenuKeys, Layout[m[2]].key = MenuKey(k)
                   PROVE  m = <<Route[k].menu, Route[k].key, NextMenu(k)>>
      OBVIOUS
    <3>2. Route[k].key \in keys
      BY <2>1, <2>3, <2>5
    <3>3. m[2] = Route[k].key
      BY <1>1, <1>2, <3>1, <3>2 DEF MenuKey
    <3>4. QED
      BY <2>1, <2>2, <2>4, <2>5, <3>3
  <2>8. \A k, j \in 1 .. 3 : j # k => Route[j].menu # Route[k].menu /\ MenuKey(j) # MenuKey(k)
    BY <1>1, <2>1, <2>3, <2>5 DEF MenuKey
  <2>9. QED
    BY <2>1, <2>6, <2>7, <2>8
<1>5. QED
  BY <1>3, <1>4

------------------------------------------------------------------------------
(* A frame on the way through the menus                                      *)

\* The route has a menu at every stage.
LEMMA RouteLen ==
  ASSUME args \in Runs
  PROVE  Len(Route) \in Nat /\ Len(Route) >= 1
BY RouteMenus

\* No key goes down: the firmware does nothing.
LEMMA FirmwareQuiet ==
  ASSUME NEW e \in Mames, Down = {}
  PROVE  /\ Firmware(e).drawing = e.drawing /\ Firmware(e).keys = e.keys
         /\ Firmware(e).misfired = e.misfired
<1> DEFINE hits == {m \in MenuKeys : Layout[m[2]].key \in Down}
           good == {m \in hits : m[1] = e.screen /\ e.drawing = "none"}
<1>1. good = {}
  OBVIOUS
<1>2. Firmware(e) = [e EXCEPT !.drawing = e.drawing, !.keys = e.keys,
                              !.misfired = e.misfired \/ FALSE]
  BY <1>1 DEF Firmware
<1>3. e.misfired \in BOOLEAN
  BY DEF Mames
<1>4. QED
  BY <1>2, <1>3 DEF Mames

\* The key of menu k goes down on that menu: the firmware draws the next one.
LEMMA FirmwareKey ==
  ASSUME args \in Runs, NEW e \in Mames, NEW k \in 1 .. Len(Route), e.keys + 1 = k,
         e.screen = Route[k].menu, e.drawing = "none", Down = {MenuKey(k)}
  PROVE  /\ Firmware(e).drawing = NextMenu(k) /\ Firmware(e).keys = k
         /\ Firmware(e).misfired = e.misfired
<1> DEFINE hits == {m \in MenuKeys : Layout[m[2]].key \in Down}
           good == {m \in hits : m[1] = e.screen /\ e.drawing = "none"}
           t == <<Route[k].menu, Route[k].key, NextMenu(k)>>
<1>1. t \in MenuKeys /\ \A m \in MenuKeys : Layout[m[2]].key = MenuKey(k) => m = t
  BY RouteMenus
<1>2. good = {t}
  <2>1. t[1] = Route[k].menu /\ t[2] = Route[k].key
    OBVIOUS
  <2>2. Layout[t[2]].key = MenuKey(k)
    BY <2>1 DEF MenuKey
  <2> HIDE DEF t
  <2>3. QED
    BY <1>1, <2>1, <2>2
<1>3. (CHOOSE m \in good : TRUE)[3] = NextMenu(k)
  <2>1. t[3] = NextMenu(k)
    OBVIOUS
  <2> HIDE DEF t, good
  <2>2. QED
    BY <1>2, <2>1
<1>4. Down # {} /\ e.keys < Len(Route) /\ e.misfired \in BOOLEAN
  <2>1. e.keys \in Nat /\ Len(Route) \in Nat /\ e.misfired \in BOOLEAN
    BY RouteLen DEF Mames
  <2>2. QED
    BY <2>1
<1>5. Firmware(e) = [e EXCEPT !.drawing = IF good = {} THEN @ ELSE (CHOOSE m \in good : TRUE)[3],
                              !.keys = IF Down # {} /\ e.keys < Len(Route) THEN @ + 1 ELSE @,
                              !.misfired = @ \/ (Down # {} /\ e.keys < Len(Route) /\ good = {})]
  BY DEF Firmware
<1> HIDE DEF good
<1>6. good # {}
  BY <1>2
<1>7. Firmware(e) = [e EXCEPT !.drawing = NextMenu(k), !.keys = e.keys + 1,
                              !.misfired = e.misfired]
  BY <1>3, <1>4, <1>5, <1>6
<1>8. QED
  BY <1>7 DEF Mames

\* Behind the driver's keys none is counted, and none can be wrong.
LEMMA FirmwareLate ==
  ASSUME NEW e \in Mames, ~(e.keys < Len(Route))
  PROVE  Firmware(e).keys = e.keys /\ Firmware(e).misfired = e.misfired
<1> DEFINE hits == {m \in MenuKeys : Layout[m[2]].key \in Down}
           good == {m \in hits : m[1] = e.screen /\ e.drawing = "none"}
           drawing == IF good = {} THEN e.drawing ELSE (CHOOSE m \in good : TRUE)[3]
<1>1. Firmware(e) = [e EXCEPT !.drawing = drawing, !.keys = e.keys, !.misfired = e.misfired \/ FALSE]
  BY DEF Firmware
<1>2. e.misfired \in BOOLEAN
  BY DEF Mames
<1> HIDE DEF drawing
<1>3. QED
  BY <1>1, <1>2 DEF Mames

\* A queue without keys stays without.
LEMMA SilentAdvance ==
  ASSUME NEW q \in Seq(Entries), Silent(q), Advance(q), QueueType
  PROVE  Silent(queue') /\ Down = {} /\ (step'.fields = step.fields \/ step'.fields = {})
<1>1. CASE step.frames > 1
  <2>1. step' = [step EXCEPT !.frames = @ - 1] /\ queue' = q
    BY <1>1 DEF Advance
  <2>2. step'.fields = step.fields
    BY <2>1 DEF QueueType
  <2>3. QED
    BY <2>1, <2>2 DEF Down
<1>2. CASE ~(step.frames > 1) /\ q = <<>>
  <2>1. step' = NoStep /\ queue' = q
    BY <1>2 DEF Advance
  <2>2. step'.fields = {}
    BY <2>1 DEF NoStep, Entry
  <2>3. QED
    BY <2>1, <2>2 DEF Down
<1>3. CASE ~(step.frames > 1) /\ q # <<>>
  <2>1. step' = q[1] /\ queue' = Tail(q) /\ Len(q) \in Nat \ {0}
    BY <1>3 DEF Advance
  <2>2. step'.fields = {}
    BY <2>1 DEF Silent
  <2>3. Len(Tail(q)) = Len(q) - 1 /\ \A i \in 1 .. Len(q) - 1 : Tail(q)[i] = q[i + 1]
    BY <1>3
  <2>4. \A i \in 1 .. Len(q) - 1 : i + 1 \in 1 .. Len(q)
    BY <2>1
  <2>5. \A i \in 1 .. Len(q) - 1 : Tail(q)[i].fields = {}
    BY <2>3, <2>4 DEF Silent
  <2>6. Silent(Tail(q))
    BY <2>3, <2>5 DEF Silent
  <2>7. QED
    BY <2>1, <2>2, <2>6 DEF Down
<1>4. QED
  BY <1>1, <1>2, <1>3

\* A key that waits comes nearer, or goes down.
LEMMA KeyAdvance ==
  ASSUME args \in Runs, NEW k \in 1 .. Len(Route), NEW q \in Seq(Entries), KeyIn(q, k),
         Advance(q), QueueType, MenuKey(k) \notin step.fields
  PROVE  \/ KeyIn(queue', k) /\ Down = {} /\ (step'.fields = step.fields \/ step'.fields = {})
         \/ /\ Down = {MenuKey(k)} /\ step'.fields = {MenuKey(k)}
            /\ k < Len(Route) => Silent(queue')
<1>1. CASE step.frames > 1
  <2>1. step' = [step EXCEPT !.frames = @ - 1] /\ queue' = q
    BY <1>1 DEF Advance
  <2>2. step'.fields = step.fields
    BY <2>1 DEF QueueType
  <2>3. QED
    BY <2>1, <2>2 DEF Down
<1>2. CASE ~(step.frames > 1)
  <2>1. PICK i \in 1 .. Len(q) :
          /\ q[i].fields = {MenuKey(k)} /\ \A j \in 1 .. i - 1 : q[j].fields = {}
          /\ k < Len(Route) => \A j \in i + 1 .. Len(q) : q[j].fields = {}
    BY DEF KeyIn
  <2>2. q # <<>> /\ Len(q) \in Nat \ {0} /\ i \in Nat \ {0} /\ i <= Len(q)
    BY <2>1
  <2>3. PICK t : t = Tail(q)
    OBVIOUS
  <2>4. step' = q[1] /\ queue' = t
    BY <1>2, <2>2, <2>3 DEF Advance
  <2>5. Len(t) = Len(q) - 1 /\ \A j \in 1 .. Len(q) - 1 : t[j] = q[j + 1]
    BY <2>2, <2>3
  <2>6. CASE i = 1
    <3>1. step'.fields = {MenuKey(k)}
      BY <2>1, <2>4, <2>6
    <3>2. Down = {MenuKey(k)}
      BY <3>1 DEF Down
    <3>3. k < Len(Route) => Silent(t)
      <4>1. \A j \in 1 .. Len(q) - 1 : j + 1 \in 2 .. Len(q)
        BY <2>2
      <4>2. k < Len(Route) => \A j \in 1 .. Len(q) - 1 : t[j].fields = {}
        BY <2>1, <2>5, <2>6, <4>1
      <4>3. QED
        BY <2>5, <4>2 DEF Silent
    <3>4. QED
      BY <2>4, <3>1, <3>2, <3>3
  <2>7. CASE i # 1
    <3>1. PICK h \in Nat : h = i - 1
      BY <2>2
    <3>2. h \in 1 .. Len(t) /\ 1 \in 1 .. i - 1 /\ h + 1 = i
      BY <2>2, <2>5, <2>7, <3>1
    <3>3. step'.fields = {} /\ Down = {}
      BY <2>1, <2>4, <3>2 DEF Down
    <3>4. t[h].fields = {MenuKey(k)}
      BY <2>1, <2>5, <3>2
    <3>5. \A j \in 1 .. h - 1 : t[j].fields = {}
      <4>1. \A j \in 1 .. h - 1 : j \in 1 .. Len(q) - 1 /\ j + 1 \in 1 .. i - 1
        BY <2>2, <3>1, <3>2
      <4>2. QED
        BY <2>1, <2>5, <4>1
    <3>6. k < Len(Route) => \A j \in h + 1 .. Len(t) : t[j].fields = {}
      <4>1. \A j \in h + 1 .. Len(t) : j \in 1 .. Len(q) - 1 /\ j + 1 \in i + 1 .. Len(q)
        BY <2>2, <2>5, <3>1, <3>2
      <4>2. QED
        BY <2>1, <2>5, <4>1
    <3>7. KeyIn(t, k)
      BY <3>2, <3>4, <3>5, <3>6 DEF KeyIn
    <3>8. QED
      BY <2>4, <3>3, <3>7
  <2>8. QED
    BY <2>6, <2>7
<1>3. QED
  BY <1>1, <1>2

\* Either no key is under way or one is.
LEMMA NoneOrKey ==
  ASSUME None(queue, sent)
  PROVE  ~Queued(queue, sent) /\ ~Ordered(queue, sent)
<1>1. ~Ordered(queue, sent)
  BY DEF None, Ordered, Types
<1>2. ~KeyIn(queue, emu.keys + 1)
  <2>1. SUFFICES ASSUME NEW i \in 1 .. Len(queue), queue[i].fields = {MenuKey(emu.keys + 1)}
                 PROVE  FALSE
    BY DEF KeyIn
  <2>2. queue[i].fields = {}
    BY DEF None, Silent
  <2>3. QED
    BY <2>1, <2>2
<1>3. QED
  BY <1>1, <1>2 DEF Queued

\* What a menu key adds to the queue
LEMMA MenuStrokes ==
  ASSUME args \in Runs, NEW k \in 1 .. Len(Route)
  PROVE  LET r == Strokes(Route[k].key)
         IN r \in Seq(Entries) /\ Len(r) = 2 /\ r[1].fields = {MenuKey(k)} /\ r[2].fields = {}
<1> DEFINE n == Route[k].key
<1>1. n \in DOMAIN Layout /\ Layout[n].mods = {}
  BY RouteMenus
<1>2. MenuKey(k) = Layout[n].key
  BY DEF MenuKey
<1> HIDE DEF n
<1>3. Strokes(n) = <<Entry({Layout[n].key}, Hold), Entry({}, Gap)>>
  BY <1>1 DEF Strokes, Press
<1>4. Strokes(n) \in Seq(Entries)
  BY StrokesType
<1>5. Len(Strokes(n)) = 2 /\ Strokes(n)[1].fields = {MenuKey(k)} /\ Strokes(n)[2].fields = {}
  BY <1>2, <1>3 DEF Entry
<1>6. QED
  BY <1>4, <1>5 DEF n

\* A queue whose keys all come from the driver's next one, with a command behind it
LEMMA Entering ==
  ASSUME TypeInv, emu.keys < Len(Route)
  PROVE  /\ None(queue, sent) => Silent(queue \o Typed(sent))
         /\ Queued(queue, sent) \/ Ordered(queue, sent) => KeyIn(queue \o Typed(sent), emu.keys + 1)
<1>1. /\ args \in Runs /\ emu \in Mames /\ sent \in Command /\ queue \in Seq(Entries)
      /\ Typed(sent) \in Seq(Entries)
  BY TypedTidy DEF TypeInv, EmuType, WireType, QueueType, TidyQueues
<1>2. ~Types(sent) => queue \o Typed(sent) = queue
  <2>1. ~Types(sent) => Typed(sent) = <<>>
    BY DEF Types, Typed
  <2>2. QED
    BY <1>1, <2>1
<1>3. PICK k \in 1 .. Len(Route) : k = emu.keys + 1
  <2>1. emu.keys \in Nat /\ Len(Route) \in Nat
    BY <1>1, RouteLen DEF Mames
  <2>2. QED
    BY <2>1
<1>4. None(queue, sent) => Silent(queue \o Typed(sent))
  BY <1>2 DEF None
<1>5. ASSUME Queued(queue, sent) PROVE KeyIn(queue \o Typed(sent), k)
  <2>1. KeyIn(queue, k) /\ (k < Len(Route) => ~Types(sent))
    BY <1>3, <1>5 DEF Queued
  <2>2. CASE k < Len(Route)
    BY <1>2, <2>1, <2>2
  <2>3. CASE ~(k < Len(Route))
    <3>1. PICK i \in 1 .. Len(queue) :
            queue[i].fields = {MenuKey(k)} /\ \A j \in 1 .. i - 1 : queue[j].fields = {}
      BY <2>1 DEF KeyIn
    <3>2. PICK q : q = queue \o Typed(sent)
      OBVIOUS
    <3>3. /\ Len(q) = Len(queue) + Len(Typed(sent)) /\ Len(queue) \in Nat /\ Len(Typed(sent)) \in Nat
          /\ \A j \in 1 .. Len(queue) : q[j] = queue[j]
      BY <1>1, <3>2
    <3>4. i \in 1 .. Len(q) /\ \A j \in 1 .. i - 1 : j \in 1 .. Len(queue)
      BY <3>3
    <3>5. q[i].fields = {MenuKey(k)} /\ \A j \in 1 .. i - 1 : q[j].fields = {}
      BY <3>1, <3>3, <3>4
    <3>6. KeyIn(q, k)
      BY <2>3, <3>4, <3>5 DEF KeyIn
    <3>7. QED
      BY <3>2, <3>6
  <2>4. QED
    BY <2>2, <2>3
<1>6. ASSUME Ordered(queue, sent) PROVE KeyIn(queue \o Typed(sent), k)
  <2>1. Silent(queue) /\ sent.op = "KEY" /\ sent.arg = <<Route[k].key>>
    BY <1>3, <1>6 DEF Ordered
  <2>2. sent.arg[1] = Route[k].key
    BY <2>1
  <2>3. Typed(sent) = Strokes(Route[k].key)
    BY <2>1, <2>2 DEF Typed
  <2>4. PICK r : r = Strokes(Route[k].key)
    OBVIOUS
  <2>5. r \in Seq(Entries) /\ Len(r) = 2 /\ r[1].fields = {MenuKey(k)} /\ r[2].fields = {}
    BY <1>1, <2>4, MenuStrokes
  <2>6. PICK q : q = queue \o r
    OBVIOUS
  <2>7. PICK n \in Nat : n = Len(queue)
    BY <1>1
  <2>8. /\ Len(q) = n + 2 /\ \A j \in 1 .. n : q[j] = queue[j]
        /\ \A j \in 1 .. 2 : q[n + j] = r[j]
    <3>1. /\ Len(q) = Len(queue) + Len(r) /\ \A j \in 1 .. Len(queue) : q[j] = queue[j]
          /\ \A j \in 1 .. Len(r) : q[Len(queue) + j] = r[j]
      <4>1. queue \in Seq(Entries) /\ r \in Seq(Entries)
        BY <1>1, <2>5
      <4>2. QED
        BY <2>6, <4>1
    <3>2. QED
      BY <2>5, <2>7, <3>1
  <2>9. q[n + 1] = r[1] /\ q[n + 2] = r[2]
    BY <2>8
  <2>10. \A j \in 1 .. n : q[j].fields = {}
    BY <2>1, <2>7, <2>8 DEF Silent
  <2>11. /\ n + 1 \in 1 .. Len(q) /\ \A j \in 1 .. (n + 1) - 1 : j \in 1 .. n
         /\ \A j \in (n + 1) + 1 .. Len(q) : j = n + 2
    BY <2>8
  <2>12. KeyIn(q, k)
    <3>1. q[n + 1].fields = {MenuKey(k)} /\ \A j \in 1 .. (n + 1) - 1 : q[j].fields = {}
      BY <2>5, <2>9, <2>10, <2>11
    <3>2. \A j \in (n + 1) + 1 .. Len(q) : q[j].fields = {}
      BY <2>5, <2>9, <2>11
    <3>3. QED
      BY <2>11, <3>1, <3>2 DEF KeyIn
  <2>13. QED
    BY <2>3, <2>4, <2>6, <2>12
<1>7. QED
  BY <1>3, <1>4, <1>5, <1>6

\* A frame in which no key of the driver goes down
Kept ==
  /\ emu'.keys = emu.keys /\ emu'.drawing = emu.drawing
  /\ step'.fields = step.fields \/ step'.fields = {}
  /\ None(queue, sent) => Silent(queue')
  /\ Queued(queue, sent) \/ Ordered(queue, sent) => KeyIn(queue', emu.keys + 1)

\* The frame in which the next one does
Pressed ==
  /\ Coming /\ ~None(queue, sent)
  /\ emu'.keys = emu.keys + 1 /\ emu'.drawing = NextMenu(emu.keys + 1)
  /\ step'.fields = {MenuKey(emu.keys + 1)}
  /\ emu.keys + 1 < Len(Route) => Silent(queue')

\* What is down before a key of the driver is not that key.
LEMMA NotHeld ==
  ASSUME TypeInv, Held, emu.keys < Len(Route)
  PROVE  MenuKey(emu.keys + 1) \notin step.fields
<1>1. /\ args \in Runs /\ emu.keys \in Nat /\ Len(Route) \in Nat
  BY RouteLen DEF TypeInv, EmuType, Mames
<1>2. CASE emu.keys = 0
  BY <1>2 DEF Held
<1>3. CASE emu.keys # 0
  <2>1. /\ emu.keys \in 1 .. Len(Route) /\ emu.keys + 1 \in 1 .. Len(Route)
        /\ emu.keys # emu.keys + 1
    BY <1>1, <1>3
  <2>2. MenuKey(emu.keys + 1) # MenuKey(emu.keys)
    <3>1. \A j, k \in 1 .. Len(Route) : j # k => MenuKey(j) # MenuKey(k)
      BY <1>1, RouteMenus
    <3>2. QED
      BY <2>1, <3>1
  <2>3. step.fields \subseteq {MenuKey(emu.keys)}
    BY <1>3 DEF Held
  <2>4. QED
    BY <2>2, <2>3
<1>4. QED
  BY <1>2, <1>3

\* Before the last menu a frame takes no key down but the one that is due, on its menu.
LEMMA FrameMenus ==
  ASSUME TypeInv, Menus, emu.keys < Len(Route), Frame \/ FrameWithCommand
  PROVE  /\ emu'.screen = emu.screen /\ emu'.misfired = FALSE /\ sent' = NoCmd
         /\ Kept \/ Pressed
<1>1. PICK e \in Mames :
        /\ emu' = Firmware(e) /\ e.screen = emu.screen /\ e.drawing = emu.drawing
        /\ e.keys = emu.keys /\ e.misfired = emu.misfired /\ e.keys <= Len(Route)
        /\ sent' = NoCmd /\ Advance(queue \o Typed(sent))
        /\ queue \o Typed(sent) \in Seq(Entries)
  BY FrameStep
<1>2. args \in Runs /\ emu \in Mames /\ QueueType
  BY DEF TypeInv, EmuType
<1>3. emu'.screen = emu.screen /\ sent' = NoCmd /\ emu.misfired = FALSE
  BY <1>1, <1>2, FirmwareType DEF Menus
<1>4. PICK q \in Seq(Entries) : q = queue \o Typed(sent)
  BY <1>1
<1>5. CASE None(queue, sent)
  <2>1. Silent(queue') /\ Down = {} /\ (step'.fields = step.fields \/ step'.fields = {})
    <3>1. Silent(q) /\ Advance(q)
      BY <1>1, <1>4, <1>5, Entering
    <3>2. QED
      BY <1>2, <3>1, SilentAdvance
  <2>2. emu'.drawing = emu.drawing /\ emu'.keys = emu.keys /\ emu'.misfired = FALSE
    BY <1>1, <1>3, <2>1, FirmwareQuiet
  <2>3. Kept
    BY <1>5, <2>1, <2>2, NoneOrKey DEF Kept
  <2>4. QED
    BY <1>3, <2>2, <2>3
<1>6. CASE ~None(queue, sent)
  <2>1. Coming
    BY <1>6 DEF Menus, Pipeline
  <2>2. PICK k \in 1 .. Len(Route) : k = emu.keys + 1
    <3>1. emu.keys \in Nat /\ Len(Route) \in Nat
      BY <1>2, RouteLen DEF Mames
    <3>2. QED
      BY <3>1
  <2>3. KeyIn(q, k) /\ Advance(q)
    BY <1>1, <1>4, <2>1, <2>2, Entering DEF Coming
  <2>4. MenuKey(k) \notin step.fields
    BY <2>2, NotHeld DEF Menus
  <2>5. CASE KeyIn(queue', k) /\ Down = {} /\ (step'.fields = step.fields \/ step'.fields = {})
    <3>1. emu'.drawing = emu.drawing /\ emu'.keys = emu.keys /\ emu'.misfired = FALSE
      BY <1>1, <1>3, <2>5, FirmwareQuiet
    <3>2. Kept
      BY <1>6, <2>2, <2>5, <3>1 DEF Kept
    <3>3. QED
      BY <1>3, <3>1, <3>2
  <2>6. CASE /\ Down = {MenuKey(k)} /\ step'.fields = {MenuKey(k)}
             /\ k < Len(Route) => Silent(queue')
    <3>1. e.keys + 1 = k /\ e.screen = Route[k].menu /\ e.drawing = "none"
      BY <1>1, <2>1, <2>2 DEF Coming, AtMenu
    <3>2. Firmware(e).drawing = NextMenu(k) /\ Firmware(e).keys = k
          /\ Firmware(e).misfired = e.misfired
      BY <1>2, <2>6, <3>1, FirmwareKey
    <3>3. Pressed
      BY <1>1, <1>6, <2>1, <2>2, <2>6, <3>2 DEF Pressed
    <3>4. QED
      BY <1>1, <1>3, <3>2, <3>3
  <2>7. QED
    BY <1>2, <2>3, <2>4, <2>5, <2>6, KeyAdvance
<1>7. QED
  BY <1>5, <1>6

\* A step that leaves the keys alone, and sends no command that types
LEMMA Carries ==
  ASSUME SameKeys, sent' = sent \/ (sent = NoCmd /\ ~Types(sent'))
  PROVE  /\ Menus => Menus'
         /\ None(queue, sent) => None(queue, sent)'
         /\ Coming => Coming'
         /\ \A k : AtMenu(k)' <=> AtMenu(k)
         /\ Route' = Route /\ emu'.keys = emu.keys
<1>1. /\ UNCHANGED <<args, queue, step>>
      /\ emu'.screen = emu.screen /\ emu'.drawing = emu.drawing
      /\ emu'.keys = emu.keys /\ emu'.misfired = emu.misfired
  BY DEF SameKeys
<1>2. Route' = Route
  BY <1>1 DEF Route
<1>3. \A k : MenuKey(k)' = MenuKey(k)
  BY <1>2 DEF MenuKey
<1>4. \A k : AtMenu(k)' <=> AtMenu(k)
  BY <1>1, <1>2 DEF AtMenu
<1>5. Silent(queue)' <=> Silent(queue)
  BY <1>1 DEF Silent
<1>6. \A k : KeyIn(queue, k)' <=> KeyIn(queue, k)
  <2>1. ASSUME NEW k PROVE KeyIn(queue, k)' <=> KeyIn(queue, k)
    <3>1. MenuKey(k)' = MenuKey(k)
      BY <1>3
    <3>2. QED
      BY <1>1, <1>2, <3>1 DEF KeyIn
  <2>2. QED
    BY <2>1
<1>7. Types(sent)' => Types(sent)
  BY DEF Types
<1>8. None(queue, sent) => None(queue, sent)'
  BY <1>5, <1>7 DEF None
<1>9. Queued(queue, sent) => Queued(queue, sent)'
  BY <1>1, <1>2, <1>6, <1>7 DEF Queued
<1>10. Ordered(queue, sent) => Ordered(queue, sent)'
  <2>1. Ordered(queue, sent) => sent # NoCmd
    BY DEF Ordered, NoCmd
  <2>2. QED
    BY <1>1, <1>2, <1>5, <2>1 DEF Ordered
<1>11. Coming => Coming'
  BY <1>1, <1>4, <1>9, <1>10 DEF Coming
<1>12. Pipeline => Pipeline'
  BY <1>1, <1>2, <1>8, <1>11 DEF Pipeline
<1>13. Position => Position'
  BY <1>1, <1>2, <1>4 DEF Position
<1>14. Held => Held'
  BY <1>1, <1>2, <1>3 DEF Held
<1>15. QED
  BY <1>1, <1>2, <1>4, <1>8, <1>11, <1>12, <1>13, <1>14 DEF Menus

\* A menu is at a stage the driver comes to.
LEMMA StageFacts ==
  ASSUME TypeInv
  PROVE  /\ args \in Runs /\ emu \in Mames /\ drv \in Drivers /\ sent \in Command
         /\ emu.keys \in Nat /\ emu.keys <= Len(Route)
         /\ drv.stage \in 1 .. Len(Route) /\ drv.stage \in Nat /\ drv.stage >= 1
         /\ Len(Route) \in Nat /\ Len(Route) >= 1
         /\ SetOut => drv.stage = 1
BY RouteLen DEF TypeInv, DrvType, EmuType, WireType, Drivers, Mames

\* MAME starts before any key.
LEMMA LaunchMenus ==
  ASSUME TypeInv, Inv, Off, Launch
  PROVE  MenuInv'
<1>1. args \in Runs /\ emu \in Mames /\ drv \in Drivers /\ SetOut /\ drv.stage = 1
  BY StageFacts DEF Launch, SetOut
<1>2. /\ drv.pc = "start" /\ drv' = [drv EXCEPT !.pc = "window"]
      /\ emu' = [CleanMame EXCEPT !.proc = "running"] /\ UNCHANGED <<args, sent, queue, step>>
  BY DEF Launch, Goto
<1>3. /\ emu.keys = 0 /\ emu.screen = "booting" /\ emu.drawing = "none" /\ emu.misfired = FALSE
      /\ queue = <<>> /\ step = NoStep
  <2>1. ~Running
    BY <1>2 DEF Inv, Life, Running
  <2>2. QED
    BY <2>1 DEF Off
<1>4. CleanMame \in Mames /\ CleanMame.keys = emu.keys /\ CleanMame.screen = emu.screen
      /\ CleanMame.drawing = emu.drawing /\ CleanMame.misfired = emu.misfired
  BY <1>1 DEF CleanMame, Mames
<1>5. /\ emu'.keys = 0 /\ emu'.screen = "booting" /\ emu'.drawing = "none"
      /\ emu'.misfired = FALSE
  BY <1>2, <1>3, <1>4 DEF Mames
<1>6. drv'.pc = "window"
  BY <1>1, <1>2 DEF Drivers
<1>7. None(queue, sent)'
  <2>1. sent' = NoCmd /\ queue' = <<>>
    BY <1>2, <1>3 DEF Inv, Wire
  <2>2. QED
    BY <2>1 DEF None, Silent, Types, NoCmd
<1>8. Menus'
  <2>1. step'.fields = {}
    BY <1>2, <1>3 DEF NoStep, Entry
  <2>2. Pipeline' /\ Position' /\ Held'
    <3>1. Pipeline'
      BY <1>7 DEF Pipeline
    <3>2. Position'
      BY <1>5 DEF Position
    <3>3. Held'
      BY <2>1 DEF Held
    <3>4. QED
      BY <3>1, <3>2, <3>3
  <2>3. QED
    BY <1>5, <2>2 DEF Menus
<1>9. Progress'
  BY <1>5, <1>6, <1>7 DEF Progress, SetOut, InMenus, Looking, Session, At
<1>10. QED
  BY <1>8, <1>9 DEF MenuInv

\* The steps of the driver
LEMMA StopMenus ==
  ASSUME MenuInv, SameKeys, Stop
  PROVE  MenuInv'
<1>1. Menus => Menus'
  BY Carries DEF Stop
<1>2. args' = args /\ (Running' <=> Running)
  BY DEF SameKeys, Running
<1>3. Progress'
  BY DEF Stop, Stopped, Progress, SetOut, InMenus, Looking, Session, At
<1>4. QED
  BY <1>1, <1>2, <1>3 DEF MenuInv

\* Before the driver looks nothing has been typed.
LEMMA SetsOutMenus ==
  ASSUME TypeInv, MenuInv, SameKeys, SetsOut
  PROVE  MenuInv'
<1> SUFFICES ASSUME args.check, Running PROVE Menus' /\ Progress'
  BY DEF MenuInv, SameKeys, Running
<1>1. PICK p \in {"window", "connect", "look"} : Go(p)
  BY DEF SetsOut
<1>2. sent' = sent /\ drv'.pc = p /\ drv'.stage = 1
  BY <1>1, StageFacts DEF Go, SetsOut, SetOut
<1>3. emu.keys = 0 /\ None(queue, sent) /\ Menus
  BY DEF MenuInv, Progress, SetsOut, SetOut
<1>4. Menus' /\ emu'.keys = 0 /\ None(queue, sent)'
  BY <1>2, <1>3, Carries
<1>5. Progress'
  BY <1>2, <1>4 DEF Progress, SetOut, InMenus, Looking, Session, At
<1>6. QED
  BY <1>4, <1>5

\* A response changes nothing in the machine.
LEMMA HearsMenus ==
  ASSUME MenuInv, SameKeys, snaps' = snaps, Hears
  PROVE  MenuInv'
<1> SUFFICES ASSUME args.check, Running PROVE Menus' /\ Progress'
  BY DEF MenuInv, SameKeys, Running
<1>1. /\ drv.pc = "recv" /\ drv.ret \in {"look", "poll", "press", "loop"} /\ sent' = sent
      /\ drv'.pc = drv.ret /\ drv'.stage = drv.stage /\ drv'.use = drv.use
      /\ drv'.before = drv.before \/ drv.ret # "poll"
  BY DEF Hears, Go
<1>2. /\ Menus => Menus'
      /\ None(queue, sent) => None(queue, sent)'
      /\ Coming => Coming'
      /\ \A k : AtMenu(k)' <=> AtMenu(k)
      /\ Route' = Route /\ emu'.keys = emu.keys
  BY <1>1, Carries
<1>3. Menus /\ Progress
  BY DEF MenuInv
<1>4. Ready => Ready'
  BY <1>1, <1>2 DEF Ready
<1>5. /\ (At("look"))' <=> At("look")
      /\ (At("poll"))' <=> At("poll")
      /\ (At("press"))' <=> At("press")
      /\ (At("loop"))' <=> At("loop")
      /\ ~SetOut' /\ drv'.pc # "debug"
  BY <1>1 DEF At, SetOut
<1>6. Looking' => Looking /\ Created' = Created
  BY <1>1, <1>5 DEF Looking, Created, Present, At
<1>7. InMenus' => InMenus
  BY <1>1, <1>5 DEF InMenus, Looking
<1>8. Session' => Session
  BY <1>1, <1>5 DEF Session
<1>9. Progress'
  BY <1>1, <1>2, <1>3, <1>4, <1>5, <1>6, <1>7, <1>8 DEF Progress
<1>10. QED
  BY <1>2, <1>3, <1>9

\* Only a picture taken after the last key was sent lets the driver go on to the next.
LEMMA LooksMenus ==
  ASSUME TypeInv, Wire, MenuInv, SameKeys, snaps' = snaps, Looks
  PROVE  MenuInv'
<1> SUFFICES ASSUME args.check, Running PROVE Menus' /\ Progress'
  BY DEF MenuInv, SameKeys, Running
<1>1. Menus /\ Progress
  BY DEF MenuInv
<1>2. InMenus
  BY DEF Looks, InMenus, Looking, At
<1>3. sent = NoCmd
  BY DEF Looks, Wire
<1>4. CASE drv.pc = "look" /\ Ask("SNAP", <<>>, "poll", drv.stage, "signpost")
  <2>1. /\ drv'.pc = "recv" /\ drv'.ret = "poll" /\ drv'.stage = drv.stage
        /\ drv'.before = Present /\ ~Types(sent')
    BY <1>4 DEF Ask, Types
  <2>2. /\ Menus' /\ (None(queue, sent) => None(queue, sent)') /\ (Coming => Coming')
        /\ emu'.keys = emu.keys
    BY <1>1, <1>3, <2>1, Carries
  <2>3. Created' = {}
    BY <2>1 DEF Created, Present
  <2>4. ~SetOut' /\ ~(At("press"))' /\ drv'.pc # "debug" /\ ~Session'
    BY <1>4, <2>1 DEF SetOut, At, Session, Ask
  <2>5. Progress'
    BY <1>1, <1>2, <2>1, <2>2, <2>3, <2>4 DEF Progress
  <2>6. QED
    BY <2>2, <2>5
<1>5. CASE drv.pc = "poll" /\ drv.use = "signpost" /\ Go("look")
  <2>1. drv'.pc = "look" /\ drv'.stage = drv.stage /\ sent' = sent
    BY <1>5 DEF Go
  <2>2. /\ Menus' /\ (None(queue, sent) => None(queue, sent)') /\ (Coming => Coming')
        /\ emu'.keys = emu.keys
    BY <1>1, <2>1, Carries
  <2>3. ~SetOut' /\ ~(At("press"))' /\ drv'.pc # "debug" /\ ~Session' /\ ~Looking'
    BY <2>1 DEF SetOut, At, Session, Looking
  <2>4. Progress'
    BY <1>1, <1>2, <2>1, <2>2, <2>3 DEF Progress
  <2>5. QED
    BY <2>2, <2>4
<1>6. CASE /\ drv.pc = "poll" /\ drv.use = "signpost" /\ Created # {}
           /\ args.check => snaps[Newest].screen = Route[drv.stage].menu
           /\ Go(IF drv.stage = 1 THEN "debug" ELSE "press")
  <2>1. drv'.pc \in {"debug", "press"} /\ drv'.stage = drv.stage /\ sent' = sent
    BY <1>6 DEF Go
  <2>2. Looking /\ At("poll")
    BY <1>6 DEF Looking, At
  <2>3. Newest \in Created
    BY <1>6, <2>2, NewestIsOne DEF TypeInv
  <2>4. Ready
    BY <1>1, <1>6, <2>2, <2>3 DEF Progress
  <2>5. /\ Menus' /\ (None(queue, sent) => None(queue, sent)')
        /\ \A k : AtMenu(k)' <=> AtMenu(k)
        /\ emu'.keys = emu.keys
    BY <1>1, <2>1, Carries
  <2>6. Ready'
    BY <2>1, <2>4, <2>5 DEF Ready
  <2>7. ~SetOut' /\ ~Session' /\ ~Looking'
    BY <2>1 DEF SetOut, At, Session, Looking
  <2>8. Progress'
    BY <2>6, <2>7 DEF Progress, Ready
  <2>9. QED
    BY <2>5, <2>8
<1>7. QED
  BY <1>4, <1>5, <1>6 DEF Looks

\* The points are set while the first menu waits.
LEMMA DebugsMenus ==
  ASSUME Wire, MenuInv, SameKeys, snaps' = snaps, Debugs
  PROVE  MenuInv'
<1> SUFFICES ASSUME args.check, Running PROVE Menus' /\ Progress'
  BY DEF MenuInv, SameKeys, Running
<1>1. Menus /\ Ready /\ sent = NoCmd
  BY DEF MenuInv, Progress, Debugs, Wire
<1>2. /\ drv'.stage = drv.stage /\ (sent' = sent \/ ~Types(sent'))
      /\ drv'.pc = "press" \/ (drv'.pc = "recv" /\ drv'.ret = "press")
  BY DEF Debugs, Ask, Go, Types
<1>3. /\ Menus' /\ (None(queue, sent) => None(queue, sent)')
      /\ \A k : AtMenu(k)' <=> AtMenu(k)
      /\ emu'.keys = emu.keys
  BY <1>1, <1>2, Carries
<1>4. Ready'
  BY <1>1, <1>2, <1>3 DEF Ready
<1>5. ~SetOut' /\ ~Session' /\ ~Looking'
  BY <1>2 DEF SetOut, At, Session, Looking
<1>6. Progress'
  BY <1>4, <1>5 DEF Progress, Ready
<1>7. QED
  BY <1>3, <1>6

\* The key of a menu that is there is on its way.
LEMMA PressesMenus ==
  ASSUME TypeInv, Wire, MenuInv, SameKeys, Presses
  PROVE  MenuInv'
<1> SUFFICES ASSUME args.check, Running PROVE Menus' /\ Progress'
  BY DEF MenuInv, SameKeys, Running
<1>1. Menus /\ Ready
  BY DEF MenuInv, Progress, Presses, At
<1>2. /\ emu.keys + 1 = drv.stage /\ emu.keys = drv.stage - 1 /\ emu.keys < Len(Route)
  BY <1>1, StageFacts DEF Ready
<1>3. /\ sent'.op = "KEY" /\ sent'.arg = <<Route[drv.stage].key>> /\ drv'.pc = "recv"
      /\ \/ drv.stage = Len(Route) /\ drv'.ret = "loop" /\ drv'.stage = drv.stage
         \/ drv.stage # Len(Route) /\ drv'.ret = "look" /\ drv'.stage = drv.stage + 1
  BY DEF Presses, Ask
<1>4. /\ UNCHANGED <<args, queue, step>> /\ Route' = Route
      /\ emu'.screen = emu.screen /\ emu'.drawing = emu.drawing
      /\ emu'.keys = emu.keys /\ emu'.misfired = emu.misfired
  BY DEF SameKeys, Route
<1>5. \A k : MenuKey(k)' = MenuKey(k) /\ (AtMenu(k)' <=> AtMenu(k))
  BY <1>4 DEF MenuKey, AtMenu
<1>6. Coming'
  <2>1. Silent(queue)'
    BY <1>1, <1>4 DEF Ready, None, Silent
  <2>2. Ordered(queue, sent)'
    BY <1>2, <1>3, <1>4, <2>1 DEF Ordered
  <2>3. AtMenu(emu.keys + 1)'
    BY <1>1, <1>2, <1>4, <1>5 DEF Ready
  <2>4. QED
    BY <2>2, <2>3 DEF Coming
<1>7. Menus'
  <2>1. Pipeline'
    BY <1>6 DEF Pipeline
  <2>2. Position'
    BY <1>1, <1>4, <1>5 DEF Menus, Position
  <2>3. Held'
    BY <1>1, <1>4, <1>5 DEF Menus, Held
  <2>4. QED
    BY <1>1, <1>4, <2>1, <2>2, <2>3 DEF Menus
<1>8. ~SetOut' /\ ~Looking' /\ ~(At("press"))' /\ drv'.pc # "debug"
  BY <1>3 DEF SetOut, At, Looking
<1>9. CASE drv.stage = Len(Route)
  <2>1. ~InMenus' /\ (Len(Route) - 1)' = Len(Route) - 1
    BY <1>3, <1>4, <1>8, <1>9 DEF InMenus, At
  <2>2. emu'.keys = Len(Route) - 1
    BY <1>2, <1>4, <1>9
  <2>3. Progress'
    BY <1>6, <1>8, <2>1, <2>2 DEF Progress
  <2>4. QED
    BY <1>7, <2>3
<1>10. CASE drv.stage # Len(Route)
  <2>1. ~Session'
    BY <1>3, <1>10 DEF Session, At
  <2>2. emu'.keys = drv'.stage - 2
    BY <1>2, <1>3, <1>4, <1>10, StageFacts
  <2>3. Progress'
    BY <1>6, <1>8, <2>1, <2>2 DEF Progress
  <2>4. QED
    BY <1>7, <2>3
<1>11. QED
  BY <1>9, <1>10

\* What the user types is behind the driver's last key.
LEMMA ServesMenus ==
  ASSUME TypeInv, Wire, MenuInv, SameKeys, Serves
  PROVE  MenuInv'
<1> SUFFICES ASSUME args.check, Running PROVE Menus' /\ Progress'
  BY DEF MenuInv, SameKeys, Running
<1>1. Menus /\ (emu.keys = Len(Route) \/ (emu.keys = Len(Route) - 1 /\ Coming))
  BY DEF MenuInv, Progress, Serves, Session, At
<1>2. sent = NoCmd
  BY DEF Serves, Wire
<1>3. \/ drv'.pc = "recv" /\ drv'.ret = "loop"
      \/ drv'.pc = "recv" /\ drv'.ret = "poll" /\ drv'.use # "signpost"
      \/ drv'.pc = "loop"
  BY DEF Serves, Ask, Go
<1>4. /\ UNCHANGED <<args, queue, step>> /\ Route' = Route
      /\ emu'.screen = emu.screen /\ emu'.drawing = emu.drawing
      /\ emu'.keys = emu.keys /\ emu'.misfired = emu.misfired
  BY DEF SameKeys, Route
<1>5. \A k : MenuKey(k)' = MenuKey(k) /\ (AtMenu(k)' <=> AtMenu(k))
  BY <1>4 DEF MenuKey, AtMenu
<1>6. emu.keys = Len(Route) - 1 /\ Coming => Coming'
  <2> SUFFICES ASSUME emu.keys = Len(Route) - 1, Coming PROVE Coming'
    OBVIOUS
  <2>1. Queued(queue, sent)
    BY <1>2 DEF Coming, Ordered, NoCmd
  <2>2. ~(emu.keys + 1 < Len(Route))
    BY StageFacts
  <2>3. KeyIn(queue, emu.keys + 1)'
    <3>1. MenuKey(emu.keys + 1)' = MenuKey(emu.keys + 1)
      BY <1>4 DEF MenuKey
    <3>2. QED
      BY <1>4, <2>1, <3>1 DEF Queued, KeyIn
  <2>4. Queued(queue, sent)'
    BY <1>4, <2>2, <2>3 DEF Queued
  <2>5. QED
    BY <1>4, <1>5, <2>4 DEF Coming
<1>7. Menus'
  <2>1. Pipeline'
    <3>1. emu'.keys < Len(Route)' => Coming'
      BY <1>1, <1>4, <1>6, StageFacts
    <3>2. QED
      BY <3>1 DEF Pipeline
  <2>2. Position'
    BY <1>1, <1>4, <1>5 DEF Menus, Position
  <2>3. Held'
    BY <1>1, <1>4, <1>5 DEF Menus, Held
  <2>4. QED
    BY <1>1, <1>4, <2>1, <2>2, <2>3 DEF Menus
<1>8. ~SetOut' /\ ~InMenus' /\ ~Looking' /\ ~(At("press"))' /\ drv'.pc # "debug"
  BY <1>3 DEF SetOut, At, Looking, InMenus
<1>9. Progress'
  BY <1>1, <1>4, <1>6, <1>8 DEF Progress
<1>10. QED
  BY <1>7, <1>9

\* Steps of the machine that no key has to do with
LEMMA IdleMenus ==
  ASSUME MenuInv, Idle
  PROVE  MenuInv'
<1>1. SameKeys /\ drv' = drv /\ sent' = sent /\ snaps' = snaps /\ args' = args
      /\ (Running' <=> Running)
  BY DEF Idle, SameKeys, Running
<1>2. /\ Menus => Menus'
      /\ None(queue, sent) => None(queue, sent)'
      /\ Coming => Coming'
      /\ \A k : AtMenu(k)' <=> AtMenu(k)
      /\ Route' = Route /\ emu'.keys = emu.keys
  BY <1>1, Carries
<1>3. Ready => Ready'
  BY <1>1, <1>2 DEF Ready
<1>4. /\ SetOut' <=> SetOut
      /\ InMenus' <=> InMenus
      /\ Looking' <=> Looking
      /\ Session' <=> Session
      /\ (At("press"))' <=> At("press")
      /\ Created' = Created
  BY <1>1 DEF SetOut, InMenus, Looking, Session, At, Created, Present
<1>5. Progress => Progress'
  BY <1>1, <1>2, <1>3, <1>4 DEF Progress
<1>6. QED
  BY <1>1, <1>2, <1>5 DEF MenuInv

\* The first menu appears: no key was sent.
LEMMA BootMenus ==
  ASSUME TypeInv, MenuInv, Boot
  PROVE  MenuInv'
<1>1. /\ emu.screen = "booting" /\ UNCHANGED <<args, drv, sent, lines, snaps, queue, step>>
      /\ Running
  BY DEF Boot
<1>2. /\ emu'.screen \in {"romcard", "buttons"} /\ emu'.drawing = emu.drawing
      /\ emu'.keys = emu.keys /\ emu'.misfired = emu.misfired
  <2>1. emu \in Mames /\ emu' = [emu EXCEPT !.screen = IF emu.nvram = "prepared" THEN "romcard"
                                                    ELSE "buttons"]
    BY StageFacts DEF Boot
  <2>2. QED
    BY <2>1 DEF Mames
<1> SUFFICES ASSUME args.check PROVE Menus' /\ Progress'
  BY <1>1 DEF MenuInv
<1>3. Menus /\ Progress
  BY <1>1 DEF MenuInv
<1>4. ASSUME NEW k \in 1 .. Len(Route) PROVE ~AtMenu(k) /\ Route[k].menu # "booting"
  <2>1. Route[k].menu # "booting"
    BY StageFacts, RouteMenus
  <2>2. QED
    BY <1>1, <2>1 DEF AtMenu
<1>5. Route' = Route
  BY <1>1 DEF Route
<1>6. \A k : MenuKey(k)' = MenuKey(k)
  BY <1>5 DEF MenuKey
<1>7. emu.keys < Len(Route) => emu.keys = 0 /\ ~Coming /\ None(queue, sent)
  <2> SUFFICES ASSUME emu.keys < Len(Route)
               PROVE  emu.keys = 0 /\ ~Coming /\ None(queue, sent)
    OBVIOUS
  <2>1. PICK k \in 1 .. Len(Route) : k = emu.keys + 1
    BY StageFacts
  <2>2. ~Coming
    BY <1>4, <2>1 DEF Coming
  <2>3. emu.keys = 0
    <3>1. ASSUME emu.keys # 0 PROVE FALSE
      <4>1. emu.keys \in 1 .. Len(Route) - 1 /\ emu.keys \in 1 .. Len(Route)
        BY <3>1, StageFacts
      <4>2. Route[emu.keys].menu # "booting" /\ ~AtMenu(emu.keys + 1)
        BY <1>4, <2>1, <4>1
      <4>3. QED
        BY <1>1, <1>3, <4>1, <4>2 DEF Menus, Position
    <3>2. QED
      BY <3>1
  <2>4. QED
    BY <1>3, <2>2, <2>3 DEF Menus, Pipeline
<1>8. None(queue, sent) => None(queue, sent)'
  BY <1>1 DEF None, Silent, Types
<1>9. ~Ready
  BY <1>4, StageFacts DEF Ready
<1>10. Menus'
  <2>1. Pipeline'
    BY <1>2, <1>5, <1>7, <1>8 DEF Pipeline
  <2>2. Position'
    <3>1. emu'.keys = 0 => emu'.drawing = "none"
      BY <1>2, <1>3 DEF Menus, Position
    <3>2. ~(emu'.keys \in 1 .. (Len(Route) - 1)')
      <4>1. ~(emu.keys \in 1 .. Len(Route) - 1)
        BY <1>7, StageFacts
      <4>2. QED
        BY <1>2, <1>5, <4>1
    <3>3. QED
      BY <1>2, <3>1, <3>2 DEF Position
  <2>3. Held'
    BY <1>1, <1>2, <1>3, <1>5, <1>6 DEF Menus, Held
  <2>4. QED
    BY <1>2, <1>3, <2>1, <2>2, <2>3 DEF Menus
<1>11. /\ SetOut' <=> SetOut
       /\ InMenus' <=> InMenus
       /\ Looking' <=> Looking
       /\ Session' <=> Session
       /\ (At("press"))' <=> At("press")
       /\ Created' = Created
  BY <1>1 DEF SetOut, InMenus, Looking, Session, At, Created, Present
<1>12. (emu.keys = drv.stage - 2 \/ emu.keys = Len(Route) - 1) => ~Coming
  BY <1>7, StageFacts
<1>13. Progress'
  BY <1>1, <1>2, <1>3, <1>5, <1>8, <1>9, <1>11, <1>12 DEF Progress
<1>14. QED
  BY <1>10, <1>13

\* The next menu appears, behind the key of the one before.
LEMMA DrawMenus ==
  ASSUME TypeInv, MenuInv, Draw
  PROVE  MenuInv'
<1>1. /\ emu.drawing # "none" /\ UNCHANGED <<args, drv, sent, lines, snaps, queue, step>>
      /\ Running
  BY DEF Draw
<1>2. /\ emu'.screen = emu.drawing /\ emu'.drawing = "none"
      /\ emu'.keys = emu.keys /\ emu'.misfired = emu.misfired
  <2>1. emu \in Mames /\ emu' = [emu EXCEPT !.screen = emu.drawing, !.drawing = "none"]
    BY StageFacts DEF Draw
  <2>2. QED
    BY <2>1 DEF Mames
<1> SUFFICES ASSUME args.check PROVE Menus' /\ Progress'
  BY <1>1 DEF MenuInv
<1>3. Menus /\ Progress
  BY <1>1 DEF MenuInv
<1>4. \A k : ~AtMenu(k)
  BY <1>1 DEF AtMenu
<1>5. ~Coming /\ ~Ready
  BY <1>4 DEF Coming, Ready
<1>6. Route' = Route
  BY <1>1 DEF Route
<1>7. \A k : MenuKey(k)' = MenuKey(k)
  BY <1>6 DEF MenuKey
<1>8. None(queue, sent) => None(queue, sent)'
  BY <1>1 DEF None, Silent, Types
<1>9. Menus'
  <2>1. Pipeline'
    BY <1>2, <1>3, <1>5, <1>6, <1>8 DEF Menus, Pipeline
  <2>2. Position'
    <3>1. emu.keys # 0
      BY <1>1, <1>3 DEF Menus, Position
    <3>2. emu.keys \in 1 .. Len(Route) - 1 => emu.drawing = Route[emu.keys + 1].menu
      BY <1>3, <1>4 DEF Menus, Position
    <3>3. emu.keys \in 1 .. Len(Route) - 1 => AtMenu(emu.keys + 1)'
      BY <1>2, <1>6, <3>2 DEF AtMenu
    <3>4. QED
      BY <1>2, <1>6, <3>1, <3>3 DEF Position
  <2>3. Held'
    BY <1>1, <1>2, <1>3, <1>6, <1>7 DEF Menus, Held
  <2>4. QED
    BY <1>2, <1>3, <2>1, <2>2, <2>3 DEF Menus
<1>10. /\ SetOut' <=> SetOut
       /\ InMenus' <=> InMenus
       /\ Looking' <=> Looking
       /\ Session' <=> Session
       /\ (At("press"))' <=> At("press")
       /\ Created' = Created
  BY <1>1 DEF SetOut, InMenus, Looking, Session, At, Created, Present
<1>11. Progress'
  BY <1>1, <1>2, <1>3, <1>5, <1>6, <1>8, <1>10 DEF Progress
<1>12. QED
  BY <1>9, <1>11

\* The pictures behind a frame
LEMMA FrameSnaps ==
  ASSUME TypeInv, Frame \/ FrameWithCommand, At("poll"), drv' = drv, NEW n \in Created'
  PROVE  (n \in Created /\ snaps'[n] = snaps[n]) \/ snaps'[n].screen = emu.screen
<1>1. emu \in Mames /\ snaps \in [Indices -> Picture] /\ OneNew
  BY DEF TypeInv, EmuType
<1>2. n \in Indices /\ snaps'[n] # NoSnap /\ n \notin drv.before
  BY DEF Created, Present, NoSnap
<1>3. CASE snaps' = snaps
  BY <1>2, <1>3 DEF Created, Present
<1>4. CASE snaps' # snaps
  <2>1. sent # NoCmd /\ snaps' \in Pictures
    BY <1>4 DEF Frame, FrameWithCommand
  <2>2. PICK m : /\ \A i \in Indices : i # m => snaps'[i] = snaps[i]
                 /\ snaps' # snaps => snaps'[m].screen = emu.screen
    BY <1>1, <2>1, PicturesType
  <2>3. Created = {}
    BY <1>1, <2>1 DEF OneNew
  <2>4. snaps[n] = NoSnap
    BY <1>2, <2>3 DEF Created, Present
  <2>5. n = m
    BY <1>2, <2>2, <2>4
  <2>6. QED
    BY <1>4, <2>2, <2>5
<1>5. QED
  BY <1>3, <1>4

\* A frame before the driver's last key
LEMMA EarlyFrameMenus ==
  ASSUME TypeInv, Frame \/ FrameWithCommand, Menus, Progress, emu.keys < Len(Route), args.check,
         drv' = drv, args' = args
  PROVE  Menus' /\ Progress'
<1>1. /\ emu'.screen = emu.screen /\ emu'.misfired = FALSE /\ sent' = NoCmd
      /\ Kept \/ Pressed
  BY FrameMenus
<1>2. Route' = Route
  BY DEF Route
<1>3. \A k : MenuKey(k)' = MenuKey(k)
  BY <1>2 DEF MenuKey
<1>4. ~(Types(sent)') /\ NoCmd' = NoCmd
  BY <1>1 DEF Types, NoCmd
<1>5. \A k : Silent(queue)' <=> Silent(queue')
  BY DEF Silent
<1>6. \A k : KeyIn(queue, k)' <=> KeyIn(queue', k)
  <2>1. ASSUME NEW k PROVE KeyIn(queue, k)' <=> KeyIn(queue', k)
    <3>1. MenuKey(k)' = MenuKey(k)
      BY <1>3
    <3>2. QED
      BY <1>2, <3>1 DEF KeyIn
  <2>2. QED
    BY <2>1
<1>7. /\ SetOut' <=> SetOut
      /\ InMenus' <=> InMenus
      /\ Looking' <=> Looking
      /\ Session' <=> Session
      /\ (At("press"))' <=> At("press")
      /\ drv'.stage = drv.stage /\ drv'.pc = drv.pc
  BY DEF SetOut, InMenus, Looking, Session, At
<1>8. CASE Kept
  <2>1. emu'.keys = emu.keys /\ emu'.drawing = emu.drawing
        /\ (step'.fields = step.fields \/ step'.fields = {})
    BY <1>8 DEF Kept
  <2>2. \A k : AtMenu(k)' <=> AtMenu(k)
    BY <1>1, <1>2, <2>1 DEF AtMenu
  <2>3. None(queue, sent) => None(queue, sent)'
    BY <1>4, <1>5, <1>8 DEF Kept, None
  <2>4. Coming => Coming'
    <3>1. Coming => KeyIn(queue', emu.keys + 1) /\ AtMenu(emu.keys + 1)
      BY <1>8 DEF Kept, Coming
    <3>2. Coming => Queued(queue, sent)'
      BY <1>4, <1>6, <2>1, <3>1 DEF Queued
    <3>3. QED
      BY <2>1, <2>2, <3>1, <3>2 DEF Coming
  <2>5. Menus'
    <3>1. Pipeline'
      BY <1>2, <2>1, <2>3, <2>4 DEF Menus, Pipeline
    <3>2. Position'
      BY <1>1, <1>2, <2>1, <2>2 DEF Menus, Position
    <3>3. Held'
      BY <1>2, <1>3, <2>1 DEF Menus, Held
    <3>4. QED
      BY <1>1, <3>1, <3>2, <3>3 DEF Menus
  <2>6. Ready => Ready'
    BY <1>7, <2>1, <2>2, <2>3 DEF Ready
  <2>7. ASSUME Looking, NEW n \in Created', snaps'[n].screen = Route[drv.stage].menu
        PROVE  Ready'
    <3>1. (n \in Created /\ snaps'[n] = snaps[n]) \/ snaps'[n].screen = emu.screen
      BY <2>7, FrameSnaps DEF Looking
    <3>2. CASE n \in Created /\ snaps'[n] = snaps[n]
      BY <2>6, <2>7, <3>2 DEF Progress
    <3>3. CASE emu.screen = Route[drv.stage].menu
      <4>1. \A j, k \in 1 .. Len(Route) : j # k => Route[j].menu # Route[k].menu
        BY StageFacts, RouteMenus
      <4>2. \/ emu.keys = drv.stage - 1 /\ None(queue, sent)
            \/ emu.keys = drv.stage - 2 /\ Coming
        BY <2>7 DEF Progress, InMenus
      <4>3. CASE emu.keys = drv.stage - 1 /\ None(queue, sent)
        <5>1. emu.drawing = "none"
          <6>1. CASE emu.keys = 0
            BY <6>1 DEF Menus, Position
          <6>2. CASE emu.keys # 0
            <7>1. /\ emu.keys \in 1 .. Len(Route) - 1 /\ emu.keys \in 1 .. Len(Route)
                  /\ emu.keys # drv.stage /\ drv.stage \in 1 .. Len(Route)
              BY <4>3, <6>2, StageFacts
            <7>2. Route[emu.keys].menu # Route[drv.stage].menu
              BY <4>1, <7>1
            <7>3. QED
              BY <3>3, <7>1, <7>2 DEF Menus, Position, AtMenu
          <6>3. QED
            BY <6>1, <6>2
        <5>2. Ready
          BY <3>3, <4>3, <5>1 DEF Ready, AtMenu
        <5>3. QED
          BY <2>6, <5>2
      <4>4. CASE emu.keys = drv.stage - 2 /\ Coming
        <5>1. emu.keys + 1 \in 1 .. Len(Route) /\ emu.keys + 1 # drv.stage
              /\ drv.stage \in 1 .. Len(Route)
          BY <4>4, StageFacts
        <5>2. Route[emu.keys + 1].menu # Route[drv.stage].menu
          BY <4>1, <5>1
        <5>3. QED
          BY <3>3, <4>4, <5>2 DEF Coming, AtMenu
      <4>5. QED
        BY <4>2, <4>3, <4>4
    <3>4. QED
      BY <2>7, <3>1, <3>2, <3>3
  <2>8. Progress'
    <3>1. SetOut' => emu'.keys = 0 /\ None(queue, sent)'
      BY <1>7, <2>1, <2>3 DEF Progress
    <3>2. InMenus' => \/ emu'.keys = drv'.stage - 1 /\ None(queue, sent)'
                      \/ emu'.keys = drv'.stage - 2 /\ Coming'
      BY <1>7, <2>1, <2>3, <2>4 DEF Progress
    <3>3. drv'.pc = "debug" \/ (At("press"))' => Ready'
      BY <1>7, <2>6 DEF Progress
    <3>4. Looking' => \A n \in Created' : snaps'[n].screen = Route'[drv'.stage].menu => Ready'
      BY <1>2, <1>7, <2>7
    <3>5. Session' => emu'.keys = Len(Route)' \/ (emu'.keys = (Len(Route) - 1)' /\ Coming')
      BY <1>2, <1>7, <2>1, <2>4 DEF Progress
    <3>6. QED
      BY <3>1, <3>2, <3>3, <3>4, <3>5 DEF Progress
  <2>9. QED
    BY <2>5, <2>8
<1>9. CASE Pressed
  <2>1. PICK k \in 1 .. Len(Route) : k = emu.keys + 1
    BY StageFacts
  <2>2. /\ Coming /\ ~None(queue, sent) /\ emu'.keys = k /\ emu'.drawing = NextMenu(k)
        /\ step'.fields = {MenuKey(k)} /\ (k < Len(Route) => Silent(queue'))
    BY <1>9, <2>1 DEF Pressed
  <2>3. k < Len(Route) => None(queue, sent)'
    BY <1>4, <1>5, <2>2 DEF None
  <2>4. emu'.screen = Route[k].menu
    BY <1>1, <2>1, <2>2 DEF Coming, AtMenu
  <2>5. k \in Nat /\ k # 0 /\ emu.keys = k - 1
    BY <2>1, StageFacts
  <2>6. Menus'
    <3>1. Pipeline'
      BY <1>2, <2>2, <2>3 DEF Pipeline
    <3>2. Position'
      <4>1. k \in 1 .. Len(Route) - 1 => NextMenu(k) = Route[k + 1].menu
        BY StageFacts DEF NextMenu
      <4>2. QED
        BY <1>2, <2>2, <2>4, <2>5, <4>1 DEF Position
    <3>3. Held'
      BY <1>3, <2>2, <2>5 DEF Held
    <3>4. QED
      BY <1>1, <3>1, <3>2, <3>3 DEF Menus
  <2>7. ~SetOut /\ ~Ready
    BY <2>2 DEF Progress, Ready
  <2>8. InMenus => drv.stage - 1 = k /\ k < Len(Route)
    BY <2>2, <2>5, StageFacts DEF Progress
  <2>9. ~(drv.pc = "debug") /\ ~At("press")
    BY <2>7 DEF Progress
  <2>10. Looking => \A n \in Created' : snaps'[n].screen # Route[drv.stage].menu
    <3> SUFFICES ASSUME Looking, NEW n \in Created', snaps'[n].screen = Route[drv.stage].menu
                 PROVE  FALSE
      OBVIOUS
    <3>1. (n \in Created /\ snaps'[n] = snaps[n]) \/ snaps'[n].screen = emu.screen
      BY FrameSnaps DEF Looking
    <3>2. CASE n \in Created /\ snaps'[n] = snaps[n]
      BY <2>7, <3>2 DEF Progress
    <3>3. CASE emu.screen = Route[drv.stage].menu
      <4>1. drv.stage - 1 = k
        BY <2>8 DEF InMenus
      <4>2. k # drv.stage /\ drv.stage \in 1 .. Len(Route)
        BY <2>5, <4>1, StageFacts
      <4>3. Route[k].menu # Route[drv.stage].menu
        BY <4>2, StageFacts, RouteMenus
      <4>4. QED
        BY <1>1, <2>4, <3>3, <4>3
    <3>4. QED
      BY <3>1, <3>2, <3>3
  <2>11. Session => k = Len(Route)
    BY <2>2, <2>5, StageFacts DEF Progress
  <2>12. Progress'
    <3>1. ~SetOut' /\ ~(drv'.pc = "debug") /\ ~(At("press"))'
      BY <1>7, <2>7, <2>9
    <3>2. InMenus' => emu'.keys = drv'.stage - 1 /\ None(queue, sent)'
      BY <1>7, <2>2, <2>3, <2>8
    <3>3. Looking' => \A n \in Created' : snaps'[n].screen # Route'[drv'.stage].menu
      BY <1>2, <1>7, <2>10
    <3>4. Session' => emu'.keys = Len(Route)'
      BY <1>2, <1>7, <2>2, <2>11
    <3>5. QED
      BY <3>1, <3>2, <3>3, <3>4 DEF Progress
  <2>13. QED
    BY <2>6, <2>12
<1>10. QED
  BY <1>1, <1>8, <1>9

\* A frame behind the driver's last key
LEMMA LateFrameMenus ==
  ASSUME TypeInv, Frame \/ FrameWithCommand, Menus, Progress, ~(emu.keys < Len(Route)),
         drv' = drv, args' = args
  PROVE  Menus' /\ Progress'
<1>1. PICK e \in Mames :
        emu' = Firmware(e) /\ e.keys = emu.keys /\ e.misfired = emu.misfired
  BY FrameStep
<1>2. emu'.keys = emu.keys /\ emu'.misfired = emu.misfired
  BY <1>1, FirmwareLate
<1>3. Route' = Route
  BY DEF Route
<1>4. emu.keys = Len(Route) /\ emu.keys # 0 /\ ~(emu.keys \in 1 .. Len(Route) - 1)
      /\ emu.keys # drv.stage - 1 /\ emu.keys # drv.stage - 2
  BY StageFacts
<1>5. Menus'
  <2>1. Pipeline' /\ Position' /\ Held'
    <3>1. Pipeline'
      BY <1>2, <1>3 DEF Pipeline
    <3>2. Position'
      BY <1>2, <1>3, <1>4 DEF Position
    <3>3. Held'
      BY <1>2, <1>3 DEF Held
    <3>4. QED
      BY <3>1, <3>2, <3>3
  <2>2. QED
    BY <1>2, <2>1 DEF Menus
<1>6. ~SetOut /\ ~InMenus
  BY <1>4 DEF Progress
<1>7. ~SetOut' /\ ~InMenus'
  BY <1>6 DEF SetOut, InMenus, Looking, At
<1>8. Progress'
  BY <1>2, <1>3, <1>4, <1>7 DEF Progress, InMenus
<1>9. QED
  BY <1>5, <1>8

\* MenuInv is inductive, with the types, the socket and Off.
LEMMA MenusNext ==
  ASSUME TypeInv, Inv, Off, MenuInv, [Next]_vars
  PROVE  MenuInv'
<1>1. CASE UNCHANGED vars
  <2>1. Idle
    BY <1>1, SameIsSameKeys DEF vars, Idle
  <2>2. QED
    BY <2>1, IdleMenus
<1>2. CASE Start
  <2>1. CASE Launch
    BY <2>1, LaunchMenus
  <2>2. CASE ~Launch
    BY <1>2, <2>2, StartMoves, StopMenus, SetsOutMenus
  <2>3. QED
    BY <2>1, <2>2
<1>3. CASE Driving
  <2>1. Wire
    BY DEF Inv
  <2>2. SameKeys /\ snaps' = snaps /\ (Stop \/ Hears \/ Looks \/ Debugs \/ Presses \/ Serves)
    BY <1>3, <2>1, DrivingMoves
  <2>3. QED
    BY <2>1, <2>2, StopMenus, HearsMenus, LooksMenus, DebugsMenus, PressesMenus, ServesMenus
<1>4. CASE Finally
  BY <1>4, FinallyMoves, StopMenus
<1>5. CASE User
  BY <1>5, UserMoves, StopMenus, ServesMenus DEF Inv
<1>6. CASE Machine
  <2>1. /\ Running /\ drv' = drv /\ args' = args
        /\ Idle \/ Boot \/ Draw \/ Frame \/ FrameWithCommand \/ Dies
    BY <1>6, MachineMoves
  <2>2. CASE Frame \/ FrameWithCommand
    <3>1. CASE args.check
      <4>1. Menus /\ Progress
        BY <2>1, <3>1 DEF MenuInv
      <4>2. Menus' /\ Progress'
        BY <2>1, <2>2, <3>1, <4>1, EarlyFrameMenus, LateFrameMenus
      <4>3. QED
        BY <4>2 DEF MenuInv
    <3>2. CASE ~args.check
      BY <2>1, <3>2 DEF MenuInv
    <3>3. QED
      BY <3>1, <3>2
  <2>3. CASE Dies
    BY <2>3, DiesQueue DEF MenuInv, Running
  <2>4. QED
    BY <2>1, <2>2, <2>3, IdleMenus, BootMenus, DrawMenus
<1>7. QED
  BY <1>1, <1>2, <1>3, <1>4, <1>5, <1>6 DEF Next

\* It holds throughout.
LEMMA SpecMenus == Spec => []MenuInv
<1>1. Init => MenuInv
  <2> SUFFICES ASSUME Init PROVE MenuInv
    OBVIOUS
  <2>1. PICK left \in Leftovers : emu = MameStart(left.nvram, left.sockfile)
    BY DEF Init
  <2>2. ~Running
    BY <2>1 DEF MameStart, Running
  <2>3. QED
    BY <2>2 DEF MenuInv
<1>2. QED
  BY <1>1, MenusNext, SpecOff, SpecTypes, SpecInv, PTL DEF Spec

\* wait_for_signpost, install_debug_setup, run_dwbasic_mame.py:737: every key of the driver
\* goes down on its menu, and behind the debugger points asked for.
THEOREM KeysOnTime == Spec => []KeysInTime
<1>1. TypeInv /\ Off /\ PointInv /\ MenuInv => KeysInTime
  <2> SUFFICES ASSUME TypeInv, Off, PointInv, MenuInv PROVE KeysInTime
    OBVIOUS
  <2>1. KeysOnTheirMenu
    <3>1. emu.misfired = FALSE \/ ~args.check
      BY DEF MenuInv, Off, Menus
    <3>2. QED
      BY <3>1 DEF KeysOnTheirMenu
  <2>2. DebugBeforeKeys
    BY DEF DebugBeforeKeys, PointInv, KeysOut, Off, PointsIn
  <2>3. QED
    BY <2>1, <2>2 DEF KeysInTime
<1>2. QED
  BY <1>1, SpecOff, SpecPoints, SpecMenus, SpecTypes, PTL
=============================================================================
