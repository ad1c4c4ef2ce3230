---------------------------- MODULE InputBridge ----------------------------
(***************************************************************************)
(* src/tools/dwbasic_input_bridge.lua: the script inside MAME that types    *)
(* keys on the emulated matrix.  Once per frame it reads the commands that  *)
(* have arrived, and then moves the key queue on by one frame: a queue      *)
(* entry is a set of matrix fields and the frames they stay down.           *)
(***************************************************************************)
EXTENDS Naturals, Sequences, FiniteSets

CONSTANTS
  Layout,    \* the keys by name: modifiers, matrix key, and whether typed as a chord
  Return,    \* the name of the Return key
  Hold, Gap, Lead, Trail  \* frames: DWBASIC_INPUT_*_FRAMES

\* Shift and Ctrl are no keys of their own.
ASSUME LayoutAssumption == \A m, n \in DOMAIN Layout : Layout[n].key \notin Layout[m].mods

VARIABLES
  queue,     \* entries still to be applied
  step       \* the entry that is down, with the frames left; NoStep between entries

Entry(fields, frames) == [fields |-> fields, frames |-> frames]
NoStep == Entry({}, 0)

\* Modifiers go down before the key and up after it.
PressNoTrail(k) ==
  IF k.mods = {} THEN <<Entry({k.key}, Hold), Entry({}, Gap)>>
  ELSE <<Entry(k.mods, IF k.chord THEN Hold ELSE Lead),
         Entry(k.mods \cup {k.key}, Hold), Entry({}, Gap)>>

Press(k) ==
  IF k.mods = {} THEN <<Entry({k.key}, Hold), Entry({}, Gap)>>
  ELSE <<Entry(k.mods, IF k.chord THEN Hold ELSE Lead),
         Entry(k.mods \cup {k.key}, Hold),
         Entry(k.mods, IF k.chord THEN Hold ELSE Trail),
         Entry({}, Gap)>>

\* enqueue_key and enqueue_named_key add nothing for a name they do not know
Strokes(n) == IF n \in DOMAIN Layout THEN Press(Layout[n]) ELSE <<>>

\* enqueue_text goes on behind a character it cannot type
Text(names, add_return) ==
  LET typed[k \in 0 .. Len(names)] ==
        IF k = 0 THEN <<>> ELSE typed[k - 1] \o Strokes(names[k])
  IN typed[Len(names)] \o IF add_return THEN Strokes(Return) ELSE <<>>

\* What the commands that type add to the queue
Typed(command) ==
  CASE command.op = "TEXT" -> Text(command.arg, TRUE)
    [] command.op = "TYPE" -> Text(command.arg, FALSE)
    [] command.op = "KEY"  -> Strokes(command.arg[1])
    [] OTHER               -> <<>>

Answered(command) ==
  IF command.op = "KEY" /\ command.arg[1] \notin DOMAIN Layout THEN "err" ELSE "ok"

\* process_frame behind read_commands, which left the queue q
Advance(q) ==
  IF step.frames > 1
  THEN /\ step' = [step EXCEPT !.frames = @ - 1] /\ queue' = q
  ELSE IF q = <<>>
       THEN /\ step' = NoStep /\ queue' = q
       ELSE /\ step' = Head(q) /\ queue' = Tail(q)

BridgeInit == queue = <<>> /\ step = NoStep
============================================================================
