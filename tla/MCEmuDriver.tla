---------------------------- MODULE MCEmuDriver ----------------------------
(* EmuDriver with two snapshots at most per menu, a user session of two       *)
(* commands, and a snapshot that an earlier run left in the middle of the     *)
(* numbers.                                                                   *)
EXTENDS EmuDriver, TLC

Key(mods, key, chord) == [mods |-> mods, key |-> key, chord |-> chord]

MCLayout == ("Page_Down" :> Key({}, "Page_Down", FALSE)) @@ ("6" :> Key({}, "6", FALSE))
         @@ ("4" :> Key({}, "4", FALSE)) @@ ("Enter" :> Key({}, "Enter", FALSE))
         @@ ("Return" :> Key({}, "Enter", FALSE))
         @@ ("A" :> Key({"shift"}, "a", FALSE)) @@ ("ctrl+c" :> Key({"ctrl"}, "c", TRUE))

MCBlank == <<>>
MCRows  == {<<"x", "y">>, <<"y", "z">>}

MCIndices == 0 .. 9

Run(prepared, clean, check, debug, watch) ==
  [prepared |-> prepared, clean |-> clean, check |-> check, fixed |-> debug, stop |-> debug,
   watch |-> watch]

MCRuns == {Run(FALSE, FALSE, TRUE, TRUE, TRUE), Run(TRUE, TRUE, FALSE, FALSE, FALSE)}

MCLeftovers ==
  LET none == [n \in MCIndices |-> NoSnap]
      seen == [screen |-> "buttons", rows |-> <<>>]
  IN {[snaps |-> none, nvram |-> "prepared", sockfile |-> "none"],
      [snaps |-> [none EXCEPT ![2] = seen], nvram |-> "empty", sockfile |-> "stale"]}

MCTyping == {[op |-> "TEXT", arg |-> <<"unknown", "A">>], [op |-> "KEY", arg |-> <<"ctrl+c">>],
             [op |-> "KEY", arg |-> <<"unknown">>]}
============================================================================
