------------------------------ MODULE NoteQueue ------------------------------
(***************************************************************************)
(* What DONOTE promises about background music: a bounded first-in         *)
(* first-out queue of notes.  A note that has begun sounds for its whole   *)
(* duration, one timer slice at a time, and the next one begins when it is *)
(* over.                                                                   *)
(***************************************************************************)
EXTENDS Integers, Sequences

CONSTANTS QueueLen, MaxSlice, Durations

VARIABLES
  queued,  \* the notes accepted and not yet begun
  left     \* what is left of the note that sounds, 0 in silence

vars == <<queued, left>>

Notes == [tone : BOOLEAN, dur : Durations \ {0}]

Init == queued = <<>> /\ left = 0

Accept(note) ==
  /\ Len(queued) < QueueLen
  /\ queued' = Append(queued, note)
  /\ UNCHANGED left

Slice ==
  /\ left > MaxSlice
  /\ left' = left - MaxSlice
  /\ UNCHANGED queued

Begin ==
  /\ queued # <<>>
  /\ left <= MaxSlice
  /\ left' = Head(queued).dur
  /\ queued' = Tail(queued)

Finish ==
  /\ queued = <<>>
  /\ left \in 1 .. MaxSlice
  /\ left' = 0
  /\ UNCHANGED queued

Next == (\E note \in Notes : Accept(note)) \/ Slice \/ Begin \/ Finish

Spec == Init /\ [][Next]_vars
==============================================================================
