------------------------------- MODULE MCDisk -------------------------------
(* Instance of Disk for TLC: file numbers and slots are interchangeable.      *)
EXTENDS Disk, TLC

Symmetry == Permutations(Numbers) \cup Permutations(Handles)
==============================================================================
