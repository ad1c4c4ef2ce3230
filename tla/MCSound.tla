------------------------------ MODULE MCSound ------------------------------
(* Sound with small durations.  Short: one note below a slice and one of two *)
(* slices.  Uneven: the second alone, a whole slice and a part of one.       *)
(* Whole: multiples of five units, which leave no fifths to carry.           *)
EXTENDS Sound

Short == {1, 3}
Uneven == {3}
Whole == {5, 10}
============================================================================
