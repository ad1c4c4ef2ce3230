------------------------------ MODULE MCTrace ------------------------------
(* Trace on a ROM of eight bytes.  A and C are segments of the profile, W is *)
(* one that shows a bank, X begins inside the bank window, E behind it but   *)
(* in the reach of X, and D at the bottom of the memory; these three are     *)
(* registered when a far transfer names them.  The same byte has several     *)
(* addresses: file 3 is A:0 and W:0, file 4 A:1, W:1, X:0 and E:0 if E is at *)
(* its own address, file 6 A:3, C:1, X:2 and E:0 if E is mapped.  Then only  *)
(* two bytes are behind E and a transfer to E:2 registers it again.          *)
EXTENDS Trace, TLC

CONSTANTS A, C, W, X, E, D, MenuSegment, NoSlot

MCSeg  == {A, C, W, X, E, D}
MCPara == (A :> 3) @@ (C :> 5) @@ (W :> 1) @@ (X :> 2) @@ (E :> 4) @@ (D :> 0)

MCProfile == [s \in MCSeg |-> CASE s = A -> [base |-> 3, max |-> 5]
                                [] s = C -> [base |-> 5, max |-> 3]
                                [] s = W -> [base |-> 3, max |-> 3]
                                [] OTHER -> [base |-> 0, max |-> 0]]

I(len, op, seg, off) == [len |-> len, op |-> op, seg |-> seg, off |-> off]
Plain(len) == I(len, "plain", Near, 0)
Ret        == I(1, "ret", Near, 0)

MCImages ==
  {(0 :> Plain(1)) @@ (1 :> Plain(1)) @@ (2 :> b2) @@ (3 :> b3) @@ (4 :> b4) @@ (5 :> b5)
    @@ (6 :> b6) @@ (7 :> b7) :
     b2 \in {I(2, "call", X, 1), I(1, "jcc", Near, 1)},
     b3 \in {I(1, "jcc", Near, 2), I(1, "call", X, 2), I(2, "jmp", D, 2), Plain(2)},
     b4 \in {I(1, "call", C, 1), I(1, "jmp", Near, 0)},
     b5 \in {I(1, "indirect", Near, 0), I(1, "call", W, 0), I(1, "call", Near, 2)},
     b6 \in {Plain(2), I(1, "call", E, 1)},
     b7 \in {Ret, I(1, "call", E, 2)}}

Seeds0 == INSTANCE TraceSeeds WITH
  C000 <- A, C000File <- 3, C772 <- MenuSegment, SegmentMax <- [s \in MCSeg |-> MCProfile[s].max],
  ThunkWords <- <<0, 1>>, MenuWords <- <<2, 0, 3, 1>>,
  DispatchTables <- <<[seg |-> A, words |-> <<1, 2, 1>>]>>, Handlers <- <<1, NoSlot, 2>>

MCTables(flags, image) == Seeds0!TableSeeds(flags, image)

MCDefault == <<<<A, 0>>>>
MCStops   == {<<C, 1>>}
MCAliases == {2, 3, 5, 6}
MCFlags   == {"thunks", "int21", "menu-vm", "dispatch"}

MCCommands == {[seed |-> <<>>, flags |-> {}],
               [seed |-> <<<<C, 0>>, <<X, 0>>>>, flags |-> {}],
               [seed |-> <<<<D, 2>>>>, flags |-> {"thunks", "dispatch"}],
               [seed |-> <<>>, flags |-> {"int21", "menu-vm"}]}
============================================================================
