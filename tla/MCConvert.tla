------------------------------ MODULE MCConvert -----------------------------
(* Convert on sources put together from pieces as they occur in gw-basic/.    *)
EXTENDS Convert

CONSTANTS X, Y, E, T, K, N, A, S, L, P, Q, C, F, R1, R2

MCNames == {X, Y, E, T, K, N, A, S, L, P, Q, C, F, R1, R2, SplitLoad}
MCSwitches == {SplitLoad, C, F}

Segment(s) == [k |-> "segment", s |-> s]
Ended(s)   == [k |-> "ends", s |-> s]
InDseg(text) == <<Segment("DSEG")>> \o text \o <<Ended("DSEG")>>
Public(n)  == [k |-> "public", n |-> n]
Extrn(n, type) == [k |-> "extrn", n |-> n, type |-> type]
Db(n, v)   == [k |-> "db", n |-> n, v |-> v]
Mov(v)     == [k |-> "mov", v |-> v]
Assign(n, v) == [k |-> "assign", n |-> n, v |-> v]
Proc(n)    == [k |-> "proc", n |-> n, far |-> FALSE]
Test(not)  == [k |-> "if", c |-> C, not |-> not]
Simply(k)  == [k |-> k]
Ten == Num(10, "none")

Pieces == {
  InDseg(<<Public(X), Db(X, Ten)>>),
  InDseg(<<Extrn(E, "data")>>),
  InDseg(<<Extrn(T, "abs")>>) \o <<Mov(Offset(T))>>,
  InDseg(<<Test(FALSE), Extrn(E, "data"), Simply("endif"), Db(Y, Num(17, "none"))>>),
  InDseg(<<Test(TRUE), Db(X, Ten), Simply("endif"), Db(Y, Ten)>>),
  <<Ended("CSEG")>> \o InDseg(<<Db(NoName, Ten)>>) \o <<Segment("CSEG")>>,
  <<Mov(Sym(X, 0)), Mov(Offset(X))>>,
  <<Mov(Sym(E, 0)), Mov(Sym(T, 0))>>,
  <<[k |-> "radix", r |-> 8], Db(NoName, Num(17, "none"))>>,
  <<[k |-> "radix", r |-> 10], Db(NoName, Num(17, "O")), [k |-> "ins86", d |-> 17]>>,
  <<Simply("comment"), [k |-> "radix", r |-> 8], Simply("delimiter"), Simply("scaffold"),
    Simply("macro"), Db(NoName, Ten), Db(NoName, Ten), Simply("endm")>>,
  <<Assign(N, Num(17, "D")), Db(NoName, Sym(N, 0))>>,
  <<Assign(N, Num(10, "O")), Assign(N, Sym(N, 1)), Db(NoName, Sym(N, 0))>>,
  <<Assign(A, Sym(N, 0)), Public(S), Assign(S, Sym(N, 0))>>,
  <<Db(NoName, Sym(A, 0)), Db(L, Ten), Assign(A, Since(L)), Db(NoName, Ten), Db(NoName, Sym(A, 0))>>,
  <<[k |-> "equ", n |-> K, v |-> Ten], Mov(Sym(K, 1)), Mov(Offset(K))>>,
  <<Test(FALSE), Db(NoName, Ten), Simply("else"), Db(NoName, Num(17, "none")), Simply("endif")>>,
  <<Public(P), Proc(P), Mov(Ten), Simply("ret"), Simply("endp"), Public(Q), Proc(Q)>>,
  <<Proc(Q)>>}

Stretch(name, start, end, occurrence, stubs) ==
  [name |-> name, feature |-> F, start |-> start, end |-> end, occurrence |-> occurrence,
   stubs |-> stubs]

MCRangeLists == {
  <<>>,
  <<Stretch(R1, P, Q, All, <<P>>)>>,
  <<Stretch(R1, L, EndOfFile, 1, <<>>), Stretch(R2, P, Q, 2, <<>>)>>,
  <<Stretch(R1, Q, EndOfFile, 1, <<P, Q>>)>>,
  <<Stretch(R1, X, Y, 1, <<>>), Stretch(R2, Q, EndOfFile, 1, <<P, Q>>)>>}

Source(pieces) == <<Segment("CSEG")>> \o FlattenSeq(pieces) \o <<Ended("CSEG"), Simply("scaffold")>>

MCTexts == {Source(p) : p \in [1 .. 3 -> Pieces]}

\* The fatal error handler of gio86.asm has the name of an error, and its address is taken.
Handler == <<Proc(T), Mov(Ten), Simply("ret")>>

OffsetTexts == {Source(p) : p \in [1 .. 2 -> {Handler, <<Mov(Offset(T))>>, <<Mov(Offset(E))>>,
                                              <<Extrn(T, "abs")>>, InDseg(<<Db(X, Ten)>>)}]}
=============================================================================
