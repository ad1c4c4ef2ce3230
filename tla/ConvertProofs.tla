----------------------------- MODULE ConvertProofs ----------------------------
(***************************************************************************)
(* Proofs about Convert.                                                   *)
(***************************************************************************)
EXTENDS Convert, TLAPS, FiniteSetTheorems, SequenceTheorems, WellFoundedInduction

------------------------------------------------------------------------------
(* Induction, and what is computed line by line                              *)

\* A set that has a and with k also k + 1, up to b, has all from a to b.
LEMMA UpTo ==
  ASSUME NEW a \in Nat, NEW b \in Nat, NEW S,
         a \in S, \A k \in a .. b - 1 : k \in S => k + 1 \in S
  PROVE  \A k \in a .. b : k \in S
<1> DEFINE T == {k \in a .. b : k \notin S}
<1>1. SUFFICES ASSUME T # {} PROVE FALSE
  OBVIOUS
<1>2. T \in SUBSET Nat
  OBVIOUS
<1>3. \E k \in T : \A j \in T : ~ (<<j, k>> \in OpToRel(<, Nat))
  BY <1>1, <1>2, WFMin, NatLessThanWellFounded
<1>4. PICK k \in T : \A j \in T : ~ (j < k)
  BY <1>2, <1>3, Zenon DEF OpToRel
<1>5. k \in a .. b /\ k # a
  OBVIOUS
<1>6. k - 1 \in a .. b - 1 /\ k - 1 \notin T /\ k - 1 + 1 = k
  <2>1. k - 1 \in a .. b - 1 /\ k - 1 + 1 = k /\ k - 1 < k
    BY <1>5
  <2>2. QED
    BY <1>4, <2>1
<1>7. k - 1 \in S
  BY <1>6
<1>8. QED
  BY <1>6, <1>7

\* Where each line stands follows from where the one before it does.
LEMMA PlacesSteps ==
  ASSUME NEW text, NEW n, n \in Nat, n = Len(text)
  PROVE  /\ Places(text)[0] = Outermost
         /\ \A k \in 1 .. n : Places(text)[k] = Behind(Places(text)[k - 1], text[k])
<1> DEFINE Makes(f, m) == f = [k \in 0 .. m |-> IF k = 0 THEN Outermost ELSE Behind(f[k - 1], text[k])]
           S == {m \in 0 .. n : \E f : Makes(f, m)}
           all == CHOOSE f : Makes(f, n)
<1>1. 0 \in S
  <2> DEFINE g == [k \in 0 .. 0 |-> Outermost]
  <2>1. \A k \in 0 .. 0 : k = 0
    OBVIOUS
  <2>2. Makes(g, 0)
    BY <2>1, Zenon
  <2> HIDE DEF Makes, g
  <2>3. QED
    BY <2>2
<1>2. \A m \in 0 .. n - 1 : m \in S => m + 1 \in S
  <2> SUFFICES ASSUME NEW m \in 0 .. n - 1, m \in S PROVE m + 1 \in S
    OBVIOUS
  <2>1. PICK f : Makes(f, m)
    OBVIOUS
  <2> DEFINE j == m + 1
             h == [k \in 0 .. j |-> IF k = j THEN Behind(f[k - 1], text[k]) ELSE f[k]]
  <2>2. /\ \A k \in 0 .. j : k # j => k \in 0 .. m
        /\ \A k \in 0 .. j : k # 0 => k - 1 \in 0 .. j /\ k - 1 # j
        /\ j # 0
    OBVIOUS
  <2> HIDE DEF j
  <2>3. \A k \in 0 .. m : f[k] = IF k = 0 THEN Outermost ELSE Behind(f[k - 1], text[k])
    BY <2>1, Zenon
  <2>4. ASSUME NEW k \in 0 .. j
        PROVE  h[k] = IF k = 0 THEN Outermost ELSE Behind(h[k - 1], text[k])
    <3>1. CASE k = 0
      BY <2>2, <2>3, <3>1, Zenon
    <3>2. CASE k # 0
      <4>1. h[k - 1] = f[k - 1]
        BY <2>2, <3>2, Zenon
      <4>2. h[k] = Behind(f[k - 1], text[k])
        BY <2>2, <2>3, <3>2, Zenon
      <4>3. QED
        BY <3>2, <4>1, <4>2, Zenon
    <3>3. QED
      BY <3>1, <3>2
  <2>5. Makes(h, j)
    <3>1. h = [k \in 0 .. j |-> h[k]]
      BY Zenon
    <3> HIDE DEF h
    <3>2. QED
      BY <2>4, <3>1, Zenon
  <2> HIDE DEF Makes, h
  <2>6. \E f1 : Makes(f1, m + 1)
    BY <2>5 DEF j
  <2>7. QED
    BY <2>6
<1>3. n \in S
  <2> HIDE DEF S
  <2>1. \A m \in 0 .. n : m \in S
    BY <1>1, <1>2, UpTo
  <2>2. QED
    BY <2>1
<1>4. Makes(all, n)
  <2> HIDE DEF Makes
  <2>1. QED
    BY <1>3
<1>5. Places(text) = all
  BY Zenon DEF Places
<1> HIDE DEF all
<1>6. \A k \in 0 .. n : all[k] = IF k = 0 THEN Outermost ELSE Behind(all[k - 1], text[k])
  BY <1>4, Zenon
<1>7. 0 \in 0 .. n /\ \A k \in 1 .. n : k \in 0 .. n /\ k # 0
  OBVIOUS
<1>8. all[0] = Outermost
  BY <1>6, <1>7, Zenon
<1>9. ASSUME NEW k \in 1 .. n PROVE all[k] = Behind(all[k - 1], text[k])
  BY <1>6, <1>7, Zenon
<1> HIDE DEF Makes
<1>10. QED
  BY <1>5, <1>8, <1>9

\* MASM goes from line to line.
MasmGoes(f, n, text, base, defs, dropped, stubs) ==
  /\ f[0] = Starting(base)
  /\ \A k \in 1 .. n : f[k] = Masm(text, Stub(f[k - 1], stubs[k]), k, defs, dropped)

LEMMA MasmSteps ==
  ASSUME NEW text, NEW base, NEW defs, NEW dropped, NEW stubs, NEW n, n \in Nat, n = Len(text)
  PROVE  MasmGoes(MasmStates(text, base, defs, dropped, stubs), n, text, base, defs, dropped, stubs)
<1> DEFINE Makes(f, m) == f = [k \in 0 .. m |-> IF k = 0 THEN Starting(base) ELSE Masm(text, Stub(f[k - 1], stubs[k]), k, defs, dropped)]
           S == {m \in 0 .. n : \E f : Makes(f, m)}
           all == CHOOSE f : Makes(f, n)
<1>1. 0 \in S
  <2> DEFINE g == [k \in 0 .. 0 |-> Starting(base)]
  <2>1. \A k \in 0 .. 0 : k = 0
    OBVIOUS
  <2>2. Makes(g, 0)
    BY <2>1, Zenon
  <2> HIDE DEF Makes, g
  <2>3. QED
    BY <2>2
<1>2. \A m \in 0 .. n - 1 : m \in S => m + 1 \in S
  <2> SUFFICES ASSUME NEW m \in 0 .. n - 1, m \in S PROVE m + 1 \in S
    OBVIOUS
  <2>1. PICK f : Makes(f, m)
    OBVIOUS
  <2> DEFINE j == m + 1
             h == [k \in 0 .. j |-> IF k = j THEN Masm(text, Stub(f[k - 1], stubs[k]), k, defs, dropped) ELSE f[k]]
  <2>2. /\ \A k \in 0 .. j : k # j => k \in 0 .. m
        /\ \A k \in 0 .. j : k # 0 => k - 1 \in 0 .. j /\ k - 1 # j
        /\ j # 0
    OBVIOUS
  <2> HIDE DEF j
  <2>3. \A k \in 0 .. m : f[k] = IF k = 0 THEN Starting(base) ELSE Masm(text, Stub(f[k - 1], stubs[k]), k, defs, dropped)
    BY <2>1, Zenon
  <2>4. ASSUME NEW k \in 0 .. j
        PROVE  h[k] = IF k = 0 THEN Starting(base) ELSE Masm(text, Stub(h[k - 1], stubs[k]), k, defs, dropped)
    <3>1. CASE k = 0
      BY <2>2, <2>3, <3>1, Zenon
    <3>2. CASE k # 0
      <4>1. h[k - 1] = f[k - 1]
        BY <2>2, <3>2, Zenon
      <4>2. h[k] = Masm(text, Stub(f[k - 1], stubs[k]), k, defs, dropped)
        BY <2>2, <2>3, <3>2, Zenon
      <4>3. QED
        BY <3>2, <4>1, <4>2, Zenon
    <3>3. QED
      BY <3>1, <3>2
  <2>5. Makes(h, j)
    <3>1. h = [k \in 0 .. j |-> h[k]]
      BY Zenon
    <3> HIDE DEF h
    <3>2. QED
      BY <2>4, <3>1, Zenon
  <2> HIDE DEF Makes, h
  <2>6. \E f1 : Makes(f1, m + 1)
    BY <2>5 DEF j
  <2>7. QED
    BY <2>6
<1>3. n \in S
  <2> HIDE DEF S
  <2>1. \A m \in 0 .. n : m \in S
    BY <1>1, <1>2, UpTo
  <2>2. QED
    BY <2>1
<1>4. Makes(all, n)
  <2> HIDE DEF Makes
  <2>1. QED
    BY <1>3
<1>5. MasmStates(text, base, defs, dropped, stubs) = all
  BY Zenon DEF MasmStates
<1> HIDE DEF all
<1>6. \A k \in 0 .. n : all[k] = IF k = 0 THEN Starting(base) ELSE Masm(text, Stub(all[k - 1], stubs[k]), k, defs, dropped)
  BY <1>4, Zenon
<1>7. 0 \in 0 .. n /\ \A k \in 1 .. n : k \in 0 .. n /\ k # 0
  OBVIOUS
<1>8. all[0] = Starting(base)
  BY <1>6, <1>7, Zenon
<1>9. ASSUME NEW k \in 1 .. n PROVE all[k] = Masm(text, Stub(all[k - 1], stubs[k]), k, defs, dropped)
  BY <1>6, <1>7, Zenon
<1> HIDE DEF Makes
<1>10. QED
  BY <1>5, <1>8, <1>9 DEF MasmGoes

\* So does NASM.
LEMMA NasmSteps ==
  ASSUME NEW text, NEW defs, NEW n, n \in Nat, n = Len(text)
  PROVE  /\ NasmStates(text, defs)[0] = Nothing
         /\ \A k \in 1 .. n : NasmStates(text, defs)[k] = Nasm(NasmStates(text, defs)[k - 1], text[k], defs)
<1> DEFINE Makes(f, m) == f = [k \in 0 .. m |-> IF k = 0 THEN Nothing ELSE Nasm(f[k - 1], text[k], defs)]
           S == {m \in 0 .. n : \E f : Makes(f, m)}
           all == CHOOSE f : Makes(f, n)
<1>1. 0 \in S
  <2> DEFINE g == [k \in 0 .. 0 |-> Nothing]
  <2>1. \A k \in 0 .. 0 : k = 0
    OBVIOUS
  <2>2. Makes(g, 0)
    BY <2>1, Zenon
  <2> HIDE DEF Makes, g
  <2>3. QED
    BY <2>2
<1>2. \A m \in 0 .. n - 1 : m \in S => m + 1 \in S
  <2> SUFFICES ASSUME NEW m \in 0 .. n - 1, m \in S PROVE m + 1 \in S
    OBVIOUS
  <2>1. PICK f : Makes(f, m)
    OBVIOUS
  <2> DEFINE j == m + 1
             h == [k \in 0 .. j |-> IF k = j THEN Nasm(f[k - 1], text[k], defs) ELSE f[k]]
  <2>2. /\ \A k \in 0 .. j : k # j => k \in 0 .. m
        /\ \A k \in 0 .. j : k # 0 => k - 1 \in 0 .. j /\ k - 1 # j
        /\ j # 0
    OBVIOUS
  <2> HIDE DEF j
  <2>3. \A k \in 0 .. m : f[k] = IF k = 0 THEN Nothing ELSE Nasm(f[k - 1], text[k], defs)
    BY <2>1, Zenon
  <2>4. ASSUME NEW k \in 0 .. j
        PROVE  h[k] = IF k = 0 THEN Nothing ELSE Nasm(h[k - 1], text[k], defs)
    <3>1. CASE k = 0
      BY <2>2, <2>3, <3>1, Zenon
    <3>2. CASE k # 0
      <4>1. h[k - 1] = f[k - 1]
        BY <2>2, <3>2, Zenon
      <4>2. h[k] = Nasm(f[k - 1], text[k], defs)
        BY <2>2, <2>3, <3>2, Zenon
      <4>3. QED
        BY <3>2, <4>1, <4>2, Zenon
    <3>3. QED
      BY <3>1, <3>2
  <2>5. Makes(h, j)
    <3>1. h = [k \in 0 .. j |-> h[k]]
      BY Zenon
    <3> HIDE DEF h
    <3>2. QED
      BY <2>4, <3>1, Zenon
  <2> HIDE DEF Makes, h
  <2>6. \E f1 : Makes(f1, m + 1)
    BY <2>5 DEF j
  <2>7. QED
    BY <2>6
<1>3. n \in S
  <2> HIDE DEF S
  <2>1. \A m \in 0 .. n : m \in S
    BY <1>1, <1>2, UpTo
  <2>2. QED
    BY <2>1
<1>4. Makes(all, n)
  <2> HIDE DEF Makes
  <2>1. QED
    BY <1>3
<1>5. NasmStates(text, defs) = all
  BY Zenon DEF NasmStates
<1> HIDE DEF all
<1>6. \A k \in 0 .. n : all[k] = IF k = 0 THEN Nothing ELSE Nasm(all[k - 1], text[k], defs)
  BY <1>4, Zenon
<1>7. 0 \in 0 .. n /\ \A k \in 1 .. n : k \in 0 .. n /\ k # 0
  OBVIOUS
<1>8. all[0] = Nothing
  BY <1>6, <1>7, Zenon
<1>9. ASSUME NEW k \in 1 .. n PROVE all[k] = Nasm(all[k - 1], text[k], defs)
  BY <1>6, <1>7, Zenon
<1> HIDE DEF Makes
<1>10. QED
  BY <1>5, <1>8, <1>9

------------------------------------------------------------------------------
(* Texts one line longer                                                     *)

NasmTo(text, defs) == NasmStates(text, defs)[Len(text)]

LEMMA NasmNone == \A defs : NasmTo(<<>>, defs) = Nothing
<1>1. Len(<<>>) = 0 /\ Len(<<>>) \in Nat
  OBVIOUS
<1>2. QED
  BY <1>1, NasmSteps DEF NasmTo

LEMMA NasmOne ==
  ASSUME NEW S, NEW text \in Seq(S), NEW l \in S, NEW defs
  PROVE  NasmTo(Append(text, l), defs) = Nasm(NasmTo(text, defs), l, defs)
<1> DEFINE n == Len(text)
           t == Append(text, l)
           f == NasmStates(t, defs)
           g == NasmStates(text, defs)
           T == {k \in 0 .. n : f[k] = g[k]}
<1>1. n \in Nat /\ n + 1 \in Nat /\ Len(t) = n + 1 /\ t[n + 1] = l
      /\ \A k \in 1 .. n : t[k] = text[k] /\ k \in 1 .. n + 1
  BY AppendProperties, LenProperties
<1>2. f[0] = Nothing /\ \A k \in 1 .. n + 1 : f[k] = Nasm(f[k - 1], t[k], defs)
  <2> HIDE DEF t
  <2>1. QED
    BY <1>1, NasmSteps
<1>3. g[0] = Nothing /\ \A k \in 1 .. n : g[k] = Nasm(g[k - 1], text[k], defs)
  BY <1>1, NasmSteps
<1> HIDE DEF t, f, g, n
<1>4. 0 \in T
  BY <1>1, <1>2, <1>3
<1>5. ASSUME NEW k \in 0 .. n - 1, k \in T PROVE k + 1 \in T
  <2>1. PICK j \in 1 .. n : j = k + 1 /\ j - 1 = k
    BY <1>1
  <2>2. f[j] = g[j]
    BY <1>1, <1>2, <1>3, <1>5, <2>1
  <2>3. QED
    BY <1>1, <2>1, <2>2
<1>6. n \in T
  <2> HIDE DEF T
  <2>1. \A k \in 0 .. n : k \in T
    BY <1>1, <1>4, <1>5, UpTo
  <2>2. QED
    BY <1>1, <2>1
<1>7. f[n + 1] = Nasm(f[n], l, defs)
  <2>1. PICK j \in 1 .. n + 1 : j = n + 1 /\ j - 1 = n
    BY <1>1
  <2>2. QED
    BY <1>1, <1>2, <2>1
<1>8. QED
  BY <1>1, <1>6, <1>7 DEF NasmTo, t, f, g, n

------------------------------------------------------------------------------
(* The states of an assembly                                                 *)

Values  == ({"number"} \X Int) \cup ({"address", "constant"} \X Names)
Given   == {NoValue} \cup [k : {"is"}, v : Values] \cup [k : {"num"}, d : Nat, suffix : {"O"}]
           \cup [k : {"sym"}, n : Names, add : Int] \cup [k : {"const"}, n : Names]
Whats   == {<<"ret", <<>>>>} \cup ({"label"} \X Names) \cup ({"db", "mov"} \X (Values \cup ({"contents"} \X Names)))
Opened  == Segments \cup {"unclassed"}
Entries == [seg : Opened \cup {"none"}, what : Whats]

\* Operands as the converter writes them
Converted == Operands \cup [k : {"const"}, n : Names]

States ==
  [segs : Seq(Opened), live : Seq(BOOLEAN), skip : {"none", "comment", "macro"}, radix : {8, 10},
   classed : SUBSET Segments, val : [Names -> Given], at : [Names -> Int], count : Int,
   image : Seq(Entries)]

\* An assembly starts.
LEMMA NothingTyped ==
  ASSUME NEW b \in {8, 10}
  PROVE  /\ Nothing \in States /\ Starting(b) \in States
         /\ Starting(b).radix = b
         /\ \A fld \in {"segs", "live", "skip", "classed", "val", "at", "count", "image"} :
              Starting(b)[fld] = Nothing[fld]
<1>1. <<>> \in Seq(Opened) /\ <<>> \in Seq(BOOLEAN) /\ <<>> \in Seq(Entries)
  OBVIOUS
<1>2. [x \in Names |-> NoValue] \in [Names -> Given] /\ [x \in Names |-> 0] \in [Names -> Int]
  BY DEF Given
<1>3. Nothing \in States
  BY <1>1, <1>2 DEF Nothing, States
<1>4. QED
  BY <1>3 DEF States, Starting

\* What placing something does
LEMMA PlaceFields ==
  ASSUME NEW st \in States, NEW w \in Whats
  PROVE  /\ Place(st, w) \in States
         /\ Place(st, w).image = Append(st.image, [seg |-> Seg(st), what |-> w])
         /\ \A fld \in {"segs", "live", "skip", "radix", "classed", "val", "at", "count"} :
              Place(st, w)[fld] = st[fld]
<1>1. Seg(st) \in Opened \cup {"none"}
  <2>1. st.segs \in Seq(Opened)
    BY DEF States
  <2>2. CASE st.segs = <<>>
    BY <2>2 DEF Seg
  <2>3. CASE st.segs # <<>>
    <3>1. Len(st.segs) \in 1 .. Len(st.segs)
      BY <2>1, <2>3, EmptySeq
    <3>2. st.segs[Len(st.segs)] \in Opened
      BY <2>1, <3>1, ElementOfSeq
    <3>3. QED
      BY <2>3, <3>2 DEF Seg, Last
  <2>4. QED
    BY <2>2, <2>3
<1>2. PICK e \in Entries : e = [seg |-> Seg(st), what |-> w]
  BY <1>1 DEF Entries
<1>3. Append(st.image, e) \in Seq(Entries)
  BY AppendProperties DEF States
<1>4. Place(st, w) = [st EXCEPT !.image = Append(st.image, e)]
  BY <1>2 DEF Place
<1>5. QED
  BY <1>2, <1>3, <1>4 DEF States

------------------------------------------------------------------------------
(* What names stand for                                                      *)

\* What a name stands for given what the others do; the state does not matter.
Reads(f, val, x) ==
  CASE val[x].k = "none" -> <<"address", x>>
    [] val[x].k = "is"   -> val[x].v
    [] val[x].k = "const" -> <<"constant", val[x].n>>
    [] val[x].k = "num"  -> <<"number", ValueIn(val[x].d, 8)>>
    [] val[x].k = "sym"  -> Plus(f[val[x].n], val[x].add)

Solves(f, val) == \A x \in Names : f[x] = Reads(f, val, x)

\* Definitions by name do not run in circles.
Ranked(rank, val) == \A x \in Names : val[x].k = "sym" => rank[val[x].n] < rank[x]

LEMMA ValueInInt ==
  ASSUME NEW n \in Nat, NEW base \in {8, 10}
  PROVE  ValueIn(n, base) \in Nat
<1>1. n \div 10 \in Nat /\ n % 10 \in Nat
  OBVIOUS
<1>2. \A a, b \in Nat : a * 8 + b \in Nat /\ a * 10 + b \in Nat
  OBVIOUS
<1>3. QED
  BY <1>1, <1>2 DEF ValueIn

LEMMA PlusValue ==
  ASSUME NEW v \in Values, NEW add \in Int
  PROVE  Plus(v, add) \in Values
BY DEF Plus, Values

LEMMA ReadsBy ==
  ASSUME NEW st \in States, NEW f, NEW x \in Names
  PROVE  (IF st.val[x] = NoValue THEN <<"address", x>> ELSE ValueBy(f, st, st.val[x]))
           = Reads(f, st.val, x)
<1>1. st.val[x] \in Given
  BY DEF States
<1>2. CASE st.val[x] = NoValue
  BY <1>2 DEF Reads, NoValue
<1>3. CASE st.val[x] \in [k : {"is"}, v : Values]
  BY <1>3 DEF Reads, ValueBy, NoValue
<1>4. CASE st.val[x] \in [k : {"num"}, d : Nat, suffix : {"O"}]
  BY <1>4 DEF Reads, ValueBy, NoValue
<1>5. CASE st.val[x] \in [k : {"sym"}, n : Names, add : Int]
  BY <1>5 DEF Reads, ValueBy, NoValue
<1>6. CASE st.val[x] \in [k : {"const"}, n : Names]
  BY <1>6 DEF Reads, ValueBy, NoValue
<1>7. QED
  BY <1>1, <1>2, <1>3, <1>4, <1>5, <1>6 DEF Given

\* A solution is what the names stand for if no definition runs in a circle.
LEMMA StandsFor ==
  ASSUME NEW st \in States, NEW f \in [Names -> Values], NEW rank \in [Names -> Nat],
         Solves(f, st.val), Ranked(rank, st.val)
  PROVE  Stands(st) = f
<1> DEFINE By(g) == [x \in Names |-> IF st.val[x] = NoValue THEN <<"address", x>>
                                     ELSE ValueBy(g, st, st.val[x])]
           h == CHOOSE g : g = By(g)
<1>1. Stands(st) = h
  BY Zenon DEF Stands
<1>2. f = By(f)
  <2>1. \A x \in Names : f[x] = By(f)[x]
    BY ReadsBy DEF Solves
  <2>2. f = [x \in Names |-> f[x]]
    OBVIOUS
  <2>3. QED
    BY <2>1, <2>2, Zenon
<1>3. h = By(h)
  <2> HIDE DEF By
  <2>1. QED
    BY <1>2
<1>4. DOMAIN h = Names /\ h = [x \in Names |-> h[x]]
  BY <1>3, Zenon
<1>5. \A x \in Names : h[x] = Reads(h, st.val, x)
  <2> SUFFICES ASSUME NEW x \in Names PROVE h[x] = Reads(h, st.val, x)
    OBVIOUS
  <2>1. h[x] = IF st.val[x] = NoValue THEN <<"address", x>> ELSE ValueBy(h, st, st.val[x])
    BY <1>3, Zenon
  <2> HIDE DEF h
  <2>2. QED
    BY <2>1, ReadsBy
<1> HIDE DEF By, h
<1> DEFINE T == {k \in Nat : \E x \in Names : rank[x] = k /\ h[x] # f[x]}
<1>6. T = {}
  <2> SUFFICES ASSUME T # {} PROVE FALSE
    OBVIOUS
  <2>1. T \in SUBSET Nat
    OBVIOUS
  <2>2. \E k \in T : \A j \in T : ~ (<<j, k>> \in OpToRel(<, Nat))
    BY <2>1, WFMin, NatLessThanWellFounded
  <2>3. PICK k \in T : \A j \in T : ~ (j < k)
    BY <2>1, <2>2, Zenon DEF OpToRel
  <2>4. PICK x \in Names : rank[x] = k /\ h[x] # f[x]
    OBVIOUS
  <2>5. st.val[x] \in Given
    BY DEF States
  <2>6. st.val[x].k = "sym" /\ st.val[x].n \in Names
    <3>1. f[x] = Reads(f, st.val, x) /\ h[x] = Reads(h, st.val, x)
      BY <1>5 DEF Solves
    <3>2. CASE st.val[x].k \in {"none", "is", "num", "const"}
      BY <2>4, <3>1, <3>2 DEF Reads
    <3>3. QED
      BY <2>5, <3>2 DEF Given, NoValue
  <2>7. rank[st.val[x].n] < k /\ rank[st.val[x].n] \in Nat
    BY <2>4, <2>6 DEF Ranked
  <2>8. h[st.val[x].n] = f[st.val[x].n]
    BY <2>3, <2>6, <2>7
  <2>9. h[x] = f[x]
    BY <1>5, <2>6, <2>8 DEF Solves, Reads
  <2>10. QED
    BY <2>4, <2>9
<1>7. \A x \in Names : h[x] = f[x]
  BY <1>6
<1>8. QED
  BY <1>1, <1>4, <1>7

------------------------------------------------------------------------------
(* Two assemblies alike                                                      *)

\* The constants of a state of MASM and of one of NASM stand for the same.
Meaning(u, v) ==
  /\ \A x \in Names : u[x].k # "sym"
  /\ \E f \in [Names -> Values], rank \in [Names -> Nat] :
       Solves(f, u) /\ Solves(f, v) /\ Ranked(rank, v)

\* A state of MASM and a state of NASM, alike up to the segments.
Alike(d, m, n) ==
  /\ m \in States /\ n \in States
  /\ m.at = n.at /\ m.count = n.count /\ m.live = n.live
  /\ n.skip = "none" /\ n.radix = 10
  /\ Same(d, n.image, m.image)
  /\ Meaning(m.val, n.val)

\* The solution is what both read.
LEMMA MeaningStands ==
  ASSUME NEW m \in States, NEW n \in States, NEW f \in [Names -> Values],
         NEW rank \in [Names -> Nat], \A x \in Names : m.val[x].k # "sym",
         Solves(f, m.val), Solves(f, n.val), Ranked(rank, n.val)
  PROVE  Stands(m) = f /\ Stands(n) = f
<1> DEFINE flat == [x \in Names |-> 0]
<1>1. flat \in [Names -> Nat] /\ Ranked(flat, m.val)
  BY DEF Ranked
<1> HIDE DEF flat
<1>2. Stands(m) = f
  BY <1>1, StandsFor
<1>3. Stands(n) = f
  BY StandsFor
<1>4. QED
  BY <1>2, <1>3

LEMMA AlikeStands ==
  ASSUME NEW d, NEW m, NEW n, Alike(d, m, n)
  PROVE  Stands(m) = Stands(n) /\ Stands(n) \in [Names -> Values]
<1>1. m \in States /\ n \in States
  BY DEF Alike
<1>2. PICK f \in [Names -> Values], rank \in [Names -> Nat] :
         Solves(f, m.val) /\ Solves(f, n.val) /\ Ranked(rank, n.val)
  BY DEF Alike, Meaning
<1>3. \A x \in Names : m.val[x].k # "sym"
  BY DEF Alike, Meaning
<1>4. QED
  BY <1>1, <1>2, <1>3, MeaningStands

\* Operands have a value.
LEMMA ValueTyped ==
  ASSUME NEW st \in States, Stands(st) \in [Names -> Values], NEW o \in Converted
  PROVE  Value(st, o) \in Values
<1>1. st.count \in Int /\ st.at \in [Names -> Int] /\ st.radix \in {8, 10}
  BY DEF States
<1>2. CASE o \in [k : {"num"}, d : Nat, suffix : {"D", "O", "none"}]
  <2>1. PICK base \in {8, 10} : Value(st, o) = <<"number", ValueIn(o.d, base)>>
    BY <1>1, <1>2 DEF Value, ValueBy
  <2>2. ValueIn(o.d, base) \in Int
    BY <1>2, ValueInInt
  <2>3. QED
    BY <2>1, <2>2 DEF Values
<1>3. CASE o \in [k : {"sym"}, n : Names, add : Int]
  <2>1. Value(st, o) = Plus(Stands(st)[o.n], o.add)
    BY <1>3 DEF Value, ValueBy
  <2>2. Stands(st)[o.n] \in Values /\ o.add \in Int
    BY <1>3
  <2>3. QED
    BY <2>1, <2>2, PlusValue
<1>4. CASE o \in [k : {"offset", "since"}, n : Names]
  <2>1. CASE o.k = "offset"
    <3>1. Value(st, o) = Stands(st)[o.n]
      BY <2>1 DEF Value, ValueBy
    <3>2. QED
      BY <1>4, <3>1
  <2>2. CASE o.k = "since"
    <3>1. Value(st, o) = <<"number", st.count - st.at[o.n]>>
      BY <2>2 DEF Value, ValueBy
    <3>2. st.count - st.at[o.n] \in Int
      BY <1>1, <1>4
    <3>3. QED
      BY <3>1, <3>2 DEF Values
  <2>3. QED
    BY <1>4, <2>1, <2>2
<1>5. CASE o \in [k : {"const"}, n : Names]
  BY <1>5 DEF Value, ValueBy, Values
<1>6. QED
  BY <1>2, <1>3, <1>4, <1>5 DEF Operands, Converted

\* The operand is no OFFSET of a name of the text that an include file has as a constant.
Elsewhere(text, o) == o.k = "offset" => o.n \notin ConstantNames \cap Own(text)

\* convert_expr: the converted operand means to NASM what the operand means to MASM.
LEMMA ConvertedValue ==
  ASSUME NEW text, NEW d, NEW m, NEW n, Alike(d, m, n), m.radix = radix, NEW o \in Operands,
         Elsewhere(text, o)
  PROVE  /\ convert_expr(o) \in Converted
         /\ Value(n, convert_expr(o)) = Value(m, Referred(text, o))
         /\ Value(m, Referred(text, o)) \in Values
<1>1. /\ m \in States /\ n \in States /\ radix \in {8, 10}
      /\ m.at = n.at /\ m.count = n.count /\ n.radix = 10
  BY DEF Alike, States
<1>2. Stands(m) = Stands(n) /\ Stands(n) \in [Names -> Values]
  BY AlikeStands
<1>3. Value(m, o) \in Values
  BY <1>1, <1>2, ValueTyped DEF Converted
<1>4. o.k # "offset" => Referred(text, o) = o
  BY DEF Referred
<1>5. CASE o \in [k : {"num"}, d : Nat, suffix : {"D", "O", "none"}]
  <2> DEFINE e == convert_expr(o)
             s == IF o.suffix = "D" THEN "none" ELSE IF radix = 8 THEN "O" ELSE o.suffix
  <2>1. e = [o EXCEPT !.suffix = s]
    BY <1>5 DEF convert_expr
  <2>2. e \in [k : {"num"}, d : Nat, suffix : {"D", "O", "none"}] /\ e.d = o.d /\ e.suffix = s
        /\ s \in {"O", "none"} /\ e.k = "num" /\ o.k = "num"
    BY <1>5, <2>1
  <2> HIDE DEF e
  <2>3. Value(n, e) = <<"number", ValueIn(o.d, IF s = "O" THEN 8 ELSE 10)>>
    BY <1>1, <2>2 DEF Value, ValueBy
  <2>4. Value(m, o) = <<"number", ValueIn(o.d, CASE o.suffix = "D" -> 10 [] o.suffix = "O" -> 8 [] OTHER -> radix)>>
    BY <1>1, <2>2 DEF Value, ValueBy
  <2>5. (IF s = "O" THEN 8 ELSE 10) = (CASE o.suffix = "D" -> 10 [] o.suffix = "O" -> 8 [] OTHER -> radix)
    BY <1>1, <1>5
  <2>6. e \in Converted
    BY <2>2 DEF Operands, Converted
  <2>7. Referred(text, o) = o
    BY <1>4, <2>2
  <2>8. QED
    BY <1>3, <2>3, <2>4, <2>5, <2>6, <2>7 DEF e
<1>6. CASE o \in [k : {"sym"}, n : Names, add : Int]
  <2>1. convert_expr(o) = o
    BY <1>6 DEF convert_expr
  <2>2. Value(n, o) = Plus(Stands(n)[o.n], o.add) /\ Value(m, o) = Plus(Stands(m)[o.n], o.add)
    BY <1>6 DEF Value, ValueBy
  <2>3. QED
    BY <1>2, <1>3, <1>6, <1>4, <2>1, <2>2 DEF Converted
<1>7. CASE o \in [k : {"offset"}, n : Names]
  <2>1. CASE o.n \in ConstantNames
    <3>1. convert_expr(o) = Const(o.n) /\ Referred(text, o) = Const(o.n)
      BY <1>7, <2>1 DEF convert_expr, Referred, Elsewhere
    <3>2. Const(o.n) \in Converted
      BY <1>7 DEF Converted, Const
    <3>3. Value(n, Const(o.n)) = <<"constant", o.n>> /\ Value(m, Const(o.n)) = <<"constant", o.n>>
      BY DEF Value, ValueBy, Const
    <3>4. <<"constant", o.n>> \in Values
      BY <1>7 DEF Values
    <3>5. QED
      BY <3>1, <3>2, <3>3, <3>4
  <2>2. CASE o.n \notin ConstantNames
    <3>1. convert_expr(o) = Sym(o.n, 0) /\ Referred(text, o) = o /\ Value(m, o) = Stands(m)[o.n]
      BY <1>7, <2>2 DEF convert_expr, Referred, Value, ValueBy
    <3>2. Sym(o.n, 0) \in Converted
      BY <1>7 DEF Operands, Converted, Sym
    <3>3. Value(n, Sym(o.n, 0)) = Plus(Stands(n)[o.n], 0)
      BY DEF Value, ValueBy, Sym
    <3>4. Plus(Stands(n)[o.n], 0) = Stands(n)[o.n]
      BY <1>2, <1>7 DEF Plus, Values
    <3>5. QED
      BY <1>2, <1>3, <3>1, <3>2, <3>3, <3>4
  <2>3. QED
    BY <2>1, <2>2
<1>8. CASE o \in [k : {"since"}, n : Names]
  <2>1. convert_expr(o) = o
    BY <1>8 DEF convert_expr
  <2>2. Value(n, o) = <<"number", n.count - n.at[o.n]>> /\ Value(m, o) = <<"number", m.count - m.at[o.n]>>
    BY <1>8 DEF Value, ValueBy
  <2>3. QED
    BY <1>1, <1>3, <1>8, <1>4, <2>1, <2>2 DEF Operands, Converted
<1>9. o \in [k : {"offset", "since"}, n : Names] => o \in [k : {"offset"}, n : Names] \/ o \in [k : {"since"}, n : Names]
  OBVIOUS
<1>10. QED
  BY <1>5, <1>6, <1>7, <1>8, <1>9 DEF Operands

------------------------------------------------------------------------------
(* Placing the same                                                          *)

\* In a flat build images are the same if they hold the same in the same order.
LEMMA FlatSame ==
  ASSUME NEW a \in Seq(Entries), NEW b \in Seq(Entries)
  PROVE  Flat(a) = Flat(b) <=> /\ Len(a) = Len(b)
                               /\ \A i \in 1 .. Len(a) : a[i].what = b[i].what
<1>1. /\ DOMAIN a = 1 .. Len(a) /\ DOMAIN b = 1 .. Len(b)
      /\ Len(a) \in Nat /\ Len(b) \in Nat
  BY LenProperties
<1>2. ASSUME Flat(a) = Flat(b)
      PROVE  Len(a) = Len(b) /\ \A i \in 1 .. Len(a) : a[i].what = b[i].what
  <2>1. DOMAIN Flat(a) = DOMAIN a /\ DOMAIN Flat(b) = DOMAIN b
    BY Zenon DEF Flat
  <2>2. 1 .. Len(a) = 1 .. Len(b)
    BY <1>1, <1>2, <2>1
  <2>3. Len(a) = Len(b)
    <3>1. \A p, q \in Nat : 1 .. p = 1 .. q => p = q
      <4> SUFFICES ASSUME NEW p \in Nat, NEW q \in Nat, 1 .. p = 1 .. q PROVE p = q
        OBVIOUS
      <4>1. \A i \in Nat : i \in 1 .. p <=> i \in 1 .. q
        OBVIOUS
      <4>2. p <= q /\ q <= p
        BY <4>1
      <4>3. QED
        BY <4>2
    <3>2. QED
      BY <1>1, <2>2, <3>1
  <2>4. ASSUME NEW i \in 1 .. Len(a) PROVE a[i].what = b[i].what
    <3>1. Flat(a)[i] = a[i].what /\ Flat(b)[i] = b[i].what
      BY <1>1, <2>3 DEF Flat
    <3>2. QED
      BY <1>2, <3>1
  <2>5. QED
    BY <2>3, <2>4
<1>3. ASSUME Len(a) = Len(b), \A i \in 1 .. Len(a) : a[i].what = b[i].what
      PROVE  Flat(a) = Flat(b)
  BY <1>1, <1>3 DEF Flat
<1>4. QED
  BY <1>2, <1>3

\* Images that are the same stay so when the same is added to both.
LEMMA SameAppend ==
  ASSUME NEW d, NEW a \in Seq(Entries), NEW b \in Seq(Entries), NEW x \in Entries, NEW y \in Entries,
         Same(d, a, b), x.what = y.what, d[SplitLoad] => x = y
  PROVE  Same(d, Append(a, x), Append(b, y))
<1>1. CASE d[SplitLoad]
  BY <1>1 DEF Same
<1>2. CASE ~d[SplitLoad]
  <2>1. Flat(a) = Flat(b)
    BY <1>2 DEF Same
  <2>2. Len(a) = Len(b) /\ \A i \in 1 .. Len(a) : a[i].what = b[i].what
    BY <2>1, FlatSame
  <2>3. Len(a) \in Nat
    OBVIOUS
  <2>4. /\ Append(a, x) \in Seq(Entries) /\ Len(Append(a, x)) = Len(a) + 1
        /\ Append(a, x)[Len(a) + 1] = x
        /\ \A i \in 1 .. Len(a) : Append(a, x)[i] = a[i]
    BY AppendProperties
  <2>5. /\ Append(b, y) \in Seq(Entries) /\ Len(Append(b, y)) = Len(b) + 1
        /\ Append(b, y)[Len(b) + 1] = y
        /\ \A i \in 1 .. Len(b) : Append(b, y)[i] = b[i]
    BY AppendProperties
  <2> DEFINE p == Append(a, x)
             q == Append(b, y)
  <2>6. Len(p) = Len(q) /\ \A i \in 1 .. Len(p) : p[i].what = q[i].what
    <3> SUFFICES ASSUME NEW i \in 1 .. Len(a) + 1 PROVE p[i].what = q[i].what
      BY <2>2, <2>4, <2>5
    <3>1. CASE i = Len(a) + 1
      BY <2>2, <2>4, <2>5, <3>1
    <3>2. CASE i # Len(a) + 1
      <4>1. i \in 1 .. Len(a)
        BY <2>3, <3>2
      <4>2. QED
        BY <2>2, <2>4, <2>5, <4>1
    <3>3. QED
      BY <3>1, <3>2
  <2>7. p \in Seq(Entries) /\ q \in Seq(Entries)
    BY <2>4, <2>5
  <2> HIDE DEF p, q
  <2>8. Flat(p) = Flat(q)
    BY <2>6, <2>7, FlatSame
  <2>9. QED
    BY <1>2, <2>8 DEF Same, p, q
<1>3. QED
  BY <1>1, <1>2

LEMMA SegTyped ==
  ASSUME NEW st \in States
  PROVE  Seg(st) \in Opened \cup {"none"}
<1>1. st.segs \in Seq(Opened)
  BY DEF States
<1>2. CASE st.segs = <<>>
  BY <1>2 DEF Seg
<1>3. CASE st.segs # <<>>
  <2>1. Len(st.segs) \in 1 .. Len(st.segs)
    BY <1>1, <1>3, EmptySeq
  <2>2. st.segs[Len(st.segs)] \in Opened
    BY <1>1, <2>1, ElementOfSeq
  <2>3. QED
    BY <1>3, <2>2 DEF Seg, Last
<1>4. QED
  BY <1>2, <1>3

LEMMA PlaceAlike ==
  ASSUME NEW d, NEW m, NEW n, Alike(d, m, n), d[SplitLoad] => Seg(m) = Seg(n), NEW w \in Whats
  PROVE  Alike(d, Place(m, w), Place(n, w))
<1>1. m \in States /\ n \in States
  BY DEF Alike
<1>2. /\ Place(m, w) \in States
      /\ Place(m, w).image = Append(m.image, [seg |-> Seg(m), what |-> w])
      /\ Place(m, w).at = m.at /\ Place(m, w).count = m.count /\ Place(m, w).live = m.live
      /\ Place(m, w).val = m.val
  BY <1>1, PlaceFields
<1>3. /\ Place(n, w) \in States
      /\ Place(n, w).image = Append(n.image, [seg |-> Seg(n), what |-> w])
      /\ Place(n, w).at = n.at /\ Place(n, w).count = n.count /\ Place(n, w).live = n.live
      /\ Place(n, w).val = n.val /\ Place(n, w).skip = n.skip /\ Place(n, w).radix = n.radix
  BY <1>1, PlaceFields
<1>4. [seg |-> Seg(m), what |-> w] \in Entries /\ [seg |-> Seg(n), what |-> w] \in Entries
  BY <1>1, SegTyped DEF Entries
<1>5. n.image \in Seq(Entries) /\ m.image \in Seq(Entries)
  BY <1>1 DEF States
<1>6. Same(d, n.image, m.image)
  BY DEF Alike
<1>7. Same(d, Append(n.image, [seg |-> Seg(n), what |-> w]), Append(m.image, [seg |-> Seg(m), what |-> w]))
  BY <1>4, <1>5, <1>6, SameAppend
<1>8. QED
  BY <1>2, <1>3, <1>7 DEF Alike

\* A label and an instruction leave these alone.
Kept(st, new) == /\ new \in States
                 /\ new.segs = st.segs /\ new.live = st.live /\ new.skip = st.skip
                 /\ new.radix = st.radix /\ new.classed = st.classed

LEMMA PlaceLabelFields ==
  ASSUME NEW st \in States, NEW x \in Names \cup {NoName}
  PROVE  Kept(st, PlaceLabel(st, x)) /\ PlaceLabel(st, x).val = st.val
<1>1. CASE x = NoName
  BY <1>1 DEF PlaceLabel, Kept
<1>2. CASE x # NoName
  <2> DEFINE p == Place(st, <<"label", x>>)
  <2>1. x \in Names /\ <<"label", x>> \in Whats
    BY <1>2 DEF Whats
  <2>2. p \in States /\ Kept(st, p) /\ p.val = st.val
    BY <2>1, PlaceFields DEF Kept
  <2> HIDE DEF p
  <2>3. PlaceLabel(st, x) = [p EXCEPT !.at[x] = st.count]
    BY <1>2 DEF PlaceLabel, p
  <2>4. st.count \in Int /\ p.at \in [Names -> Int]
    BY <2>2 DEF States
  <2>5. [p.at EXCEPT ![x] = st.count] \in [Names -> Int]
    BY <2>1, <2>4
  <2>6. PlaceLabel(st, x) = [p EXCEPT !.at = [p.at EXCEPT ![x] = st.count]]
    BY <2>2, <2>3 DEF States
  <2>7. QED
    BY <2>2, <2>5, <2>6 DEF Kept, States
<1>3. QED
  BY <1>1, <1>2

LEMMA PlaceCodeFields ==
  ASSUME NEW st \in States, NEW op, NEW v, <<op, v>> \in Whats
  PROVE  Kept(st, PlaceCode(st, op, v)) /\ PlaceCode(st, op, v).val = st.val
<1> DEFINE p == Place(st, <<op, v>>)
<1>1. p \in States /\ Kept(st, p) /\ p.val = st.val
  BY PlaceFields DEF Kept
<1> HIDE DEF p
<1>2. PlaceCode(st, op, v) = [p EXCEPT !.count = p.count + 1]
  BY DEF PlaceCode, p
<1>3. p.count + 1 \in Int
  BY <1>1 DEF States
<1>4. QED
  BY <1>1, <1>2, <1>3 DEF Kept, States

LEMMA PlaceLabelAlike ==
  ASSUME NEW d, NEW m, NEW n, Alike(d, m, n), d[SplitLoad] => Seg(m) = Seg(n),
         NEW x \in Names \cup {NoName}
  PROVE  Alike(d, PlaceLabel(m, x), PlaceLabel(n, x))
<1>1. CASE x = NoName
  BY <1>1 DEF PlaceLabel
<1>2. CASE x # NoName
  <2> DEFINE p == Place(m, <<"label", x>>)
             q == Place(n, <<"label", x>>)
  <2>1. x \in Names /\ <<"label", x>> \in Whats
    BY <1>2 DEF Whats
  <2>2. Alike(d, p, q)
    BY <2>1, PlaceAlike
  <2>3. m.count = n.count /\ m \in States /\ n \in States
    BY DEF Alike
  <2>4. PlaceLabel(m, x) = [p EXCEPT !.at[x] = m.count] /\ PlaceLabel(n, x) = [q EXCEPT !.at[x] = n.count]
    BY <1>2 DEF PlaceLabel, p, q
  <2> HIDE DEF p, q
  <2>5. PlaceLabel(m, x) \in States /\ PlaceLabel(n, x) \in States
    BY <2>3, PlaceLabelFields DEF Kept
  <2>6. p \in States /\ q \in States /\ p.at = q.at
    BY <2>2 DEF Alike
  <2>7. PlaceLabel(m, x).at = PlaceLabel(n, x).at
    BY <2>3, <2>4, <2>6 DEF States
  <2>8. /\ PlaceLabel(m, x).count = p.count /\ PlaceLabel(m, x).live = p.live
        /\ PlaceLabel(m, x).image = p.image /\ PlaceLabel(m, x).val = p.val
    BY <2>4, <2>6 DEF States
  <2>9. /\ PlaceLabel(n, x).count = q.count /\ PlaceLabel(n, x).live = q.live
        /\ PlaceLabel(n, x).image = q.image /\ PlaceLabel(n, x).val = q.val
        /\ PlaceLabel(n, x).skip = q.skip /\ PlaceLabel(n, x).radix = q.radix
    BY <2>4, <2>6 DEF States
  <2>10. QED
    BY <2>2, <2>5, <2>7, <2>8, <2>9 DEF Alike
<1>3. QED
  BY <1>1, <1>2

LEMMA PlaceCodeAlike ==
  ASSUME NEW d, NEW m, NEW n, Alike(d, m, n), d[SplitLoad] => Seg(m) = Seg(n),
         NEW op, NEW v, <<op, v>> \in Whats
  PROVE  Alike(d, PlaceCode(m, op, v), PlaceCode(n, op, v))
<1> DEFINE p == Place(m, <<op, v>>)
           q == Place(n, <<op, v>>)
<1>1. Alike(d, p, q)
  BY PlaceAlike
<1>2. m \in States /\ n \in States
  BY DEF Alike
<1>3. PlaceCode(m, op, v) = [p EXCEPT !.count = p.count + 1] /\ PlaceCode(n, op, v) = [q EXCEPT !.count = q.count + 1]
  BY DEF PlaceCode, p, q
<1> HIDE DEF p, q
<1>4. PlaceCode(m, op, v) \in States /\ PlaceCode(n, op, v) \in States
  BY <1>2, PlaceCodeFields DEF Kept
<1>5. p \in States /\ q \in States
  BY <1>1 DEF Alike
<1>6. /\ PlaceCode(m, op, v).at = p.at /\ PlaceCode(m, op, v).live = p.live
      /\ PlaceCode(m, op, v).image = p.image /\ PlaceCode(m, op, v).val = p.val
      /\ PlaceCode(m, op, v).count = p.count + 1
  BY <1>3, <1>5 DEF States
<1>7. /\ PlaceCode(n, op, v).at = q.at /\ PlaceCode(n, op, v).live = q.live
      /\ PlaceCode(n, op, v).image = q.image /\ PlaceCode(n, op, v).val = q.val
      /\ PlaceCode(n, op, v).skip = q.skip /\ PlaceCode(n, op, v).radix = q.radix
      /\ PlaceCode(n, op, v).count = q.count + 1
  BY <1>3, <1>5 DEF States
<1>8. QED
  BY <1>1, <1>4, <1>6, <1>7 DEF Alike

------------------------------------------------------------------------------
(* Giving the same values, taking the same branches                          *)

\* A constant gets a value nothing else is made from.
LEMMA MeaningUpdated ==
  ASSUME NEW u \in [Names -> Given], NEW v \in [Names -> Given],
         NEW f \in [Names -> Values], NEW rank \in [Names -> Nat],
         \A y \in Names : u[y].k # "sym",
         Solves(f, u), Solves(f, v), Ranked(rank, v),
         NEW x \in Names, NEW g \in Given, NEW w \in Values,
         \A y \in Names : v[y].k = "sym" => v[y].n # x,
         g.k = "sym" => g.n # x,
         Reads(f, [v EXCEPT ![x] = g], x) = w
  PROVE  Meaning([u EXCEPT ![x] = [k |-> "is", v |-> w]], [v EXCEPT ![x] = g])
<1> DEFINE h == [f EXCEPT ![x] = w]
           r == [rank EXCEPT ![x] = IF g.k = "sym" THEN rank[g.n] + 1 ELSE 0]
           uu == [u EXCEPT ![x] = [k |-> "is", v |-> w]]
           vv == [v EXCEPT ![x] = g]
<1>1. /\ h \in [Names -> Values] /\ h[x] = w
      /\ \A y \in Names : y # x => h[y] = f[y]
  OBVIOUS
<1>2. g.k = "sym" => g.n \in Names
  BY DEF Given, NoValue
<1>3. /\ r \in [Names -> Nat]
      /\ r[x] = (IF g.k = "sym" THEN rank[g.n] + 1 ELSE 0)
      /\ \A y \in Names : y # x => r[y] = rank[y]
  BY <1>2
<1>4. uu[x] = [k |-> "is", v |-> w] /\ \A y \in Names : y # x => uu[y] = u[y]
  OBVIOUS
<1>5. vv[x] = g /\ \A y \in Names : y # x => vv[y] = v[y]
  OBVIOUS
<1>6. \A y \in Names : v[y] \in Given
  OBVIOUS
<1> HIDE DEF h, r, uu, vv
<1>7. \A y \in Names : uu[y].k # "sym"
  BY <1>4
<1>8. Solves(h, uu)
  <2> SUFFICES ASSUME NEW y \in Names PROVE h[y] = Reads(h, uu, y)
    BY DEF Solves
  <2>1. CASE y = x
    BY <1>1, <1>4, <2>1 DEF Reads
  <2>2. CASE y # x
    <3>1. f[y] = Reads(f, u, y) /\ u[y].k # "sym" /\ u[y] \in Given
      BY DEF Solves
    <3>2. u[y].k \in {"none", "is", "num", "const"}
      BY <3>1 DEF Given, NoValue
    <3>3. QED
      BY <1>1, <1>4, <2>2, <3>1, <3>2 DEF Reads
  <2>3. QED
    BY <2>1, <2>2
<1>9. Solves(h, vv)
  <2> SUFFICES ASSUME NEW y \in Names PROVE h[y] = Reads(h, vv, y)
    BY DEF Solves
  <2>1. CASE y = x
    <3>1. Reads(f, vv, x) = w
      BY DEF vv
    <3>2. CASE g.k = "sym"
      <4>1. h[g.n] = f[g.n]
        BY <1>1, <1>2, <3>2
      <4>2. QED
        BY <1>1, <1>5, <2>1, <3>1, <3>2, <4>1 DEF Reads
    <3>3. CASE g.k # "sym"
      <4>1. g.k \in {"none", "is", "num", "const"}
        BY <3>3 DEF Given, NoValue
      <4>2. QED
        BY <1>1, <1>5, <2>1, <3>1, <4>1 DEF Reads
    <3>4. QED
      BY <3>2, <3>3
  <2>2. CASE y # x
    <3>1. f[y] = Reads(f, v, y) /\ v[y] \in Given
      BY <1>6 DEF Solves
    <3>2. CASE v[y].k = "sym"
      <4>1. v[y].n \in Names /\ v[y].n # x
        BY <3>1, <3>2 DEF Given, NoValue
      <4>2. h[v[y].n] = f[v[y].n]
        BY <1>1, <4>1
      <4>3. QED
        BY <1>1, <1>5, <2>2, <3>1, <3>2, <4>2 DEF Reads
    <3>3. CASE v[y].k # "sym"
      <4>1. v[y].k \in {"none", "is", "num", "const"}
        BY <3>1, <3>3 DEF Given, NoValue
      <4>2. QED
        BY <1>1, <1>5, <2>2, <3>1, <4>1 DEF Reads
    <3>4. QED
      BY <3>2, <3>3
  <2>3. QED
    BY <2>1, <2>2
<1>10. Ranked(r, vv)
  <2> SUFFICES ASSUME NEW y \in Names, vv[y].k = "sym" PROVE r[vv[y].n] < r[y]
    BY DEF Ranked
  <2>1. CASE y = x
    <3>1. g.k = "sym" /\ g.n \in Names /\ g.n # x
      BY <1>2, <1>5, <2>1
    <3>2. r[g.n] = rank[g.n] /\ r[x] = rank[g.n] + 1 /\ rank[g.n] \in Nat
      BY <1>3, <3>1
    <3>3. QED
      BY <1>5, <2>1, <3>2
  <2>2. CASE y # x
    <3>1. vv[y] = v[y] /\ v[y].n # x /\ v[y].n \in Names
      BY <1>5, <1>6, <2>2 DEF Given, NoValue
    <3>2. rank[v[y].n] < rank[y]
      BY <1>5, <2>2 DEF Ranked
    <3>3. QED
      BY <1>3, <2>2, <3>1, <3>2
  <2>3. QED
    BY <2>1, <2>2
<1>11. QED
  BY <1>1, <1>3, <1>7, <1>8, <1>9, <1>10 DEF Meaning, uu, vv

\* A state with another value for a name
Valued(st, x, g) == [st EXCEPT !.val[x] = g]

LEMMA ValuedFields ==
  ASSUME NEW st \in States, NEW x \in Names, NEW g \in Given
  PROVE  /\ Kept(st, Valued(st, x, g))
         /\ Valued(st, x, g).val = [st.val EXCEPT ![x] = g]
         /\ Valued(st, x, g).at = st.at /\ Valued(st, x, g).count = st.count
         /\ Valued(st, x, g).image = st.image
<1>1. st.val \in [Names -> Given]
  BY DEF States
<1>2. [st.val EXCEPT ![x] = g] \in [Names -> Given]
  BY <1>1
<1>3. Valued(st, x, g) = [st EXCEPT !.val = [st.val EXCEPT ![x] = g]]
  BY DEF Valued, States
<1>4. QED
  BY <1>2, <1>3 DEF Kept, States

\* MASM takes the value of an operand, NASM its value or its text.
LEMMA ValuedAlike ==
  ASSUME NEW d, NEW m, NEW n, Alike(d, m, n), NEW x \in Names, NEW g \in Given, NEW w \in Values,
         \A y \in Names : n.val[y].k = "sym" => n.val[y].n # x,
         \/ g = [k |-> "is", v |-> w]
         \/ g \in Converted /\ Value(n, g) = w /\ (g.k = "sym" => g.n # x)
  PROVE  Alike(d, Valued(m, x, [k |-> "is", v |-> w]), Valued(n, x, g))
<1>1. m \in States /\ n \in States
  BY DEF Alike
<1>2. m.val \in [Names -> Given] /\ n.val \in [Names -> Given]
  BY <1>1 DEF States
<1>3. PICK f \in [Names -> Values], rank \in [Names -> Nat] :
         Solves(f, m.val) /\ Solves(f, n.val) /\ Ranked(rank, n.val)
  BY DEF Alike, Meaning
<1>4. \A y \in Names : m.val[y].k # "sym"
  BY DEF Alike, Meaning
<1>5. Stands(n) = f
  BY <1>1, <1>3, StandsFor
<1> DEFINE vv == [n.val EXCEPT ![x] = g]
<1>6. vv[x] = g
  BY <1>2
<1> HIDE DEF vv
<1>7. Reads(f, vv, x) = w /\ (g.k = "sym" => g.n # x)
  <2>1. CASE g = [k |-> "is", v |-> w]
    BY <1>6, <2>1 DEF Reads
  <2>2. CASE g \in Converted /\ Value(n, g) = w /\ (g.k = "sym" => g.n # x)
    <3>1. g.k \in {"num", "sym", "const"} /\ (g.k = "num" => g.suffix = "O")
      BY <2>2 DEF Given, Operands, Converted, NoValue
    <3>2. CASE g.k = "num"
      BY <1>6, <2>2, <3>1, <3>2 DEF Reads, Value, ValueBy
    <3>3. CASE g.k = "sym"
      BY <1>5, <1>6, <2>2, <3>3 DEF Reads, Value, ValueBy
    <3>4. CASE g.k = "const"
      BY <1>6, <2>2, <3>4 DEF Reads, Value, ValueBy
    <3>5. QED
      BY <2>2, <3>1, <3>2, <3>3, <3>4
  <2>3. QED
    BY <2>1, <2>2
<1>8. Meaning([m.val EXCEPT ![x] = [k |-> "is", v |-> w]], [n.val EXCEPT ![x] = g])
  BY <1>2, <1>3, <1>4, <1>7, MeaningUpdated DEF vv
<1>9. [k |-> "is", v |-> w] \in Given
  BY DEF Given
<1>10. /\ Kept(m, Valued(m, x, [k |-> "is", v |-> w]))
       /\ Valued(m, x, [k |-> "is", v |-> w]).val = [m.val EXCEPT ![x] = [k |-> "is", v |-> w]]
       /\ Valued(m, x, [k |-> "is", v |-> w]).at = m.at /\ Valued(m, x, [k |-> "is", v |-> w]).count = m.count
       /\ Valued(m, x, [k |-> "is", v |-> w]).image = m.image
  BY <1>1, <1>9, ValuedFields
<1>11. /\ Kept(n, Valued(n, x, g)) /\ Valued(n, x, g).val = [n.val EXCEPT ![x] = g]
       /\ Valued(n, x, g).at = n.at /\ Valued(n, x, g).count = n.count
       /\ Valued(n, x, g).image = n.image
  BY <1>1, ValuedFields
<1>12. QED
  BY <1>8, <1>10, <1>11 DEF Alike, Kept

\* What the front of a sequence is.
LEMMA FrontFacts ==
  ASSUME NEW S, NEW s \in Seq(S), s # <<>>
  PROVE  /\ Front(s) \in Seq(S) /\ Len(Front(s)) = Len(s) - 1
         /\ \A i \in 1 .. Len(s) - 1 : Front(s)[i] = s[i]
<1>1. Len(s) \in Nat /\ Len(s) # 0
  BY EmptySeq, LenProperties
<1> DEFINE n == Len(s) - 1
<1>2. n \in Int /\ n >= 0 /\ n - 1 + 1 = n /\ \A i \in 1 .. n : i \in 1 .. Len(s)
  BY <1>1
<1>3. \A i \in 1 .. n : s[i] \in S
  BY <1>2, ElementOfSeq
<1> HIDE DEF n
<1>4. /\ SubSeq(s, 1, n) \in Seq(S)
      /\ Len(SubSeq(s, 1, n)) = IF 1 <= n THEN n - 1 + 1 ELSE 0
      /\ \A i \in 1 .. n - 1 + 1 : SubSeq(s, 1, n)[i] = s[1 + i - 1]
  BY <1>2, <1>3, SubSeqProperties
<1>5. Len(SubSeq(s, 1, n)) = n /\ \A i \in 1 .. n : SubSeq(s, 1, n)[i] = s[i]
  BY <1>2, <1>4
<1>6. QED
  BY <1>4, <1>5 DEF Front, n

LEMMA FrontAppend ==
  ASSUME NEW S, NEW s \in Seq(S), NEW e \in S
  PROVE  Front(Append(s, e)) = s
<1> DEFINE t == Append(s, e)
<1>1. /\ t \in Seq(S) /\ t # <<>> /\ Len(t) = Len(s) + 1
      /\ \A i \in 1 .. Len(s) : t[i] = s[i]
  BY AppendProperties
<1>2. Len(s) \in Nat
  BY LenProperties
<1> HIDE DEF t
<1>3. Front(t) \in Seq(S) /\ Len(Front(t)) = Len(t) - 1 /\ \A i \in 1 .. Len(t) - 1 : Front(t)[i] = t[i]
  BY <1>1, FrontFacts
<1>4. Len(t) - 1 = Len(s)
  BY <1>1, <1>2
<1>5. Len(Front(t)) = Len(s) /\ \A i \in 1 .. Len(s) : Front(t)[i] = s[i]
  BY <1>1, <1>3, <1>4
<1>6. Front(t) = s
  BY <1>3, <1>5, SeqEqual
<1>7. QED
  BY <1>6 DEF t

\* A condition
LEMMA BranchFields ==
  ASSUME NEW st \in States, NEW l, NEW defs,
         l.k \in {"if", "else", "endif"}, l.k # "if" => st.live # <<>>
  PROVE  /\ Branch(st, l, defs) \in States
         /\ Len(Branch(st, l, defs).live) =
              CASE l.k = "if" -> Len(st.live) + 1 [] l.k = "else" -> Len(st.live)
                [] l.k = "endif" -> Len(st.live) - 1
         /\ Branch(st, l, defs) = [st EXCEPT !.live = Branch(st, l, defs).live]
<1>1. st.live \in Seq(BOOLEAN)
  BY DEF States
<1>2. CASE l.k = "if"
  <2>1. PICK b \in BOOLEAN : b = (defs[l.c] # l.not)
    OBVIOUS
  <2>2. Append(st.live, b) \in Seq(BOOLEAN) /\ Len(Append(st.live, b)) = Len(st.live) + 1
    BY <1>1, AppendProperties
  <2>3. Branch(st, l, defs) = [st EXCEPT !.live = Append(st.live, b)]
    BY <1>2, <2>1 DEF Branch, States
  <2>4. QED
    BY <1>2, <2>2, <2>3 DEF States
<1>3. CASE l.k = "else"
  <2>1. Len(st.live) \in 1 .. Len(st.live)
    BY <1>1, <1>3, EmptySeq
  <2> DEFINE new == [st.live EXCEPT ![Len(st.live)] = ~@]
  <2>2. new \in Seq(BOOLEAN) /\ Len(new) = Len(st.live)
    BY <1>1, <2>1, ExceptSeq
  <2>3. Branch(st, l, defs) = [st EXCEPT !.live = new]
    BY <1>3 DEF Branch, States
  <2> HIDE DEF new
  <2>4. QED
    BY <1>3, <2>2, <2>3 DEF States
<1>4. CASE l.k = "endif"
  <2>1. st.live # <<>>
    BY <1>4
  <2>2. Front(st.live) \in Seq(BOOLEAN) /\ Len(Front(st.live)) = Len(st.live) - 1
    BY <1>1, <2>1, FrontFacts
  <2>3. Branch(st, l, defs) = [st EXCEPT !.live = Front(st.live)]
    BY <1>4 DEF Branch, States
  <2>4. QED
    BY <1>4, <2>2, <2>3 DEF States
<1>5. QED
  BY <1>2, <1>3, <1>4

\* Conditions are the same on both sides.
LEMMA BranchAlike ==
  ASSUME NEW d, NEW m, NEW n, Alike(d, m, n), NEW l, NEW l2,
         l.k \in {"if", "else", "endif"}, l2.k = l.k, l.k # "if" => m.live # <<>>,
         l.k = "if" => l2.c = l.c /\ l2.not = l.not
  PROVE  Alike(d, Branch(m, l, d), Branch(n, l2, d))
<1>1. m \in States /\ n \in States /\ m.live = n.live
  BY DEF Alike
<1> DEFINE p == Branch(m, l, d)
           q == Branch(n, l2, d)
<1>2. p.live = q.live
  BY <1>1 DEF Branch, States
<1>3. p \in States /\ p = [m EXCEPT !.live = p.live]
  BY <1>1, BranchFields
<1>4. q \in States /\ q = [n EXCEPT !.live = q.live]
  BY <1>1, BranchFields
<1> HIDE DEF p, q
<1>5. p.at = m.at /\ p.count = m.count /\ p.image = m.image /\ p.val = m.val
  BY <1>1, <1>3 DEF States
<1>6. q.at = n.at /\ q.count = n.count /\ q.image = n.image /\ q.val = n.val /\ q.skip = n.skip
      /\ q.radix = n.radix
  BY <1>1, <1>4 DEF States
<1>7. Alike(d, p, q)
  BY <1>2, <1>3, <1>4, <1>5, <1>6 DEF Alike
<1>8. QED
  BY <1>7 DEF p, q

------------------------------------------------------------------------------
(* A line of the source and the line made of it                              *)

\* What a line does to two assemblies that are alike.
Keeps(d, m, n, mm, nn) == Alike(d, mm, nn) /\ Kept(m, mm) /\ Kept(n, nn)

LEMMA KeepsSelf ==
  ASSUME NEW d, NEW m, NEW n, Alike(d, m, n)
  PROVE  Keeps(d, m, n, m, n)
BY DEF Keeps, Alike, Kept

LEMMA LiveAlike ==
  ASSUME NEW d, NEW m, NEW n, Alike(d, m, n), m.skip = "none"
  PROVE  Live(m) <=> Live(n)
BY DEF Alike, Live

\* A label and data or an instruction behind it
LEMMA CodeKeeps ==
  ASSUME NEW d, NEW m, NEW n, Alike(d, m, n), d[SplitLoad] => Seg(m) = Seg(n),
         NEW x \in Names \cup {NoName}, NEW op, NEW v, <<op, v>> \in Whats
  PROVE  Keeps(d, m, n, PlaceCode(PlaceLabel(m, x), op, v), PlaceCode(PlaceLabel(n, x), op, v))
<1> DEFINE p == PlaceLabel(m, x)
           q == PlaceLabel(n, x)
<1>1. m \in States /\ n \in States
  BY DEF Alike
<1>2. Alike(d, p, q) /\ Kept(m, p) /\ Kept(n, q)
  BY <1>1, PlaceLabelAlike, PlaceLabelFields
<1> HIDE DEF p, q
<1>3. p \in States /\ q \in States
  BY <1>2 DEF Alike
<1>4. d[SplitLoad] => Seg(p) = Seg(q)
  BY <1>2 DEF Kept, Seg
<1>5. Alike(d, PlaceCode(p, op, v), PlaceCode(q, op, v))
  BY <1>2, <1>4, PlaceCodeAlike
<1>6. Kept(p, PlaceCode(p, op, v)) /\ Kept(q, PlaceCode(q, op, v))
  BY <1>3, PlaceCodeFields
<1>7. QED
  BY <1>2, <1>5, <1>6 DEF Keeps, Kept, p, q

\* What a line of the source and what is made of it meet
Meets(d, m, n, l) ==
  /\ Alike(d, m, n) /\ m.skip = "none" /\ m.radix = radix
  /\ d[SplitLoad] => Seg(m) = Seg(n)

LEMMA DatumLine ==
  ASSUME NEW text, NEW i, NEW l, l = text[i], NEW d, NEW m, NEW n, Meets(d, m, n, l),
         l.k = "db", l.n \in Names \cup {NoName}, l.v \in Operands, Elsewhere(text, l.v)
  PROVE  Keeps(d, m, n, Masm(text, m, i, d, {}),
               Nasm(n, [k |-> "db", n |-> l.n, v |-> convert_expr(l.v)], d))
<1> DEFINE x == [k |-> "db", n |-> l.n, v |-> convert_expr(l.v)]
           p == PlaceLabel(m, l.n)
           q == PlaceLabel(n, l.n)
<1>1. Alike(d, m, n) /\ m.skip = "none" /\ m.radix = radix /\ (d[SplitLoad] => Seg(m) = Seg(n))
      /\ m \in States /\ n \in States
  BY DEF Meets, Alike
<1>2. CASE ~Live(m)
  <2>1. ~Live(n)
    BY <1>1, <1>2, LiveAlike
  <2>2. Masm(text, m, i, d, {}) = m
    BY <1>1, <1>2 DEF Masm
  <2>3. Nasm(n, x, d) = n
    BY <2>1 DEF Nasm
  <2>4. QED
    BY <1>1, <2>2, <2>3, KeepsSelf
<1>3. CASE Live(m)
  <2>1. Live(n)
    BY <1>1, <1>3, LiveAlike
  <2>2. Masm(text, m, i, d, {}) = PlaceCode(p, "db", Value(m, Referred(text, l.v)))
    BY <1>1, <1>3 DEF Masm
  <2>3. Nasm(n, x, d) = PlaceCode(q, "db", Value(n, convert_expr(l.v)))
    BY <2>1 DEF Nasm
  <2>4. /\ Value(n, convert_expr(l.v)) = Value(m, Referred(text, l.v))
        /\ Value(m, Referred(text, l.v)) \in Values
    BY <1>1, ConvertedValue
  <2>5. <<"db", Value(m, Referred(text, l.v))>> \in Whats
    BY <2>4 DEF Whats
  <2>6. QED
    BY <1>1, <2>2, <2>3, <2>4, <2>5, CodeKeeps
<1>4. QED
  BY <1>2, <1>3

LEMMA Ins86Line ==
  ASSUME NEW text, NEW i, NEW l, l = text[i], NEW d, NEW m, NEW n, Meets(d, m, n, l), l.k = "ins86", l.d \in Nat
  PROVE  Keeps(d, m, n, Masm(text, m, i, d, {}),
               Nasm(n, [k |-> "db", n |-> NoName, v |-> Num(l.d, "O")], d))
<1> DEFINE x == [k |-> "db", n |-> NoName, v |-> Num(l.d, "O")]
           w == <<"number", ValueIn(l.d, 8)>>
<1>1. Alike(d, m, n) /\ m.skip = "none" /\ (d[SplitLoad] => Seg(m) = Seg(n))
  BY DEF Meets
<1>2. CASE ~Live(m)
  <2>1. ~Live(n)
    BY <1>1, <1>2, LiveAlike
  <2>2. Masm(text, m, i, d, {}) = m
    BY <1>1, <1>2 DEF Masm
  <2>3. Nasm(n, x, d) = n
    BY <2>1 DEF Nasm
  <2>4. QED
    BY <1>1, <2>2, <2>3, KeepsSelf
<1>3. CASE Live(m)
  <2>1. Live(n)
    BY <1>1, <1>3, LiveAlike
  <2>2. PlaceLabel(m, NoName) = m /\ PlaceLabel(n, NoName) = n
    BY DEF PlaceLabel
  <2>3. Masm(text, m, i, d, {}) = PlaceCode(m, "db", w)
    BY <1>1, <1>3 DEF Masm
  <2>4. Value(n, Num(l.d, "O")) = w
    BY DEF Value, ValueBy, Num
  <2>5. Nasm(n, x, d) = PlaceCode(n, "db", w)
    BY <2>1, <2>2, <2>4 DEF Nasm
  <2>6. ValueIn(l.d, 8) \in Int
    BY ValueInInt
  <2>7. <<"db", w>> \in Whats
    BY <2>6 DEF Whats, Values
  <2>8. NoName \in Names \cup {NoName}
    OBVIOUS
  <2> HIDE DEF w
  <2>9. Keeps(d, m, n, PlaceCode(PlaceLabel(m, NoName), "db", w), PlaceCode(PlaceLabel(n, NoName), "db", w))
    BY <1>1, <2>7, <2>8, CodeKeeps
  <2>10. QED
    BY <2>2, <2>3, <2>5, <2>9
<1>4. QED
  BY <1>2, <1>3

LEMMA ProcedureLine ==
  ASSUME NEW text, NEW i, NEW l, l = text[i], NEW d, NEW m, NEW n, Meets(d, m, n, l), l.k = "proc", l.n \in Names
  PROVE  Keeps(d, m, n, Masm(text, m, i, d, {}), Nasm(n, [k |-> "label", n |-> l.n], d))
<1> DEFINE x == [k |-> "label", n |-> l.n]
<1>1. Alike(d, m, n) /\ m.skip = "none" /\ (d[SplitLoad] => Seg(m) = Seg(n))
      /\ m \in States /\ n \in States
  BY DEF Meets, Alike
<1>2. CASE ~Live(m)
  <2>1. ~Live(n)
    BY <1>1, <1>2, LiveAlike
  <2>2. Masm(text, m, i, d, {}) = m
    BY <1>1, <1>2 DEF Masm
  <2>3. Nasm(n, x, d) = n
    BY <2>1 DEF Nasm
  <2>4. QED
    BY <1>1, <2>2, <2>3, KeepsSelf
<1>3. CASE Live(m)
  <2>1. Live(n)
    BY <1>1, <1>3, LiveAlike
  <2>2. Masm(text, m, i, d, {}) = PlaceLabel(m, l.n)
    BY <1>1, <1>3 DEF Masm
  <2>3. Nasm(n, x, d) = PlaceLabel(n, l.n)
    BY <2>1 DEF Nasm
  <2>4. Alike(d, PlaceLabel(m, l.n), PlaceLabel(n, l.n))
    BY <1>1, PlaceLabelAlike
  <2>5. Kept(m, PlaceLabel(m, l.n)) /\ Kept(n, PlaceLabel(n, l.n))
    BY <1>1, PlaceLabelFields
  <2>6. QED
    BY <2>2, <2>3, <2>4, <2>5 DEF Keeps
<1>4. QED
  BY <1>2, <1>3

LEMMA ReturnLine ==
  ASSUME NEW text, NEW i, NEW l, l = text[i], NEW d, NEW m, NEW n, Meets(d, m, n, l), l.k = "ret",
         ~InFar(text, i)
  PROVE  Keeps(d, m, n, Masm(text, m, i, d, {}), Nasm(n, [k |-> "ret"], d))
<1>1. Alike(d, m, n) /\ m.skip = "none" /\ (d[SplitLoad] => Seg(m) = Seg(n))
  BY DEF Meets
<1>2. CASE ~Live(m)
  <2>1. ~Live(n)
    BY <1>1, <1>2, LiveAlike
  <2>2. Masm(text, m, i, d, {}) = m
    BY <1>1, <1>2 DEF Masm
  <2>3. Nasm(n, [k |-> "ret"], d) = n
    BY <2>1 DEF Nasm
  <2>4. QED
    BY <1>1, <2>2, <2>3, KeepsSelf
<1>3. CASE Live(m)
  <2>1. Live(n)
    BY <1>1, <1>3, LiveAlike
  <2>2. PlaceLabel(m, NoName) = m /\ PlaceLabel(n, NoName) = n /\ NoName \in Names \cup {NoName}
    BY DEF PlaceLabel
  <2>3. Masm(text, m, i, d, {}) = PlaceCode(m, "ret", <<>>)
    BY <1>1, <1>3 DEF Masm
  <2>4. Nasm(n, [k |-> "ret"], d) = PlaceCode(n, "ret", <<>>)
    BY <2>1 DEF Nasm
  <2>5. <<"ret", <<>>>> \in Whats
    BY DEF Whats
  <2>6. Keeps(d, m, n, PlaceCode(PlaceLabel(m, NoName), "ret", <<>>), PlaceCode(PlaceLabel(n, NoName), "ret", <<>>))
    BY <1>1, <2>2, <2>5, CodeKeeps
  <2>7. QED
    BY <2>2, <2>3, <2>4, <2>6
<1>4. QED
  BY <1>2, <1>3

LEMMA InstructionLine ==
  ASSUME NEW text, NEW i, NEW l, l = text[i], NEW d, NEW m, NEW n, Meets(d, m, n, l),
         l.k = "mov", l.v \in Operands, Elsewhere(text, l.v),
         l.v.k = "sym" => (l.v.n \in Variables(text) <=> l.v.n \in data)
  PROVE  Keeps(d, m, n, Masm(text, m, i, d, {}),
               Nasm(n, [k |-> "mov", v |-> IF masm_operand_is_data_memory(l.v) THEN Mem(l.v.n)
                                           ELSE convert_expr(l.v)], d))
<1> DEFINE e == IF masm_operand_is_data_memory(l.v) THEN Mem(l.v.n) ELSE convert_expr(l.v)
           x == [k |-> "mov", v |-> e]
           w == IF masm_operand_is_data_memory(l.v) THEN <<"contents", l.v.n>>
                ELSE Value(m, Referred(text, l.v))
<1>1. Alike(d, m, n) /\ m.skip = "none" /\ m.radix = radix /\ (d[SplitLoad] => Seg(m) = Seg(n))
      /\ m \in States /\ n \in States
  BY DEF Meets, Alike
<1>2. CASE ~Live(m)
  <2>1. ~Live(n)
    BY <1>1, <1>2, LiveAlike
  <2>2. Masm(text, m, i, d, {}) = m
    BY <1>1, <1>2 DEF Masm
  <2>3. Nasm(n, x, d) = n
    BY <2>1 DEF Nasm
  <2>4. QED
    BY <1>1, <2>2, <2>3, KeepsSelf
<1>3. CASE Live(m)
  <2>1. Live(n)
    BY <1>1, <1>3, LiveAlike
  <2>2. (l.v.k = "sym" /\ l.v.n \in Variables(text)) <=> masm_operand_is_data_memory(l.v)
    BY DEF masm_operand_is_data_memory
  <2>3. Masm(text, m, i, d, {}) = PlaceCode(m, "mov", w)
    <3>1. Masm(text, m, i, d, {})
            = PlaceCode(m, "mov", IF l.v.k = "sym" /\ l.v.n \in Variables(text) THEN <<"contents", l.v.n>>
                                  ELSE Value(m, Referred(text, l.v)))
      BY <1>1, <1>3 DEF Masm
    <3>2. QED
      BY <2>2, <3>1
  <2>4. /\ Value(n, convert_expr(l.v)) = Value(m, Referred(text, l.v))
        /\ Value(m, Referred(text, l.v)) \in Values
        /\ convert_expr(l.v) \in Converted
    BY <1>1, ConvertedValue
  <2>5. (IF e.k = "mem" THEN <<"contents", e.n>> ELSE Value(n, e)) = w
    <3>1. CASE masm_operand_is_data_memory(l.v)
      BY <3>1 DEF Mem
    <3>2. CASE ~masm_operand_is_data_memory(l.v)
      <4>1. convert_expr(l.v).k # "mem"
        BY <2>4 DEF Operands, Converted
      <4>2. QED
        BY <2>4, <3>2, <4>1
    <3>3. QED
      BY <3>1, <3>2
  <2>6. Nasm(n, x, d) = PlaceCode(n, "mov", w)
    <3> HIDE DEF e, w
    <3>1. Nasm(n, x, d) = PlaceCode(n, "mov", IF e.k = "mem" THEN <<"contents", e.n>> ELSE Value(n, e))
      BY <2>1 DEF Nasm
    <3>2. QED
      BY <2>5, <3>1
  <2>7. <<"mov", w>> \in Whats
    <3>1. CASE masm_operand_is_data_memory(l.v)
      <4>1. l.v.n \in Names
        BY <3>1 DEF Operands, masm_operand_is_data_memory
      <4>2. QED
        BY <3>1, <4>1 DEF Whats
    <3>2. CASE ~masm_operand_is_data_memory(l.v)
      BY <2>4, <3>2 DEF Whats
    <3>3. QED
      BY <3>1, <3>2
  <2> HIDE DEF w, e
  <2>8. PlaceLabel(m, NoName) = m /\ PlaceLabel(n, NoName) = n /\ NoName \in Names \cup {NoName}
    BY DEF PlaceLabel
  <2>9. Keeps(d, m, n, PlaceCode(PlaceLabel(m, NoName), "mov", w), PlaceCode(PlaceLabel(n, NoName), "mov", w))
    BY <1>1, <2>7, <2>8, CodeKeeps
  <2>10. QED
    BY <2>3, <2>6, <2>8, <2>9 DEF e
<1>4. QED
  BY <1>2, <1>3

\* A constant is computed, or its text is kept for where it is used.
LEMMA ConstantLine ==
  ASSUME NEW text, NEW i, NEW l, l = text[i], NEW d, NEW m, NEW n, NEW form \in {"define", "assign", "equ"},
         Alike(d, m, n), m.skip = "none", m.radix = radix,
         l.k \in {"assign", "equ"}, l.n \in Names, l.v \in Operands, Elsewhere(text, l.v),
         \A y \in Names : n.val[y].k = "sym" => n.val[y].n # l.n,
         form = "define" => /\ convert_expr(l.v) \in Given
                            /\ convert_expr(l.v).k = "sym" => convert_expr(l.v).n # l.n
  PROVE  Keeps(d, m, n, Masm(text, m, i, d, {}),
               Nasm(n, [k |-> form, n |-> l.n, v |-> convert_expr(l.v)], d))
<1> DEFINE e == convert_expr(l.v)
           x == [k |-> form, n |-> l.n, v |-> e]
           w == Value(m, Referred(text, l.v))
           is == [k |-> "is", v |-> w]
           g == IF form = "define" THEN e ELSE is
<1>1. m \in States /\ n \in States
  BY DEF Alike
<1>2. CASE ~Live(m)
  <2>1. ~Live(n)
    BY <1>2, LiveAlike
  <2>2. Masm(text, m, i, d, {}) = m
    BY <1>2 DEF Masm
  <2>3. Nasm(n, x, d) = n
    BY <2>1 DEF Nasm
  <2>4. QED
    BY <2>2, <2>3, KeepsSelf
<1>3. CASE Live(m)
  <2>1. Live(n)
    BY <1>3, LiveAlike
  <2>2. e \in Converted /\ Value(n, e) = w /\ w \in Values
    BY ConvertedValue
  <2>3. is \in Given /\ g \in Given
    BY <2>2 DEF Given
  <2>4. Masm(text, m, i, d, {}) = Valued(m, l.n, is)
    BY <1>3 DEF Masm, Eager, Valued
  <2>5. Nasm(n, x, d) = Valued(n, l.n, g)
    <3>1. CASE form = "define"
      BY <2>1, <3>1 DEF Nasm, Valued
    <3>2. CASE form # "define"
      <4>1. Nasm(n, x, d) = Eager(n, l.n, e)
        BY <2>1, <3>2 DEF Nasm
      <4>2. QED
        BY <2>2, <3>2, <4>1 DEF Eager, Valued
    <3>3. QED
      BY <3>1, <3>2
  <2>6. \/ g = [k |-> "is", v |-> w]
        \/ g \in Converted /\ Value(n, g) = w /\ (g.k = "sym" => g.n # l.n)
    BY <2>2
  <2> HIDE DEF g, w, e
  <2>7. Alike(d, Valued(m, l.n, [k |-> "is", v |-> w]), Valued(n, l.n, g))
    BY <2>2, <2>3, <2>6, ValuedAlike
  <2>8. Kept(m, Valued(m, l.n, is)) /\ Kept(n, Valued(n, l.n, g))
    BY <1>1, <2>3, ValuedFields
  <2>9. QED
    BY <2>4, <2>5, <2>7, <2>8 DEF Keeps, e
<1>4. QED
  BY <1>2, <1>3

\* A declaration, the end of a procedure, a title and the like place and define nothing.
LEMMA IdleLine ==
  ASSUME NEW text, NEW i, NEW l, l = text[i], NEW d, NEW m, m.skip = "none",
         l.k \in {"public", "extrn", "endp", "scaffold", "endm"}
  PROVE  Masm(text, m, i, d, {}) = m
BY DEF Masm

LEMMA IdleOutput ==
  ASSUME NEW d, NEW n, NEW l, l.k \in {"global", "extern"}
  PROVE  Nasm(n, l, d) = n
BY DEF Nasm

\* What a condition does to both
Branches(text, i, l, d, m, n, x) ==
  LET mm == Masm(text, m, i, d, {})
      nn == Nasm(n, x, d)
  IN /\ Alike(d, mm, nn)
     /\ mm.skip = m.skip /\ mm.segs = m.segs /\ mm.radix = m.radix
     /\ nn.segs = n.segs /\ nn.classed = n.classed /\ nn.val = n.val
     /\ Len(mm.live) = CASE l.k = "if" -> Len(m.live) + 1 [] l.k = "else" -> Len(m.live)
                         [] l.k = "endif" -> Len(m.live) - 1

\* A condition is a condition to both, and whether it is live to begin with does not matter.
LEMMA ConditionalLine ==
  ASSUME NEW text, NEW i, NEW l, l = text[i], NEW d, NEW m, NEW n, NEW x, Alike(d, m, n), m.skip = "none",
         l.k \in {"if", "else", "endif"}, x.k = l.k, l.k # "if" => Len(m.live) > 0,
         l.k = "if" => x.c = l.c /\ x.not = l.not
  PROVE  Branches(text, i, l, d, m, n, x)
<1>1. Masm(text, m, i, d, {}) = Branch(m, l, d)
  BY DEF Masm
<1>2. Nasm(n, x, d) = Branch(n, x, d)
  BY DEF Nasm
<1>3. m \in States /\ n \in States /\ m.live = n.live
  BY DEF Alike
<1>4. l.k # "if" => m.live # <<>>
  <2>1. Len(<<>>) = 0
    BY EmptySeq
  <2>2. QED
    BY <2>1
<1>5. Alike(d, Branch(m, l, d), Branch(n, x, d))
  BY <1>4, BranchAlike
<1> DEFINE p == Branch(m, l, d)
           q == Branch(n, x, d)
<1>6. /\ p = [m EXCEPT !.live = p.live]
      /\ Len(p.live) = CASE l.k = "if" -> Len(m.live) + 1 [] l.k = "else" -> Len(m.live)
                         [] l.k = "endif" -> Len(m.live) - 1
  BY <1>3, <1>4, BranchFields
<1>7. q = [n EXCEPT !.live = q.live]
  BY <1>3, <1>4, BranchFields
<1> HIDE DEF p, q
<1>8. p.skip = m.skip /\ p.segs = m.segs /\ p.radix = m.radix
  BY <1>3, <1>6 DEF States
<1>9. q.segs = n.segs /\ q.classed = n.classed /\ q.val = n.val
  BY <1>3, <1>7 DEF States
<1>10. QED
  BY <1>1, <1>2, <1>5, <1>6, <1>8, <1>9 DEF p, q, Branches

------------------------------------------------------------------------------
(* The switch of segments                                                    *)

\* The lines of a generated file
Outputs ==
  [k : {"if"}, c : Switches, not : BOOLEAN, range : Names \cup {NoName}]
  \cup [k : {"else", "endif", "ret"}]
  \cup [k : {"segment"}, s : Segments, class : BOOLEAN]
  \cup [k : {"global", "extern", "label"}, n : Names]
  \cup [k : {"define", "assign", "equ"}, n : Names, v : Converted]
  \cup [k : {"db"}, n : Names \cup {NoName}, v : Converted]
  \cup [k : {"mov"}, v : Converted \cup [k : {"mem"}, n : Names]]

SegmentLine(s, class) == [k |-> "segment", s |-> s, class |-> class]

\* NASM at the three lines of a switch
Switched(n, l, d) == Nasm(Nasm(Nasm(n, If(SplitLoad, FALSE), d), l, d), EndIf, d)

Known(n, l) == IF l.class THEN n.classed \cup {l.s} ELSE n.classed

LEMMA SwitchedAlike ==
  ASSUME NEW d \in [Switches -> BOOLEAN], NEW m, NEW n, Alike(d, m, n), d[SplitLoad] => Live(n),
         NEW l \in [k : {"segment"}, s : Segments, class : BOOLEAN]
  PROVE  /\ Alike(d, m, Switched(n, l, d)) /\ Switched(n, l, d).val = n.val
         /\ d[SplitLoad] =>
              /\ Switched(n, l, d).classed = Known(n, l)
              /\ l.s \in Known(n, l) => Switched(n, l, d).segs = <<l.s>>
<1> DEFINE s == l.s
           class == l.class
           known == IF class THEN n.classed \cup {s} ELSE n.classed
           b == d[SplitLoad]
           one == Nasm(n, If(SplitLoad, FALSE), d)
           two == Nasm(one, l, d)
           three == Nasm(two, EndIf, d)
<1>0. s \in Segments /\ class \in BOOLEAN /\ l.k = "segment"
  OBVIOUS
<1>1. /\ n \in States /\ n.live \in Seq(BOOLEAN) /\ n.skip = "none" /\ n.classed \in SUBSET Segments
      /\ n.segs \in Seq(Opened)
  BY DEF Alike, States
<1>2. b \in BOOLEAN
  BY ConvertAssumption
<1>3. /\ Append(n.live, b) \in Seq(BOOLEAN) /\ Append(n.live, b) # <<>>
      /\ Len(Append(n.live, b)) = Len(n.live) + 1
      /\ \A i \in 1 .. Len(n.live) : Append(n.live, b)[i] = n.live[i]
      /\ Append(n.live, b)[Len(n.live) + 1] = b
  BY <1>1, <1>2, AppendProperties
<1>4. Front(Append(n.live, b)) = n.live
  BY <1>1, <1>2, FrontAppend
<1>5. one = [n EXCEPT !.live = Append(n.live, b)]
  <2>1. one = [n EXCEPT !.live = Append(@, d[SplitLoad] # FALSE)]
    BY DEF Nasm, Branch, If
  <2>2. (d[SplitLoad] # FALSE) = b
    BY <1>2
  <2>3. QED
    BY <1>1, <2>1, <2>2 DEF States
<1> HIDE DEF b
<1>6. /\ one \in States /\ one.live = Append(n.live, b) /\ one.skip = "none"
      /\ one.classed = n.classed /\ one.segs = n.segs
      /\ one = [n EXCEPT !.live = one.live]
      /\ one.at = n.at /\ one.count = n.count /\ one.radix = n.radix /\ one.val = n.val
      /\ one.image = n.image
  BY <1>1, <1>3, <1>5 DEF States
<1> HIDE DEF one
<1>7. Live(one) => b
  <2>1. Len(n.live) + 1 \in DOMAIN one.live
    <3>1. DOMAIN one.live = 1 .. Len(n.live) + 1 /\ Len(n.live) \in Nat
      BY <1>1, <1>3, <1>6, LenProperties
    <3>2. QED
      BY <3>1
  <2>2. QED
    BY <1>3, <1>6, <2>1 DEF Live
<1>8. b /\ Live(n) => Live(one)
  <2> SUFFICES ASSUME b, Live(n), NEW i \in DOMAIN one.live PROVE one.live[i]
    BY <1>6 DEF Live
  <2>1. i \in 1 .. Len(n.live) + 1 /\ Len(n.live) \in Nat /\ DOMAIN n.live = 1 .. Len(n.live)
    BY <1>1, <1>3, <1>6, LenProperties
  <2>2. CASE i = Len(n.live) + 1
    BY <1>3, <1>6, <2>2
  <2>3. CASE i # Len(n.live) + 1
    <3>1. i \in 1 .. Len(n.live)
      BY <2>1, <2>3
    <3>2. QED
      BY <1>3, <1>6, <2>1, <3>1 DEF Live
  <2>4. QED
    BY <2>2, <2>3
<1>9. CASE ~b
  <2>1. two = one
    BY <1>0, <1>7, <1>9 DEF Nasm
  <2>2. three = [one EXCEPT !.live = Front(one.live)]
    BY <1>6, <2>1 DEF Nasm, Branch, EndIf, States
  <2>3. three = [n EXCEPT !.live = n.live]
    BY <1>1, <1>4, <1>6, <2>2 DEF States
  <2>4. three = n
    BY <1>1, <2>3 DEF States
  <2>5. QED
    BY <1>9, <2>4 DEF Switched, b, one
<1>10. CASE b
  <2>1. Live(one)
    BY <1>8, <1>10 DEF b
  <2> DEFINE o == IF s \in known THEN s ELSE "unclassed"
  <2>2. two = [one EXCEPT !.classed = known, !.segs = <<o>>]
    BY <1>0, <1>6, <2>1 DEF Nasm
  <2>3. known \in SUBSET Segments /\ <<o>> \in Seq(Opened) /\ (s \in known => o = s)
    <3>1. o \in Opened
      BY <1>0 DEF Opened
    <3>2. QED
      BY <1>0, <1>1, <3>1
  <2> HIDE DEF o, known
  <2>4. /\ two \in States /\ two.live = one.live /\ two.classed = known /\ two.segs = <<o>>
        /\ two.at = n.at /\ two.count = n.count /\ two.skip = n.skip
        /\ two.radix = n.radix /\ two.val = n.val /\ two.image = n.image
    BY <1>6, <1>1, <2>2, <2>3 DEF States
  <2> HIDE DEF two
  <2>5. three = [two EXCEPT !.live = n.live]
    <3>1. three = [two EXCEPT !.live = Front(two.live)]
      BY <2>4 DEF Nasm, Branch, EndIf, States
    <3>2. Front(two.live) = n.live
      BY <1>4, <1>6, <2>4
    <3>3. QED
      BY <3>1, <3>2
  <2> HIDE DEF three
  <2>6. /\ three \in States /\ three.classed = known /\ three.segs = <<o>>
        /\ three.live = n.live /\ three.at = n.at /\ three.count = n.count /\ three.skip = n.skip
        /\ three.radix = n.radix /\ three.val = n.val /\ three.image = n.image
    BY <1>1, <2>4, <2>5 DEF States
  <2>7. Alike(d, m, three)
    BY <2>6 DEF Alike
  <2>8. QED
    BY <2>3, <2>6, <2>7 DEF Switched, three, two, one, known, Known
<1>11. QED
  BY <1>9, <1>10, <1>2

------------------------------------------------------------------------------
(* Counting conditions                                                       *)

\* What one line more does to a count
LEMMA CountUpTo ==
  ASSUME NEW text \in Seq(Outputs), NEW x \in Outputs, NEW kind, NEW j \in Int, j <= Len(text)
  PROVE  Count(Append(text, x), kind, 1, j) = Count(text, kind, 1, j)
<1>1. \A i \in 1 .. Len(text) : Append(text, x)[i] = text[i]
  BY AppendProperties
<1>2. \A i \in 1 .. j : i \in 1 .. Len(text)
  BY LenProperties
<1>3. {i \in 1 .. j : Append(text, x)[i].k = kind} = {i \in 1 .. j : text[i].k = kind}
  BY <1>1, <1>2
<1>4. QED
  BY <1>3, Zenon DEF Count

LEMMA CountAppend ==
  ASSUME NEW text \in Seq(Outputs), NEW x \in Outputs, NEW kind
  PROVE  /\ Count(text, kind, 1, Len(text)) \in Nat
         /\ Count(Append(text, x), kind, 1, Len(text) + 1)
              = Count(text, kind, 1, Len(text)) + (IF x.k = kind THEN 1 ELSE 0)
<1> DEFINE n == Len(text)
           t == Append(text, x)
           A == {i \in 1 .. n : text[i].k = kind}
           B == {i \in 1 .. n + 1 : t[i].k = kind}
<1>1. n \in Nat
  BY LenProperties
<1>2. t[n + 1] = x /\ \A i \in 1 .. n : t[i] = text[i]
  BY AppendProperties
<1> HIDE DEF t, n
<1>3. IsFiniteSet(1 .. n)
  BY <1>1, FS_Interval
<1>4. IsFiniteSet(A)
  BY <1>3, FS_Subset
<1>5. Cardinality(A) \in Nat
  BY <1>4, FS_CardinalityType
<1>6. \A i : i \in 1 .. n + 1 <=> (i \in 1 .. n \/ i = n + 1)
  BY <1>1
<1>7. n + 1 \notin A
  BY <1>1
<1>8. CASE x.k = kind
  <2>1. B = A \cup {n + 1}
    BY <1>2, <1>6, <1>8
  <2> HIDE DEF A, B
  <2>2. Cardinality(B) = Cardinality(A) + 1
    BY <1>4, <1>7, <2>1, FS_AddElement
  <2>3. QED
    BY <1>5, <1>8, <2>2 DEF Count, A, B, n, t
<1>9. CASE x.k # kind
  <2>1. B = A
    BY <1>2, <1>6, <1>9
  <2> HIDE DEF A, B
  <2>2. Cardinality(A) = Cardinality(A) + 0 /\ Cardinality(B) = Cardinality(A) + 0
    BY <1>5, <2>1
  <2>3. Cardinality(A) = Count(text, kind, 1, Len(text)) /\ Cardinality(B) = Count(t, kind, 1, n + 1)
    BY DEF Count, A, B, n
  <2>4. QED
    BY <1>5, <1>9, <2>2, <2>3 DEF n, t
<1>10. QED
  BY <1>8, <1>9

\* How many conditions are open at the end of a text
Balance(text, depth) == Count(text, "if", 1, Len(text)) = Count(text, "endif", 1, Len(text)) + depth

LEMMA BalanceAppend ==
  ASSUME NEW text \in Seq(Outputs), NEW x \in Outputs, NEW depth \in Int, Balance(text, depth)
  PROVE  Balance(Append(text, x), IF x.k = "if" THEN depth + 1
                                  ELSE IF x.k = "endif" THEN depth - 1 ELSE depth)
<1>1. Len(Append(text, x)) = Len(text) + 1
  BY AppendProperties
<1> DEFINE A == Count(text, "if", 1, Len(text))
           B == Count(text, "endif", 1, Len(text))
           AA == Count(Append(text, x), "if", 1, Len(text) + 1)
           BB == Count(Append(text, x), "endif", 1, Len(text) + 1)
<1>2. A \in Nat /\ AA = A + (IF x.k = "if" THEN 1 ELSE 0)
  BY CountAppend
<1>3. B \in Nat /\ BB = B + (IF x.k = "endif" THEN 1 ELSE 0)
  BY CountAppend
<1>4. A = B + depth
  BY DEF Balance
<1> HIDE DEF A, B, AA, BB
<1>5. AA = BB + (IF x.k = "if" THEN depth + 1 ELSE IF x.k = "endif" THEN depth - 1 ELSE depth)
  BY <1>2, <1>3, <1>4
<1>6. QED
  BY <1>1, <1>5 DEF Balance, AA, BB

\* What the converter relies on in a text holds in its beginning.
LEMMA RelyBefore ==
  ASSUME NEW text \in Seq(Outputs), NEW x \in Outputs,
         SwitchesUnconditional(Append(text, x)), ConstantsSettled(Append(text, x))
  PROVE  SwitchesUnconditional(text) /\ ConstantsSettled(text)
<1> DEFINE t == Append(text, x)
<1>1. /\ DOMAIN text = 1 .. Len(text) /\ Len(text) \in Nat
      /\ DOMAIN t = 1 .. Len(text) + 1 /\ \A i \in 1 .. Len(text) : t[i] = text[i]
  BY AppendProperties, LenProperties
<1>2. SwitchesUnconditional(text)
  <2> SUFFICES ASSUME NEW i \in DOMAIN text, text[i].k = "segment"
               PROVE  Closed(text, 1, i - 2)
    BY DEF SwitchesUnconditional
  <2>1. i - 2 \in Int /\ i - 2 <= Len(text) /\ i \in DOMAIN t /\ t[i] = text[i]
    BY <1>1
  <2>2. Closed(t, 1, i - 2)
    BY <2>1 DEF SwitchesUnconditional
  <2>3. QED
    BY <2>1, <2>2, CountUpTo DEF Closed
<1>3. ConstantsSettled(text)
  <2> SUFFICES ASSUME NEW i \in DOMAIN text, NEW j \in DOMAIN text, i < j,
                      text[i].k = "define", text[i].v.k = "sym",
                      text[j].k \in {"define", "assign", "equ"}
               PROVE  text[j].n # text[i].v.n
    BY DEF ConstantsSettled
  <2>1. i \in DOMAIN t /\ j \in DOMAIN t /\ t[i] = text[i] /\ t[j] = text[j]
    BY <1>1
  <2> HIDE DEF t
  <2>2. ConstantsSettled(t)
    BY DEF t
  <2>3. QED
    BY <2>1, <2>2 DEF ConstantsSettled
<1>4. QED
  BY <1>2, <1>3

\* A name that constants are made from gets no other value.
LEMMA SettledBefore ==
  ASSUME NEW text \in Seq(Outputs), NEW x \in Outputs, ConstantsSettled(Append(text, x)),
         x.k \in {"define", "assign", "equ"}, NEW i \in DOMAIN text,
         text[i].k = "define", text[i].v.k = "sym"
  PROVE  x.n # text[i].v.n
<1> DEFINE t == Append(text, x)
<1>1. /\ DOMAIN text = 1 .. Len(text) /\ Len(text) \in Nat
      /\ DOMAIN t = 1 .. Len(text) + 1 /\ t[i] = text[i] /\ t[Len(text) + 1] = x
  BY AppendProperties, LenProperties
<1> HIDE DEF t
<1>2. ConstantsSettled(t)
  BY DEF t
<1>3. i \in DOMAIN t /\ Len(text) + 1 \in DOMAIN t /\ i < Len(text) + 1
  BY <1>1
<1>4. QED
  BY <1>1, <1>2, <1>3 DEF ConstantsSettled

\* The three lines of a switch, one by one
LEMMA SwitchLines ==
  ASSUME NEW text \in Seq(Outputs), NEW s \in Segments, NEW class \in BOOLEAN
  PROVE  LET one == Append(text, If(SplitLoad, FALSE))
             two == Append(one, SegmentLine(s, class))
             three == Append(two, EndIf)
         IN /\ If(SplitLoad, FALSE) \in Outputs /\ SegmentLine(s, class) \in Outputs /\ EndIf \in Outputs
            /\ one \in Seq(Outputs) /\ two \in Seq(Outputs) /\ three \in Seq(Outputs)
            /\ text \o InSplit([k |-> "segment", s |-> s, class |-> class]) = three
<1> DEFINE a == If(SplitLoad, FALSE)
           b == SegmentLine(s, class)
           one == Append(text, a)
           two == Append(one, b)
           three == Append(two, EndIf)
<1>1. a \in Outputs /\ b \in Outputs /\ EndIf \in Outputs
  BY ConvertAssumption DEF Outputs, If, SegmentLine, EndIf
<1>2. InSplit([k |-> "segment", s |-> s, class |-> class]) = <<a, b, EndIf>>
  BY DEF InSplit, SegmentLine
<1> DEFINE c == EndIf
<1> HIDE DEF a, b, c
<1>3. one \in Seq(Outputs) /\ one = text \o <<a>>
  BY <1>1, AppendProperties, AppendIsConcat
<1>4. two \in Seq(Outputs) /\ two = one \o <<b>>
  BY <1>1, <1>3, AppendProperties, AppendIsConcat
<1>5. three \in Seq(Outputs) /\ three = two \o <<c>>
  BY <1>1, <1>4, AppendProperties, AppendIsConcat DEF c
<1>6. <<a>> \in Seq(Outputs) /\ <<b>> \in Seq(Outputs) /\ <<c>> \in Seq(Outputs)
      /\ <<a>> \o <<b>> \in Seq(Outputs)
  BY <1>1 DEF c
<1>7. two = text \o (<<a>> \o <<b>>)
  BY <1>3, <1>4, <1>6, ConcatAssociative
<1>8. three = text \o ((<<a>> \o <<b>>) \o <<c>>)
  BY <1>5, <1>6, <1>7, ConcatAssociative
<1>9. (<<a>> \o <<b>>) \o <<c>> = <<a, b, c>>
  <2> DEFINE u == <<a>> \o <<b>>
             v == <<a, b, c>>
  <2>1. Len(<<a>>) = 1 /\ Len(<<b>>) = 1 /\ Len(<<c>>) = 1 /\ Len(v) = 3 /\ v \in Seq(Outputs)
        /\ \A i \in 1 .. 2 : i <= 1 <=> i = 1
    BY <1>1 DEF c
  <2>2. u \in Seq(Outputs) /\ Len(u) = 2 /\ u[1] = a /\ u[2] = b
    <3>1. /\ u \in Seq(Outputs) /\ Len(u) = Len(<<a>>) + Len(<<b>>)
          /\ \A i \in 1 .. Len(<<a>>) + Len(<<b>>) :
               u[i] = IF i <= Len(<<a>>) THEN <<a>>[i] ELSE <<b>>[i - Len(<<a>>)]
      BY <1>6, ConcatProperties
    <3>2. QED
      BY <2>1, <3>1
  <2> HIDE DEF u
  <2>3. /\ u \o <<c>> \in Seq(Outputs) /\ Len(u \o <<c>>) = 3
        /\ (u \o <<c>>)[1] = a /\ (u \o <<c>>)[2] = b /\ (u \o <<c>>)[3] = c
    <3>1. /\ u \o <<c>> \in Seq(Outputs) /\ Len(u \o <<c>>) = Len(u) + Len(<<c>>)
          /\ \A i \in 1 .. Len(u) + Len(<<c>>) :
               (u \o <<c>>)[i] = IF i <= Len(u) THEN u[i] ELSE <<c>>[i - Len(u)]
      BY <1>6, <2>2, ConcatProperties
    <3>2. QED
      BY <2>1, <2>2, <3>1
  <2>4. \A i \in 1 .. 3 : (u \o <<c>>)[i] = v[i]
    BY <2>3
  <2> HIDE DEF v
  <2>5. u \o <<c>> = v
    BY <2>1, <2>3, <2>4, SeqEqual
  <2>6. QED
    BY <2>5 DEF u, v
<1>10. QED
  BY <1>1, <1>2, <1>3, <1>4, <1>5, <1>8, <1>9 DEF a, b, c

------------------------------------------------------------------------------
(* Both assemblies and the converter, line by line                           *)

Opens  == {<<>>, <<"CSEG">>, <<"DSEG">>, <<"CSEG", "DSEG">>}
Wheres == [block : {"none", "comment", "macro"}, depth : Nat, open : Opens]

\* MASM after k lines of a source, with every range in it
MasmAt(s, k, d) == MasmStates(s.text, s.radix, d, {}, [i \in DOMAIN s.text |-> <<>>])[k]

LEMMA MasmAtSteps ==
  ASSUME NEW s, s.text \in Seq(SourceLines), NEW d
  PROVE  /\ MasmAt(s, 0, d) = Starting(s.radix)
         /\ \A k \in 1 .. Len(s.text) : MasmAt(s, k, d) = Masm(s.text, MasmAt(s, k - 1, d), k, d, {})
<1> DEFINE none == [i \in DOMAIN s.text |-> <<>>]
           f == MasmStates(s.text, s.radix, d, {}, none)
           n == Len(s.text)
<1>1. n \in Nat /\ DOMAIN s.text = 1 .. n
  BY LenProperties
<1>2. \A k \in 1 .. n : none[k] = <<>>
  BY <1>1
<1> HIDE DEF none
<1>3. n = Len(s.text)
  OBVIOUS
<1> HIDE DEF n
<1>4. /\ f[0] = Starting(s.radix)
      /\ \A k \in 1 .. n : f[k] = Masm(s.text, Stub(f[k - 1], none[k]), k, d, {})
  <2>1. MasmGoes(f, n, s.text, s.radix, d, {}, none)
    BY <1>1, <1>3, MasmSteps
  <2> HIDE DEF f
  <2>2. QED
    BY <2>1 DEF MasmGoes
<1> HIDE DEF f
<1>5. \A k \in 1 .. n : f[k] = Masm(s.text, f[k - 1], k, d, {})
  BY <1>2, <1>4 DEF Stub
<1>6. \A k : MasmAt(s, k, d) = f[k]
  BY DEF MasmAt, f, none
<1>7. QED
  BY <1>3, <1>4, <1>5, <1>6

\* Lines that open and close nothing
LEMMA BehindSame ==
  ASSUME NEW c, NEW l, c.block = "none",
         l.k \in {"public", "extrn", "else", "equ", "assign", "db", "ins86", "mov", "ret", "proc", "endp",
                  "scaffold", "endm", "radix"}
  PROVE  Behind(c, l) = c
BY DEF Behind

\* The values NASM has are from lines of the text.
FromLines(n, text) ==
  \A x \in Names : n.val[x] # NoValue =>
    \E i \in DOMAIN text :
      /\ text[i].k \in {"define", "assign", "equ"} /\ text[i].n = x
      /\ n.val[x].k = "sym" => text[i].k = "define" /\ text[i].v = n.val[x]

\* The lines that give values are from lines of the source that do.
FromSource(text, source) ==
  \A i \in DOMAIN text : text[i].k \in {"define", "assign", "equ"} =>
    \E j \in DOMAIN source : source[j].k \in {"equ", "assign"} /\ source[j].n = text[i].n

\* Other values for one name
Updated(val, x, g) == [val EXCEPT ![x] = g]

LEMMA NasmValues ==
  ASSUME NEW n \in States, NEW x \in Outputs, NEW d
  PROVE  \/ Nasm(n, x, d).val = n.val
         \/ /\ x.k = "define" /\ x.n \in Names
            /\ Nasm(n, x, d).val = Updated(n.val, x.n, x.v)
         \/ /\ x.k \in {"assign", "equ"} /\ x.n \in Names
            /\ \E w : Nasm(n, x, d).val = Updated(n.val, x.n, [k |-> "is", v |-> w])
<1>0. \A p, w : p = Place(n, w) => p.val = n.val
  BY DEF Place, States
<1>1. CASE x.k \in {"if", "else", "endif"}
  BY <1>1 DEF Nasm, Branch, States
<1>2. CASE x.k = "segment"
  BY <1>2 DEF Nasm, States
<1>3. CASE x.k = "define"
  <2>1. x.n \in Names
    BY <1>3 DEF Outputs
  <2>2. QED
    BY <1>3, <2>1 DEF Nasm, States, Updated
<1>4. CASE x.k \in {"assign", "equ"}
  <2>1. x.n \in Names
    BY <1>4 DEF Outputs
  <2>2. CASE ~Live(n)
    BY <1>4, <2>2 DEF Nasm
  <2>3. CASE Live(n)
    <3> DEFINE w == Value(n, x.v)
    <3>1. Nasm(n, x, d) = Eager(n, x.n, x.v)
      BY <1>4, <2>3 DEF Nasm
    <3>2. Nasm(n, x, d) = [n EXCEPT !.val[x.n] = [k |-> "is", v |-> w]]
      BY <3>1 DEF Eager
    <3> HIDE DEF w
    <3>3. Nasm(n, x, d).val = Updated(n.val, x.n, [k |-> "is", v |-> w])
      BY <3>2 DEF States, Updated
    <3>4. QED
      BY <1>4, <2>1, <3>3
  <2>4. QED
    BY <2>2, <2>3
<1>5. \A y, op, v : PlaceLabel(n, y).val = n.val /\ PlaceCode(n, op, v).val = n.val
                    /\ PlaceCode(PlaceLabel(n, y), op, v).val = n.val
  BY DEF PlaceLabel, PlaceCode, Place, States
<1>6. CASE x.k \in {"label", "db", "ret", "mov", "global", "extern"}
  BY <1>5, <1>6 DEF Nasm
<1>7. QED
  BY <1>1, <1>2, <1>3, <1>4, <1>6 DEF Outputs

LEMMA FromLinesAppend ==
  ASSUME NEW n \in States, NEW text \in Seq(Outputs), NEW x \in Outputs, NEW d, FromLines(n, text)
  PROVE  FromLines(Nasm(n, x, d), Append(text, x))
<1> DEFINE t == Append(text, x)
           nn == Nasm(n, x, d)
           last == Len(text) + 1
<1>1. /\ \A i \in DOMAIN text : i \in DOMAIN t /\ t[i] = text[i]
      /\ last \in DOMAIN t /\ t[last] = x
  <2>1. /\ DOMAIN text = 1 .. Len(text) /\ Len(text) \in Nat
        /\ DOMAIN t = 1 .. Len(text) + 1 /\ \A i \in 1 .. Len(text) : t[i] = text[i]
        /\ t[Len(text) + 1] = x
    BY AppendProperties, LenProperties
  <2> HIDE DEF t
  <2>2. QED
    BY <2>1
<1>2. n.val \in [Names -> Given]
  BY DEF States
<1> HIDE DEF t, last
<1> SUFFICES ASSUME NEW y \in Names, nn.val[y] # NoValue
             PROVE  \E i \in DOMAIN t :
                      /\ t[i].k \in {"define", "assign", "equ"} /\ t[i].n = y
                      /\ nn.val[y].k = "sym" => t[i].k = "define" /\ t[i].v = nn.val[y]
  BY DEF FromLines, t
<1>3. ASSUME nn.val[y] = n.val[y]
      PROVE  \E i \in DOMAIN t :
                      /\ t[i].k \in {"define", "assign", "equ"} /\ t[i].n = y
                      /\ nn.val[y].k = "sym" => t[i].k = "define" /\ t[i].v = nn.val[y]
  BY <1>1, <1>3 DEF FromLines
<1>4. CASE nn.val = n.val
  BY <1>3, <1>4
<1>5. CASE x.k = "define" /\ x.n \in Names /\ nn.val = Updated(n.val, x.n, x.v)
  <2>1. CASE y # x.n
    BY <1>2, <1>3, <1>5, <2>1 DEF Updated
  <2>2. CASE y = x.n
    <3>1. nn.val[y] = x.v
      BY <1>2, <1>5, <2>2 DEF Updated
    <3> HIDE DEF nn
    <3>2. QED
      BY <1>1, <1>5, <2>2, <3>1
  <2>3. QED
    BY <2>1, <2>2
<1>6. CASE x.k \in {"assign", "equ"} /\ x.n \in Names
           /\ \E w : nn.val = Updated(n.val, x.n, [k |-> "is", v |-> w])
  <2>1. CASE y # x.n
    BY <1>2, <1>3, <1>6, <2>1 DEF Updated
  <2>2. CASE y = x.n
    <3>1. nn.val[y].k = "is"
      BY <1>2, <1>6, <2>2 DEF Updated
    <3> HIDE DEF nn
    <3>2. QED
      BY <1>1, <1>6, <2>2, <3>1
  <2>3. QED
    BY <2>1, <2>2
<1> HIDE DEF nn
<1>7. \/ nn.val = n.val
      \/ x.k = "define" /\ x.n \in Names /\ nn.val = Updated(n.val, x.n, x.v)
      \/ x.k \in {"assign", "equ"} /\ x.n \in Names
         /\ \E w : nn.val = Updated(n.val, x.n, [k |-> "is", v |-> w])
  BY NasmValues DEF nn
<1>8. QED
  BY <1>4, <1>5, <1>6, <1>7, Zenon

LEMMA FromSourceAppend ==
  ASSUME NEW text \in Seq(Outputs), NEW x \in Outputs, NEW source, FromSource(text, source),
         x.k \in {"define", "assign", "equ"} =>
           \E j \in DOMAIN source : source[j].k \in {"equ", "assign"} /\ source[j].n = x.n
  PROVE  FromSource(Append(text, x), source)
<1> DEFINE t == Append(text, x)
<1>1. /\ DOMAIN text = 1 .. Len(text) /\ Len(text) \in Nat
      /\ DOMAIN t = 1 .. Len(text) + 1 /\ \A i \in 1 .. Len(text) : t[i] = text[i]
      /\ t[Len(text) + 1] = x
  BY AppendProperties, LenProperties
<1> HIDE DEF t
<1>2. \A i \in DOMAIN t : t[i] = x \/ (i \in DOMAIN text /\ t[i] = text[i])
  BY <1>1
<1>3. FromSource(t, source)
  BY <1>2 DEF FromSource
<1>4. QED
  BY <1>3 DEF t

LEMMA FromLinesMore ==
  ASSUME NEW n, NEW nn, nn.val = n.val, NEW text \in Seq(Outputs), NEW x \in Outputs, FromLines(n, text)
  PROVE  FromLines(nn, Append(text, x))
<1> DEFINE t == Append(text, x)
<1>1. /\ DOMAIN text = 1 .. Len(text) /\ Len(text) \in Nat
      /\ DOMAIN t = 1 .. Len(text) + 1 /\ \A i \in 1 .. Len(text) : t[i] = text[i]
  BY AppendProperties, LenProperties
<1> HIDE DEF t
<1>2. \A i \in DOMAIN text : i \in DOMAIN t /\ t[i] = text[i]
  BY <1>1
<1>3. FromLines(nn, t)
  BY <1>2 DEF FromLines
<1>4. QED
  BY <1>3 DEF t

\* A switch of segments leaves the conditions open that were, and relies on there being none.
LEMMA SwitchText ==
  ASSUME NEW text \in Seq(Outputs), NEW depth \in Nat, Balance(text, depth), NEW source,
         FromSource(text, source), NEW s \in Segments, NEW class \in BOOLEAN, NEW all,
         all = text \o InSplit([k |-> "segment", s |-> s, class |-> class])
  PROVE  /\ all \in Seq(Outputs) /\ Balance(all, depth) /\ FromSource(all, source)
         /\ SwitchesUnconditional(all) /\ ConstantsSettled(all) =>
              depth = 0 /\ SwitchesUnconditional(text) /\ ConstantsSettled(text)
<1> DEFINE a == If(SplitLoad, FALSE)
           b == SegmentLine(s, class)
           c == EndIf
           one == Append(text, a)
           two == Append(one, b)
           three == Append(two, c)
<1>1. /\ a \in Outputs /\ b \in Outputs /\ c \in Outputs
      /\ one \in Seq(Outputs) /\ two \in Seq(Outputs) /\ three \in Seq(Outputs) /\ all = three
  BY SwitchLines
<1>2. a.k = "if" /\ b.k = "segment" /\ c.k = "endif"
  BY DEF If, SegmentLine, EndIf
<1> HIDE DEF a, b, c, one, two, three
<1>3. Balance(one, depth + 1)
  BY <1>1, <1>2, BalanceAppend DEF one
<1>4. Balance(two, depth + 1)
  <2>1. depth + 1 \in Int
    OBVIOUS
  <2>2. QED
    BY <1>1, <1>2, <1>3, <2>1, BalanceAppend DEF two
<1>5. Balance(three, depth)
  <2>1. depth + 1 \in Int /\ (depth + 1) - 1 = depth
    OBVIOUS
  <2>2. Balance(three, (depth + 1) - 1)
    BY <1>1, <1>2, <1>4, <2>1, BalanceAppend DEF three
  <2>3. QED
    BY <2>1, <2>2
<1>6. FromSource(one, source) /\ FromSource(two, source) /\ FromSource(three, source)
  <2>1. FromSource(one, source)
    BY <1>1, <1>2, FromSourceAppend DEF one
  <2>2. FromSource(two, source)
    BY <1>1, <1>2, <2>1, FromSourceAppend DEF two
  <2>3. FromSource(three, source)
    BY <1>1, <1>2, <2>2, FromSourceAppend DEF three
  <2>4. QED
    BY <2>1, <2>2, <2>3
<1>7. ASSUME SwitchesUnconditional(three), ConstantsSettled(three)
      PROVE  depth = 0 /\ SwitchesUnconditional(text) /\ ConstantsSettled(text)
  <2>1. SwitchesUnconditional(two) /\ ConstantsSettled(two)
    BY <1>1, <1>7, RelyBefore DEF three
  <2>2. SwitchesUnconditional(one) /\ ConstantsSettled(one)
    BY <1>1, <2>1, RelyBefore DEF two
  <2>3. SwitchesUnconditional(text) /\ ConstantsSettled(text)
    BY <1>1, <2>2, RelyBefore DEF one
  <2>4. Len(text) \in Nat /\ Len(one) = Len(text) + 1 /\ Len(two) = Len(one) + 1
        /\ two[Len(one) + 1] = b
    <3>1. Len(one) = Len(text) + 1
      BY <1>1, AppendProperties DEF one
    <3>2. Len(two) = Len(one) + 1 /\ two[Len(one) + 1] = b
      BY <1>1, AppendProperties DEF two
    <3>3. QED
      BY <3>1, <3>2, LenProperties
  <2> DEFINE p == Len(text)
             q == Len(one) + 1
  <2>5. p \in Int /\ q \in Int /\ q - 2 = p /\ p <= Len(text) /\ p <= Len(one) /\ q \in 1 .. Len(two)
    BY <2>4
  <2> HIDE DEF p, q
  <2>6. q \in DOMAIN two /\ two[q].k = "segment"
    BY <1>1, <1>2, <2>4, <2>5, LenProperties DEF q
  <2>7. Closed(two, 1, p)
    BY <2>1, <2>5, <2>6 DEF SwitchesUnconditional
  <2>8. \A kind : Count(two, kind, 1, p) = Count(one, kind, 1, p)
    BY <1>1, <2>5, CountUpTo DEF two
  <2>9. \A kind : Count(one, kind, 1, p) = Count(text, kind, 1, p)
    BY <1>1, <2>5, CountUpTo DEF one
  <2>10. Count(text, "if", 1, p) = Count(text, "endif", 1, p)
    BY <2>7, <2>8, <2>9 DEF Closed
  <2>11. Count(text, "endif", 1, p) \in Nat
    BY <1>1, CountAppend DEF p
  <2>12. depth = 0
    BY <2>10, <2>11 DEF Balance, p
  <2>13. QED
    BY <2>3, <2>12
<1>8. QED
  BY <1>1, <1>5, <1>6, <1>7

\* NASM at a switch
LEMMA SwitchState ==
  ASSUME NEW text \in Seq(Outputs), NEW s \in Segments, NEW decl \in SUBSET Segments, NEW all,
         all = text \o InSplit([k |-> "segment", s |-> s, class |-> s \notin decl]),
         NEW d \in [Switches -> BOOLEAN], NEW m, Alike(d, m, NasmTo(text, d)), Len(m.live) = 0,
         FromLines(NasmTo(text, d), text), d[SplitLoad] => NasmTo(text, d).classed = decl
  PROVE  /\ Alike(d, m, NasmTo(all, d)) /\ FromLines(NasmTo(all, d), all)
         /\ d[SplitLoad] => /\ NasmTo(all, d).classed = decl \cup {s}
                            /\ NasmTo(all, d).segs = <<s>>
<1>0. PICK class \in BOOLEAN : class = (s \notin decl)
  OBVIOUS
<1>00. all = text \o InSplit([k |-> "segment", s |-> s, class |-> class])
  BY <1>0
<1> DEFINE a == If(SplitLoad, FALSE)
           b == SegmentLine(s, class)
           c == EndIf
           one == Append(text, a)
           two == Append(one, b)
           three == Append(two, c)
           n == NasmTo(text, d)
           nn == NasmTo(three, d)
<1>1. /\ a \in Outputs /\ b \in Outputs /\ c \in Outputs
      /\ one \in Seq(Outputs) /\ two \in Seq(Outputs) /\ three \in Seq(Outputs) /\ all = three
  BY <1>00, SwitchLines
<1>2. nn = Switched(n, b, d)
  <2> HIDE DEF a, b, c, one, two, three
  <2>1. NasmTo(one, d) = Nasm(n, a, d)
    BY <1>1, NasmOne DEF one
  <2>2. NasmTo(two, d) = Nasm(NasmTo(one, d), b, d)
    BY <1>1, NasmOne DEF two
  <2>3. NasmTo(three, d) = Nasm(NasmTo(two, d), c, d)
    BY <1>1, NasmOne DEF three
  <2>4. QED
    BY <2>1, <2>2, <2>3 DEF Switched, a, c
<1>3. Live(n)
  <2>1. n.live = m.live /\ n.skip = "none" /\ m \in States
    BY DEF Alike
  <2>2. m.live \in Seq(BOOLEAN)
    BY <2>1 DEF States
  <2>3. DOMAIN n.live = {}
    BY <2>1, <2>2, LenProperties
  <2>4. QED
    BY <2>1, <2>3 DEF Live
<1> DEFINE known == IF class THEN n.classed \cup {s} ELSE n.classed
<1>4. /\ Alike(d, m, nn) /\ nn.val = n.val
      /\ d[SplitLoad] => nn.classed = known /\ (s \in known => nn.segs = <<s>>)
  <2>1. Alike(d, m, n) /\ (d[SplitLoad] => Live(n))
    BY <1>3 DEF n
  <2>2. b \in [k : {"segment"}, s : Segments, class : BOOLEAN] /\ b.s = s /\ Known(n, b) = known
    BY DEF SegmentLine, Known
  <2> HIDE DEF n, nn, known, b
  <2>3. /\ Alike(d, m, Switched(n, b, d)) /\ Switched(n, b, d).val = n.val
        /\ d[SplitLoad] =>
             /\ Switched(n, b, d).classed = Known(n, b)
             /\ b.s \in Known(n, b) => Switched(n, b, d).segs = <<b.s>>
    BY <2>1, <2>2, SwitchedAlike
  <2>4. QED
    BY <1>2, <2>2, <2>3
<1>5. d[SplitLoad] => known = decl \cup {s}
  BY <1>0
<1> HIDE DEF a, b, c, one, two, three, n, nn
<1>6. FromLines(nn, three)
  <2>1. FromLines(n, text)
    BY DEF n
  <2>2. FromLines(n, one)
    BY <1>1, <2>1, FromLinesMore DEF one
  <2>3. FromLines(n, two)
    BY <1>1, <2>2, FromLinesMore DEF two
  <2>4. QED
    BY <1>1, <1>4, <2>3, FromLinesMore DEF three
<1>7. QED
  BY <1>1, <1>4, <1>5, <1>6 DEF nn

------------------------------------------------------------------------------
(* The ranges                                                                *)

\* The rounds of find_range_occurrences follow each other.
LEMMA RoundsSteps ==
  ASSUME NEW text, NEW r, NEW n, n \in Nat, n = Len(text)
  PROVE  /\ Rounds(text, r)[0] = [ranges |-> <<>>, start_at |-> 1, ended |-> FALSE]
         /\ \A k \in 1 .. n : Rounds(text, r)[k] = Round(text, r, Rounds(text, r)[k - 1])
<1> DEFINE Makes(f, m) == f = [k \in 0 .. m |-> IF k = 0 THEN [ranges |-> <<>>, start_at |-> 1, ended |-> FALSE] ELSE Round(text, r, f[k - 1])]
           S == {m \in 0 .. n : \E f : Makes(f, m)}
           all == CHOOSE f : Makes(f, n)
<1>1. 0 \in S
  <2> DEFINE g == [k \in 0 .. 0 |-> [ranges |-> <<>>, start_at |-> 1, ended |-> FALSE]]
  <2>1. \A k \in 0 .. 0 : k = 0
    OBVIOUS
  <2>2. Makes(g, 0)
    BY <2>1, Zenon
  <2> HIDE DEF Makes, g
  <2>3. QED
    BY <2>2
<1>2. \A m \in 0 .. n - 1 : m \in S => m + 1 \in S
  <2> SUFFICES ASSUME NEW m \in 0 .. n - 1, m \in S PROVE m + 1 \in S
    OBVIOUS
  <2>1. PICK f : Makes(f, m)
    OBVIOUS
  <2> DEFINE j == m + 1
             h == [k \in 0 .. j |-> IF k = j THEN Round(text, r, f[k - 1]) ELSE f[k]]
  <2>2. /\ \A k \in 0 .. j : k # j => k \in 0 .. m
        /\ \A k \in 0 .. j : k # 0 => k - 1 \in 0 .. j /\ k - 1 # j
        /\ j # 0
    OBVIOUS
  <2> HIDE DEF j
  <2>3. \A k \in 0 .. m : f[k] = IF k = 0 THEN [ranges |-> <<>>, start_at |-> 1, ended |-> FALSE] ELSE Round(text, r, f[k - 1])
    BY <2>1, Zenon
  <2>4. ASSUME NEW k \in 0 .. j
        PROVE  h[k] = IF k = 0 THEN [ranges |-> <<>>, start_at |-> 1, ended |-> FALSE] ELSE Round(text, r, h[k - 1])
    <3>1. CASE k = 0
      BY <2>2, <2>3, <3>1, Zenon
    <3>2. CASE k # 0
      <4>1. h[k - 1] = f[k - 1]
        BY <2>2, <3>2, Zenon
      <4>2. h[k] = Round(text, r, f[k - 1])
        BY <2>2, <2>3, <3>2, Zenon
      <4>3. QED
        BY <3>2, <4>1, <4>2, Zenon
    <3>3. QED
      BY <3>1, <3>2
  <2>5. Makes(h, j)
    <3>1. h = [k \in 0 .. j |-> h[k]]
      BY Zenon
    <3> HIDE DEF h
    <3>2. QED
      BY <2>4, <3>1, Zenon
  <2> HIDE DEF Makes, h
  <2>6. \E f1 : Makes(f1, m + 1)
    BY <2>5 DEF j
  <2>7. QED
    BY <2>6
<1>3. n \in S
  <2> HIDE DEF S
  <2>1. \A m \in 0 .. n : m \in S
    BY <1>1, <1>2, UpTo
  <2>2. QED
    BY <2>1
<1>4. Makes(all, n)
  <2> HIDE DEF Makes
  <2>1. QED
    BY <1>3
<1>5. Rounds(text, r) = all
  BY Zenon DEF Rounds
<1> HIDE DEF all
<1>6. \A k \in 0 .. n : all[k] = IF k = 0 THEN [ranges |-> <<>>, start_at |-> 1, ended |-> FALSE] ELSE Round(text, r, all[k - 1])
  BY <1>4, Zenon
<1>7. 0 \in 0 .. n /\ \A k \in 1 .. n : k \in 0 .. n /\ k # 0
  OBVIOUS
<1>8. all[0] = [ranges |-> <<>>, start_at |-> 1, ended |-> FALSE]
  BY <1>6, <1>7, Zenon
<1>9. ASSUME NEW k \in 1 .. n PROVE all[k] = Round(text, r, all[k - 1])
  BY <1>6, <1>7, Zenon
<1> HIDE DEF Makes
<1>10. QED
  BY <1>5, <1>8, <1>9

WrapGoes(f, n, text, r, at) ==
  f[0] = text /\ \A k \in 1 .. n : f[k] = Wrap(f[k - 1], r, at[n + 1 - k])

\* One stretch after the other is wrapped.
LEMMA WrappedSteps ==
  ASSUME NEW text, NEW r, NEW at, NEW n, n \in Nat, n = Len(at)
  PROVE  WrapGoes(Wrapped(text, r, at), n, text, r, at)
<1> DEFINE Makes(f, m) == f = [k \in 0 .. m |-> IF k = 0 THEN text ELSE Wrap(f[k - 1], r, at[n + 1 - k])]
           S == {m \in 0 .. n : \E f : Makes(f, m)}
           all == CHOOSE f : Makes(f, n)
<1>1. 0 \in S
  <2> DEFINE g == [k \in 0 .. 0 |-> text]
  <2>1. \A k \in 0 .. 0 : k = 0
    OBVIOUS
  <2>2. Makes(g, 0)
    BY <2>1, Zenon
  <2> HIDE DEF Makes, g
  <2>3. QED
    BY <2>2
<1>2. \A m \in 0 .. n - 1 : m \in S => m + 1 \in S
  <2> SUFFICES ASSUME NEW m \in 0 .. n - 1, m \in S PROVE m + 1 \in S
    OBVIOUS
  <2>1. PICK f : Makes(f, m)
    OBVIOUS
  <2> DEFINE j == m + 1
             h == [k \in 0 .. j |-> IF k = j THEN Wrap(f[k - 1], r, at[n + 1 - k]) ELSE f[k]]
  <2>2. /\ \A k \in 0 .. j : k # j => k \in 0 .. m
        /\ \A k \in 0 .. j : k # 0 => k - 1 \in 0 .. j /\ k - 1 # j
        /\ j # 0
    OBVIOUS
  <2> HIDE DEF j
  <2>3. \A k \in 0 .. m : f[k] = IF k = 0 THEN text ELSE Wrap(f[k - 1], r, at[n + 1 - k])
    BY <2>1, Zenon
  <2>4. ASSUME NEW k \in 0 .. j
        PROVE  h[k] = IF k = 0 THEN text ELSE Wrap(h[k - 1], r, at[n + 1 - k])
    <3>1. CASE k = 0
      BY <2>2, <2>3, <3>1, Zenon
    <3>2. CASE k # 0
      <4>1. h[k - 1] = f[k - 1]
        BY <2>2, <3>2, Zenon
      <4>2. h[k] = Wrap(f[k - 1], r, at[n + 1 - k])
        BY <2>2, <2>3, <3>2, Zenon
      <4>3. QED
        BY <3>2, <4>1, <4>2, Zenon
    <3>3. QED
      BY <3>1, <3>2
  <2>5. Makes(h, j)
    <3>1. h = [k \in 0 .. j |-> h[k]]
      BY Zenon
    <3> HIDE DEF h
    <3>2. QED
      BY <2>4, <3>1, Zenon
  <2> HIDE DEF Makes, h
  <2>6. \E f1 : Makes(f1, m + 1)
    BY <2>5 DEF j
  <2>7. QED
    BY <2>6
<1>3. n \in S
  <2> HIDE DEF S
  <2>1. \A m \in 0 .. n : m \in S
    BY <1>1, <1>2, UpTo
  <2>2. QED
    BY <2>1
<1>4. Makes(all, n)
  <2> HIDE DEF Makes
  <2>1. QED
    BY <1>3
<1>5. Wrapped(text, r, at) = all
  BY Zenon DEF Wrapped
<1> HIDE DEF all
<1>6. \A k \in 0 .. n : all[k] = IF k = 0 THEN text ELSE Wrap(all[k - 1], r, at[n + 1 - k])
  BY <1>4, Zenon
<1>7. 0 \in 0 .. n /\ \A k \in 1 .. n : k \in 0 .. n /\ k # 0
  OBVIOUS
<1>8. all[0] = text
  BY <1>6, <1>7, Zenon
<1>9. ASSUME NEW k \in 1 .. n PROVE all[k] = Wrap(all[k - 1], r, at[n + 1 - k])
  BY <1>6, <1>7, Zenon
<1> HIDE DEF Makes
<1>10. QED
  BY <1>5, <1>8, <1>9 DEF WrapGoes

Spans(text) == {o \in [from : 1 .. Len(text), end : 0 .. Len(text) + 1] : o.end = 0 \/ o.from < o.end}

LEMMA FindLine ==
  ASSUME NEW text \in Seq(Outputs), NEW x, NEW from \in Nat
  PROVE  find_symbol_line(text, x, from) = 0 \/ find_symbol_line(text, x, from) \in from .. Len(text)
<1> DEFINE at == {i \in from .. Len(text) : symbol_line_re(text[i], x)}
<1>1. CASE at = {}
  BY <1>1 DEF find_symbol_line
<1>2. CASE at # {}
  <2>1. at \in SUBSET Nat
    BY LenProperties
  <2>2. \E i \in at : \A j \in at : ~ (<<j, i>> \in OpToRel(<, Nat))
    BY <1>2, <2>1, WFMin, NatLessThanWellFounded
  <2>3. PICK i \in at : \A j \in at : ~ (j < i)
    BY <2>1, <2>2, Zenon DEF OpToRel
  <2>4. \A j \in at : i <= j
    BY <2>1, <2>3
  <2>5. find_symbol_line(text, x, from) = CHOOSE k \in at : \A j \in at : k <= j
    BY <1>2 DEF find_symbol_line
  <2> HIDE DEF at
  <2>6. find_symbol_line(text, x, from) \in at
    BY <2>3, <2>4, <2>5
  <2>7. QED
    BY <2>6 DEF at
<1>3. QED
  BY <1>1, <1>2

\* What a round is given, and makes
Found(text) == {w \in [ranges : Seq(Spans(text)), start_at : Nat, ended : BOOLEAN] :
                  w.ended \/ w.start_at > 0}

LEMMA RoundFound ==
  ASSUME NEW text \in Seq(Outputs), NEW r, NEW w \in Found(text)
  PROVE  Round(text, r, w) \in Found(text)
<1> DEFINE s == find_symbol_line(text, r.start, w.start_at)
           e == IF r.end = EndOfFile THEN Len(text) + 1 ELSE find_symbol_line(text, r.end, s + 1)
           S == Spans(text)
<1>1. /\ w.ranges \in Seq(S) /\ w.start_at \in Nat /\ w.ended \in BOOLEAN
      /\ w.ended \/ w.start_at > 0
      /\ w \in [ranges : Seq(S), start_at : Nat, ended : BOOLEAN]
  BY DEF Found
<1>2. Round(text, r, w) = IF w.ended \/ s = 0 THEN [w EXCEPT !.ended = TRUE]
         ELSE [ranges |-> Append(w.ranges, [from |-> s, end |-> e]), start_at |-> e, ended |-> e = 0]
  BY DEF Round
<1> HIDE DEF s, e
<1>3. CASE w.ended \/ s = 0
  <2>1. Round(text, r, w) = [w EXCEPT !.ended = TRUE]
    BY <1>2, <1>3
  <2> HIDE DEF S
  <2>2. QED
    BY <1>1, <2>1 DEF Found, S
<1>4. CASE ~(w.ended \/ s = 0)
  <2>1. s \in w.start_at .. Len(text) /\ w.start_at > 0 /\ Len(text) \in Nat
    BY <1>1, <1>4, FindLine, LenProperties DEF s
  <2>2. s \in 1 .. Len(text) /\ s + 1 \in Nat
    BY <1>1, <2>1
  <2>3. e = 0 \/ e \in s + 1 .. Len(text) + 1
    <3>1. CASE r.end = EndOfFile
      BY <2>1, <2>2, <3>1 DEF e
    <3>2. CASE r.end # EndOfFile
      <4>1. e = find_symbol_line(text, r.end, s + 1)
        BY <3>2 DEF e
      <4>2. e = 0 \/ e \in s + 1 .. Len(text)
        BY <2>2, <4>1, FindLine
      <4>3. QED
        BY <2>1, <4>2
    <3>3. QED
      BY <3>1, <3>2
  <2>4. e \in 0 .. Len(text) + 1 /\ (e = 0 \/ s < e) /\ e \in Nat
    BY <2>1, <2>2, <2>3
  <2>5. [from |-> s, end |-> e] \in S
    BY <2>2, <2>4 DEF Spans
  <2> HIDE DEF S
  <2>6. Append(w.ranges, [from |-> s, end |-> e]) \in Seq(S)
    BY <1>1, <2>5, AppendProperties
  <2>7. Round(text, r, w)
          = [ranges |-> Append(w.ranges, [from |-> s, end |-> e]), start_at |-> e, ended |-> e = 0]
    BY <1>2, <1>4
  <2>8. PICK b \in BOOLEAN : b <=> e = 0
    OBVIOUS
  <2>9. Round(text, r, w)
          = [ranges |-> Append(w.ranges, [from |-> s, end |-> e]), start_at |-> e, ended |-> b]
    BY <2>7, <2>8
  <2>10. b \/ e > 0
    <3>1. CASE e = 0
      BY <2>8, <3>1
    <3>2. CASE e # 0
      BY <2>4, <3>2
    <3>3. QED
      BY <3>1, <3>2
  <2>11. QED
    BY <2>4, <2>6, <2>9, <2>10 DEF Found, S
<1>5. QED
  BY <1>3, <1>4

LEMMA StretchesTyped ==
  ASSUME NEW text \in Seq(Outputs), NEW r
  PROVE  Stretches(text, r) \in Seq(Spans(text))
<1> DEFINE n == Len(text)
           f == Rounds(text, r)
           T == {k \in 0 .. n : f[k] \in Found(text)}
<1>1. n \in Nat /\ n = Len(text)
  BY LenProperties
<1>2. /\ f[0] = [ranges |-> <<>>, start_at |-> 1, ended |-> FALSE]
      /\ \A k \in 1 .. n : f[k] = Round(text, r, f[k - 1])
  BY <1>1, RoundsSteps
<1> HIDE DEF f, n
<1>3. <<>> \in Seq(Spans(text))
  OBVIOUS
<1>4. 0 \in T
  <2>1. [ranges |-> <<>>, start_at |-> 1, ended |-> FALSE] \in Found(text)
    BY <1>3 DEF Found
  <2>2. 0 \in 0 .. n
    BY <1>1
  <2>3. QED
    BY <1>2, <2>1, <2>2
<1>5. ASSUME NEW k \in 0 .. n - 1, k \in T PROVE k + 1 \in T
  <2>1. PICK j \in 1 .. n : j = k + 1 /\ j - 1 = k
    BY <1>1
  <2>2. f[j] \in Found(text)
    BY <1>2, <1>5, <2>1, RoundFound
  <2>3. QED
    BY <1>1, <2>1, <2>2
<1>6. n \in T
  <2> HIDE DEF T
  <2>1. \A k \in 0 .. n : k \in T
    BY <1>1, <1>4, <1>5, UpTo
  <2>2. QED
    BY <1>1, <2>1
<1>7. f[n].ranges \in Seq(Spans(text))
  BY <1>6 DEF Found
<1>8. QED
  BY <1>7 DEF Stretches, f, n

\* What the tool wraps are whole stretches of the text.
Wholes(text) == {o \in Spans(text) : o.end # 0}

LEMMA OccurrencesTyped ==
  ASSUME NEW text \in Seq(Outputs), NEW r \in Ranges
  PROVE  find_range_occurrences(text, r) \in Seq(Wholes(text))
<1> DEFINE all == Stretches(text, r)
           W == Wholes(text)
<1>1. all \in Seq(Spans(text))
  BY StretchesTyped
<1>2. /\ Len(all) \in Nat /\ DOMAIN all = 1 .. Len(all) /\ all \in [1 .. Len(all) -> Spans(text)]
  BY <1>1, LenProperties
<1> DEFINE found == find_range_occurrences(text, r)
<1>3. found = IF r.occurrence = All
              THEN IF \A i \in DOMAIN all : all[i].end # 0 THEN all ELSE <<>>
              ELSE IF r.occurrence <= Len(all) /\ all[r.occurrence].end # 0
                   THEN <<all[r.occurrence]>> ELSE <<>>
  BY DEF find_range_occurrences
<1> HIDE DEF all, found, W
<1>4. <<>> \in Seq(W)
  OBVIOUS
<1>5. CASE r.occurrence = All /\ \A i \in DOMAIN all : all[i].end # 0
  <2>1. \A i \in 1 .. Len(all) : all[i] \in W
    BY <1>2, <1>5 DEF Wholes, W
  <2>2. all \in [1 .. Len(all) -> W]
    BY <1>2, <2>1
  <2>3. all \in Seq(W)
    BY <1>2, <2>2, SeqDef
  <2>4. QED
    BY <1>3, <1>5, <2>3 DEF found, W
<1>6. CASE r.occurrence # All /\ r.occurrence <= Len(all) /\ all[r.occurrence].end # 0
  <2>1. r.occurrence \in Nat \ {0}
    BY <1>6 DEF Ranges
  <2>2. r.occurrence \in 1 .. Len(all)
    BY <1>2, <1>6, <2>1
  <2>3. all[r.occurrence] \in W
    BY <1>2, <1>6, <2>2 DEF Wholes, W
  <2>4. <<all[r.occurrence]>> \in Seq(W)
    BY <2>3
  <2>5. QED
    BY <1>3, <1>6, <2>4 DEF found, W
<1>7. found = <<>> \/ (r.occurrence = All /\ \A i \in DOMAIN all : all[i].end # 0)
      \/ (r.occurrence # All /\ r.occurrence <= Len(all) /\ all[r.occurrence].end # 0)
  BY <1>3
<1>8. QED
  BY <1>4, <1>5, <1>6, <1>7 DEF found, W

LEMMA RetStubsTyped ==
  ASSUME NEW r \in Ranges
  PROVE  RetStubs(r) \in Seq(Outputs) /\ Len(RetStubs(r)) \in Nat
<1>1. r.stubs \in Seq(Names)
  BY DEF Ranges
<1>2. CASE r.stubs = <<>>
  <2>1. RetStubs(r) = <<>>
    BY <1>2 DEF RetStubs
  <2>2. QED
    BY <2>1, EmptySeq
<1>3. CASE r.stubs # <<>>
  <2> DEFINE a == <<[k |-> "else"]>>
             b == [i \in DOMAIN r.stubs |-> [k |-> "label", n |-> r.stubs[i]]]
             c == <<[k |-> "ret"]>>
  <2>1. RetStubs(r) = a \o b \o c
    BY <1>3 DEF RetStubs
  <2>2. [k |-> "else"] \in Outputs /\ [k |-> "ret"] \in Outputs
    BY DEF Outputs
  <2>3. a \in Seq(Outputs) /\ c \in Seq(Outputs)
    BY <2>2
  <2>4. b \in Seq(Outputs)
    <3>1. DOMAIN r.stubs = 1 .. Len(r.stubs) /\ Len(r.stubs) \in Nat
      BY <1>1, LenProperties
    <3>2. \A i \in DOMAIN r.stubs : b[i] \in Outputs
      <4> SUFFICES ASSUME NEW i \in DOMAIN r.stubs PROVE b[i] \in Outputs
        OBVIOUS
      <4>1. r.stubs[i] \in Names
        BY <1>1, <3>1, ElementOfSeq
      <4>2. b[i] = [k |-> "label", n |-> r.stubs[i]]
        OBVIOUS
      <4> HIDE DEF b
      <4>3. QED
        BY <4>1, <4>2 DEF Outputs
    <3>3. b \in [1 .. Len(r.stubs) -> Outputs]
      BY <3>1, <3>2
    <3> HIDE DEF b
    <3>4. QED
      BY <3>1, <3>3, SeqDef
  <2> HIDE DEF a, b, c
  <2>5. a \o b \o c \in Seq(Outputs)
    BY <2>3, <2>4, ConcatProperties
  <2>6. QED
    BY <2>1, <2>5, LenProperties
<1>4. QED
  BY <1>2, <1>3

LEMMA ConcatLength ==
  ASSUME NEW S, NEW a \in Seq(S), NEW b \in Seq(S)
  PROVE  a \o b \in Seq(S) /\ Len(a \o b) = Len(a) + Len(b)
BY ConcatProperties

LEMMA WrapTyped ==
  ASSUME NEW text \in Seq(Outputs), NEW r \in Ranges, NEW t \in Seq(Outputs), Len(text) <= Len(t),
         NEW o \in Wholes(text)
  PROVE  Wrap(t, r, o) \in Seq(Outputs) /\ Len(t) <= Len(Wrap(t, r, o))
<1>1. Len(t) \in Nat /\ Len(text) \in Nat
  BY LenProperties
<1>2. o.from \in 1 .. Len(text) /\ o.end \in 1 .. Len(text) + 1 /\ o.from < o.end
  BY <1>1 DEF Wholes, Spans
<1> DEFINE p == o.from
           e == o.end
           n == Len(t)
           one == SubSeq(t, 1, p - 1)
           two == <<[If(r.feature, FALSE) EXCEPT !.range = r.name]>>
           three == SubSeq(t, p, e - 1)
           four == RetStubs(r)
           five == <<EndIf>>
           six == SubSeq(t, e, n)
<1>3. Wrap(t, r, o) = one \o two \o three \o four \o five \o six
  BY DEF Wrap
<1>4. /\ p \in Nat /\ e \in Nat /\ n \in Nat /\ 1 <= p /\ p < e /\ e <= n + 1
  BY <1>1, <1>2
<1>5. \A i \in 1 .. n : t[i] \in Outputs
  BY ElementOfSeq
<1> HIDE DEF p, e, n, one, two, three, four, five, six
<1>6. one \in Seq(Outputs) /\ Len(one) = p - 1
  <2>1. 1 \in Int /\ p - 1 \in Int /\ \A i \in 1 .. p - 1 : t[i] \in Outputs
    BY <1>4, <1>5
  <2>2. one \in Seq(Outputs) /\ Len(one) = IF 1 <= p - 1 THEN p - 1 - 1 + 1 ELSE 0
    BY <2>1, SubSeqProperties DEF one
  <2>3. QED
    BY <1>4, <2>2
<1>7. three \in Seq(Outputs) /\ Len(three) = e - p
  <2>1. p \in Int /\ e - 1 \in Int /\ \A i \in p .. e - 1 : t[i] \in Outputs
    BY <1>4, <1>5
  <2>2. three \in Seq(Outputs) /\ Len(three) = IF p <= e - 1 THEN e - 1 - p + 1 ELSE 0
    BY <2>1, SubSeqProperties DEF three
  <2>3. QED
    BY <1>4, <2>2
<1>8. six \in Seq(Outputs) /\ Len(six) = n - e + 1
  <2>1. e \in Int /\ n \in Int /\ \A i \in e .. n : t[i] \in Outputs
    BY <1>4, <1>5
  <2>2. six \in Seq(Outputs) /\ Len(six) = IF e <= n THEN n - e + 1 ELSE 0
    BY <2>1, SubSeqProperties DEF six
  <2>3. QED
    BY <1>4, <2>2
<1>9. two \in Seq(Outputs) /\ Len(two) = 1 /\ five \in Seq(Outputs) /\ Len(five) = 1
  <2>1. r.feature \in Switches /\ r.name \in Names
    BY DEF Ranges
  <2>2. [If(r.feature, FALSE) EXCEPT !.range = r.name] \in Outputs
    BY <2>1 DEF If, Outputs
  <2>3. EndIf \in Outputs
    BY DEF EndIf, Outputs
  <2>4. QED
    BY <2>2, <2>3 DEF two, five
<1>10. four \in Seq(Outputs) /\ Len(four) \in Nat
  BY RetStubsTyped DEF four
<1> DEFINE u2 == one \o two
           u3 == u2 \o three
           u4 == u3 \o four
           u5 == u4 \o five
           u6 == u5 \o six
<1>11. u2 \in Seq(Outputs) /\ Len(u2) = p
  <2>1. u2 \in Seq(Outputs) /\ Len(u2) = Len(one) + Len(two)
    BY <1>6, <1>9, ConcatLength
  <2> HIDE DEF u2
  <2>2. QED
    BY <1>6, <1>9, <1>4, <2>1
<1> HIDE DEF u2
<1>12. u3 \in Seq(Outputs) /\ Len(u3) = e
  <2>1. u3 \in Seq(Outputs) /\ Len(u3) = Len(u2) + Len(three)
    BY <1>7, <1>11, ConcatLength
  <2> HIDE DEF u3
  <2>2. QED
    BY <1>7, <1>11, <1>4, <2>1
<1> HIDE DEF u3
<1>13. u4 \in Seq(Outputs) /\ Len(u4) = e + Len(four)
  <2>1. u4 \in Seq(Outputs) /\ Len(u4) = Len(u3) + Len(four)
    BY <1>10, <1>12, ConcatLength
  <2> HIDE DEF u4
  <2>2. QED
    BY <1>10, <1>12, <1>4, <2>1
<1> HIDE DEF u4
<1>14. u5 \in Seq(Outputs) /\ Len(u5) = e + Len(four) + 1
  <2>1. u5 \in Seq(Outputs) /\ Len(u5) = Len(u4) + Len(five)
    BY <1>9, <1>13, ConcatLength
  <2> HIDE DEF u5
  <2>2. QED
    BY <1>9, <1>13, <1>4, <1>10, <2>1
<1> HIDE DEF u5
<1>15. u6 \in Seq(Outputs) /\ Len(u6) = e + Len(four) + 1 + (n - e + 1)
  <2>1. u6 \in Seq(Outputs) /\ Len(u6) = Len(u5) + Len(six)
    BY <1>8, <1>14, ConcatLength
  <2> HIDE DEF u6
  <2>2. QED
    BY <1>8, <1>14, <1>4, <1>10, <2>1
<1> HIDE DEF u6
<1>16. n <= e + Len(four) + 1 + (n - e + 1)
  BY <1>4, <1>10
<1>17. Wrap(t, r, o) = u6
  BY <1>3, Zenon DEF u2, u3, u4, u5, u6
<1>18. QED
  BY <1>15, <1>16, <1>17 DEF n

\* Applying a range gives a text again.
LEMMA RangeTyped ==
  ASSUME NEW text \in Seq(Outputs), NEW r \in Ranges
  PROVE  apply_range(text, r) \in Seq(Outputs)
<1> DEFINE at == find_range_occurrences(text, r)
           n == Len(at)
           f == Wrapped(text, r, at)
           T == {k \in 0 .. n : f[k] \in Seq(Outputs) /\ Len(text) <= Len(f[k])}
<1>1. at \in Seq(Wholes(text))
  BY OccurrencesTyped
<1> HIDE DEF at
<1>2. n \in Nat /\ n = Len(at)
  BY <1>1, LenProperties
<1>3. f[0] = text /\ \A k \in 1 .. n : f[k] = Wrap(f[k - 1], r, at[n + 1 - k])
  <2>1. WrapGoes(f, n, text, r, at)
    <3> HIDE DEF n
    <3>1. QED
      BY <1>2, WrappedSteps
  <2> HIDE DEF f, n
  <2>2. QED
    BY <2>1 DEF WrapGoes
<1> HIDE DEF f, n
<1>4. Len(text) \in Nat
  BY LenProperties
<1>5. 0 \in T
  BY <1>2, <1>3, <1>4
<1>6. ASSUME NEW k \in 0 .. n - 1, k \in T PROVE k + 1 \in T
  <2>1. PICK j \in 1 .. n : j = k + 1 /\ j - 1 = k
    BY <1>2
  <2>2. n + 1 - j \in 1 .. Len(at)
    BY <1>2
  <2>3. at[n + 1 - j] \in Wholes(text)
    BY <1>1, <2>2, ElementOfSeq
  <2>4. f[k] \in Seq(Outputs) /\ Len(text) <= Len(f[k]) /\ f[j] = Wrap(f[k], r, at[n + 1 - j])
    BY <1>3, <1>6, <2>1
  <2>5. f[j] \in Seq(Outputs) /\ Len(f[k]) <= Len(f[j])
    BY <2>3, <2>4, WrapTyped
  <2>6. Len(f[k]) \in Nat /\ Len(f[j]) \in Nat
    BY <2>4, <2>5, LenProperties
  <2>7. Len(text) <= Len(f[j])
    BY <1>4, <2>4, <2>5, <2>6
  <2>8. QED
    BY <1>2, <2>1, <2>5, <2>7
<1>7. n \in T
  <2> HIDE DEF T
  <2>1. \A k \in 0 .. n : k \in T
    BY <1>2, <1>5, <1>6, UpTo
  <2>2. QED
    BY <1>2, <2>1
<1>8. QED
  BY <1>7 DEF apply_range, f, n, at

------------------------------------------------------------------------------
(* Types                                                                     *)

Sources == [text : Texts, ranges : RangeLists, radix : {8, 10}, conditional : BOOLEAN]

Typed ==
  /\ src \in Sources
  /\ pc \in {"start", "convert", "patch", "done", "failed"}
  /\ pos \in 1 .. Len(src.text) + 1 /\ block \in {"none", "comment", "macro"}
  /\ radix \in {8, 10} /\ segment \in Segments /\ hasOutput \in BOOLEAN
  /\ declared \in SUBSET Segments /\ data \in SUBSET (Names \ AbsoluteNames)
  /\ lines \in Seq(Outputs) /\ disk \in Seq(Outputs) /\ plain \in Seq(Outputs)
  /\ todo \in Seq(Ranges) /\ Len(todo) <= Len(src.ranges) /\ runs \in 0 .. MaxRuns

LEMMA SourceTyped ==
  ASSUME src \in Sources
  PROVE  /\ src.text \in Seq(SourceLines) /\ Assembles(src.text) /\ Len(src.text) \in Nat
         /\ src.ranges \in Seq(Ranges) /\ Len(src.ranges) \in Nat
<1>1. src.text \in Texts /\ src.ranges \in RangeLists
  BY DEF Sources
<1>2. src.text \in Seq(SourceLines) /\ Assembles(src.text)
  BY <1>1, TextsAssumption
<1>3. src.ranges \in Seq(Ranges)
  BY <1>1, RangesAssumption
<1>4. QED
  BY <1>2, <1>3, LenProperties

LEMMA LineTyped ==
  ASSUME Typed, Reading
  PROVE  Line \in SourceLines /\ pos \in DOMAIN src.text /\ pos \in 1 .. Len(src.text)
         /\ pos + 1 \in 1 .. Len(src.text) + 1
<1>1. src.text \in Seq(SourceLines) /\ Len(src.text) \in Nat
  BY SourceTyped DEF Typed
<1>2. pos \in 1 .. Len(src.text) /\ pos + 1 \in 1 .. Len(src.text) + 1
  BY <1>1 DEF Typed, Reading
<1>3. QED
  BY <1>1, <1>2, ElementOfSeq, LenProperties DEF Line

LEMMA ConvertTyped ==
  ASSUME NEW o \in Operands
  PROVE  convert_expr(o) \in Converted
<1>1. CASE o \in [k : {"num"}, d : Nat, suffix : {"D", "O", "none"}]
  BY <1>1 DEF convert_expr, Operands, Converted
<1>2. CASE o \in [k : {"sym"}, n : Names, add : Int]
  BY <1>2 DEF convert_expr, Operands, Converted
<1>3. CASE o \in [k : {"offset"}, n : Names]
  BY <1>3 DEF convert_expr, Operands, Converted, Sym, Const
<1>4. CASE o \in [k : {"since"}, n : Names]
  BY <1>4 DEF convert_expr, Operands, Converted
<1>5. QED
  BY <1>1, <1>2, <1>3, <1>4 DEF Operands

\* What a line is written behind
Before == IF Due THEN lines \o split_segment_directive("DSEG") ELSE lines

LEMMA SwitchTyped ==
  ASSUME NEW s \in Segments, lines \in Seq(Outputs)
  PROVE  split_segment_directive(s) \in Seq(Outputs) /\ lines \o split_segment_directive(s) \in Seq(Outputs)
<1>1. PICK class \in BOOLEAN : class = (s \notin declared)
  OBVIOUS
<1>2. split_segment_directive(s) = <<If(SplitLoad, FALSE), SegmentLine(s, class), EndIf>>
  BY <1>1 DEF split_segment_directive, InSplit, SegmentLine
<1>3. If(SplitLoad, FALSE) \in Outputs /\ SegmentLine(s, class) \in Outputs /\ EndIf \in Outputs
  BY SwitchLines
<1>4. split_segment_directive(s) \in Seq(Outputs)
  <2> DEFINE a == If(SplitLoad, FALSE)
             b == SegmentLine(s, class)
             c == EndIf
  <2>1. a \in Outputs /\ b \in Outputs /\ c \in Outputs
    BY <1>3
  <2>2. split_segment_directive(s) = <<a, b, c>>
    BY <1>2
  <2> HIDE DEF a, b, c
  <2>3. <<a, b, c>> \in Seq(Outputs)
    BY <2>1
  <2>4. QED
    BY <2>2, <2>3
<1>5. QED
  BY <1>4, ConcatProperties

LEMMA BeforeTyped ==
  ASSUME lines \in Seq(Outputs)
  PROVE  Before \in Seq(Outputs) /\ SegmentPrefix \in Seq(Outputs) /\ Before = lines \o SegmentPrefix
<1>1. "DSEG" \in Segments
  BY DEF Segments
<1>2. CASE Due
  BY <1>1, <1>2, SwitchTyped DEF Before, SegmentPrefix
<1>3. CASE ~Due
  <2>1. lines \o <<>> = lines /\ <<>> \in Seq(Outputs)
    BY ConcatEmptySeq
  <2>2. QED
    BY <1>3, <2>1 DEF Before, SegmentPrefix
<1>4. QED
  BY <1>2, <1>3

LEMMA EmitLines ==
  ASSUME lines \in Seq(Outputs), NEW x \in Outputs, Emit(<<x>>)
  PROVE  lines' = Append(Before, x) /\ lines' \in Seq(Outputs)
<1>1. Before \in Seq(Outputs) /\ SegmentPrefix \in Seq(Outputs) /\ Before = lines \o SegmentPrefix
  BY BeforeTyped
<1>2. <<x>> \in Seq(Outputs) /\ <<x>> # <<>>
  OBVIOUS
<1>3. lines' = lines \o (SegmentPrefix \o <<x>>)
  BY <1>2 DEF Emit
<1>4. lines \o (SegmentPrefix \o <<x>>) = (lines \o SegmentPrefix) \o <<x>>
  BY <1>1, <1>2, ConcatAssociative
<1>5. Append(Before, x) = Before \o <<x>> /\ Append(Before, x) \in Seq(Outputs)
  BY <1>1, AppendIsConcat, AppendProperties
<1>6. QED
  BY <1>1, <1>3, <1>4, <1>5

\* A line that is read changes only what the converter keeps.
LEMMA EmitTyped ==
  ASSUME Typed, Reading, NEW text, text = <<>> \/ \E x \in Outputs : text = <<x>>, Emit(text)
  PROVE  Typed'
<1>1. lines' \in Seq(Outputs)
  <2>1. CASE text = <<>>
    <3>1. lines' = lines \o <<>> /\ lines \in Seq(Outputs)
      BY <2>1 DEF Emit, Typed
    <3>2. QED
      BY <3>1, ConcatEmptySeq
  <2>2. CASE \E x \in Outputs : text = <<x>>
    <3>1. PICK x \in Outputs : text = <<x>>
      BY <2>2
    <3>2. Emit(<<x>>) /\ lines \in Seq(Outputs)
      BY <3>1 DEF Typed
    <3>3. QED
      BY <3>2, EmitLines
  <2>3. QED
    BY <2>1, <2>2
<1>2. pos' \in 1 .. Len(src.text) + 1
  BY LineTyped DEF Emit
<1>3. declared' \in SUBSET Segments /\ hasOutput' \in BOOLEAN
  BY DEF Emit, Typed, Segments, Due
<1>4. QED
  BY <1>1, <1>2, <1>3 DEF Emit, Typed

LEMMA MadeTyped ==
  ASSUME Typed, Reading
  PROVE  /\ Line.k = "if" => If(Line.c, Line.not) \in Outputs
         /\ Line.k \in {"else", "endif"} => [k |-> Line.k] \in Outputs
         /\ Line.k \in {"public", "extrn", "proc"} => Line.n \in Names
         /\ Line.k \in {"assign", "equ", "db", "mov"} => Line.v \in Operands
         /\ Line.k \in {"assign", "equ"} => Line.n \in Names
         /\ Line.k = "db" => Line.n \in Names \cup {NoName}
         /\ Line.k = "ins86" => Line.d \in Nat
         /\ Line.k \in {"segment", "ends"} => Line.s \in Segments
         /\ Line.k = "radix" => Line.r \in {8, 10}
<1>1. Line \in SourceLines
  BY LineTyped
<1> HIDE DEF Line
<1>2. Line.k = "if" => Line.c \in Switches /\ Line.not \in BOOLEAN
  BY <1>1 DEF SourceLines
<1>3. Line.k = "if" => If(Line.c, Line.not) \in Outputs
  BY <1>2 DEF If, Outputs
<1>4. Line.k \in {"else", "endif"} => [k |-> Line.k] \in Outputs
  BY DEF Outputs
<1>5. /\ Line.k \in {"public", "extrn", "proc"} => Line.n \in Names
      /\ Line.k \in {"assign", "equ", "db", "mov"} => Line.v \in Operands
      /\ Line.k \in {"assign", "equ"} => Line.n \in Names
  BY <1>1 DEF SourceLines
<1>6. /\ Line.k = "db" => Line.n \in Names \cup {NoName}
      /\ Line.k = "ins86" => Line.d \in Nat
      /\ Line.k \in {"segment", "ends"} => Line.s \in Segments
      /\ Line.k = "radix" => Line.r \in {8, 10}
  BY <1>1 DEF SourceLines
<1>7. QED
  BY <1>3, <1>4, <1>5, <1>6

LEMMA InitTyped == Init => Typed
<1> SUFFICES ASSUME Init PROVE Typed
  OBVIOUS
<1>1. src \in Sources
  BY DEF Init, Sources
<1>2. Len(src.text) \in Nat /\ Len(src.ranges) \in Nat
  BY <1>1, SourceTyped
<1>3. <<>> \in Seq(Outputs) /\ <<>> \in Seq(Ranges) /\ Len(<<>>) = 0
  OBVIOUS
<1>4. 1 \in 1 .. Len(src.text) + 1 /\ 0 <= Len(src.ranges) /\ 0 \in 0 .. MaxRuns
  BY <1>2, ConvertAssumption
<1>5. QED
  BY <1>1, <1>3, <1>4 DEF Init, Typed, Segments

LEMMA DataTyped ==
  ASSUME NEW text \in Seq(SourceLines)
  PROVE  collect_data_symbols(text) \in SUBSET (Names \ AbsoluteNames)
<1> SUFFICES ASSUME NEW i \in DOMAIN text,
                    \/ text[i].k = "extrn" /\ text[i].n \notin AbsoluteNames
                    \/ text[i].k = "db" /\ text[i].n # NoName
             PROVE  text[i].n \in Names \ AbsoluteNames
  BY DEF collect_data_symbols
<1> DEFINE l == text[i]
<1>1. l \in SourceLines
  BY ElementOfSeq, LenProperties
<1> HIDE DEF l
<1>2. /\ l.k = "extrn" => l.n \in Names
      /\ l.k = "db" => l.n \in (Names \ AbsoluteNames) \cup {NoName}
  BY <1>1 DEF SourceLines
<1>3. QED
  BY <1>2 DEF l

LEMMA ConvertingTyped ==
  ASSUME Typed, Converting
  PROVE  Typed'
<1>1. CASE Start
  <2>1. data' \in SUBSET (Names \ AbsoluteNames)
    BY <1>1, SourceTyped, DataTyped DEF Typed, Start
  <2>2. radix' \in {8, 10}
    BY <1>1 DEF Typed, Sources, Start
  <2>3. QED
    BY <1>1, <2>1, <2>2 DEF Typed, Start
<1>2. CASE OpenBlock
  <2>1. Reading
    BY <1>2 DEF OpenBlock, Code
  <2>2. pos' \in 1 .. Len(src.text) + 1
    BY <1>2, <2>1, LineTyped DEF OpenBlock, Skip
  <2>3. QED
    BY <1>2, <2>2 DEF Typed, OpenBlock, Skip, Code
<1>3. CASE InComment \/ InMacro
  <2>1. Reading /\ Skip
    BY <1>3 DEF InComment, InMacro, Skip
  <2>2. pos' \in 1 .. Len(src.text) + 1
    BY <2>1, LineTyped DEF Skip
  <2>3. QED
    BY <1>3, <2>2 DEF Typed, InComment, InMacro, Skip
<1>4. CASE Scaffold
  <2>1. Reading
    BY <1>4 DEF Scaffold, Code
  <2>2. pos' \in 1 .. Len(src.text) + 1
    BY <1>4, <2>1, LineTyped DEF Scaffold, Skip
  <2>3. QED
    BY <1>4, <2>2 DEF Typed, Scaffold, Skip
<1>5. CASE Radix
  <2>1. Reading /\ Line.k = "radix"
    BY <1>5 DEF Radix, Code
  <2>2. radix' \in {8, 10} /\ pos' \in 1 .. Len(src.text) + 1
    BY <1>5, <2>1, LineTyped, MadeTyped DEF Radix
  <2>3. QED
    BY <1>5, <2>2 DEF Typed, Radix
<1>6. CASE SegmentStarts
  <2>1. Reading /\ Line.k = "segment"
    BY <1>6 DEF SegmentStarts, Code
  <2>2. segment' \in Segments /\ pos' \in 1 .. Len(src.text) + 1 /\ hasOutput' \in BOOLEAN
    BY <1>6, <2>1, LineTyped, MadeTyped DEF SegmentStarts, Typed
  <2>3. lines' \in Seq(Outputs) /\ declared' \in SUBSET Segments
    <3>1. CASE Switch("CSEG")
      <4>1. "CSEG" \in Segments /\ lines \in Seq(Outputs)
        BY DEF Segments, Typed
      <4>2. QED
        BY <3>1, <4>1, SwitchTyped DEF Switch, Typed, Segments
    <3>2. CASE UNCHANGED <<lines, declared>>
      BY <3>2 DEF Typed
    <3>3. QED
      BY <1>6, <3>1, <3>2 DEF SegmentStarts
  <2>4. QED
    BY <1>6, <2>2, <2>3 DEF Typed, SegmentStarts
<1>7. CASE SegmentEnds
  <2>1. Reading /\ Line.k = "ends"
    BY <1>7 DEF SegmentEnds, Code
  <2>2. segment' \in Segments /\ pos' \in 1 .. Len(src.text) + 1
    BY <1>7, <2>1, LineTyped DEF SegmentEnds, Typed, Segments
  <2>3. lines' \in Seq(Outputs) /\ declared' \in SUBSET Segments
    <3>1. CASE Switch("CSEG")
      <4>1. "CSEG" \in Segments /\ lines \in Seq(Outputs)
        BY DEF Segments, Typed
      <4>2. QED
        BY <3>1, <4>1, SwitchTyped DEF Switch, Typed, Segments
    <3>2. CASE UNCHANGED <<lines, declared>>
      BY <3>2 DEF Typed
    <3>3. QED
      BY <1>7, <3>1, <3>2 DEF SegmentEnds
  <2>4. QED
    BY <1>7, <2>2, <2>3 DEF Typed, SegmentEnds
<1>8. CASE Conditional
  <2> DEFINE x == IF Line.k = "if" THEN If(Line.c, Line.not) ELSE [k |-> Line.k]
  <2>1. Reading /\ Line.k \in {"if", "else", "endif"} /\ Emit(<<x>>)
    BY <1>8 DEF Conditional, Code
  <2>2. x \in Outputs
    BY <2>1, MadeTyped
  <2> HIDE DEF x
  <2>3. QED
    BY <2>1, <2>2, EmitTyped
<1>9. CASE Declaration
  <2> DEFINE x == [k |-> IF Line.k = "public" THEN "global" ELSE "extern", n |-> Line.n]
  <2>1. Reading /\ Line.k \in {"public", "extrn"} /\ (Emit(<<>>) \/ Emit(<<x>>))
    BY <1>9 DEF Declaration, Code
  <2>2. x \in Outputs
    BY <2>1, MadeTyped DEF Outputs
  <2> HIDE DEF x
  <2>3. QED
    BY <2>1, <2>2, EmitTyped
<1>10. CASE Assignment \/ Equate
  <2>1. PICK form \in {"define", "assign", "equ"} :
           /\ Reading /\ Line.k \in {"assign", "equ"}
           /\ Emit(<<[k |-> form, n |-> Line.n, v |-> convert_expr(Line.v)]>>)
    BY <1>10 DEF Assignment, Equate, Code
  <2> DEFINE x == [k |-> form, n |-> Line.n, v |-> convert_expr(Line.v)]
  <2>2. Line.n \in Names /\ convert_expr(Line.v) \in Converted
    BY <2>1, MadeTyped, ConvertTyped
  <2>3. x \in Outputs
    BY <2>2 DEF Outputs
  <2>4. Emit(<<x>>)
    BY <2>1
  <2> HIDE DEF x
  <2>5. QED
    BY <2>1, <2>3, <2>4, EmitTyped
<1>11. CASE Datum
  <2> DEFINE x == [k |-> "db", n |-> Line.n, v |-> convert_expr(Line.v)]
  <2>1. Reading /\ Line.k = "db" /\ Emit(<<x>>)
    BY <1>11 DEF Datum, Code
  <2>2. Line.n \in Names \cup {NoName} /\ convert_expr(Line.v) \in Converted
    BY <2>1, MadeTyped, ConvertTyped
  <2>3. x \in Outputs
    BY <2>2 DEF Outputs
  <2> HIDE DEF x
  <2>4. QED
    BY <2>1, <2>3, EmitTyped
<1>12. CASE Ins86
  <2> DEFINE x == [k |-> "db", n |-> NoName, v |-> Num(Line.d, "O")]
  <2>1. Reading /\ Line.k = "ins86" /\ Emit(<<x>>)
    BY <1>12 DEF Ins86, Code
  <2>2. Num(Line.d, "O") \in Converted
    BY <2>1, MadeTyped DEF Num, Operands, Converted
  <2>3. x \in Outputs
    BY <2>2 DEF Outputs
  <2> HIDE DEF x
  <2>4. QED
    BY <2>1, <2>3, EmitTyped
<1>13. CASE Procedure
  <2> DEFINE x == [k |-> "label", n |-> Line.n]
  <2>1. Reading /\ ((Line.k = "proc" /\ Emit(<<x>>)) \/ Emit(<<>>))
    BY <1>13 DEF Procedure, Code
  <2>2. Line.k = "proc" => x \in Outputs
    BY <2>1, MadeTyped DEF Outputs
  <2> HIDE DEF x
  <2>3. QED
    BY <2>1, <2>2, EmitTyped
<1>14. CASE Instruction
  <2> DEFINE e == IF masm_operand_is_data_memory(Line.v) THEN Mem(Line.v.n) ELSE convert_expr(Line.v)
             x == [k |-> "mov", v |-> e]
  <2>1. Reading /\ Line.k = "mov" /\ Emit(<<x>>)
    BY <1>14 DEF Instruction, Code
  <2>2. Line.v \in Operands /\ convert_expr(Line.v) \in Converted
    BY <2>1, MadeTyped, ConvertTyped
  <2>3. masm_operand_is_data_memory(Line.v) => Line.v.n \in Names
    BY <2>2 DEF masm_operand_is_data_memory, Operands
  <2>4. e \in Converted \cup [k : {"mem"}, n : Names]
    BY <2>2, <2>3 DEF Mem
  <2> HIDE DEF e
  <2>5. x \in Outputs
    BY <2>4 DEF Outputs
  <2> HIDE DEF x
  <2>6. QED
    BY <2>1, <2>5, EmitTyped
<1>15. CASE Write
  <2>1. src.ranges \in Seq(Ranges) /\ Len(src.ranges) \in Nat
    BY SourceTyped DEF Typed
  <2>2. 1 \in 0 .. MaxRuns
    BY ConvertAssumption
  <2>3. QED
    BY <1>15, <2>1, <2>2 DEF Typed, Write
<1>16. CASE Return
  <2> DEFINE x == [k |-> "ret"]
  <2>1. Reading /\ Emit(<<x>>)
    BY <1>16 DEF Return, Code
  <2>2. x \in Outputs
    BY DEF Outputs
  <2> HIDE DEF x
  <2>3. QED
    BY <2>1, <2>2, EmitTyped
<1>17. QED
  BY <1>1, <1>2, <1>3, <1>4, <1>5, <1>6, <1>7, <1>8, <1>9, <1>10, <1>11, <1>12, <1>13, <1>14, <1>15,
     <1>16 DEF Converting

LEMMA PatchingTyped ==
  ASSUME Typed, Apply \/ GiveUp \/ WritePatched \/ PatchAgain
  PROVE  Typed'
<1>1. CASE Apply
  <2>1. todo \in Seq(Ranges) /\ todo # <<>> /\ lines \in Seq(Outputs)
    BY <1>1 DEF Typed, Apply
  <2>2. Head(todo) \in Ranges /\ Tail(todo) \in Seq(Ranges) /\ Len(Tail(todo)) = Len(todo) - 1
        /\ Len(todo) \in Nat
    BY <2>1, HeadTailProperties, LenProperties
  <2>3. lines' \in Seq(Outputs)
    BY <1>1, <2>1, <2>2, RangeTyped DEF Apply
  <2>4. todo' \in Seq(Ranges) /\ Len(todo') <= Len(src.ranges)
    <3>1. Len(src.ranges) \in Nat /\ Len(todo) <= Len(src.ranges)
      BY SourceTyped DEF Typed
    <3>2. QED
      BY <1>1, <2>2, <3>1 DEF Apply
  <2>5. QED
    BY <1>1, <2>3, <2>4 DEF Typed, Apply
<1>2. CASE GiveUp
  BY <1>2 DEF Typed, GiveUp
<1>3. CASE WritePatched
  BY <1>3 DEF Typed, WritePatched
<1>4. CASE PatchAgain
  <2>1. src.ranges \in Seq(Ranges) /\ Len(src.ranges) \in Nat
    BY SourceTyped DEF Typed
  <2>2. runs + 1 \in 0 .. MaxRuns
    BY <1>4, ConvertAssumption DEF Typed, PatchAgain
  <2>3. QED
    BY <1>4, <2>1, <2>2 DEF Typed, PatchAgain
<1>5. QED
  BY <1>1, <1>2, <1>3, <1>4

LEMMA NextTyped == Typed /\ [Next]_vars => Typed'
<1> SUFFICES ASSUME Typed, [Next]_vars PROVE Typed'
  OBVIOUS
<1>1. CASE Converting
  BY <1>1, ConvertingTyped
<1>2. CASE Apply \/ GiveUp \/ WritePatched \/ PatchAgain
  BY <1>2, PatchingTyped
<1>3. CASE UNCHANGED vars
  BY <1>3 DEF Typed, vars
<1>4. QED
  BY <1>1, <1>2, <1>3 DEF Next

LEMMA TypedImplies == Typed => TypeOK
<1> SUFFICES ASSUME Typed PROVE TypeOK
  OBVIOUS
<1>1. src.radix \in {8, 10} /\ src.conditional \in BOOLEAN
  BY DEF Typed, Sources
<1>2. ASSUME NEW i \in DOMAIN lines
      PROVE  lines[i].k \in {"if", "else", "endif", "segment", "global", "extern", "define", "assign",
                             "equ", "db", "mov", "label", "ret"}
  <2>1. lines[i] \in Outputs
    BY ElementOfSeq, LenProperties DEF Typed
  <2>2. QED
    BY <2>1 DEF Outputs
<1>3. QED
  BY <1>1, <1>2 DEF Typed, TypeOK

\* The converter and the patcher keep to their types: what they write is made of lines NASM is
\* given, whatever the source and the ranges are.
THEOREM TypeCorrect == Spec => []TypeOK
<1>1. Spec => []Typed
  BY InitTyped, NextTyped, PTL DEF Spec
<1>2. QED
  BY <1>1, TypedImplies, PTL

------------------------------------------------------------------------------
(* Where a line of the source stands                                         *)

\* What opens and closes segments
LEMMA OpenFacts ==
  /\ Append(<<>>, "CSEG") = <<"CSEG">> /\ Append(<<>>, "DSEG") = <<"DSEG">>
  /\ Append(<<"CSEG">>, "DSEG") = <<"CSEG", "DSEG">>
  /\ Front(<<"CSEG">>) = <<>> /\ Front(<<"DSEG">>) = <<>> /\ Front(<<"CSEG", "DSEG">>) = <<"CSEG">>
  /\ Last(<<"CSEG">>) = "CSEG" /\ Last(<<"DSEG">>) = "DSEG" /\ Last(<<"CSEG", "DSEG">>) = "DSEG"
<1>1. <<>> \in Seq(Opened) /\ <<"CSEG">> \in Seq(Opened) /\ "CSEG" \in Opened /\ "DSEG" \in Opened
  BY DEF Opened, Segments
<1>2. Append(<<>>, "CSEG") = <<"CSEG">> /\ Append(<<>>, "DSEG") = <<"DSEG">>
  OBVIOUS
<1>3. Append(<<"CSEG">>, "DSEG") = <<"CSEG", "DSEG">>
  <2> DEFINE a == Append(<<"CSEG">>, "DSEG")
             b == <<"CSEG", "DSEG">>
  <2>1. Len(<<"CSEG">>) = 1 /\ <<"CSEG">>[1] = "CSEG"
    OBVIOUS
  <2>2. a \in Seq(Opened) /\ Len(a) = 2 /\ a[1] = "CSEG" /\ a[2] = "DSEG"
    <3>1. /\ a \in Seq(Opened) /\ Len(a) = Len(<<"CSEG">>) + 1
          /\ \A i \in 1 .. Len(<<"CSEG">>) : a[i] = <<"CSEG">>[i]
          /\ a[Len(<<"CSEG">>) + 1] = "DSEG"
      BY <1>1, AppendProperties
    <3>2. QED
      BY <2>1, <3>1
  <2>3. b \in Seq(Opened) /\ Len(b) = 2 /\ b[1] = "CSEG" /\ b[2] = "DSEG"
    BY <1>1
  <2> HIDE DEF a, b
  <2>4. \A i \in 1 .. 2 : a[i] = b[i]
    BY <2>2, <2>3
  <2>5. a = b
    BY <2>2, <2>3, <2>4, SeqEqual
  <2>6. QED
    BY <2>5 DEF a, b
<1>4. Front(<<"CSEG">>) = <<>>
  BY <1>1, <1>2, FrontAppend
<1>5. Front(<<"DSEG">>) = <<>>
  BY <1>1, <1>2, FrontAppend
<1>6. Front(<<"CSEG", "DSEG">>) = <<"CSEG">>
  BY <1>1, <1>3, FrontAppend
<1>7. Last(<<"CSEG">>) = "CSEG" /\ Last(<<"DSEG">>) = "DSEG" /\ Last(<<"CSEG", "DSEG">>) = "DSEG"
  BY DEF Last
<1>8. QED
  BY <1>2, <1>3, <1>4, <1>5, <1>6, <1>7

\* Both assemblers and the converter see the same blocks, conditions and segments.
LEMMA BehindTyped ==
  ASSUME NEW c \in Wheres, NEW text, NEW l \in SourceLines, c.block = "none" => Fits(c, l)
  PROVE  Behind(c, l) \in Wheres
<1>1. /\ c = [block |-> c.block, depth |-> c.depth, open |-> c.open]
      /\ c.block \in {"none", "comment", "macro"} /\ c.depth \in Nat /\ c.open \in Opens
  BY DEF Wheres
<1>2. CASE c.block # "none"
  BY <1>1, <1>2 DEF Behind, Wheres
<1>3. CASE c.block = "none" /\ l.k \in {"comment", "macro"}
  BY <1>1, <1>3 DEF Behind, Wheres
<1>4. CASE c.block = "none" /\ l.k = "if"
  BY <1>1, <1>4 DEF Behind, Wheres
<1>5. CASE c.block = "none" /\ l.k = "endif"
  <2>1. c.depth > 0
    BY <1>5 DEF Fits
  <2>2. c.depth - 1 \in Nat
    BY <1>1, <2>1
  <2>3. Behind(c, l) = [c EXCEPT !.depth = c.depth - 1]
    BY <1>5 DEF Behind
  <2>4. QED
    BY <1>1, <2>2, <2>3 DEF Wheres
<1>6. CASE c.block = "none" /\ l.k = "segment"
  <2>1. l.s \in {"CSEG", "DSEG"} /\ (c.open = <<>> \/ (c.open = <<"CSEG">> /\ l.s = "DSEG"))
    BY <1>6 DEF Fits, SourceLines, Segments
  <2>2. Append(c.open, l.s) \in Opens
    BY <2>1, OpenFacts DEF Opens
  <2>3. Behind(c, l) = [c EXCEPT !.open = Append(c.open, l.s)]
    BY <1>6 DEF Behind
  <2>4. QED
    BY <1>1, <2>2, <2>3 DEF Wheres
<1>7. CASE c.block = "none" /\ l.k = "ends"
  <2>1. c.open # <<>>
    BY <1>7 DEF Fits
  <2>2. Front(c.open) \in Opens
    BY <1>1, <2>1, OpenFacts DEF Opens
  <2>3. Behind(c, l) = [c EXCEPT !.open = Front(c.open)]
    BY <1>7 DEF Behind
  <2>4. QED
    BY <1>1, <2>2, <2>3 DEF Wheres
<1>8. CASE c.block = "none" /\ l.k \notin {"comment", "macro", "if", "endif", "segment", "ends"}
  BY <1>8 DEF Behind
<1>9. QED
  BY <1>2, <1>3, <1>4, <1>5, <1>6, <1>7, <1>8

\* MASM stands where the source does.
Level(m, c, base) ==
  m.skip = c.block /\ Len(m.live) = c.depth /\ m.segs = c.open /\ m.radix = base

\* Where MASM and NASM are before a line of which nothing is made, and after it
QuietAt(text, i, d, m, n, c, base) ==
  /\ text[i] \in SourceLines /\ c \in Wheres /\ base \in {8, 10}
  /\ Alike(d, m, n) /\ Level(m, c, base)
  /\ c.block = "none" => Fits(c, text[i])
  /\ \/ c.block # "none"
     \/ text[i].k \in {"comment", "macro", "scaffold", "endm", "endp", "public", "extrn", "radix",
                       "segment", "ends"}

QuietDone(text, i, d, m, n, c, base) ==
  /\ Alike(d, Masm(text, m, i, d, {}), n)
  /\ Level(Masm(text, m, i, d, {}), Behind(c, text[i]),
           IF c.block = "none" /\ text[i].k = "radix" THEN text[i].r ELSE base)

\* MASM alone takes a step.
LEMMA QuietLine ==
  ASSUME NEW text, NEW i, NEW d, NEW m, NEW n, NEW c, NEW base, QuietAt(text, i, d, m, n, c, base)
  PROVE  QuietDone(text, i, d, m, n, c, base)
<1> DEFINE l == text[i]
<1>0. /\ l \in SourceLines /\ c \in Wheres /\ base \in {8, 10}
      /\ Alike(d, m, n) /\ Level(m, c, base)
      /\ c.block = "none" => Fits(c, l)
      /\ \/ c.block # "none"
         \/ l.k \in {"comment", "macro", "scaffold", "endm", "endp", "public", "extrn", "radix",
                     "segment", "ends"}
      /\ l = text[i]
  BY DEF QuietAt
<1> HIDE DEF l
<1> SUFFICES Alike(d, Masm(text, m, i, d, {}), n)
             /\ Level(Masm(text, m, i, d, {}), Behind(c, l),
                      IF c.block = "none" /\ l.k = "radix" THEN l.r ELSE base)
  BY DEF QuietDone, l
<1> USE <1>0
<1> DEFINE mm == Masm(text, m, i, d, {})
<1>1. m \in States /\ n \in States
  BY DEF Alike
<1>2. /\ m.skip = c.block /\ Len(m.live) = c.depth /\ m.segs = c.open /\ m.radix = base
      /\ c.block \in {"none", "comment", "macro"} /\ c.depth \in Nat /\ c.open \in Opens
  BY DEF Level, Wheres
<1>3. ASSUME c.block = "none", c.depth = 0 PROVE Live(m)
  <2>1. m.live \in Seq(BOOLEAN) /\ Len(m.live) = 0
    BY <1>1, <1>2, <1>3 DEF States
  <2>2. DOMAIN m.live = {}
    BY <2>1, LenProperties
  <2>3. QED
    BY <1>2, <1>3, <2>2 DEF Live
<1>4. ASSUME NEW skip \in {"none", "comment", "macro"}, NEW segs \in Seq(Opened), NEW rad \in {8, 10},
             mm = [m EXCEPT !.skip = skip, !.segs = segs, !.radix = rad],
             Behind(c, l).block = skip, Behind(c, l).depth = c.depth, Behind(c, l).open = segs,
             rad = IF c.block = "none" /\ l.k = "radix" THEN l.r ELSE base
      PROVE  Alike(d, mm, n) /\ Level(mm, Behind(c, l), rad)
  <2> HIDE DEF mm
  <2>1. /\ mm \in States /\ mm.skip = skip /\ mm.segs = segs /\ mm.radix = rad
        /\ mm.live = m.live /\ mm.at = m.at /\ mm.count = m.count /\ mm.val = m.val
        /\ mm.image = m.image
    BY <1>1, <1>4 DEF States
  <2>2. QED
    BY <1>2, <1>4, <2>1 DEF Alike, Level
<1>5. m = [m EXCEPT !.skip = c.block, !.segs = c.open, !.radix = base]
  BY <1>1, <1>2 DEF States
<1>6. c.open \in Seq(Opened)
  BY <1>1, <1>2 DEF States
<1>7. CASE c.block # "none"
  <2> DEFINE skip == IF l.k = (IF c.block = "comment" THEN "delimiter" ELSE "endm") THEN "none" ELSE c.block
  <2>1. skip \in {"none", "comment", "macro"}
    BY <1>2
  <2>2. Behind(c, l) = [c EXCEPT !.block = skip]
    BY <1>7 DEF Behind
  <2>3. mm = [m EXCEPT !.skip = skip]
    BY <1>2, <1>7 DEF Masm
  <2> HIDE DEF skip, mm
  <2>4. mm = [m EXCEPT !.skip = skip, !.segs = c.open, !.radix = base]
    BY <1>1, <1>2, <2>3 DEF States
  <2>5. Behind(c, l).block = skip /\ Behind(c, l).depth = c.depth /\ Behind(c, l).open = c.open
    BY <2>2 DEF Wheres
  <2>6. base = IF c.block = "none" /\ l.k = "radix" THEN l.r ELSE base
    BY <1>7
  <2>7. QED
    BY <1>4, <1>6, <2>1, <2>4, <2>5, <2>6 DEF mm
<1>8. CASE c.block = "none" /\ l.k \in {"comment", "macro"}
  <2>1. Live(m)
    BY <1>3, <1>8 DEF Fits
  <2>2. mm = [m EXCEPT !.skip = l.k]
    BY <1>2, <1>8, <2>1 DEF Masm
  <2>3. Behind(c, l) = [c EXCEPT !.block = l.k]
    BY <1>8 DEF Behind
  <2> HIDE DEF mm
  <2>4. mm = [m EXCEPT !.skip = l.k, !.segs = c.open, !.radix = base]
    BY <1>1, <1>2, <2>2 DEF States
  <2>5. Behind(c, l).block = l.k /\ Behind(c, l).depth = c.depth /\ Behind(c, l).open = c.open
    BY <2>3 DEF Wheres
  <2>6. base = IF c.block = "none" /\ l.k = "radix" THEN l.r ELSE base
    BY <1>8
  <2>7. l.k \in {"none", "comment", "macro"}
    BY <1>8
  <2>8. QED
    BY <1>4, <1>6, <2>4, <2>5, <2>6, <2>7 DEF mm
<1>9. CASE c.block = "none" /\ l.k \in {"scaffold", "endm", "endp", "public", "extrn"}
  <2>1. mm = m
    BY <1>2, <1>9, IdleLine
  <2>2. Behind(c, l) = c
    BY <1>9 DEF Behind
  <2>3. QED
    BY <1>9, <2>1, <2>2
<1>10. CASE c.block = "none" /\ l.k = "radix"
  <2>1. Live(m) /\ l.r \in {8, 10}
    BY <1>3, <1>10 DEF Fits, SourceLines
  <2>2. mm = [m EXCEPT !.radix = l.r]
    BY <1>2, <1>10, <2>1 DEF Masm
  <2>3. Behind(c, l) = c
    BY <1>10 DEF Behind
  <2> HIDE DEF mm
  <2>4. mm = [m EXCEPT !.skip = c.block, !.segs = c.open, !.radix = l.r]
    BY <1>1, <1>2, <2>2 DEF States
  <2>5. QED
    BY <1>2, <1>4, <1>6, <1>10, <2>1, <2>3, <2>4 DEF mm
<1>11. CASE c.block = "none" /\ l.k = "segment"
  <2>1. Live(m) /\ l.s \in Opened
    BY <1>3, <1>11 DEF Fits, SourceLines, Opened
  <2> DEFINE segs == Append(c.open, l.s)
  <2>2. mm = [m EXCEPT !.segs = segs]
    BY <1>2, <1>11, <2>1 DEF Masm
  <2>3. Behind(c, l) = [c EXCEPT !.open = segs]
    BY <1>11 DEF Behind
  <2>4. segs \in Seq(Opened)
    BY <1>6, <2>1, AppendProperties
  <2> HIDE DEF mm, segs
  <2>5. mm = [m EXCEPT !.skip = c.block, !.segs = segs, !.radix = base]
    BY <1>1, <1>2, <2>2 DEF States
  <2>6. Behind(c, l).block = c.block /\ Behind(c, l).depth = c.depth /\ Behind(c, l).open = segs
    BY <2>3 DEF Wheres
  <2>7. base = IF c.block = "none" /\ l.k = "radix" THEN l.r ELSE base
    BY <1>11
  <2>8. QED
    BY <1>2, <1>4, <2>4, <2>5, <2>6, <2>7 DEF mm
<1>12. CASE c.block = "none" /\ l.k = "ends"
  <2>1. Live(m) /\ c.open # <<>>
    BY <1>3, <1>12 DEF Fits
  <2> DEFINE segs == Front(c.open)
  <2>2. mm = [m EXCEPT !.segs = segs]
    BY <1>2, <1>12, <2>1 DEF Masm
  <2>3. Behind(c, l) = [c EXCEPT !.open = segs]
    BY <1>12 DEF Behind
  <2>4. segs \in Seq(Opened)
    BY <1>6, <2>1, FrontFacts
  <2> HIDE DEF mm, segs
  <2>5. mm = [m EXCEPT !.skip = c.block, !.segs = segs, !.radix = base]
    BY <1>1, <1>2, <2>2 DEF States
  <2>6. Behind(c, l).block = c.block /\ Behind(c, l).depth = c.depth /\ Behind(c, l).open = segs
    BY <2>3 DEF Wheres
  <2>7. base = IF c.block = "none" /\ l.k = "radix" THEN l.r ELSE base
    BY <1>12
  <2>8. QED
    BY <1>2, <1>4, <2>4, <2>5, <2>6, <2>7 DEF mm
<1>13. QED
  BY <1>7, <1>8, <1>9, <1>10, <1>11, <1>12

\* Two assemblies start alike.
LEMMA StartAlike ==
  ASSUME NEW d, NEW b \in {8, 10}
  PROVE  Alike(d, Starting(b), Nothing) /\ Level(Starting(b), Outermost, b)
<1>1. /\ Nothing \in States /\ Starting(b) \in States /\ Starting(b).radix = b
      /\ \A fld \in {"segs", "live", "skip", "classed", "val", "at", "count", "image"} :
           Starting(b)[fld] = Nothing[fld]
  BY NothingTyped
<1>2. /\ Starting(b).segs = Nothing.segs /\ Starting(b).live = Nothing.live
      /\ Starting(b).skip = Nothing.skip /\ Starting(b).val = Nothing.val /\ Starting(b).at = Nothing.at
      /\ Starting(b).count = Nothing.count /\ Starting(b).image = Nothing.image
  BY <1>1
<1>3. /\ Nothing.skip = "none" /\ Nothing.radix = 10 /\ Nothing.live = <<>> /\ Nothing.segs = <<>>
      /\ Nothing.val = [x \in Names |-> NoValue]
  BY DEF Nothing
<1> DEFINE f == [x \in Names |-> <<"address", x>>]
           rank == [x \in Names |-> 0]
           val == Nothing.val
<1>4. \A x \in Names : val[x].k = "none"
  BY <1>3 DEF NoValue
<1> HIDE DEF val
<1>5. f \in [Names -> Values] /\ rank \in [Names -> Nat]
  BY DEF Values
<1>6. Solves(f, val)
  BY <1>4 DEF Solves, Reads
<1>7. Ranked(rank, val)
  BY <1>4 DEF Ranked
<1> HIDE DEF f, rank
<1>8. Meaning(val, val)
  BY <1>4, <1>5, <1>6, <1>7 DEF Meaning
<1>9. Alike(d, Starting(b), Nothing)
  BY <1>1, <1>2, <1>3, <1>8 DEF Alike, Same, val
<1>10. Len(<<>>) = 0
  OBVIOUS
<1>11. QED
  BY <1>1, <1>2, <1>3, <1>9, <1>10 DEF Level, Outermost

------------------------------------------------------------------------------
(* The converter follows the source                                          *)

\* The line the converter is at stands here.
Here == Places(src.text)[pos - 1]

\* What NASM must know of the converter: the segment its output lies in, as far as it has switched
Faced == IF segment = "DSEG" /\ hasOutput THEN "DSEG" ELSE "CSEG"
Converter == [faced |-> Faced, declared |-> declared, radix |-> radix]

\* NASM is in the segment the converter takes it to be in.
Facing(n, open, k) ==
  /\ n.classed = k.declared
  /\ k.faced = "DSEG" => n.segs = <<"DSEG">>
  /\ k.faced = "CSEG" /\ open \in {<<"CSEG">>, <<"CSEG", "DSEG">>} => n.segs = <<"CSEG">>

Follows(d, m, n, c, text, k) ==
  /\ Alike(d, m, n) /\ Level(m, c, k.radix) /\ FromLines(n, text)
  /\ d[SplitLoad] => Facing(n, c.open, k)

Standing ==
  /\ data = collect_data_symbols(src.text)
  /\ Here \in Wheres /\ block = Here.block
  /\ segment = IF Here.open = <<>> THEN "CSEG" ELSE Last(Here.open)
  /\ Balance(lines, Here.depth) /\ FromSource(lines, src.text)

Relied(text) == SwitchesUnconditional(text) /\ ConstantsSettled(text)

Following ==
  Relied(lines) =>
    \A d \in Builds : Follows(d, MasmAt(src, pos - 1, d), NasmTo(lines, d), Here, lines, Converter)

Body == Standing /\ Following

LEMMA HereNext ==
  ASSUME Typed, Reading, Standing
  PROVE  /\ Places(src.text)[pos] = Behind(Here, Line)
         /\ Here.block = "none" => Fits(Here, Line)
         /\ Behind(Here, Line) \in Wheres /\ Here \in Wheres
<1>1. src.text \in Seq(SourceLines) /\ Assembles(src.text) /\ Len(src.text) \in Nat
  BY SourceTyped DEF Typed
<1>2. pos \in 1 .. Len(src.text) /\ pos \in DOMAIN src.text /\ Line \in SourceLines
  BY LineTyped
<1>3. Places(src.text)[pos] = Behind(Here, Line)
  <2>1. \A k \in 1 .. Len(src.text) : Places(src.text)[k] = Behind(Places(src.text)[k - 1], src.text[k])
    BY <1>1, PlacesSteps
  <2>2. QED
    BY <1>2, <2>1 DEF Here, Line
<1>4. Here.block = "none" => Fits(Here, Line)
  <2>1. \A i \in DOMAIN src.text :
          Places(src.text)[i - 1].block = "none" => Fits(Places(src.text)[i - 1], src.text[i])
    BY <1>1 DEF Assembles
  <2>2. QED
    BY <1>2, <2>1 DEF Here, Line
<1>5. Here \in Wheres
  BY DEF Standing
<1>6. Behind(Here, Line) \in Wheres
  BY <1>2, <1>4, <1>5, BehindTyped
<1>7. QED
  BY <1>3, <1>4, <1>5, <1>6

LEMMA MasmNext ==
  ASSUME Typed, Reading, NEW d
  PROVE  MasmAt(src, pos, d) = Masm(src.text, MasmAt(src, pos - 1, d), pos, d, {})
<1>1. src.text \in Seq(SourceLines) /\ pos \in 1 .. Len(src.text)
  BY SourceTyped, LineTyped DEF Typed
<1>2. QED
  BY <1>1, MasmAtSteps

LEMMA PosNext ==
  ASSUME Typed, Reading, src' = src, pos' = pos + 1
  PROVE  pos' - 1 = pos /\ Here' = Places(src.text)[pos] /\ Builds' = Builds
<1>1. pos' - 1 = pos
  BY LineTyped
<1>2. Here' = Places(src.text)[pos]
  BY <1>1, Zenon DEF Here
<1>3. Builds' = Builds
  BY DEF Builds
<1>4. QED
  BY <1>1, <1>2, <1>3

\* Builds, and what is split in them
LEMMA BuildsTyped ==
  ASSUME NEW d \in Builds
  PROVE  d \in [Switches -> BOOLEAN] /\ (d[SplitLoad] => src.conditional)
BY DEF Builds

\* A line of which nothing is made
LEMMA QuietStep ==
  ASSUME Typed, Reading, Body, src' = src, pos' = pos + 1, lines' = lines, data' = data,
         \/ Here.block # "none"
         \/ Line.k \in {"comment", "macro", "scaffold", "endm", "endp", "public", "extrn", "radix",
                        "segment", "ends"},
         block' = Behind(Here, Line).block,
         segment' = IF Behind(Here, Line).open = <<>> THEN "CSEG" ELSE Last(Behind(Here, Line).open),
         radix' = IF Here.block = "none" /\ Line.k = "radix" THEN Line.r ELSE radix,
         \A n : src.conditional /\ Facing(n, Here.open, Converter)
                  => Facing(n, Behind(Here, Line).open, Converter')
  PROVE  Body'
<1> DEFINE c == Here
           b == Behind(Here, Line)
           k == Converter
           kk == Converter'
<1>1. /\ Places(src.text)[pos] = b /\ b \in Wheres /\ c \in Wheres
      /\ c.block = "none" => Fits(c, Line)
  BY HereNext DEF Body
<1>2. Here' = b
  BY <1>1, PosNext
<1>3. Line \in SourceLines /\ Line = src.text[pos] /\ radix \in {8, 10}
  BY LineTyped DEF Line, Typed
<1>4. b.depth = c.depth
  BY <1>1, <1>3 DEF Behind, Wheres, Body, Standing
<1>5. Standing'
  BY <1>1, <1>2, <1>4 DEF Standing, Body
<1>6. k.radix = radix /\ kk.radix = radix'
  BY DEF Converter
<1>7. ASSUME Relied(lines), NEW d \in Builds
      PROVE  Follows(d, MasmAt(src, pos, d), NasmTo(lines, d), b, lines, kk)
  <2> DEFINE m == MasmAt(src, pos - 1, d)
             n == NasmTo(lines, d)
             mm == MasmAt(src, pos, d)
  <2>1. Follows(d, m, n, c, lines, k)
    BY <1>7 DEF Body, Following
  <2>2. mm = Masm(src.text, m, pos, d, {})
    BY MasmNext
  <2> HIDE DEF m, n, mm, c, b, k, kk
  <2>3. Alike(d, m, n) /\ Level(m, c, radix) /\ FromLines(n, lines) /\ (d[SplitLoad] => Facing(n, c.open, k))
    BY <1>6, <2>1 DEF Follows
  <2>4. /\ Alike(d, Masm(src.text, m, pos, d, {}), n)
        /\ Level(Masm(src.text, m, pos, d, {}), Behind(c, Line),
                 IF c.block = "none" /\ Line.k = "radix" THEN Line.r ELSE radix)
    <3>1. QuietAt(src.text, pos, d, m, n, c, radix)
      BY <1>1, <1>3, <2>3 DEF c, QuietAt
    <3>2. QuietDone(src.text, pos, d, m, n, c, radix)
      BY <3>1, QuietLine
    <3>3. QED
      BY <1>3, <3>2 DEF QuietDone
  <2>5. Level(mm, b, kk.radix)
    BY <1>6, <2>2, <2>4 DEF b, c
  <2>6. d[SplitLoad] => Facing(n, b.open, kk)
    BY <2>3, BuildsTyped DEF b, c, k, kk
  <2>7. QED
    BY <2>2, <2>3, <2>4, <2>5, <2>6 DEF Follows, mm, n
<1>8. Following'
  <2>1. pos' - 1 = pos
    BY LineTyped
  <2>2. Builds' = Builds
    BY PosNext
  <2>3. QED
    BY <1>2, <1>7, <2>1, <2>2 DEF Following
<1>9. QED
  BY <1>5, <1>8 DEF Body

\* Nothing changes in the segments.
LEMMA FacingSame ==
  ASSUME Behind(Here, Line).open = Here.open, segment' = segment, hasOutput' = hasOutput,
         declared' = declared
  PROVE  \A n : src.conditional /\ Facing(n, Here.open, Converter)
                  => Facing(n, Behind(Here, Line).open, Converter')
<1>1. Converter'.faced = Converter.faced /\ Converter'.declared = Converter.declared
  BY DEF Converter, Faced
<1>2. QED
  BY <1>1 DEF Facing

LEMMA IdleStep ==
  ASSUME Typed, Reading, Body, src' = src, pos' = pos + 1, lines' = lines, data' = data,
         \/ Here.block # "none"
         \/ Line.k \in {"comment", "macro", "scaffold", "endm", "endp", "public", "extrn", "radix"},
         block' = Behind(Here, Line).block,
         radix' = IF Here.block = "none" /\ Line.k = "radix" THEN Line.r ELSE radix,
         segment' = segment, hasOutput' = hasOutput, declared' = declared
  PROVE  Body'
<1>1. Behind(Here, Line).open = Here.open
  BY DEF Behind, Wheres, Body, Standing
<1>2. \A n : src.conditional /\ Facing(n, Here.open, Converter)
               => Facing(n, Behind(Here, Line).open, Converter')
  BY <1>1, FacingSame
<1>3. segment' = IF Behind(Here, Line).open = <<>> THEN "CSEG" ELSE Last(Behind(Here, Line).open)
  BY <1>1 DEF Body, Standing
<1>4. QED
  BY <1>2, <1>3, QuietStep

LEMMA BlockSteps ==
  ASSUME Typed, pc = "convert", Body, OpenBlock \/ InComment \/ InMacro \/ Scaffold \/ Radix
  PROVE  Body'
<1>1. /\ Reading /\ src' = src /\ pos' = pos + 1 /\ lines' = lines /\ data' = data
      /\ segment' = segment /\ hasOutput' = hasOutput /\ declared' = declared
  BY DEF OpenBlock, InComment, InMacro, Scaffold, Radix, Skip, Code
<1>2. block = Here.block /\ Here \in Wheres
  BY DEF Body, Standing
<1>3. CASE OpenBlock
  <2>1. Line.k \in {"comment", "macro"} /\ Here.block = "none" /\ block' = Line.k /\ radix' = radix
    BY <1>2, <1>3 DEF OpenBlock, Skip, Code
  <2>2. Behind(Here, Line).block = Line.k
    BY <1>2, <2>1 DEF Behind, Wheres
  <2>3. QED
    BY <1>1, <2>1, <2>2, IdleStep
<1>4. CASE InComment \/ InMacro
  <2>1. Here.block \in {"comment", "macro"} /\ radix' = radix
        /\ block' = IF Line.k = (IF Here.block = "comment" THEN "delimiter" ELSE "endm") THEN "none"
                    ELSE Here.block
    BY <1>2, <1>4 DEF InComment, InMacro, Skip
  <2>2. Behind(Here, Line).block = block'
    BY <1>2, <2>1 DEF Behind, Wheres
  <2>3. QED
    BY <1>1, <2>1, <2>2, IdleStep
<1>5. CASE Scaffold
  <2>1. Line.k \in {"scaffold", "endm"} /\ Here.block = "none" /\ block' = block /\ radix' = radix
    BY <1>2, <1>5 DEF Scaffold, Skip, Code
  <2>2. Behind(Here, Line) = Here
    BY <2>1 DEF Behind
  <2>3. QED
    BY <1>1, <1>2, <2>1, <2>2, IdleStep
<1>6. CASE Radix
  <2>1. Line.k = "radix" /\ Here.block = "none" /\ block' = block /\ radix' = Line.r
    BY <1>2, <1>6 DEF Radix, Code
  <2>2. Behind(Here, Line) = Here
    BY <2>1 DEF Behind
  <2>3. QED
    BY <1>1, <1>2, <2>1, <2>2, IdleStep
<1>7. QED
  BY <1>3, <1>4, <1>5, <1>6

\* A line given out as nothing: a declaration of a constant, the end of a procedure.
LEMMA NothingStep ==
  ASSUME Typed, pc = "convert", Body, Reading, block = "none", Line.k \in {"public", "extrn", "endp"},
         Emit(<<>>)
  PROVE  Body'
<1>1. block = Here.block /\ Here \in Wheres /\ Here.block = "none"
      /\ segment = IF Here.open = <<>> THEN "CSEG" ELSE Last(Here.open)
  BY DEF Body, Standing
<1>2. ~Due
  <2>1. CASE Line.k \in {"public", "extrn"}
    BY <2>1 DEF Due, Deferred
  <2>2. CASE Line.k = "endp"
    <3>1. Fits(Here, Line)
      BY <1>1, HereNext DEF Body
    <3>2. Here.open = <<"CSEG">>
      BY <2>2, <3>1 DEF Fits
    <3>3. segment = "CSEG"
      BY <1>1, <3>2, OpenFacts
    <3>4. QED
      BY <3>3 DEF Due
  <2>3. QED
    BY <2>1, <2>2
<1>3. hasOutput' = hasOutput /\ declared' = declared
  BY <1>2 DEF Emit, Typed
<1>4. lines' = lines
  <2>1. lines' = lines \o <<>> /\ lines \in Seq(Outputs)
    BY DEF Emit, Typed
  <2>2. QED
    BY <2>1, ConcatEmptySeq
<1>5. src' = src /\ pos' = pos + 1 /\ data' = data /\ block' = block /\ radix' = radix /\ segment' = segment
  BY DEF Emit
<1>6. Behind(Here, Line) = Here
  BY <1>1 DEF Behind
<1>7. QED
  BY <1>1, <1>3, <1>4, <1>5, <1>6, IdleStep

\* The converter before the first line
Unstarted == /\ pos = 1 /\ block = "none" /\ segment = "CSEG" /\ hasOutput = FALSE
             /\ declared = {} /\ lines = <<>>

LEMMA StartStep ==
  ASSUME Typed, Unstarted, Start
  PROVE  Body'
<1>1. src.text \in Seq(SourceLines) /\ Len(src.text) \in Nat /\ src.radix \in {8, 10}
  BY SourceTyped DEF Typed, Sources
<1>2. src' = src /\ pos' = 1 /\ lines' = <<>> /\ data' = collect_data_symbols(src.text)
      /\ block' = "none" /\ segment' = "CSEG" /\ hasOutput' = FALSE /\ declared' = {}
      /\ radix' = src.radix
  BY DEF Start, Unstarted
<1>3. pos' - 1 = 0
  BY <1>2
<1>4. Here' = Outermost
  <2>1. Places(src.text)[0] = Outermost
    BY <1>1, PlacesSteps
  <2>2. QED
    BY <1>2, <1>3, <2>1, Zenon DEF Here
<1>5. Standing'
  <2>1. Balance(<<>>, 0)
    <3>1. Len(<<>>) = 0 /\ 1 .. 0 = {}
      OBVIOUS
    <3>2. \A kind : Count(<<>>, kind, 1, 0) = 0
      BY <3>1, FS_EmptySet DEF Count
    <3>3. QED
      BY <3>1, <3>2 DEF Balance
  <2>2. FromSource(<<>>, src.text)
    BY DEF FromSource
  <2>3. Outermost \in Wheres
    BY DEF Outermost, Wheres, Opens
  <2>4. Outermost.block = "none" /\ Outermost.open = <<>> /\ Outermost.depth = 0
    BY DEF Outermost
  <2>5. QED
    BY <1>2, <1>4, <2>1, <2>2, <2>3, <2>4 DEF Standing
<1>6. ASSUME NEW d
      PROVE  Follows(d, MasmAt(src, 0, d), NasmTo(<<>>, d), Outermost, <<>>, Converter')
  <2>1. MasmAt(src, 0, d) = Starting(src.radix) /\ NasmTo(<<>>, d) = Nothing
    BY <1>1, MasmAtSteps, NasmNone
  <2>2. Alike(d, Starting(src.radix), Nothing) /\ Level(Starting(src.radix), Outermost, src.radix)
    BY <1>1, StartAlike
  <2>3. FromLines(Nothing, <<>>)
    BY DEF FromLines, Nothing
  <2>4. Converter'.declared = {} /\ Converter'.faced = "CSEG" /\ Converter'.radix = src.radix
    BY <1>2 DEF Converter, Faced
  <2>5. Facing(Nothing, Outermost.open, Converter')
    <3>1. <<>> \notin {<<"CSEG">>, <<"CSEG", "DSEG">>}
      OBVIOUS
    <3>2. QED
      BY <2>4, <3>1 DEF Facing, Nothing, Outermost
  <2>6. QED
    BY <2>1, <2>2, <2>3, <2>4, <2>5 DEF Follows
<1>7. Following'
  BY <1>2, <1>3, <1>4, <1>6 DEF Following
<1>8. QED
  BY <1>5, <1>7 DEF Body

\* What a switch of segments leads to, for the text and for both assemblies before it
LEMMA SwitchBefore ==
  ASSUME Typed, Body, NEW s \in Segments, NEW all, all = lines \o split_segment_directive(s)
  PROVE  /\ all \in Seq(Outputs) /\ Balance(all, Here.depth) /\ FromSource(all, src.text)
         /\ Relied(all) => Here.depth = 0 /\ Relied(lines)
<1>1. PICK class \in BOOLEAN : class = (s \notin declared)
  OBVIOUS
<1>2. all = lines \o InSplit([k |-> "segment", s |-> s, class |-> class])
  BY <1>1 DEF split_segment_directive
<1>3. /\ lines \in Seq(Outputs) /\ Here.depth \in Nat /\ Balance(lines, Here.depth)
      /\ FromSource(lines, src.text)
  BY DEF Typed, Body, Standing, Wheres
<1> DEFINE depth == Here.depth
           source == src.text
<1> HIDE DEF depth, source
<1>4. /\ depth \in Nat /\ Balance(lines, depth) /\ FromSource(lines, source)
  BY <1>3 DEF depth, source
<1>5. /\ all \in Seq(Outputs) /\ Balance(all, depth) /\ FromSource(all, source)
      /\ SwitchesUnconditional(all) /\ ConstantsSettled(all) =>
           depth = 0 /\ SwitchesUnconditional(lines) /\ ConstantsSettled(lines)
  BY <1>2, <1>3, <1>4, SwitchText
<1>6. QED
  BY <1>5 DEF depth, source, Relied

Switching(d, m, all, s) ==
  /\ Alike(d, m, NasmTo(all, d)) /\ FromLines(NasmTo(all, d), all)
  /\ d[SplitLoad] => /\ NasmTo(all, d).classed = declared \cup {s}
                     /\ NasmTo(all, d).segs = <<s>>

LEMMA SwitchFollows ==
  ASSUME Typed, Body, NEW s \in Segments, NEW all, all = lines \o split_segment_directive(s),
         Relied(all), NEW d \in Builds
  PROVE  /\ Switching(d, MasmAt(src, pos - 1, d), all, s)
         /\ Level(MasmAt(src, pos - 1, d), Here, radix)
<1> DEFINE m == MasmAt(src, pos - 1, d)
           n == NasmTo(lines, d)
<1>1. Here.depth = 0 /\ Relied(lines)
  BY SwitchBefore
<1>2. Follows(d, m, n, Here, lines, Converter)
  BY <1>1 DEF Body, Following
<1> HIDE DEF m
<1>3. /\ Alike(d, m, n) /\ Level(m, Here, radix) /\ FromLines(n, lines)
      /\ d[SplitLoad] => n.classed = declared
  BY <1>2 DEF Follows, Converter, Facing
<1>4. Len(m.live) = 0
  BY <1>1, <1>3 DEF Level
<1>5. all = lines \o InSplit([k |-> "segment", s |-> s, class |-> s \notin declared])
  BY DEF split_segment_directive
<1>6. d \in [Switches -> BOOLEAN] /\ declared \in SUBSET Segments /\ lines \in Seq(Outputs)
  BY BuildsTyped DEF Typed
<1>7. /\ Alike(d, m, NasmTo(lines, d)) /\ FromLines(NasmTo(lines, d), lines)
      /\ d[SplitLoad] => NasmTo(lines, d).classed = declared
  BY <1>3
<1> HIDE DEF n
<1>8. /\ Alike(d, m, NasmTo(all, d)) /\ FromLines(NasmTo(all, d), all)
      /\ d[SplitLoad] => /\ NasmTo(all, d).classed = declared \cup {s}
                         /\ NasmTo(all, d).segs = <<s>>
  BY <1>4, <1>5, <1>6, <1>7, SwitchState
<1>9. QED
  BY <1>3, <1>8 DEF Switching, m

\* A line that opens or closes a segment, with the switch to the code segment
LEMMA SwitchStep ==
  ASSUME Typed, Reading, Body, src.conditional, Switch("CSEG"), block = "none",
         Line.k \in {"segment", "ends"}, src' = src, pos' = pos + 1, data' = data, block' = block,
         radix' = radix, segment' = "CSEG",
         segment' = IF Behind(Here, Line).open = <<>> THEN "CSEG" ELSE Last(Behind(Here, Line).open)
  PROVE  Body'
<1> DEFINE b == Behind(Here, Line)
<1>1. /\ Places(src.text)[pos] = b /\ b \in Wheres /\ Here \in Wheres /\ Here.block = "none"
      /\ Fits(Here, Line)
  BY HereNext DEF Body, Standing
<1>2. pos' - 1 = pos /\ Here' = b /\ Builds' = Builds
  BY <1>1, PosNext
<1>3. Line \in SourceLines /\ Line = src.text[pos] /\ radix \in {8, 10}
  BY LineTyped DEF Line, Typed
<1>4. b.depth = Here.depth /\ b.block = "none"
  BY <1>1, <1>3 DEF Behind, Wheres
<1>5. lines' = lines \o split_segment_directive("CSEG") /\ declared' = declared \cup {"CSEG"}
      /\ "CSEG" \in Segments
  BY DEF Switch, Segments
<1>6. /\ Balance(lines', Here.depth) /\ FromSource(lines', src.text)
  BY <1>5, SwitchBefore
<1>7. Standing'
  <2>1. Balance(lines', b.depth)
    BY <1>4, <1>6
  <2>2. block' = b.block
    BY <1>4
  <2>3. data' = collect_data_symbols(src.text)
    BY DEF Body, Standing
  <2>4. QED
    BY <1>1, <1>2, <1>6, <2>1, <2>2, <2>3 DEF Standing
<1>8. ASSUME Relied(lines'), NEW d \in Builds
      PROVE  Follows(d, MasmAt(src, pos, d), NasmTo(lines', d), b, lines', Converter')
  <2> DEFINE m == MasmAt(src, pos - 1, d)
             n == NasmTo(lines', d)
             mm == MasmAt(src, pos, d)
             all == lines'
  <2>1. Switching(d, m, all, "CSEG") /\ Level(m, Here, radix)
    BY <1>5, <1>8, SwitchFollows
  <2>2. mm = Masm(src.text, m, pos, d, {})
    BY MasmNext
  <2> HIDE DEF m, mm
  <2>3. /\ Alike(d, m, n) /\ FromLines(n, lines')
        /\ d[SplitLoad] => n.classed = declared \cup {"CSEG"} /\ n.segs = <<"CSEG">>
    BY <2>1 DEF Switching
  <2> HIDE DEF n, b, all
  <2>4. QuietAt(src.text, pos, d, m, n, Here, radix)
    BY <1>1, <1>3, <2>1, <2>3 DEF QuietAt
  <2>5. QuietDone(src.text, pos, d, m, n, Here, radix)
    BY <2>4, QuietLine
  <2>6. Alike(d, mm, n) /\ Level(mm, b, radix)
    BY <1>3, <2>2, <2>5 DEF QuietDone, b
  <2>7. Converter'.radix = radix /\ Converter'.declared = declared \cup {"CSEG"} /\ Converter'.faced = "CSEG"
    BY <1>5 DEF Converter, Faced
  <2>8. d[SplitLoad] => Facing(n, b.open, Converter')
    BY <2>3, <2>7 DEF Facing
  <2>9. QED
    BY <2>3, <2>6, <2>7, <2>8 DEF Follows, mm, n
<1>9. Following'
  BY <1>2, <1>8 DEF Following
<1>10. QED
  BY <1>7, <1>9 DEF Body

LEMMA SegmentSteps ==
  ASSUME Typed, pc = "convert", Body, SegmentStarts \/ SegmentEnds
  PROVE  Body'
<1>1. /\ Reading /\ src' = src /\ pos' = pos + 1 /\ data' = data /\ block' = block /\ radix' = radix
      /\ block = "none" /\ Line.k \in {"segment", "ends"}
  BY DEF SegmentStarts, SegmentEnds, Code
<1>2. /\ Here.block = "none" /\ Here \in Wheres /\ Fits(Here, Line)
      /\ segment = IF Here.open = <<>> THEN "CSEG" ELSE Last(Here.open)
  BY <1>1, HereNext DEF Body, Standing
<1>3. Line.s \in {"CSEG", "DSEG"}
  BY <1>1, MadeTyped DEF Segments
<1> DEFINE open == Behind(Here, Line).open
<1>4. Behind(Here, Line).block = Here.block
  BY <1>1, <1>2 DEF Behind, Wheres
<1>5. block' = Behind(Here, Line).block
  BY <1>1, <1>2, <1>4
<1>6. radix' = IF Here.block = "none" /\ Line.k = "radix" THEN Line.r ELSE radix
  BY <1>1
<1>7. CASE SegmentStarts
  <2>1. Line.k = "segment" /\ segment' = Line.s
        /\ hasOutput' = (IF Line.s = "DSEG" THEN FALSE ELSE hasOutput)
        /\ IF Line.s = "CSEG" /\ src.conditional THEN Switch("CSEG") ELSE UNCHANGED <<lines, declared>>
    BY <1>7 DEF SegmentStarts, Code
  <2>2. open = Append(Here.open, Line.s)
    BY <1>2, <2>1 DEF Behind, Wheres
  <2>3. Here.open = <<>> \/ (Here.open = <<"CSEG">> /\ Line.s = "DSEG")
    BY <1>2, <2>1 DEF Fits
  <2>4. open # <<>> /\ Last(open) = Line.s
    <3>1. <<"CSEG">> # <<>> /\ <<"DSEG">> # <<>> /\ <<"CSEG", "DSEG">> # <<>>
      OBVIOUS
    <3>2. \/ Line.s = "CSEG" /\ open = <<"CSEG">>
          \/ Line.s = "DSEG" /\ open = <<"DSEG">>
          \/ Line.s = "DSEG" /\ open = <<"CSEG", "DSEG">>
      BY <1>3, <2>2, <2>3, OpenFacts
    <3> HIDE DEF open
    <3>3. QED
      BY <3>1, <3>2, OpenFacts
  <2>5. segment' = IF open = <<>> THEN "CSEG" ELSE Last(open)
    BY <2>1, <2>4
  <2>6. CASE Line.s = "CSEG" /\ src.conditional
    <3>1. Switch("CSEG") /\ segment' = "CSEG"
      BY <2>1, <2>6
    <3>2. QED
      BY <1>1, <2>5, <2>6, <3>1, SwitchStep
  <2>7. CASE ~(Line.s = "CSEG" /\ src.conditional)
    <3>1. lines' = lines /\ declared' = declared
      BY <2>1, <2>7
    <3>2. ASSUME NEW n, src.conditional, Facing(n, Here.open, Converter)
          PROVE  Facing(n, open, Converter')
      <4>1. Line.s = "DSEG" /\ hasOutput' = FALSE
        BY <1>3, <2>1, <2>7, <3>2
      <4>2. Converter'.faced = "CSEG" /\ Converter'.declared = Converter.declared
        BY <3>1, <4>1 DEF Converter, Faced
      <4>3. CASE Here.open = <<>>
        <5>1. open = <<"DSEG">>
          BY <2>2, <4>1, <4>3, OpenFacts
        <5>2. <<"DSEG">> # <<"CSEG">> /\ <<"DSEG">> # <<"CSEG", "DSEG">>
          OBVIOUS
        <5>3. QED
          BY <3>2, <4>2, <5>1, <5>2 DEF Facing
      <4>4. CASE Here.open = <<"CSEG">>
        <5>1. segment = "CSEG"
          BY <1>2, <4>4, OpenFacts
        <5>2. Converter.faced = "CSEG"
          BY <5>1 DEF Converter, Faced
        <5>3. QED
          BY <3>2, <4>2, <4>4, <5>2 DEF Facing
      <4>5. QED
        BY <2>3, <4>3, <4>4
    <3>3. QED
      BY <1>1, <1>5, <1>6, <2>5, <3>1, <3>2, QuietStep
  <2>8. QED
    BY <2>6, <2>7
<1>8. CASE SegmentEnds
  <2>1. Line.k = "ends" /\ segment' = (IF Line.s = "DSEG" THEN "CSEG" ELSE segment)
        /\ hasOutput' = hasOutput
        /\ IF src.conditional /\ Line.s = "DSEG" /\ hasOutput
           THEN Switch("CSEG") ELSE UNCHANGED <<lines, declared>>
    BY <1>8 DEF SegmentEnds, Code
  <2>2. open = Front(Here.open)
    BY <1>2, <2>1 DEF Behind, Wheres
  <2>3. Here.open # <<>> /\ Last(Here.open) = Line.s
    BY <1>2, <2>1 DEF Fits
  <2>4. Here.open \in {<<"CSEG">>, <<"DSEG">>, <<"CSEG", "DSEG">>}
    BY <1>2, <2>3 DEF Wheres, Opens
  <2>5. /\ Here.open = <<"CSEG">> => open = <<>> /\ Line.s = "CSEG" /\ segment = "CSEG"
        /\ Here.open = <<"DSEG">> => open = <<>> /\ Line.s = "DSEG" /\ segment = "DSEG"
        /\ Here.open = <<"CSEG", "DSEG">> => open = <<"CSEG">> /\ Line.s = "DSEG" /\ segment = "DSEG"
    BY <1>2, <2>2, <2>3, OpenFacts
  <2>6. segment' = "CSEG" /\ (open = <<>> \/ open = <<"CSEG">>)
    BY <2>1, <2>4, <2>5
  <2>7. segment' = IF open = <<>> THEN "CSEG" ELSE Last(open)
    BY <2>6, OpenFacts
  <2>8. CASE src.conditional /\ Line.s = "DSEG" /\ hasOutput
    <3>1. Switch("CSEG")
      BY <2>1, <2>8
    <3>2. QED
      BY <1>1, <2>6, <2>7, <2>8, <3>1, SwitchStep
  <2>9. CASE ~(src.conditional /\ Line.s = "DSEG" /\ hasOutput)
    <3>1. lines' = lines /\ declared' = declared
      BY <2>1, <2>9
    <3>2. ASSUME NEW n, src.conditional, Facing(n, Here.open, Converter)
          PROVE  Facing(n, open, Converter')
      <4>1. Converter'.faced = "CSEG" /\ Converter'.declared = Converter.declared
        BY <2>6, <3>1 DEF Converter, Faced
      <4>2. Converter.faced = "CSEG"
        <5>1. CASE Line.s = "DSEG"
          BY <2>9, <3>2, <5>1 DEF Converter, Faced
        <5>2. CASE Line.s = "CSEG"
          BY <2>4, <2>5, <5>2 DEF Converter, Faced
        <5>3. QED
          BY <1>3, <5>1, <5>2
      <4>3. open = <<"CSEG">> => Here.open = <<"CSEG", "DSEG">>
        <5>1. <<>> # <<"CSEG">>
          OBVIOUS
        <5>2. QED
          BY <2>4, <2>5, <5>1
      <4>4. open # <<"CSEG", "DSEG">>
        <5>1. <<>> # <<"CSEG", "DSEG">> /\ <<"CSEG">> # <<"CSEG", "DSEG">>
          OBVIOUS
        <5>2. QED
          BY <2>6, <5>1
      <4>5. QED
        BY <3>2, <4>1, <4>2, <4>3, <4>4 DEF Facing
    <3>3. QED
      BY <1>1, <1>5, <1>6, <2>7, <3>1, <3>2, QuietStep
  <2>10. QED
    BY <2>8, <2>9
<1>9. QED
  BY <1>7, <1>8

------------------------------------------------------------------------------
(* A line that is given out                                                  *)

\* What NASM must know of the converter once the switch is written
After == [faced    |-> IF segment = "DSEG" /\ (hasOutput \/ Due) THEN "DSEG" ELSE "CSEG",
          declared |-> IF Due THEN declared \cup {"DSEG"} ELSE declared]

\* Both assemblies in front of the line
Ready(d, m, n) ==
  /\ Alike(d, m, n) /\ Level(m, Here, radix) /\ FromLines(n, Before)
  /\ d[SplitLoad] => Facing(n, Here.open, After)

\* What a line defines is not what a constant is made from.
Settled(n, x) ==
  x.k \in {"define", "assign", "equ"} => \A y \in Names : n.val[y].k = "sym" => n.val[y].n # x.n

\* Both behind it
Stepped(d, m, n, x) ==
  /\ Alike(d, Masm(src.text, m, pos, d, {}), Nasm(n, x, d))
  /\ Level(Masm(src.text, m, pos, d, {}), Behind(Here, Line), radix)
  /\ Nasm(n, x, d).segs = n.segs /\ Nasm(n, x, d).classed = n.classed

LEMMA BeforeText ==
  ASSUME Typed, Body
  PROVE  /\ Before \in Seq(Outputs) /\ Balance(Before, Here.depth) /\ FromSource(Before, src.text)
<1>1. CASE Due
  <2>1. Before = lines \o split_segment_directive("DSEG") /\ "DSEG" \in Segments
    BY <1>1 DEF Before, Segments
  <2>2. QED
    BY <2>1, SwitchBefore
<1>2. CASE ~Due
  BY <1>2 DEF Before, Body, Standing, Typed
<1>3. QED
  BY <1>1, <1>2

LEMMA BeforeReady ==
  ASSUME Typed, Body, Relied(Before), NEW d \in Builds
  PROVE  Ready(d, MasmAt(src, pos - 1, d), NasmTo(Before, d))
<1> DEFINE m == MasmAt(src, pos - 1, d)
           n == NasmTo(Before, d)
<1>1. CASE Due
  <2>1. Before = lines \o split_segment_directive("DSEG") /\ "DSEG" \in Segments
    BY <1>1 DEF Before, Segments
  <2> DEFINE all == Before
  <2>2. Switching(d, m, all, "DSEG") /\ Level(m, Here, radix)
    BY <2>1, SwitchFollows
  <2>3. /\ Alike(d, m, n) /\ FromLines(n, Before)
        /\ d[SplitLoad] => n.classed = declared \cup {"DSEG"} /\ n.segs = <<"DSEG">>
    BY <2>2 DEF Switching
  <2>4. After.faced = "DSEG" /\ After.declared = declared \cup {"DSEG"}
    BY <1>1 DEF After, Due
  <2>5. d[SplitLoad] => Facing(n, Here.open, After)
    BY <2>3, <2>4 DEF Facing
  <2>6. QED
    BY <2>2, <2>3, <2>5 DEF Ready
<1>2. CASE ~Due
  <2>1. Before = lines
    BY <1>2 DEF Before
  <2>2. Follows(d, m, n, Here, lines, Converter)
    BY <2>1 DEF Body, Following
  <2>3. After.faced = Converter.faced /\ After.declared = Converter.declared /\ Converter.radix = radix
    BY <1>2 DEF After, Converter, Faced
  <2> HIDE DEF m, n
  <2>4. Alike(d, m, n) /\ Level(m, Here, radix) /\ FromLines(n, Before)
        /\ (d[SplitLoad] => Facing(n, Here.open, Converter))
    BY <2>1, <2>2, <2>3 DEF Follows
  <2>5. d[SplitLoad] => Facing(n, Here.open, After)
    BY <2>3, <2>4 DEF Facing
  <2>6. QED
    BY <2>4, <2>5 DEF Ready, m, n
<1>3. QED
  BY <1>1, <1>2

LEMMA SettledHere ==
  ASSUME Typed, Body, NEW x \in Outputs, Relied(Append(Before, x)), NEW n, FromLines(n, Before)
  PROVE  Settled(n, x)
<1> SUFFICES ASSUME x.k \in {"define", "assign", "equ"}, NEW y \in Names, n.val[y].k = "sym"
             PROVE  n.val[y].n # x.n
  BY DEF Settled
<1> DEFINE text == Before
<1>1. text \in Seq(Outputs)
  BY BeforeText
<1>2. n.val[y] # NoValue
  BY DEF NoValue
<1>3. PICK i \in DOMAIN text : text[i].k = "define" /\ text[i].v = n.val[y]
  BY <1>2 DEF FromLines
<1>4. ConstantsSettled(Append(text, x))
  BY DEF Relied
<1> HIDE DEF text
<1>5. text[i].v.k = "sym"
  BY <1>3
<1>6. x.n # text[i].v.n
  BY <1>1, <1>3, <1>4, <1>5, SettledBefore
<1>7. QED
  BY <1>3, <1>6

\* One line more in the source, and one more in the output behind the switch if that is due
LEMMA EmitStep ==
  ASSUME Typed, Body, Reading, block = "none", NEW x \in Outputs, Emit(<<x>>),
         Line.k \notin {"comment", "macro", "segment", "ends"},
         Behind(Here, Line).depth = IF x.k = "if" THEN Here.depth + 1
                                    ELSE IF x.k = "endif" THEN Here.depth - 1 ELSE Here.depth,
         x.k \in {"define", "assign", "equ"} => Line.k \in {"equ", "assign"} /\ Line.n = x.n,
         \A d \in Builds : \A m, n : Ready(d, m, n) /\ Settled(n, x) => Stepped(d, m, n, x)
  PROVE  Body'
<1> DEFINE b == Behind(Here, Line)
           t == Append(Before, x)
<1>1. /\ Places(src.text)[pos] = b /\ b \in Wheres /\ Here \in Wheres /\ Here.block = "none"
  BY HereNext DEF Body, Standing
<1>2. /\ src' = src /\ pos' = pos + 1 /\ block' = block /\ radix' = radix /\ segment' = segment
      /\ data' = data /\ hasOutput' = (hasOutput \/ Due)
      /\ declared' = IF Due THEN declared \cup {"DSEG"} ELSE declared
  BY DEF Emit
<1>3. pos' - 1 = pos /\ Here' = b /\ Builds' = Builds
  BY <1>1, <1>2, PosNext
<1>4. lines' = t /\ t \in Seq(Outputs)
  BY EmitLines DEF Typed
<1>5. Before \in Seq(Outputs) /\ Balance(Before, Here.depth) /\ FromSource(Before, src.text)
  BY BeforeText
<1>6. b.open = Here.open /\ b.block = "none"
  BY <1>1 DEF Behind, Wheres
<1>7. Standing'
  <2>1. Balance(t, b.depth)
    <3> DEFINE depth == Here.depth
    <3>1. depth \in Int /\ Balance(Before, depth)
      BY <1>1, <1>5 DEF Wheres
    <3> HIDE DEF depth
    <3>2. Balance(t, IF x.k = "if" THEN depth + 1 ELSE IF x.k = "endif" THEN depth - 1 ELSE depth)
      BY <1>5, <3>1, BalanceAppend
    <3>3. QED
      BY <3>2 DEF depth
  <2>2. FromSource(t, src.text)
    <3>1. x.k \in {"define", "assign", "equ"} =>
            \E j \in DOMAIN src.text : src.text[j].k \in {"equ", "assign"} /\ src.text[j].n = x.n
      BY LineTyped DEF Line
    <3>2. QED
      BY <1>5, <3>1, FromSourceAppend
  <2> HIDE DEF b, t
  <2>3. segment' = IF b.open = <<>> THEN "CSEG" ELSE Last(b.open)
    BY <1>2, <1>6 DEF Body, Standing
  <2>4. block' = b.block /\ data' = collect_data_symbols(src.text)
    BY <1>1, <1>2, <1>6 DEF Body, Standing
  <2>5. QED
    BY <1>1, <1>2, <1>3, <1>4, <2>1, <2>2, <2>3, <2>4 DEF Standing
<1>8. ASSUME Relied(t), NEW d \in Builds
      PROVE  Follows(d, MasmAt(src, pos, d), NasmTo(t, d), b, t, Converter')
  <2> DEFINE m == MasmAt(src, pos - 1, d)
             n == NasmTo(Before, d)
             mm == MasmAt(src, pos, d)
             nn == NasmTo(t, d)
  <2>1. Relied(Before)
    BY <1>5, <1>8, RelyBefore DEF Relied
  <2>2. Ready(d, m, n)
    BY <2>1, BeforeReady
  <2>3. mm = Masm(src.text, m, pos, d, {})
    BY MasmNext
  <2>4. nn = Nasm(n, x, d)
    BY <1>5, NasmOne
  <2> HIDE DEF m, n, mm, nn, b
  <2>5. FromLines(n, Before) /\ n \in States /\ (d[SplitLoad] => Facing(n, Here.open, After))
    BY <2>2 DEF Ready, Alike
  <2>6. Settled(n, x)
    BY <1>8, <2>5, SettledHere
  <2>7. Stepped(d, m, n, x)
    BY <2>2, <2>6
  <2>8. FromLines(nn, t)
    BY <1>5, <2>4, <2>5, FromLinesAppend
  <2>9. Alike(d, mm, nn) /\ Level(mm, b, radix) /\ nn.segs = n.segs /\ nn.classed = n.classed
    BY <2>3, <2>4, <2>7 DEF Stepped, b
  <2>10. Converter'.radix = radix /\ Converter'.declared = After.declared /\ Converter'.faced = After.faced
    BY <1>2 DEF Converter, Faced, After
  <2>11. d[SplitLoad] => Facing(nn, b.open, Converter')
    BY <1>6, <2>5, <2>9, <2>10 DEF Facing
  <2>12. QED
    BY <2>8, <2>9, <2>10, <2>11 DEF Follows, mm, nn
<1>9. Following'
  BY <1>2, <1>3, <1>4, <1>8 DEF Following
<1>10. QED
  BY <1>7, <1>9 DEF Body

LEMMA HereFacts ==
  ASSUME Typed, Body, Reading, block = "none"
  PROVE  /\ Here \in Wheres /\ Here.block = "none" /\ Fits(Here, Line)
         /\ segment = IF Here.open = <<>> THEN "CSEG" ELSE Last(Here.open)
         /\ data = collect_data_symbols(src.text) /\ Line = src.text[pos]
BY HereNext DEF Body, Standing, Line

\* Where something is placed both assemblies are in the segment of the source.
LEMMA PlacedAlike ==
  ASSUME Typed, Body, Reading, block = "none", Line.k \in {"db", "ins86", "mov", "proc", "ret"},
         NEW d \in Builds, NEW m, NEW n, Ready(d, m, n)
  PROVE  Meets(d, m, n, Line)
<1>1. /\ Here \in Wheres /\ Here.block = "none" /\ Fits(Here, Line)
      /\ segment = IF Here.open = <<>> THEN "CSEG" ELSE Last(Here.open)
  BY HereFacts
<1>2. Alike(d, m, n) /\ Level(m, Here, radix) /\ (d[SplitLoad] => Facing(n, Here.open, After))
  BY DEF Ready
<1>3. m.skip = "none" /\ m.radix = radix /\ m.segs = Here.open
  BY <1>1, <1>2 DEF Level
<1>4. Here.open # <<>>
  <2>1. <<"CSEG">> # <<>>
    OBVIOUS
  <2>2. QED
    BY <1>1, <2>1 DEF Fits
<1>5. Seg(m) = segment
  BY <1>1, <1>3, <1>4 DEF Seg
<1>6. Here.open \in {<<"CSEG">>, <<"DSEG">>, <<"CSEG", "DSEG">>}
  BY <1>1, <1>4 DEF Wheres, Opens
<1>7. ASSUME d[SplitLoad] PROVE Seg(n) = segment
  <2>1. src.conditional
    BY <1>7, BuildsTyped
  <2>2. Facing(n, Here.open, After)
    BY <1>2, <1>7
  <2>3. CASE segment = "DSEG"
    <3>1. hasOutput \/ Due
      BY <2>1, <2>3 DEF Due, Deferred
    <3>2. After.faced = "DSEG"
      BY <2>3, <3>1 DEF After
    <3>3. n.segs = <<"DSEG">>
      BY <2>2, <3>2 DEF Facing
    <3>4. <<"DSEG">> # <<>>
      OBVIOUS
    <3>5. QED
      BY <2>3, <3>3, <3>4, OpenFacts DEF Seg
  <2>4. CASE segment = "CSEG"
    <3>1. Here.open = <<"CSEG">>
      BY <1>1, <1>4, <1>6, <2>4, OpenFacts
    <3>2. After.faced = "CSEG"
      BY <2>4 DEF After
    <3>3. n.segs = <<"CSEG">>
      BY <2>2, <3>1, <3>2 DEF Facing
    <3>4. <<"CSEG">> # <<>>
      OBVIOUS
    <3>5. QED
      BY <2>4, <3>3, <3>4, OpenFacts DEF Seg
  <2>5. QED
    BY <2>3, <2>4 DEF Typed, Segments
<1>8. QED
  BY <1>2, <1>3, <1>5, <1>7 DEF Meets

\* No line takes the OFFSET of a name of the source that an include file has as a constant.
LEMMA LineElsewhere ==
  ASSUME Typed, Reading, OffsetsElsewhere(src.text), Line.k \in {"equ", "assign", "db", "mov"}
  PROVE  Elsewhere(src.text, Line.v)
BY LineTyped DEF OffsetsElsewhere, Elsewhere, Line

\* Pass one finds the variables among the plain operands.
LEMMA VariablesFound ==
  ASSUME NEW text, DeclaredInPlace(text), NEW i \in DOMAIN text, text[i].k = "mov",
         text[i].v.k = "sym", text[i].v.n # NoName
  PROVE  text[i].v.n \in Variables(text) <=> text[i].v.n \in collect_data_symbols(text)
<1> DEFINE x == text[i].v.n
<1>1. ASSUME NEW j \in DOMAIN text, text[j].n = x,
             text[j].k = "db" \/ (text[j].k = "extrn" /\ text[j].type = "data")
      PROVE  x \in collect_data_symbols(text)
  BY <1>1 DEF DeclaredInPlace, collect_data_symbols
<1>2. ASSUME NEW j \in DOMAIN text, text[j].n = x, InData(text, j),
             \/ text[j].k = "extrn" /\ text[j].n \notin AbsoluteNames
             \/ text[j].k = "db"
      PROVE  x \in Variables(text)
  BY <1>2 DEF DeclaredInPlace, Variables
<1>3. x \in Variables(text) => x \in collect_data_symbols(text)
  BY <1>1 DEF Variables
<1>4. x \in collect_data_symbols(text) => x \in Variables(text)
  BY <1>2 DEF collect_data_symbols
<1>5. QED
  BY <1>3, <1>4

\* From what a line does to the places of both
LEMMA KeepsStepped ==
  ASSUME NEW d, NEW m, NEW n, NEW x, Ready(d, m, n), Behind(Here, Line) = Here,
         Keeps(d, m, n, Masm(src.text, m, pos, d, {}), Nasm(n, x, d))
  PROVE  Stepped(d, m, n, x)
BY DEF Ready, Keeps, Kept, Stepped, Level

LEMMA ConditionalStep ==
  ASSUME Typed, Body, Conditional
  PROVE  Body'
<1> DEFINE x == IF Line.k = "if" THEN If(Line.c, Line.not) ELSE [k |-> Line.k]
<1>1. Reading /\ block = "none" /\ Line.k \in {"if", "else", "endif"} /\ Emit(<<x>>)
  BY DEF Conditional, Code
<1>2. x \in Outputs /\ x.k = Line.k /\ (Line.k = "if" => x.c = Line.c /\ x.not = Line.not)
  BY <1>1, MadeTyped DEF If
<1> HIDE DEF x
<1>3. /\ Here \in Wheres /\ Here.block = "none" /\ Fits(Here, Line) /\ Line = src.text[pos]
  BY <1>1, HereFacts
<1>4. /\ Behind(Here, Line).depth = IF x.k = "if" THEN Here.depth + 1
                                    ELSE IF x.k = "endif" THEN Here.depth - 1 ELSE Here.depth
      /\ Behind(Here, Line).open = Here.open /\ Behind(Here, Line).block = "none"
  BY <1>1, <1>2, <1>3 DEF Behind, Wheres
<1>5. ASSUME NEW d \in Builds, NEW m, NEW n, Ready(d, m, n) PROVE Stepped(d, m, n, x)
  <2>1. Alike(d, m, n) /\ Level(m, Here, radix)
    BY <1>5 DEF Ready
  <2>2. m.skip = "none" /\ Len(m.live) = Here.depth /\ m.segs = Here.open /\ m.radix = radix
    BY <1>3, <2>1 DEF Level
  <2>3. Line.k # "if" => Len(m.live) > 0
    BY <1>1, <1>3, <2>2 DEF Fits
  <2> DEFINE mm == Masm(src.text, m, pos, d, {})
             nn == Nasm(n, x, d)
  <2>4. /\ Alike(d, mm, nn)
        /\ mm.skip = m.skip /\ mm.segs = m.segs /\ mm.radix = m.radix
        /\ nn.segs = n.segs /\ nn.classed = n.classed /\ nn.val = n.val
        /\ Len(mm.live) = CASE Line.k = "if" -> Len(m.live) + 1 [] Line.k = "else" -> Len(m.live)
                            [] Line.k = "endif" -> Len(m.live) - 1
    <3>1. Branches(src.text, pos, Line, d, m, n, x)
      BY <1>1, <1>2, <1>3, <2>1, <2>2, <2>3, ConditionalLine
    <3>2. QED
      BY <3>1 DEF Branches
  <2> HIDE DEF mm, nn
  <2>5. Len(mm.live) = Behind(Here, Line).depth
    BY <1>1, <1>2, <1>4, <2>2, <2>4
  <2>6. Level(mm, Behind(Here, Line), radix)
    BY <1>4, <2>2, <2>4, <2>5 DEF Level
  <2>7. QED
    BY <2>4, <2>6 DEF Stepped, mm, nn
<1>6. QED
  BY <1>1, <1>2, <1>4, <1>5, EmitStep

LEMMA DeclarationStep ==
  ASSUME Typed, pc = "convert", Body, Declaration
  PROVE  Body'
<1> DEFINE x == [k |-> IF Line.k = "public" THEN "global" ELSE "extern", n |-> Line.n]
<1>1. Reading /\ block = "none" /\ Line.k \in {"public", "extrn"} /\ (Emit(<<>>) \/ Emit(<<x>>))
  BY DEF Declaration, Code
<1>2. CASE Emit(<<>>)
  BY <1>1, <1>2, NothingStep
<1>3. CASE Emit(<<x>>)
  <2>1. x \in Outputs
    BY <1>1, MadeTyped DEF Outputs
  <2>2. x.k \in {"global", "extern"}
    OBVIOUS
  <2> HIDE DEF x
  <2>3. /\ Here \in Wheres /\ Here.block = "none" /\ Line = src.text[pos]
    BY <1>1, HereFacts
  <2>4. Behind(Here, Line) = Here
    BY <1>1, <2>3 DEF Behind
  <2>5. ASSUME NEW d \in Builds, NEW m, NEW n, Ready(d, m, n) PROVE Stepped(d, m, n, x)
    <3>1. Alike(d, m, n) /\ Level(m, Here, radix) /\ m.skip = "none"
      BY <2>3, <2>5 DEF Ready, Level
    <3>2. Masm(src.text, m, pos, d, {}) = m
      BY <1>1, <2>3, <3>1, IdleLine
    <3>3. Nasm(n, x, d) = n
      BY <2>2, IdleOutput
    <3>4. QED
      BY <2>4, <3>1, <3>2, <3>3 DEF Stepped
  <2>6. /\ Line.k \notin {"comment", "macro", "segment", "ends"} /\ x.k \notin {"if", "endif", "define", "assign", "equ"}
    BY <1>1, <2>2
  <2>7. QED
    BY <1>1, <1>3, <2>1, <2>4, <2>5, <2>6, EmitStep
<1>4. QED
  BY <1>1, <1>2, <1>3

LEMMA ConstantStep ==
  ASSUME Typed, OffsetsElsewhere(src.text), Body, Assignment \/ Equate
  PROVE  Body'
<1> DEFINE e == convert_expr(Line.v)
<1>1. PICK form \in {"define", "assign", "equ"} :
         /\ Reading /\ block = "none" /\ Line.k \in {"assign", "equ"}
         /\ Emit(<<[k |-> form, n |-> Line.n, v |-> e]>>)
         /\ form = "define" => /\ Line.v.k # "since"
                               /\ ~((e.k = "sym" /\ e.n = Line.n) \/ (e.k = "num" /\ e.suffix = "none"))
  BY DEF Assignment, Equate, Code
<1> DEFINE x == [k |-> form, n |-> Line.n, v |-> e]
<1>2. Line.n \in Names /\ Line.v \in Operands /\ e \in Converted
  BY <1>1, MadeTyped, ConvertTyped
<1>3. x \in Outputs /\ x.k = form /\ x.n = Line.n /\ Emit(<<x>>)
  BY <1>1, <1>2 DEF Outputs
<1>4. form = "define" => e \in Given /\ (e.k = "sym" => e.n # Line.n)
  <2> SUFFICES ASSUME form = "define" PROVE e \in Given /\ (e.k = "sym" => e.n # Line.n)
    OBVIOUS
  <2>1. Line.v.k # "since" /\ ~(e.k = "sym" /\ e.n = Line.n) /\ ~(e.k = "num" /\ e.suffix = "none")
    BY <1>1
  <2>2. CASE Line.v \in [k : {"num"}, d : Nat, suffix : {"D", "O", "none"}]
    <3>1. e.k = "num" /\ e.d \in Nat /\ e.suffix \in {"O", "none"} /\ e \in [k : {"num"}, d : Nat, suffix : {"O", "none"}]
      BY <2>2 DEF convert_expr
    <3> HIDE DEF e
    <3>2. e \in [k : {"num"}, d : Nat, suffix : {"O"}]
      BY <2>1, <3>1
    <3>3. QED
      BY <3>1, <3>2 DEF Given
  <2>3. CASE Line.v \in [k : {"sym"}, n : Names, add : Int]
    <3>1. e = Line.v
      BY <2>3 DEF convert_expr
    <3>2. QED
      BY <2>1, <2>3, <3>1 DEF Given
  <2>4. CASE Line.v \in [k : {"offset", "since"}, n : Names]
    <3>1. Line.v.k = "offset" /\ Line.v.n \in Names
      BY <2>1, <2>4
    <3>2. e = Const(Line.v.n) \/ e = Sym(Line.v.n, 0)
      BY <3>1 DEF convert_expr
    <3>3. e \in [k : {"sym"}, n : Names, add : Int] \cup [k : {"const"}, n : Names]
      BY <3>1, <3>2 DEF Sym, Const
    <3> HIDE DEF e
    <3>4. QED
      BY <2>1, <3>3 DEF Given
  <2>5. QED
    BY <1>2, <2>2, <2>3, <2>4 DEF Operands
<1>5. /\ Here \in Wheres /\ Here.block = "none" /\ Fits(Here, Line) /\ Line = src.text[pos]
  BY <1>1, HereFacts
<1>6. Behind(Here, Line) = Here
  BY <1>1, <1>5 DEF Behind
<1>7. ASSUME NEW d \in Builds, NEW m, NEW n, Ready(d, m, n), Settled(n, x) PROVE Stepped(d, m, n, x)
  <2>1. Alike(d, m, n) /\ m.skip = "none" /\ m.radix = radix
    BY <1>5, <1>7 DEF Ready, Level
  <2>3. \A y \in Names : n.val[y].k = "sym" => n.val[y].n # Line.n
    BY <1>3, <1>7 DEF Settled
  <2> DEFINE text == src.text
             l == Line
  <2>4. /\ l = text[pos] /\ l.k \in {"assign", "equ"} /\ l.n \in Names /\ l.v \in Operands
        /\ Elsewhere(text, l.v)
        /\ \A y \in Names : n.val[y].k = "sym" => n.val[y].n # l.n
        /\ form = "define" => /\ convert_expr(l.v) \in Given
                              /\ convert_expr(l.v).k = "sym" => convert_expr(l.v).n # l.n
    BY <1>1, <1>2, <1>4, <1>5, <2>3, LineElsewhere
  <2> HIDE DEF text, l
  <2>5. Keeps(d, m, n, Masm(text, m, pos, d, {}),
              Nasm(n, [k |-> form, n |-> l.n, v |-> convert_expr(l.v)], d))
    BY <2>1, <2>4, ConstantLine
  <2>6. Keeps(d, m, n, Masm(src.text, m, pos, d, {}), Nasm(n, x, d))
    BY <2>5 DEF text, l
  <2> HIDE DEF x
  <2>7. QED
    BY <1>6, <1>7, <2>6, KeepsStepped
<1> HIDE DEF x, e
<1>8. /\ Line.k \notin {"comment", "macro", "segment", "ends"} /\ x.k \notin {"if", "endif"}
      /\ x.k \in {"define", "assign", "equ"} => Line.k \in {"equ", "assign"} /\ Line.n = x.n
  BY <1>1, <1>3
<1>9. QED
  BY <1>1, <1>3, <1>6, <1>7, <1>8, EmitStep

LEMMA DatumStep ==
  ASSUME Typed, OffsetsElsewhere(src.text), Body, Datum
  PROVE  Body'
<1> DEFINE x == [k |-> "db", n |-> Line.n, v |-> convert_expr(Line.v)]
<1>1. Reading /\ block = "none" /\ Line.k = "db" /\ Emit(<<x>>)
  BY DEF Datum, Code
<1>2. Line.n \in Names \cup {NoName} /\ Line.v \in Operands /\ convert_expr(Line.v) \in Converted
  BY <1>1, MadeTyped, ConvertTyped
<1>3. x \in Outputs /\ x.k = "db"
  BY <1>2 DEF Outputs
<1>4. /\ Here \in Wheres /\ Here.block = "none" /\ Line = src.text[pos]
  BY <1>1, HereFacts
<1>5. Behind(Here, Line) = Here
  BY <1>1, <1>4 DEF Behind
<1>6. ASSUME NEW d \in Builds, NEW m, NEW n, Ready(d, m, n) PROVE Stepped(d, m, n, x)
  <2>2. Meets(d, m, n, Line)
    BY <1>1, <1>6, PlacedAlike
  <2> DEFINE text == src.text
             l == Line
  <2>3. /\ l = text[pos] /\ l.k = "db" /\ l.n \in Names \cup {NoName} /\ l.v \in Operands
        /\ Meets(d, m, n, l) /\ Elsewhere(text, l.v)
    BY <1>1, <1>2, <1>4, <2>2, LineElsewhere
  <2> HIDE DEF text, l
  <2>4. Keeps(d, m, n, Masm(text, m, pos, d, {}),
              Nasm(n, [k |-> "db", n |-> l.n, v |-> convert_expr(l.v)], d))
    BY <2>3, DatumLine
  <2>5. Keeps(d, m, n, Masm(src.text, m, pos, d, {}), Nasm(n, x, d))
    BY <2>4 DEF text, l
  <2> HIDE DEF x
  <2>6. QED
    BY <1>5, <1>6, <2>5, KeepsStepped
<1> HIDE DEF x
<1>7. QED
  BY <1>1, <1>3, <1>5, <1>6, EmitStep

LEMMA Ins86Step ==
  ASSUME Typed, Body, Ins86
  PROVE  Body'
<1> DEFINE x == [k |-> "db", n |-> NoName, v |-> Num(Line.d, "O")]
<1>1. Reading /\ block = "none" /\ Line.k = "ins86" /\ Emit(<<x>>)
  BY DEF Ins86, Code
<1>2. Line.d \in Nat /\ Num(Line.d, "O") \in Converted
  BY <1>1, MadeTyped DEF Num, Operands, Converted
<1>3. x \in Outputs /\ x.k = "db"
  BY <1>2 DEF Outputs
<1>4. /\ Here \in Wheres /\ Here.block = "none" /\ Line = src.text[pos]
  BY <1>1, HereFacts
<1>5. Behind(Here, Line) = Here
  BY <1>1, <1>4 DEF Behind
<1>6. ASSUME NEW d \in Builds, NEW m, NEW n, Ready(d, m, n) PROVE Stepped(d, m, n, x)
  <2> DEFINE text == src.text
             l == Line
  <2>1. Meets(d, m, n, l) /\ l = text[pos] /\ l.k = "ins86" /\ l.d \in Nat
    BY <1>1, <1>2, <1>4, <1>6, PlacedAlike
  <2> HIDE DEF text, l
  <2>2. Keeps(d, m, n, Masm(text, m, pos, d, {}), Nasm(n, [k |-> "db", n |-> NoName, v |-> Num(l.d, "O")], d))
    BY <2>1, Ins86Line
  <2>3. Keeps(d, m, n, Masm(src.text, m, pos, d, {}), Nasm(n, x, d))
    BY <2>2 DEF text, l
  <2> HIDE DEF x
  <2>4. QED
    BY <1>5, <1>6, <2>3, KeepsStepped
<1> HIDE DEF x
<1>7. QED
  BY <1>1, <1>3, <1>5, <1>6, EmitStep

LEMMA ProcedureStep ==
  ASSUME Typed, pc = "convert", Body, Procedure
  PROVE  Body'
<1> DEFINE x == [k |-> "label", n |-> Line.n]
<1>1. /\ Reading /\ block = "none"
      /\ (Line.k = "proc" /\ Emit(<<x>>)) \/ (Line.k = "endp" /\ Emit(<<>>))
  BY DEF Procedure, Code
<1>2. CASE Line.k = "endp" /\ Emit(<<>>)
  BY <1>1, <1>2, NothingStep
<1>3. CASE Line.k = "proc" /\ Emit(<<x>>)
  <2>1. x \in Outputs /\ x.k = "label" /\ Line.n \in Names
    BY <1>1, <1>3, MadeTyped DEF Outputs
  <2>2. /\ Here \in Wheres /\ Here.block = "none" /\ Line = src.text[pos]
    BY <1>1, HereFacts
  <2>3. Behind(Here, Line) = Here
    BY <1>3, <2>2 DEF Behind
  <2>4. ASSUME NEW d \in Builds, NEW m, NEW n, Ready(d, m, n) PROVE Stepped(d, m, n, x)
    <3> DEFINE text == src.text
               l == Line
    <3>1. Meets(d, m, n, l) /\ l = text[pos] /\ l.k = "proc" /\ l.n \in Names
      BY <1>1, <1>3, <2>1, <2>2, <2>4, PlacedAlike
    <3> HIDE DEF text, l
    <3>2. Keeps(d, m, n, Masm(text, m, pos, d, {}), Nasm(n, [k |-> "label", n |-> l.n], d))
      BY <3>1, ProcedureLine
    <3>3. Keeps(d, m, n, Masm(src.text, m, pos, d, {}), Nasm(n, x, d))
      BY <3>2 DEF text, l
    <3> HIDE DEF x
    <3>4. QED
      BY <2>3, <2>4, <3>3, KeepsStepped
  <2> HIDE DEF x
  <2>5. QED
    BY <1>1, <1>3, <2>1, <2>3, <2>4, EmitStep
<1>4. QED
  BY <1>1, <1>2, <1>3

LEMMA ReturnStep ==
  ASSUME Typed, NoFarReturns(src.text), Body, Return
  PROVE  Body'
<1> DEFINE x == [k |-> "ret"]
<1>1. Reading /\ block = "none" /\ Line.k = "ret" /\ Emit(<<x>>)
  BY DEF Return, Code
<1>2. x \in Outputs /\ x.k = "ret"
  BY DEF Outputs
<1>3. /\ Here \in Wheres /\ Here.block = "none" /\ Line = src.text[pos]
  BY <1>1, HereFacts
<1>4. Behind(Here, Line) = Here
  BY <1>1, <1>3 DEF Behind
<1>5. ~InFar(src.text, pos)
  BY <1>1, <1>3, LineTyped DEF NoFarReturns
<1>6. ASSUME NEW d \in Builds, NEW m, NEW n, Ready(d, m, n) PROVE Stepped(d, m, n, x)
  <2> DEFINE text == src.text
             l == Line
  <2>1. Meets(d, m, n, l) /\ l = text[pos] /\ l.k = "ret" /\ ~InFar(text, pos)
    BY <1>1, <1>3, <1>5, <1>6, PlacedAlike
  <2> HIDE DEF text, l
  <2>2. Keeps(d, m, n, Masm(text, m, pos, d, {}), Nasm(n, [k |-> "ret"], d))
    BY <2>1, ReturnLine
  <2>3. Keeps(d, m, n, Masm(src.text, m, pos, d, {}), Nasm(n, x, d))
    BY <2>2 DEF text, l
  <2> HIDE DEF x
  <2>4. QED
    BY <1>4, <1>6, <2>3, KeepsStepped
<1> HIDE DEF x
<1>7. QED
  BY <1>1, <1>2, <1>4, <1>6, EmitStep

LEMMA InstructionStep ==
  ASSUME Typed, OffsetsElsewhere(src.text), DeclaredInPlace(src.text), Body, Instruction
  PROVE  Body'
<1> DEFINE e == IF masm_operand_is_data_memory(Line.v) THEN Mem(Line.v.n) ELSE convert_expr(Line.v)
           x == [k |-> "mov", v |-> e]
<1>1. Reading /\ block = "none" /\ Line.k = "mov" /\ Emit(<<x>>)
  BY DEF Instruction, Code
<1>2. Line.v \in Operands /\ convert_expr(Line.v) \in Converted
  BY <1>1, MadeTyped, ConvertTyped
<1>3. x \in Outputs /\ x.k = "mov"
  <2>1. masm_operand_is_data_memory(Line.v) => Line.v.n \in Names
    BY <1>2 DEF masm_operand_is_data_memory, Operands
  <2>2. e \in Converted \cup [k : {"mem"}, n : Names]
    BY <1>2, <2>1 DEF Mem
  <2> HIDE DEF e
  <2>3. QED
    BY <2>2 DEF Outputs
<1>4. /\ Here \in Wheres /\ Here.block = "none" /\ Fits(Here, Line) /\ Line = src.text[pos]
      /\ data = collect_data_symbols(src.text)
  BY <1>1, HereFacts
<1>5. Behind(Here, Line) = Here
  BY <1>1, <1>4 DEF Behind
<1>6. Line.v.k = "sym" => (Line.v.n \in Variables(src.text) <=> Line.v.n \in data)
  <2>1. Line.v.k = "sym" => Line.v.n # NoName
    BY <1>2, NamesAssumption DEF Operands
  <2>2. pos \in DOMAIN src.text
    BY <1>1, LineTyped
  <2>3. QED
    BY <1>1, <1>4, <2>1, <2>2, VariablesFound
<1>7. ASSUME NEW d \in Builds, NEW m, NEW n, Ready(d, m, n) PROVE Stepped(d, m, n, x)
  <2>2. Meets(d, m, n, Line)
    BY <1>1, <1>7, PlacedAlike
  <2> DEFINE text == src.text
             l == Line
  <2>3. /\ l = text[pos] /\ l.k = "mov" /\ l.v \in Operands
        /\ l.v.k = "sym" => (l.v.n \in Variables(text) <=> l.v.n \in data)
        /\ Meets(d, m, n, l) /\ Elsewhere(text, l.v)
    BY <1>1, <1>2, <1>4, <1>6, <2>2, LineElsewhere
  <2> HIDE DEF text, l
  <2>4. Keeps(d, m, n, Masm(text, m, pos, d, {}),
              Nasm(n, [k |-> "mov", v |-> IF masm_operand_is_data_memory(l.v) THEN Mem(l.v.n)
                                          ELSE convert_expr(l.v)], d))
    BY <2>3, InstructionLine
  <2>5. Keeps(d, m, n, Masm(src.text, m, pos, d, {}), Nasm(n, x, d))
    BY <2>4 DEF text, l
  <2> HIDE DEF x
  <2>6. QED
    BY <1>5, <1>7, <2>5, KeepsStepped
<1> HIDE DEF x, e
<1>8. QED
  BY <1>1, <1>3, <1>5, <1>7, EmitStep

------------------------------------------------------------------------------
(* The converter is right                                                    *)

ConvertInv ==
  /\ Typed
  /\ pc = "start" => Unstarted
  /\ pc = "convert" /\ Convertible(src.text) => Body
  /\ SamePlain

LEMMA InitConverts == Init => ConvertInv
<1> SUFFICES ASSUME Init PROVE ConvertInv
  OBVIOUS
<1>1. Typed
  BY InitTyped
<1>2. pc = "start" /\ Unstarted
  BY DEF Init, Unstarted
<1>3. QED
  BY <1>1, <1>2 DEF ConvertInv, SamePlain

\* At the end of the source the images are what both have made by then.
LEMMA WriteStep ==
  ASSUME Typed, Convertible(src.text) => Body, Write
  PROVE  SamePlain'
<1>1. /\ pos > Len(src.text) /\ src' = src /\ plain' = lines
  BY DEF Write
<1>2. Len(src.text) \in Nat /\ src.text \in Seq(SourceLines)
  BY SourceTyped DEF Typed
<1>3. pos - 1 = Len(src.text)
  BY <1>1, <1>2 DEF Typed
<1>4. ASSUME Convertible(src.text), Relied(lines), NEW d \in Builds
      PROVE  Same(d, NasmImage(lines, d),
                  MasmImage(src.text, src.radix, d, {}, [i \in DOMAIN src.text |-> <<>>]))
  <2> DEFINE m == MasmAt(src, pos - 1, d)
             n == NasmTo(lines, d)
  <2>1. Follows(d, m, n, Here, lines, Converter)
    BY <1>4 DEF Body, Following
  <2>2. n.image = NasmImage(lines, d)
    BY DEF NasmTo, NasmImage
  <2>3. m.image = MasmImage(src.text, src.radix, d, {}, [i \in DOMAIN src.text |-> <<>>])
    BY <1>3, Zenon DEF MasmAt, MasmImage
  <2> HIDE DEF m, n
  <2>4. Same(d, n.image, m.image)
    BY <2>1 DEF Follows, Alike
  <2>5. QED
    BY <2>2, <2>3, <2>4
<1>5. Builds' = Builds
  BY <1>1 DEF Builds
<1>6. QED
  BY <1>1, <1>4, <1>5, Zenon DEF SamePlain, Relied

LEMMA NextConverts == ConvertInv /\ [Next]_vars => ConvertInv'
<1> SUFFICES ASSUME ConvertInv, [Next]_vars PROVE ConvertInv'
  OBVIOUS
<1>1. Typed /\ Typed'
  BY NextTyped DEF ConvertInv
<1>2. CASE Start
  <2>1. pc = "start" /\ pc' = "convert"
    BY <1>2 DEF Start
  <2>2. Body'
    BY <1>1, <1>2, <2>1, StartStep DEF ConvertInv
  <2>3. QED
    BY <1>1, <2>1, <2>2 DEF ConvertInv, SamePlain
<1>3. CASE Write
  <2>1. pc = "convert" /\ pc' = "patch"
    BY <1>3 DEF Write
  <2>2. SamePlain'
    BY <1>1, <1>3, <2>1, WriteStep DEF ConvertInv
  <2>3. QED
    BY <1>1, <2>1, <2>2 DEF ConvertInv
<1>4. CASE Converting /\ ~Start /\ ~Write
  <2>1. pc = "convert" /\ pc' = "convert"
    BY <1>4 DEF Converting, OpenBlock, InComment, InMacro, Scaffold, Radix, SegmentStarts,
                SegmentEnds, Conditional, Declaration, Assignment, Equate, Datum, Ins86, Procedure,
                Instruction, Return, Code, Reading, Skip, Emit
  <2>2. src' = src
    BY <1>4 DEF Converting, OpenBlock, InComment, InMacro, Scaffold, Radix, SegmentStarts,
                SegmentEnds, Conditional, Declaration, Assignment, Equate, Datum, Ins86, Procedure,
                Instruction, Return, Skip, Emit
  <2>3. CASE ~Convertible(src.text)
    BY <1>1, <2>1, <2>2, <2>3 DEF ConvertInv, SamePlain
  <2>4. CASE Convertible(src.text)
    <3>1. Body /\ OffsetsElsewhere(src.text) /\ DeclaredInPlace(src.text) /\ NoFarReturns(src.text)
      BY <2>1, <2>4 DEF ConvertInv, Convertible
    <3>2. ASSUME OpenBlock \/ InComment \/ InMacro \/ Scaffold \/ Radix PROVE Body'
      BY <1>1, <2>1, <3>1, <3>2, BlockSteps
    <3>3. ASSUME SegmentStarts \/ SegmentEnds PROVE Body'
      BY <1>1, <2>1, <3>1, <3>3, SegmentSteps
    <3>4. ASSUME Conditional PROVE Body'
      BY <1>1, <2>1, <3>1, <3>4, ConditionalStep
    <3>5. ASSUME Declaration PROVE Body'
      BY <1>1, <2>1, <3>1, <3>5, DeclarationStep
    <3>6. ASSUME Assignment \/ Equate PROVE Body'
      BY <1>1, <2>1, <3>1, <3>6, ConstantStep
    <3>7. ASSUME Datum PROVE Body'
      BY <1>1, <2>1, <3>1, <3>7, DatumStep
    <3>8. ASSUME Ins86 PROVE Body'
      BY <1>1, <2>1, <3>1, <3>8, Ins86Step
    <3>9. ASSUME Procedure PROVE Body'
      BY <1>1, <2>1, <3>1, <3>9, ProcedureStep
    <3>10. ASSUME Instruction PROVE Body'
      BY <1>1, <2>1, <3>1, <3>10, InstructionStep
    <3>11. ASSUME Return PROVE Body'
      BY <1>1, <2>1, <3>1, <3>11, ReturnStep
    <3>12. Body'
      BY <1>4, <3>2, <3>3, <3>4, <3>5, <3>6, <3>7, <3>8, <3>9, <3>10, <3>11 DEF Converting
    <3>13. QED
      BY <1>1, <2>1, <3>12 DEF ConvertInv, SamePlain
  <2>5. QED
    BY <2>3, <2>4
<1>5. CASE Apply \/ GiveUp \/ WritePatched \/ PatchAgain
  <2>1. /\ pc \in {"patch", "done"} /\ pc' \in {"patch", "done", "failed"}
        /\ plain' = plain /\ src' = src
    BY <1>5 DEF Apply, GiveUp, WritePatched, PatchAgain
  <2>2. Builds' = Builds
    BY <2>1 DEF Builds
  <2>3. SamePlain'
    BY <2>1, <2>2 DEF ConvertInv, SamePlain
  <2>4. QED
    BY <1>1, <2>1, <2>3 DEF ConvertInv
<1>6. CASE UNCHANGED vars
  <2>1. pc' = pc /\ plain' = plain /\ src' = src /\ Builds' = Builds
    BY <1>6 DEF vars, Builds
  <2>2. SamePlain'
    BY <2>1 DEF ConvertInv, SamePlain
  <2>3. (pc' = "start" => Unstarted') /\ (pc' = "convert" /\ Convertible(src'.text) => Body')
    BY <1>6 DEF ConvertInv, Unstarted, Body, Standing, Following, Here, Converter, Faced, Builds, vars
  <2>4. QED
    BY <1>1, <2>2, <2>3 DEF ConvertInv
<1>7. QED
  BY <1>2, <1>3, <1>4, <1>5, <1>6 DEF Next, Converting

\* convert_file is right: in every build NASM makes of the generated file what MASM makes of the
\* source, whatever the source, if
\*   no OFFSET is taken of a name of the file that is also that of an error or a token (gio86.asm
\*   does so with DSKERR) and no RET stands in a procedure declared FAR (in giodsk.asm one does),
\*   what is a plain operand is declared where pass one looks for it,
\*   no switch of segments is under a condition and no constant is made from one that changes later.
THEOREM ConvertedRight == Spec => []SamePlain
<1>1. Spec => []ConvertInv
  BY InitConverts, NextConverts, PTL DEF Spec
<1>2. ConvertInv => SamePlain
  BY DEF ConvertInv
<1>3. QED
  BY <1>1, <1>2, PTL
=============================================================================
