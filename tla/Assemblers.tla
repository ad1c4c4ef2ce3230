----------------------------- MODULE Assemblers -----------------------------
(* The two assemblers on either side of dw-basic/tools/masm2nasm.py, as far as *)
(* the sources use them.  MASM assembles the reference sources of gw-basic/,   *)
(* NASM the generated ones.  A text is a sequence of lines; what both produce  *)
(* is an image, the sequence of labels, data and instructions placed in the    *)
(* segments.  Numerals are two decimal digits, read in base 8 or 10.           *)
EXTENDS Integers, Sequences, FiniteSets, SequencesExt

CONSTANTS
  Names,     \* labels, variables, constants, names of conditions and ranges
  NoName,    \* for a line without a label
  SplitLoad, \* GW_BASIC_SPLIT_LOAD
  ConstantNames  \* the errors and tokens, for which an include file of NASM has a constant

ASSUME NamesAssumption ==
  NoName \notin Names /\ SplitLoad \in Names /\ ConstantNames \subseteq Names

\* Operands: a numeral with its suffix (D, O or none), a name plus a number, the offset of
\* a name, the contents of a name, the distance from a label to here, a constant of the include
\* file (ERRC_n, TOK_n).
Num(d, suffix)  == [k |-> "num", d |-> d, suffix |-> suffix]
Sym(n, add)     == [k |-> "sym", n |-> n, add |-> add]
Offset(n)       == [k |-> "offset", n |-> n]
Mem(n)          == [k |-> "mem", n |-> n]
Since(n)        == [k |-> "since", n |-> n]
Const(n)        == [k |-> "const", n |-> n]

\* What a name has that is no constant
NoValue == [k |-> "none"]

ValueIn(d, base) == (d \div 10) * base + (d % 10)

-------------------------------------------------------------------------------
(* Common to both: a state of assembly                                         *)

Nothing == [segs |-> <<>>, live |-> <<>>, skip |-> "none", radix |-> 10, classed |-> {},
            val |-> [n \in Names |-> NoValue], at |-> [n \in Names |-> 0],
            count |-> 0, image |-> <<>>]

Starting(radix) == [Nothing EXCEPT !.radix = radix]

Live(st) == st.skip = "none" /\ \A i \in DOMAIN st.live : st.live[i]

Seg(st) == IF st.segs = <<>> THEN "none" ELSE Last(st.segs)

Place(st, what) == [st EXCEPT !.image = Append(@, [seg |-> Seg(st), what |-> what])]

PlaceLabel(st, n) == IF n = NoName THEN st
                     ELSE [Place(st, <<"label", n>>) EXCEPT !.at[n] = st.count]

PlaceCode(st, op, v) == [Place(st, <<op, v>>) EXCEPT !.count = @ + 1]

Plus(v, add) == IF v[1] = "number" THEN <<"number", v[2] + add>> ELSE v

\* What an operand stands for here, given what the names stand for: a number, a constant of
\* another file, or the address of a name that is no constant.
ValueBy(stands, st, o) ==
  CASE o.k = "num"   -> <<"number", ValueIn(o.d, CASE o.suffix = "D" -> 10 [] o.suffix = "O" -> 8
                                                   [] OTHER -> st.radix)>>
    [] o.k = "since" -> <<"number", st.count - st.at[o.n]>>
    [] o.k = "is"    -> o.v
    [] o.k = "const" -> <<"constant", o.n>>
    [] o.k = "sym"   -> Plus(stands[o.n], o.add)
    [] OTHER         -> stands[o.n]

\* A name stands for what its value does.
Stands(st) ==
  LET stands[n \in Names] ==
        IF st.val[n] = NoValue THEN <<"address", n>> ELSE ValueBy(stands, st, st.val[n])
  IN stands

Value(st, o) == ValueBy(Stands(st), st, o)

\* A constant that has its value once and for all.
Eager(st, n, o) == [st EXCEPT !.val[n] = [k |-> "is", v |-> Value(st, o)]]

Branch(st, l, defs) ==
  CASE l.k = "if"    -> [st EXCEPT !.live = Append(@, defs[l.c] # l.not)]
    [] l.k = "else"  -> [st EXCEPT !.live[Len(st.live)] = ~@]
    [] l.k = "endif" -> [st EXCEPT !.live = Front(@)]

-------------------------------------------------------------------------------
(* MASM                                                                        *)

\* The names whose plain use as an operand means their contents: variables with data, and
\* externals of a data type.
Variables(text) == {text[i].n : i \in {i \in DOMAIN text :
                       text[i].k = "db" \/ (text[i].k = "extrn" /\ text[i].type = "data")}}

\* The names the file itself gives a place or a value.
Own(text) == {text[i].n : i \in {i \in DOMAIN text : text[i].k \in {"proc", "db", "equ", "assign"}}}

\* The OFFSET of an error or a token is its number, unless the name is the file's own.
Referred(text, o) == IF o.k = "offset" /\ o.n \in ConstantNames \ Own(text) THEN Const(o.n) ELSE o

\* Whether line i is in a procedure declared FAR, where RET returns to another segment.
InFar(text, i) ==
  \E j \in 1 .. i - 1 :
    /\ text[j].k = "proc" /\ text[j].far
    /\ \A m \in j + 1 .. i - 1 : text[m].k \notin {"proc", "endp"}

\* Segments nest, the radix holds until it is changed, "=" gives a value at once, macro
\* definitions and comment blocks produce nothing.  The lines in dropped neither place nor
\* define anything.
Masm(text, st, i, defs, dropped) ==
  LET l == text[i]
      Into(new) == IF i \in dropped THEN st ELSE new
  IN CASE st.skip = "comment" -> [st EXCEPT !.skip = IF l.k = "delimiter" THEN "none" ELSE @]
       [] st.skip = "macro"   -> [st EXCEPT !.skip = IF l.k = "endm" THEN "none" ELSE @]
       [] st.skip = "none" /\ l.k \in {"if", "else", "endif"} -> Branch(st, l, defs)
       [] st.skip = "none" /\ l.k \notin {"if", "else", "endif"} ->
            IF ~Live(st) THEN st
            ELSE CASE l.k = "segment" -> [st EXCEPT !.segs = Append(@, l.s)]
                   [] l.k = "ends"    -> [st EXCEPT !.segs = Front(@)]
                   [] l.k = "radix"   -> [st EXCEPT !.radix = l.r]
                   [] l.k \in {"comment", "macro"} -> [st EXCEPT !.skip = l.k]
                   [] l.k \in {"assign", "equ"} -> Into(Eager(st, l.n, Referred(text, l.v)))
                   [] l.k = "proc"    -> Into(PlaceLabel(st, l.n))
                   [] l.k = "db"      ->
                        Into(PlaceCode(PlaceLabel(st, l.n), "db", Value(st, Referred(text, l.v))))
                   [] l.k = "ret"     ->
                        Into(PlaceCode(st, IF InFar(text, i) THEN "retf" ELSE "ret", <<>>))
                   [] l.k = "ins86"   -> Into(PlaceCode(st, "db", <<"number", ValueIn(l.d, 8)>>))
                   [] l.k = "mov"     ->
                        Into(PlaceCode(st, "mov",
                               IF l.v.k = "sym" /\ l.v.n \in Variables(text) THEN <<"contents", l.v.n>>
                               ELSE Value(st, Referred(text, l.v))))
                   [] OTHER -> st

\* A routine that only returns, under each of the names.
Labelled(st, names) ==
  LET after[i \in 0 .. Len(names)] == IF i = 0 THEN st ELSE PlaceLabel(after[i - 1], names[i])
  IN after

Stub(st, names) ==
  IF names = <<>> \/ ~Live(st) THEN st
  ELSE PlaceCode(Labelled(st, names)[Len(names)], "ret", <<>>)

\* The states of an assembly that starts with a radix, after each line; without the lines in
\* dropped, and with a stub for stubs[i] before line i.
MasmStates(text, radix, defs, dropped, stubs) ==
  LET after[i \in 0 .. Len(text)] ==
        IF i = 0 THEN Starting(radix)
        ELSE Masm(text, Stub(after[i - 1], stubs[i]), i, defs, dropped)
  IN after

MasmImage(text, radix, defs, dropped, stubs) ==
  MasmStates(text, radix, defs, dropped, stubs)[Len(text)].image

\* The PUBLIC names the file gives a place or a value in this build.
MasmExports(text, st) ==
  {n \in {text[i].n : i \in {i \in DOMAIN text : text[i].k = "public"}} :
     /\ \E i \in DOMAIN text : text[i] = [k |-> "public", n |-> n] /\ Live(st[i - 1])
     /\ \E i \in DOMAIN text :
          text[i].k \in {"proc", "db", "equ", "assign"} /\ text[i].n = n /\ Live(st[i - 1])}

-------------------------------------------------------------------------------
(* NASM                                                                        *)

\* One segment at a time, with its class the first time; "%define" keeps the text of a value,
\* "%assign" and "equ" compute it; only brackets mean contents; numerals are decimal.
Nasm(st, l, defs) ==
  CASE l.k \in {"if", "else", "endif"} -> Branch(st, l, defs)
    [] l.k \notin {"if", "else", "endif"} ->
         IF ~Live(st) THEN st
         ELSE CASE l.k = "segment" ->
                     LET known == IF l.class THEN st.classed \cup {l.s} ELSE st.classed
                     IN [st EXCEPT !.classed = known,
                                   !.segs = <<IF l.s \in known THEN l.s ELSE "unclassed">>]
                [] l.k = "define" -> [st EXCEPT !.val[l.n] = l.v]
                [] l.k \in {"assign", "equ"} -> Eager(st, l.n, l.v)
                [] l.k = "label"  -> PlaceLabel(st, l.n)
                [] l.k = "db"     -> PlaceCode(PlaceLabel(st, l.n), "db", Value(st, l.v))
                [] l.k = "ret"    -> PlaceCode(st, "ret", <<>>)
                [] l.k = "mov"    -> PlaceCode(st, "mov", IF l.v.k = "mem" THEN <<"contents", l.v.n>>
                                                         ELSE Value(st, l.v))
                [] OTHER -> st

NasmStates(text, defs) ==
  LET after[i \in 0 .. Len(text)] ==
        IF i = 0 THEN Nothing ELSE Nasm(after[i - 1], text[i], defs)
  IN after

NasmImage(text, defs) == NasmStates(text, defs)[Len(text)].image

\* The global names that are labels or equ in this build: what the preprocessor alone knows, of
\* %define and %assign, is in no object file.
NasmExports(text, st) ==
  {n \in {text[i].n : i \in {i \in DOMAIN text : text[i].k = "global"}} :
     /\ \E i \in DOMAIN text : text[i] = [k |-> "global", n |-> n] /\ Live(st[i - 1])
     /\ \E i \in DOMAIN text :
          text[i].k \in {"label", "db", "equ"} /\ text[i].n = n /\ Live(st[i - 1])}

\* In a flat build all segments are one.
Flat(image) == [i \in DOMAIN image |-> image[i].what]
=============================================================================
