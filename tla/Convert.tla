------------------------------- MODULE Convert ------------------------------
(* The generated sources of DW-BASIC: dw-basic/tools/masm2nasm.py converts a   *)
(* MASM source line by line, and dw-basic/tools/source_feature_ranges.py then  *)
(* puts named ranges of the result into conditional blocks.  The image NASM    *)
(* makes of the file must be the one MASM makes of the source, in every build. *)
EXTENDS Assemblers

CONSTANTS
  Texts,          \* the sources the makefile may convert
  RangeLists,     \* the --range arguments it may give
  Switches,       \* the names conditions and features are made of
  AbsoluteNames,  \* the constant tables of the converter (is_absolute_name)
  EquNames,       \* DATAS and FORSZC, which other files need as symbols
  EndOfFile,      \* EOF as the end of a range
  All,            \* "all" as the occurrence of a range
  MaxRuns         \* how often the ranges are applied to a file

ASSUME ConvertAssumption ==
  /\ SplitLoad \in Switches /\ Switches \subseteq Names /\ AbsoluteNames \subseteq Names
  /\ ConstantNames \subseteq AbsoluteNames /\ EquNames \subseteq Names \ AbsoluteNames
  /\ EndOfFile \notin Names /\ All \notin Nat /\ MaxRuns \in Nat \ {0}

VARIABLES
  src,        \* the source, its flags and its ranges
  pc,
  pos,        \* the line convert_file is at
  block,      \* in_comment_block, in_macro_block
  radix,      \* CURRENT_RADIX
  segment,    \* CURRENT_SEGMENT
  hasOutput,  \* DSEG_ACTIVE_HAS_OUTPUT
  declared,   \* DECLARED_SEGMENTS
  data,       \* DATA_SYMBOLS
  lines,      \* the output of the converter, then the text the patcher works on
  todo,       \* ranges not applied yet
  disk,       \* the generated file
  plain,      \* the generated file before any range was applied
  runs        \* how often the patcher has run

vars == <<src, pc, pos, block, radix, segment, hasOutput, declared, data,
          lines, todo, disk, plain, runs>>

Segments == {"CSEG", "DSEG"}

-------------------------------------------------------------------------------
(* Pass one: collect_data_symbols                                              *)

\* Whether line i lies in a data segment: the last segment line before it opens one.
InData(text, i) ==
  \E j \in 1 .. i - 1 :
    /\ text[j].k = "segment" /\ text[j].s = "DSEG"
    /\ \A m \in j + 1 .. i - 1 : text[m].k \notin {"segment", "ends"}

\* The names of a data segment: externals that no table lists as constants, and labels of data.
collect_data_symbols(text) ==
  {text[i].n : i \in {i \in DOMAIN text :
     /\ InData(text, i)
     /\ \/ text[i].k = "extrn" /\ text[i].n \notin AbsoluteNames
        \/ text[i].k = "db" /\ text[i].n # NoName}}

-------------------------------------------------------------------------------
(* The sources: texts that MASM assembles                                      *)

Operands == [k : {"num"}, d : Nat, suffix : {"D", "O", "none"}] \cup [k : {"sym"}, n : Names, add : Int]
            \cup [k : {"offset", "since"}, n : Names]

SourceLines ==
  [k : {"segment", "ends"}, s : Segments] \cup [k : {"radix"}, r : {8, 10}]
  \cup [k : {"comment", "delimiter", "macro", "endm", "scaffold", "else", "endif", "endp",
            "ret"}]
  \cup [k : {"if"}, c : Switches, not : BOOLEAN]
  \cup [k : {"public"}, n : Names] \cup [k : {"proc"}, n : Names, far : BOOLEAN]
  \cup [k : {"extrn"}, n : Names, type : {"data", "abs"}]
  \cup [k : {"equ", "assign"}, n : Names, v : Operands]
  \cup [k : {"db"}, n : (Names \ AbsoluteNames) \cup {NoName}, v : Operands]
  \cup [k : {"ins86"}, d : Nat] \cup [k : {"mov"}, v : Operands]

\* Where a line stands: in a comment or a macro, under how many conditions, in which segments.
Outermost == [block |-> "none", depth |-> 0, open |-> <<>>]

Behind(c, l) ==
  CASE c.block # "none" ->
         [c EXCEPT !.block = IF l.k = (IF @ = "comment" THEN "delimiter" ELSE "endm") THEN "none" ELSE @]
    [] c.block = "none" /\ l.k \in {"comment", "macro"} -> [c EXCEPT !.block = l.k]
    [] c.block = "none" /\ l.k = "if"      -> [c EXCEPT !.depth = @ + 1]
    [] c.block = "none" /\ l.k = "endif"   -> [c EXCEPT !.depth = @ - 1]
    [] c.block = "none" /\ l.k = "segment" -> [c EXCEPT !.open = Append(@, l.s)]
    [] c.block = "none" /\ l.k = "ends"    -> [c EXCEPT !.open = Front(@)]
    [] OTHER -> c

Places(text) ==
  LET after[i \in 0 .. Len(text)] == IF i = 0 THEN Outermost ELSE Behind(after[i - 1], text[i])
  IN after

\* Blocks hold no procedures.  Blocks, segments and the radix are not under conditions; a data segment may lie in the code
\* segment; what is placed lies in a segment, and procedures in the code segment.
Fits(c, l) ==
  /\ l.k \in {"segment", "ends", "radix", "comment", "macro"} => c.depth = 0
  /\ l.k \in {"else", "endif"} => c.depth > 0
  /\ l.k = "segment" => c.open = <<>> \/ (c.open = <<"CSEG">> /\ l.s = "DSEG")
  /\ l.k = "ends" => c.open # <<>> /\ Last(c.open) = l.s
  /\ l.k \in {"db", "ins86", "mov", "ret"} => c.open # <<>>
  /\ l.k \in {"proc", "endp"} => c.open = <<"CSEG">>

Assembles(text) ==
  LET at == Places(text)
  IN \A i \in DOMAIN text :
       IF at[i - 1].block = "none" THEN Fits(at[i - 1], text[i]) ELSE text[i].k \notin {"proc", "endp"}

ASSUME TextsAssumption == \A text \in Texts : text \in Seq(SourceLines) /\ Assembles(text)

Ranges == [name : Names, feature : Switches, start : Names, end : Names \cup {EndOfFile},
           occurrence : (Nat \ {0}) \cup {All}, stubs : Seq(Names)]

ASSUME RangesAssumption == RangeLists \subseteq Seq(Ranges)

-------------------------------------------------------------------------------
(* Pass two: convert_file                                                      *)

Init ==
  /\ \E t \in Texts, r \in RangeLists, first \in {8, 10}, conditional \in BOOLEAN :
       src = [text |-> t, ranges |-> r, radix |-> first, conditional |-> conditional]
  /\ pc = "start" /\ pos = 1 /\ block = "none" /\ radix = 10
  /\ segment = "CSEG" /\ hasOutput = FALSE /\ declared = {} /\ data = {}
  /\ lines = <<>> /\ todo = <<>> /\ disk = <<>> /\ plain = <<>> /\ runs = 0

\* The same with every external of a data segment taken for data.
collect_data_symbolsAll(text) ==
  {text[i].n : i \in {i \in DOMAIN text :
     /\ InData(text, i)
     /\ text[i].k = "extrn" \/ (text[i].k = "db" /\ text[i].n # NoName)}}

StartAll ==
  /\ pc = "start" /\ pc' = "convert"
  /\ radix' = src.radix
  /\ data' = collect_data_symbolsAll(src.text)
  /\ UNCHANGED <<src, pos, block, segment, hasOutput, declared, lines, todo, disk, plain, runs>>

Start ==
  /\ pc = "start" /\ pc' = "convert"
  /\ radix' = src.radix
  /\ data' = collect_data_symbols(src.text)
  /\ UNCHANGED <<src, pos, block, segment, hasOutput, declared, lines, todo, disk, plain, runs>>

Reading == pc = "convert" /\ pos <= Len(src.text)
Line == src.text[pos]
Code(kinds) == Reading /\ block = "none" /\ Line.k \in kinds

Skip == Reading /\ pos' = pos + 1
        /\ UNCHANGED <<src, pc, radix, segment, hasOutput, declared, data, lines, todo, disk,
                       plain, runs>>

\* Comment blocks become comments; macro definitions are dropped: their uses are translated.
OpenBlock == Code({"comment", "macro"}) /\ Skip /\ block' = Line.k

InComment == block = "comment" /\ Skip
             /\ block' = IF Line.k = "delimiter" THEN "none" ELSE block

InMacro == block = "macro" /\ Skip /\ block' = IF Line.k = "endm" THEN "none" ELSE block

\* ASSUME, .SALL, PAGE, TITLE, END and an ENDM outside a macro: nothing, or a comment.
Scaffold == Code({"scaffold", "endm"}) /\ Skip /\ UNCHANGED block

Radix ==
  /\ Code({"radix"}) /\ radix' = Line.r /\ pos' = pos + 1
  /\ UNCHANGED <<src, pc, block, segment, hasOutput, declared, data, lines, todo, disk, plain,
                 runs>>

If(c, not)   == [k |-> "if", c |-> c, not |-> not, range |-> NoName]
EndIf        == [k |-> "endif"]
InSplit(s)   == <<If(SplitLoad, FALSE), s, EndIf>>

\* The first time a segment is named, with its class.
split_segment_directive(s) == InSplit([k |-> "segment", s |-> s, class |-> s \notin declared])

Switch(s) == lines' = lines \o split_segment_directive(s) /\ declared' = declared \cup {s}

SegmentStartsKeeps ==
  /\ Code({"segment"}) /\ pos' = pos + 1
  /\ segment' = Line.s
  /\ IF Line.s = "CSEG" /\ src.conditional THEN Switch("CSEG") ELSE UNCHANGED <<lines, declared>>
  /\ UNCHANGED <<src, pc, block, radix, hasOutput, data, todo, disk, plain, runs>>

\* A switch to the data segment is put off until something goes into it.
SegmentStarts ==
  /\ Code({"segment"}) /\ pos' = pos + 1
  /\ segment' = Line.s
  /\ hasOutput' = IF Line.s = "DSEG" THEN FALSE ELSE hasOutput
  /\ IF Line.s = "CSEG" /\ src.conditional THEN Switch("CSEG") ELSE UNCHANGED <<lines, declared>>
  /\ UNCHANGED <<src, pc, block, radix, data, todo, disk, plain, runs>>

SegmentEnds ==
  /\ Code({"ends"}) /\ pos' = pos + 1
  /\ segment' = IF Line.s = "DSEG" THEN "CSEG" ELSE segment
  /\ IF src.conditional /\ Line.s = "DSEG" /\ hasOutput
     THEN Switch("CSEG") ELSE UNCHANGED <<lines, declared>>
  /\ UNCHANGED <<src, pc, block, radix, hasOutput, data, todo, disk, plain, runs>>

\* Lines that put nothing into the segment do not bring on the switch to it.
Deferred == {"extrn", "public", "if", "else", "endif", "equ", "assign"}

Due == src.conditional /\ segment = "DSEG" /\ ~hasOutput /\ Line.k \notin Deferred

SegmentPrefix == IF Due THEN split_segment_directive("DSEG") ELSE <<>>

\* A line that is given out as a text; a line given out as nothing takes the prefix with it.
Emit(text) ==
  /\ lines' = lines \o (IF text = <<>> THEN <<>> ELSE SegmentPrefix \o text)
  /\ hasOutput' = (hasOutput \/ Due)
  /\ declared' = IF Due THEN declared \cup {"DSEG"} ELSE declared
  /\ pos' = pos + 1
  /\ UNCHANGED <<src, pc, block, radix, segment, data, todo, disk, plain, runs>>

\* IF, IFN and IFE, ELSE, ENDIF.
Conditional ==
  /\ Code({"if", "else", "endif"})
  /\ Emit(<<IF Line.k = "if" THEN If(Line.c, Line.not) ELSE [k |-> Line.k]>>)

\* PUBLIC and EXTRN, but for constants, which come from an include file.
Declaration ==
  /\ Code({"public", "extrn"})
  /\ Emit(IF Line.n \in AbsoluteNames THEN <<>>
          ELSE <<[k |-> IF Line.k = "public" THEN "global" ELSE "extern", n |-> Line.n]>>)

\* A numeral in the base in force where it stands.  OFFSET goes, and before the name of an error
\* or a token both become the constant of the include file, whatever the name is in this file.
convert_expr(o) ==
  CASE o.k = "num"    -> [o EXCEPT !.suffix = IF @ = "D" THEN "none"
                                              ELSE IF radix = 8 THEN "O" ELSE @]
    [] o.k = "offset" -> IF o.n \in ConstantNames THEN Const(o.n) ELSE Sym(o.n, 0)
    [] OTHER          -> o

\* The same without the names that are made symbols.
AssignmentNoName ==
  LET e == convert_expr(Line.v)
      form == IF Line.v.k = "since" THEN "equ"
              ELSE IF (e.k = "sym" /\ e.n = Line.n) \/ (e.k = "num" /\ e.suffix = "none")
                   THEN "assign" ELSE "define"
  IN /\ Code({"assign"}) /\ Emit(<<[k |-> form, n |-> Line.n, v |-> e]>>)

\* "=" becomes equ if it measures a distance or the name is to be a symbol, %assign if it is a
\* decimal numeral or names itself, and %define, which is expanded where it is used, otherwise.
Assignment ==
  LET e == convert_expr(Line.v)
      form == IF Line.v.k = "since" \/ Line.n \in EquNames THEN "equ"
              ELSE IF (e.k = "sym" /\ e.n = Line.n) \/ (e.k = "num" /\ e.suffix = "none")
                   THEN "assign" ELSE "define"
  IN /\ Code({"assign"}) /\ Emit(<<[k |-> form, n |-> Line.n, v |-> e]>>)

Equate == Code({"equ"}) /\ Emit(<<[k |-> "equ", n |-> Line.n, v |-> convert_expr(Line.v)]>>)

\* DB and DW, with or without a label.
Datum == Code({"db"}) /\ Emit(<<[k |-> "db", n |-> Line.n, v |-> convert_expr(Line.v)]>>)

\* The bytes of INS86 are octal under any radix.
Ins86 == Code({"ins86"}) /\ Emit(<<[k |-> "db", n |-> NoName, v |-> Num(Line.d, "O")]>>)

\* FAR goes with PROC, and RET stays as it is.
Procedure ==
  \/ Code({"proc"}) /\ Emit(<<[k |-> "label", n |-> Line.n]>>)
  \/ Code({"endp"}) /\ Emit(<<>>)

\* A plain operand that names data is put into brackets.
masm_operand_is_data_memory(o) == o.k = "sym" /\ o.n \in data

Instruction ==
  /\ Code({"mov"})
  /\ Emit(<<[k |-> "mov", v |-> IF masm_operand_is_data_memory(Line.v) THEN Mem(Line.v.n)
                                ELSE convert_expr(Line.v)]>>)

Return == Code({"ret"}) /\ Emit(<<[k |-> "ret"]>>)

\* dst.write_text
Write ==
  /\ pc = "convert" /\ pos > Len(src.text)
  /\ disk' = lines /\ plain' = lines /\ todo' = src.ranges /\ runs' = 1 /\ pc' = "patch"
  /\ UNCHANGED <<src, pos, block, radix, segment, hasOutput, declared, data, lines>>

Converting == \/ Start \/ OpenBlock \/ InComment \/ InMacro \/ Scaffold \/ Radix
              \/ SegmentStarts \/ SegmentEnds \/ Conditional \/ Declaration
              \/ Assignment \/ Equate \/ Datum \/ Ins86 \/ Procedure \/ Instruction
              \/ Return \/ Write

-------------------------------------------------------------------------------
(* source_feature_ranges.py                                                    *)

symbol_line_re(l, n) == l.k \in {"global", "extern", "label", "db", "equ"} /\ l.n = n

\* The first line from one on that declares a name, 0 if there is none.
find_symbol_line(text, n, from) ==
  LET at == {i \in from .. Len(text) : symbol_line_re(text[i], n)}
  IN IF at = {} THEN 0 ELSE CHOOSE i \in at : \A j \in at : i <= j

\* A round of the loop: the range from the next declaration of the start to the next one of the
\* end, the end left out; the end is 0 if that is not declared any more.
Round(text, r, w) ==
  LET s == find_symbol_line(text, r.start, w.start_at)
      e == IF r.end = EndOfFile THEN Len(text) + 1 ELSE find_symbol_line(text, r.end, s + 1)
  IN IF w.ended \/ s = 0 THEN [w EXCEPT !.ended = TRUE]
     ELSE [ranges |-> Append(w.ranges, [from |-> s, end |-> e]), start_at |-> e, ended |-> e = 0]

Rounds(text, r) ==
  LET after[k \in 0 .. Len(text)] ==
        IF k = 0 THEN [ranges |-> <<>>, start_at |-> 1, ended |-> FALSE]
        ELSE Round(text, r, after[k - 1])
  IN after

Stretches(text, r) == Rounds(text, r)[Len(text)].ranges

\* All of them or one; none if the tool gives up.
find_range_occurrences(text, r) ==
  LET all == Stretches(text, r)
      Whole(o) == o.end # 0
  IN IF r.occurrence = All
     THEN IF \A i \in DOMAIN all : Whole(all[i]) THEN all ELSE <<>>
     ELSE IF r.occurrence <= Len(all) /\ Whole(all[r.occurrence])
          THEN <<all[r.occurrence]>> ELSE <<>>

RetStubs(r) == IF r.stubs = <<>> THEN <<>>
               ELSE <<[k |-> "else"]>> \o [i \in DOMAIN r.stubs |-> [k |-> "label", n |-> r.stubs[i]]]
                    \o <<[k |-> "ret"]>>

Wrap(text, r, o) ==
  SubSeq(text, 1, o.from - 1) \o <<[If(r.feature, FALSE) EXCEPT !.range = r.name]>>
    \o SubSeq(text, o.from, o.end - 1) \o RetStubs(r) \o <<EndIf>> \o SubSeq(text, o.end, Len(text))

Marked(text, r) == \E i \in DOMAIN text : text[i].k = "if" /\ text[i].range = r.name

\* The same from the first occurrence to the last.
WrappedForward(text, r, at) ==
  LET wrapped[k \in 0 .. Len(at)] == IF k = 0 THEN text ELSE Wrap(wrapped[k - 1], r, at[k])
  IN wrapped

\* From the last occurrence to the first, so that those before keep their places.
Wrapped(text, r, at) ==
  LET wrapped[k \in 0 .. Len(at)] ==
        IF k = 0 THEN text ELSE Wrap(wrapped[k - 1], r, at[Len(at) + 1 - k])
  IN wrapped

apply_range(text, r) ==
  LET at == find_range_occurrences(text, r)
  IN IF Marked(text, r) THEN text ELSE Wrapped(text, r, at)[Len(at)]

Apply ==
  /\ pc = "patch" /\ todo # <<>>
  /\ Marked(lines, Head(todo)) \/ find_range_occurrences(lines, Head(todo)) # <<>>
  /\ lines' = apply_range(lines, Head(todo)) /\ todo' = Tail(todo)
  /\ UNCHANGED <<src, pc, pos, block, radix, segment, hasOutput, declared, data, disk, plain, runs>>

\* SystemExit: the file stays as it was before this run of the tool.
GiveUp ==
  /\ pc = "patch" /\ todo # <<>>
  /\ ~Marked(lines, Head(todo)) /\ find_range_occurrences(lines, Head(todo)) = <<>>
  /\ pc' = "failed"
  /\ UNCHANGED <<src, pos, block, radix, segment, hasOutput, declared, data, lines, todo, disk,
                 plain, runs>>

WritePatched ==
  /\ pc = "patch" /\ todo = <<>>
  /\ disk' = lines /\ pc' = "done"
  /\ UNCHANGED <<src, pos, block, radix, segment, hasOutput, declared, data, lines, todo, plain, runs>>

\* The tool is run again on a file that has its ranges.
PatchAgain ==
  /\ pc = "done" /\ runs < MaxRuns
  /\ lines' = disk /\ todo' = src.ranges /\ runs' = runs + 1 /\ pc' = "patch"
  /\ UNCHANGED <<src, pos, block, radix, segment, hasOutput, declared, data, disk, plain>>

Next == Converting \/ Apply \/ GiveUp \/ WritePatched \/ PatchAgain

Spec == Init /\ [][Next]_vars

-------------------------------------------------------------------------------
(* What the converter relies on                                                *)

Count(text, k, i, j) == Cardinality({m \in i .. j : text[m].k = k})
Closed(text, i, j) == Count(text, "if", i, j) = Count(text, "endif", i, j)

\* No switch of segments stands in a condition of the source.
SwitchesUnconditional(text) ==
  \A i \in DOMAIN text : text[i].k = "segment" => Closed(text, 1, i - 2)

\* No constant is given the value of a name that is given another value later.
ConstantsSettled(text) ==
  \A i, j \in DOMAIN text :
    i < j /\ text[i].k = "define" /\ text[i].v.k = "sym" /\ text[j].k \in {"define", "assign", "equ"}
      => text[j].n # text[i].v.n

\* No OFFSET is taken of a label or a value of the file that has the name of an error or a token.
OffsetsElsewhere(text) ==
  \A i \in DOMAIN text :
    text[i].k \in {"equ", "assign", "db", "mov"} /\ text[i].v.k = "offset" =>
      text[i].v.n \notin ConstantNames \cap Own(text)

\* A name that is a plain operand has its data in a data segment, and is declared as external
\* data there and nowhere else, unless the tables have it as a constant.
DeclaredInPlace(text) ==
  \A i, j \in DOMAIN text :
    text[i].k = "mov" /\ text[i].v.k = "sym" /\ text[j].k \in {"db", "extrn"} /\ text[j].n = text[i].v.n
      => IF text[j].k = "db" THEN InData(text, j)
         ELSE text[j].type = "data" <=> InData(text, j) /\ text[j].n \notin AbsoluteNames

\* No RET stands in a procedure declared FAR.
NoFarReturns(text) == \A i \in DOMAIN text : text[i].k = "ret" => ~InFar(text, i)

Convertible(text) == OffsetsElsewhere(text) /\ DeclaredInPlace(text) /\ NoFarReturns(text)

\* The PUBLIC names given by "=" are distances or among the names that are made symbols.
PublicsAreSymbols(text) ==
  \A i, j \in DOMAIN text :
    text[i].k = "public" /\ text[j].k = "assign" /\ text[j].n = text[i].n =>
      text[j].v.k = "since" \/ text[j].n \in EquNames

\* Every ELSE and ENDIF of the lines belongs to an IF of them.
WholeConditions(text, i, j) ==
  /\ Closed(text, i, j)
  /\ \A m \in i .. j : text[m].k \in {"else", "endif"} =>
       Count(text, "endif", i, m - 1) < Count(text, "if", i, m - 1)

-------------------------------------------------------------------------------
(* Properties                                                                  *)

TypeOK ==
  /\ src.radix \in {8, 10} /\ src.conditional \in BOOLEAN
  /\ pc \in {"start", "convert", "patch", "done", "failed"}
  /\ pos \in 1 .. Len(src.text) + 1 /\ block \in {"none", "comment", "macro"}
  /\ radix \in {8, 10} /\ segment \in Segments /\ hasOutput \in BOOLEAN
  /\ declared \subseteq Segments /\ data \subseteq Names \ AbsoluteNames
  /\ runs \in 0 .. MaxRuns /\ Len(todo) <= Len(src.ranges)
  /\ \A i \in DOMAIN lines : lines[i].k \in
       {"if", "else", "endif", "segment", "global", "extern", "define", "assign", "equ",
        "db", "mov", "label", "ret"}

\* Builds: without --conditional-segments there is no split build.
Builds == {d \in [Switches -> BOOLEAN] : d[SplitLoad] => src.conditional}

\* The lines of the source that declare a name in the generated file.
Declared(n) ==
  LET at == Places(src.text)
  IN {i \in DOMAIN src.text :
        LET l == src.text[i]
        IN /\ \/ l.k \in {"proc", "db", "equ"}
              \/ l.k = "assign" /\ l.v.k = "since"
              \/ l.k \in {"public", "extrn"} /\ n \notin AbsoluteNames
           /\ l.n = n /\ at[i - 1].block = "none"}

Between(S, i, j) == \E m \in S : i < m /\ m <= j

Ends(r) == IF r.end = EndOfFile THEN {} ELSE Declared(r.end)

\* Where a range opens: where its start is declared, unless it is open.
Openings(r) ==
  LET start == Declared(r.start)
  IN {s \in start : \A t \in start : t < s => Between(Ends(r), t, s)}

\* The lines of a range: it is open there, and the number of times it was opened is the one wanted.
Held(r) ==
  LET start == Declared(r.start)
      end == Ends(r)
      opens == Openings(r)
      Open(i) == \E s \in start : s <= i /\ ~Between(end, s, i)
      Occurrence(i) == Cardinality({s \in opens : s <= i})
  IN {i \in DOMAIN src.text : Open(i) /\ r.occurrence \in {All, Occurrence(i)}}

Off(d) == {m \in DOMAIN src.ranges : ~d[src.ranges[m].feature]}

Dropped(d) == UNION {Held(src.ranges[m]) : m \in Off(d)}

\* The stub of a range goes where it opens.
StubBefore(d) ==
  LET HeadsOf(r) == {<<i, r.stubs>> : i \in Held(r) \cap Openings(r)}
      heads == UNION {HeadsOf(src.ranges[m]) : m \in Off(d)}
  IN [i \in DOMAIN src.text |->
        IF \E h \in heads : h[1] = i THEN (CHOOSE h \in heads : h[1] = i)[2] ELSE <<>>]

\* A range holds whole conditions and no switch of segments, and with a stub it opens in the code
\* segment; no two ranges overlap or meet, and none is looked for where another leaves a stub.
RangesApart ==
  LET ranges == src.ranges
      at == Places(src.text)
      Blocks == UNION {{<<i, o>> : o \in ToSet(find_range_occurrences(plain, ranges[i]))}
                         : i \in DOMAIN ranges}
  IN /\ \A b \in Blocks :
          /\ WholeConditions(plain, b[2].from, b[2].end - 1)
          /\ \A m \in b[2].from .. b[2].end - 1 : plain[m].k # "segment"
     /\ \A b, c \in Blocks :
          b[1] # c[1] => (b[2].from .. b[2].end) \cap (c[2].from .. c[2].end) = {}
     /\ \A i, j \in DOMAIN ranges : i # j =>
          /\ ranges[i].name # ranges[j].name
          /\ {ranges[i].start, ranges[i].end} \cap ToSet(ranges[j].stubs) = {}
     /\ \A i \in DOMAIN ranges : ranges[i].stubs # <<>> =>
          \A s \in Held(ranges[i]) \cap Openings(ranges[i]) : at[s - 1].open = <<"CSEG">>

\* In a flat build the segments are all one.
Same(d, made, meant) == IF d[SplitLoad] THEN made = meant ELSE Flat(made) = Flat(meant)

\* convert_file: before any range is applied, NASM makes of the generated file what MASM makes
\* of the source, in every build: each label, value, return and access to memory is there, in its
\* order, in its segment in a split build, and nothing else.
SamePlain ==
  pc \notin {"start", "convert"} /\ Convertible(src.text)
    /\ SwitchesUnconditional(plain) /\ ConstantsSettled(plain) =>
    \A d \in Builds :
      Same(d, NasmImage(plain, d),
           MasmImage(src.text, src.radix, d, {}, [i \in DOMAIN src.text |-> <<>>]))

\* The patched file: with any features off and any condition true or false, NASM makes of it what
\* MASM makes of the source without the ranges of those features.
SamePatched ==
  pc = "done" /\ Convertible(src.text)
    /\ SwitchesUnconditional(plain) /\ ConstantsSettled(plain) /\ RangesApart =>
    \A d \in Builds :
      Same(d, NasmImage(disk, d), MasmImage(src.text, src.radix, d, Dropped(d), StubBefore(d)))

\* In every build the object file has the symbols for the other files that the source publishes
\* there, but for the constants of the tables, which other files take from the include file.
SameExports ==
  pc \notin {"start", "convert"} /\ PublicsAreSymbols(src.text) =>
    \A d \in Builds :
      LET meant == MasmStates(src.text, src.radix, d, {}, [i \in DOMAIN src.text |-> <<>>])
      IN NasmExports(plain, NasmStates(plain, d)) = MasmExports(src.text, meant) \ AbsoluteNames

\* What SamePlain says, wherever an OFFSET is taken.
SameWithOffsets ==
  pc \notin {"start", "convert"} /\ DeclaredInPlace(src.text) /\ NoFarReturns(src.text)
    /\ SwitchesUnconditional(plain) /\ ConstantsSettled(plain) =>
    \A d \in Builds :
      Same(d, NasmImage(plain, d),
           MasmImage(src.text, src.radix, d, {}, [i \in DOMAIN src.text |-> <<>>]))
=============================================================================
