------------------------- MODULE TraceSessionProofs -------------------------
(***************************************************************************)
(* More about Trace, across sessions that load each other's output: however  *)
(* they follow each other and in whichever order they register segments, a   *)
(* segment outside the banks is read at one place of the file and the names  *)
(* noted at a block mean the byte it begins at; and in the segments that     *)
(* reach their end, what control flow needs is disassembled although loaded  *)
(* blocks are never looked at again.                                         *)
(***************************************************************************)
EXTENDS TraceProofs

------------------------------------------------------------------------------
(* Everything that is to be picked is                                        *)

\* A member of the set is at one of the positions.
LEMMA NthOnto ==
  ASSUME NEW n \in Nat, NEW K \in SUBSET (1 .. n), NEW i \in K
  PROVE  \E k \in 1 .. Cardinality(K) : Nth(K, k) = i
<1> DEFINE Below(x) == {j \in K : j < x}
           k == Cardinality(Below(i)) + 1
<1>1. IsFiniteSet(K) /\ Cardinality(K) \in Nat
  <2>1. IsFiniteSet(1 .. n)
    BY FS_Interval
  <2>2. QED
    BY <2>1, FS_Subset, FS_CardinalityType
<1>2. \A x \in K : Below(x) \in SUBSET (K \ {x}) /\ IsFiniteSet(K \ {x})
                   /\ Cardinality(K \ {x}) = Cardinality(K) - 1
  <2>1. ASSUME NEW x \in K PROVE Below(x) \in SUBSET (K \ {x})
    <3>1. x \in Nat /\ ~ (x < x)
      OBVIOUS
    <3>2. QED
      BY <3>1
  <2>2. QED
    BY <2>1, <1>1, FS_RemoveElement
<1>3. \A x \in K : /\ IsFiniteSet(Below(x)) /\ Cardinality(Below(x)) \in Nat
                   /\ Cardinality(Below(x)) <= Cardinality(K) - 1
  <2>1. ASSUME NEW x \in K
        PROVE  /\ IsFiniteSet(Below(x)) /\ Cardinality(Below(x)) \in Nat
               /\ Cardinality(Below(x)) <= Cardinality(K) - 1
    <3> HIDE DEF Below
    <3>1. IsFiniteSet(Below(x)) /\ Cardinality(Below(x)) <= Cardinality(K \ {x})
      BY <1>2, FS_Subset
    <3>2. QED
      BY <1>2, <3>1, FS_CardinalityType
  <2> HIDE DEF Below
  <2>2. QED
    BY <2>1
<1>4. \A x, y \in K : x < y => Cardinality(Below(x)) < Cardinality(Below(y))
  <2>1. SUFFICES ASSUME NEW x \in K, NEW y \in K, x < y
                 PROVE  Cardinality(Below(x)) < Cardinality(Below(y))
    OBVIOUS
  <2>2. x \in Below(y) /\ x \notin Below(x) /\ Below(x) \subseteq Below(y)
    <3>1. \A z \in K : z \in Nat
      OBVIOUS
    <3>2. \A z \in K : z < x => z < y
      BY <2>1, <3>1
    <3>3. ~ (x < x)
      BY <3>1
    <3>4. QED
      BY <2>1, <3>2, <3>3
  <2> HIDE DEF Below
  <2>3. Below(x) \in SUBSET (Below(y) \ {x}) /\ IsFiniteSet(Below(y))
    BY <1>3, <2>2
  <2>4. Cardinality(Below(y) \ {x}) = Cardinality(Below(y)) - 1 /\ IsFiniteSet(Below(y) \ {x})
    BY <2>2, <2>3, FS_RemoveElement
  <2>5. Cardinality(Below(x)) <= Cardinality(Below(y) \ {x})
    BY <2>3, <2>4, FS_Subset
  <2>6. QED
    BY <1>3, <2>4, <2>5
<1>5. k \in 1 .. Cardinality(K) /\ Cardinality(Below(i)) = k - 1
  <2> HIDE DEF Below
  <2>1. QED
    BY <1>1, <1>3
<1>6. Nth(K, k) \in K /\ Cardinality(Below(Nth(K, k))) = k - 1
  BY <1>5, NthExists
<1>7. Nth(K, k) = i
  <2> HIDE DEF Below, k
  <2>1. \A x, y \in K : x < y \/ y < x \/ x = y
    <3>1. \A x, y \in Nat : x < y \/ y < x \/ x = y
      OBVIOUS
    <3>2. QED
      BY <3>1
  <2>2. \A x, y \in K : Cardinality(Below(x)) = Cardinality(Below(y)) => x = y
    <3>1. \A x \in K : Cardinality(Below(x)) \in Nat
      BY <1>3
    <3>2. QED
      BY <1>4, <2>1, <3>1
  <2>3. QED
    BY <1>5, <1>6, <2>2
<1>8. QED
  BY <1>5, <1>7

\* What is picked from a sequence are all its elements at the indices.
LEMMA PickedAll ==
  ASSUME NEW S, NEW list \in Seq(S), NEW K \in SUBSET DOMAIN list, NEW i \in K
  PROVE  \E k \in DOMAIN Picked(list, K) : Picked(list, K)[k] = list[i]
<1>1. Len(list) \in Nat /\ K \in SUBSET (1 .. Len(list))
  OBVIOUS
<1>2. PICK k \in 1 .. Cardinality(K) : Nth(K, k) = i
  BY <1>1, NthOnto
<1>3. DOMAIN Picked(list, K) = 1 .. Cardinality(K) /\ Picked(list, K)[k] = list[Nth(K, k)]
  BY DEF Picked
<1>4. QED
  BY <1>2, <1>3

\* A trace file holds each block that has instructions and its place in BLOCKS.
LEMMA PrintedAll ==
  ASSUME blocks \in Seq(BlockSet), NEW i \in DOMAIN blocks, blocks[i].insns # {},
         InBLOCKS(blocks, i)
  PROVE  /\ Printed(blocks) \in Seq(BlockSet)
         /\ \E k \in DOMAIN Printed(blocks) : Printed(blocks)[k] = blocks[i]
<1> DEFINE K == {n \in DOMAIN blocks : blocks[n].insns # {} /\ InBLOCKS(blocks, n)}
<1>1. i \in K /\ K \in SUBSET DOMAIN blocks /\ Printed(blocks) = Picked(blocks, K)
  BY DEF Printed
<1> HIDE DEF K
<1>2. QED
  BY <1>1, PickedInOrder, PickedAll

\* A session keeps each of those whose segment it can register.
LEMMA LoadedAll ==
  ASSUME NEW file \in Seq(BlockSet), NEW table, NEW i \in DOMAIN file, table[file[i].seg].max > 0
  PROVE  \E k \in DOMAIN Loadable(table, file) : Loadable(table, file)[k] = file[i]
<1> DEFINE L == {n \in DOMAIN file : table[file[n].seg].max > 0}
<1>1. i \in L /\ L \in SUBSET DOMAIN file /\ Loadable(table, file) = Picked(file, L)
  BY DEF Loadable
<1> HIDE DEF L
<1>2. QED
  BY <1>1, PickedAll

\* And nothing else.
LEMMA LoadedOnly ==
  ASSUME blocks \in Seq(BlockSet), NEW table
  PROVE  /\ Printed(blocks) \in Seq(BlockSet)
         /\ \A k \in DOMAIN Loadable(table, Printed(blocks)) :
              /\ \E m \in DOMAIN blocks : Loadable(table, Printed(blocks))[k] = blocks[m]
              /\ table[Loadable(table, Printed(blocks))[k].seg].max > 0
<1> DEFINE file == Printed(blocks)
           kept == Loadable(table, file)
           K == {n \in DOMAIN blocks : blocks[n].insns # {} /\ InBLOCKS(blocks, n)}
           L == {n \in DOMAIN file : table[file[n].seg].max > 0}
<1>1. file = Picked(blocks, K) /\ K \in SUBSET DOMAIN blocks
  BY DEF Printed
<1>2. kept = Picked(file, L) /\ L \in SUBSET DOMAIN file
  BY DEF Loadable
<1>3. \A n \in L : table[file[n].seg].max > 0
  OBVIOUS
<1> HIDE DEF file, kept, K, L
<1>4. file \in Seq(BlockSet) /\ \A k \in DOMAIN file : \E m \in DOMAIN blocks : file[k] = blocks[m]
  BY <1>1, PickedInOrder
<1>5. \A k \in DOMAIN kept : \E m \in L : kept[k] = file[m]
  BY <1>2, <1>4, PickedInOrder
<1>6. \A k \in DOMAIN kept : /\ \E m \in DOMAIN blocks : kept[k] = blocks[m]
                             /\ table[kept[k].seg].max > 0
  BY <1>2, <1>3, <1>4, <1>5
<1>7. QED
  BY <1>4, <1>6 DEF file, kept

------------------------------------------------------------------------------
(* Where segments lie                                                        *)

\* What a bank window holds, and what begins in the reach of what it holds, is banked once it
\* is named.
LEMMA BankedCloses ==
  ASSUME NEW names, NEW s \in names, s \in Seg, Profile[s].max = 0,
         \/ \E e \in Seg : Profile[e].base # Para[e] /\ Behind(s, e, Profile[e].max)
         \/ \E e \in Banked(names) : Behind(s, e, Cap)
  PROVE  s \in Banked(names)
<1>1. \A B \in Windows(names) : s \in B
  <2>1. SUFFICES ASSUME NEW B \in Windows(names) PROVE s \in B
    OBVIOUS
  <2>2. \A e \in Banked(names) : e \in B
    BY DEF Banked
  <2>3. QED
    BY <2>2 DEF Windows
<1>2. QED
  BY <1>1 DEF Banked

\* And stays banked when more are named.
LEMMA BankedGrows ==
  ASSUME NEW names, NEW more, names \subseteq more
  PROVE  Banked(names) \subseteq Banked(more)
<1>1. Windows(more) \subseteq Windows(names)
  BY DEF Windows
<1>2. QED
  BY <1>1 DEF Banked

\* Where a segment that is named and not banked begins in the file while it is unregistered,
\* or registered without reaching its end: no window that is registered holds it.
LEMMA FileBasesHome ==
  ASSUME SegInv(segs), OneBase(Banked(named)), NEW names, named \subseteq names,
         NEW s \in Seg, s \in names, Profile[s].max = 0, s \notin Banked(names)
  PROVE  FileBases(s) = {Para[s]}
<1>1. SUFFICES ASSUME NEW e \in Banks(s) PROVE FALSE
  BY DEF FileBases
<1>2. /\ e \in Seg /\ segs[e].max > 0 /\ segs[e].base # Para[e]
      /\ Para[e] <= Para[s] /\ Para[s] < Para[e] + segs[e].max
  BY <1>1 DEF Banks
<1>3. /\ Para[s] \in Nat /\ Para[e] \in Nat /\ segs[e].max \in Nat /\ Profile[e].max \in Nat
      /\ Cap \in Nat
  BY <1>2, ProfileFields, SegmentFields, TraceAssumption DEF SegInv
<1>4. CASE Profile[e].max > 0
  <2>1. segs[e] = Profile[e]
    BY <1>2, <1>4 DEF SegInv
  <2>2. Profile[e].base # Para[e] /\ Behind(s, e, Profile[e].max)
    BY <1>2, <2>1 DEF Behind
  <2>3. QED
    BY <1>2, <2>2, BankedCloses
<1>5. CASE Profile[e].max = 0
  <2>1. e \in Banked(named)
    BY <1>2, <1>5 DEF OneBase, HomeBase
  <2>2. e \in Banked(names)
    BY <2>1, BankedGrows
  <2>3. segs[e].max <= Cap
    BY <1>2, <1>5 DEF SegInv, Placed
  <2>4. Behind(s, e, Cap)
    BY <1>2, <1>3, <2>3 DEF Behind
  <2>5. QED
    BY <2>2, <2>4, BankedCloses
<1>6. QED
  BY <1>3, <1>4, <1>5

\* Registering the segment of a far target puts it at its home.
LEMMA RegisterHome ==
  ASSUME SegInv(segs), Reaching(segs, short), ShortOK(short, named),
         covered \in [Seg -> SUBSET Nat], OneBase(Banked(named)), NEW i \in Insn, Register(i)
  PROVE  OneBase(Banked(named))'
<1> DEFINE names == named'
           banked == Banked(names)
<1>1. named \subseteq names /\ Banked(named) \subseteq banked
  <2>1. named \subseteq names
    BY DEF Register
  <2> HIDE DEF names
  <2>2. QED
    BY <2>1, BankedGrows
<1>2. SegInv(segs')
  BY RegisterKeeps DEF SegmentsKept
<1>3. ASSUME NEW s \in Seg, segs'[s].max > 0, s \notin banked
      PROVE  segs'[s].base = HomeBase(s)
  <2>1. CASE segs'[s] = segs[s]
    BY <1>1, <1>3, <2>1 DEF OneBase
  <2>2. CASE segs'[s] # segs[s]
    <3>1. Registers(i)
      BY <2>2 DEF Register
    <3>2. i.seg \in Seg /\ i.seg \in names
      BY <3>1 DEF Register, Registers, Insn
    <3>3. PICK b \in FileBases(i.seg) : segs' = [segs EXCEPT ![i.seg] = AutoEntry(b)]
      BY <3>1 DEF Register
    <3>4. segs \in [Seg -> Segment]
      BY DEF SegInv
    <3>5. s = i.seg
      BY <1>3, <2>2, <3>3, <3>4
    <3>6. segs'[s].base = b
      BY <3>2, <3>3, <3>4, <3>5 DEF AutoEntry
    <3>7. CASE Profile[s].max > 0
      BY <1>2, <1>3, <3>7 DEF SegInv, HomeBase
    <3>8. CASE Profile[s].max = 0
      <4> HIDE DEF names
      <4>1. FileBases(s) = {Para[s]}
        BY <1>1, <1>3, <3>2, <3>5, <3>8, FileBasesHome
      <4>2. b = Para[s]
        BY <3>3, <3>5, <4>1
      <4>3. ~(Profile[s].max > 0)
        BY <3>8
      <4>4. QED
        BY <3>6, <4>2, <4>3 DEF HomeBase
    <3>9. QED
      BY <1>3, <3>7, <3>8, ProfileFields
  <2>3. QED
    BY <2>1, <2>2
<1>4. QED
  BY <1>3 DEF OneBase, HomeBase

\* So do the options and the loaded file.
LEMMA SessionHome ==
  ASSUME NEW seed, NEW list
  PROVE  \A s \in Seg : LoadedSegs(SeededSegs(seed), list)[s].max > 0
                       => LoadedSegs(SeededSegs(seed), list)[s].base = HomeBase(s)
<1> DEFINE table == SeededSegs(seed)
<1>1. \A s \in Seg : table[s].max > 0 => table[s].base = HomeBase(s)
  <2>1. SUFFICES ASSUME NEW s \in Seg, table[s].max > 0 PROVE table[s].base = HomeBase(s)
    OBVIOUS
  <2>2. CASE Profile[s].max > 0
    BY <2>2 DEF SeededSegs, HomeBase
  <2>3. CASE ~(Profile[s].max > 0)
    <3>1. \/ table[s] = [base |-> Para[s], max |-> Cap]
          \/ table[s] = [base |-> 0, max |-> 0]
      BY <2>3 DEF SeededSegs, Unregistered
    <3>2. table[s] # [base |-> 0, max |-> 0]
      BY <2>1
    <3>3. QED
      BY <2>3, <3>1, <3>2 DEF HomeBase
  <2>4. QED
    BY <2>2, <2>3
<1> HIDE DEF table
<1>2. ASSUME NEW s \in Seg, LoadedSegs(table, list)[s].max > 0
      PROVE  LoadedSegs(table, list)[s].base = HomeBase(s)
  <2>1. CASE LoadedSegs(table, list)[s] = table[s]
    BY <1>1, <1>2, <2>1
  <2>2. CASE LoadedSegs(table, list)[s] # table[s]
    <3>1. /\ ~(table[s].max > 0)
          /\ LoadedSegs(table, list)[s] =
               IF Para[s] < RomLen THEN AutoEntry(Para[s]) ELSE Unregistered
      BY <2>2 DEF LoadedSegs
    <3>2. LoadedSegs(table, list)[s] = AutoEntry(Para[s])
      BY <1>2, <3>1 DEF Unregistered
    <3>3. ~(Profile[s].max > 0)
      <4>1. ~(Profile[s].max > 0) \/ table[s] = Profile[s]
        BY DEF SeededSegs, table
      <4>2. QED
        BY <3>1, <4>1
    <3>4. QED
      BY <3>2, <3>3 DEF HomeBase, AutoEntry
  <2>3. QED
    BY <2>1, <2>2
<1>3. QED
  BY <1>2 DEF table

------------------------------------------------------------------------------
(* Names                                                                     *)

\* Fields of a block
LEMMA BlockFields ==
  ASSUME Types, NEW n \in DOMAIN blocks
  PROVE  /\ blocks[n] \in BlockSet /\ blocks[n].seg \in Seg /\ blocks[n].start \in Nat
         /\ \A t \in blocks[n].aliases : t \in Target /\ t[1] \in Seg /\ t[2] \in Nat
<1>1. blocks[n] \in BlockSet
  BY DEF Types
<1>2. \A t \in Target : t[1] \in Seg /\ t[2] \in Nat
  BY TraceAssumption DEF Target, Off
<1>3. \A b \in BlockSet : b.seg \in Seg /\ b.start \in Off /\ b.aliases \in SUBSET Target
  BY DEF BlockSet
<1>4. Off \in SUBSET Nat
  BY TraceAssumption DEF Off
<1>5. QED
  BY <1>1, <1>2, <1>3, <1>4

\* More named segments, fewer promises
LEMMA AliasesStay ==
  ASSUME AliasesAgree(Banked(named)), named \subseteq named', UNCHANGED blocks
  PROVE  AliasesAgree(Banked(named))'
<1>1. Banked(named) \subseteq Banked(named')
  BY BankedGrows
<1>2. Banked(named)' = Banked(named')
  BY DEF Banked, Windows, Behind
<1>3. QED
  BY <1>1, <1>2 DEF AliasesAgree, HomeBase

\* An instruction
LEMMA InstructionNames ==
  ASSUME Inv, OneFileOffset, StepPlain \/ StepBranch \/ StepCall \/ EndJump \/ EndReturn
  PROVE  OneFileOffset'
<1> DEFINE i == Decode(Here)
<1>1. Walking /\ UNCHANGED blocks
  BY DEF StepPlain, StepBranch, StepCall, EndJump, EndReturn, Unchanged
<1>2. i \in Insn
  BY <1>1, WalkingAt DEF Inv
<1>3. OneBase(Banked(named))' /\ named \subseteq named'
  <2>1. /\ SegInv(segs) /\ Reaching(segs, short) /\ ShortOK(short, named)
        /\ covered \in [Seg -> SUBSET Nat] /\ OneBase(Banked(named))
    BY DEF Inv, Types, SegmentsOK, OneFileOffset
  <2>2. CASE UNCHANGED segs /\ UNCHANGED history
    BY <2>1, <2>2 DEF history, OneBase, HomeBase, Banked, Windows, Behind
  <2>3. CASE Register(i)
    <3> HIDE DEF i
    <3>1. QED
      BY <1>2, <2>1, <2>3, RegisterHome DEF Register
  <2>4. QED
    BY <2>2, <2>3 DEF StepPlain, StepBranch, StepCall, EndJump, EndReturn
<1>4. AliasesAgree(Banked(named))'
  BY <1>1, <1>3, AliasesStay DEF OneFileOffset
<1>5. QED
  BY <1>3, <1>4 DEF OneFileOffset

\* The finished block joins the others without a name.
LEMMA StoreNames ==
  ASSUME Inv, OneFileOffset, Store
  PROVE  OneFileOffset'
<1>1. pc = "store" /\ blocks' = Append(blocks, Block) /\ UNCHANGED <<segs, named>>
  BY DEF Store, history
<1>2. Block \in BlockSet /\ Block.aliases = {}
  <2>1. cur \in WalkSet /\ cur.seg \in Seg
    BY <1>1 DEF Inv, Types, CurOK
  <2>2. QED
    BY <2>1 DEF Block, BlockSet, WalkSet
<1>3. blocks \in Seq(BlockSet)
  BY DEF Inv, Types
<1>4. \A n \in DOMAIN blocks' : \/ n \in DOMAIN blocks /\ blocks'[n] = blocks[n]
                                \/ blocks'[n] = Block
  BY <1>1, <1>2, <1>3
<1>5. Banked(named)' = Banked(named)
  BY <1>1 DEF Banked, Windows, Behind
<1>6. OneBase(Banked(named))'
  BY <1>1, <1>5 DEF OneFileOffset, OneBase, HomeBase
<1>7. AliasesAgree(Banked(named))'
  <2>1. \A n \in DOMAIN blocks' : \A t \in blocks'[n].aliases :
          n \in DOMAIN blocks /\ t \in blocks[n].aliases /\ blocks'[n] = blocks[n]
    BY <1>2, <1>4
  <2>2. QED
    BY <1>5, <2>1 DEF OneFileOffset, AliasesAgree, HomeBase
<1>8. QED
  BY <1>6, <1>7 DEF OneFileOffset

\* An alias is noted under the same byte of the file as the block begins at.
LEMMA NoteNames ==
  ASSUME Inv, OneFileOffset, Pop, Wanted(Head(pending)), Note(Head(pending)),
         UNCHANGED <<segs, named>>
  PROVE  OneFileOffset'
<1> DEFINE t == Head(pending)
<1>1. t \in Target
  BY PopElements DEF Inv, Pop
<1> HIDE DEF t
<1>2. t[1] \in Seg /\ t[2] \in Nat /\ segs[t[1]].max > 0
  <2>1. t[1] \in Seg /\ t[2] \in Nat
    BY <1>1, TraceAssumption DEF Target, Off
  <2>2. segs[t[1]].max \in Nat /\ t[2] < segs[t[1]].max
    BY <2>1, SegmentFields DEF Inv, SegmentsOK, SegInv, Wanted, t
  <2>3. QED
    BY <2>1, <2>2
<1>3. PICK banked : banked = Banked(named)
  OBVIOUS
<1>4. OneBase(banked) /\ AliasesAgree(banked)
  BY <1>3 DEF OneFileOffset
<1>5. Banked(named)' = banked
  BY <1>3 DEF Banked, Windows, Behind
<1>6. ASSUME NEW n \in DOMAIN blocks', NEW u \in blocks'[n].aliases
      PROVE  \/ u[1] \in banked \/ blocks'[n].seg \in banked
             \/ HomeBase(u[1]) + u[2] = HomeBase(blocks'[n].seg) + blocks'[n].start
  <2>1. CASE n \in DOMAIN blocks /\ blocks'[n] = blocks[n]
    BY <1>4, <1>6, <2>1 DEF AliasesAgree
  <2>2. CASE ~(n \in DOMAIN blocks /\ blocks'[n] = blocks[n])
    <3>1. PICK s \in Twins(t) :
            blocks' = [m \in DOMAIN blocks |->
                         IF blocks[m].seg = s /\ File(s, blocks[m].start) = File(t[1], t[2])
                         THEN [blocks[m] EXCEPT !.aliases = @ \cup {t}] ELSE blocks[m]]
      BY <1>6, <2>2 DEF Note, t
    <3>2. /\ n \in DOMAIN blocks /\ blocks[n].seg = s
          /\ File(s, blocks[n].start) = File(t[1], t[2])
          /\ blocks'[n] = [blocks[n] EXCEPT !.aliases = @ \cup {t}]
      BY <1>6, <2>2, <3>1
    <3>3. blocks[n] \in BlockSet /\ s \in Seg
      BY <3>2, BlockFields DEF Inv
    <3>4. /\ blocks'[n].seg = s /\ blocks'[n].start = blocks[n].start
          /\ blocks'[n].aliases = blocks[n].aliases \cup {t}
      BY <3>2, <3>3 DEF BlockSet
    <3>5. CASE u \in blocks[n].aliases
      BY <1>4, <3>2, <3>4, <3>5 DEF AliasesAgree
    <3>6. CASE u = t
      <4>1. segs[s].max > 0
        BY <3>2 DEF Inv, BlocksOK
      <4>2. t[1] \in banked \/ segs[t[1]].base = HomeBase(t[1])
        BY <1>2, <1>4 DEF OneBase
      <4>3. s \in banked \/ segs[s].base = HomeBase(s)
        BY <1>4, <3>3, <4>1 DEF OneBase
      <4>4. QED
        BY <3>2, <3>4, <3>6, <4>2, <4>3 DEF File
    <3>7. QED
      BY <1>6, <3>4, <3>5, <3>6
  <2>3. QED
    BY <2>1, <2>2
<1>7. OneBase(Banked(named))'
  BY <1>4, <1>5 DEF OneBase, HomeBase
<1>8. AliasesAgree(Banked(named))'
  BY <1>5, <1>6 DEF AliasesAgree, HomeBase
<1>9. QED
  BY <1>7, <1>8 DEF OneFileOffset

\* A session that begins registers segments at their home, and keeps blocks with their names.
LEMMA StartNames ==
  ASSUME Inv, OneFileOffset, NEW c \in Commands, Start(c)
  PROVE  OneFileOffset'
<1> DEFINE table == LoadedSegs(SeededSegs(c.seed), Printed(blocks))
           kept == Loadable(table, Printed(blocks))
<1>1. segs' = table /\ blocks' = kept /\ UNCHANGED named
  BY DEF Start, history
<1>2. \A s \in Seg : table[s].max > 0 => table[s].base = HomeBase(s)
  BY SessionHome
<1>3. \A n \in DOMAIN kept : \E k \in DOMAIN blocks : kept[n] = blocks[k]
  <2>1. blocks \in Seq(BlockSet)
    BY DEF Inv, Types
  <2>2. QED
    BY <2>1, LoadedOnly
<1> HIDE DEF table, kept
<1>4. Banked(named)' = Banked(named)
  BY <1>1 DEF Banked, Windows, Behind
<1>5. OneBase(Banked(named))'
  BY <1>1, <1>2 DEF OneBase, HomeBase
<1>6. AliasesAgree(Banked(named))'
  BY <1>1, <1>3, <1>4 DEF OneFileOffset, AliasesAgree, HomeBase
<1>7. QED
  BY <1>5, <1>6 DEF OneFileOffset

\* Where a step leaves segments, blocks and what is named alone
LEMMA NamesUnchanged ==
  ASSUME OneFileOffset, UNCHANGED <<segs, blocks, named>>
  PROVE  OneFileOffset'
<1>1. Banked(named)' = Banked(named)
  BY DEF Banked, Windows, Behind
<1>2. OneBase(Banked(named))' /\ AliasesAgree(Banked(named))'
  BY <1>1 DEF OneFileOffset, OneBase, AliasesAgree, HomeBase
<1>3. QED
  BY <1>2 DEF OneFileOffset

\* Before the first session the segments are the profile's.
LEMMA InitNames == Init => OneFileOffset
<1> SUFFICES ASSUME Init PROVE OneFileOffset
  OBVIOUS
<1>1. segs = Profile /\ blocks = <<>>
  BY DEF Init
<1>2. OneBase(Banked(named)) /\ AliasesAgree(Banked(named))
  BY <1>1 DEF OneBase, AliasesAgree, HomeBase
<1>3. QED
  BY <1>2 DEF OneFileOffset

\* With the invariant, each step keeps the names.
LEMMA NextNames == Inv /\ OneFileOffset /\ [Next]_vars => OneFileOffset'
<1> SUFFICES ASSUME Inv, OneFileOffset, [Next]_vars PROVE OneFileOffset'
  OBVIOUS
<1>1. CASE \E c \in Commands : Start(c)
  BY <1>1, StartNames
<1>2. CASE Begin
  BY <1>2, NoteNames DEF Begin, history
<1>3. CASE Dismiss
  BY <1>3, NoteNames DEF Dismiss, history
<1>4. CASE StepPlain \/ StepBranch \/ StepCall \/ EndJump \/ EndReturn
  BY <1>4, InstructionNames
<1>5. CASE EndBefore
  BY <1>5, NamesUnchanged DEF EndBefore, Unchanged, history
<1>6. CASE Store
  BY <1>6, StoreNames
<1>7. CASE Skip
  BY <1>7, NamesUnchanged DEF Skip, history
<1>8. CASE Finish
  BY <1>8, NamesUnchanged DEF Finish, history
<1>9. CASE UNCHANGED vars
  BY <1>9, NamesUnchanged DEF vars
<1>10. QED
  BY <1>1, <1>2, <1>3, <1>4, <1>5, <1>6, <1>7, <1>8, <1>9 DEF Next

------------------------------------------------------------------------------
(* The theorem                                                               *)

\* In whichever order sessions register segments, one that none of the far transfers met so
\* far can have mapped into a bank is read at the same place of the file by all of them, and
\* the names that trace notes for a block all mean the byte it begins at.
THEOREM NamesStay == Spec => []OneFileOffset
  BY InitNames, NextNames, SpecInv, PTL DEF Spec

------------------------------------------------------------------------------
(* What needs no block any more                                              *)

\* An address outside its segment or outside the ROM, in whichever session
OutOfRom(t) ==
  IF Profile[t[1]].max > 0
  THEN t[2] >= Profile[t[1]].max \/ Profile[t[1]].base + t[2] >= RomLen
  ELSE Para[t[1]] + t[2] >= RomLen

\* A stop, or a byte of some block
MetBy(list, t) == t \in Stops \/ \E m \in DOMAIN list : list[m].seg = t[1] /\ t[2] \in Bytes(list[m])

Met(t) == MetBy(blocks, t)

\* What a registered segment that reaches its end or the ROM does not hold is out of it for
\* good.
LEMMA OutForGood ==
  ASSUME SegInv(segs), NEW t \in Target, segs[t[1]].max > 0, ReachesEnd(t[1], segs[t[1]]),
         t[2] >= segs[t[1]].max \/ File(t[1], t[2]) >= RomLen
  PROVE  OutOfRom(t)
<1> DEFINE s == t[1]
           off == t[2]
<1>1. s \in Seg /\ off \in Nat /\ off < Cap
  BY TraceAssumption DEF Target, Off
<1>2. /\ segs[s].base \in Nat /\ segs[s].max \in Nat /\ Para[s] \in Nat
      /\ Profile[s].max \in Nat /\ RomLen \in Nat /\ Cap \in Nat
  BY <1>1, SegmentFields, ProfileFields, TraceAssumption DEF SegInv
<1> HIDE DEF s, off
<1>3. CASE Profile[s].max > 0
  <2>1. segs[s] = Profile[s]
    BY <1>1, <1>3 DEF SegInv
  <2>2. QED
    BY <1>3, <2>1 DEF OutOfRom, File, s, off
<1>4. CASE ~(Profile[s].max > 0)
  <2>1. Placed(s, segs[s]) /\ ReachesEnd(s, segs[s]) /\ segs[s].max > 0
    BY <1>1, <1>2, <1>4 DEF SegInv, s
  <2>2. CASE off >= segs[s].max
    <3>1. Para[s] + segs[s].max >= RomLen
      BY <1>1, <1>2, <2>1, <2>2 DEF ReachesEnd
    <3>2. Para[s] + off >= RomLen
      BY <1>1, <1>2, <2>2, <3>1
    <3>3. QED
      BY <1>4, <3>2 DEF OutOfRom, s, off
  <2>3. CASE File(s, off) >= RomLen /\ off < segs[s].max
    <3>1. segs[s].base + off >= RomLen
      BY <2>3 DEF File
    <3>2. CASE segs[s].base = Para[s]
      BY <1>4, <3>1, <3>2 DEF OutOfRom, s, off
    <3>3. CASE segs[s].base # Para[s]
      <4>1. segs[s].base + segs[s].max <= RomLen
        BY <2>1, <3>3 DEF Placed
      <4>2. QED
        BY <1>1, <1>2, <2>3, <3>1, <4>1
    <3>4. QED
      BY <3>2, <3>3
  <2>4. QED
    BY <1>1, <1>2, <2>2, <2>3 DEF s, off
<1>5. QED
  BY <1>3, <1>4

\* And in each session it needs no block.
LEMMA OutSettled ==
  ASSUME SegInv(segs), NEW t \in Target, OutOfRom(t)
  PROVE  Settled(t)
<1> DEFINE s == t[1]
           off == t[2]
<1>1. s \in Seg /\ off \in Nat /\ off < Cap
  BY TraceAssumption DEF Target, Off
<1>2. /\ segs[s].base \in Nat /\ segs[s].max \in Nat /\ Para[s] \in Nat
      /\ Profile[s].max \in Nat /\ RomLen \in Nat /\ Cap \in Nat
  BY <1>1, SegmentFields, ProfileFields, TraceAssumption DEF SegInv
<1> HIDE DEF s, off
<1>3. SUFFICES ASSUME off < segs[s].max PROVE File(s, off) >= RomLen
  BY DEF Settled, Wanted, s, off
<1>4. CASE Profile[s].max > 0
  <2>1. segs[s] = Profile[s]
    BY <1>1, <1>4 DEF SegInv
  <2>2. off >= Profile[s].max \/ Profile[s].base + off >= RomLen
    BY <1>4 DEF OutOfRom, s, off
  <2>3. QED
    BY <1>1, <1>2, <1>3, <2>1, <2>2 DEF File
<1>5. CASE ~(Profile[s].max > 0)
  <2>1. Para[s] + off >= RomLen
    BY <1>5 DEF OutOfRom, s, off
  <2>2. Based(s, segs[s].base)
    BY <1>1, <1>2, <1>3, <1>5 DEF SegInv, Placed
  <2>3. CASE segs[s].base = Para[s]
    BY <2>1, <2>3 DEF File
  <2>4. CASE segs[s].base # Para[s]
    <3>1. PICK p \in Seg : /\ Profile[p].max > 0 /\ Profile[p].base # Para[p]
                           /\ Para[p] <= Para[s] /\ segs[s].base = Profile[p].base + (Para[s] - Para[p])
      BY <2>2, <2>4 DEF Based
    <3>2. Para[p] <= Profile[p].base
      BY <3>1, ProfileAssumption
    <3>3. Para[p] \in Nat /\ Profile[p].base \in Nat
      BY ProfileFields
    <3>4. QED
      BY <1>1, <1>2, <2>1, <3>1, <3>2, <3>3 DEF File
  <2>5. QED
    BY <2>3, <2>4
<1>6. QED
  BY <1>4, <1>5

\* Neither do a stop and a byte of a block.
LEMMA MetSettled ==
  ASSUME Types, BlocksOK, NEW t, Met(t)
  PROVE  Settled(t) \/ t[1] \in short
<1>1. CASE t \in Stops
  BY <1>1 DEF Settled
<1>2. CASE \E m \in DOMAIN blocks : blocks[m].seg = t[1] /\ t[2] \in Bytes(blocks[m])
  <2>1. t[2] \in covered[t[1]] \/ t[1] \in short
    BY <1>2 DEF BlocksOK
  <2>2. QED
    BY <2>1 DEF Settled, Wanted
<1>3. QED
  BY <1>1, <1>2 DEF Met, MetBy

------------------------------------------------------------------------------
(* The invariant                                                             *)

\* The block in work has an instruction, or has one to come.
CurFilled ==
  /\ pc = "walk" /\ cur.insns = {} => EndReason = "none"
  /\ pc = "store" => cur.insns # {}

\* A block begins at an instruction.
BlocksFilled == \A n \in DOMAIN blocks : blocks[n].start \in Starts(blocks[n])

\* An entry point is met, out of reach, pending or in work, or nothing is said of its segment.
Due(t) == \/ t[1] \in short \/ Met(t) \/ OutOfRom(t)
          \/ segs[t[1]].max > 0 /\ \E n \in DOMAIN pending : pending[n] = t
          \/ pc \in {"walk", "store"} /\ t = <<cur.seg, cur.start>>

CoveredByBlocks ==
  \A s \in Seg : \A off \in covered[s] :
    \E m \in DOMAIN blocks : blocks[m].seg = s /\ off \in Bytes(blocks[m])

\* The walk has come to the end of the last instruction, from the entry point.
WalkShape ==
  pc \in {"walk", "store"} =>
    /\ \A t \in Successors(cur) : segs[t[1]].max > 0
    /\ cur.insns = {} => cur.at = cur.start
    /\ cur.insns # {} => cur.start \in Starts(cur) /\ \E i \in cur.insns : i.addr + i.len = cur.at
    /\ \A i \in cur.insns : i.addr + i.len <= cur.at

StoppedEnds == {"already_covered", "blacklisted"}

\* What made a block stop is met.
EndsMet(list, some) ==
  \A n \in DOMAIN list : list[n].end \in StoppedEnds /\ list[n].seg \notin some
                           => MetBy(list, <<list[n].seg, After(list[n])>>)

StoppedMet ==
  /\ pc = "store" /\ cur.end \in StoppedEnds /\ cur.seg \notin short => Met(<<cur.seg, cur.at>>)
  /\ EndsMet(blocks, short)

AllDue ==
  ~cut => /\ \A n \in DOMAIN blocks : \A t \in Successors(blocks[n]) : Due(t)
          /\ sessions > 0 =>
               \A t \in Seeds : SeededSegs(cmd.seed)[t[1]].max > 0 => Due(t)

Idle == pc = "done" => pending = <<>>

CoverInv == /\ CurFilled /\ BlocksFilled
            /\ CoveredByBlocks /\ WalkShape /\ StoppedMet /\ AllDue /\ Idle

\* Targets of blocks and seeds are addresses.
LEMMA TargetsAreAddresses ==
  ASSUME Types
  PROVE  /\ \A n \in DOMAIN blocks : Successors(blocks[n]) \in SUBSET Target
         /\ Successors(cur) \in SUBSET Target
         /\ Seeds \in SUBSET Target
<1>1. ASSUME NEW b, b.branches \in Seq(Target), b.calls \in Seq(Target)
      PROVE  Successors(b) \in SUBSET Target
  BY <1>1 DEF Successors
<1>2. \A n \in DOMAIN blocks : blocks[n] \in BlockSet
  BY DEF Types
<1>3. \A b \in BlockSet : b.branches \in Seq(Target) /\ b.calls \in Seq(Target)
  BY DEF BlockSet
<1>4. cur.branches \in Seq(Target) /\ cur.calls \in Seq(Target)
  BY DEF Types, WalkSet
<1>5. Seeds \in SUBSET Target
  <2>1. cmd.seed \in Seq(Target) /\ cmd.flags \in SUBSET Flags /\ rom \in Images
    BY DEF Types, Command
  <2>2. DefaultSeeds \in Seq(Target) /\ Tables(cmd.flags, rom) \in Seq(Target)
    BY <2>1, TraceAssumption
  <2>3. DefaultSeeds \o cmd.seed \o Tables(cmd.flags, rom) \in Seq(Target)
    BY <2>1, <2>2
  <2>4. \A list \in Seq(Target) : {list[n] : n \in DOMAIN list} \in SUBSET Target
    OBVIOUS
  <2>5. QED
    BY <2>3, <2>4, Zenon DEF Seeds
<1>6. QED
  BY <1>1, <1>2, <1>3, <1>4, <1>5

\* Where the last instruction of a block ends
LEMMA AfterIs ==
  ASSUME NEW b, NEW at \in Nat, b.insns \in SUBSET [addr : Nat, len : {1, 2}],
         \E i \in b.insns : i.addr + i.len = at, \A i \in b.insns : i.addr + i.len <= at
  PROVE  After(b) = at
<1> DEFINE E == {i.addr + i.len : i \in b.insns}
<1>1. at \in E /\ \A e \in E : e <= at /\ e \in Nat
  OBVIOUS
<1>2. b.insns # {}
  OBVIOUS
<1>3. ASSUME NEW a \in E, \A i \in b.insns : i.addr + i.len <= a
      PROVE  a = at
  <2>1. at <= a
    BY <1>3
  <2>2. QED
    BY <1>1, <2>1
<1> HIDE DEF E
<1>4. After(b) = CHOOSE a \in E : \A i \in b.insns : i.addr + i.len <= a
  BY <1>2 DEF After, E
<1>5. QED
  BY <1>1, <1>3, <1>4, Zenon

\* No two blocks of a segment that reaches its end begin at the same address, so none of them
\* takes the place of another.
LEMMA InOwnPlace ==
  ASSUME Inv, BlocksFilled, NEW m \in DOMAIN blocks, blocks[m].seg \notin short
  PROVE  InBLOCKS(blocks, m)
<1>1. SUFFICES ASSUME NEW n \in DOMAIN blocks, n > m, blocks[n].seg = blocks[m].seg,
                      blocks[n].start = blocks[m].start
               PROVE  FALSE
  BY DEF InBLOCKS
<1>2. blocks[m].start \in Starts(blocks[m]) /\ blocks[m].start \in Starts(blocks[n])
  BY <1>1 DEF BlocksFilled
<1>3. PICK i \in blocks[m].insns : i.addr = blocks[m].start
  BY <1>2 DEF Starts
<1>4. i.addr \in Nat /\ i.len \in {1, 2}
  <2>1. blocks[m] \in BlockSet
    BY DEF Inv, Types
  <2>2. QED
    BY <2>1 DEF BlockSet
<1>5. i.addr \in i.addr .. i.addr + i.len - 1
  BY <1>4
<1>6. blocks[m].start \in Bytes(blocks[m])
  BY <1>3, <1>5 DEF Bytes
<1>7. m < n
  <2>1. DOMAIN blocks \in SUBSET Nat
    BY DEF Inv, Types
  <2>2. QED
    BY <1>1, <2>1
<1>8. QED
  BY <1>1, <1>2, <1>6, <1>7 DEF Inv, NoAddressTwice

\* A session keeps all their blocks if it can register the segment.
LEMMA KeptAll ==
  ASSUME Inv, BlocksFilled, NEW m \in DOMAIN blocks, blocks[m].seg \notin short, NEW table
  PROVE  /\ \E n \in DOMAIN Printed(blocks) : Printed(blocks)[n] = blocks[m]
         /\ table[blocks[m].seg].max > 0 =>
              \E k \in DOMAIN Loadable(table, Printed(blocks)) :
                Loadable(table, Printed(blocks))[k] = blocks[m]
<1> DEFINE file == Printed(blocks)
<1>1. blocks[m].insns # {}
  <2>1. blocks[m].start \in Starts(blocks[m])
    BY DEF BlocksFilled
  <2>2. QED
    BY <2>1 DEF Starts
<1>2. file \in Seq(BlockSet) /\ \E n \in DOMAIN file : file[n] = blocks[m]
  BY <1>1, InOwnPlace, PrintedAll DEF Inv, Types
<1> HIDE DEF file
<1>3. PICK n \in DOMAIN file : file[n] = blocks[m]
  BY <1>2
<1>4. ASSUME table[blocks[m].seg].max > 0
      PROVE  \E k \in DOMAIN Loadable(table, file) : Loadable(table, file)[k] = blocks[m]
  <2>1. table[file[n].seg].max > 0
    BY <1>3, <1>4
  <2>2. \E k \in DOMAIN Loadable(table, file) : Loadable(table, file)[k] = file[n]
    BY <1>2, <2>1, LoadedAll
  <2>3. QED
    BY <1>3, <2>2
<1>5. QED
  BY <1>2, <1>4 DEF file

------------------------------------------------------------------------------
(* The steps of disasm_block                                                 *)

\* Registering a segment covers nothing.
LEMMA RegisterCovers ==
  ASSUME covered \in [Seg -> SUBSET Nat], NEW i \in Insn, Register(i)
  PROVE  \A s \in Seg : covered'[s] \subseteq covered[s]
  BY DEF Register

\* And the target of the instruction then lies in a registered segment.
LEMMA TargetRegistered ==
  ASSUME SegInv(segs), NEW i \in Insn, NEW s \in Seg, Register(i),
         segs'[s].max > 0, NEW n \in DOMAIN TargetOf(s, i)
  PROVE  segs'[TargetOf(s, i)[n][1]].max > 0
<1>1. CASE i.seg = Near
  <2>1. TargetOf(s, i) = <<<<s, i.off>>>>
    BY <1>1 DEF TargetOf
  <2>2. TargetOf(s, i)[n] = <<s, i.off>>
    BY <2>1
  <2>3. QED
    BY <2>2
<1>2. CASE i.seg # Near
  <2>1. Resolvable(i.seg, i.off) /\ TargetOf(s, i) = <<<<i.seg, i.off>>>>
    BY <1>2 DEF TargetOf
  <2>2. TargetOf(s, i)[n] = <<i.seg, i.off>>
    BY <2>1
  <2>3. i.seg \in Seg /\ i.off \in Nat
    BY <1>2, TraceAssumption DEF Insn, Off
  <2>4. segs'[i.seg].max > 0
    <3>1. CASE Known(i.seg, i.off)
      <4>1. segs' = segs /\ segs[i.seg].max \in Nat
        BY <2>3, <3>1, SegmentFields DEF Register, Registers, SegInv
      <4>2. QED
        BY <2>3, <3>1, <4>1 DEF Known
    <3>2. CASE ~Known(i.seg, i.off)
      <4>1. PICK b \in FileBases(i.seg) : b < RomLen /\ segs' = [segs EXCEPT ![i.seg] = AutoEntry(b)]
        BY <1>2, <2>1, <3>2 DEF Register, Registers
      <4>2. segs'[i.seg] = AutoEntry(b)
        BY <2>3, <4>1 DEF SegInv
      <4>3. b \in Nat
        BY <2>3, FileBasesBased
      <4>4. AutoEntry(b).max > 0
        BY <4>1, <4>3, TraceAssumption DEF AutoEntry, Smaller
      <4>5. QED
        BY <4>2, <4>4
    <3>3. QED
      BY <3>1, <3>2
  <2>5. QED
    BY <2>2, <2>4
<1>3. QED
  BY <1>1, <1>2

\* An instruction of the block in work: what it adds to the block
LEMMA StepCovers ==
  ASSUME Inv, CoverInv, Walking, Unchanged, pc' \in {"walk", "store"},
         NEW i \in Insn, NEW branch \in Seq(Target), NEW call \in Seq(Target), NEW e \in Ends,
         cur' = With(i, branch, call, e), e \notin StoppedEnds,
         SegmentsKept, \A s \in Seg : covered'[s] \subseteq covered[s],
         \A n \in DOMAIN branch : segs'[branch[n][1]].max > 0,
         \A n \in DOMAIN call : segs'[call[n][1]].max > 0
  PROVE  CoverInv'
<1>1. /\ pc = "walk" /\ cur.seg \in Seg /\ cur.at \in Nat /\ i.len \in {1, 2}
      /\ cur.insns \in SUBSET [addr : Nat, len : {1, 2}] /\ cur.start \in Nat
  BY WalkingAt, TraceAssumption DEF Walking, Inv, Types, WalkSet, Insn, Off
<1>2. /\ cur'.seg = cur.seg /\ cur'.start = cur.start /\ cur'.at = cur.at + i.len /\ cur'.end = e
      /\ cur'.insns = cur.insns \cup {[addr |-> cur.at, len |-> i.len]}
      /\ cur'.branches = cur.branches \o branch /\ cur'.calls = cur.calls \o call
  BY DEF With
<1>3. UNCHANGED <<blocks, pending, cmd, rom, sessions, cut>>
  BY DEF Unchanged
<1>4. CoveredByBlocks'
  BY <1>3 DEF CoverInv, CoveredByBlocks, Bytes
<1>5. \A t \in Successors(cur') : segs'[t[1]].max > 0
  <2>1. cur.branches \in Seq(Target) /\ cur.calls \in Seq(Target)
    BY DEF Inv, Types, WalkSet
  <2>2. /\ Elements(cur.branches \o branch) = Elements(cur.branches) \cup Elements(branch)
        /\ Elements(cur.calls \o call) = Elements(cur.calls) \cup Elements(call)
    <3>1. \A p, q \in Seq(Target) : Elements(p \o q) = Elements(p) \cup Elements(q)
      BY JoinedElements, Zenon
    <3>2. QED
      BY <2>1, <3>1, Zenon
  <2>3. Successors(cur) = Elements(cur.branches) \cup Elements(cur.calls)
    BY DEF Successors, Elements
  <2>4. Successors(cur') = Elements(cur'.branches) \cup Elements(cur'.calls)
    BY DEF Successors, Elements
  <2>5. \A t \in Successors(cur) : segs'[t[1]].max > 0
    <3>1. \A t \in Successors(cur) : t \in Target /\ segs[t[1]].max > 0
      BY <1>1, TargetsAreAddresses DEF Inv, CoverInv, WalkShape
    <3>2. \A t \in Target : t[1] \in Seg
      BY DEF Target
    <3>3. QED
      BY <3>1, <3>2 DEF SegmentsKept
  <2>6. \A t \in Elements(branch) \cup Elements(call) : segs'[t[1]].max > 0
    BY DEF Elements
  <2>7. \A t \in Successors(cur') : t \in Successors(cur) \/ t \in Elements(branch) \cup Elements(call)
    BY <1>2, <2>2, <2>3, <2>4
  <2>8. QED
    BY <2>5, <2>6, <2>7, Zenon
<1>6. WalkShape'
  <2>1. cur'.insns # {} /\ cur'.start \in Starts(cur')
    <3>1. [addr |-> cur.at, len |-> i.len] \in cur'.insns
      BY <1>2
    <3>2. cur.insns \subseteq cur'.insns
      BY <1>2
    <3>3. cur.start \in Starts(cur) \/ cur.at = cur.start
      BY <1>1 DEF CoverInv, WalkShape
    <3>4. \A j \in cur'.insns : j.addr \in Starts(cur')
      BY DEF Starts
    <3>5. cur.at \in Starts(cur')
      BY <3>1, <3>4
    <3>6. \A a \in Starts(cur) : a \in Starts(cur')
      BY <3>2, <3>4 DEF Starts
    <3>7. QED
      BY <1>2, <3>1, <3>3, <3>5, <3>6
  <2>2. \E j \in cur'.insns : j.addr + j.len = cur'.at
    <3>1. [addr |-> cur.at, len |-> i.len] \in cur'.insns
      BY <1>2
    <3>2. QED
      BY <1>2, <3>1
  <2>3. \A j \in cur'.insns : j.addr + j.len <= cur'.at
    <3>1. \A j \in cur.insns : j.addr + j.len <= cur.at /\ j.addr \in Nat /\ j.len \in Nat
      BY <1>1 DEF CoverInv, WalkShape
    <3>2. \A j \in cur'.insns : j \in cur.insns \/ j = [addr |-> cur.at, len |-> i.len]
      BY <1>2
    <3>3. QED
      BY <1>1, <1>2, <3>1, <3>2
  <2>4. QED
    BY <1>5, <2>1, <2>2, <2>3 DEF WalkShape, Successors, Starts
<1>7. StoppedMet'
  <2>1. EndsMet(blocks', short')
    <3>1. short \subseteq short' /\ EndsMet(blocks, short)
      BY DEF SegmentsKept, CoverInv, StoppedMet
    <3>2. QED
      BY <1>3, <3>1 DEF EndsMet
  <2>2. cur'.end \notin StoppedEnds
    BY <1>2
  <2>3. QED
    BY <2>1, <2>2 DEF StoppedMet
<1>8. \A t \in Target : Due(t) => Due(t)'
  <2>1. \A t \in Target : t[1] \in Seg
    BY DEF Target
  <2>2. QED
    BY <1>1, <1>2, <1>3, <2>1 DEF Due, Met, OutOfRom, SegmentsKept
<1>9. AllDue'
  <2>1. Seeds' = Seeds
    BY <1>3 DEF Seeds
  <2>2. \A n \in DOMAIN blocks : Successors(blocks[n])' = Successors(blocks[n])
    BY <1>3 DEF Successors
  <2>3. QED
    BY <1>3, <1>8, <2>1, <2>2, TargetsAreAddresses DEF Inv, CoverInv, AllDue, SeededSegs
<1>10. Idle' /\ CurFilled' /\ BlocksFilled'
  <2>1. cur'.insns # {}
    BY <1>2
  <2>2. QED
    BY <1>3, <2>1 DEF Idle, CoverInv, CurFilled, BlocksFilled, Starts
<1>11. QED
  BY <1>4, <1>6, <1>7, <1>9, <1>10 DEF CoverInv

\* The five kinds of instruction
LEMMA InstructionCovers ==
  ASSUME Inv, CoverInv, StepPlain \/ StepBranch \/ StepCall \/ EndJump \/ EndReturn
  PROVE  CoverInv'
<1> DEFINE i == Decode(Here)
           near == <<<<cur.seg, i.off>>>>
           target == TargetOf(cur.seg, i)
<1>1. Walking /\ Unchanged /\ pc' \in {"walk", "store"}
  BY DEF StepPlain, StepBranch, StepCall, EndJump, EndReturn, Walking
<1>2. i \in Insn /\ cur.seg \in Seg
  BY <1>1, WalkingAt DEF Inv
<1>3. /\ SegInv(segs) /\ Reaching(segs, short) /\ ShortOK(short, named) /\ SegmentsOK
      /\ covered \in [Seg -> SUBSET Nat] /\ segs[cur.seg].max > 0
  BY <1>1 DEF Inv, Types, CurOK, Walking, SegmentsOK
<1> HIDE DEF i
<1>4. near \in Seq(Target) /\ target \in Seq(Target) /\ <<>> \in Seq(Target)
  <2>1. <<cur.seg, i.off>> \in Target
    BY <1>2 DEF Insn, Target
  <2>2. QED
    BY <1>2, <2>1, TargetOfType
<1>5. UNCHANGED <<segs, covered, named, short>> \/ Register(i)
  BY DEF StepPlain, StepBranch, StepCall, EndJump, EndReturn, i, history
<1>6. SegmentsKept /\ \A s \in Seg : covered'[s] \subseteq covered[s]
  <2>1. CASE UNCHANGED <<segs, covered, named, short>>
    <3>1. SegmentsOK'
      BY <1>3, <2>1, SegmentsStay
    <3>2. QED
      BY <1>3, <2>1, <3>1 DEF SegmentsKept, SegmentsOK
  <2>2. CASE Register(i)
    BY <1>2, <1>3, <2>2, RegisterKeeps, RegisterCovers
  <2>3. QED
    BY <1>5, <2>1, <2>2
<1>7. segs'[cur.seg].max > 0
  BY <1>2, <1>3, <1>6 DEF SegmentsKept
<1>8. \A n \in DOMAIN near : segs'[near[n][1]].max > 0
  BY <1>7
<1>9. Register(i) => \A n \in DOMAIN target : segs'[target[n][1]].max > 0
  BY <1>2, <1>3, <1>7, TargetRegistered
<1> HIDE DEF near, target
<1>10. DOMAIN <<>> = {}
  OBVIOUS
<1>11. \E branch, call \in Seq(Target), e \in Ends \ StoppedEnds :
          /\ cur' = With(i, branch, call, e)
          /\ \A n \in DOMAIN branch : segs'[branch[n][1]].max > 0
          /\ \A n \in DOMAIN call : segs'[call[n][1]].max > 0
  <2>1. {"limit", "jmp", "ret", "indirect"} \in SUBSET (Ends \ StoppedEnds)
    BY DEF Ends, StoppedEnds
  <2>2. CASE StepPlain
    <3>1. cur' = With(i, <<>>, <<>>, "limit")
      BY <2>2 DEF StepPlain, i
    <3>2. QED
      BY <1>4, <1>10, <2>1, <3>1
  <2>3. CASE StepBranch
    <3>1. cur' = With(i, near, <<>>, "limit")
      BY <2>3 DEF StepBranch, i, near
    <3>2. QED
      BY <1>4, <1>8, <1>10, <2>1, <3>1
  <2>4. CASE StepCall
    <3>1. cur' = With(i, <<>>, target, "limit") /\ Register(i)
      BY <2>4 DEF StepCall, i, target
    <3>2. QED
      BY <1>4, <1>9, <1>10, <2>1, <3>1
  <2>5. CASE EndJump
    <3>1. cur' = With(i, target, <<>>, "jmp") /\ Register(i)
      BY <2>5 DEF EndJump, i, target
    <3>2. QED
      BY <1>4, <1>9, <1>10, <2>1, <3>1
  <2>6. CASE EndReturn
    <3>1. cur' = With(i, <<>>, <<>>, i.op) /\ i.op \in {"ret", "indirect"}
      BY <2>6 DEF EndReturn, i
    <3>2. QED
      BY <1>4, <1>10, <2>1, <3>1
  <2>7. QED
    BY <2>2, <2>3, <2>4, <2>5, <2>6
<1>12. QED
  BY <1>1, <1>2, <1>6, <1>11, StepCovers

\* A block that stops before an address: a block covers it, or it is a stop.
LEMMA EndBeforeCovers ==
  ASSUME Inv, CoverInv, EndBefore
  PROVE  CoverInv'
<1>1. /\ pc = "walk" /\ pc' = "store" /\ UNCHANGED <<segs, covered, named, short>>
      /\ UNCHANGED <<rom, pending, blocks, cmd, sessions, cut>>
      /\ cur' = [cur EXCEPT !.end = EndReason] /\ EndReason # "none"
  BY DEF EndBefore, Unchanged, history
<1>2. /\ cur'.seg = cur.seg /\ cur'.start = cur.start /\ cur'.at = cur.at
      /\ cur'.insns = cur.insns /\ cur'.branches = cur.branches /\ cur'.calls = cur.calls
      /\ cur'.end = EndReason
  BY <1>1 DEF Inv, Types, WalkSet
<1>3. CoveredByBlocks' /\ Idle' /\ CurFilled' /\ BlocksFilled'
  BY <1>1, <1>2 DEF CoverInv, CoveredByBlocks, Idle, Bytes, CurFilled, BlocksFilled, Starts
<1>4. WalkShape'
  BY <1>1, <1>2 DEF CoverInv, WalkShape, Successors, Starts
<1>5. StoppedMet'
  <2>1. EndsMet(blocks', short')
    BY <1>1 DEF CoverInv, StoppedMet
  <2>2. EndReason \in StoppedEnds /\ cur.seg \notin short => MetBy(blocks, <<cur.seg, cur.at>>)
    <3>1. CASE cur.at \in cur.seen /\ cur.seg \notin short
      <4>1. cur.seg \in Seg /\ cur.seen = covered[cur.seg]
        BY <1>1, <3>1 DEF Inv, CurOK
      <4>2. QED
        BY <3>1, <4>1 DEF CoverInv, CoveredByBlocks, MetBy
    <3>2. CASE cur.at \notin cur.seen
      BY <3>2 DEF EndReason, StoppedEnds, MetBy
    <3>3. QED
      BY <3>1, <3>2
  <2>3. cur'.end \in StoppedEnds /\ cur'.seg \notin short' => MetBy(blocks', <<cur'.seg, cur'.at>>)
    BY <1>1, <1>2, <2>2
  <2>4. QED
    BY <2>1, <2>3 DEF StoppedMet, Met
<1>6. AllDue'
  <2>1. \A t : Due(t) => Due(t)'
    BY <1>1, <1>2 DEF Due, Met, OutOfRom
  <2>2. Seeds' = Seeds
    BY <1>1 DEF Seeds
  <2>3. \A n \in DOMAIN blocks : Successors(blocks[n])' = Successors(blocks[n])
    BY <1>1 DEF Successors
  <2>4. QED
    BY <1>1, <2>1, <2>2, <2>3 DEF CoverInv, AllDue, SeededSegs
<1>7. QED
  BY <1>3, <1>4, <1>5, <1>6 DEF CoverInv

------------------------------------------------------------------------------
(* The steps of trace                                                        *)

\* An entry point that is popped and in need of no block is met or out of reach, so what is
\* still due stays due.
LEMMA PoppedDue ==
  ASSUME Inv, CoverInv, Pop,
         ~cut => \/ Settled(Head(pending)) /\ UNCHANGED <<pc, cur>>
                 \/ pc' = "walk" /\ cur'.seg = Head(pending)[1] /\ cur'.start = Head(pending)[2],
         UNCHANGED <<rom, segs, covered, cmd, sessions, cut, named, short>>,
         \A t : Met(t) => MetBy(blocks', t),
         NEW t \in Target, ~cut, Due(t)
  PROVE  \/ t[1] \in short \/ MetBy(blocks', t) \/ OutOfRom(t)
         \/ segs'[t[1]].max > 0 /\ \E n \in DOMAIN pending' : pending'[n] = t
         \/ pc' \in {"walk", "store"} /\ t = <<cur'.seg, cur'.start>>
<1> DEFINE h == Head(pending)
<1>1. pc = "next" /\ pending # <<>> /\ pending' = Tail(pending)
  BY DEF Pop
<1>2. /\ h \in Target /\ pending \in Seq(Target) /\ Len(pending) \in Nat \ {0}
      /\ h = pending[1]
      /\ \A n \in DOMAIN pending :
           n # 1 => n - 1 \in DOMAIN pending' /\ pending'[n - 1] = pending[n]
  <2>1. pending \in Seq(Target) /\ Len(pending) \in Nat \ {0}
    BY <1>1 DEF Inv, Types
  <2>2. QED
    BY <1>1, <2>1
<1> HIDE DEF h
<1>3. CASE t[1] \in short \/ Met(t) \/ OutOfRom(t)
  BY <1>3
<1>4. CASE segs[t[1]].max > 0 /\ \E n \in DOMAIN pending : pending[n] = t
  <2>1. PICK n \in DOMAIN pending : pending[n] = t
    BY <1>4
  <2>2. CASE n # 1
    BY <1>2, <1>4, <2>1, <2>2
  <2>3. CASE n = 1 /\ Settled(h)
    <3>1. t = h /\ t[1] \in Seg /\ t[2] \in Nat
      BY <1>2, <2>1, <2>3, TraceAssumption DEF Target, Off
    <3>2. CASE t \in Stops \/ t[2] \in covered[t[1]]
      BY <3>1, <3>2 DEF CoverInv, CoveredByBlocks, Met, MetBy
    <3>3. CASE ~(t \in Stops \/ t[2] \in covered[t[1]] \/ t[1] \in short)
      <4>1. ~(t[2] < segs[t[1]].max) \/ File(t[1], t[2]) >= RomLen
        BY <2>3, <3>1, <3>3 DEF Settled, Wanted
      <4>2. segs[t[1]].max \in Nat /\ SegInv(segs) /\ ReachesEnd(t[1], segs[t[1]])
        BY <3>1, <3>3, SegmentFields DEF Inv, SegmentsOK, Reaching, SegInv
      <4>3. t[2] >= segs[t[1]].max \/ File(t[1], t[2]) >= RomLen
        BY <3>1, <4>1, <4>2
      <4>4. OutOfRom(t)
        BY <1>4, <4>2, <4>3, OutForGood
      <4>5. QED
        BY <4>4
    <3>4. QED
      BY <1>3, <3>2, <3>3
  <2>4. CASE n = 1 /\ ~Settled(h)
    <3>1. pc' = "walk" /\ cur'.seg = h[1] /\ cur'.start = h[2]
      BY <2>4 DEF h
    <3>2. t = h /\ t = <<t[1], t[2]>>
      BY <1>2, <2>1, <2>4 DEF Target
    <3>3. QED
      BY <3>1, <3>2
  <2>5. QED
    BY <2>2, <2>3, <2>4
<1>5. QED
  BY <1>1, <1>3, <1>4 DEF Due

\* An entry point that needs no block
LEMMA SkipCovers ==
  ASSUME Inv, CoverInv, Skip
  PROVE  CoverInv'
<1>1. /\ Pop /\ Settled(Head(pending))
      /\ UNCHANGED <<rom, segs, covered, blocks, cur, pc, cmd, sessions, cut, named, short>>
  BY DEF Skip, Settled, history
<1>2. CoveredByBlocks' /\ Idle' /\ WalkShape' /\ CurFilled' /\ BlocksFilled'
  BY <1>1 DEF CoverInv, CoveredByBlocks, Idle, WalkShape, Bytes, Successors, Starts, Pop,
              CurFilled, BlocksFilled
<1>3. StoppedMet'
  BY <1>1 DEF CoverInv, StoppedMet, Pop
<1>4. AllDue'
  <2>1. \A t \in Target : ~cut /\ Due(t) => Due(t)'
    <3>1. \A t : Met(t) => MetBy(blocks', t)
      BY <1>1 DEF Met
    <3>2. QED
      BY <1>1, <3>1, PoppedDue DEF Due, Met, OutOfRom
  <2>2. Seeds' = Seeds
    BY <1>1 DEF Seeds
  <2>3. \A n \in DOMAIN blocks : Successors(blocks[n])' = Successors(blocks[n])
    BY <1>1 DEF Successors
  <2>4. QED
    BY <1>1, <2>1, <2>2, <2>3, TargetsAreAddresses DEF Inv, CoverInv, AllDue, SeededSegs
<1>5. QED
  BY <1>2, <1>3, <1>4 DEF CoverInv

\* What noting an alias leaves
LEMMA NoteCovers ==
  ASSUME Inv, CoverInv, Pop, Note(Head(pending)), UNCHANGED <<segs, covered, named, short>>
  PROVE  /\ DOMAIN blocks' = DOMAIN blocks
         /\ \A n \in DOMAIN blocks : Successors(blocks'[n]) = Successors(blocks[n])
         /\ \A u : Met(u) => MetBy(blocks', u)
         /\ CoveredByBlocks' /\ BlocksFilled' /\ EndsMet(blocks', short)
<1> DEFINE t == Head(pending)
<1>1. t \in Target
  BY PopElements DEF Inv, Pop
<1>2. /\ DOMAIN blocks' = DOMAIN blocks
      /\ \A n \in DOMAIN blocks :
           /\ blocks'[n].seg = blocks[n].seg /\ blocks'[n].start = blocks[n].start
           /\ blocks'[n].insns = blocks[n].insns /\ blocks'[n].end = blocks[n].end
           /\ blocks'[n].branches = blocks[n].branches /\ blocks'[n].calls = blocks[n].calls
  BY <1>1, NoteKeeps DEF Inv
<1> HIDE DEF t
<1>3. \A n \in DOMAIN blocks : /\ Bytes(blocks'[n]) = Bytes(blocks[n])
                               /\ Starts(blocks'[n]) = Starts(blocks[n])
                               /\ After(blocks'[n]) = After(blocks[n])
                               /\ Successors(blocks'[n]) = Successors(blocks[n])
  <2>1. \A x, y : x.insns = y.insns => Bytes(x) = Bytes(y) /\ Starts(x) = Starts(y)
    BY DEF Bytes, Starts
  <2>2. ASSUME NEW x, NEW y, x.insns = y.insns, x.start = y.start
        PROVE  After(x) = After(y)
    <3> DEFINE Last(I) == CHOOSE a \in {i.addr + i.len : i \in I} : \A i \in I : i.addr + i.len <= a
    <3>1. /\ After(x) = IF x.insns = {} THEN x.start ELSE Last(x.insns)
          /\ After(y) = IF y.insns = {} THEN y.start ELSE Last(y.insns)
      BY Zenon DEF After
    <3> HIDE DEF Last
    <3>2. QED
      BY <2>2, <3>1
  <2>3. ASSUME NEW x, NEW y, x.branches = y.branches, x.calls = y.calls
        PROVE  Successors(x) = Successors(y)
    BY <2>3, Zenon DEF Successors
  <2>4. QED
    BY <1>2, <2>1, <2>2, <2>3, Zenon
<1>4. \A u : Met(u) => MetBy(blocks', u)
  BY <1>2, <1>3 DEF Met, MetBy
<1>5. CoveredByBlocks'
  <2>1. ASSUME NEW s \in Seg, NEW off \in covered'[s]
        PROVE  \E m \in DOMAIN blocks' : blocks'[m].seg = s /\ off \in Bytes(blocks'[m])
    <3>1. PICK m \in DOMAIN blocks : blocks[m].seg = s /\ off \in Bytes(blocks[m])
      BY <2>1 DEF CoverInv, CoveredByBlocks
    <3>2. QED
      BY <1>2, <1>3, <3>1, Zenon
  <2>2. QED
    BY <2>1 DEF CoveredByBlocks, Bytes
<1>6. BlocksFilled'
  <2>1. \A n \in DOMAIN blocks' : blocks'[n].start \in Starts(blocks'[n])
    BY <1>2, <1>3, Zenon DEF CoverInv, BlocksFilled
  <2>2. QED
    BY <2>1 DEF BlocksFilled, Starts
<1>7. ASSUME NEW n \in DOMAIN blocks', blocks'[n].end \in StoppedEnds, blocks'[n].seg \notin short
      PROVE  MetBy(blocks', <<blocks'[n].seg, After(blocks'[n])>>)
  <2>1. MetBy(blocks, <<blocks[n].seg, After(blocks[n])>>)
    BY <1>2, <1>7, Zenon DEF CoverInv, StoppedMet, EndsMet
  <2>2. MetBy(blocks', <<blocks[n].seg, After(blocks[n])>>)
    BY <1>4, <2>1 DEF Met
  <2>3. QED
    BY <1>2, <1>3, <1>7, <2>2, Zenon
<1>8. EndsMet(blocks', short)
  BY <1>7 DEF EndsMet
<1>9. QED
  BY <1>2, <1>3, <1>4, <1>5, <1>6, <1>8

\* What was due stays due when an entry point is taken and its alias noted.
LEMMA NotedDue ==
  ASSUME Inv, CoverInv, Pop, Note(Head(pending)),
         UNCHANGED <<rom, segs, covered, cmd, sessions, cut, named, short>>,
         ~cut => \/ Settled(Head(pending)) /\ UNCHANGED <<pc, cur>>
                 \/ pc' = "walk" /\ cur'.seg = Head(pending)[1] /\ cur'.start = Head(pending)[2]
  PROVE  AllDue'
<1>1. /\ DOMAIN blocks' = DOMAIN blocks
      /\ \A n \in DOMAIN blocks : Successors(blocks'[n]) = Successors(blocks[n])
      /\ \A u : Met(u) => MetBy(blocks', u)
  BY NoteCovers
<1>2. \A u \in Target : ~cut /\ Due(u) => Due(u)'
  <2>1. ASSUME NEW u \in Target, ~cut, Due(u)
        PROVE  \/ u[1] \in short \/ MetBy(blocks', u) \/ OutOfRom(u)
               \/ segs'[u[1]].max > 0 /\ \E n \in DOMAIN pending' : pending'[n] = u
               \/ pc' \in {"walk", "store"} /\ u = <<cur'.seg, cur'.start>>
    BY <1>1, <2>1, PoppedDue
  <2>2. QED
    BY <2>1 DEF Due, Met, OutOfRom
<1>3. Seeds' = Seeds
  BY DEF Seeds
<1>4. \A n \in DOMAIN blocks' : \A u \in Successors(blocks'[n]) :
        n \in DOMAIN blocks /\ u \in Successors(blocks[n]) /\ u \in Target
  BY <1>1, TargetsAreAddresses DEF Inv
<1>5. ASSUME ~cut
      PROVE  \A n \in DOMAIN blocks' : \A u \in Successors(blocks'[n]) : Due(u)'
  BY <1>2, <1>4, <1>5 DEF CoverInv, AllDue
<1>6. ASSUME ~cut, sessions > 0
      PROVE  \A u \in Seeds : SeededSegs(cmd.seed)[u[1]].max > 0 => Due(u)'
  BY <1>2, <1>6, TargetsAreAddresses DEF CoverInv, AllDue, Inv
<1>7. QED
  BY <1>3, <1>5, <1>6 DEF AllDue, Successors, SeededSegs

\* An entry point outside the ROM, or a stop
LEMMA DismissCovers ==
  ASSUME Inv, CoverInv, Dismiss
  PROVE  CoverInv'
<1>1. /\ Pop /\ pc = "next" /\ Settled(Head(pending)) /\ Note(Head(pending))
      /\ UNCHANGED <<rom, segs, covered, cur, pc, cmd, sessions, cut, named, short>>
  BY DEF Dismiss, Pop, Settled, history
<1>2. CoveredByBlocks' /\ BlocksFilled' /\ EndsMet(blocks', short)
  BY <1>1, NoteCovers
<1>3. AllDue'
  BY <1>1, NotedDue
<1>4. WalkShape' /\ Idle' /\ CurFilled'
  BY <1>1 DEF WalkShape, Idle, CurFilled
<1>5. StoppedMet'
  BY <1>1, <1>2 DEF StoppedMet
<1>6. QED
  BY <1>2, <1>3, <1>4, <1>5 DEF CoverInv

\* An entry point whose block begins
LEMMA BeginCovers ==
  ASSUME Inv, CoverInv, Begin
  PROVE  CoverInv'
<1> DEFINE t == Head(pending)
<1>1. /\ Pop /\ pc = "next" /\ pc' = "walk" /\ Note(t)
      /\ Wanted(t) /\ File(t[1], t[2]) < RomLen /\ t \notin Stops
      /\ UNCHANGED <<rom, segs, covered, cmd, sessions, cut, named, short>>
  BY DEF Begin, Pop, history
<1>2. cur' = [seg |-> t[1], start |-> t[2], at |-> t[2], end |-> "limit",
              insns |-> {}, branches |-> <<>>, calls |-> <<>>, aliases |-> {},
              base |-> segs[t[1]].base, seen |-> covered[t[1]], orphan |-> FALSE]
  BY DEF Begin
<1>3. CoveredByBlocks' /\ BlocksFilled' /\ EndsMet(blocks', short)
  BY <1>1, NoteCovers
<1>4. AllDue'
  <2>1. cur'.seg = t[1] /\ cur'.start = t[2]
    BY <1>2
  <2>2. QED
    BY <1>1, <2>1, NotedDue
<1>5. t \in Target
  BY <1>1, PopElements DEF Inv, Pop
<1> HIDE DEF t
<1>6. t[1] \in Seg /\ t[2] \in Nat /\ t = <<t[1], t[2]>>
  BY <1>5, TraceAssumption DEF Target, Off
<1>7. segs[t[1]].base \in Nat
  BY <1>6, SegmentFields DEF Inv, SegmentsOK, SegInv
<1>8. CurFilled'
  <2>1. /\ Here' = File(t[1], t[2])
        /\ cur'.at = t[2] /\ cur'.start = t[2] /\ cur'.seg = t[1] /\ cur'.seen = covered[t[1]]
    BY <1>2 DEF Here, File
  <2>2. ~ (Here' >= RomLen)
    BY <1>1, <1>6, <1>7, <2>1, TraceAssumption DEF File
  <2>3. ~ (cur'.at >= cur'.start + MaxBytes)
    BY <1>6, <2>1, TraceAssumption
  <2>4. cur'.at \notin cur'.seen /\ <<cur'.seg, cur'.at>> \notin Stops
    BY <1>1, <1>6, <2>1 DEF Wanted
  <2>5. EndReason' = "none"
    BY <2>2, <2>3, <2>4 DEF EndReason
  <2>6. QED
    BY <1>1, <2>5 DEF CurFilled
<1>9. WalkShape' /\ Idle'
  <2>1. cur'.insns = {} /\ cur'.at = cur'.start /\ cur'.branches = <<>> /\ cur'.calls = <<>>
    BY <1>2
  <2>2. DOMAIN <<>> = {}
    OBVIOUS
  <2>3. Successors(cur') = {}
    BY <2>1, <2>2 DEF Successors
  <2>4. QED
    BY <1>1, <2>1, <2>3 DEF WalkShape, Idle, Successors, Starts
<1>10. StoppedMet'
  BY <1>1, <1>3 DEF StoppedMet
<1>11. QED
  BY <1>3, <1>4, <1>8, <1>9, <1>10 DEF CoverInv

\* The targets that are not covered become pending.
LEMMA UncoveredAll ==
  ASSUME NEW list \in Seq(Target), NEW t \in Elements(list)
  PROVE  t[2] \in covered'[t[1]] \/ t \in Elements(Uncovered(list))
<1> DEFINE K == {n \in DOMAIN list : list[n][2] \notin covered'[list[n][1]]}
<1>1. K \in SUBSET DOMAIN list /\ Uncovered(list) = Picked(list, K)
  BY DEF Uncovered
<1>2. PICK n \in DOMAIN list : t = list[n]
  BY DEF Elements
<1>3. t[2] \notin covered'[t[1]] => n \in K
  BY <1>2
<1> HIDE DEF K
<1>4. n \in K => \E k \in DOMAIN Uncovered(list) : Uncovered(list)[k] = t
  BY <1>1, <1>2, PickedAll
<1>5. QED
  BY <1>3, <1>4 DEF Elements

\* The finished block covers the entry point it began at, and its targets are due.
LEMMA StoreCovers ==
  ASSUME Inv, CoverInv, Store
  PROVE  CoverInv'
<1> DEFINE last == Len(blocks) + 1
           u == Uncovered(cur.branches)
           v == Uncovered(cur.calls)
<1>1. /\ pc = "store" /\ pc' = "next" /\ blocks' = Append(blocks, Block)
      /\ covered' = IF cur.orphan THEN covered ELSE [covered EXCEPT ![cur.seg] = @ \cup Bytes(cur)]
      /\ UNCHANGED <<rom, segs, cur, cmd, sessions, cut, named, short>>
      /\ pending' = pending \o u \o v
  BY DEF Store, history
<1>2. /\ cur \in WalkSet /\ cur.seg \in Seg /\ cur.at \in Nat /\ cur.start \in Nat
      /\ cur.insns \in SUBSET [addr : Nat, len : {1, 2}]
      /\ cur.branches \in Seq(Target) /\ cur.calls \in Seq(Target)
  BY <1>1, TraceAssumption DEF Inv, Types, CurOK, WalkSet, Off
<1>3. /\ Block \in BlockSet /\ Block.seg = cur.seg /\ Block.start = cur.start /\ Block.end = cur.end
      /\ Block.insns = cur.insns /\ Block.branches = cur.branches /\ Block.calls = cur.calls
  BY <1>2 DEF Block, BlockSet, WalkSet
<1>4. blocks \in Seq(BlockSet) /\ Len(blocks) \in Nat /\ DOMAIN blocks = 1 .. Len(blocks)
  BY DEF Inv, Types
<1>5. /\ DOMAIN blocks' = 1 .. last /\ blocks'[last] = Block
      /\ \A n \in DOMAIN blocks : blocks'[n] = blocks[n]
  BY <1>1, <1>3, <1>4
<1>6. /\ last \in DOMAIN blocks' /\ \A n \in DOMAIN blocks : n \in DOMAIN blocks'
      /\ \A n \in DOMAIN blocks' : n \in DOMAIN blocks \/ n = last
  BY <1>4, <1>5
<1> HIDE DEF last, u, v
<1>7. Bytes(Block) = Bytes(cur) /\ Successors(Block) = Successors(cur)
  BY <1>3, Zenon DEF Bytes, Successors
<1>8. \A t : Met(t) => MetBy(blocks', t)
  BY <1>5, <1>6, Zenon DEF Met, MetBy
<1>9. \A off \in Bytes(cur) : MetBy(blocks', <<cur.seg, off>>)
  <2>1. ASSUME NEW off \in Bytes(cur) PROVE MetBy(blocks', <<cur.seg, off>>)
    <3>1. <<cur.seg, off>>[1] = cur.seg /\ <<cur.seg, off>>[2] = off
      OBVIOUS
    <3>2. blocks'[last].seg = cur.seg /\ off \in Bytes(blocks'[last])
      BY <1>3, <1>5, <1>7, Zenon
    <3>3. QED
      BY <1>6, <3>1, <3>2 DEF MetBy
  <2>2. QED
    BY <2>1
<1>10. CoveredByBlocks'
  <2>1. ASSUME NEW s \in Seg, NEW off \in covered'[s]
        PROVE  \E m \in DOMAIN blocks' : blocks'[m].seg = s /\ off \in Bytes(blocks'[m])
    <3>1. CASE off \in covered[s]
      <4>1. PICK m \in DOMAIN blocks : blocks[m].seg = s /\ off \in Bytes(blocks[m])
        BY <3>1 DEF CoverInv, CoveredByBlocks
      <4>2. QED
        BY <1>5, <1>6, <4>1, Zenon
    <3>2. CASE off \notin covered[s]
      <4>1. s = cur.seg /\ off \in Bytes(cur)
        BY <1>1, <1>2, <2>1, <3>2 DEF Inv, Types
      <4>2. QED
        BY <1>3, <1>5, <1>6, <1>7, <4>1, Zenon
    <3>3. QED
      BY <3>1, <3>2
  <2>2. QED
    BY <2>1 DEF CoveredByBlocks, Bytes
<1>11. WalkShape' /\ Idle'
  BY <1>1 DEF WalkShape, Idle
<1>12. cur.insns # {} /\ cur.start \in Starts(cur) /\ CurFilled' /\ BlocksFilled'
  <2>1. cur.insns # {} /\ cur.start \in Starts(cur)
    BY <1>1 DEF CoverInv, CurFilled, WalkShape
  <2>2. Starts(Block) = Starts(cur)
    BY <1>3, Zenon DEF Starts
  <2>3. \A n \in DOMAIN blocks' : blocks'[n].start \in Starts(blocks'[n])
    BY <1>3, <1>5, <1>6, <2>1, <2>2, Zenon DEF CoverInv, BlocksFilled
  <2>4. BlocksFilled'
    BY <2>3 DEF BlocksFilled, Starts
  <2>5. QED
    BY <1>1, <2>1, <2>4 DEF CurFilled
<1>13. StoppedMet'
  <2>1. cur.end \in StoppedEnds /\ cur.seg \notin short
          => After(Block) = cur.at /\ MetBy(blocks', <<cur.seg, cur.at>>)
    <3>1. /\ \E i \in Block.insns : i.addr + i.len = cur.at
          /\ \A i \in Block.insns : i.addr + i.len <= cur.at
          /\ Block.insns \in SUBSET [addr : Nat, len : {1, 2}]
      BY <1>1, <1>2, <1>3, <1>12 DEF CoverInv, WalkShape
    <3>2. After(Block) = cur.at
      BY <1>2, <3>1, AfterIs
    <3>3. cur.end \in StoppedEnds /\ cur.seg \notin short => Met(<<cur.seg, cur.at>>)
      BY <1>1 DEF CoverInv, StoppedMet
    <3>4. QED
      BY <1>8, <3>2, <3>3
  <2>2. ASSUME NEW n \in DOMAIN blocks', blocks'[n].end \in StoppedEnds,
               blocks'[n].seg \notin short
        PROVE  MetBy(blocks', <<blocks'[n].seg, After(blocks'[n])>>)
    <3>1. CASE n \in DOMAIN blocks
      <4>1. blocks'[n] = blocks[n]
        BY <1>5, <3>1
      <4>2. MetBy(blocks, <<blocks[n].seg, After(blocks[n])>>)
        BY <2>2, <3>1, <4>1, Zenon DEF CoverInv, StoppedMet, EndsMet
      <4>3. MetBy(blocks', <<blocks[n].seg, After(blocks[n])>>)
        BY <1>8, <4>2 DEF Met
      <4>4. QED
        BY <4>1, <4>3, Zenon
    <3>2. CASE n = last
      BY <1>3, <1>5, <2>1, <2>2, <3>2, Zenon
    <3>3. QED
      BY <1>6, <3>1, <3>2
  <2>3. EndsMet(blocks', short')
    BY <1>1, <2>2 DEF EndsMet
  <2>4. QED
    BY <1>1, <2>3 DEF StoppedMet
<1>14. /\ pending \in Seq(Target) /\ u \in Seq(Target) /\ v \in Seq(Target)
       /\ Elements(pending') = Elements(pending) \cup Elements(u) \cup Elements(v)
  <2>1. pending \in Seq(Target) /\ u \in Seq(Target) /\ v \in Seq(Target)
    BY <1>2, UncoveredTargets DEF Inv, Types, u, v
  <2>2. Elements(pending \o u \o v) = Elements(pending) \cup Elements(u) \cup Elements(v)
    BY <2>1, ThreeElements, SMTT(60)
  <2>3. QED
    BY <1>1, <2>1, <2>2
<1>15. \A t \in Target : Due(t) => Due(t)'
  <2>1. SUFFICES ASSUME NEW t \in Target, Due(t)
                 PROVE  \/ t[1] \in short \/ MetBy(blocks', t) \/ OutOfRom(t)
                        \/ segs[t[1]].max > 0 /\ t \in Elements(pending')
    BY <1>1 DEF Due, Met, OutOfRom, Elements
  <2>2. CASE t = <<cur.seg, cur.start>>
    <3>1. cur.start \in Starts(cur)
      BY <1>1, <1>12 DEF CoverInv, WalkShape
    <3>2. PICK i \in cur.insns : i.addr = cur.start
      BY <3>1 DEF Starts
    <3>3. i.addr \in Nat /\ i.len \in {1, 2}
      BY <1>2
    <3>4. i.addr \in i.addr .. i.addr + i.len - 1
      BY <3>3
    <3>5. cur.start \in Bytes(cur)
      BY <3>2, <3>4 DEF Bytes
    <3>6. QED
      BY <1>9, <2>2, <3>5
  <2>3. CASE segs[t[1]].max > 0 /\ \E n \in DOMAIN pending : pending[n] = t
    <3>1. t \in Elements(pending)
      BY <2>3 DEF Elements
    <3>2. QED
      BY <1>14, <2>3, <3>1
  <2>4. CASE t[1] \in short \/ Met(t) \/ OutOfRom(t)
    BY <1>8, <2>4
  <2>5. QED
    BY <2>1, <2>2, <2>3, <2>4 DEF Due
<1>16. \A t \in Successors(cur) : Due(t)'
  <2>1. SUFFICES ASSUME NEW t \in Successors(cur)
                 PROVE  \/ MetBy(blocks', t)
                        \/ segs[t[1]].max > 0 /\ t \in Elements(pending')
    BY <1>1 DEF Due, Met, Elements
  <2>2. segs[t[1]].max > 0 /\ t \in Target /\ t[1] \in Seg
    <3>1. t \in Target
      BY TargetsAreAddresses DEF Inv
    <3>2. QED
      BY <1>1, <3>1 DEF CoverInv, WalkShape, Target
  <2>3. t \in Elements(cur.branches) \cup Elements(cur.calls)
    BY DEF Successors, Elements
  <2>4. t[2] \in covered'[t[1]] \/ t \in Elements(u) \cup Elements(v)
    BY <1>2, <2>3, UncoveredAll DEF u, v
  <2>5. t[2] \in covered'[t[1]] => MetBy(blocks', t)
    BY <1>10, <2>2 DEF CoveredByBlocks, MetBy, Bytes
  <2>6. QED
    BY <1>14, <2>2, <2>4, <2>5
<1>17. AllDue'
  <2>1. Seeds' = Seeds
    BY <1>1 DEF Seeds
  <2>2. ASSUME ~cut, NEW n \in DOMAIN blocks', NEW t \in Successors(blocks'[n])
        PROVE  Due(t)'
    <3>1. CASE n \in DOMAIN blocks
      <4>1. t \in Successors(blocks[n]) /\ t \in Target
        BY <1>5, <3>1, TargetsAreAddresses DEF Inv
      <4>2. QED
        BY <1>15, <2>2, <3>1, <4>1 DEF CoverInv, AllDue
    <3>2. CASE n = last
      BY <1>5, <1>7, <1>16, <3>2
    <3>3. QED
      BY <1>6, <3>1, <3>2
  <2>3. ASSUME ~cut, sessions > 0
        PROVE  \A t \in Seeds : SeededSegs(cmd.seed)[t[1]].max > 0 => Due(t)'
    BY <1>15, <2>3, TargetsAreAddresses DEF CoverInv, AllDue, Inv
  <2>4. QED
    BY <1>1, <2>1, <2>2, <2>3 DEF AllDue, Successors, SeededSegs
<1>18. QED
  BY <1>10, <1>11, <1>12, <1>13, <1>17 DEF CoverInv

\* The list is worked off, or cut: then nothing is promised any more.
LEMMA FinishCovers ==
  ASSUME CoverInv, Finish
  PROVE  CoverInv'
<1>1. /\ pc = "next" /\ pc' = "done" /\ pending' = <<>>
      /\ cut' = (cut \/ pending # <<>>)
      /\ UNCHANGED <<rom, segs, covered, blocks, loaded, cur, cmd, sessions, named, short>>
  BY DEF Finish, history
<1>2. CoveredByBlocks' /\ WalkShape' /\ Idle' /\ CurFilled' /\ BlocksFilled'
  BY <1>1 DEF CoverInv, CoveredByBlocks, Bytes, WalkShape, Idle, CurFilled, BlocksFilled, Starts
<1>3. StoppedMet'
  BY <1>1 DEF CoverInv, StoppedMet
<1>4. AllDue'
  <2>1. ~cut' => ~cut /\ pending = <<>>
    BY <1>1
  <2>2. ASSUME pending = <<>>, NEW t, Due(t)
        PROVE  Due(t)'
    BY <1>1, <2>2 DEF Due, Met, MetBy, Bytes, OutOfRom
  <2>3. Seeds' = Seeds
    BY <1>1 DEF Seeds
  <2>4. QED
    BY <1>1, <2>1, <2>2, <2>3 DEF CoverInv, AllDue, Successors, SeededSegs
<1>5. QED
  BY <1>2, <1>3, <1>4 DEF CoverInv

\* A new session keeps the blocks of each segment it can register; what lay in another is out
\* of the ROM.  Its seeds are all pending.
LEMMA StartCovers ==
  ASSUME Inv, CoverInv, NEW c \in Commands, Start(c)
  PROVE  CoverInv'
<1> DEFINE file == Printed(blocks)
           table == LoadedSegs(SeededSegs(c.seed), file)
           kept == Loadable(table, file)
           seeds == DefaultSeeds \o c.seed \o Tables(c.flags, rom)
<1>1. /\ pc = "done" /\ pc' = "next" /\ segs' = table /\ blocks' = kept
      /\ covered' = [s \in Seg |-> LoadedBytes(kept, s)]
      /\ pending' = seeds /\ cmd' = c /\ sessions' = sessions + 1
      /\ UNCHANGED <<rom, cur, cut, named, short>>
  BY DEF Start, history
<1>2. pending = <<>>
  BY <1>1 DEF CoverInv, Idle
<1>3. blocks \in Seq(BlockSet) /\ \A m \in DOMAIN blocks : blocks[m].seg \in Seg
  BY BlockFields DEF Inv, Types
<1>4. \A m \in DOMAIN blocks : blocks[m].seg \notin short =>
        /\ \E n \in DOMAIN file : file[n] = blocks[m]
        /\ table[blocks[m].seg].max > 0 => \E k \in DOMAIN kept : kept[k] = blocks[m]
  <2>1. ASSUME NEW m \in DOMAIN blocks, blocks[m].seg \notin short
        PROVE  /\ \E n \in DOMAIN file : file[n] = blocks[m]
               /\ table[blocks[m].seg].max > 0 => \E k \in DOMAIN kept : kept[k] = blocks[m]
    <3> HIDE DEF table
    <3>1. QED
      BY <2>1, KeptAll DEF CoverInv
  <2> HIDE DEF file, table, kept
  <2>2. QED
    BY <2>1
<1>5. file \in Seq(BlockSet) /\ \A n \in DOMAIN kept : \E m \in DOMAIN blocks : kept[n] = blocks[m]
  <2> HIDE DEF table
  <2>1. QED
    BY <1>3, LoadedOnly
<1>6. ASSUME NEW m \in DOMAIN blocks, blocks[m].seg \notin short, table[blocks[m].seg].max > 0
      PROVE  \E k \in DOMAIN kept : kept[k] = blocks[m]
  <2> HIDE DEF file, table, kept
  <2>1. QED
    BY <1>4, <1>6
<1>7. \A n \in DOMAIN kept : table[kept[n].seg].max > 0
  <2> HIDE DEF table
  <2>1. QED
    BY <1>3, LoadedOnly
<1>8. SegInv(table)
  BY SessionSegments
\* A block that is not kept lies behind the end of the ROM.
<1>9. ASSUME NEW m \in DOMAIN blocks, blocks[m].seg \notin short,
             ~(table[blocks[m].seg].max > 0)
      PROVE  Profile[blocks[m].seg].max = 0 /\ Para[blocks[m].seg] >= RomLen
  <2> DEFINE s == blocks[m].seg
  <2>1. s \in Seg /\ \E n \in DOMAIN file : file[n].seg = s
    BY <1>3, <1>4, <1>9
  <2>2. ~(table[s].max > 0)
    BY <1>9
  <2> HIDE DEF s
  <2>3. Profile[s].max = 0
    <3>1. ~(Profile[s].max > 0)
      BY <1>8, <2>1, <2>2 DEF SegInv
    <3>2. QED
      BY <2>1, <3>1, ProfileFields
  <2>4. Para[s] \in Nat /\ RomLen \in Nat
    BY <2>1, ProfileFields, TraceAssumption
  <2>5. CASE Para[s] < RomLen
    <3>1. table[s] = AutoEntry(Para[s]) \/ table[s] = SeededSegs(c.seed)[s]
      BY <2>1, <2>5 DEF LoadedSegs
    <3>2. ~(SeededSegs(c.seed)[s].max > 0) => table[s] = AutoEntry(Para[s])
      BY <2>1, <2>5 DEF LoadedSegs
    <3>3. AutoEntry(Para[s]).max > 0
      BY <2>1, <2>3, <2>4, <2>5, AutoEntryReaches DEF Based
    <3>4. QED
      BY <2>2, <3>1, <3>2, <3>3
  <2>6. QED
    BY <2>3, <2>4, <2>5 DEF s
<1> HIDE DEF file, table, kept, seeds
<1>10. ASSUME NEW t \in Target, t[1] \notin short, Met(t)
       PROVE  MetBy(kept, t) \/ OutOfRom(t)
  <2>1. CASE t \in Stops
    BY <2>1 DEF MetBy
  <2>2. CASE \E m \in DOMAIN blocks : blocks[m].seg = t[1] /\ t[2] \in Bytes(blocks[m])
    <3>1. PICK m \in DOMAIN blocks : blocks[m].seg = t[1] /\ t[2] \in Bytes(blocks[m])
      BY <2>2
    <3>2. CASE table[blocks[m].seg].max > 0
      <4>1. PICK k \in DOMAIN kept : kept[k] = blocks[m]
        BY <1>6, <1>10, <3>1, <3>2
      <4>2. QED
        BY <3>1, <4>1 DEF MetBy
    <3>3. CASE ~(table[blocks[m].seg].max > 0)
      <4>1. Profile[t[1]].max = 0 /\ Para[t[1]] >= RomLen
        BY <1>9, <1>10, <3>1, <3>3
      <4>2. t[1] \in Seg /\ t[2] \in Nat /\ Para[t[1]] \in Nat /\ RomLen \in Nat
        BY ProfileFields, TraceAssumption DEF Target, Off
      <4>3. Para[t[1]] + t[2] >= RomLen
        BY <4>1, <4>2
      <4>4. QED
        BY <4>1, <4>3 DEF OutOfRom
    <3>4. QED
      BY <3>2, <3>3
  <2>3. QED
    BY <1>10, <2>1, <2>2 DEF Met, MetBy
<1>11. CoveredByBlocks'
  <2>1. ASSUME NEW s \in Seg, NEW off \in LoadedBytes(kept, s)
        PROVE  \E m \in DOMAIN kept : kept[m].seg = s /\ off \in Bytes(kept[m])
    BY DEF LoadedBytes
  <2>2. \A s \in Seg : covered'[s] = LoadedBytes(kept, s)
    BY <1>1
  <2>3. QED
    BY <1>1, <2>1, <2>2 DEF CoveredByBlocks, Bytes
<1>12. WalkShape' /\ Idle' /\ CurFilled' /\ BlocksFilled'
  <2>1. ASSUME NEW n \in DOMAIN kept PROVE kept[n].start \in Starts(kept[n])
    BY <1>5 DEF CoverInv, BlocksFilled
  <2>2. QED
    BY <1>1, <2>1 DEF WalkShape, Idle, CurFilled, BlocksFilled, Starts
<1>13. StoppedMet'
  <2>1. ASSUME NEW n \in DOMAIN kept, kept[n].end \in StoppedEnds, kept[n].seg \notin short
        PROVE  MetBy(kept, <<kept[n].seg, After(kept[n])>>)
    <3> DEFINE t == <<kept[n].seg, After(kept[n])>>
    <3>1. PICK m \in DOMAIN blocks : kept[n] = blocks[m]
      BY <1>5
    <3>2. MetBy(blocks, <<blocks[m].seg, After(blocks[m])>>)
      BY <2>1, <3>1, Zenon DEF CoverInv, StoppedMet, EndsMet
    <3>3. MetBy(blocks, t)
      BY <3>1, <3>2, Zenon
    <3>4. t[1] = kept[n].seg
      OBVIOUS
    <3> HIDE DEF t
    <3>5. CASE t \in Stops
      BY <3>5 DEF MetBy, t
    <3>6. CASE \E k \in DOMAIN blocks : blocks[k].seg = t[1] /\ t[2] \in Bytes(blocks[k])
      <4>1. PICK k \in DOMAIN blocks : blocks[k].seg = t[1] /\ t[2] \in Bytes(blocks[k])
        BY <3>6
      <4>2. table[blocks[k].seg].max > 0
        BY <1>7, <3>4, <4>1
      <4>3. PICK j \in DOMAIN kept : kept[j] = blocks[k]
        BY <1>6, <2>1, <3>4, <4>1, <4>2
      <4>4. MetBy(kept, t)
        BY <4>1, <4>3 DEF MetBy
      <4>5. QED
        BY <4>4 DEF t
    <3>7. QED
      BY <3>3, <3>5, <3>6 DEF MetBy
  <2>2. EndsMet(kept, short)
    BY <2>1 DEF EndsMet
  <2>3. EndsMet(blocks', short')
    BY <1>1, <2>2
  <2>4. QED
    BY <1>1, <2>3 DEF StoppedMet
<1>14. AllDue'
  <2>1. ASSUME NEW t \in Target, Due(t)
        PROVE  Due(t)'
    <3>1. t[1] \in short \/ Met(t) \/ OutOfRom(t)
      BY <1>1, <1>2, <2>1 DEF Due
    <3>2. t[1] \in short \/ MetBy(kept, t) \/ OutOfRom(t)
      BY <1>10, <3>1
    <3>3. QED
      BY <1>1, <3>2 DEF Due, Met, MetBy, Bytes, OutOfRom
  <2>2. ASSUME ~cut, NEW n \in DOMAIN kept, NEW t \in Successors(kept[n])
        PROVE  Due(t)'
    <3>1. PICK m \in DOMAIN blocks : kept[n] = blocks[m]
      BY <1>5
    <3>2. t \in Target /\ t \in Successors(blocks[m])
      BY <3>1, TargetsAreAddresses DEF Inv
    <3>3. QED
      BY <2>1, <2>2, <3>2 DEF CoverInv, AllDue
  <2>3. ASSUME NEW t \in Seeds', SeededSegs(c.seed)[t[1]].max > 0
        PROVE  Due(t)'
    <3>1. PICK n \in DOMAIN seeds : seeds[n] = t
      BY <1>1 DEF Seeds, seeds
    <3>2. c \in Command /\ rom \in Images
      BY TraceAssumption DEF Inv, Types
    <3>3. seeds \in Seq(Target)
      <4>1. c.seed \in Seq(Target) /\ c.flags \in SUBSET Flags
        BY <3>2 DEF Command
      <4>2. DefaultSeeds \in Seq(Target) /\ Tables(c.flags, rom) \in Seq(Target)
        BY <3>2, <4>1, TraceAssumption
      <4>3. QED
        BY <4>1, <4>2 DEF seeds
    <3>4. t \in Target /\ t[1] \in Seg
      BY <3>1, <3>3 DEF Target
    <3>5. table[t[1]].max > 0
      BY <2>3, <3>4 DEF table, LoadedSegs
    <3>6. QED
      BY <1>1, <3>1, <3>5 DEF Due
  <2>4. QED
    BY <1>1, <2>2, <2>3 DEF AllDue, Successors, SeededSegs
<1>15. QED
  BY <1>11, <1>12, <1>13, <1>14 DEF CoverInv

\* Before the first session nothing is found and nothing is due.
LEMMA InitCovers == Init => CoverInv
<1> SUFFICES ASSUME Init PROVE CoverInv
  OBVIOUS
<1>1. /\ covered = [s \in Seg |-> {}] /\ pending = <<>> /\ blocks = <<>>
      /\ pc = "done" /\ sessions = 0
  BY DEF Init
<1>2. CoveredByBlocks /\ WalkShape /\ Idle /\ CurFilled /\ BlocksFilled
  BY <1>1 DEF CoveredByBlocks, WalkShape, Idle, CurFilled, BlocksFilled
<1>3. StoppedMet /\ AllDue
  BY <1>1 DEF StoppedMet, EndsMet, AllDue
<1>4. QED
  BY <1>2, <1>3 DEF CoverInv

\* Each step keeps the invariant.
LEMMA NextCovers == Inv /\ CoverInv /\ [Next]_vars => CoverInv'
<1> SUFFICES ASSUME Inv, CoverInv, [Next]_vars PROVE CoverInv'
  OBVIOUS
<1>1. CASE \E c \in Commands : Start(c)
  BY <1>1, StartCovers
<1>2. CASE Skip
  BY <1>2, SkipCovers
<1>3. CASE Dismiss \/ Begin
  BY <1>3, DismissCovers, BeginCovers
<1>4. CASE StepPlain \/ StepBranch \/ StepCall \/ EndJump \/ EndReturn
  BY <1>4, InstructionCovers
<1>5. CASE EndBefore
  BY <1>5, EndBeforeCovers
<1>6. CASE Store
  BY <1>6, StoreCovers
<1>7. CASE Finish
  BY <1>7, FinishCovers
<1>8. CASE UNCHANGED vars
  <2>1. UNCHANGED <<rom, segs, covered, pending, blocks, loaded, cur, pc, cmd, sessions, cut,
                    named, short>>
    BY <1>8 DEF vars
  <2>2. CoveredByBlocks' /\ WalkShape' /\ Idle'
    BY <2>1 DEF CoverInv, CoveredByBlocks, Bytes, WalkShape, Successors, Starts, Idle
  <2>3. StoppedMet' /\ BlocksFilled' /\ CurFilled'
    BY <2>1 DEF CoverInv, StoppedMet, Met, BlocksFilled, Starts, CurFilled, EndReason, Here
  <2>4. \A t : Due(t)' <=> Due(t)
    BY <2>1 DEF Due, Met, MetBy, Bytes, OutOfRom
  <2>5. Seeds' = Seeds
    BY <2>1 DEF Seeds
  <2>6. AllDue'
    BY <2>1, <2>4, <2>5 DEF CoverInv, AllDue, Successors, SeededSegs
  <2>7. QED
    BY <2>2, <2>3, <2>6 DEF CoverInv
<1>9. QED
  BY <1>1, <1>2, <1>3, <1>4, <1>5, <1>6, <1>7, <1>8 DEF Next

\* With nothing pending and nothing in work, what is due needs no block.
LEMMA NothingLeft ==
  ASSUME Inv, CoverInv
  PROVE  NothingMissed
<1> SUFFICES ASSUME pc = "done", ~cut, sessions > 0
             PROVE  /\ \A t \in Seeds : SeededSegs(cmd.seed)[t[1]].max > 0 => Settled(t) \/ t[1] \in short
                    /\ \A n \in DOMAIN blocks :
                         /\ \A t \in Successors(blocks[n]) : Settled(t) \/ t[1] \in short
                         /\ blocks[n].end \in StoppedEnds /\ blocks[n].seg \notin short
                              => Settled(<<blocks[n].seg, After(blocks[n])>>)
  BY DEF NothingMissed, StoppedEnds
<1>1. pending = <<>>
  BY DEF CoverInv, Idle
<1>2. \A t : Met(t) => Settled(t) \/ t[1] \in short
  BY MetSettled DEF Inv
<1>3. ASSUME NEW t \in Target, Due(t)
      PROVE  Settled(t) \/ t[1] \in short
  BY <1>1, <1>2, <1>3, OutSettled DEF Due, Inv, SegmentsOK
<1>4. \A t \in Seeds : SeededSegs(cmd.seed)[t[1]].max > 0 => Settled(t) \/ t[1] \in short
  BY <1>3, TargetsAreAddresses DEF CoverInv, AllDue, Inv
<1>5. \A n \in DOMAIN blocks : \A t \in Successors(blocks[n]) : Settled(t) \/ t[1] \in short
  BY <1>3, TargetsAreAddresses DEF CoverInv, AllDue, Inv
<1>6. ASSUME NEW n \in DOMAIN blocks, blocks[n].end \in StoppedEnds, blocks[n].seg \notin short
      PROVE  Settled(<<blocks[n].seg, After(blocks[n])>>)
  <2>1. Met(<<blocks[n].seg, After(blocks[n])>>)
    BY <1>6, Zenon DEF CoverInv, StoppedMet, EndsMet, Met
  <2>2. <<blocks[n].seg, After(blocks[n])>>[1] = blocks[n].seg
    OBVIOUS
  <2>3. QED
    BY <1>2, <1>6, <2>1, <2>2
<1>7. QED
  BY <1>4, <1>5, <1>6

\* A session that is not cut by --max-blocks leaves no seed, no target of a block, loaded
\* blocks included, and nothing behind a block that stopped early without a block, unless it
\* needs none, or lies in a segment that was registered without reaching its end.
THEOREM NothingIsMissed == Spec => []NothingMissed
<1>1. Spec => []Inv
  BY SpecInv
<1>2. Spec => []CoverInv
  BY <1>1, InitCovers, NextCovers, PTL DEF Spec
<1>3. QED
  BY <1>1, <1>2, NothingLeft, PTL
==============================================================================
