----------------------------- MODULE TraceProofs -----------------------------
(***************************************************************************)
(* Proofs about Trace.  Whatever the ROM holds and whatever seeds the        *)
(* sessions are given, a segment reaches the end of its 64 KiB or of the ROM *)
(* unless it was mapped into a bank from too high up, only such a segment    *)
(* has an address that is disassembled twice, and only what the seeds lead   *)
(* to is disassembled.                                                       *)
(***************************************************************************)
EXTENDS Trace, TLAPS, FiniteSetTheorems, SequenceTheorems, WellFoundedInduction

------------------------------------------------------------------------------
(* Picking elements of a sequence                                            *)

\* A set of naturals that is not empty has a least member.
LEMMA LeastMember ==
  ASSUME NEW S \in SUBSET Nat, S # {}
  PROVE  \E x \in S : \A y \in S : x <= y
<1>1. \E x \in S : \A y \in S : ~ (<<y, x>> \in OpToRel(<, Nat))
  BY WFMin, NatLessThanWellFounded
<1>2. PICK x \in S : \A y \in S : ~ (y < x)
  BY <1>1, Zenon DEF OpToRel
<1>3. QED
  BY <1>2

\* One that is bounded has a greatest member.
LEMMA GreatestMember ==
  ASSUME NEW n \in Nat, NEW S \in SUBSET (0 .. n), S # {}
  PROVE  \E x \in S : \A y \in S : y <= x
<1> DEFINE T == {u \in Nat : \E x \in S : u = n - x}
<1>1. T \in SUBSET Nat /\ \A x \in S : n - x \in T
  OBVIOUS
<1>2. PICK t \in T : \A u \in T : t <= u
  BY <1>1, LeastMember
<1>3. PICK x \in S : t = n - x
  BY <1>2
<1>4. \A y \in S : n - x <= n - y
  BY <1>1, <1>2, <1>3
<1>5. \A y \in S : y \in Nat /\ x \in Nat
  OBVIOUS
<1>6. QED
  BY <1>4, <1>5

\* Each position up to the number of members has its member: Nth is defined.
LEMMA NthExists ==
  ASSUME NEW n \in Nat, NEW K \in SUBSET (1 .. n), NEW k \in 1 .. Cardinality(K)
  PROVE  /\ Nth(K, k) \in K
         /\ Cardinality({j \in K : j < Nth(K, k)}) = k - 1
<1> DEFINE Below(i) == {j \in K : j < i}
           T == {i \in K : k - 1 <= Cardinality(Below(i))}
<1> HIDE DEF Below, T
<1>1. IsFiniteSet(K) /\ Cardinality(K) \in Nat
  <2>1. IsFiniteSet(1 .. n)
    BY FS_Interval
  <2>2. QED
    BY <2>1, FS_Subset, FS_CardinalityType
<1>2. \A i \in K : Below(i) \in SUBSET K
  BY DEF Below
<1>3. \A i \in K : IsFiniteSet(Below(i)) /\ Cardinality(Below(i)) \in Nat
  BY <1>1, <1>2, FS_Subset, FS_CardinalityType
<1>4. \A S \in SUBSET K : S # {} =>
        \E x \in S : (\A y \in S : y <= x) /\ {y \in S : y < x} = S \ {x}
  <2>1. SUFFICES ASSUME NEW S \in SUBSET K, S # {}
                 PROVE  \E x \in S : (\A y \in S : y <= x) /\ {y \in S : y < x} = S \ {x}
    OBVIOUS
  <2>2. S \in SUBSET (0 .. n) /\ \A y \in S : y \in Nat
    OBVIOUS
  <2>3. PICK x \in S : \A y \in S : y <= x
    BY <2>1, <2>2, GreatestMember
  <2>4. {y \in S : y < x} = S \ {x}
    <3>1. \A y \in S : y < x <=> y # x
      BY <2>2, <2>3
    <3>2. QED
      BY <3>1
  <2>5. QED
    BY <2>3, <2>4
<1>5. T # {} /\ T \in SUBSET Nat
  <2>1. K # {}
    BY FS_EmptySet, <1>1
  <2>2. PICK x \in K : Below(x) = K \ {x}
    BY <2>1, <1>4 DEF Below
  <2>3. Cardinality(Below(x)) = Cardinality(K) - 1
    BY <2>2, <1>1, FS_RemoveElement
  <2>4. k - 1 <= Cardinality(Below(x))
    BY <2>3, <1>1
  <2>5. x \in T
    BY <2>4 DEF T
  <2>6. T \in SUBSET K /\ K \in SUBSET Nat
    BY DEF T
  <2>7. QED
    BY <2>5, <2>6
<1>6. PICK x \in T : \A y \in T : x <= y
  BY <1>5, LeastMember
<1>7. x \in K /\ k - 1 <= Cardinality(Below(x))
  BY DEF T
<1>8. Cardinality(Below(x)) = k - 1
  <2>1. SUFFICES ASSUME k <= Cardinality(Below(x)) PROVE FALSE
    BY <1>3, <1>7
  <2>2. Below(x) # {}
    BY <2>1, FS_EmptySet
  <2>3. PICK y \in Below(x) : {z \in Below(x) : z < y} = Below(x) \ {y}
    BY <2>2, <1>2, <1>4, <1>7
  <2>4. y \in K /\ y < x /\ \A j \in K : j \in Nat
    BY <2>3 DEF Below
  <2>5. Below(y) = Below(x) \ {y}
    <3>1. \A z \in K : z < y => z < x
      BY <2>4, <1>7
    <3>2. Below(y) = {z \in Below(x) : z < y}
      BY <3>1 DEF Below
    <3>3. QED
      BY <2>3, <3>2
  <2>6. Cardinality(Below(y)) = Cardinality(Below(x)) - 1
    BY <2>3, <2>5, <1>3, <1>7, FS_RemoveElement
  <2>7. y \in T
    BY <2>1, <2>4, <2>6, <1>3, <1>7 DEF T
  <2>8. QED
    BY <2>4, <2>7, <1>6, <1>7
<1>9. \E i \in K : Cardinality({j \in K : j < i}) = k - 1
  BY <1>7, <1>8 DEF Below
<1>10. QED
  BY <1>9, Zenon DEF Nth

\* The positions increase with the members.
LEMMA NthIncreases ==
  ASSUME NEW n \in Nat, NEW K \in SUBSET (1 .. n),
         NEW k \in 1 .. Cardinality(K), NEW l \in 1 .. Cardinality(K), k < l
  PROVE  Nth(K, k) < Nth(K, l)
<1> DEFINE Below(i) == {j \in K : j < i}
<1>1. /\ Nth(K, k) \in K /\ Cardinality(Below(Nth(K, k))) = k - 1
      /\ Nth(K, l) \in K /\ Cardinality(Below(Nth(K, l))) = l - 1
  BY NthExists
<1> HIDE DEF Below
<1>2. SUFFICES ASSUME Nth(K, l) <= Nth(K, k) PROVE FALSE
  <2>1. \A p, q \in K : q <= p \/ p < q
    <3>1. \A p, q \in Nat : q <= p \/ p < q
      OBVIOUS
    <3>2. QED
      BY <3>1
  <2>2. QED
    BY <1>1, <2>1, Zenon
<1>3. Below(Nth(K, l)) \in SUBSET Below(Nth(K, k))
  <2>1. \A j, p, q \in K : j < q /\ q <= p => j < p
    <3>1. \A j, p, q \in Nat : j < q /\ q <= p => j < p
      OBVIOUS
    <3>2. QED
      BY <3>1
  <2>2. \A j \in K : j < Nth(K, l) => j < Nth(K, k)
    BY <1>1, <1>2, <2>1, Zenon
  <2>3. QED
    BY <2>2 DEF Below
<1>4. IsFiniteSet(Below(Nth(K, k)))
  <2>1. IsFiniteSet(1 .. n)
    BY FS_Interval
  <2>2. Below(Nth(K, k)) \in SUBSET (1 .. n)
    BY DEF Below
  <2>3. QED
    BY <2>1, <2>2, FS_Subset
<1>5. Cardinality(Below(Nth(K, l))) <= Cardinality(Below(Nth(K, k)))
  BY <1>3, <1>4, FS_Subset
<1>6. k \in Nat /\ l \in Nat
  OBVIOUS
<1>7. QED
  BY <1>1, <1>5, <1>6

\* What is picked from a sequence is a sequence of some of its elements, in their order.
LEMMA PickedInOrder ==
  ASSUME NEW S, NEW list \in Seq(S), NEW K \in SUBSET DOMAIN list
  PROVE  /\ Picked(list, K) \in Seq(S)
         /\ Len(Picked(list, K)) = Cardinality(K) /\ Cardinality(K) \in Nat
         /\ \A k \in DOMAIN Picked(list, K) :
              /\ Nth(K, k) \in K
              /\ Picked(list, K)[k] = list[Nth(K, k)]
         /\ \A k, l \in DOMAIN Picked(list, K) : k < l => Nth(K, k) < Nth(K, l)
<1>1. Len(list) \in Nat /\ K \in SUBSET (1 .. Len(list))
  OBVIOUS
<1>2. Cardinality(K) \in Nat
  <2>1. IsFiniteSet(1 .. Len(list))
    BY <1>1, FS_Interval
  <2>2. QED
    BY <1>1, <2>1, FS_Subset, FS_CardinalityType
<1>3. \A k \in 1 .. Cardinality(K) : Nth(K, k) \in K
  BY <1>1, NthExists
<1>4. \A k, l \in 1 .. Cardinality(K) : k < l => Nth(K, k) < Nth(K, l)
  BY <1>1, NthIncreases
<1>5. \A k \in 1 .. Cardinality(K) : list[Nth(K, k)] \in S
  BY <1>1, <1>3
<1>6. Picked(list, K) \in Seq(S) /\ Len(Picked(list, K)) = Cardinality(K)
      /\ DOMAIN Picked(list, K) = 1 .. Cardinality(K)
  BY <1>2, <1>5 DEF Picked
<1>7. \A k \in 1 .. Cardinality(K) : Picked(list, K)[k] = list[Nth(K, k)]
  BY DEF Picked
<1>8. QED
  BY <1>2, <1>3, <1>4, <1>6, <1>7

------------------------------------------------------------------------------
(* Segments                                                                  *)

\* Where a segment may lie in the file that no profile entry names: at its own address, or
\* as far behind a bank as its address is behind the window of the bank.
Based(s, b) ==
  \/ b = Para[s]
  \/ \E p \in Seg : /\ Profile[p].max > 0 /\ Profile[p].base # Para[p]
                    /\ Para[p] <= Para[s] /\ b = Profile[p].base + (Para[s] - Para[p])

\* An entry that no profile names begins at such a place and, unless that is its own address,
\* ends inside the file.
Placed(s, e) == Based(s, e.base) /\ e.max <= Cap /\ (e.base = Para[s] \/ e.base + e.max <= RomLen)

\* The segments of the profile stay, the others are placed so.
SegInv(table) ==
  /\ table \in [Seg -> Segment]
  /\ \A s \in Seg : Profile[s].max > 0 => table[s] = Profile[s]
  /\ \A s \in Seg : Profile[s].max = 0 /\ table[s].max > 0 => Placed(s, table[s])

\* All reach their end but those that did not when they were registered,
Reaching(table, some) == \A s \in Seg : ReachesEnd(s, table[s]) \/ s \in some

\* and these are segments a far transfer named that lie too high above a bank.
ShortOK(some, names) ==
  /\ names \subseteq Seg
  /\ \A s \in some : s \in names /\ Profile[s].max = 0 /\ \E e \in Seg : TooHigh(s, e)

\* The fields of an entry
LEMMA SegmentFields ==
  ASSUME NEW table \in [Seg -> Segment], NEW s \in Seg
  PROVE  table[s].base \in Nat /\ table[s].max \in Nat
  BY TraceAssumption DEF Segment

\* Those of the profile's
LEMMA ProfileFields ==
  ASSUME NEW s \in Seg
  PROVE  Profile[s].base \in Nat /\ Profile[s].max \in Nat /\ Para[s] \in Nat
  BY TraceAssumption, ProfileAssumption, SegmentFields

\* An entry made for such a place is registered, and reaches its end unless the place is
\* too far up in the file.
LEMMA AutoEntryReaches ==
  ASSUME NEW s \in Seg, Profile[s].max = 0, NEW b \in Nat, b < RomLen, Based(s, b)
  PROVE  /\ AutoEntry(b) \in Segment /\ AutoEntry(b).base = b
         /\ AutoEntry(b).max > 0 /\ Placed(s, AutoEntry(b))
         /\ ReachesEnd(s, AutoEntry(b)) \/ \E e \in Seg : TooHigh(s, e)
         /\ b = Para[s] => ReachesEnd(s, AutoEntry(b))
<1>1. RomLen \in Nat /\ Cap \in Nat \ {0}
  BY TraceAssumption
<1>2. Smaller(RomLen - b, Cap) \in 1 .. Cap /\ b + Smaller(RomLen - b, Cap) <= RomLen
  BY <1>1 DEF Smaller
<1>3. AutoEntry(b) \in Segment /\ AutoEntry(b).base = b /\ AutoEntry(b).max > 0
      /\ AutoEntry(b).max <= Cap /\ b + AutoEntry(b).max <= RomLen
  BY <1>2, <1>1 DEF AutoEntry, Segment
<1>4. b = Para[s] => ReachesEnd(s, AutoEntry(b))
  BY <1>1, <1>3 DEF ReachesEnd, AutoEntry, Smaller
<1>5. Placed(s, AutoEntry(b))
  BY <1>3 DEF Placed
<1>6. CASE \E p \in Seg : /\ Profile[p].max > 0 /\ Profile[p].base # Para[p]
                         /\ Para[p] <= Para[s] /\ b = Profile[p].base + (Para[s] - Para[p])
  <2>1. PICK p \in Seg : /\ Profile[p].max > 0 /\ Profile[p].base # Para[p]
                        /\ Para[p] <= Para[s] /\ b = Profile[p].base + (Para[s] - Para[p])
    BY <1>6
  <2>2. CASE b + Cap <= RomLen
    BY <1>1, <1>3, <1>4, <1>5, <2>2 DEF ReachesEnd, AutoEntry, Smaller
  <2>3. CASE b + Cap > RomLen
    BY <1>3, <1>4, <1>5, <2>1, <2>3 DEF TooHigh
  <2>4. QED
    BY <1>1, <2>2, <2>3
<1>7. QED
  BY <1>3, <1>4, <1>5, <1>6 DEF Based

\* The tracer derives such places only, also from banks it derived before.
LEMMA FileBasesBased ==
  ASSUME SegInv(segs), NEW s \in Seg, NEW b \in FileBases(s)
  PROVE  b \in Nat /\ Based(s, b)
<1>1. CASE Banks(s) = {}
  BY <1>1, ProfileFields DEF FileBases, Based
<1>2. CASE Banks(s) # {}
  <2>1. PICK e \in Banks(s) : b = segs[e].base + (Para[s] - Para[e])
    BY <1>2 DEF FileBases
  <2>2. /\ e \in Seg /\ segs[e].max > 0 /\ segs[e].base # Para[e] /\ Para[e] <= Para[s]
    BY DEF Banks
  <2>3. /\ Para[s] \in Nat /\ Para[e] \in Nat /\ segs[e].base \in Nat
        /\ Profile[e].max \in Nat
    BY <2>2, ProfileFields, SegmentFields DEF SegInv
  <2>4. b \in Nat
    BY <2>1, <2>2, <2>3
  <2>5. CASE Profile[e].max > 0
    BY <2>1, <2>2, <2>4, <2>5 DEF SegInv, Based
  <2>6. CASE Profile[e].max = 0
    <3>1. Based(e, segs[e].base)
      BY <2>2, <2>6 DEF SegInv, Placed
    <3>2. PICK p \in Seg : /\ Profile[p].max > 0 /\ Profile[p].base # Para[p]
                         /\ Para[p] <= Para[e]
                         /\ segs[e].base = Profile[p].base + (Para[e] - Para[p])
      BY <3>1, <2>2 DEF Based
    <3>3. Profile[p].base \in Nat /\ Para[p] \in Nat
      BY ProfileFields
    <3>4. Para[p] <= Para[s] /\ b = Profile[p].base + (Para[s] - Para[p])
      BY <2>1, <2>2, <2>3, <3>2, <3>3
    <3>5. QED
      BY <2>4, <3>2, <3>4 DEF Based
  <2>7. QED
    BY <2>3, <2>5, <2>6
<1>3. QED
  BY <1>1, <1>2

\* A registered segment is registered again only if it does not reach its end:
\* find_segment_for_far asks only for what lies outside it and in the ROM.
LEMMA RegisteredShort ==
  ASSUME SegInv(segs), Reaching(segs, short), NEW i \in Insn, Registers(i)
  PROVE  /\ i.seg \in Seg
         /\ segs[i.seg].max > 0 => i.seg \in short
<1> DEFINE s == i.seg
<1>1. s \in Seg /\ i.off \in Nat /\ i.off < Cap
  BY TraceAssumption DEF Insn, Off, Registers
<1>2. /\ Para[s] \in Nat /\ segs[s].max \in Nat /\ RomLen \in Nat /\ Cap \in Nat
  BY <1>1, ProfileFields, SegmentFields, TraceAssumption DEF SegInv
<1>3. segs[s].max <= i.off /\ Para[s] + i.off < RomLen
  BY <1>1, <1>2 DEF Registers, Known, Resolvable
<1>4. ReachesEnd(s, segs[s]) => segs[s].max = 0
  BY <1>1, <1>2, <1>3 DEF ReachesEnd
<1>5. QED
  BY <1>1, <1>2, <1>4 DEF Reaching

\* What a step that may register a segment leaves: registered segments stay registered, and
\* all but short ones stay as they are.
SegmentsKept ==
  /\ SegInv(segs') /\ Reaching(segs, short)' /\ ShortOK(short, named)'
  /\ covered' \in [Seg -> SUBSET Nat]
  /\ short \subseteq short' /\ named \subseteq named'
  /\ \A s \in Seg : segs[s].max > 0 =>
       segs'[s].max > 0 /\ (s \in short' \/ (segs'[s] = segs[s] /\ covered'[s] = covered[s]))

\* Registering the segment of a far target leaves the others alone.
LEMMA RegisterKeeps ==
  ASSUME SegInv(segs), Reaching(segs, short), ShortOK(short, named),
         covered \in [Seg -> SUBSET Nat], NEW i \in Insn, Register(i)
  PROVE  SegmentsKept
<1>1. named' \subseteq Seg /\ named \subseteq named'
  BY DEF Register, Insn, ShortOK
<1>2. CASE ~Registers(i)
  <2>1. UNCHANGED <<segs, covered, short>>
    BY <1>2 DEF Register
  <2>2. ShortOK(short, named)'
    BY <1>1, <2>1 DEF ShortOK, TooHigh
  <2>3. QED
    BY <1>1, <2>1, <2>2 DEF SegmentsKept, Reaching, ReachesEnd
<1>3. CASE Registers(i)
  <2> DEFINE s == i.seg
  <2>1. s \in Seg /\ (segs[s].max > 0 => s \in short) /\ s \in named'
    BY <1>3, RegisteredShort DEF Register, Registers
  <2>2. Profile[s].max = 0
    <3>1. segs[s].max \in Nat /\ Profile[s].max \in Nat
      BY <2>1, SegmentFields, ProfileFields DEF SegInv
    <3>2. Profile[s].max > 0 => s \in short
      BY <2>1 DEF SegInv
    <3>3. QED
      BY <3>1, <3>2 DEF ShortOK
  <2>3. PICK b \in FileBases(s) :
          /\ b < RomLen /\ segs' = [segs EXCEPT ![s] = AutoEntry(b)]
          /\ short' = IF ReachesEnd(s, AutoEntry(b)) THEN short ELSE short \cup {s}
    BY <1>3 DEF Register
  <2>4. covered' = [covered EXCEPT ![s] = {}]
    BY <1>3 DEF Register
  <2>5. /\ AutoEntry(b) \in Segment /\ AutoEntry(b).base = b
        /\ AutoEntry(b).max > 0 /\ Placed(s, AutoEntry(b))
        /\ ReachesEnd(s, AutoEntry(b)) \/ \E e \in Seg : TooHigh(s, e)
    BY <2>1, <2>2, <2>3, FileBasesBased, AutoEntryReaches
  <2>6. /\ segs' \in [Seg -> Segment] /\ segs'[s] = AutoEntry(b)
        /\ \A e \in Seg : e = s \/ segs'[e] = segs[e]
    BY <2>1, <2>3, <2>5 DEF SegInv
  <2>7. covered' \in [Seg -> SUBSET Nat] /\ \A e \in Seg : e = s \/ covered'[e] = covered[e]
    BY <2>1, <2>4
  <2>8. short \subseteq short' /\ short' \subseteq short \cup {s}
        /\ (ReachesEnd(s, AutoEntry(b)) \/ s \in short')
    BY <2>3
  <2> HIDE DEF s
  <2>9. SegInv(segs')
    <3>1. Profile[s].max > 0 => FALSE
      BY <2>2
    <3>2. QED
      BY <2>5, <2>6, <3>1 DEF SegInv
  <2>10. Reaching(segs, short)'
    <3>1. \A e \in Seg : ReachesEnd(e, segs'[e]) \/ e \in short'
      BY <2>6, <2>8 DEF Reaching
    <3>2. QED
      BY <3>1 DEF Reaching, ReachesEnd
  <2>11. ShortOK(short, named)'
    <3>1. ASSUME NEW e \in short'
          PROVE  e \in named' /\ Profile[e].max = 0 /\ \E p \in Seg : TooHigh(e, p)
      <4>1. CASE e \in short
        BY <1>1, <4>1 DEF ShortOK
      <4>2. CASE e = s /\ e \notin short
        <5>1. ~ReachesEnd(s, AutoEntry(b))
          BY <2>3, <4>2 DEF s
        <5>2. QED
          BY <2>1, <2>2, <2>5, <4>2, <5>1
      <4>3. QED
        BY <2>8, <4>1, <4>2
    <3>2. QED
      BY <1>1, <3>1 DEF ShortOK, TooHigh
  <2>12. ASSUME NEW e \in Seg, segs[e].max > 0
         PROVE  segs'[e].max > 0 /\ (e \in short' \/ (segs'[e] = segs[e] /\ covered'[e] = covered[e]))
    BY <2>1, <2>5, <2>6, <2>7, <2>8, <2>12
  <2>13. QED
    BY <1>1, <2>7, <2>8, <2>9, <2>10, <2>11, <2>12 DEF SegmentsKept
<1>4. QED
  BY <1>2, <1>3

\* A session that begins has the profile, and what --seed and --load name.
LEMMA SessionSegments ==
  ASSUME NEW seed, NEW list
  PROVE  /\ SegInv(LoadedSegs(SeededSegs(seed), list))
         /\ \A s \in Seg : ReachesEnd(s, LoadedSegs(SeededSegs(seed), list)[s])
<1> DEFINE table == SeededSegs(seed)
<1>1. /\ SegInv(table)
      /\ \A s \in Seg : ReachesEnd(s, table[s]) /\ (table[s].max = 0 => Profile[s].max = 0)
  <2>1. ASSUME NEW s \in Seg
        PROVE  /\ table[s] \in Segment /\ ReachesEnd(s, table[s])
               /\ Profile[s].max > 0 => table[s] = Profile[s]
               /\ Profile[s].max = 0 /\ table[s].max > 0 => Placed(s, table[s])
               /\ table[s].max = 0 => Profile[s].max = 0
    <3>1. Profile[s] \in Segment /\ ReachesEnd(s, Profile[s]) /\ Profile[s].max \in Nat
      BY ProfileAssumption, ProfileFields
    <3>2. CASE Profile[s].max > 0
      BY <3>1, <3>2 DEF SeededSegs
    <3>3. CASE Profile[s].max = 0
      <4>1. \/ table[s] = [base |-> Para[s], max |-> Cap]
            \/ table[s] = [base |-> 0, max |-> 0]
        BY <3>3 DEF SeededSegs, Unregistered
      <4>2. Para[s] \in Nat /\ Cap \in Nat
        BY ProfileFields, TraceAssumption
      <4>3. QED
        BY <3>3, <4>1, <4>2 DEF Segment, ReachesEnd, Based, Placed
    <3>4. QED
      BY <3>1, <3>2, <3>3
  <2>2. table = [s \in Seg |-> table[s]]
    BY DEF SeededSegs
  <2>3. QED
    BY <2>1, <2>2 DEF SegInv
<1> HIDE DEF table
<1>2. ASSUME NEW s \in Seg
      PROVE  LET e == LoadedSegs(table, list)[s]
             IN /\ e \in Segment /\ ReachesEnd(s, e)
                /\ Profile[s].max > 0 => e = Profile[s]
                /\ Profile[s].max = 0 /\ e.max > 0 => Placed(s, e)
  <2>1. /\ table[s] \in Segment /\ ReachesEnd(s, table[s])
        /\ Profile[s].max > 0 => table[s] = Profile[s]
        /\ Profile[s].max = 0 /\ table[s].max > 0 => Placed(s, table[s])
        /\ table[s].max \in Nat
    BY <1>1, SegmentFields DEF SegInv
  <2>2. CASE LoadedSegs(table, list)[s] = table[s]
    BY <2>1, <2>2
  <2>3. CASE LoadedSegs(table, list)[s] # table[s]
    <3>1. /\ Profile[s].max = 0
          /\ LoadedSegs(table, list)[s] =
               IF Para[s] < RomLen THEN AutoEntry(Para[s]) ELSE Unregistered
      BY <1>1, <2>1, <2>3 DEF LoadedSegs
    <3>2. CASE Para[s] < RomLen
      <4>1. Based(s, Para[s]) /\ Para[s] \in Nat
        BY ProfileFields DEF Based
      <4>2. QED
        BY <3>1, <3>2, <4>1, AutoEntryReaches
    <3>3. CASE ~(Para[s] < RomLen)
      <4>1. LoadedSegs(table, list)[s] = [base |-> 0, max |-> 0]
        BY <3>1, <3>3 DEF Unregistered
      <4>2. QED
        BY <3>1, <4>1, TraceAssumption DEF Segment, ReachesEnd
    <3>4. QED
      BY <3>2, <3>3
  <2>4. QED
    BY <2>2, <2>3
<1>3. LoadedSegs(table, list) = [s \in Seg |-> LoadedSegs(table, list)[s]]
  BY DEF LoadedSegs
<1>4. QED
  BY <1>2, <1>3 DEF SegInv, table

------------------------------------------------------------------------------
(* The invariant                                                             *)

BlockSet == [seg : Seg, start : Off, end : Ends, insns : SUBSET [addr : Nat, len : {1, 2}],
             branches : Seq(Target), calls : Seq(Target), aliases : SUBSET Target]

WalkSet == [seg : Seg \cup {Near}, start : Off, at : Nat, end : Ends,
            insns : SUBSET [addr : Nat, len : {1, 2}],
            branches : Seq(Target), calls : Seq(Target), aliases : SUBSET Target,
            base : Nat, seen : SUBSET Nat, orphan : BOOLEAN]

Types ==
  /\ rom \in Images
  /\ covered \in [Seg -> SUBSET Nat]
  /\ pending \in Seq(Target)
  /\ blocks \in Seq(BlockSet)
  /\ loaded \in 0 .. Len(blocks)
  /\ cur \in WalkSet
  /\ pc \in {"done", "next", "walk", "store"}
  /\ cmd \in Command
  /\ sessions \in 0 .. MaxSessions
  /\ cut \in BOOLEAN

\* The segment of a block stays registered, and if it reaches its end the bytes of the block
\* are covered in it.
BlocksOK ==
  \A n \in DOMAIN blocks :
    /\ segs[blocks[n].seg].max > 0
    /\ blocks[n].seg \in short \/ Bytes(blocks[n]) \subseteq covered[blocks[n].seg]

\* No instruction of the block in work begins at a byte that was covered when it began, and a
\* segment that reaches its end has not changed since.
CurOK ==
  pc \in {"walk", "store"} =>
    /\ cur.seg \in Seg /\ segs[cur.seg].max > 0
    /\ Starts(cur) \cap cur.seen = {}
    /\ \/ cur.seg \in short
       \/ cur.seen = covered[cur.seg] /\ cur.base = segs[cur.seg].base /\ ~cur.orphan

ReachedFrom(t) ==
  t \in Seeds \/ \E m \in loaded + 1 .. Len(blocks) : t \in Successors(blocks[m])

\* What is pending or in work was reached.
PendingReached ==
  /\ \A n \in DOMAIN pending : ReachedFrom(pending[n])
  /\ pc \in {"walk", "store"} => ReachedFrom(<<cur.seg, cur.start>>)

SegmentsOK == SegInv(segs) /\ Reaching(segs, short) /\ ShortOK(short, named)

Inv == Types /\ SegmentsOK /\ BlocksOK /\ CurOK /\ NoAddressTwice /\ PendingReached /\ Reached

\* Where a step leaves the segments alone
LEMMA SegmentsStay ==
  ASSUME SegmentsOK, UNCHANGED <<segs, named, short>>
  PROVE  SegmentsOK'
BY DEF SegmentsOK, Reaching, ReachesEnd, ShortOK, TooHigh

------------------------------------------------------------------------------
(* The steps of disasm_block                                                 *)

\* What ndisasm reads inside the ROM is an instruction.
LEMMA DecodeType ==
  ASSUME rom \in Images, NEW p \in Nat, p < RomLen
  PROVE  Decode(p) \in Insn
<1>1. RomLen \in Nat /\ 0 \in Off
  BY TraceAssumption DEF Off
<1>2. p \in 0 .. RomLen - 1
  BY <1>1
<1>3. rom \in [0 .. RomLen - 1 -> Insn]
  BY TraceAssumption
<1>4. rom[p] \in Insn
  BY <1>2, <1>3, Zenon
<1>5. [len |-> 1, op |-> "plain", seg |-> Near, off |-> 0] \in Insn
  BY <1>1 DEF Insn, Op
<1>6. QED
  BY <1>4, <1>5 DEF Decode

\* Where the walk stands is inside the ROM, at an address that was not covered.
LEMMA WalkingAt ==
  ASSUME Types, CurOK, Walking
  PROVE  /\ cur.seg \in Seg /\ cur.at \in Nat /\ cur.at \notin cur.seen
         /\ Decode(Here) \in Insn
<1>1. cur.seg \in Seg /\ cur.at \in Nat /\ cur.base \in Nat
  BY DEF Types, CurOK, Walking, WalkSet
<1>2. cur.at \notin cur.seen /\ ~(Here >= RomLen)
  BY DEF Walking, EndReason
<1>3. Here \in Nat /\ RomLen \in Nat
  BY <1>1, TraceAssumption DEF Here
<1>4. Here < RomLen
  BY <1>2, <1>3
<1>5. Decode(Here) \in Insn
  BY <1>3, <1>4, DecodeType DEF Types
<1>6. QED
  BY <1>1, <1>2, <1>5

\* The target of an instruction is an address.
LEMMA TargetOfType ==
  ASSUME NEW s \in Seg, NEW i \in Insn
  PROVE  TargetOf(s, i) \in Seq(Target)
<1>1. i.off \in Off /\ i.seg \in Seg \cup {Near}
  BY DEF Insn
<1>2. <<s, i.off>> \in Target
  BY <1>1 DEF Target
<1>3. i.seg # Near => <<i.seg, i.off>> \in Target
  BY <1>1 DEF Target
<1>4. QED
  BY <1>2, <1>3 DEF TargetOf

\* The block in work after an instruction
LEMMA WithFields ==
  ASSUME cur \in WalkSet, NEW i \in Insn,
         NEW branch \in Seq(Target), NEW call \in Seq(Target), NEW e \in Ends
  PROVE  /\ With(i, branch, call, e) \in WalkSet
         /\ With(i, branch, call, e).seg = cur.seg
         /\ With(i, branch, call, e).start = cur.start
         /\ Starts(With(i, branch, call, e)) = Starts(cur) \cup {cur.at}
         /\ With(i, branch, call, e).seen = cur.seen
         /\ With(i, branch, call, e).base = cur.base
         /\ With(i, branch, call, e).orphan => cur.orphan \/ (i.seg = cur.seg /\ Registers(i))
<1> DEFINE w == With(i, branch, call, e)
           insns == cur.insns \cup {[addr |-> cur.at, len |-> i.len]}
           orphan == cur.orphan \/ (i.op \in {"call", "jmp"} /\ i.seg = cur.seg /\ Registers(i))
<1>1. i.len \in {1, 2} /\ cur.at \in Nat
  BY DEF Insn, WalkSet
<1>2. cur.at + i.len \in Nat
  BY <1>1
<1>3. insns \in SUBSET [addr : Nat, len : {1, 2}]
  BY <1>1 DEF WalkSet
<1>4. cur.branches \o branch \in Seq(Target) /\ cur.calls \o call \in Seq(Target)
  BY DEF WalkSet
<1>5. w = [seg |-> cur.seg, start |-> cur.start, at |-> cur.at + i.len, end |-> e,
           insns |-> insns, branches |-> cur.branches \o branch,
           calls |-> cur.calls \o call, aliases |-> cur.aliases,
           base |-> cur.base, seen |-> cur.seen, orphan |-> orphan]
  BY Zenon DEF With
<1>6. w \in WalkSet
  <2>1. /\ cur.seg \in Seg \cup {Near} /\ cur.start \in Off /\ cur.aliases \in SUBSET Target
        /\ cur.base \in Nat /\ cur.seen \in SUBSET Nat
    BY DEF WalkSet
  <2>0. orphan \in BOOLEAN
    <3>1. cur.orphan \in BOOLEAN
      BY DEF WalkSet
    <3>2. QED
      BY <3>1, Zenon
  <2> HIDE DEF w, insns, orphan
  <2>2. QED
    BY <1>2, <1>3, <1>4, <1>5, <2>0, <2>1 DEF WalkSet
<1>7. Starts(w) = Starts(cur) \cup {cur.at}
  <2> HIDE DEF w, insns, orphan
  <2>1. w.insns = insns
    BY <1>5
  <2>2. \A a, j : j \in insns <=> j \in cur.insns \/ j = [addr |-> cur.at, len |-> i.len]
    BY DEF insns
  <2>3. Starts(w) = {j.addr : j \in insns}
    BY <2>1, Zenon DEF Starts
  <2>4. {j.addr : j \in insns} = {j.addr : j \in cur.insns} \cup {cur.at}
    <3>1. \A x \in {j.addr : j \in insns} : x \in {j.addr : j \in cur.insns} \cup {cur.at}
      BY <2>2
    <3>2. cur.at \in {j.addr : j \in insns}
      <4>1. [addr |-> cur.at, len |-> i.len] \in insns
        BY <2>2, Zenon
      <4>2. [addr |-> cur.at, len |-> i.len].addr = cur.at
        OBVIOUS
      <4>3. QED
        BY <4>1, <4>2, Zenon
    <3>3. \A x \in {j.addr : j \in cur.insns} : x \in {j.addr : j \in insns}
      BY <2>2
    <3>4. QED
      BY <3>1, <3>2, <3>3
  <2>5. QED
    BY <2>3, <2>4, Zenon DEF Starts
<1>8. w.seg = cur.seg /\ w.start = cur.start /\ w.seen = cur.seen /\ w.base = cur.base
      /\ w.orphan = orphan
  <2> HIDE DEF w, insns, orphan
  <2>1. QED
    BY <1>5
<1>9. QED
  BY <1>6, <1>7, <1>8

\* A step that leaves the blocks, the pending entry points and the seeds alone keeps what
\* refers to those only.
LEMMA BlocksKept ==
  ASSUME Inv, UNCHANGED <<rom, pending, blocks, loaded, cmd>>, short \subseteq short'
  PROVE  /\ NoAddressTwice' /\ Reached'
         /\ \A n \in DOMAIN pending' : ReachedFrom(pending[n])'
         /\ ReachedFrom(<<cur.seg, cur.start>>) /\ cur'.seg = cur.seg /\ cur'.start = cur.start
              => ReachedFrom(<<cur.seg, cur.start>>)'
<1>1. Seeds' = Seeds
  BY DEF Seeds
<1>2. NoAddressTwice'
  BY DEF Inv, NoAddressTwice
<1>3. Reached'
  BY <1>1 DEF Inv, Reached
<1>4. \A n \in DOMAIN pending' : ReachedFrom(pending[n])'
  BY <1>1 DEF Inv, PendingReached, ReachedFrom
<1>5. QED
  BY <1>1, <1>2, <1>3, <1>4 DEF ReachedFrom

\* An instruction of the block in work, whatever its operation, keeps the invariant.
LEMMA StepKeeps ==
  ASSUME Inv, Walking, Unchanged, pc' \in {"walk", "store"},
         NEW i \in Insn, NEW branch \in Seq(Target), NEW call \in Seq(Target), NEW e \in Ends,
         cur' = With(i, branch, call, e),
         SegmentsKept, i.seg = cur.seg /\ Registers(i) => cur.seg \in short
  PROVE  Inv'
<1>1. /\ cur' \in WalkSet /\ cur'.seg = cur.seg /\ cur'.start = cur.start
      /\ Starts(cur') = Starts(cur) \cup {cur.at}
      /\ cur'.seen = cur.seen /\ cur'.base = cur.base
      /\ cur'.orphan => cur.orphan \/ (i.seg = cur.seg /\ Registers(i))
  BY WithFields DEF Inv, Types
<1>2. cur.seg \in Seg /\ cur.at \notin cur.seen
  BY WalkingAt DEF Inv
<1>3. /\ segs[cur.seg].max > 0 /\ Starts(cur) \cap cur.seen = {}
      /\ \/ cur.seg \in short
         \/ cur.seen = covered[cur.seg] /\ cur.base = segs[cur.seg].base /\ ~cur.orphan
  BY DEF Inv, CurOK, Walking
<1>4. Types'
  BY <1>1 DEF Inv, Types, Unchanged, SegmentsKept
<1>5. BlocksOK'
  <2>1. \A n \in DOMAIN blocks : blocks[n].seg \in Seg
    <3>1. \A n \in DOMAIN blocks : blocks[n] \in BlockSet
      BY DEF Inv, Types
    <3>2. QED
      BY <3>1 DEF BlockSet
  <2>2. QED
    BY <2>1 DEF Inv, BlocksOK, Unchanged, SegmentsKept
<1>6. CurOK'
  <2>1. segs'[cur.seg].max > 0 /\ Starts(cur') \cap cur.seen = {}
    BY <1>1, <1>2, <1>3 DEF SegmentsKept
  <2>2. \/ cur.seg \in short'
        \/ cur.seen = covered'[cur.seg] /\ cur.base = segs'[cur.seg].base /\ ~cur'.orphan
    BY <1>1, <1>2, <1>3 DEF SegmentsKept
  <2>3. QED
    BY <1>1, <1>2, <2>1, <2>2 DEF CurOK
<1>7. NoAddressTwice' /\ Reached' /\ PendingReached'
  BY <1>1, BlocksKept DEF Inv, PendingReached, Unchanged, Walking, SegmentsKept
<1>8. SegmentsOK'
  BY DEF SegmentsKept, SegmentsOK
<1>9. QED
  BY <1>4, <1>5, <1>6, <1>7, <1>8 DEF Inv

\* The five kinds of instruction keep the invariant, those that register a segment too.
LEMMA InstructionKeeps ==
  ASSUME Inv, StepPlain \/ StepBranch \/ StepCall \/ EndJump \/ EndReturn
  PROVE  Inv'
<1> DEFINE i == Decode(Here)
<1>1. Walking /\ Unchanged /\ pc' \in {"walk", "store"}
  BY DEF StepPlain, StepBranch, StepCall, EndJump, EndReturn, Walking
<1>2. i \in Insn /\ cur.seg \in Seg
  BY <1>1, WalkingAt DEF Inv
<1>3. SegmentsKept
  <2>1. /\ SegInv(segs) /\ Reaching(segs, short) /\ ShortOK(short, named)
        /\ covered \in [Seg -> SUBSET Nat] /\ SegmentsOK
    BY DEF Inv, Types, SegmentsOK
  <2>2. CASE UNCHANGED <<segs, covered>> /\ UNCHANGED history
    <3>1. UNCHANGED <<segs, named, short>>
      BY <2>2 DEF history
    <3>2. SegmentsOK'
      BY <2>1, <3>1, SegmentsStay
    <3>3. QED
      BY <2>1, <2>2, <3>1, <3>2 DEF SegmentsKept, SegmentsOK
  <2>3. CASE Register(i)
    <3> HIDE DEF i
    <3>1. QED
      BY <1>2, <2>1, <2>3, RegisterKeeps
  <2>4. QED
    BY <2>2, <2>3 DEF StepPlain, StepBranch, StepCall, EndJump, EndReturn
<1>4. <<>> \in Seq(Target) /\ TargetOf(cur.seg, i) \in Seq(Target)
      /\ <<<<cur.seg, i.off>>>> \in Seq(Target)
  <2> HIDE DEF i
  <2>1. <<cur.seg, i.off>> \in Target
    BY <1>2 DEF Insn, Target
  <2>2. QED
    BY <1>2, <2>1, TargetOfType
<1>5. \E branch, call \in Seq(Target), e \in Ends : cur' = With(i, branch, call, e)
  <2>1. CASE StepPlain
    <3>1. cur' = With(i, <<>>, <<>>, "limit")
      BY <2>1 DEF StepPlain
    <3>2. "limit" \in Ends
      BY DEF Ends
    <3>3. QED
      BY <1>4, <3>1, <3>2, Zenon
  <2>2. CASE StepBranch
    <3>1. cur' = With(i, <<<<cur.seg, i.off>>>>, <<>>, "limit")
      BY <2>2 DEF StepBranch
    <3>2. "limit" \in Ends
      BY DEF Ends
    <3> HIDE DEF i
    <3>3. QED
      BY <1>4, <3>1, <3>2, Zenon
  <2>3. CASE StepCall
    <3>1. cur' = With(i, <<>>, TargetOf(cur.seg, i), "limit")
      BY <2>3 DEF StepCall
    <3>2. "limit" \in Ends
      BY DEF Ends
    <3> HIDE DEF i
    <3>3. QED
      BY <1>4, <3>1, <3>2, Zenon
  <2>4. CASE EndJump
    <3>1. cur' = With(i, TargetOf(cur.seg, i), <<>>, "jmp")
      BY <2>4 DEF EndJump
    <3>2. "jmp" \in Ends
      BY DEF Ends
    <3> HIDE DEF i
    <3>3. QED
      BY <1>4, <3>1, <3>2, Zenon
  <2>5. CASE EndReturn
    <3>1. cur' = With(i, <<>>, <<>>, i.op) /\ i.op \in {"ret", "indirect"}
      BY <2>5 DEF EndReturn
    <3> HIDE DEF i
    <3>2. i.op \in Ends
      BY <3>1 DEF Ends
    <3>3. QED
      BY <1>4, <3>1, <3>2, Zenon
  <2>6. QED
    BY <2>1, <2>2, <2>3, <2>4, <2>5
<1>6. i.seg = cur.seg /\ Registers(i) => cur.seg \in short
  <2>1. segs[cur.seg].max > 0
    BY <1>1 DEF Inv, CurOK, Walking
  <2> HIDE DEF i
  <2>2. QED
    BY <1>2, <2>1, RegisteredShort DEF Inv, SegmentsOK
<1> HIDE DEF i
<1>7. QED
  BY <1>1, <1>2, <1>3, <1>5, <1>6, StepKeeps

\* So does the end of a block before an address.
LEMMA EndBeforeKeeps ==
  ASSUME Inv, EndBefore
  PROVE  Inv'
<1>1. /\ cur' = [cur EXCEPT !.end = EndReason]
      /\ pc = "walk" /\ pc' = "store" /\ UNCHANGED <<segs, covered, named, short>> /\ Unchanged
  BY DEF EndBefore, history
<1>2. EndReason \in Ends /\ cur \in WalkSet
  BY DEF EndReason, Ends, EndBefore, Inv, Types
<1>3. /\ cur' \in WalkSet /\ cur'.seg = cur.seg /\ cur'.start = cur.start
      /\ cur'.insns = cur.insns /\ cur'.seen = cur.seen /\ cur'.base = cur.base
      /\ cur'.orphan = cur.orphan
  BY <1>1, <1>2 DEF WalkSet
<1>4. Types'
  BY <1>1, <1>3 DEF Inv, Types, Unchanged
<1>5. BlocksOK'
  BY <1>1 DEF Inv, BlocksOK, Unchanged
<1>6. CurOK'
  BY <1>1, <1>3 DEF Inv, CurOK, Starts
<1>7. NoAddressTwice' /\ Reached' /\ PendingReached'
  BY <1>1, <1>3, BlocksKept DEF Inv, PendingReached, Unchanged
<1>8. SegmentsOK'
  BY <1>1, SegmentsStay DEF Inv
<1>9. QED
  BY <1>4, <1>5, <1>6, <1>7, <1>8 DEF Inv

------------------------------------------------------------------------------
(* The steps of trace                                                        *)

\* The head of the list is one of its elements, and so are the elements of the tail.
LEMMA PopElements ==
  ASSUME Types, pending # <<>>
  PROVE  /\ Tail(pending) \in Seq(Target) /\ Head(pending) \in Target
         /\ 1 \in DOMAIN pending /\ Head(pending) = pending[1]
         /\ \A n \in DOMAIN Tail(pending) : n + 1 \in DOMAIN pending
                                            /\ Tail(pending)[n] = pending[n + 1]
<1>1. pending \in Seq(Target) /\ Len(pending) \in Nat \ {0}
  BY DEF Types
<1>2. QED
  BY <1>1

\* An entry point that needs no block
LEMMA SkipKeeps ==
  ASSUME Inv, Skip
  PROVE  Inv'
<1>1. /\ pc = "next" /\ pending # <<>> /\ pending' = Tail(pending)
      /\ UNCHANGED <<rom, segs, covered, blocks, loaded, cur, pc, cmd, sessions, cut, named, short>>
  BY DEF Skip, Pop, history
<1>2. pending' \in Seq(Target) /\ \A n \in DOMAIN pending' : \E m \in DOMAIN pending :
                                    pending'[n] = pending[m]
  BY <1>1, PopElements DEF Inv
<1>3. Types'
  BY <1>1, <1>2 DEF Inv, Types
<1>4. BlocksOK' /\ CurOK' /\ NoAddressTwice'
  BY <1>1 DEF Inv, BlocksOK, CurOK, NoAddressTwice
<1>5. Seeds' = Seeds
  BY <1>1 DEF Seeds
<1>6. Reached' /\ \A t : ReachedFrom(t) => ReachedFrom(t)'
  BY <1>1, <1>5 DEF Inv, Reached, ReachedFrom
<1>7. PendingReached'
  BY <1>1, <1>2, <1>6 DEF Inv, PendingReached
<1>8. SegmentsOK'
  BY <1>1, SegmentsStay DEF Inv
<1>9. QED
  BY <1>3, <1>4, <1>6, <1>7, <1>8 DEF Inv

\* An alias changes nothing else of the blocks.
LEMMA NoteKeeps ==
  ASSUME Types, NEW t \in Target, Note(t)
  PROVE  /\ blocks' \in Seq(BlockSet) /\ Len(blocks') = Len(blocks)
         /\ DOMAIN blocks' = DOMAIN blocks
         /\ \A n \in DOMAIN blocks :
              /\ blocks'[n].seg = blocks[n].seg /\ blocks'[n].start = blocks[n].start
              /\ blocks'[n].insns = blocks[n].insns /\ blocks'[n].end = blocks[n].end
              /\ blocks'[n].branches = blocks[n].branches /\ blocks'[n].calls = blocks[n].calls
<1>1. blocks \in Seq(BlockSet)
  BY DEF Types
<1>2. CASE UNCHANGED blocks
  BY <1>1, <1>2
<1>3. CASE \E s \in Twins(t) :
          blocks' = [n \in DOMAIN blocks |->
                       IF blocks[n].seg = s /\ File(s, blocks[n].start) = File(t[1], t[2])
                       THEN [blocks[n] EXCEPT !.aliases = @ \cup {t}] ELSE blocks[n]]
  <2>1. DOMAIN blocks' = DOMAIN blocks /\ DOMAIN blocks = 1 .. Len(blocks)
    BY <1>1, <1>3
  <2>2. \A b \in BlockSet :
          LET c == [b EXCEPT !.aliases = @ \cup {t}]
          IN /\ c \in BlockSet /\ c.seg = b.seg /\ c.start = b.start /\ c.insns = b.insns
             /\ c.branches = b.branches /\ c.calls = b.calls /\ c.end = b.end
    BY DEF BlockSet
  <2>3. \A n \in DOMAIN blocks :
          blocks'[n] = [blocks[n] EXCEPT !.aliases = @ \cup {t}] \/ blocks'[n] = blocks[n]
    BY <1>3
  <2>4. \A n \in DOMAIN blocks : blocks[n] \in BlockSet
    BY <1>1
  <2>5. \A n \in DOMAIN blocks :
              /\ blocks'[n] \in BlockSet
              /\ blocks'[n].seg = blocks[n].seg /\ blocks'[n].start = blocks[n].start
              /\ blocks'[n].insns = blocks[n].insns /\ blocks'[n].end = blocks[n].end
              /\ blocks'[n].branches = blocks[n].branches /\ blocks'[n].calls = blocks[n].calls
    BY <2>2, <2>3, <2>4, Zenon
  <2>6. blocks' \in Seq(BlockSet) /\ Len(blocks') = Len(blocks)
    <3>1. blocks' \in [1 .. Len(blocks) -> BlockSet]
      <4>1. \E f \in [1 .. Len(blocks) -> BlockSet] : blocks' = f
        <5>1. blocks' = [n \in 1 .. Len(blocks) |-> blocks'[n]]
          BY <1>3, <2>1, Zenon
        <5>2. QED
          BY <5>1, <2>1, <2>5, Zenon
      <4>2. QED
        BY <4>1
    <3>2. Len(blocks) \in Nat
      BY <1>1
    <3>3. QED
      BY <3>1, <3>2
  <2>7. QED
    BY <2>1, <2>5, <2>6
<1>4. QED
  BY <1>2, <1>3 DEF Note

\* What taking an entry point and noting its alias leaves
LEMMA PopNotes ==
  ASSUME Inv, Pop, Note(Head(pending)),
         UNCHANGED <<rom, segs, covered, loaded, cmd, sessions, cut, named, short>>
  PROVE  /\ pending' \in Seq(Target) /\ blocks' \in Seq(BlockSet) /\ Len(blocks') = Len(blocks)
         /\ Head(pending) \in Target /\ ReachedFrom(Head(pending))
         /\ SegmentsOK' /\ BlocksOK' /\ NoAddressTwice' /\ Reached'
         /\ \A u : ReachedFrom(u) => ReachedFrom(u)'
         /\ \A n \in DOMAIN pending' : ReachedFrom(pending[n])'
<1> DEFINE t == Head(pending)
<1>1. pending # <<>> /\ pending' = Tail(pending)
      /\ UNCHANGED <<rom, segs, covered, loaded, cmd, sessions, cut, named, short>>
  BY DEF Pop
<1>2. /\ t \in Target /\ 1 \in DOMAIN pending /\ t = pending[1]
      /\ pending' \in Seq(Target)
      /\ \A n \in DOMAIN pending' : \E m \in DOMAIN pending : pending'[n] = pending[m]
  BY <1>1, PopElements DEF Inv
<1> HIDE DEF t
<1>4. /\ blocks' \in Seq(BlockSet) /\ Len(blocks') = Len(blocks)
      /\ DOMAIN blocks' = DOMAIN blocks
      /\ \A n \in DOMAIN blocks :
           /\ blocks'[n].seg = blocks[n].seg /\ blocks'[n].start = blocks[n].start
           /\ blocks'[n].insns = blocks[n].insns
           /\ blocks'[n].branches = blocks[n].branches /\ blocks'[n].calls = blocks[n].calls
  BY <1>2, NoteKeeps DEF Inv, t
<1>5. BlocksOK' /\ NoAddressTwice' /\ SegmentsOK'
  <2>1. BlocksOK'
    BY <1>1, <1>4 DEF Inv, BlocksOK, Bytes
  <2>2. NoAddressTwice'
    BY <1>1, <1>4 DEF Inv, NoAddressTwice, Bytes, Starts
  <2>3. QED
    BY <1>1, <2>1, <2>2, SegmentsStay DEF Inv
<1>6. Seeds' = Seeds
  BY <1>1 DEF Seeds
<1>7. \A n \in DOMAIN blocks : Successors(blocks'[n]) = Successors(blocks[n])
  <2>1. ASSUME NEW x, NEW y, x.branches = y.branches, x.calls = y.calls
        PROVE  Successors(x) = Successors(y)
    BY <2>1, Zenon DEF Successors
  <2>2. QED
    BY <1>4, <2>1, Zenon
<1>8. loaded \in Nat /\ DOMAIN blocks = 1 .. Len(blocks) /\ Len(blocks) \in Nat
  BY DEF Inv, Types
<1>9. Reached'
  <2>1. \A n \in DOMAIN blocks : /\ <<blocks'[n].seg, blocks'[n].start>>
                                     = <<blocks[n].seg, blocks[n].start>>
                                  /\ Successors(blocks'[n]) = Successors(blocks[n])
    BY <1>4, <1>7, Zenon
  <2>2. \A n \in loaded + 1 .. Len(blocks) : \A m \in loaded + 1 .. n - 1 :
          m \in DOMAIN blocks /\ n \in DOMAIN blocks
    BY <1>8
  <2>3. \A n \in loaded + 1 .. Len(blocks) : n \in DOMAIN blocks
    BY <1>8
  <2>4. ASSUME NEW n \in loaded + 1 .. Len(blocks)
        PROVE  \/ <<blocks'[n].seg, blocks'[n].start>> \in Seeds
               \/ \E m \in loaded + 1 .. n - 1 :
                    <<blocks'[n].seg, blocks'[n].start>> \in Successors(blocks'[m])
    <3>1. \/ <<blocks[n].seg, blocks[n].start>> \in Seeds
          \/ \E m \in loaded + 1 .. n - 1 :
               <<blocks[n].seg, blocks[n].start>> \in Successors(blocks[m])
      BY DEF Inv, Reached
    <3>2. QED
      BY <2>1, <2>2, <2>3, <3>1, Zenon
  <2>5. loaded' = loaded /\ Len(blocks') = Len(blocks)
    BY <1>1, <1>4
  <2>6. QED
    BY <1>6, <2>4, <2>5, Zenon DEF Reached, Successors
<1>10. \A u : ReachedFrom(u) => ReachedFrom(u)'
  <2>1. \A m \in loaded + 1 .. Len(blocks) : m \in DOMAIN blocks
    BY <1>8
  <2>2. loaded' = loaded /\ Len(blocks') = Len(blocks)
    BY <1>1, <1>4
  <2>3. \A u, n : u \in Successors(blocks[n]) /\ n \in loaded + 1 .. Len(blocks)
                   => u \in Successors(blocks'[n])
    BY <1>7, <2>1, Zenon
  <2>4. QED
    BY <1>6, <2>2, <2>3 DEF ReachedFrom, Successors
<1>11. \A n \in DOMAIN pending' : ReachedFrom(pending[n])'
  BY <1>2, <1>10 DEF Inv, PendingReached
<1>12. ReachedFrom(t)
  BY <1>2 DEF Inv, PendingReached
<1>13. QED
  BY <1>2, <1>4, <1>5, <1>9, <1>10, <1>11, <1>12 DEF t

\* An entry point outside the ROM, or a stop
LEMMA DismissKeeps ==
  ASSUME Inv, Dismiss
  PROVE  Inv'
<1>1. /\ Pop /\ pc = "next" /\ Note(Head(pending))
      /\ UNCHANGED <<rom, segs, covered, loaded, cur, pc, cmd, sessions, cut, named, short>>
  BY DEF Dismiss, Pop, history
<1>2. /\ pending' \in Seq(Target) /\ blocks' \in Seq(BlockSet) /\ Len(blocks') = Len(blocks)
      /\ SegmentsOK' /\ BlocksOK' /\ NoAddressTwice' /\ Reached'
      /\ \A n \in DOMAIN pending' : ReachedFrom(pending[n])'
  BY <1>1, PopNotes
<1>3. Types'
  BY <1>1, <1>2 DEF Inv, Types
<1>4. CurOK' /\ PendingReached'
  BY <1>1, <1>2 DEF CurOK, PendingReached
<1>5. QED
  BY <1>2, <1>3, <1>4 DEF Inv

\* An entry point whose block begins
LEMMA BeginKeeps ==
  ASSUME Inv, Begin
  PROVE  Inv'
<1> DEFINE t == Head(pending)
<1>1. /\ Pop /\ pc' = "walk" /\ Wanted(t) /\ Note(t)
      /\ UNCHANGED <<rom, segs, covered, loaded, cmd, sessions, cut, named, short>>
  BY DEF Begin, Pop, history
<1>2. cur' = [seg |-> t[1], start |-> t[2], at |-> t[2], end |-> "limit",
              insns |-> {}, branches |-> <<>>, calls |-> <<>>, aliases |-> {},
              base |-> segs[t[1]].base, seen |-> covered[t[1]], orphan |-> FALSE]
  BY DEF Begin
<1>3. /\ pending' \in Seq(Target) /\ blocks' \in Seq(BlockSet) /\ Len(blocks') = Len(blocks)
      /\ t \in Target /\ ReachedFrom(t)
      /\ SegmentsOK' /\ BlocksOK' /\ NoAddressTwice' /\ Reached'
      /\ \A u : ReachedFrom(u) => ReachedFrom(u)'
      /\ \A n \in DOMAIN pending' : ReachedFrom(pending[n])'
  BY <1>1, PopNotes
<1> HIDE DEF t
<1>4. t[1] \in Seg /\ t[2] \in Off /\ t[2] \in Nat /\ t = <<t[1], t[2]>>
  BY <1>3, TraceAssumption DEF Target, Off
<1>5. segs[t[1]].base \in Nat /\ segs[t[1]].max \in Nat /\ covered[t[1]] \in SUBSET Nat
  BY <1>4, SegmentFields DEF Inv, SegmentsOK, SegInv, Types
<1>6. /\ cur' \in WalkSet /\ cur'.seg = t[1] /\ cur'.start = t[2] /\ cur'.insns = {}
      /\ cur'.base = segs[t[1]].base /\ cur'.seen = covered[t[1]] /\ ~cur'.orphan
  <2>1. <<>> \in Seq(Target) /\ {} \in SUBSET [addr : Nat, len : {1, 2}]
        /\ {} \in SUBSET Target /\ "limit" \in Ends
    BY DEF Ends
  <2>2. QED
    BY <1>2, <1>4, <1>5, <2>1 DEF WalkSet
<1>7. Types'
  BY <1>1, <1>3, <1>6 DEF Inv, Types
<1>8. CurOK'
  <2>1. segs[t[1]].max > 0
    BY <1>1, <1>4, <1>5 DEF Wanted
  <2>2. Starts(cur') = {}
    BY <1>6 DEF Starts
  <2>3. QED
    BY <1>1, <1>4, <1>6, <2>1, <2>2 DEF CurOK
<1>9. PendingReached'
  <2>1. ReachedFrom(<<cur.seg, cur.start>>)'
    BY <1>3, <1>4, <1>6 DEF ReachedFrom
  <2>2. QED
    BY <1>3, <2>1 DEF PendingReached
<1>10. QED
  BY <1>3, <1>7, <1>8, <1>9 DEF Inv

\* The targets that are not covered yet are targets of the block.
LEMMA UncoveredTargets ==
  ASSUME NEW list \in Seq(Target)
  PROVE  /\ Uncovered(list) \in Seq(Target)
         /\ \A k \in DOMAIN Uncovered(list) : \E n \in DOMAIN list : Uncovered(list)[k] = list[n]
<1> DEFINE K == {n \in DOMAIN list : list[n][2] \notin covered'[list[n][1]]}
<1>1. K \in SUBSET DOMAIN list /\ Uncovered(list) = Picked(list, K)
  BY DEF Uncovered
<1> HIDE DEF K
<1>2. QED
  BY <1>1, PickedInOrder

Elements(list) == {list[n] : n \in DOMAIN list}

\* The elements of two sequences joined are the elements of the two.
LEMMA JoinedElements ==
  ASSUME NEW S, NEW p \in Seq(S), NEW q \in Seq(S)
  PROVE  /\ p \o q \in Seq(S)
         /\ Elements(p \o q) = Elements(p) \cup Elements(q)
<1> DEFINE r == p \o q
<1>1. r \in Seq(S) /\ Len(r) = Len(p) + Len(q) /\ Len(p) \in Nat /\ Len(q) \in Nat
      /\ DOMAIN p = 1 .. Len(p) /\ DOMAIN q = 1 .. Len(q) /\ DOMAIN r = 1 .. Len(p) + Len(q)
  OBVIOUS
<1>2. \A n \in DOMAIN p : n \in DOMAIN r /\ r[n] = p[n]
  BY <1>1
<1>3. \A n \in DOMAIN q : n + Len(p) \in DOMAIN r /\ r[n + Len(p)] = q[n]
  BY <1>1
<1>4. ASSUME NEW n \in DOMAIN r
      PROVE  n \in DOMAIN p \/ (n - Len(p) \in DOMAIN q /\ r[n] = q[n - Len(p)])
  <2>1. CASE n <= Len(p)
    BY <1>1, <2>1
  <2>2. CASE n > Len(p)
    BY <1>1, <2>2
  <2>3. QED
    BY <1>1, <2>1, <2>2
<1> HIDE DEF r
<1>5. Elements(r) = Elements(p) \cup Elements(q)
  BY <1>2, <1>3, <1>4 DEF Elements
<1>6. QED
  BY <1>1, <1>5 DEF r

\* So with three of them
LEMMA ThreeElements ==
  ASSUME NEW S, NEW p \in Seq(S), NEW q \in Seq(S), NEW r \in Seq(S)
  PROVE  /\ p \o q \o r \in Seq(S)
         /\ Elements(p \o q \o r) = Elements(p) \cup Elements(q) \cup Elements(r)
<1>0. p \o q \in Seq(S)
  OBVIOUS
<1>1. Elements(p \o q) = Elements(p) \cup Elements(q)
  BY JoinedElements, Zenon
<1>2. Elements((p \o q) \o r) = Elements(p \o q) \cup Elements(r)
  BY <1>0, JoinedElements, Zenon
<1>3. (p \o q) \o r \in Seq(S)
  BY <1>0
<1>4. QED
  BY <1>1, <1>2, <1>3

\* The finished block
LEMMA StoreKeeps ==
  ASSUME Inv, Store
  PROVE  Inv'
<1> DEFINE last == Len(blocks) + 1
           u == Uncovered(cur.branches)
           v == Uncovered(cur.calls)
<1>1. /\ pc = "store" /\ pc' = "next" /\ blocks' = Append(blocks, Block)
      /\ covered' = IF cur.orphan THEN covered ELSE [covered EXCEPT ![cur.seg] = @ \cup Bytes(cur)]
      /\ UNCHANGED <<rom, segs, loaded, cur, cmd, sessions, cut, named, short>>
  BY DEF Store, history
<1>2. pending' = pending \o u \o v
  BY DEF Store
<1>3. /\ cur.seg \in Seg /\ segs[cur.seg].max > 0
      /\ \/ cur.seg \in short
         \/ Starts(cur) \cap covered[cur.seg] = {} /\ ~cur.orphan
      /\ ReachedFrom(<<cur.seg, cur.start>>)
  BY <1>1 DEF Inv, CurOK, PendingReached
<1>4. /\ Block \in BlockSet /\ Block.seg = cur.seg /\ Block.start = cur.start
      /\ Block.insns = cur.insns /\ Block.branches = cur.branches /\ Block.calls = cur.calls
  <2>1. cur \in WalkSet
    BY DEF Inv, Types
  <2>2. QED
    BY <1>3, <2>1 DEF Block, BlockSet, WalkSet
<1>5. /\ blocks \in Seq(BlockSet) /\ Len(blocks) \in Nat /\ loaded \in Nat
      /\ loaded <= Len(blocks)
  BY DEF Inv, Types
<1>6. /\ blocks' \in Seq(BlockSet) /\ Len(blocks') = last /\ blocks'[last] = Block
      /\ \A n \in DOMAIN blocks : blocks'[n] = blocks[n]
      /\ DOMAIN blocks' = 1 .. last /\ DOMAIN blocks = 1 .. Len(blocks)
  BY <1>1, <1>4, <1>5
<1> HIDE DEF last, u, v
<1>7. Bytes(cur) \in SUBSET Nat
  <2>1. \A i \in cur.insns : i.addr \in Nat /\ i.len \in {1, 2}
    BY DEF Inv, Types, WalkSet
  <2>2. \A i \in cur.insns : i.addr .. i.addr + i.len - 1 \in SUBSET Nat
    BY <2>1
  <2>3. QED
    BY <2>2 DEF Bytes
<1>8. /\ covered' \in [Seg -> SUBSET Nat]
      /\ \A s \in Seg : covered[s] \subseteq covered'[s]
      /\ cur.seg \in short \/ Bytes(cur) \subseteq covered'[cur.seg]
  BY <1>1, <1>3, <1>7 DEF Inv, Types
<1>9. /\ u \in Seq(Target) /\ v \in Seq(Target)
      /\ \A k \in DOMAIN u : \E n \in DOMAIN cur.branches : u[k] = cur.branches[n]
      /\ \A k \in DOMAIN v : \E n \in DOMAIN cur.calls : v[k] = cur.calls[n]
  <2>1. cur.branches \in Seq(Target) /\ cur.calls \in Seq(Target)
    BY DEF Inv, Types, WalkSet
  <2>2. QED
    BY <2>1, UncoveredTargets DEF u, v
<1>10. Types'
  <2>1. pending \in Seq(Target)
    BY DEF Inv, Types
  <2>2. pending' \in Seq(Target)
    BY <1>2, <1>9, <2>1
  <2>3. loaded' \in 0 .. Len(blocks')
    BY <1>1, <1>5, <1>6 DEF last
  <2>4. QED
    BY <1>1, <1>6, <1>8, <2>2, <2>3 DEF Inv, Types
<1>11. \A n \in DOMAIN blocks : blocks[n].seg \in Seg
  <2>1. \A n \in DOMAIN blocks : blocks[n] \in BlockSet
    BY <1>5
  <2>2. QED
    BY <2>1 DEF BlockSet
<1>12. Bytes(Block) = Bytes(cur) /\ Starts(Block) = Starts(cur)
  BY <1>4, Zenon DEF Bytes, Starts
<1>13. \A n \in DOMAIN blocks' : n \in DOMAIN blocks \/ n = last
  BY <1>5, <1>6 DEF last
<1>14. BlocksOK' /\ CurOK' /\ SegmentsOK'
  <2>1. ASSUME NEW n \in DOMAIN blocks'
        PROVE  /\ segs[blocks'[n].seg].max > 0
               /\ \/ blocks'[n].seg \in short
                  \/ Bytes(blocks'[n]) \subseteq covered'[blocks'[n].seg]
    <3>1. CASE n \in DOMAIN blocks
      BY <1>6, <1>8, <1>11, <3>1 DEF Inv, BlocksOK
    <3>2. CASE n = last
      BY <1>3, <1>4, <1>6, <1>8, <1>12, <3>2
    <3>3. QED
      BY <1>13, <3>1, <3>2
  <2>2. BlocksOK'
    BY <1>1, <2>1 DEF BlocksOK, Bytes
  <2>3. SegmentsOK'
    BY <1>1, SegmentsStay DEF Inv
  <2>4. QED
    BY <1>1, <2>2, <2>3 DEF CurOK
<1>15. NoAddressTwice'
  <2>1. ASSUME NEW m \in DOMAIN blocks', NEW n \in DOMAIN blocks', m < n,
               blocks'[m].seg = blocks'[n].seg, blocks'[m].seg \notin short
        PROVE  Bytes(blocks'[m]) \cap Starts(blocks'[n]) = {}
    <3>1. m \in DOMAIN blocks
      BY <1>5, <1>6, <2>1 DEF last
    <3>2. CASE n \in DOMAIN blocks
      BY <1>6, <2>1, <3>1, <3>2 DEF Inv, NoAddressTwice
    <3>3. CASE n = last
      <4>1. Bytes(blocks[m]) \subseteq covered[cur.seg]
        BY <1>4, <1>6, <2>1, <3>1, <3>3 DEF Inv, BlocksOK
      <4>2. Starts(cur) \cap covered[cur.seg] = {}
        BY <1>3, <1>4, <1>6, <2>1, <3>1, <3>3
      <4>3. blocks'[m] = blocks[m] /\ Starts(blocks'[n]) = Starts(cur)
        BY <1>6, <1>12, <3>1, <3>3
      <4>4. QED
        BY <4>1, <4>2, <4>3, Zenon
    <3>4. QED
      BY <1>13, <3>2, <3>3
  <2>2. QED
    BY <1>1, <2>1 DEF NoAddressTwice, Bytes, Starts
<1>16. Seeds' = Seeds
  BY <1>1 DEF Seeds
<1>17. \A t : ReachedFrom(t) => ReachedFrom(t)'
  <2>1. \A m \in loaded + 1 .. Len(blocks) : m \in loaded' + 1 .. Len(blocks') /\ blocks'[m] = blocks[m]
    BY <1>1, <1>5, <1>6 DEF last
  <2>2. QED
    BY <1>16, <2>1 DEF ReachedFrom, Successors
<1>18. \A t \in Successors(Block) : ReachedFrom(t)'
  <2>1. last \in loaded' + 1 .. Len(blocks')
    BY <1>1, <1>5, <1>6 DEF last
  <2>2. \A t \in Successors(Block) :
          \E m \in loaded' + 1 .. Len(blocks') : t \in Successors(blocks'[m])
    BY <1>6, <2>1, Zenon
  <2>3. ASSUME NEW t, \E m \in loaded' + 1 .. Len(blocks') : t \in Successors(blocks'[m])
        PROVE  ReachedFrom(t)'
    BY <2>3, Zenon DEF ReachedFrom, Successors
  <2>4. QED
    BY <2>2, <2>3, Zenon
<1>19. PendingReached'
  <2>1. pending \in Seq(Target)
    BY DEF Inv, Types
  <2>2. Elements(pending') = Elements(pending) \cup Elements(u) \cup Elements(v)
    <3>1. u \in Seq(Target) /\ v \in Seq(Target)
      BY <1>9
    <3>2. Elements(pending \o u \o v) = Elements(pending) \cup Elements(u) \cup Elements(v)
      BY <2>1, <3>1, ThreeElements, SMTT(60)
    <3>3. QED
      BY <1>2, <3>2
  <2>3. \A t \in Elements(u) \cup Elements(v) : t \in Successors(Block)
    <3>1. Successors(Block) = Elements(cur.branches) \cup Elements(cur.calls)
      BY <1>4, Zenon DEF Successors, Elements
    <3>2. \A t \in Elements(u) : t \in Elements(cur.branches)
      BY <1>9 DEF Elements
    <3>3. \A t \in Elements(v) : t \in Elements(cur.calls)
      BY <1>9 DEF Elements
    <3>4. QED
      BY <3>1, <3>2, <3>3, Zenon
  <2>4. \A t \in Elements(pending) : ReachedFrom(t)
    BY DEF Inv, PendingReached, Elements
  <2>5. \A t \in Elements(pending') : ReachedFrom(t)'
    BY <1>17, <1>18, <2>2, <2>3, <2>4
  <2>6. \A n \in DOMAIN pending' : ReachedFrom(pending[n])'
    <3>1. \A n \in DOMAIN pending' : pending'[n] \in Elements(pending')
      BY DEF Elements
    <3>2. QED
      BY <2>5, <3>1 DEF ReachedFrom
  <2>7. QED
    BY <1>1, <2>6 DEF PendingReached
<1>20. Reached'
  <2>1. ASSUME NEW n \in loaded' + 1 .. Len(blocks')
        PROVE  \/ <<blocks'[n].seg, blocks'[n].start>> \in Seeds
               \/ \E m \in loaded' + 1 .. n - 1 :
                    <<blocks'[n].seg, blocks'[n].start>> \in Successors(blocks'[m])
    <3>1. CASE n = last
      <4>1. ReachedFrom(<<blocks'[n].seg, blocks'[n].start>>)
        BY <1>3, <1>4, <1>6, <3>1
      <4>2. n - 1 = Len(blocks)
        BY <1>5, <3>1 DEF last
      <4>3. \A m \in loaded + 1 .. Len(blocks) : blocks'[m] = blocks[m]
        BY <1>5, <1>6
      <4>4. QED
        BY <1>1, <4>1, <4>2, <4>3 DEF ReachedFrom
    <3>2. CASE n # last
      <4>1. n \in loaded + 1 .. Len(blocks)
        BY <1>1, <1>5, <1>6, <3>2 DEF last
      <4>2. \A m \in loaded + 1 .. n : blocks'[m] = blocks[m]
        BY <1>5, <1>6, <4>1
      <4>3. \/ <<blocks[n].seg, blocks[n].start>> \in Seeds
            \/ \E m \in loaded + 1 .. n - 1 :
                 <<blocks[n].seg, blocks[n].start>> \in Successors(blocks[m])
        BY <4>1 DEF Inv, Reached
      <4>4. n \in loaded + 1 .. n /\ \A m \in loaded + 1 .. n - 1 : m \in loaded + 1 .. n
        BY <1>5, <4>1
      <4>5. QED
        BY <1>1, <4>2, <4>3, <4>4
    <3>3. QED
      BY <3>1, <3>2
  <2>2. QED
    BY <1>16, <2>1, Zenon DEF Reached, Successors
<1>21. QED
  BY <1>10, <1>14, <1>15, <1>19, <1>20 DEF Inv

------------------------------------------------------------------------------
(* A session                                                                 *)

\* The blocks a session keeps of those before it are some of them, in their order, each in a
\* segment that is registered.
LEMMA KeptInOrder ==
  ASSUME blocks \in Seq(BlockSet), NEW table
  PROVE  LET kept == Loadable(table, Printed(blocks))
         IN /\ kept \in Seq(BlockSet)
            /\ \A n \in DOMAIN kept : table[kept[n].seg].max > 0
            /\ \A m, n \in DOMAIN kept : m < n =>
                 \E k, l \in DOMAIN blocks : k < l /\ kept[m] = blocks[k] /\ kept[n] = blocks[l]
<1> DEFINE file == Printed(blocks)
           kept == Loadable(table, file)
           K == {n \in DOMAIN blocks : blocks[n].insns # {} /\ InBLOCKS(blocks, n)}
           L == {n \in DOMAIN file : table[file[n].seg].max > 0}
<1>1. file = Picked(blocks, K) /\ K \in SUBSET DOMAIN blocks
  BY DEF Printed
<1>2. kept = Picked(file, L) /\ L \in SUBSET DOMAIN file
  BY DEF Loadable
<1>3. \A n \in L : table[file[n].seg].max > 0
  OBVIOUS
<1> HIDE DEF file, kept, K, L
<1>4. /\ file \in Seq(BlockSet)
      /\ \A k \in DOMAIN file : Nth(K, k) \in K /\ file[k] = blocks[Nth(K, k)]
      /\ \A k, l \in DOMAIN file : k < l => Nth(K, k) < Nth(K, l)
  BY <1>1, PickedInOrder
<1>5. /\ kept \in Seq(BlockSet)
      /\ \A k \in DOMAIN kept : Nth(L, k) \in L /\ kept[k] = file[Nth(L, k)]
      /\ \A k, l \in DOMAIN kept : k < l => Nth(L, k) < Nth(L, l)
  BY <1>2, <1>4, PickedInOrder
<1>6. \A n \in DOMAIN kept : table[kept[n].seg].max > 0
  BY <1>3, <1>5
<1>7. ASSUME NEW m \in DOMAIN kept, NEW n \in DOMAIN kept, m < n
      PROVE  \E k, l \in DOMAIN blocks : k < l /\ kept[m] = blocks[k] /\ kept[n] = blocks[l]
  <2>1. /\ Nth(L, m) \in DOMAIN file /\ Nth(L, n) \in DOMAIN file /\ Nth(L, m) < Nth(L, n)
        /\ kept[m] = file[Nth(L, m)] /\ kept[n] = file[Nth(L, n)]
    BY <1>2, <1>5, <1>7
  <2>2. /\ Nth(K, Nth(L, m)) \in DOMAIN blocks /\ Nth(K, Nth(L, n)) \in DOMAIN blocks
        /\ Nth(K, Nth(L, m)) < Nth(K, Nth(L, n))
        /\ kept[m] = blocks[Nth(K, Nth(L, m))] /\ kept[n] = blocks[Nth(K, Nth(L, n))]
    BY <1>1, <1>4, <2>1
  <2>3. QED
    BY <2>2, Zenon
<1>8. QED
  BY <1>5, <1>6, <1>7 DEF kept, file

\* A session that begins
LEMMA StartKeeps ==
  ASSUME Inv, NEW c \in Commands, Start(c)
  PROVE  Inv'
<1> DEFINE table == LoadedSegs(SeededSegs(c.seed), Printed(blocks))
           kept == Loadable(table, Printed(blocks))
           list == DefaultSeeds \o c.seed \o Tables(c.flags, rom)
<1>1. /\ pc = "done" /\ pc' = "next" /\ sessions < MaxSessions /\ sessions' = sessions + 1
      /\ segs' = table /\ blocks' = kept /\ loaded' = Len(kept) /\ pending' = list
      /\ cmd' = c /\ UNCHANGED <<rom, cur, cut, named, short>>
      /\ covered' = [s \in Seg |-> LoadedBytes(kept, s)]
  BY DEF Start, history
<1>2. SegInv(table) /\ \A s \in Seg : ReachesEnd(s, table[s])
  BY SessionSegments
<1> HIDE DEF table
<1>3. /\ kept \in Seq(BlockSet)
      /\ \A n \in DOMAIN kept : table[kept[n].seg].max > 0
      /\ \A m, n \in DOMAIN kept : m < n =>
           \E k, l \in DOMAIN blocks : k < l /\ kept[m] = blocks[k] /\ kept[n] = blocks[l]
  <2>1. blocks \in Seq(BlockSet)
    BY DEF Inv, Types
  <2>2. QED
    BY <2>1, KeptInOrder
<1> HIDE DEF kept
<1>4. c \in Command /\ c.seed \in Seq(Target) /\ c.flags \in SUBSET Flags
  BY TraceAssumption DEF Command
<1>5. list \in Seq(Target)
  <2>1. DefaultSeeds \in Seq(Target) /\ Tables(c.flags, rom) \in Seq(Target)
    BY <1>4, TraceAssumption DEF Inv, Types
  <2>2. QED
    BY <1>4, <2>1
<1>6. \A n \in DOMAIN kept : kept[n] \in BlockSet /\ kept[n].seg \in Seg
                            /\ Bytes(kept[n]) \in SUBSET Nat
  <2>1. \A n \in DOMAIN kept : kept[n] \in BlockSet
    BY <1>3
  <2>2. ASSUME NEW b \in BlockSet
        PROVE  Bytes(b) \in SUBSET Nat
    <3>1. \A i \in b.insns : i.addr \in Nat /\ i.len \in {1, 2}
      BY DEF BlockSet
    <3>2. \A i \in b.insns : i.addr .. i.addr + i.len - 1 \in SUBSET Nat
      BY <3>1
    <3>3. QED
      BY <3>2 DEF Bytes
  <2>3. \A b \in BlockSet : b.seg \in Seg
    BY DEF BlockSet
  <2>4. QED
    BY <2>1, <2>2, <2>3
<1>7. ASSUME NEW s \in Seg
      PROVE  LoadedBytes(kept, s) \in SUBSET Nat
  BY <1>6 DEF LoadedBytes
<1>8. \A n \in DOMAIN kept : Bytes(kept[n]) \subseteq LoadedBytes(kept, kept[n].seg)
  BY DEF LoadedBytes
<1>9. Types'
  <2>1. covered' \in [Seg -> SUBSET Nat]
    BY <1>1, <1>7
  <2>2. loaded' \in 0 .. Len(blocks')
    <3>1. Len(kept) \in Nat
      BY <1>3
    <3>2. QED
      BY <1>1, <3>1
  <2>3. sessions' \in 0 .. MaxSessions
    BY <1>1, TraceAssumption DEF Inv, Types
  <2> HIDE DEF list
  <2>4. QED
    BY <1>1, <1>3, <1>4, <1>5, <2>1, <2>2, <2>3 DEF Inv, Types
<1>10. BlocksOK'
  <2>1. \A n \in DOMAIN kept : covered'[kept[n].seg] = LoadedBytes(kept, kept[n].seg)
    BY <1>1, <1>6
  <2>2. QED
    BY <1>1, <1>3, <1>8, <2>1 DEF BlocksOK, Bytes
<1>11. CurOK' /\ SegmentsOK'
  <2>1. ShortOK(short, named)'
    BY <1>1 DEF Inv, SegmentsOK, ShortOK, TooHigh
  <2>2. Reaching(segs, short)'
    BY <1>1, <1>2 DEF Reaching, ReachesEnd
  <2>3. SegInv(segs')
    BY <1>1, <1>2
  <2>4. QED
    BY <1>1, <2>1, <2>2, <2>3 DEF CurOK, SegmentsOK
<1>12. NoAddressTwice'
  <2>1. ASSUME NEW m \in DOMAIN kept, NEW n \in DOMAIN kept, m < n, kept[m].seg = kept[n].seg,
               kept[m].seg \notin short
        PROVE  Bytes(kept[m]) \cap Starts(kept[n]) = {}
    <3>1. PICK k, l \in DOMAIN blocks : k < l /\ kept[m] = blocks[k] /\ kept[n] = blocks[l]
      BY <1>3, <2>1
    <3>2. Bytes(blocks[k]) \cap Starts(blocks[l]) = {}
      BY <2>1, <3>1 DEF Inv, NoAddressTwice
    <3>3. QED
      BY <3>1, <3>2
  <2>2. QED
    BY <1>1, <2>1 DEF NoAddressTwice, Bytes, Starts
<1>13. Reached'
  <2>1. Len(kept) \in Nat
    BY <1>3
  <2>2. loaded' + 1 .. Len(blocks') = {}
    BY <1>1, <2>1
  <2>3. QED
    BY <2>2 DEF Reached
<1>14. PendingReached'
  <2>1. Seeds' = {list[n] : n \in DOMAIN list}
    BY <1>1 DEF Seeds
  <2> HIDE DEF list
  <2>2. \A n \in DOMAIN list : list[n] \in Seeds'
    BY <2>1
  <2>3. QED
    BY <1>1, <2>2 DEF PendingReached, ReachedFrom
<1>15. QED
  BY <1>9, <1>10, <1>11, <1>12, <1>13, <1>14 DEF Inv

\* A session that ends
LEMMA FinishKeeps ==
  ASSUME Inv, Finish
  PROVE  Inv'
<1>1. /\ pc = "next" /\ pc' = "done" /\ pending' = <<>> /\ cut' \in BOOLEAN
      /\ UNCHANGED <<rom, segs, covered, blocks, loaded, cur, cmd, sessions, named, short>>
  BY DEF Finish, Inv, Types, history
<1>2. Types'
  <2>1. <<>> \in Seq(Target)
    OBVIOUS
  <2>2. QED
    BY <1>1, <2>1 DEF Inv, Types
<1>3. BlocksOK' /\ CurOK' /\ NoAddressTwice'
  BY <1>1 DEF Inv, BlocksOK, CurOK, NoAddressTwice
<1>4. Reached'
  BY <1>1 DEF Inv, Reached, Seeds
<1>5. PendingReached'
  BY <1>1 DEF PendingReached
<1>6. SegmentsOK'
  BY <1>1, SegmentsStay DEF Inv
<1>7. QED
  BY <1>2, <1>3, <1>4, <1>5, <1>6 DEF Inv

\* Before the first session there are no blocks.
LEMMA InitInv == Init => Inv
<1> SUFFICES ASSUME Init PROVE Inv
  OBVIOUS
<1>1. /\ rom \in Images /\ segs = Profile /\ covered = [s \in Seg |-> {}]
      /\ pending = <<>> /\ blocks = <<>> /\ loaded = 0 /\ cur = NoBlock /\ pc = "done"
      /\ cmd = [seed |-> <<>>, flags |-> {}] /\ sessions = 0 /\ cut = FALSE
      /\ named = {} /\ short = {}
  BY DEF Init
<1>2. SegmentsOK
  BY <1>1, ProfileAssumption DEF SegmentsOK, SegInv, Reaching, ShortOK
<1>3. NoBlock \in WalkSet
  <2>1. /\ 0 \in Off /\ "limit" \in Ends /\ <<>> \in Seq(Target)
        /\ {} \in SUBSET [addr : Nat, len : {1, 2}] /\ {} \in SUBSET Target
        /\ 0 \in Nat /\ {} \in SUBSET Nat /\ FALSE \in BOOLEAN
    BY TraceAssumption DEF Off, Ends
  <2>2. QED
    BY <2>1 DEF NoBlock, WalkSet
<1>4. cmd \in Command
  <2>1. <<>> \in Seq(Target) /\ {} \in SUBSET Flags
    OBVIOUS
  <2>2. QED
    BY <1>1, <2>1 DEF Command
<1>5. Types
  <2>1. /\ <<>> \in Seq(Target) /\ <<>> \in Seq(BlockSet) /\ Len(blocks) = 0
        /\ 0 \in 0 .. MaxSessions
    BY <1>1, TraceAssumption
  <2>2. covered \in [Seg -> SUBSET Nat]
    BY <1>1
  <2>3. loaded \in 0 .. Len(blocks)
    BY <1>1, <2>1
  <2>4. pending \in Seq(Target) /\ blocks \in Seq(BlockSet)
    BY <1>1, <2>1, Zenon
  <2>5. sessions \in 0 .. MaxSessions /\ pc \in {"done", "next", "walk", "store"} /\ cut \in BOOLEAN
    BY <1>1, <2>1
  <2>6. cur \in WalkSet
    BY <1>1, <1>3, Zenon
  <2>7. QED
    BY <1>1, <1>4, <2>2, <2>3, <2>4, <2>5, <2>6, Zenon DEF Types
<1>6. BlocksOK /\ CurOK /\ NoAddressTwice /\ Reached /\ PendingReached
  BY <1>1 DEF BlocksOK, CurOK, NoAddressTwice, Reached, PendingReached
<1>7. QED
  BY <1>2, <1>5, <1>6 DEF Inv

\* Every step of the tracer keeps the invariant.
LEMMA NextInv == Inv /\ [Next]_vars => Inv'
<1> SUFFICES ASSUME Inv, [Next]_vars PROVE Inv'
  OBVIOUS
<1>1. CASE \E c \in Commands : Start(c)
  BY <1>1, StartKeeps
<1>2. CASE Skip
  BY <1>2, SkipKeeps
<1>3. CASE Begin
  BY <1>3, BeginKeeps
<1>4. CASE StepPlain \/ StepBranch \/ StepCall \/ EndJump \/ EndReturn
  BY <1>4, InstructionKeeps
<1>5. CASE EndBefore
  BY <1>5, EndBeforeKeeps
<1>6. CASE Store
  BY <1>6, StoreKeeps
<1>7. CASE Finish
  BY <1>7, FinishKeeps
<1>8. CASE UNCHANGED vars
  <2>1. UNCHANGED <<rom, segs, covered, pending, blocks, loaded, cur, pc, cmd, sessions, cut,
                    named, short>>
    BY <1>8 DEF vars
  <2>2. Types' /\ SegmentsOK' /\ BlocksOK' /\ CurOK' /\ NoAddressTwice'
    <3>1. SegmentsOK'
      BY <2>1, SegmentsStay DEF Inv
    <3>2. QED
      BY <2>1, <3>1 DEF Inv, Types, BlocksOK, CurOK, NoAddressTwice
  <2>3. Reached'
    BY <2>1, BlocksKept
  <2>4. PendingReached'
    BY <2>1, BlocksKept DEF Inv, PendingReached
  <2>5. QED
    BY <2>2, <2>3, <2>4 DEF Inv
<1>9. CASE Dismiss
  BY <1>9, DismissKeeps
<1>10. QED
  BY <1>1, <1>2, <1>3, <1>4, <1>5, <1>6, <1>7, <1>8, <1>9 DEF Next

\* The invariant says what the types say.
LEMMA InvImpliesTypeOK == Inv => TypeOK
<1> SUFFICES ASSUME Inv PROVE TypeOK
  OBVIOUS
<1>1. \A b \in BlockSet : BlockOK(b)
  BY DEF BlockSet, BlockOK
<1>2. \A n \in DOMAIN blocks : BlockOK(blocks[n])
  <2>1. \A n \in DOMAIN blocks : blocks[n] \in BlockSet
    BY DEF Inv, Types
  <2>2. QED
    BY <1>1, <2>1
<1>3. pc \in {"walk", "store"} => BlockOK(cur) /\ cur.at \in Nat
  BY DEF Inv, Types, CurOK, WalkSet, BlockOK
<1>4. SegInv(segs) /\ Reaching(segs, short) /\ ShortOK(short, named)
  BY DEF Inv, SegmentsOK
<1>5. QED
  BY <1>2, <1>3, <1>4 DEF Inv, Types, SegInv, Reaching, ShortOK, TypeOK

------------------------------------------------------------------------------
(* The theorems                                                              *)

\* The invariant holds in every state of every behaviour.
LEMMA SpecInv == Spec => []Inv
  BY InitInv, NextInv, PTL DEF Spec

\* trace_boot.py never leaves its types, and every segment reaches the end of the ROM or of its
\* 64 KiB unless a far transfer mapped it into a bank of the profile from an address so high that
\* the ROM ends first: for every ROM, for every profile whose own segments reach their end and
\* whose banks lie above the window they show in, and for every list of options and number of
\* sessions.
THEOREM TypeCorrect == Spec => []TypeOK
  BY SpecInv, InvImpliesTypeOK, PTL

\* The deduplication of disasm_block: outside the segments registered without reaching their
\* end, no address of a segment is disassembled twice, in one session or across sessions that
\* load each other's trace.
THEOREM Deduplicated == Spec => []NoAddressTwice
<1>1. Inv => NoAddressTwice
  BY DEF Inv
<1>2. QED
  BY <1>1, SpecInv, PTL

\* trace disassembles only what control flow from the seeds of the session reaches.
THEOREM OnlyReached == Spec => []Reached
<1>1. Inv => Reached
  BY DEF Inv
<1>2. QED
  BY <1>1, SpecInv, PTL
============================================================================
