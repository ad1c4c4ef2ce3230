----------------------------- MODULE CardProofs -----------------------------
(***************************************************************************)
(* Proofs about the card and the machine that runs its programs, for every *)
(* number of clusters and directory entries, all sizes of the files and    *)
(* the programs, every set of cards that is built and files that are       *)
(* saved.                                                                  *)
(*                                                                         *)
(* VolumeHolds is the inductive invariant of the volume: there is a chain  *)
(* for each directory entry in use, of as many clusters as its file has    *)
(* sectors, that holds these sectors; no cluster is in two chains and one  *)
(* that is not free is in some.  MachInv is that of the machine: what is   *)
(* left of the program still puts back what it has set and maps the page   *)
(* before it calls into it.                                                *)
(***************************************************************************)
EXTENDS Card, TLAPS, FiniteSetTheorems, SequenceTheorems, WellFoundedInduction

------------------------------------------------------------------------------
(* Induction and recursion over a segment of the naturals                    *)

\* A set of naturals that is not empty has a least member.
LEMMA LeastNumber ==
  ASSUME NEW S \in SUBSET Nat, S # {}
  PROVE  \E x \in S : \A y \in S : x <= y
<1>1. \E x \in S : \A y \in S : ~ (<<y, x>> \in OpToRel(<, Nat))
  BY WFMin, NatLessThanWellFounded
<1>2. PICK x \in S : \A y \in S : ~ (y < x)
  BY <1>1, Zenon DEF OpToRel
<1>3. QED
  BY <1>2

\* A set that has a and with k also k + 1, up to b, has all from a to b.
LEMMA UpTo ==
  ASSUME NEW a \in Nat, NEW b \in Nat, NEW S,
         a \in S, \A k \in a .. b - 1 : k \in S => k + 1 \in S
  PROVE  \A k \in a .. b : k \in S
<1> DEFINE T == {k \in a .. b : k \notin S}
<1>1. SUFFICES ASSUME T # {} PROVE FALSE
  OBVIOUS
<1>2. T \in SUBSET Nat
  OBVIOUS
<1>3. PICK k \in T : \A j \in T : k <= j
  BY <1>1, <1>2, LeastNumber
<1>4. k \in a .. b /\ k # a
  OBVIOUS
<1>5. k - 1 \in a .. b - 1 /\ k - 1 \notin T /\ k - 1 + 1 = k
  BY <1>3, <1>4
<1>6. k - 1 \in S
  BY <1>5
<1>7. QED
  BY <1>5, <1>6

\* f has what the steps make of base one after the other.
Runs(f, D, base, n, step) ==
  /\ f \in [0 .. n -> D]
  /\ f[0] = base
  /\ \A k \in 1 .. n : f[k] = step[k][f[k - 1]]

\* What is computed in n steps, each from the result of the one before, exists.
LEMMA Iterates ==
  ASSUME NEW D, NEW base, base \in D, NEW n, n \in Nat, NEW step, step \in [1 .. n -> [D -> D]]
  PROVE  \E f : Runs(f, D, base, n, step)
<1> DEFINE Done(f, m) == /\ f \in [0 .. m -> D] /\ f[0] = base
                         /\ \A k \in 1 .. m : f[k] = step[k][f[k - 1]]
           S == {m \in 0 .. n : \E f : Done(f, m)}
<1>1. 0 \in S
  <2>1. Done([k \in 0 .. 0 |-> base], 0)
    OBVIOUS
  <2>2. \E f : Done(f, 0)
    BY <2>1
  <2> HIDE DEF Done
  <2>3. QED
    BY <2>2
<1>2. \A m \in 0 .. n - 1 : m \in S => m + 1 \in S
  <2>1. SUFFICES ASSUME NEW m \in 0 .. n - 1, NEW f, Done(f, m)
                 PROVE  \E g : Done(g, m + 1)
    OBVIOUS
  <2> DEFINE g == [k \in 0 .. m + 1 |-> IF k <= m THEN f[k] ELSE step[m + 1][f[m]]]
  <2>2. step[m + 1] \in [D -> D] /\ f[m] \in D
    BY <2>1
  <2>3. \A k \in 0 .. m + 1 : g[k] \in D
    BY <2>1, <2>2
  <2>4. \A k \in 1 .. m + 1 : g[k] = step[k][g[k - 1]]
    <3>1. SUFFICES ASSUME NEW k \in 1 .. m + 1 PROVE g[k] = step[k][g[k - 1]]
      OBVIOUS
    <3>2. CASE k <= m
      BY <2>1, <3>2
    <3>3. CASE k = m + 1
      BY <2>1, <3>3
    <3>4. QED
      BY <3>2, <3>3
  <2>5. Done(g, m + 1)
    BY <2>1, <2>3, <2>4
  <2>6. QED
    BY <2>5
<1> HIDE DEF Done
<1>3. \A m \in 0 .. n : m \in S
  <2> HIDE DEF S
  <2>1. QED
    BY <1>1, <1>2, UpTo
<1>4. n \in S
  BY <1>3
<1>5. QED
  BY <1>4 DEF Done, Runs

------------------------------------------------------------------------------
(* The table                                                                 *)

Fats == [Nibbles -> 0 .. 15]

\* The numbers of 12 bits
Words == {x \in Nat : x <= 4095}

\* The volume has clusters, and the table an entry of three nibbles for each of them.
LEMMA ClustersInTable ==
  /\ MaxCluster \in Nat /\ MaxCluster >= 3
  /\ \A c \in Clusters : /\ c \in Nat /\ 2 <= c /\ c < MaxCluster
                        /\ 3 * c \in Nibbles /\ 3 * c + 1 \in Nibbles /\ 3 * c + 2 \in Nibbles
<1> DEFINE P == Geometry * SectorSize
<1>1. P \in Nat /\ Geometry \in Nat \ {0} /\ RootSectors \in Nat \ {0} /\ SectorSize \in Nat \ {0}
  BY VolumeAssumption
<1>2. 2 * SectorSize * Geometry = 2 * P /\ 6 * Geometry * SectorSize = 6 * P
  BY <1>1
<1> HIDE DEF P
<1>3. MaxCluster = 2 * P - (3 * Geometry + RootSectors - 1) /\ 2 * P > 3 * Geometry + RootSectors + 1
  BY <1>2, VolumeAssumption DEF MaxCluster
<1>4. Nibbles = 0 .. 6 * P - 1
  BY <1>2 DEF Nibbles
<1>5. MaxCluster \in Nat /\ MaxCluster >= 3 /\ MaxCluster < 2 * P
  BY <1>1, <1>3
<1>6. \A c \in Clusters : c \in Nat /\ 2 <= c /\ c < MaxCluster
  BY <1>5 DEF Clusters
<1>7. QED
  BY <1>1, <1>4, <1>5, <1>6

\* The clusters of a volume are finitely many.
LEMMA ClustersAreFinite == IsFiniteSet(Clusters) /\ Clusters \in SUBSET Nat
<1>1. IsFiniteSet(2 .. MaxCluster - 1)
  BY ClustersInTable, FS_Interval
<1>2. QED
  BY <1>1, ClustersInTable DEF Clusters

\* An entry is a number of 12 bits.
LEMMA EntryType ==
  ASSUME NEW fat \in Fats, NEW c \in Clusters
  PROVE  GetFat(fat, c) \in Words
<1>1. fat[3 * c] \in 0 .. 15 /\ fat[3 * c + 1] \in 0 .. 15 /\ fat[3 * c + 2] \in 0 .. 15
  BY ClustersInTable DEF Fats
<1> DEFINE a == fat[3 * c]
           b == fat[3 * c + 1]
           d == fat[3 * c + 2]
<1>2. a \in Int /\ b \in Int /\ d \in Int /\ 0 <= a /\ a <= 15 /\ 0 <= b /\ b <= 15 /\ 0 <= d /\ d <= 15
  BY <1>1
<1>3. GetFat(fat, c) = a + 16 * b + 256 * d
  BY DEF GetFat
<1> HIDE DEF a, b, d
<1>4. QED
  BY <1>2, <1>3 DEF Words

\* Twelve bits are three nibbles.
LEMMA ThreeNibbles ==
  ASSUME NEW v \in Words
  PROVE  /\ v % 16 \in 0 .. 15 /\ (v \div 16) % 16 \in 0 .. 15 /\ v \div 256 \in 0 .. 15
         /\ (v % 16) + 16 * ((v \div 16) % 16) + 256 * (v \div 256) = v
<1>1. v \in Nat /\ v <= 4095
  BY DEF Words
<1>2. QED
  BY <1>1

\* An entry that is put can be got, and the others stay.
LEMMA PutGet ==
  ASSUME NEW fat \in Fats, NEW c \in Clusters, NEW v \in Words
  PROVE  /\ Put(fat, 3 * c, v) \in Fats
         /\ GetFat(Put(fat, 3 * c, v), c) = v
         /\ \A d \in Clusters \ {c} : GetFat(Put(fat, 3 * c, v), d) = GetFat(fat, d)
<1> DEFINE new == Put(fat, 3 * c, v)
<1>1. DOMAIN fat = Nibbles /\ \A m \in Nibbles : fat[m] \in 0 .. 15
  BY DEF Fats
<1>2. new = [m \in Nibbles |-> CASE m = 3 * c     -> v % 16
                                 [] m = 3 * c + 1 -> (v \div 16) % 16
                                 [] m = 3 * c + 2 -> v \div 256
                                 [] OTHER         -> fat[m]]
  BY <1>1 DEF Put
<1>3. /\ 3 * c \in Nibbles /\ 3 * c + 1 \in Nibbles /\ 3 * c + 2 \in Nibbles
      /\ c \in Nat
  BY ClustersInTable
<1> HIDE DEF new
<1>4. \A m \in Nibbles : new[m] \in 0 .. 15
  <2>1. SUFFICES ASSUME NEW m \in Nibbles PROVE new[m] \in 0 .. 15
    OBVIOUS
  <2>2. new[m] \in {v % 16, (v \div 16) % 16, v \div 256, fat[m]}
    BY <1>2
  <2>3. v % 16 \in 0 .. 15 /\ (v \div 16) % 16 \in 0 .. 15 /\ v \div 256 \in 0 .. 15
    BY ThreeNibbles
  <2>4. fat[m] \in 0 .. 15
    BY <1>1
  <2>5. QED
    BY <2>2, <2>3, <2>4
<1>5. new \in Fats
  BY <1>2, <1>4 DEF Fats
<1>6. /\ new[3 * c] = v % 16
      /\ new[3 * c + 1] = (v \div 16) % 16
      /\ new[3 * c + 2] = v \div 256
  BY <1>2, <1>3
<1>7. GetFat(new, c) = v
  BY <1>6, ThreeNibbles DEF GetFat
<1>8. ASSUME NEW d \in Clusters \ {c}
      PROVE  GetFat(new, d) = GetFat(fat, d)
  <2>1. d \in Nat /\ 3 * d \in Nibbles /\ 3 * d + 1 \in Nibbles /\ 3 * d + 2 \in Nibbles
    BY ClustersInTable
  <2>2. \A x \in {3 * d, 3 * d + 1, 3 * d + 2} : x # 3 * c /\ x # 3 * c + 1 /\ x # 3 * c + 2
    BY <2>1, <1>3
  <2>3. \A x \in {3 * d, 3 * d + 1, 3 * d + 2} : new[x] = fat[x]
    BY <2>1, <2>2, <1>2
  <2>4. QED
    BY <2>3 DEF GetFat
<1>9. QED
  BY <1>5, <1>7, <1>8 DEF new

\* One copy of an entry: what SetFat of the builder does.
LEMMA SetOnce ==
  ASSUME NEW fat \in Fats, NEW c \in Clusters, NEW v \in Words
  PROVE  SetFat(fat, c, v, 1) = Put(fat, 3 * c, v)
<1> DEFINE done == CHOOSE f : f = [k \in 0 .. 1 |-> IF k = 0 THEN fat ELSE
                      Put(f[k - 1], 3 * c + 2 * (k - 1) * Geometry * SectorSize, v)]
           Fills(f) == f = [k \in 0 .. 1 |-> IF k = 0 THEN fat ELSE
                      Put(f[k - 1], 3 * c + 2 * (k - 1) * Geometry * SectorSize, v)]
<1>1. SetFat(fat, c, v, 1) = done[1]
  BY DEF SetFat
<1>2. Fills([k \in 0 .. 1 |-> IF k = 0 THEN fat ELSE
               Put(fat, 3 * c + 2 * (k - 1) * Geometry * SectorSize, v)])
  OBVIOUS
<1>3. Fills(done)
  <2> HIDE DEF Fills
  <2>1. \E f : Fills(f)
    BY <1>2
  <2>2. Fills(CHOOSE f : Fills(f))
    BY <2>1
  <2>3. QED
    BY <2>2 DEF Fills
<1> HIDE DEF done
<1>4. done[0] = fat /\ done[1] = Put(done[0], 3 * c + 2 * (1 - 1) * Geometry * SectorSize, v)
  BY <1>3
<1>5. 3 * c + 2 * (1 - 1) * Geometry * SectorSize = 3 * c
  BY ClustersInTable, VolumeAssumption
<1>6. QED
  BY <1>1, <1>4, <1>5

\* A cluster number is below the table's end and below every mark of a FAT12
\* entry.
LEMMA ClusterRange ==
  ASSUME NEW c \in Clusters
  PROVE  c \in Nat /\ 2 <= c /\ c <= 4087 /\ c < MaxCluster /\ c \in Words
<1>1. c \in Nat /\ 2 <= c /\ c < MaxCluster /\ MaxCluster \in Nat
  BY ClustersInTable, Zenon
<1>2. QED
  BY <1>1, EntriesAssumption DEF Words

\* The links of a chain that is written are those from each cluster to the next.
LEMMA LinkType ==
  ASSUME NEW n \in Nat, NEW clusters \in [1 .. n -> Clusters], Len(clusters) = n, NEW k \in 1 .. n
  PROVE  /\ LinkOf(clusters, k) \in Words /\ LinkOf(clusters, k) # 0
         /\ k < n => LinkOf(clusters, k) = clusters[k + 1]
         /\ k = n => LinkOf(clusters, k) = EndOfChain
<1>1. CASE k < n
  <2>1. LinkOf(clusters, k) = clusters[k + 1] /\ clusters[k + 1] \in Clusters
    BY <1>1 DEF LinkOf
  <2>2. LinkOf(clusters, k) \in Words /\ LinkOf(clusters, k) # 0
    BY <2>1, ClusterRange
  <2>3. QED
    BY <1>1, <2>1, <2>2
<1>2. CASE k = n
  <2>1. LinkOf(clusters, k) = 4095
    BY <1>2 DEF LinkOf, EndOfChain
  <2>2. QED
    BY <1>2, <2>1 DEF EndOfChain, Words
<1>3. QED
  BY <1>1, <1>2

\* Linking a run of distinct clusters gives each its successor or the end mark
\* and leaves the other entries as they were (write_file).
LEMMA LinkedGets ==
  ASSUME NEW fat \in Fats, NEW n \in Nat, NEW clusters \in [1 .. n -> Clusters], Len(clusters) = n,
         \A j, k \in 1 .. n : clusters[j] = clusters[k] => j = k
  PROVE  /\ Linked(fat, clusters, 1) \in Fats
         /\ \A k \in 1 .. n : GetFat(Linked(fat, clusters, 1), clusters[k]) = LinkOf(clusters, k)
         /\ \A c \in Clusters : (\A k \in 1 .. n : clusters[k] # c)
              => GetFat(Linked(fat, clusters, 1), c) = GetFat(fat, c)
<1> DEFINE
           Makes(f) == f = [k \in 0 .. n |-> IF k = 0 THEN fat ELSE
                              SetFat(f[k - 1], clusters[k], LinkOf(clusters, k), 1)]
           made == CHOOSE f : Makes(f)
           step == [k \in 1 .. n |-> [f \in Fats |-> SetFat(f, clusters[k], LinkOf(clusters, k), 1)]]
<1>1. n \in Nat /\ \A k \in 1 .. n : clusters[k] \in Clusters
  OBVIOUS
<1>2. \A k \in 1 .. n : LinkOf(clusters, k) \in Words
  BY LinkType
<1>3. \A k \in 1 .. n, f \in Fats :
        LET g == SetFat(f, clusters[k], LinkOf(clusters, k), 1)
        IN  /\ g \in Fats
            /\ GetFat(g, clusters[k]) = LinkOf(clusters, k)
            /\ \A c \in Clusters \ {clusters[k]} : GetFat(g, c) = GetFat(f, c)
  <2>1. SUFFICES ASSUME NEW k \in 1 .. n, NEW f \in Fats
                 PROVE  LET g == SetFat(f, clusters[k], LinkOf(clusters, k), 1)
                        IN  /\ g \in Fats
                            /\ GetFat(g, clusters[k]) = LinkOf(clusters, k)
                            /\ \A c \in Clusters \ {clusters[k]} : GetFat(g, c) = GetFat(f, c)
    BY Zenon
  <2>2. clusters[k] \in Clusters /\ LinkOf(clusters, k) \in Words
    BY <1>1, <1>2
  <2>3. SetFat(f, clusters[k], LinkOf(clusters, k), 1) = Put(f, 3 * clusters[k], LinkOf(clusters, k))
    BY <2>2, SetOnce
  <2>4. QED
    BY <2>2, <2>3, PutGet
<1>4. Linked(fat, clusters, 1) = made[n]
  BY DEF Linked
<1>5. step \in [1 .. n -> [Fats -> Fats]]
  BY <1>1, <1>3
<1>6. PICK f \in [0 .. n -> Fats] : f[0] = fat /\ \A k \in 1 .. n : f[k] = step[k][f[k - 1]]
  <2> HIDE DEF step
  <2>1. \E f : Runs(f, Fats, fat, n, step)
    BY <1>5, Iterates
  <2>2. QED
    BY <2>1 DEF Runs
<1>7. Makes(f)
  <2>1. \A k \in 1 .. n : f[k - 1] \in Fats
    BY <1>1, <1>6
  <2>2. \A k \in 1 .. n : f[k] = SetFat(f[k - 1], clusters[k], LinkOf(clusters, k), 1)
    BY <2>1, <1>6
  <2>3. \A k \in 0 .. n : f[k] = IF k = 0 THEN fat
                                 ELSE SetFat(f[k - 1], clusters[k], LinkOf(clusters, k), 1)
    BY <2>2, <1>1, <1>6
  <2>4. QED
    BY <2>3, <1>6
<1>8. Makes(made)
  <2> HIDE DEF Makes
  <2>1. QED
    BY <1>7
<1> HIDE DEF made
<1>9. /\ made[0] = fat
      /\ \A k \in 1 .. n : made[k] = SetFat(made[k - 1], clusters[k], LinkOf(clusters, k), 1)
  BY <1>1, <1>8
<1> HIDE DEF Makes
<1> DEFINE S == {m \in 0 .. n :
                   /\ made[m] \in Fats
                   /\ \A k \in 1 .. m : GetFat(made[m], clusters[k]) = LinkOf(clusters, k)
                   /\ \A c \in Clusters : (\A k \in 1 .. m : clusters[k] # c)
                        => GetFat(made[m], c) = GetFat(fat, c)}
<1>10. 0 \in S
  BY <1>1, <1>9
<1>11. \A m \in 0 .. n - 1 : m \in S => m + 1 \in S
  <2>1. SUFFICES ASSUME NEW m \in 0 .. n - 1, m \in S PROVE m + 1 \in S
    OBVIOUS
  <2>2. /\ m + 1 \in 1 .. n /\ m + 1 \in 0 .. n /\ m + 1 - 1 = m /\ m \in Nat
        /\ 1 .. m + 1 = (1 .. m) \cup {m + 1}
    BY <1>1
  <2>3. made[m + 1] = SetFat(made[m], clusters[m + 1], LinkOf(clusters, m + 1), 1)
    BY <1>9, <2>2
  <2>4. /\ made[m + 1] \in Fats
        /\ GetFat(made[m + 1], clusters[m + 1]) = LinkOf(clusters, m + 1)
        /\ \A c \in Clusters \ {clusters[m + 1]} : GetFat(made[m + 1], c) = GetFat(made[m], c)
    BY <1>3, <2>1, <2>2, <2>3
  <2>5. \A k \in 1 .. m : clusters[k] \in Clusters \ {clusters[m + 1]}
    BY <1>1, <2>2
  <2>6. \A k \in 1 .. m + 1 : GetFat(made[m + 1], clusters[k]) = LinkOf(clusters, k)
    BY <2>1, <2>2, <2>4, <2>5
  <2>7. \A c \in Clusters : (\A k \in 1 .. m + 1 : clusters[k] # c)
          => GetFat(made[m + 1], c) = GetFat(fat, c)
    BY <2>1, <2>2, <2>4
  <2>8. QED
    BY <2>2, <2>4, <2>6, <2>7
<1>12. n \in S
  <2> HIDE DEF S
  <2>1. \A m \in 0 .. n : m \in S
    BY <1>1, <1>10, <1>11, UpTo
  <2>2. QED
    BY <1>1, <2>1
<1>13. QED
  BY <1>4, <1>12

------------------------------------------------------------------------------
(* Chains                                                                    *)

\* The clusters s[1], .., s[n] are a chain from first on, as the tools and the firmware write
\* them: in ascending order, each linked to the next, the last to none.
IsChain(fat, first, n, s) ==
  /\ s[1] = first
  /\ \A k \in 1 .. n : s[k] \in Clusters
  /\ \A k \in 1 .. n - 1 : s[k] < s[k + 1] /\ GetFat(fat, s[k]) = s[k + 1]
  /\ GetFat(fat, s[n]) = EndOfChain

\* A chain comes by no cluster twice, and is shorter than the volume.
LEMMA ChainAscends ==
  ASSUME NEW fat, NEW first, NEW n \in Nat \ {0}, NEW s, IsChain(fat, first, n, s)
  PROVE  /\ \A k \in 1 .. n : k < s[k] /\ k < MaxCluster /\ s[k] \in Nat
         /\ \A j, k \in 1 .. n : j < k => s[j] < s[k]
         /\ \A j, k \in 1 .. n : s[j] = s[k] => j = k
<1>1. \A k \in 1 .. n : s[k] \in Nat /\ 2 <= s[k] /\ s[k] < MaxCluster
  BY ClusterRange DEF IsChain
<1>2. \A k \in 1 .. n - 1 : s[k] < s[k + 1]
  BY DEF IsChain
<1>3. MaxCluster \in Nat
  BY ClustersInTable
<1>4. \A k \in 1 .. n : k < s[k]
  <2> DEFINE S == {k \in 1 .. n : k < s[k]}
  <2>1. 1 \in S
    BY <1>1
  <2>2. \A k \in 1 .. n - 1 : k \in S => k + 1 \in S
    BY <1>1, <1>2
  <2> HIDE DEF S
  <2>3. \A k \in 1 .. n : k \in S
    BY <2>1, <2>2, UpTo
  <2>4. QED
    BY <2>3 DEF S
<1>5. ASSUME NEW j \in 1 .. n, NEW k \in 1 .. n, j < k
      PROVE  s[j] < s[k]
  <2> DEFINE S == {m \in j + 1 .. n : s[j] < s[m]}
  <2>1. j + 1 \in S
    BY <1>2, <1>5
  <2>2. \A m \in j + 1 .. n - 1 : m \in S => m + 1 \in S
    <3>1. SUFFICES ASSUME NEW m \in j + 1 .. n - 1, s[j] < s[m] PROVE s[j] < s[m + 1]
      OBVIOUS
    <3>2. s[m] < s[m + 1] /\ s[m] \in Nat /\ s[m + 1] \in Nat /\ s[j] \in Nat
      BY <1>1, <1>2
    <3>3. QED
      BY <3>1, <3>2
  <2> HIDE DEF S
  <2>3. j + 1 \in Nat /\ n \in Nat
    OBVIOUS
  <2>4. \A m \in j + 1 .. n : m \in S
    BY <2>1, <2>2, <2>3, UpTo
  <2>5. QED
    BY <1>5, <2>4 DEF S
<1>6. \A j, k \in 1 .. n : s[j] = s[k] => j = k
  <2>1. SUFFICES ASSUME NEW j \in 1 .. n, NEW k \in 1 .. n, s[j] = s[k], j # k PROVE FALSE
    OBVIOUS
  <2>2. j < k \/ k < j
    BY <2>1
  <2>3. s[j] \in Nat /\ s[k] \in Nat
    BY <1>1
  <2>4. s[j] < s[k] \/ s[k] < s[j]
    BY <1>5, <2>2
  <2>5. QED
    BY <2>1, <2>3, <2>4
<1>7. QED
  BY <1>1, <1>3, <1>4, <1>5, <1>6

\* No cluster is twice in a chain.
LEMMA ChainDistinct ==
  ASSUME NEW fat, NEW first, NEW n \in Nat \ {0}, NEW s, IsChain(fat, first, n, s)
  PROVE  \A j, k \in 1 .. n : s[j] = s[k] => j = k
BY ChainAscends

\* What Walk computes
LEMMA WalkSteps ==
  ASSUME NEW fat \in Fats, NEW c \in Nat
  PROVE  /\ Walk(fat, c)[1] = c
         /\ \A k \in 2 .. MaxCluster :
              Walk(fat, c)[k] = IF Walk(fat, c)[k - 1] \in Clusters
                                THEN GetFat(fat, Walk(fat, c)[k - 1]) ELSE Walk(fat, c)[k - 1]
<1> DEFINE Walks(f) == f = [k \in 1 .. MaxCluster |->
                             IF k = 1 THEN c
                             ELSE IF f[k - 1] \in Clusters THEN GetFat(fat, f[k - 1]) ELSE f[k - 1]]
           next == [x \in Nat |-> IF x \in Clusters THEN GetFat(fat, x) ELSE x]
           acts == [k \in 1 .. MaxCluster |-> next]
<1>1. MaxCluster \in Nat /\ MaxCluster >= 3
  BY ClustersInTable
<1>2. \A x \in Clusters : GetFat(fat, x) \in Nat
  BY EntryType DEF Words
<1>3. next \in [Nat -> Nat] /\ acts \in [1 .. MaxCluster -> [Nat -> Nat]]
  BY <1>2
<1>4. PICK f \in [0 .. MaxCluster -> Nat] :
        f[0] = c /\ \A k \in 1 .. MaxCluster : f[k] = acts[k][f[k - 1]]
  <2> HIDE DEF acts
  <2>1. \E f : Runs(f, Nat, c, MaxCluster, acts)
    BY <1>1, <1>3, Iterates
  <2>2. QED
    BY <2>1 DEF Runs
<1>5. \E g : Walks(g)
  <2> DEFINE g == [k \in 1 .. MaxCluster |-> f[k - 1]]
  <2>1. \A k \in 2 .. MaxCluster :
          f[k - 1] = IF f[k - 2] \in Clusters THEN GetFat(fat, f[k - 2]) ELSE f[k - 2]
    <3>1. SUFFICES ASSUME NEW k \in 2 .. MaxCluster
                   PROVE  f[k - 1] = IF f[k - 2] \in Clusters THEN GetFat(fat, f[k - 2]) ELSE f[k - 2]
      OBVIOUS
    <3>2. k - 1 \in 1 .. MaxCluster /\ k - 1 - 1 = k - 2 /\ k - 2 \in 0 .. MaxCluster
      BY <1>1
    <3>3. f[k - 1] = next[f[k - 2]] /\ f[k - 2] \in Nat
      BY <1>4, <3>2
    <3>4. QED
      BY <3>3
  <2>2. \A k \in 1 .. MaxCluster : g[k] = IF k = 1 THEN c
           ELSE IF g[k - 1] \in Clusters THEN GetFat(fat, g[k - 1]) ELSE g[k - 1]
    BY <1>1, <1>4, <2>1
  <2>3. Walks(g)
    BY <2>2
  <2>4. QED
    BY <2>3
<1>6. Walks(Walk(fat, c))
  <2>1. Walk(fat, c) = CHOOSE g : Walks(g)
    BY DEF Walk
  <2> HIDE DEF Walks
  <2>2. QED
    BY <1>5, <2>1
<1>7. QED
  BY <1>1, <1>6

\* A walk follows a chain.
LEMMA WalkFollows ==
  ASSUME NEW fat \in Fats, NEW first \in Nat, NEW n \in Nat \ {0}, NEW s, IsChain(fat, first, n, s)
  PROVE  \A k \in 1 .. n : Walk(fat, first)[k] = s[k]
<1> DEFINE at == Walk(fat, first)
           S == {k \in 1 .. n : at[k] = s[k]}
<1>1. /\ at[1] = first
      /\ \A k \in 2 .. MaxCluster :
           at[k] = IF at[k - 1] \in Clusters THEN GetFat(fat, at[k - 1]) ELSE at[k - 1]
  BY WalkSteps
<1> HIDE DEF at
<1>2. 1 \in S
  BY <1>1 DEF IsChain
<1>3. \A k \in 1 .. n - 1 : k \in S => k + 1 \in S
  <2>1. SUFFICES ASSUME NEW k \in 1 .. n - 1, at[k] = s[k]
                 PROVE  k + 1 \in 1 .. n /\ at[k + 1] = s[k + 1]
    OBVIOUS
  <2>2. k + 1 \in 1 .. n /\ k + 1 - 1 = k /\ k \in 1 .. n /\ 2 <= k + 1
    OBVIOUS
  <2>3. k + 1 \in 2 .. MaxCluster
    <3>1. k + 1 < MaxCluster
      BY <2>2, ChainAscends
    <3>2. QED
      BY <2>2, <3>1, ClustersInTable
  <2>4. s[k] \in Clusters /\ GetFat(fat, s[k]) = s[k + 1]
    BY <2>2 DEF IsChain
  <2>5. QED
    BY <1>1, <2>1, <2>2, <2>3, <2>4
<1> HIDE DEF S
<1>4. \A k \in 1 .. n : k \in S
  BY <1>2, <1>3, UpTo
<1>5. QED
  BY <1>4 DEF S, at

------------------------------------------------------------------------------
(* Allocation                                                                *)

\* A set of clusters that is not empty has a last one, and the others lie below it.
LEMMA LastCluster ==
  ASSUME NEW S \in SUBSET Clusters, S # {}
  PROVE  \E x \in S : {y \in S : y < x} = S \ {x}
<1> DEFINE T == {u \in Nat : \E x \in S : u = MaxCluster - x}
<1>1. \A x \in S : x \in Nat /\ MaxCluster - x \in Nat /\ MaxCluster \in Nat
  <2>1. SUFFICES ASSUME NEW x \in S PROVE x \in Nat /\ MaxCluster - x \in Nat /\ MaxCluster \in Nat
    OBVIOUS
  <2>2. x \in Nat /\ x < MaxCluster /\ MaxCluster \in Nat
    BY ClusterRange, ClustersInTable
  <2>3. QED
    BY <2>2
<1>2. T \in SUBSET Nat /\ T # {}
  BY <1>1
<1>3. PICK t \in T : \A u \in T : t <= u
  BY <1>2, LeastNumber
<1>4. PICK x \in S : t = MaxCluster - x
  BY <1>3
<1>5. \A y \in S : y <= x
  <2>1. SUFFICES ASSUME NEW y \in S PROVE y <= x
    OBVIOUS
  <2>2. MaxCluster - x <= MaxCluster - y
    BY <1>1, <1>3, <1>4
  <2>3. x \in Nat /\ y \in Nat /\ MaxCluster \in Nat
    BY <1>1
  <2>4. QED
    BY <2>2, <2>3
<1>6. \A y \in S : y < x <=> y # x
  BY <1>1, <1>5
<1>7. QED
  BY <1>6

\* One of k clusters or more has exactly k - 1 below it.
LEMMA RankExists ==
  ASSUME NEW S \in SUBSET Clusters, NEW k \in 1 .. Cardinality(S)
  PROVE  \E c \in S : Cardinality({d \in S : d < c}) = k - 1
<1> DEFINE Below(c) == {d \in S : d < c}
           T == {c \in S : k - 1 <= Cardinality(Below(c))}
<1>1. IsFiniteSet(S) /\ Cardinality(S) \in Nat
  BY ClustersAreFinite, FS_Subset, FS_CardinalityType
<1>2. \A c \in S : c \in Nat /\ Below(c) \in SUBSET Clusters /\ Below(c) \in SUBSET S
  BY ClustersAreFinite
<1>3. \A c \in S : IsFiniteSet(Below(c)) /\ Cardinality(Below(c)) \in Nat
  <2> HIDE DEF Below
  <2>1. QED
    BY <1>1, <1>2, FS_Subset, FS_CardinalityType
<1>4. T # {}
  <2>1. S # {}
    BY FS_EmptySet
  <2>2. PICK x \in S : Below(x) = S \ {x}
    BY <2>1, LastCluster
  <2> HIDE DEF Below
  <2>3. Cardinality(Below(x)) = Cardinality(S) - 1
    BY <2>2, <1>1, FS_RemoveElement
  <2>4. k - 1 <= Cardinality(Below(x))
    BY <2>3, <1>1
  <2>5. QED
    BY <2>4
<1>5. PICK x \in T : \A y \in T : x <= y
  <2>1. T \in SUBSET Nat
    BY <1>2
  <2> HIDE DEF T
  <2>2. QED
    BY <2>1, <1>4, LeastNumber
<1>6. x \in S /\ k - 1 <= Cardinality(Below(x))
  OBVIOUS
<1>7. Cardinality(Below(x)) = k - 1
  <2>1. SUFFICES ASSUME k <= Cardinality(Below(x)) PROVE FALSE
    <3> HIDE DEF Below
    <3>1. Cardinality(Below(x)) \in Nat
      BY <1>3, <1>6
    <3>2. QED
      BY <1>6, <3>1
  <2>2. Below(x) # {}
    <3> HIDE DEF Below
    <3>1. QED
      BY <2>1, FS_EmptySet
  <2>3. PICK y \in Below(x) : {z \in Below(x) : z < y} = Below(x) \ {y}
    BY <2>2, <1>2, <1>6, LastCluster
  <2>4. y \in S /\ y < x /\ y \in Nat /\ x \in Nat
    BY <2>3, <1>2, <1>6
  <2>5. Below(y) = Below(x) \ {y}
    <3>1. \A z \in S : z < y => z < x
      BY <2>4, <1>2
    <3>2. Below(y) = {z \in Below(x) : z < y}
      BY <3>1
    <3>3. QED
      BY <2>3, <3>2
  <2> HIDE DEF Below
  <2>6. Cardinality(Below(y)) = Cardinality(Below(x)) - 1
    BY <2>3, <2>5, <1>3, <1>6, FS_RemoveElement
  <2>7. Cardinality(Below(x)) \in Nat
    BY <1>3, <1>6
  <2>8. y \in T
    BY <2>1, <2>4, <2>6, <2>7
  <2>9. x <= y
    BY <1>5, <2>8
  <2>10. QED
    BY <2>4, <2>9
<1>8. QED
  BY <1>6, <1>7

\* FirstOf gives members of the set, in ascending order.
LEMMA FirstOfAscends ==
  ASSUME NEW S \in SUBSET Clusters, NEW n \in Nat, n <= Cardinality(S)
  PROVE  /\ FirstOf(S, n) \in [1 .. n -> S]
         /\ FirstOf(S, n) \in Seq(S) /\ Len(FirstOf(S, n)) = n
         /\ \A k \in 1 .. n - 1 : FirstOf(S, n)[k] < FirstOf(S, n)[k + 1]
<1> DEFINE Below(c) == {d \in S : d < c}
           got == FirstOf(S, n)
<1>1. IsFiniteSet(S) /\ Cardinality(S) \in Nat
  BY ClustersAreFinite, FS_Subset, FS_CardinalityType
<1>2. got = [k \in 1 .. n |-> CHOOSE c \in S : Cardinality(Below(c)) = k - 1]
  BY DEF FirstOf
<1> HIDE DEF got
<1>3. \A k \in 1 .. n : \E c \in S : Cardinality(Below(c)) = k - 1
  <2>1. \A k \in 1 .. n : k \in 1 .. Cardinality(S)
    BY <1>1
  <2>2. QED
    BY <2>1, RankExists
<1> HIDE DEF Below
<1>4. \A k \in 1 .. n : got[k] \in S /\ Cardinality(Below(got[k])) = k - 1
  <2>1. SUFFICES ASSUME NEW k \in 1 .. n
                 PROVE  got[k] \in S /\ Cardinality(Below(got[k])) = k - 1
    OBVIOUS
  <2>2. got[k] = CHOOSE c \in S : Cardinality(Below(c)) = k - 1
    BY <1>2
  <2>3. QED
    BY <2>2, <1>3, Zenon
<1>5. got \in [1 .. n -> S]
  BY <1>2, <1>4
<1>6. got \in Seq(S) /\ Len(got) = n
  BY <1>5
<1>7. ASSUME NEW k \in 1 .. n - 1
      PROVE  got[k] < got[k + 1]
  <2>1. k \in 1 .. n /\ k + 1 \in 1 .. n
    OBVIOUS
  <2> DEFINE a == got[k]
             b == got[k + 1]
  <2>2. /\ a \in S /\ Cardinality(Below(a)) = k - 1
        /\ b \in S /\ Cardinality(Below(b)) = k
    <3>1. k + 1 - 1 = k
      OBVIOUS
    <3>2. QED
      BY <2>1, <1>4, <3>1
  <2> HIDE DEF a, b
  <2>3. a \in Nat /\ b \in Nat
    BY <2>2, ClustersAreFinite
  <2>4. SUFFICES ASSUME b <= a PROVE FALSE
    BY <2>3 DEF a, b
  <2>5. Below(b) \in SUBSET Below(a)
    <3>1. \A d \in S : d \in Nat
      BY ClustersAreFinite
    <3>2. \A d \in S : d < b => d < a
      BY <2>3, <2>4, <3>1
    <3>3. QED
      BY <3>2 DEF Below
  <2>6. IsFiniteSet(Below(a))
    <3>1. Below(a) \in SUBSET S
      BY DEF Below
    <3>2. QED
      BY <3>1, <1>1, FS_Subset
  <2>7. Cardinality(Below(b)) <= Cardinality(Below(a))
    BY <2>5, <2>6, FS_Subset
  <2>8. QED
    BY <2>2, <2>7
<1>8. QED
  BY <1>5, <1>6, <1>7 DEF got

\* What Allocate gives: free clusters, as many as the file needs, in ascending order.
LEMMA AllocateGives ==
  ASSUME NEW fat \in Fats, NEW size \in Nat, Allocate(fat, size) # <<>>
  PROVE  /\ Needed(size) \in Nat \ {0}
         /\ Allocate(fat, size) \in [1 .. Needed(size) -> Clusters]
         /\ Len(Allocate(fat, size)) = Needed(size)
         /\ \A k \in 1 .. Needed(size) : GetFat(fat, Allocate(fat, size)[k]) = 0
         /\ \A k \in 1 .. Needed(size) - 1 : Allocate(fat, size)[k] < Allocate(fat, size)[k + 1]
<1> DEFINE n == Needed(size)
<1>1. n \in Nat \ {0}
  BY DEF Needed, Longest
<1>2. Free(fat) \in SUBSET Clusters /\ \A c \in Free(fat) : GetFat(fat, c) = 0
  BY DEF Free
<1>3. Cardinality(Free(fat)) \in Nat
  BY <1>2, ClustersAreFinite, FS_Subset, FS_CardinalityType
<1> HIDE DEF n
<1>4. n <= Cardinality(Free(fat)) /\ Allocate(fat, size) = FirstOf(Free(fat), n)
  BY <1>1, <1>3 DEF Allocate, n
<1> DEFINE got == FirstOf(Free(fat), n)
<1>5. /\ got \in [1 .. n -> Free(fat)] /\ Len(got) = n
      /\ \A k \in 1 .. n - 1 : got[k] < got[k + 1]
  BY <1>1, <1>2, <1>4, FirstOfAscends
<1> HIDE DEF got
<1>6. got \in [1 .. n -> Clusters] /\ \A k \in 1 .. n : GetFat(fat, got[k]) = 0
  BY <1>2, <1>5
<1>7. QED
  BY <1>1, <1>4, <1>5, <1>6 DEF n, got

\* Allocated and linked, they are a chain, and every other entry of the table stays.
LEMMA AllocatedChain ==
  ASSUME NEW fat \in Fats, NEW size \in Nat, Allocate(fat, size) # <<>>
  PROVE  LET cl  == Allocate(fat, size)
             new == Linked(fat, cl, 1)
         IN  /\ new \in Fats
             /\ IsChain(new, cl[1], Needed(size), cl)
             /\ \A c \in Clusters : (\A k \in 1 .. Needed(size) : cl[k] # c)
                                    => GetFat(new, c) = GetFat(fat, c)
<1> DEFINE n   == Needed(size)
           cl  == Allocate(fat, size)
           new == Linked(fat, cl, 1)
<1>1. /\ n \in Nat \ {0} /\ cl \in [1 .. n -> Clusters] /\ Len(cl) = n
      /\ \A k \in 1 .. n - 1 : cl[k] < cl[k + 1]
  BY AllocateGives
<1> HIDE DEF n, cl
<1>2. \A j, k \in 1 .. n : j < k => cl[j] < cl[k]
  <2>1. SUFFICES ASSUME NEW j \in 1 .. n PROVE \A k \in j + 1 .. n : cl[j] < cl[k]
    BY <1>1
  <2> DEFINE S == {k \in j + 1 .. n : cl[j] < cl[k]}
  <2>2. \A k \in 1 .. n : cl[k] \in Nat
    BY <1>1, ClusterRange
  <2>3. CASE j < n
    <3>1. j + 1 \in S
      BY <1>1, <2>3
    <3>2. \A k \in j + 1 .. n - 1 : k \in S => k + 1 \in S
      <4>1. SUFFICES ASSUME NEW k \in j + 1 .. n - 1, cl[j] < cl[k] PROVE cl[j] < cl[k + 1]
        BY <1>1
      <4>2. cl[k] < cl[k + 1] /\ cl[k] \in Nat /\ cl[k + 1] \in Nat /\ cl[j] \in Nat
        BY <1>1, <2>2
      <4>3. QED
        BY <4>1, <4>2
    <3> HIDE DEF S
    <3>3. j + 1 \in Nat /\ n \in Nat
      BY <1>1
    <3>4. \A k \in j + 1 .. n : k \in S
      BY <3>1, <3>2, <3>3, UpTo
    <3>5. QED
      BY <3>4 DEF S
  <2>4. QED
    BY <1>1, <2>3
<1>3. \A j, k \in 1 .. n : cl[j] = cl[k] => j = k
  <2>1. SUFFICES ASSUME NEW j \in 1 .. n, NEW k \in 1 .. n, cl[j] = cl[k], j # k PROVE FALSE
    OBVIOUS
  <2>2. cl[j] < cl[k] \/ cl[k] < cl[j]
    BY <1>1, <1>2, <2>1
  <2>3. cl[j] \in Nat
    BY <1>1, ClusterRange
  <2>4. QED
    BY <2>1, <2>2, <2>3
<1>4. /\ new \in Fats
      /\ \A k \in 1 .. n : GetFat(new, cl[k]) = LinkOf(cl, k)
      /\ \A c \in Clusters : (\A k \in 1 .. n : cl[k] # c) => GetFat(new, c) = GetFat(fat, c)
  BY <1>1, <1>3, LinkedGets
<1> HIDE DEF new
<1>5. \A k \in 1 .. n - 1 : GetFat(new, cl[k]) = cl[k + 1]
  <2>1. SUFFICES ASSUME NEW k \in 1 .. n - 1 PROVE GetFat(new, cl[k]) = cl[k + 1]
    OBVIOUS
  <2>2. k \in 1 .. n /\ k < n
    BY <1>1
  <2>3. QED
    BY <1>1, <1>4, <2>2, LinkType
<1>6. GetFat(new, cl[n]) = EndOfChain
  <2>1. n \in 1 .. n
    BY <1>1
  <2>2. QED
    BY <1>1, <1>4, <2>1, LinkType
<1>7. IsChain(new, cl[1], n, cl)
  BY <1>1, <1>5, <1>6 DEF IsChain
<1>8. QED
  BY <1>4, <1>7 DEF n, cl, new

\* The table may change as long as it does not change along the chain.
LEMMA ChainStays ==
  ASSUME NEW fat, NEW first, NEW n \in Nat \ {0}, NEW s, IsChain(fat, first, n, s), NEW new,
         \A k \in 1 .. n : GetFat(new, s[k]) = GetFat(fat, s[k])
  PROVE  IsChain(new, first, n, s)
<1>1. n \in 1 .. n /\ \A k \in 1 .. n - 1 : k \in 1 .. n
  OBVIOUS
<1>2. QED
  BY <1>1 DEF IsChain

\* The entries of a chain are not those of free clusters.
LEMMA ChainTaken ==
  ASSUME NEW fat, NEW first, NEW n \in Nat \ {0}, NEW s, IsChain(fat, first, n, s)
  PROVE  \A k \in 1 .. n : s[k] \in Clusters /\ GetFat(fat, s[k]) # 0
<1>1. SUFFICES ASSUME NEW k \in 1 .. n PROVE s[k] \in Clusters /\ GetFat(fat, s[k]) # 0
  OBVIOUS
<1>2. s[k] \in Clusters
  BY DEF IsChain
<1>3. CASE k = n
  BY <1>2, <1>3 DEF IsChain, EndOfChain
<1>4. CASE k < n
  <2>1. k \in 1 .. n - 1 /\ k + 1 \in 1 .. n
    BY <1>4
  <2>2. GetFat(fat, s[k]) = s[k + 1] /\ s[k + 1] \in Clusters
    BY <2>1 DEF IsChain
  <2>3. s[k + 1] # 0
    BY <2>2, ClusterRange
  <2>4. QED
    BY <1>2, <2>2, <2>3
<1>5. QED
  BY <1>3, <1>4

------------------------------------------------------------------------------
(* The volume: its files lie in chains of their own                          *)

FileSet == [name : Names, kind : Kinds \cup {"none"}, size : Nat]
Entries == [name : Names \cup {"deleted"}, first : Nat, size : Nat]

\* The entries in use, and the clusters of each
Used(root)       == {i \in 1 .. RootEntries : root[i] # NoEntry}
Places(root, i)  == 1 .. Needed(root[i].size)

Typed(v, fs) ==
  /\ v.fat \in Fats
  /\ v.root \in [1 .. RootEntries -> Entries]
  /\ DOMAIN v.data = Clusters
  /\ fs \in [Names -> FileSet \cup {NoFile}]
  /\ \A i \in Used(v.root) : v.root[i].name \in Names

\* The directory lists the files that were written last, each once.
Listing(v, fs) ==
  /\ \A i, j \in Used(v.root) : v.root[i].name = v.root[j].name => i = j
  /\ \A i \in Used(v.root) : /\ fs[v.root[i].name].name = v.root[i].name
                             /\ fs[v.root[i].name].size = v.root[i].size
  /\ \A name \in Names : fs[name] # NoFile =>
       fs[name].name = name /\ \E i \in Used(v.root) : v.root[i].name = name

\* ch gives each entry its chain, and no cluster is in two of them.
Chained(v, ch) ==
  /\ \A i \in Used(v.root) : IsChain(v.fat, v.root[i].first, Needed(v.root[i].size), ch[i])
  /\ \A i, j \in Used(v.root) : \A k \in Places(v.root, i), l \in Places(v.root, j) :
       ch[i][k] = ch[j][l] => i = j

\* A cluster that is not free is in one of the chains.
Owned(v, ch) ==
  \A c \in Clusters : GetFat(v.fat, c) = 0
                      \/ \E i \in Used(v.root) : \E k \in Places(v.root, i) : ch[i][k] = c

\* The sectors of a file are those of its chain, and the others are erased.
Filled(v, fs, ch) ==
  /\ \A i \in Used(v.root) : \A k \in Places(v.root, i) :
       v.data[ch[i][k]] = Sector(fs[v.root[i].name], k)
  /\ \A c \in Clusters : GetFat(v.fat, c) = 0 => v.data[c] = Stale

VolumeHolds(v, fs, ch) ==
  /\ Typed(v, fs)
  /\ Listing(v, fs)
  /\ Chained(v, ch)
  /\ Owned(v, ch)
  /\ Filled(v, fs, ch)

\* A file takes at least one cluster, and one for each of its sectors.
LEMMA NeededType ==
  ASSUME NEW size \in Nat
  PROVE  Needed(size) \in Nat \ {0} /\ size <= Needed(size) /\ (size > 0 => Needed(size) = size)
BY DEF Needed, Longest

\* The mark of a deleted entry is the name of no file.
LEMMA DeletedIsNoName == "deleted" \notin Names /\ NoFile \notin FileSet /\ NoFile.name = "deleted"
BY DEF Names, NoFile, File, FileSet

\* A new file is given an entry that is free.
LEMMA EntryGiven ==
  ASSUME NEW root \in [1 .. RootEntries -> Entries], NEW name \in Names,
         \A i \in Used(root) : root[i].name \in Names,
         FindRootEntry(root, name, RootEntries) # 0
  PROVE  /\ FindRootEntry(root, name, RootEntries) \in 1 .. RootEntries
         /\ root[FindRootEntry(root, name, RootEntries)] = NoEntry
         /\ \A i \in Used(root) : root[i].name = name => FindRootEntry(root, name, RootEntries) < i
<1> DEFINE hits == {i \in 1 .. RootEntries : root[i].name \in {"deleted", name}}
           e == FindRootEntry(root, name, RootEntries)
<1>1. hits # {} /\ e = Lowest(hits) /\ root[e].name # name
  BY DEF FindRootEntry
<1>2. \E i \in hits : \A j \in hits : i <= j
  <2>1. hits \in SUBSET Nat
    OBVIOUS
  <2> HIDE DEF hits
  <2>2. QED
    BY <1>1, <2>1, LeastNumber
<1>3. e \in hits /\ \A j \in hits : e <= j
  <2> HIDE DEF hits, e
  <2>1. QED
    BY <1>1, <1>2, Zenon DEF Lowest
<1> HIDE DEF e
<1>4. e \in 1 .. RootEntries /\ root[e].name = "deleted"
  BY <1>1, <1>3
<1>5. root[e] = NoEntry
  BY <1>4, DeletedIsNoName DEF Used
<1>6. \A i \in Used(root) : root[i].name = name => e < i
  <2>1. SUFFICES ASSUME NEW i \in Used(root), root[i].name = name PROVE e < i
    OBVIOUS
  <2>2. i \in hits /\ i \in 1 .. RootEntries
    BY <2>1 DEF Used
  <2>3. e <= i /\ e # i
    BY <1>1, <1>3, <2>1, <2>2
  <2>4. RootEntries \in Nat
    BY VolumeAssumption
  <2>5. QED
    BY <1>4, <2>2, <2>3, <2>4
<1>7. QED
  BY <1>4, <1>5, <1>6 DEF e

\* A file of a new name that is written has its entry and its chain, and leaves those of the
\* others alone.
LEMMA WriteHolds ==
  ASSUME NEW v, NEW fs, NEW ch, VolumeHolds(v, fs, ch), DOMAIN ch = 1 .. RootEntries,
         NEW file \in FileSet, CanWrite(v, file, RootEntries),
         \A i \in Used(v.root) : v.root[i].name # file.name
  PROVE  \E new : /\ DOMAIN new = 1 .. RootEntries
                  /\ VolumeHolds(WriteFile(v, file, 1, RootEntries), [fs EXCEPT ![file.name] = file], new)
<1> DEFINE e   == FindRootEntry(v.root, file.name, RootEntries)
           cl  == Allocate(v.fat, file.size)
           n   == Needed(file.size)
           w   == WriteFile(v, file, 1, RootEntries)
           gs  == [fs EXCEPT ![file.name] = file]
           row == [name |-> file.name, first |-> cl[1], size |-> file.size]
           new == [i \in 1 .. RootEntries |-> IF i = e THEN cl ELSE ch[i]]
<1>1. file.name \in Names /\ file.size \in Nat /\ v.fat \in Fats
      /\ v.root \in [1 .. RootEntries -> Entries] /\ DOMAIN v.data = Clusters
      /\ fs \in [Names -> FileSet \cup {NoFile}]
      /\ \A i \in Used(v.root) : v.root[i].name \in Names
  BY DEF FileSet, VolumeHolds, Typed
<1>2. e # 0 /\ cl # <<>>
  BY DEF CanWrite
<1>3. e \in 1 .. RootEntries /\ v.root[e] = NoEntry
  BY <1>1, <1>2, EntryGiven
<1>4. /\ n \in Nat \ {0} /\ cl \in [1 .. n -> Clusters] /\ Len(cl) = n
      /\ \A k \in 1 .. n : GetFat(v.fat, cl[k]) = 0
  BY <1>1, <1>2, AllocateGives
<1>5. /\ w.fat \in Fats
      /\ IsChain(w.fat, cl[1], n, cl)
      /\ \A c \in Clusters : (\A k \in 1 .. n : cl[k] # c) => GetFat(w.fat, c) = GetFat(v.fat, c)
  <2>1. w.fat = Linked(v.fat, cl, 1)
    BY DEF WriteFile
  <2>2. QED
    BY <1>1, <1>2, <2>1, AllocatedChain
<1>6. \A j, k \in 1 .. n : cl[j] = cl[k] => j = k
  <2> HIDE DEF w, cl, n
  <2>1. n \in Nat \ {0} /\ IsChain(w.fat, cl[1], n, cl)
    BY <1>4, <1>5
  <2>2. QED
    BY <2>1, ChainDistinct
<1>7. w.root = [v.root EXCEPT ![e] = row]
  BY DEF WriteFile
<1>8. DOMAIN w.data = Clusters
      /\ \A c \in Clusters : w.data[c] = IF \E k \in 1 .. n : cl[k] = c
                                         THEN Sector(file, CHOOSE k \in 1 .. n : cl[k] = c)
                                         ELSE v.data[c]
  <2>1. DOMAIN cl = 1 .. n
    BY <1>4
  <2>2. QED
    BY <2>1 DEF WriteFile
<1>9. cl[1] \in Clusters /\ row \in Entries /\ row.name = file.name /\ row.size = file.size
      /\ row.first = cl[1] /\ row # NoEntry
  <2>1. cl[1] \in Clusters
    BY <1>4
  <2>2. cl[1] \in Nat
    BY <2>1, ClusterRange
  <2>3. row.name # "deleted"
    BY <1>1, DeletedIsNoName
  <2>4. QED
    BY <2>1, <2>2, <2>3, <1>1 DEF Entries, NoEntry
<1> HIDE DEF e, cl, n, w, row
<1>10. \A k \in 1 .. n : w.data[cl[k]] = Sector(file, k)
  <2>1. SUFFICES ASSUME NEW k \in 1 .. n PROVE w.data[cl[k]] = Sector(file, k)
    OBVIOUS
  <2>2. cl[k] \in Clusters
    BY <1>4
  <2>3. (CHOOSE j \in 1 .. n : cl[j] = cl[k]) = k
    BY <1>6
  <2>4. QED
    BY <1>8, <2>2, <2>3
<1>11. \A c \in Clusters : (\A k \in 1 .. n : cl[k] # c) => w.data[c] = v.data[c]
  BY <1>8
<1>12. /\ w.root \in [1 .. RootEntries -> Entries]
       /\ w.root[e] = row
       /\ \A i \in 1 .. RootEntries : i # e => w.root[i] = v.root[i]
       /\ e \in Used(w.root) /\ Used(w.root) = Used(v.root) \cup {e} /\ e \notin Used(v.root)
       /\ \A i \in Used(v.root) : w.root[i] = v.root[i] /\ new[i] = ch[i]
       /\ new[e] = cl
  BY <1>1, <1>3, <1>7, <1>9 DEF Used
<1>13. \A i \in Used(v.root) : \A k \in Places(v.root, i) :
         ch[i][k] \in Clusters /\ GetFat(v.fat, ch[i][k]) # 0 /\ \A l \in 1 .. n : cl[l] # ch[i][k]
  <2>1. SUFFICES ASSUME NEW i \in Used(v.root), NEW k \in Places(v.root, i)
                 PROVE  ch[i][k] \in Clusters /\ GetFat(v.fat, ch[i][k]) # 0
    BY <1>4
  <2>2. IsChain(v.fat, v.root[i].first, Needed(v.root[i].size), ch[i])
    BY DEF VolumeHolds, Chained
  <2>3. v.root[i].size \in Nat
    BY <1>1 DEF Used, Entries
  <2>4. Needed(v.root[i].size) \in Nat \ {0}
    BY <2>3, NeededType
  <2>5. k \in 1 .. Needed(v.root[i].size)
    BY DEF Places
  <2>6. QED
    BY <2>2, <2>4, <2>5, ChainTaken
<1>14. Typed(w, gs)
  <2>1. gs \in [Names -> FileSet \cup {NoFile}]
    BY <1>1
  <2> HIDE DEF gs
  <2>2. \A i \in Used(w.root) : w.root[i].name \in Names
    BY <1>1, <1>9, <1>12
  <2>3. QED
    BY <2>1, <2>2, <1>5, <1>8, <1>12 DEF Typed
<1>15. gs[file.name] = file /\ \A name \in Names \ {file.name} : gs[name] = fs[name]
  BY <1>1
<1> HIDE DEF gs, new
<1>16. Listing(w, gs)
  <2>1. /\ \A i, j \in Used(v.root) : v.root[i].name = v.root[j].name => i = j
        /\ \A i \in Used(v.root) : /\ fs[v.root[i].name].name = v.root[i].name
                                   /\ fs[v.root[i].name].size = v.root[i].size
        /\ \A name \in Names : fs[name] # NoFile =>
             fs[name].name = name /\ \E i \in Used(v.root) : v.root[i].name = name
    BY DEF VolumeHolds, Listing
  <2>2. \A i, j \in Used(w.root) : w.root[i].name = w.root[j].name => i = j
    BY <2>1, <1>9, <1>12
  <2>3. \A i \in Used(w.root) : /\ gs[w.root[i].name].name = w.root[i].name
                                /\ gs[w.root[i].name].size = w.root[i].size
    <3>1. ASSUME NEW i \in Used(v.root)
          PROVE  gs[v.root[i].name].name = v.root[i].name /\ gs[v.root[i].name].size = v.root[i].size
      BY <2>1, <1>1, <1>15
    <3>2. gs[row.name].name = row.name /\ gs[row.name].size = row.size
      BY <1>9, <1>15
    <3>3. QED
      BY <3>1, <3>2, <1>12
  <2>4. \A name \in Names : gs[name] # NoFile =>
          gs[name].name = name /\ \E i \in Used(w.root) : w.root[i].name = name
    <3>1. SUFFICES ASSUME NEW name \in Names, gs[name] # NoFile
                   PROVE  gs[name].name = name /\ \E i \in Used(w.root) : w.root[i].name = name
      OBVIOUS
    <3>2. CASE name = file.name
      BY <3>2, <1>9, <1>12, <1>15
    <3>3. CASE name # file.name
      <4>1. fs[name].name = name /\ gs[name] = fs[name]
        BY <3>1, <3>3, <2>1, <1>15
      <4>2. PICK i \in Used(v.root) : v.root[i].name = name
        BY <3>1, <4>1, <2>1
      <4>3. QED
        BY <4>1, <4>2, <1>12
    <3>4. QED
      BY <3>2, <3>3
  <2>5. QED
    BY <2>2, <2>3, <2>4 DEF Listing
<1>17. \A i \in Used(v.root) : Places(w.root, i) = Places(v.root, i)
  BY <1>12 DEF Places
<1>18. Places(w.root, e) = 1 .. n
  BY <1>9, <1>12 DEF Places, n
<1>19. Chained(w, new)
  <2>1. ASSUME NEW i \in Used(w.root)
        PROVE  IsChain(w.fat, w.root[i].first, Needed(w.root[i].size), new[i])
    <3>1. CASE i = e
      BY <3>1, <1>5, <1>9, <1>12 DEF n
    <3>2. CASE i # e
      <4>1. i \in Used(v.root) /\ w.root[i] = v.root[i] /\ new[i] = ch[i]
        BY <3>2, <1>12
      <4>2. IsChain(v.fat, v.root[i].first, Needed(v.root[i].size), ch[i])
        BY <4>1 DEF VolumeHolds, Chained
      <4>3. v.root[i].size \in Nat
        BY <4>1, <1>1 DEF Used, Entries
      <4>4. Needed(v.root[i].size) \in Nat \ {0}
        BY <4>3, NeededType
      <4>5. \A k \in 1 .. Needed(v.root[i].size) : GetFat(w.fat, ch[i][k]) = GetFat(v.fat, ch[i][k])
        BY <4>1, <1>5, <1>13 DEF Places
      <4>6. QED
        BY <4>1, <4>2, <4>4, <4>5, ChainStays
    <3>3. QED
      BY <3>1, <3>2
  <2>2. \A i, j \in Used(w.root) : \A k \in Places(w.root, i), l \in Places(w.root, j) :
          new[i][k] = new[j][l] => i = j
    <3>1. \A i, j \in Used(v.root) : \A k \in Places(v.root, i), l \in Places(v.root, j) :
            ch[i][k] = ch[j][l] => i = j
      BY DEF VolumeHolds, Chained
    <3>2. SUFFICES ASSUME NEW i \in Used(w.root), NEW j \in Used(w.root),
                          NEW k \in Places(w.root, i), NEW l \in Places(w.root, j),
                          new[i][k] = new[j][l], i # j
                   PROVE  FALSE
      OBVIOUS
    <3>3. CASE i = e
      <4>1. j \in Used(v.root) /\ k \in 1 .. n /\ l \in Places(v.root, j) /\ cl[k] = ch[j][l]
        BY <3>2, <3>3, <1>12, <1>17, <1>18
      <4>2. QED
        BY <4>1, <1>13
    <3>4. CASE j = e
      <4>1. i \in Used(v.root) /\ l \in 1 .. n /\ k \in Places(v.root, i) /\ cl[l] = ch[i][k]
        BY <3>2, <3>4, <1>12, <1>17, <1>18
      <4>2. QED
        BY <4>1, <1>13
    <3>5. CASE i # e /\ j # e
      <4>1. /\ i \in Used(v.root) /\ k \in Places(v.root, i)
            /\ j \in Used(v.root) /\ l \in Places(v.root, j) /\ ch[i][k] = ch[j][l]
        BY <3>2, <3>5, <1>12, <1>17
      <4>2. QED
        BY <3>1, <3>2, <4>1
    <3>6. QED
      BY <3>3, <3>4, <3>5
  <2>3. QED
    BY <2>1, <2>2 DEF Chained
<1>20. Owned(w, new)
  <2>1. SUFFICES ASSUME NEW c \in Clusters, GetFat(w.fat, c) # 0
                 PROVE  \E i \in Used(w.root) : \E k \in Places(w.root, i) : new[i][k] = c
    BY DEF Owned
  <2>2. CASE \E k \in 1 .. n : cl[k] = c
    BY <2>2, <1>12, <1>18
  <2>3. CASE \A k \in 1 .. n : cl[k] # c
    <3>1. GetFat(v.fat, c) # 0
      BY <2>1, <2>3, <1>5
    <3>2. PICK i \in Used(v.root) : \E k \in Places(v.root, i) : ch[i][k] = c
      BY <3>1 DEF VolumeHolds, Owned
    <3>3. QED
      BY <3>2, <1>12, <1>17
  <2>4. QED
    BY <2>2, <2>3
<1>21. Filled(w, gs, new)
  <2>1. ASSUME NEW i \in Used(w.root), NEW k \in Places(w.root, i)
        PROVE  w.data[new[i][k]] = Sector(gs[w.root[i].name], k)
    <3>1. CASE i = e
      BY <3>1, <2>1, <1>9, <1>10, <1>12, <1>15, <1>18
    <3>2. CASE i # e
      <4>1. /\ i \in Used(v.root) /\ w.root[i] = v.root[i] /\ new[i] = ch[i]
            /\ k \in Places(v.root, i)
        BY <3>2, <2>1, <1>12, <1>17
      <4>2. v.data[ch[i][k]] = Sector(fs[v.root[i].name], k)
        BY <4>1 DEF VolumeHolds, Filled
      <4>3. w.data[ch[i][k]] = v.data[ch[i][k]]
        BY <4>1, <1>11, <1>13
      <4>4. gs[v.root[i].name] = fs[v.root[i].name]
        BY <4>1, <1>1, <1>15
      <4>5. QED
        BY <4>1, <4>2, <4>3, <4>4
    <3>3. QED
      BY <3>1, <3>2
  <2>2. ASSUME NEW c \in Clusters, GetFat(w.fat, c) = 0
        PROVE  w.data[c] = Stale
    <3>1. \A k \in 1 .. n : cl[k] # c
      BY <2>2, <1>4, <1>5, ChainTaken
    <3>2. GetFat(v.fat, c) = 0
      BY <2>2, <3>1, <1>5
    <3>3. v.data[c] = Stale
      BY <3>2 DEF VolumeHolds, Filled
    <3>4. QED
      BY <3>1, <3>3, <1>11
  <2>3. QED
    BY <2>1, <2>2 DEF Filled
<1>22. VolumeHolds(w, gs, new)
  BY <1>14, <1>16, <1>19, <1>20, <1>21 DEF VolumeHolds
<1>23. DOMAIN new = 1 .. RootEntries
  BY DEF new
<1>24. QED
  BY <1>22, <1>23 DEF w, gs

\* Deleting frees the chain of the entry and erases its sectors, and no others.
LEMMA DeleteHolds ==
  ASSUME NEW v, NEW fs, NEW ch, VolumeHolds(v, fs, ch), NEW d \in Used(v.root)
  PROVE  VolumeHolds(Deleted(v, d), [fs EXCEPT ![v.root[d].name] = NoFile], ch)
<1> DEFINE w    == Deleted(v, d)
           gs   == [fs EXCEPT ![v.root[d].name] = NoFile]
           n    == Needed(v.root[d].size)
           gone == {Walk(v.fat, v.root[d].first)[k] : k \in 1 .. n}
<1>1. /\ v.fat \in Fats /\ v.root \in [1 .. RootEntries -> Entries] /\ DOMAIN v.data = Clusters
      /\ fs \in [Names -> FileSet \cup {NoFile}]
      /\ \A i \in Used(v.root) : v.root[i].name \in Names
  BY DEF VolumeHolds, Typed
<1>2. d \in 1 .. RootEntries /\ v.root[d].first \in Nat /\ n \in Nat \ {0}
  <2>1. d \in 1 .. RootEntries
    BY DEF Used
  <2>2. v.root[d].first \in Nat /\ v.root[d].size \in Nat
    BY <2>1, <1>1 DEF Entries
  <2>3. QED
    BY <2>1, <2>2, NeededType
<1>3. IsChain(v.fat, v.root[d].first, n, ch[d])
  BY DEF VolumeHolds, Chained
<1>4. gone = {ch[d][k] : k \in 1 .. n} /\ gone \in SUBSET Clusters
  <2>1. \A k \in 1 .. n : Walk(v.fat, v.root[d].first)[k] = ch[d][k]
    <3> HIDE DEF n
    <3>1. QED
      BY <1>1, <1>2, <1>3, WalkFollows
  <2>2. \A k \in 1 .. n : ch[d][k] \in Clusters
    BY <1>3 DEF IsChain
  <2>3. QED
    BY <2>1, <2>2
<1>5. /\ w.fat = [m \in Nibbles |-> IF \E c \in gone : m \in 3 * c .. 3 * c + 2 THEN 0 ELSE v.fat[m]]
      /\ w.root = [v.root EXCEPT ![d] = NoEntry]
      /\ w.data = [c \in Clusters |-> IF c \in gone THEN Stale ELSE v.data[c]]
  <2>1. DOMAIN v.fat = Nibbles
    BY <1>1 DEF Fats
  <2>2. QED
    BY <2>1 DEF Deleted
<1> HIDE DEF w, n, gone
<1>6. /\ w.fat \in Fats
      /\ \A c \in gone : GetFat(w.fat, c) = 0
      /\ \A c \in Clusters \ gone : GetFat(w.fat, c) = GetFat(v.fat, c)
  <2>1. \A m \in Nibbles : v.fat[m] \in 0 .. 15
    BY <1>1 DEF Fats
  <2>2. w.fat \in Fats
    BY <2>1, <1>5 DEF Fats
  <2>3. \A c \in Clusters : c \in Nat /\ 3 * c \in Nibbles /\ 3 * c + 1 \in Nibbles /\ 3 * c + 2 \in Nibbles
    BY ClustersInTable
  <2>4. \A c \in Clusters : \A x \in {3 * c, 3 * c + 1, 3 * c + 2} :
          /\ x \in Nibbles /\ x \in 3 * c .. 3 * c + 2
          /\ \A b \in Clusters : x \in 3 * b .. 3 * b + 2 => b = c
    <3>1. SUFFICES ASSUME NEW c \in Clusters, NEW x \in {3 * c, 3 * c + 1, 3 * c + 2}
                   PROVE  /\ x \in Nibbles /\ x \in 3 * c .. 3 * c + 2
                          /\ \A b \in Clusters : x \in 3 * b .. 3 * b + 2 => b = c
      OBVIOUS
    <3>2. c \in Nat /\ x \in Nibbles
      BY <2>3
    <3>3. \A b \in Nat : x \in 3 * b .. 3 * b + 2 => b = c
      BY <3>2
    <3>4. QED
      BY <2>3, <3>2, <3>3
  <2>5. ASSUME NEW c \in gone
        PROVE  GetFat(w.fat, c) = 0
    <3>1. c \in Clusters
      BY <1>4
    <3>2. \A x \in {3 * c, 3 * c + 1, 3 * c + 2} : x \in Nibbles /\ \E b \in gone : x \in 3 * b .. 3 * b + 2
      BY <3>1, <2>4
    <3>3. \A x \in {3 * c, 3 * c + 1, 3 * c + 2} : w.fat[x] = 0
      BY <3>2, <1>5
    <3>4. QED
      BY <3>3 DEF GetFat
  <2>6. ASSUME NEW c \in Clusters \ gone
        PROVE  GetFat(w.fat, c) = GetFat(v.fat, c)
    <3>1. \A x \in {3 * c, 3 * c + 1, 3 * c + 2} : x \in Nibbles /\ ~ \E b \in gone : x \in 3 * b .. 3 * b + 2
      BY <2>4, <1>4
    <3>2. /\ w.fat[3 * c] = v.fat[3 * c] /\ w.fat[3 * c + 1] = v.fat[3 * c + 1]
          /\ w.fat[3 * c + 2] = v.fat[3 * c + 2]
      BY <3>1, <1>5
    <3>3. QED
      BY <3>2 DEF GetFat
  <2>7. QED
    BY <2>2, <2>5, <2>6
<1>7. /\ w.root \in [1 .. RootEntries -> Entries]
      /\ Used(w.root) = Used(v.root) \ {d}
      /\ \A i \in Used(w.root) : w.root[i] = v.root[i]
  <2>1. NoEntry \in Entries
    BY DEF NoEntry, Entries
  <2>2. w.root \in [1 .. RootEntries -> Entries]
    BY <2>1, <1>1, <1>5
  <2>3. \A i \in 1 .. RootEntries : w.root[i] = IF i = d THEN NoEntry ELSE v.root[i]
    BY <1>1, <1>2, <1>5
  <2>4. Used(w.root) = Used(v.root) \ {d}
    BY <2>3 DEF Used
  <2>5. \A i \in Used(w.root) : w.root[i] = v.root[i]
    BY <2>3, <2>4 DEF Used
  <2>6. QED
    BY <2>2, <2>4, <2>5
<1>8. \A i \in Used(w.root) : i \in Used(v.root) /\ i # d /\ Places(w.root, i) = Places(v.root, i)
  BY <1>7 DEF Places
<1>9. \A i \in Used(w.root) : \A k \in Places(v.root, i) : ch[i][k] \in Clusters \ gone
  <2>1. SUFFICES ASSUME NEW i \in Used(w.root), NEW k \in Places(v.root, i)
                 PROVE  ch[i][k] \in Clusters \ gone
    OBVIOUS
  <2>2. i \in Used(v.root) /\ i # d
    BY <1>8
  <2>3. ch[i][k] \in Clusters
    <3>1. IsChain(v.fat, v.root[i].first, Needed(v.root[i].size), ch[i])
      BY <2>2 DEF VolumeHolds, Chained
    <3>2. QED
      BY <3>1 DEF IsChain, Places
  <2>4. \A l \in 1 .. n : ch[i][k] # ch[d][l]
    BY <2>2 DEF VolumeHolds, Chained, Places, n
  <2>5. QED
    BY <2>3, <2>4, <1>4
<1>10. gs[v.root[d].name] = NoFile /\ \A name \in Names \ {v.root[d].name} : gs[name] = fs[name]
  BY <1>1
<1>11. Typed(w, gs)
  <2>1. gs \in [Names -> FileSet \cup {NoFile}]
    BY <1>1
  <2> HIDE DEF gs
  <2>2. \A i \in Used(w.root) : w.root[i].name \in Names
    BY <1>1, <1>7, <1>8
  <2>3. QED
    BY <2>1, <2>2, <1>5, <1>6, <1>7 DEF Typed
<1> HIDE DEF gs
<1>12. \A i \in Used(w.root) : v.root[i].name \in Names \ {v.root[d].name}
  BY <1>1, <1>8 DEF VolumeHolds, Listing
<1>13. Listing(w, gs)
  <2>1. /\ \A i, j \in Used(v.root) : v.root[i].name = v.root[j].name => i = j
        /\ \A i \in Used(v.root) : /\ fs[v.root[i].name].name = v.root[i].name
                                   /\ fs[v.root[i].name].size = v.root[i].size
        /\ \A name \in Names : fs[name] # NoFile =>
             fs[name].name = name /\ \E i \in Used(v.root) : v.root[i].name = name
    BY DEF VolumeHolds, Listing
  <2>2. \A i, j \in Used(w.root) : w.root[i].name = w.root[j].name => i = j
    BY <2>1, <1>7, <1>8
  <2>3. \A i \in Used(w.root) : /\ gs[w.root[i].name].name = w.root[i].name
                                /\ gs[w.root[i].name].size = w.root[i].size
    BY <2>1, <1>7, <1>8, <1>10, <1>12
  <2>4. \A name \in Names : gs[name] # NoFile =>
          gs[name].name = name /\ \E i \in Used(w.root) : w.root[i].name = name
    <3>1. SUFFICES ASSUME NEW name \in Names, gs[name] # NoFile
                   PROVE  gs[name].name = name /\ \E i \in Used(w.root) : w.root[i].name = name
      OBVIOUS
    <3>2. name # v.root[d].name /\ gs[name] = fs[name]
      BY <3>1, <1>10
    <3>3. fs[name].name = name /\ \E i \in Used(v.root) : v.root[i].name = name
      BY <3>1, <3>2, <2>1
    <3>4. QED
      BY <3>2, <3>3, <1>7
  <2>5. QED
    BY <2>2, <2>3, <2>4 DEF Listing
<1>14. Chained(w, ch)
  <2>1. ASSUME NEW i \in Used(w.root)
        PROVE  IsChain(w.fat, w.root[i].first, Needed(w.root[i].size), ch[i])
    <3>1. i \in Used(v.root) /\ w.root[i] = v.root[i]
      BY <1>7, <1>8
    <3>2. IsChain(v.fat, v.root[i].first, Needed(v.root[i].size), ch[i])
      BY <3>1 DEF VolumeHolds, Chained
    <3>3. v.root[i].size \in Nat
      BY <3>1, <1>1 DEF Used, Entries
    <3>4. Needed(v.root[i].size) \in Nat \ {0}
      BY <3>3, NeededType
    <3>5. \A k \in 1 .. Needed(v.root[i].size) : GetFat(w.fat, ch[i][k]) = GetFat(v.fat, ch[i][k])
      BY <1>6, <1>9 DEF Places
    <3>6. QED
      BY <3>1, <3>2, <3>4, <3>5, ChainStays
  <2>2. \A i, j \in Used(w.root) : \A k \in Places(w.root, i), l \in Places(w.root, j) :
          ch[i][k] = ch[j][l] => i = j
    BY <1>8 DEF VolumeHolds, Chained
  <2>3. QED
    BY <2>1, <2>2 DEF Chained
<1>15. Owned(w, ch)
  <2>1. SUFFICES ASSUME NEW c \in Clusters, GetFat(w.fat, c) # 0
                 PROVE  \E i \in Used(w.root) : \E k \in Places(w.root, i) : ch[i][k] = c
    BY DEF Owned
  <2>2. c \notin gone /\ GetFat(v.fat, c) # 0
    BY <2>1, <1>6
  <2>3. PICK i \in Used(v.root) : \E k \in Places(v.root, i) : ch[i][k] = c
    BY <2>2 DEF VolumeHolds, Owned
  <2>4. i # d
    BY <2>2, <2>3, <1>4 DEF Places, n
  <2>5. QED
    BY <2>3, <2>4, <1>7, <1>8
<1>16. Filled(w, gs, ch)
  <2>1. ASSUME NEW i \in Used(w.root), NEW k \in Places(w.root, i)
        PROVE  w.data[ch[i][k]] = Sector(gs[w.root[i].name], k)
    <3>1. i \in Used(v.root) /\ w.root[i] = v.root[i] /\ k \in Places(v.root, i)
      BY <1>7, <1>8
    <3>2. v.data[ch[i][k]] = Sector(fs[v.root[i].name], k)
      BY <3>1 DEF VolumeHolds, Filled
    <3>3. w.data[ch[i][k]] = v.data[ch[i][k]]
      BY <3>1, <1>5, <1>9
    <3>4. gs[v.root[i].name] = fs[v.root[i].name]
      BY <1>10, <1>12
    <3>5. QED
      BY <3>1, <3>2, <3>3, <3>4
  <2>2. ASSUME NEW c \in Clusters, GetFat(w.fat, c) = 0
        PROVE  w.data[c] = Stale
    <3>1. CASE c \in gone
      BY <3>1, <1>5
    <3>2. CASE c \notin gone
      <4>1. GetFat(v.fat, c) = 0
        BY <2>2, <3>2, <1>6
      <4>2. v.data[c] = Stale
        BY <4>1 DEF VolumeHolds, Filled
      <4>3. QED
        BY <3>2, <4>2, <1>5
    <3>3. QED
      BY <3>1, <3>2
  <2>3. QED
    BY <2>1, <2>2 DEF Filled
<1>17. QED
  BY <1>11, <1>13, <1>14, <1>15, <1>16 DEF VolumeHolds, w, gs

\* An empty volume
LEMMA FormattedHolds ==
  ASSUME NEW ch
  PROVE  VolumeHolds(Formatted, [name \in Names |-> NoFile], ch)
<1> DEFINE v  == Formatted
           fs == [name \in Names |-> NoFile]
           f0 == [m \in Nibbles |-> 0]
           f1 == Put(f0, 0, 4089)
<1>1. v.fat = Put(f1, 3, EndOfChain)
      /\ v.root = [i \in 1 .. RootEntries |-> NoEntry] /\ v.data = [c \in Clusters |-> Stale]
  BY DEF Formatted
<1>2. DOMAIN f1 = Nibbles /\ \A m \in Nibbles : f1[m] \in 0 .. 15 /\ (m > 2 => f1[m] = 0)
  <2>1. Nibbles \in SUBSET Int
    BY DEF Nibbles
  <2>2. f1 = [m \in Nibbles |-> CASE m = 0     -> 4089 % 16
                                  [] m = 0 + 1 -> (4089 \div 16) % 16
                                  [] m = 0 + 2 -> 4089 \div 256
                                  [] OTHER     -> f0[m]]
    BY DEF Put
  <2>3. 4089 % 16 \in 0 .. 15 /\ (4089 \div 16) % 16 \in 0 .. 15 /\ 4089 \div 256 \in 0 .. 15
    OBVIOUS
  <2>4. ASSUME NEW m \in Nibbles
        PROVE  f1[m] \in 0 .. 15 /\ (m > 2 => f1[m] = 0)
    <3>1. m \in Int /\ f0[m] = 0
      BY <2>1
    <3>2. CASE m \in {0, 1, 2}
      BY <3>1, <3>2, <2>2, <2>3
    <3>3. CASE m \notin {0, 1, 2}
      BY <3>1, <3>3, <2>2
    <3>4. QED
      BY <3>2, <3>3
  <2>5. QED
    BY <2>2, <2>4
<1> HIDE DEF f1
<1>3. v.fat \in Fats /\ \A m \in Nibbles : m > 5 => v.fat[m] = 0
  <2>1. Nibbles \in SUBSET Int
    BY DEF Nibbles
  <2>2. v.fat = [m \in Nibbles |-> CASE m = 3     -> 4095 % 16
                                     [] m = 3 + 1 -> (4095 \div 16) % 16
                                     [] m = 3 + 2 -> 4095 \div 256
                                     [] OTHER     -> f1[m]]
    BY <1>1, <1>2 DEF Put, EndOfChain
  <2>3. 4095 % 16 \in 0 .. 15 /\ (4095 \div 16) % 16 \in 0 .. 15 /\ 4095 \div 256 \in 0 .. 15
    OBVIOUS
  <2> HIDE DEF v
  <2>4. ASSUME NEW m \in Nibbles
        PROVE  v.fat[m] \in 0 .. 15 /\ (m > 5 => v.fat[m] = 0)
    <3>1. m \in Int /\ f1[m] \in 0 .. 15 /\ (m > 2 => f1[m] = 0)
      BY <2>1, <1>2
    <3>2. CASE m \in {3, 4, 5}
      BY <3>1, <3>2, <2>2, <2>3
    <3>3. CASE m \notin {3, 4, 5}
      BY <3>1, <3>3, <2>2
    <3>4. QED
      BY <3>2, <3>3
  <2>5. QED
    BY <2>2, <2>4 DEF Fats
<1> HIDE DEF v, fs
<1>4. \A c \in Clusters : GetFat(v.fat, c) = 0
  <2>1. SUFFICES ASSUME NEW c \in Clusters PROVE GetFat(v.fat, c) = 0
    OBVIOUS
  <2>2. /\ c \in Nat /\ 2 <= c
        /\ 3 * c \in Nibbles /\ 3 * c + 1 \in Nibbles /\ 3 * c + 2 \in Nibbles
    BY ClustersInTable
  <2>3. v.fat[3 * c] = 0 /\ v.fat[3 * c + 1] = 0 /\ v.fat[3 * c + 2] = 0
    BY <2>2, <1>3
  <2>4. QED
    BY <2>3 DEF GetFat
<1>5. Used(v.root) = {}
  BY <1>1 DEF Used
<1>6. \A name \in Names : fs[name] = NoFile
  BY DEF fs
<1>7. Typed(v, fs)
  <2>1. NoEntry \in Entries
    BY DEF NoEntry, Entries
  <2>2. fs \in [Names -> FileSet \cup {NoFile}]
    BY DEF fs
  <2>3. QED
    BY <1>1, <1>3, <1>5, <2>1, <2>2 DEF Typed
<1>8. Listing(v, fs)
  BY <1>5, <1>6 DEF Listing
<1>9. Chained(v, ch) /\ Owned(v, ch) /\ Filled(v, fs, ch)
  BY <1>1, <1>4, <1>5 DEF Chained, Owned, Filled
<1>10. QED
  BY <1>7, <1>8, <1>9 DEF VolumeHolds, v, fs

\* The chain of each entry as the firmware walks it
Chains(v) == [i \in 1 .. RootEntries |-> Walk(v.fat, v.root[i].first)]

\* The chains that a volume holds its files in are those that walking the table
\* from each used entry finds.
LEMMA WalkedChains ==
  ASSUME NEW v, NEW fs, NEW ch, VolumeHolds(v, fs, ch)
  PROVE  /\ VolumeHolds(v, fs, Chains(v)) /\ DOMAIN Chains(v) = 1 .. RootEntries
         /\ \A i \in Used(v.root) : Chains(v)[i] = Walk(v.fat, v.root[i].first)
<1> DEFINE new == Chains(v)
<1>1. ASSUME NEW i \in Used(v.root)
      PROVE  /\ v.root[i].size \in Nat /\ Needed(v.root[i].size) \in Nat \ {0}
             /\ new[i] = Walk(v.fat, v.root[i].first)
             /\ \A k \in Places(v.root, i) : new[i][k] = ch[i][k]
  <2>1. i \in 1 .. RootEntries
    BY DEF Used
  <2>2. v.root[i].size \in Nat /\ v.root[i].first \in Nat /\ v.fat \in Fats
    BY <2>1 DEF VolumeHolds, Typed, Entries
  <2>3. Needed(v.root[i].size) \in Nat \ {0}
    BY <2>2, NeededType
  <2>4. new[i] = Walk(v.fat, v.root[i].first)
    BY <2>1 DEF Chains
  <2>5. IsChain(v.fat, v.root[i].first, Needed(v.root[i].size), ch[i])
    BY DEF VolumeHolds, Chained
  <2>6. \A k \in 1 .. Needed(v.root[i].size) : new[i][k] = ch[i][k]
    <3> HIDE DEF new
    <3>1. QED
      BY <2>2, <2>3, <2>4, <2>5, WalkFollows
  <2>7. QED
    BY <2>2, <2>3, <2>4, <2>6 DEF Places
<1> HIDE DEF new
<1>2. ASSUME NEW i \in Used(v.root)
      PROVE  IsChain(v.fat, v.root[i].first, Needed(v.root[i].size), new[i])
  <2> DEFINE n == Needed(v.root[i].size)
  <2>1. IsChain(v.fat, v.root[i].first, n, ch[i])
    BY DEF VolumeHolds, Chained
  <2>2. n \in Nat \ {0} /\ \A k \in 1 .. n : new[i][k] = ch[i][k]
    BY <1>1 DEF Places
  <2> HIDE DEF n
  <2>3. 1 \in 1 .. n /\ n \in 1 .. n /\ \A k \in 1 .. n - 1 : k \in 1 .. n /\ k + 1 \in 1 .. n
    BY <2>2
  <2>4. IsChain(v.fat, v.root[i].first, n, new[i])
    BY <2>1, <2>2, <2>3 DEF IsChain
  <2>5. QED
    BY <2>4 DEF n
<1>3. Chained(v, new)
  <2>1. \A i, j \in Used(v.root) : \A k \in Places(v.root, i), l \in Places(v.root, j) :
          new[i][k] = new[j][l] => i = j
    BY <1>1 DEF VolumeHolds, Chained
  <2>2. QED
    BY <1>2, <2>1 DEF Chained
<1>4. Owned(v, new)
  BY <1>1 DEF VolumeHolds, Owned
<1>5. Filled(v, fs, new)
  BY <1>1 DEF VolumeHolds, Filled
<1>6. DOMAIN new = 1 .. RootEntries
  BY DEF new, Chains
<1>7. QED
  BY <1>1, <1>3, <1>4, <1>5, <1>6 DEF VolumeHolds, new

------------------------------------------------------------------------------
(* The volume under the firmware and the builder                             *)

VolumeInv == VolumeHolds(vol, files, Chains(vol))

\* The files of the constants are files.
LEMMA FilesOfConstants ==
  /\ \A file \in Saves : file \in FileSet /\ file.name \in {"TEST.TXT", "DW-BASIC.COD"} /\ file.kind = "none"
  /\ \A b \in Builds : /\ b.kind \in Kinds
                       /\ Stub(b.kind) \in FileSet /\ Stub(b.kind).name = "EROMCARD.X"
                       /\ Stub(b.kind).kind = b.kind /\ Stub(b.kind).size > 0
                       /\ Basic(b.basic) \in FileSet /\ Basic(b.basic).name = "BASIC.BAS"
                       /\ Basic(b.basic).kind = "none"
<1>1. ASSUME NEW file \in Saves
      PROVE  file \in FileSet /\ file.name \in {"TEST.TXT", "DW-BASIC.COD"} /\ file.kind = "none"
  <2>1. /\ file = [name |-> file.name, kind |-> "none", size |-> file.size] /\ file.size \in Nat
        /\ file.name \in {"TEST.TXT", "DW-BASIC.COD"}
    BY FilesAssumption DEF File
  <2>2. file.kind = "none"
    BY <2>1
  <2>3. file.name \in Names
    BY <2>1 DEF Names
  <2>4. QED
    BY <2>1, <2>2, <2>3 DEF FileSet
<1>2. ASSUME NEW b \in Builds
      PROVE  /\ b.kind \in Kinds
             /\ Stub(b.kind) \in FileSet /\ Stub(b.kind).name = "EROMCARD.X"
             /\ Stub(b.kind).kind = b.kind /\ Stub(b.kind).size > 0
             /\ Basic(b.basic) \in FileSet /\ Basic(b.basic).name = "BASIC.BAS"
             /\ Basic(b.basic).kind = "none"
  <2>1. b.kind \in Kinds /\ b.basic \in Nat /\ StubSize[b.kind] \in Nat \ {0}
    BY FilesAssumption
  <2>2. "EROMCARD.X" \in Names /\ "BASIC.BAS" \in Names
    BY DEF Names
  <2>3. Stub(b.kind) = [name |-> "EROMCARD.X", kind |-> b.kind, size |-> StubSize[b.kind]]
    BY DEF Stub, File
  <2>4. Basic(b.basic) = [name |-> "BASIC.BAS", kind |-> "none", size |-> b.basic]
    BY DEF Basic, File
  <2>5. QED
    BY <2>1, <2>2, <2>3, <2>4 DEF FileSet
<1>3. QED
  BY <1>1, <1>2

\* A name that is found free and is not hidden is not there.
LEMMA FreshName ==
  ASSUME NEW root \in [1 .. RootEntries -> Entries], NEW name \in Names,
         \A i \in Used(root) : root[i].name \in Names,
         FindRootEntry(root, name, RootEntries) # 0, ~Hidden(root, name)
  PROVE  \A i \in Used(root) : root[i].name # name
<1>1. SUFFICES ASSUME NEW i \in Used(root), root[i].name = name PROVE FALSE
  OBVIOUS
<1> DEFINE e == FindRootEntry(root, name, RootEntries)
<1>2. e \in 1 .. RootEntries /\ root[e] = NoEntry /\ e < i
  BY <1>1, EntryGiven
<1>3. i \in 1 .. RootEntries
  BY DEF Used
<1>4. QED
  BY <1>1, <1>2, <1>3 DEF Hidden

\* A file that the machine saves keeps the volume in order.
LEMMA SaveHolds ==
  ASSUME VolumeInv, NEW file \in Saves, Save(file)
  PROVE  VolumeInv'
<1>1. /\ ~Exists(vol.root, file.name) /\ CanWrite(vol, file, RootEntries)
      /\ vol' = WriteFile(vol, file, 1, RootEntries) /\ files' = [files EXCEPT ![file.name] = file]
  BY DEF Save
<1>2. file \in FileSet
  BY FilesOfConstants
<1>3. VolumeHolds(vol, files, Chains(vol)) /\ DOMAIN Chains(vol) = 1 .. RootEntries
  BY DEF VolumeInv, Chains
<1>4. \A i \in Used(vol.root) : vol.root[i].name # file.name
  <2>1. DOMAIN vol.root = 1 .. RootEntries
    BY <1>3 DEF VolumeHolds, Typed
  <2>2. QED
    BY <1>1, <2>1 DEF Exists, Used
<1>5. \E new : VolumeHolds(vol', files', new)
  BY <1>1, <1>2, <1>3, <1>4, WriteHolds
<1>6. QED
  BY <1>5, WalkedChains DEF VolumeInv

\* A file that the machine deletes leaves the volume in order.
LEMMA DeleteInv ==
  ASSUME VolumeInv, NEW i \in 1 .. RootEntries, Delete(i)
  PROVE  VolumeInv'
<1>1. /\ i \in Used(vol.root)
      /\ vol' = Deleted(vol, i) /\ files' = [files EXCEPT ![vol.root[i].name] = NoFile]
  BY DEF Delete, Used
<1>2. VolumeHolds(vol', files', Chains(vol))
  BY <1>1, DeleteHolds DEF VolumeInv
<1>3. QED
  BY <1>2, WalkedChains DEF VolumeInv

\* A card built with its two files over the old ones keeps the volume in order.
LEMMA BuildHolds ==
  ASSUME VolumeInv, NEW b \in Builds, Build(b)
  PROVE  VolumeInv'
<1> DEFINE stub == Stub(b.kind)
           basic == Basic(b.basic)
           mid == WriteFile(vol, stub, 1, RootEntries)
           between == [files EXCEPT !["EROMCARD.X"] = stub]
           e == FindRootEntry(vol.root, "EROMCARD.X", RootEntries)
<1>1. /\ ~Hidden(vol.root, "EROMCARD.X") /\ ~Hidden(vol.root, "BASIC.BAS")
      /\ CanWrite(vol, stub, RootEntries) /\ CanWrite(mid, basic, RootEntries)
      /\ vol' = WriteFile(mid, basic, 1, RootEntries)
      /\ files' = [files EXCEPT !["EROMCARD.X"] = stub, !["BASIC.BAS"] = basic]
  BY DEF Build
<1>2. stub \in FileSet /\ basic \in FileSet /\ stub.name = "EROMCARD.X" /\ basic.name = "BASIC.BAS"
  BY FilesOfConstants
<1>3. "EROMCARD.X" \in Names /\ "BASIC.BAS" \in Names
  BY DEF Names
<1>4. /\ VolumeHolds(vol, files, Chains(vol)) /\ DOMAIN Chains(vol) = 1 .. RootEntries
      /\ vol.root \in [1 .. RootEntries -> Entries]
      /\ \A i \in Used(vol.root) : vol.root[i].name \in Names
      /\ DOMAIN files = Names
  BY DEF VolumeInv, Chains, VolumeHolds, Typed
<1>5. e # 0 /\ FindRootEntry(mid.root, "BASIC.BAS", RootEntries) # 0
  BY <1>1, <1>2 DEF CanWrite
<1>6. \A i \in Used(vol.root) : vol.root[i].name # "EROMCARD.X"
  BY <1>1, <1>3, <1>4, <1>5, FreshName
<1>7. mid.root = [vol.root EXCEPT ![e] =
                    [name |-> "EROMCARD.X", first |-> Allocate(vol.fat, stub.size)[1], size |-> stub.size]]
  BY <1>2 DEF WriteFile
<1> HIDE DEF stub, basic, mid, between, e
<1>8. PICK new : DOMAIN new = 1 .. RootEntries /\ VolumeHolds(mid, between, new)
  BY <1>1, <1>2, <1>4, <1>6, WriteHolds DEF mid, between
<1>9. /\ mid.root \in [1 .. RootEntries -> Entries]
      /\ \A i \in Used(mid.root) : mid.root[i].name \in Names
  BY <1>8 DEF VolumeHolds, Typed
<1>10. \A i \in Used(mid.root) : mid.root[i].name # "BASIC.BAS"
  <2>1. SUFFICES ASSUME NEW i \in Used(mid.root), mid.root[i].name = "BASIC.BAS" PROVE FALSE
    OBVIOUS
  <2> DEFINE f == FindRootEntry(mid.root, "BASIC.BAS", RootEntries)
  <2>2. f \in 1 .. RootEntries /\ mid.root[f] = NoEntry /\ f < i
    BY <1>3, <1>5, <1>9, <2>1, EntryGiven
  <2> HIDE DEF f
  <2>3. i \in 1 .. RootEntries
    BY DEF Used
  <2>4. \A j \in 1 .. RootEntries : j # e => mid.root[j] = vol.root[j]
    BY <1>4, <1>7
  <2>5. e \in 1 .. RootEntries => mid.root[e].name = "EROMCARD.X"
    <3>1. SUFFICES ASSUME e \in 1 .. RootEntries PROVE mid.root[e].name = "EROMCARD.X"
      OBVIOUS
    <3>2. e \in DOMAIN vol.root
      BY <1>4, <3>1
    <3>3. mid.root[e] =
            [name |-> "EROMCARD.X", first |-> Allocate(vol.fat, stub.size)[1], size |-> stub.size]
      BY <1>7, <3>2
    <3>4. QED
      BY <3>3
  <2>6. i # e /\ f # e
    BY <2>1, <2>2, <2>3, <2>5 DEF NoEntry
  <2>7. vol.root[f] = NoEntry /\ vol.root[i].name = "BASIC.BAS" /\ DOMAIN vol.root = 1 .. RootEntries
    BY <2>1, <2>2, <2>3, <2>4, <2>6, <1>4
  <2>8. QED
    BY <2>2, <2>3, <2>7, <1>1 DEF Hidden
<1>11. \E last : VolumeHolds(vol', [between EXCEPT !["BASIC.BAS"] = basic], last)
  BY <1>1, <1>2, <1>8, <1>10, WriteHolds
<1>12. files' = [between EXCEPT !["BASIC.BAS"] = basic]
  BY <1>1 DEF between
<1>13. QED
  BY <1>11, <1>12, WalkedChains DEF VolumeInv

\* Every step keeps the files in chains of their own, in ascending order, with their sectors in
\* them; the table marks exactly these clusters, and the others are erased.
LEMMA VolumeStep ==
  ASSUME VolumeInv, [Next]_vars
  PROVE  VolumeInv'
<1>1. ASSUME NEW file \in Saves, Save(file) PROVE VolumeInv'
  BY <1>1, SaveHolds
<1>2. ASSUME NEW i \in 1 .. RootEntries, Delete(i) PROVE VolumeInv'
  BY <1>2, DeleteInv
<1>3. ASSUME NEW b \in Builds, Build(b) PROVE VolumeInv'
  BY <1>3, BuildHolds
<1>4. ASSUME UNCHANGED <<vol, files>> PROVE VolumeInv'
  BY <1>4 DEF VolumeInv
<1>5. Boot \/ Program \/ UNCHANGED vars => UNCHANGED <<vol, files>>
  BY DEF Boot, Program, OutPort, SetFlag, SetData, CallVector, Loads, LoadResets, CallPage,
         EnterPage, Branches, Goes, vars
<1>6. QED
  BY <1>1, <1>2, <1>3, <1>4, <1>5 DEF Next

------------------------------------------------------------------------------
(* What is read from the volume                                              *)

\* The files of the store are the firmware's own and the builder's; only those of the program
\* have a kind.
PlainFiles == files["DW-BASIC.COD"].kind = "none"

\* A file that is there has one entry, the entry that a search finds, with its chain.
LEMMA NamedEntry ==
  ASSUME VolumeInv, NEW name \in Names, files[name] # NoFile
  PROVE  \E i \in Used(vol.root) :
           /\ {j \in 1 .. RootEntries : vol.root[j].name = name} = {i}
           /\ Entry(vol, name) = vol.root[i]
           /\ vol.root[i].size = files[name].size /\ vol.root[i].name = name
           /\ files[name].name = name
<1>1. /\ vol.root \in [1 .. RootEntries -> Entries]
      /\ \A i, j \in Used(vol.root) : vol.root[i].name = vol.root[j].name => i = j
      /\ \A i \in Used(vol.root) : files[vol.root[i].name].size = vol.root[i].size
      /\ files[name].name = name
      /\ \E i \in Used(vol.root) : vol.root[i].name = name
  BY DEF VolumeInv, VolumeHolds, Typed, Listing
<1>2. PICK i \in Used(vol.root) : vol.root[i].name = name
  BY <1>1
<1>3. \A j \in 1 .. RootEntries : vol.root[j].name = name => j \in Used(vol.root)
  BY DeletedIsNoName DEF Used, NoEntry
<1>4. {j \in 1 .. RootEntries : vol.root[j].name = name} = {i}
  BY <1>1, <1>2, <1>3 DEF Used
<1>5. Entry(vol, name) = vol.root[i]
  <2>1. DOMAIN vol.root = 1 .. RootEntries
    BY <1>1
  <2>2. Entry(vol, name) = vol.root[Lowest({i})]
    BY <1>4, <2>1 DEF Entry
  <2>3. i \in Nat
    BY DEF Used
  <2>4. Lowest({i}) = i
    BY <2>3 DEF Lowest
  <2>5. QED
    BY <2>2, <2>4
<1>6. QED
  BY <1>1, <1>2, <1>4, <1>5

\* The chain of an entry, by walking from its first cluster
LEMMA EntryChain ==
  ASSUME VolumeInv, NEW i \in Used(vol.root)
  PROVE  LET at == Walk(vol.fat, vol.root[i].first)
             n  == Needed(vol.root[i].size)
         IN /\ vol.root[i].size \in Nat /\ n \in Nat \ {0}
            /\ vol.root[i].size <= n /\ (vol.root[i].size > 0 => n = vol.root[i].size)
            /\ IsChain(vol.fat, vol.root[i].first, n, at)
            /\ \A k \in 1 .. n : vol.data[at[k]] = Sector(files[vol.root[i].name], k)
            /\ vol.root[i].name \in Names /\ files[vol.root[i].name].name = vol.root[i].name
            /\ files[vol.root[i].name].size = vol.root[i].size
            /\ vol.root[i].first \in Clusters
            /\ Chains(vol)[i] = at
<1>1. i \in 1 .. RootEntries
  BY DEF Used
<1>2. vol.root[i].size \in Nat
  BY <1>1 DEF VolumeInv, VolumeHolds, Typed, Entries
<1>3. Chains(vol)[i] = Walk(vol.fat, vol.root[i].first)
  BY <1>1 DEF Chains
<1>4. /\ IsChain(vol.fat, vol.root[i].first, Needed(vol.root[i].size), Chains(vol)[i])
      /\ \A k \in 1 .. Needed(vol.root[i].size) :
           vol.data[Chains(vol)[i][k]] = Sector(files[vol.root[i].name], k)
      /\ vol.root[i].name \in Names /\ files[vol.root[i].name].name = vol.root[i].name
      /\ files[vol.root[i].name].size = vol.root[i].size
  BY DEF VolumeInv, VolumeHolds, Typed, Listing, Chained, Filled, Places
<1>5. 1 \in 1 .. Needed(vol.root[i].size)
  BY <1>2, NeededType
<1>6. vol.root[i].first \in Clusters
  BY <1>4, <1>5 DEF IsChain
<1>7. QED
  BY <1>2, <1>3, <1>4, <1>6, NeededType

\* A sector that holds a part of a file is that part of its chain.
LEMMA SectorHome ==
  ASSUME VolumeInv, NEW c \in Clusters, NEW f, f.name \in Names, NEW k \in Nat,
         vol.data[c] = Sector(f, k)
  PROVE  \E i \in Used(vol.root) : /\ vol.root[i].name = f.name
                                   /\ k \in 1 .. Needed(vol.root[i].size)
                                   /\ Walk(vol.fat, vol.root[i].first)[k] = c
<1>1. Sector(f, k) # Stale
  BY DeletedIsNoName DEF Sector, Stale
<1>2. GetFat(vol.fat, c) # 0
  BY <1>1 DEF VolumeInv, VolumeHolds, Filled
<1>3. PICK i \in Used(vol.root) : \E l \in 1 .. Needed(vol.root[i].size) : Chains(vol)[i][l] = c
  BY <1>2 DEF VolumeInv, VolumeHolds, Owned, Places
<1>4. PICK l \in 1 .. Needed(vol.root[i].size) : Chains(vol)[i][l] = c
  BY <1>3
<1>5. Chains(vol)[i] = Walk(vol.fat, vol.root[i].first)
  BY EntryChain
<1>6. vol.data[c] = Sector(files[vol.root[i].name], l)
  BY <1>4, <1>5, EntryChain
<1>7. files[vol.root[i].name].name = vol.root[i].name
  BY EntryChain
<1>8. Sector(files[vol.root[i].name], l) = Sector(f, k)
  BY <1>6
<1>9. files[vol.root[i].name].name = f.name /\ l = k
  BY <1>8 DEF Sector
<1>10. QED
  BY <1>4, <1>5, <1>7, <1>9

\* FilesRead, from the volume
LEMMA VolumeReads == VolumeInv => FilesRead
<1>1. SUFFICES ASSUME VolumeInv, NEW name \in Names, files[name] # NoFile
               PROVE  /\ Exists(vol.root, name)
                      /\ Readable(vol, Entry(vol, name))
                      /\ ReadFile(vol, Entry(vol, name)) = Whole(files[name])
  BY DEF FilesRead
<1>2. PICK i \in Used(vol.root) :
           /\ Entry(vol, name) = vol.root[i]
           /\ vol.root[i].size = files[name].size /\ vol.root[i].name = name
  BY <1>1, NamedEntry
<1> DEFINE at == Walk(vol.fat, vol.root[i].first)
           n  == Needed(vol.root[i].size)
<1>3. /\ vol.root[i].size \in Nat /\ n \in Nat \ {0} /\ vol.root[i].size <= n
      /\ IsChain(vol.fat, vol.root[i].first, n, at)
      /\ \A k \in 1 .. n : vol.data[at[k]] = Sector(files[name], k)
  BY <1>1, <1>2, EntryChain
<1>4. Exists(vol.root, name)
  <2>1. DOMAIN vol.root = 1 .. RootEntries
    BY <1>1 DEF VolumeInv, VolumeHolds, Typed
  <2>2. QED
    BY <1>2, <2>1 DEF Exists, Used
<1>5. Readable(vol, vol.root[i])
  <2>1. (\A k \in 1 .. n : at[k] \in Clusters) /\ (\A j, k \in 1 .. n : at[j] = at[k] => j = k)
    <3> HIDE DEF at, n
    <3>1. \A k \in 1 .. n : at[k] \in Clusters
      BY <1>3 DEF IsChain
    <3>2. \A j, k \in 1 .. n : at[j] = at[k] => j = k
      BY <1>3, ChainAscends
    <3>3. QED
      BY <3>1, <3>2
  <2>2. QED
    BY <2>1 DEF Readable
<1>6. ReadFile(vol, vol.root[i]) = Whole(files[name])
  <2>1. \A k \in 1 .. vol.root[i].size : k \in 1 .. n
    <3> HIDE DEF n
    <3>1. QED
      BY <1>3
  <2>2. ReadFile(vol, vol.root[i]) = [k \in 1 .. vol.root[i].size |-> vol.data[at[k]]]
    BY DEF ReadFile
  <2>3. QED
    BY <1>2, <1>3, <2>1, <2>2 DEF Whole
<1>7. QED
  BY <1>2, <1>4, <1>5, <1>6

\* NothingLost, from the volume
LEMMA VolumeFull == VolumeInv => NothingLost
<1>1. SUFFICES ASSUME VolumeInv PROVE NothingLost
  OBVIOUS
<1>2. InUse = Used(vol.root)
  BY DEF InUse, Used
<1>3. \A i \in Used(vol.root) : ChainOf(i) = {Chains(vol)[i][k] : k \in Places(vol.root, i)}
  BY <1>1, EntryChain DEF ChainOf, Places
<1>4. ASSUME NEW c \in Clusters, GetFat(vol.fat, c) # 0
      PROVE  \E i \in InUse : c \in ChainOf(i)
  BY <1>1, <1>2, <1>3, <1>4 DEF VolumeInv, VolumeHolds, Owned
<1>5. ASSUME NEW i \in InUse, NEW c \in ChainOf(i)
      PROVE  c \in Clusters /\ GetFat(vol.fat, c) # 0
  <2>1. PICK k \in 1 .. Needed(vol.root[i].size) : c = Walk(vol.fat, vol.root[i].first)[k]
    BY <1>5 DEF ChainOf
  <2>2. i \in Used(vol.root)
    BY <1>2
  <2> DEFINE at == Walk(vol.fat, vol.root[i].first)
             n == Needed(vol.root[i].size)
  <2>3. IsChain(vol.fat, vol.root[i].first, n, at) /\ n \in Nat \ {0}
    BY <1>1, <2>2, EntryChain
  <2>4. k \in 1 .. n /\ c = at[k]
    BY <2>1
  <2> HIDE DEF at, n
  <2>5. QED
    BY <2>3, <2>4, ChainTaken
<1>6. UNION {ChainOf(i) : i \in InUse} = Clusters \ Free(vol.fat)
  BY <1>4, <1>5 DEF Free
<1>7. \A i, j \in InUse : i # j => ChainOf(i) \cap ChainOf(j) = {}
  <2>1. SUFFICES ASSUME NEW i \in InUse, NEW j \in InUse, NEW c \in ChainOf(i) \cap ChainOf(j)
                 PROVE  i = j
    OBVIOUS
  <2>2. PICK k \in Places(vol.root, i) : c = Chains(vol)[i][k]
    BY <1>2, <1>3, <2>1
  <2>3. PICK l \in Places(vol.root, j) : c = Chains(vol)[j][l]
    BY <1>2, <1>3, <2>1
  <2>4. QED
    BY <1>1, <1>2, <2>2, <2>3 DEF VolumeInv, VolumeHolds, Chained
<1>8. QED
  BY <1>6, <1>7 DEF NothingLost

\* CodeRunsInPlace, from the volume: a sector of an image tells which one it is, so that what
\* lies in sequence is the chain.
LEMMA VolumeRunsCode == VolumeInv /\ PlainFiles => CodeRunsInPlace
<1> DEFINE hits == {i \in 1 .. LoaderEntries : vol.root[i].name = "DW-BASIC.COD"}
           Along(i) == Walk(vol.fat, vol.root[i].first)
<1>1. SUFFICES ASSUME VolumeInv, PlainFiles PROVE CodeRunsInPlace
  OBVIOUS
<1>2. "DW-BASIC.COD" \in Names /\ Cod = [name |-> "DW-BASIC.COD", kind |-> "none", size |-> CodSize]
  BY DEF Names, Cod, File
<1>3. /\ CodSize \in Nat \ {0} /\ LoaderEntries \in Nat /\ RootEntries \in Nat
      /\ \A i \in 1 .. LoaderEntries : i \in 1 .. RootEntries
  BY VolumeAssumption
<1>4. \A i \in hits : i \in Used(vol.root)
  BY <1>3 DEF Used, NoEntry
<1>5. \A i \in hits : hits = {i} /\ Lowest(hits) = i
  <2>1. SUFFICES ASSUME NEW i \in hits PROVE hits = {i} /\ Lowest(hits) = i
    OBVIOUS
  <2>2. \A j \in hits : j = i
    BY <1>1, <1>4 DEF VolumeInv, VolumeHolds, Listing
  <2>3. hits = {i} /\ i \in Nat
    BY <2>2
  <2>4. Lowest({i}) = i
    BY <2>3 DEF Lowest
  <2>5. QED
    BY <2>3, <2>4
\* What the chain of an image of the right size is, with what it holds
<1>6. ASSUME NEW i \in hits, vol.root[i].size = CodSize
      PROVE  /\ vol.root[i].first \in Clusters
             /\ IsChain(vol.fat, vol.root[i].first, CodSize, Along(i))
             /\ \A k \in 1 .. CodSize : vol.data[Along(i)[k]] = Sector(Cod, k)
  <2>1. i \in Used(vol.root) /\ vol.root[i].name = "DW-BASIC.COD"
    BY <1>4
  <2>2. Needed(CodSize) = CodSize
    BY <1>3, NeededType
  <2>3. /\ vol.root[i].first \in Clusters
        /\ IsChain(vol.fat, vol.root[i].first, CodSize, Along(i))
        /\ \A k \in 1 .. CodSize : vol.data[Along(i)[k]] = Sector(files["DW-BASIC.COD"], k)
        /\ files["DW-BASIC.COD"].name = "DW-BASIC.COD" /\ files["DW-BASIC.COD"].size = CodSize
    BY <1>1, <1>6, <2>1, <2>2, EntryChain
  <2>4. \A k \in 1 .. CodSize : Sector(files["DW-BASIC.COD"], k) = Sector(Cod, k)
    BY <1>1, <1>2, <2>3 DEF Sector, PlainFiles
  <2>5. QED
    BY <2>3, <2>4
<1> HIDE DEF Along
\* A chain whose links are all to the next cluster
<1>7. ASSUME NEW i \in hits, vol.root[i].size = CodSize, VerifyChain(vol, vol.root[i].first)
      PROVE  \A k \in 1 .. CodSize : Along(i)[k] = vol.root[i].first + k - 1
  <2> DEFINE first == vol.root[i].first
             S == {k \in 1 .. CodSize : Along(i)[k] = first + k - 1}
  <2>1. first \in Nat
    BY <1>6, <1>7, ClusterRange
  <2>2. IsChain(vol.fat, first, CodSize, Along(i))
    BY <1>6, <1>7
  <2>3. \A k \in 1 .. CodSize - 1 : GetFat(vol.fat, first + k - 1) = first + k
    BY <1>7 DEF VerifyChain
  <2> HIDE DEF first
  <2>4. 1 \in S
    BY <1>3, <2>1, <2>2 DEF IsChain
  <2>5. ASSUME NEW k \in 1 .. CodSize - 1, k \in S
        PROVE  k + 1 \in S
    <3>1. Along(i)[k + 1] = GetFat(vol.fat, Along(i)[k])
      BY <2>2 DEF IsChain
    <3>2. Along(i)[k] = first + k - 1
      BY <2>5
    <3>3. Along(i)[k + 1] = first + k /\ first + k = first + (k + 1) - 1 /\ k + 1 \in 1 .. CodSize
      BY <1>3, <2>1, <2>3, <3>1, <3>2
    <3>4. QED
      BY <3>3
  <2> HIDE DEF S
  <2>6. \A k \in 1 .. CodSize : k \in S
    BY <1>3, <2>4, <2>5, UpTo
  <2>7. QED
    BY <2>6 DEF S, first
<1>8. ASSUME TakesCode(vol)
      PROVE  \E i \in 1 .. LoaderEntries :
               /\ vol.root[i].name = "DW-BASIC.COD" /\ vol.root[i].size = CodSize
               /\ vol.root[i].first + CodSize - 1 \in Clusters
               /\ CodeImage(vol, vol.root[i].first) = Whole(Cod)
  <2>1. PICK i \in hits : TRUE
    BY <1>8 DEF TakesCode
  <2>2. Lowest(hits) = i
    BY <1>5
  <2>3. vol.root[i].size = CodSize /\ VerifyChain(vol, vol.root[i].first)
    BY <1>8, <2>2 DEF TakesCode
  <2> HIDE DEF hits
  <2> DEFINE first == vol.root[i].first
  <2>4. \A k \in 1 .. CodSize : Along(i)[k] = first + k - 1
    BY <1>7, <2>3
  <2>5. /\ IsChain(vol.fat, first, CodSize, Along(i))
        /\ \A k \in 1 .. CodSize : vol.data[Along(i)[k]] = Sector(Cod, k)
    BY <1>6, <2>3
  <2>6. first + CodSize - 1 \in Clusters
    BY <1>3, <2>4, <2>5 DEF IsChain
  <2>7. CodeImage(vol, first) = Whole(Cod)
    <3>1. \A k \in 1 .. CodSize : vol.data[first + k - 1] = Sector(Cod, k)
      BY <2>4, <2>5
    <3>2. Cod.size = CodSize
      BY <1>2
    <3> HIDE DEF first
    <3>3. QED
      BY <3>1, <3>2 DEF CodeImage, Whole
  <2>8. QED
    BY <2>3, <2>6, <2>7 DEF hits
<1>9. ASSUME NEW i \in 1 .. LoaderEntries,
             vol.root[i].name = "DW-BASIC.COD", vol.root[i].size = CodSize,
             vol.root[i].first + CodSize - 1 \in Clusters,
             CodeImage(vol, vol.root[i].first) = Whole(Cod)
      PROVE  TakesCode(vol)
  <2> DEFINE first == vol.root[i].first
  <2>1. i \in hits /\ hits = {i} /\ Lowest(hits) = i
    BY <1>5, <1>9
  <2>2. /\ first \in Clusters /\ first \in Nat /\ first >= 2
        /\ IsChain(vol.fat, first, CodSize, Along(i))
    BY <1>6, <1>9, <2>1, ClusterRange
  <2>3. first + CodSize - 1 \in Clusters
    BY <1>9
  <2>4. \A k \in 1 .. CodSize : vol.data[first + k - 1] = Sector(Cod, k)
    <3> HIDE DEF first
    <3>1. CodeImage(vol, first) = Whole(Cod)
      BY <1>9 DEF first
    <3>2. Cod.size = CodSize
      BY <1>2
    <3>3. SUFFICES ASSUME NEW k \in 1 .. CodSize PROVE vol.data[first + k - 1] = Sector(Cod, k)
      OBVIOUS
    <3>4. CodeImage(vol, first)[k] = vol.data[first + k - 1] /\ Whole(Cod)[k] = Sector(Cod, k)
      BY <3>2 DEF CodeImage, Whole
    <3>5. QED
      BY <3>1, <3>4
  <2> HIDE DEF first
  <2>5. ASSUME NEW k \in 1 .. CodSize
        PROVE  Along(i)[k] = first + k - 1
    <3>1. first + k - 1 \in Clusters
      BY <1>3, <2>2, <2>3, ClustersInTable DEF Clusters
    <3>2. Cod.name \in Names /\ Cod.name = "DW-BASIC.COD" /\ k \in Nat
      BY <1>2
    <3>3. PICK j \in Used(vol.root) : /\ vol.root[j].name = "DW-BASIC.COD"
                                      /\ Walk(vol.fat, vol.root[j].first)[k] = first + k - 1
      BY <1>1, <2>4, <3>1, <3>2, SectorHome
    <3>4. i \in Used(vol.root)
      BY <1>4, <2>1
    <3>5. i = j
      BY <1>1, <1>9, <3>3, <3>4 DEF VolumeInv, VolumeHolds, Listing
    <3>6. QED
      BY <3>3, <3>5 DEF Along
  <2>6. VerifyChain(vol, first)
    <3>1. \A k \in 1 .. CodSize - 1 :
            /\ GetFat(vol.fat, Along(i)[k]) = Along(i)[k + 1]
            /\ Along(i)[k] = first + k - 1 /\ Along(i)[k + 1] = first + (k + 1) - 1
            /\ first + (k + 1) - 1 = first + k
      BY <1>3, <2>2, <2>5 DEF IsChain
    <3>2. GetFat(vol.fat, first + CodSize - 1) = EndOfChain
      BY <1>3, <2>2, <2>5 DEF IsChain
    <3>3. QED
      BY <3>1, <3>2 DEF VerifyChain, EndOfChain
  <2>7. CodeImage(vol, first)[1] = Sector(File("DW-BASIC.COD", "none", CodSize), 1)
    BY <1>3, <2>4 DEF CodeImage, Cod
  <2>8. QED
    BY <1>9, <2>1, <2>2, <2>6, <2>7 DEF TakesCode, first
<1>10. QED
  BY <1>8, <1>9 DEF CodeRunsInPlace


------------------------------------------------------------------------------
(* Programs, step by step                                                    *)

\* What a step may have in place of the rest
Elses == {<<>>, <<Say>>, <<Vector("close"), Say>>}

StepOps    == {"bank", "path", "say", "trampoline", "flag", "lcd", "work", "reloc", "load", "ds",
               "slot", "enter", "show", "basic", "vector", "fails", "opened", "marked"}
StepArgs   == {"card", "rom", "cs", "zero", "say", "0", "1", "basic", "menu", "ram", "message",
               "7DAB", "83EB", "7C82", "7C1E", "7D00", "6800", "C3FD", "84D5", "31B6", "exec",
               "open", "read", "close", "none"}
StepFields == {"bank", "path", "text", "lcd", "restore", "work", "reloc", "wrappers", "routine",
               "message", "none"}

Steps == [op : StepOps, arg : StepArgs, field : StepFields, else : Elses]

Calls     == {"slot", "enter", "show", "trampoline", "basic"}
Branching == {"fails", "opened", "marked"}
SetsData  == {"path", "reloc", "ds", "work", "say"}

\* The arguments of the steps are those the machine and the page have.
Fits(s, pg) ==
  \A k \in 1 .. Len(s) :
    /\ s[k].op = "bank" => s[k].arg \in {"rom", "card"}
    /\ s[k].op = "lcd" => s[k].arg \in {"menu", "basic"}
    /\ s[k].op = "flag" => s[k].arg \in {"0", "1"}
    /\ s[k].op \in Branching => s[k].else \in {<<Say>>, <<Vector("close"), Say>>}
    /\ s[k].op = "slot" => s[k].arg \in pg.pocket
    /\ s[k].op = "show" => pg.ff00 = "smoke-map"
    /\ s[k].op = "enter" => pg.ff00 \in IF s[k].arg = "basic"
                                        THEN {"basic-exec", "basic-probe", "basic-steps"}
                                        ELSE {"smoke-exec", "f200-smoke"}

Without(s, ops) == \A k \in 1 .. Len(s) : s[k].op \notin ops

\* The last of the steps ops has argument arg.
Ends(s, ops, arg) ==
  \E k \in 1 .. Len(s) : /\ s[k].op \in ops /\ s[k].arg = arg
                         /\ \A j \in k + 1 .. Len(s) : s[j].op \notin ops

\* The picture, the flag and the data segment are left alone or put back.
PutsBack(s) ==
  /\ Without(s, {"lcd"}) \/ Ends(s, {"lcd"}, "menu")
  /\ Without(s, {"flag"}) \/ Ends(s, {"flag"}, "0")
  /\ Without(s, SetsData) \/ Ends(s, SetsData, "zero")

\* Where a program branches it has not touched picture and flag yet, nor gone into the page.
BranchesFirst(s) ==
  \A b \in 1 .. Len(s) : s[b].op \in Branching =>
    \A j \in 1 .. b : s[j].op \notin {"lcd", "flag", "enter"}

KeepsPage(s)  == \A k \in 1 .. Len(s) : s[k].op = "bank" => s[k].arg = "card"
UnmapsLast(s) == \A k \in 1 .. Len(s) : s[k].op = "bank" => s[k].arg = "card" \/ k = Len(s)
Maps(s)       == \E k \in 1 .. Len(s) : s[k].op = "bank" /\ s[k].arg = "card"
CallsMapped(s) ==
  \A k \in 1 .. Len(s) : s[k].op \in Calls =>
    \E j \in 1 .. k - 1 : s[j].op = "bank" /\ s[j].arg = "card"

OpensNone(s) == \A k \in 1 .. Len(s) : ~(s[k].op = "vector" /\ s[k].arg = "open")

\* A program from its first step on
Starts(s, pg) ==
  /\ s \in Seq(Steps) /\ Fits(s, pg) /\ PutsBack(s) /\ BranchesFirst(s)
  /\ UnmapsLast(s) /\ CallsMapped(s)
  /\ OpensNone(s) \/ s = BASIC_FILE_PROBE_STUB

\* A part of it, behind the first branch, or of the page
Inner(s, pg) ==
  /\ s \in Seq(Steps) /\ Fits(s, pg) /\ PutsBack(s) /\ Without(s, Branching)
  /\ UnmapsLast(s) /\ OpensNone(s)

\* A step of ops with argument arg that ends either of two parts ends the two
\* in a row.
LEMMA ConcatEnds ==
  ASSUME NEW s \in Seq(Steps), NEW t \in Seq(Steps), NEW ops, NEW arg,
         Without(s, ops) \/ Ends(s, ops, arg), Without(t, ops) \/ Ends(t, ops, arg)
  PROVE  Without(s \o t, ops) \/ Ends(s \o t, ops, arg)
<1>1. /\ s \o t \in Seq(Steps) /\ Len(s \o t) = Len(s) + Len(t)
      /\ Len(s) \in Nat /\ Len(t) \in Nat
      /\ \A k \in 1 .. Len(s) : (s \o t)[k] = s[k]
      /\ \A k \in 1 .. Len(t) : (s \o t)[Len(s) + k] = t[k]
      /\ \A k \in 1 .. Len(s) + Len(t) : k > Len(s) => /\ k - Len(s) \in 1 .. Len(t)
                                                      /\ (s \o t)[k] = t[k - Len(s)]
  OBVIOUS
<1> DEFINE u == s \o t
<1> HIDE DEF u
<1>2. CASE Ends(t, ops, arg)
  <2>1. PICK k \in 1 .. Len(t) : /\ t[k].op \in ops /\ t[k].arg = arg
                                 /\ \A j \in k + 1 .. Len(t) : t[j].op \notin ops
    BY <1>2 DEF Ends
  <2>2. Len(s) + k \in 1 .. Len(u) /\ u[Len(s) + k] = t[k]
    BY <1>1 DEF u
  <2>3. \A j \in Len(s) + k + 1 .. Len(u) : u[j].op \notin ops
    <3>1. SUFFICES ASSUME NEW j \in Len(s) + k + 1 .. Len(u) PROVE u[j].op \notin ops
      OBVIOUS
    <3>2. j - Len(s) \in k + 1 .. Len(t) /\ u[j] = t[j - Len(s)]
      BY <1>1 DEF u
    <3>3. QED
      BY <2>1, <3>2
  <2>4. QED
    BY <2>1, <2>2, <2>3 DEF Ends, u
<1>3. CASE Without(t, ops) /\ Ends(s, ops, arg)
  <2>1. PICK k \in 1 .. Len(s) : /\ s[k].op \in ops /\ s[k].arg = arg
                                 /\ \A j \in k + 1 .. Len(s) : s[j].op \notin ops
    BY <1>3 DEF Ends
  <2>2. k \in 1 .. Len(u) /\ u[k] = s[k]
    BY <1>1 DEF u
  <2>3. \A j \in k + 1 .. Len(u) : u[j].op \notin ops
    <3>1. SUFFICES ASSUME NEW j \in k + 1 .. Len(u) PROVE u[j].op \notin ops
      OBVIOUS
    <3>2. CASE j <= Len(s)
      BY <1>1, <2>1, <3>2 DEF u
    <3>3. CASE j > Len(s)
      <4>1. j - Len(s) \in 1 .. Len(t) /\ u[j] = t[j - Len(s)]
        BY <1>1, <3>3 DEF u
      <4>2. QED
        BY <1>3, <4>1 DEF Without
    <3>4. QED
      BY <1>1, <3>2, <3>3 DEF u
  <2>4. QED
    BY <2>1, <2>2, <2>3 DEF Ends, u
<1>4. CASE Without(t, ops) /\ Without(s, ops)
  <2>1. ASSUME NEW k \in 1 .. Len(u)
        PROVE  u[k].op \notin ops
    <3>1. CASE k <= Len(s)
      <4>1. k \in 1 .. Len(s) /\ u[k] = s[k]
        BY <1>1, <3>1 DEF u
      <4>2. QED
        BY <1>4, <4>1 DEF Without
    <3>2. CASE k > Len(s)
      <4>1. k - Len(s) \in 1 .. Len(t) /\ u[k] = t[k - Len(s)]
        BY <1>1, <3>2 DEF u
      <4>2. QED
        BY <1>4, <4>1 DEF Without
    <3>3. QED
      BY <1>1, <3>1, <3>2 DEF u
  <2>2. QED
    BY <2>1 DEF Without, u
<1>5. QED
  BY <1>2, <1>3, <1>4

\* Two parts in sequence
LEMMA ConcatInner ==
  ASSUME NEW s, NEW t, NEW pg, Inner(s, pg), KeepsPage(s), Inner(t, pg)
  PROVE  Inner(s \o t, pg) /\ (KeepsPage(t) => KeepsPage(s \o t))
<1>1. s \in Seq(Steps) /\ t \in Seq(Steps)
  BY DEF Inner
<1>2. /\ s \o t \in Seq(Steps) /\ Len(s \o t) = Len(s) + Len(t)
      /\ Len(s) \in Nat /\ Len(t) \in Nat
      /\ \A k \in 1 .. Len(s) : (s \o t)[k] = s[k]
      /\ \A k \in 1 .. Len(s) + Len(t) : k > Len(s) => /\ k - Len(s) \in 1 .. Len(t)
                                                      /\ (s \o t)[k] = t[k - Len(s)]
  BY <1>1
<1>3. PutsBack(s \o t)
  BY <1>1, ConcatEnds DEF Inner, PutsBack
<1> DEFINE u == s \o t
<1> HIDE DEF u
<1>4. \A k \in 1 .. Len(u) : \/ k \in 1 .. Len(s) /\ u[k] = s[k]
                             \/ k - Len(s) \in 1 .. Len(t) /\ u[k] = t[k - Len(s)]
  <2>1. SUFFICES ASSUME NEW k \in 1 .. Len(u)
                 PROVE  \/ k \in 1 .. Len(s) /\ u[k] = s[k]
                        \/ k - Len(s) \in 1 .. Len(t) /\ u[k] = t[k - Len(s)]
    OBVIOUS
  <2>2. CASE k <= Len(s)
    BY <1>2, <2>2 DEF u
  <2>3. CASE k > Len(s)
    BY <1>2, <2>3 DEF u
  <2>4. QED
    BY <1>2, <2>2, <2>3 DEF u
<1>5. Fits(u, pg)
  BY <1>4 DEF Inner, Fits
<1>6. Without(u, Branching) /\ OpensNone(u)
  BY <1>4 DEF Inner, Without, OpensNone
<1>7. UnmapsLast(u)
  <2>1. SUFFICES ASSUME NEW k \in 1 .. Len(u), u[k].op = "bank", u[k].arg # "card"
                 PROVE  k = Len(u)
    BY DEF UnmapsLast
  <2>2. k - Len(s) \in 1 .. Len(t) /\ u[k] = t[k - Len(s)]
    BY <1>4, <2>1 DEF KeepsPage
  <2>3. k - Len(s) = Len(t)
    BY <2>1, <2>2 DEF Inner, UnmapsLast
  <2>4. QED
    BY <1>2, <2>3 DEF u
<1>8. KeepsPage(t) => KeepsPage(u)
  BY <1>4 DEF KeepsPage
<1>9. QED
  BY <1>2, <1>3, <1>5, <1>6, <1>7, <1>8 DEF Inner, u

\* A program, and a part behind it
LEMMA ConcatStarts ==
  ASSUME NEW s, NEW t, NEW pg, Starts(s, pg), OpensNone(s), KeepsPage(s), Maps(s),
         t \in Seq(Steps), Fits(t, pg), PutsBack(t), UnmapsLast(t), OpensNone(t),
         \/ Without(t, Branching)
         \/ BranchesFirst(t) /\ Without(s, {"lcd", "flag", "enter"})
  PROVE  /\ Starts(s \o t, pg) /\ OpensNone(s \o t) /\ Maps(s \o t)
         /\ KeepsPage(t) => KeepsPage(s \o t)
<1>1. s \in Seq(Steps) /\ t \in Seq(Steps)
  BY DEF Starts
<1>2. /\ s \o t \in Seq(Steps) /\ Len(s \o t) = Len(s) + Len(t)
      /\ Len(s) \in Nat /\ Len(t) \in Nat
      /\ \A k \in 1 .. Len(s) : (s \o t)[k] = s[k]
      /\ \A k \in 1 .. Len(s) + Len(t) : k > Len(s) => /\ k - Len(s) \in 1 .. Len(t)
                                                      /\ (s \o t)[k] = t[k - Len(s)]
  BY <1>1
<1>3. PutsBack(s \o t)
  BY <1>1, ConcatEnds DEF Starts, PutsBack
<1> DEFINE u == s \o t
<1> HIDE DEF u
<1>4. \A k \in 1 .. Len(u) : \/ k \in 1 .. Len(s) /\ u[k] = s[k]
                             \/ k - Len(s) \in 1 .. Len(t) /\ u[k] = t[k - Len(s)] /\ k > Len(s)
  <2>1. SUFFICES ASSUME NEW k \in 1 .. Len(u)
                 PROVE  \/ k \in 1 .. Len(s) /\ u[k] = s[k]
                        \/ k - Len(s) \in 1 .. Len(t) /\ u[k] = t[k - Len(s)] /\ k > Len(s)
    OBVIOUS
  <2>2. CASE k <= Len(s)
    BY <1>2, <2>2 DEF u
  <2>3. CASE k > Len(s)
    BY <1>2, <2>3 DEF u
  <2>4. QED
    BY <1>2, <2>2, <2>3 DEF u
<1>5. Fits(u, pg)
  BY <1>4 DEF Starts, Fits
<1>6. OpensNone(u)
  BY <1>4 DEF OpensNone
<1>7. UnmapsLast(u)
  <2>1. SUFFICES ASSUME NEW k \in 1 .. Len(u), u[k].op = "bank", u[k].arg # "card"
                 PROVE  k = Len(u)
    BY DEF UnmapsLast
  <2>2. k - Len(s) \in 1 .. Len(t) /\ u[k] = t[k - Len(s)]
    BY <1>4, <2>1 DEF KeepsPage
  <2>3. k - Len(s) = Len(t)
    BY <2>1, <2>2 DEF UnmapsLast
  <2>4. QED
    BY <1>2, <2>3 DEF u
<1>8. KeepsPage(t) => KeepsPage(u)
  BY <1>4 DEF KeepsPage
<1>9. PICK m \in 1 .. Len(s) : s[m].op = "bank" /\ s[m].arg = "card"
  BY DEF Maps
<1>10. m \in 1 .. Len(u) /\ u[m] = s[m]
  BY <1>2 DEF u
<1>11. Maps(u)
  BY <1>9, <1>10 DEF Maps
<1>12. CallsMapped(u)
  <2>1. SUFFICES ASSUME NEW k \in 1 .. Len(u), u[k].op \in Calls
                 PROVE  \E j \in 1 .. k - 1 : u[j].op = "bank" /\ u[j].arg = "card"
    BY DEF CallsMapped
  <2>2. CASE k \in 1 .. Len(s) /\ u[k] = s[k]
    <3>1. PICK j \in 1 .. k - 1 : s[j].op = "bank" /\ s[j].arg = "card"
      BY <2>1, <2>2 DEF Starts, CallsMapped
    <3>2. j \in 1 .. Len(s)
      BY <1>2, <2>2
    <3>3. u[j] = s[j]
      BY <1>2, <3>2 DEF u
    <3>4. QED
      BY <3>1, <3>3
  <2>3. CASE k > Len(s)
    <3>1. m \in 1 .. k - 1
      BY <1>2, <2>3
    <3>2. QED
      BY <1>9, <1>10, <3>1
  <2>4. QED
    BY <1>4, <2>2, <2>3
<1>13. BranchesFirst(u)
  <2>1. SUFFICES ASSUME NEW b \in 1 .. Len(u), u[b].op \in Branching, NEW j \in 1 .. b
                 PROVE  u[j].op \notin {"lcd", "flag", "enter"}
    BY DEF BranchesFirst
  <2>2. CASE b \in 1 .. Len(s) /\ u[b] = s[b]
    <3>1. j \in 1 .. Len(s) /\ u[j] = s[j]
      BY <1>2, <2>2 DEF u
    <3>2. QED
      BY <2>1, <2>2, <3>1 DEF Starts, BranchesFirst
  <2>3. CASE b - Len(s) \in 1 .. Len(t) /\ u[b] = t[b - Len(s)]
    <3>1. BranchesFirst(t) /\ Without(s, {"lcd", "flag", "enter"})
      BY <2>1, <2>3 DEF Without
    <3>2. j \in 1 .. Len(u)
      BY <1>2, <2>1 DEF u
    <3>3. CASE j \in 1 .. Len(s) /\ u[j] = s[j]
      BY <3>1, <3>3 DEF Without
    <3>4. CASE j - Len(s) \in 1 .. Len(t) /\ u[j] = t[j - Len(s)]
      <4>1. j - Len(s) \in 1 .. b - Len(s)
        BY <1>2, <3>4
      <4>2. QED
        BY <2>1, <2>3, <3>1, <3>4, <4>1 DEF BranchesFirst
    <3>5. QED
      BY <1>4, <3>2, <3>3, <3>4
  <2>4. QED
    BY <1>4, <2>2, <2>3
<1>14. QED
  BY <1>2, <1>3, <1>5, <1>6, <1>7, <1>8, <1>11, <1>12, <1>13 DEF Starts, u

------------------------------------------------------------------------------
(* The programs of the builder                                               *)

\* The steps that the programs are made of.
LEMMA StepsTyped ==
  /\ {MapPage, UnmapPage, PathFixed, Say, SayMapped, FlagSet, FlagClear, ShowBasic, ShowMenu,
      WorkArea, Reloc, LoadInRam, DataZero, ShowMapped, RunBasic} \subseteq Steps
  /\ \A name \in StepArgs : Slot(name) \in Steps /\ Enter(name) \in Steps /\ Vector(name) \in Steps
  /\ IfFailed(<<Say>>) \in Steps /\ Unless("opened", <<Say>>) \in Steps
  /\ Unless("marked", <<Vector("close"), Say>>) \in Steps
<1>1. <<>> \in Elses /\ <<Say>> \in Elses /\ <<Vector("close"), Say>> \in Elses
  BY DEF Elses
<1>2. \A op \in StepOps, arg \in StepArgs, field \in StepFields : Step(op, arg, field) \in Steps
  BY <1>1 DEF Step, Steps
<1>3. {MapPage, UnmapPage, PathFixed, Say, SayMapped} \subseteq Steps
  BY <1>1 DEF MapPage, UnmapPage, PathFixed, Say, SayMapped, Step, Steps, StepOps, StepArgs, StepFields
<1>4. {FlagSet, FlagClear, ShowBasic, ShowMenu, WorkArea} \subseteq Steps
  BY <1>1 DEF FlagSet, FlagClear, ShowBasic, ShowMenu, WorkArea, Step, Steps, StepOps, StepArgs,
              StepFields
<1>5. {Reloc, LoadInRam, DataZero, ShowMapped, RunBasic} \subseteq Steps
  BY <1>1 DEF Reloc, LoadInRam, DataZero, ShowMapped, RunBasic, Step, Steps, StepOps, StepArgs,
              StepFields
<1>6. \A name \in StepArgs : Slot(name) \in Steps /\ Enter(name) \in Steps /\ Vector(name) \in Steps
  <2>1. {"slot", "enter", "vector"} \subseteq StepOps /\ {"wrappers", "routine", "none"} \subseteq StepFields
    BY DEF StepOps, StepFields
  <2>2. QED
    BY <1>2, <2>1 DEF Slot, Enter, Vector
<1>7. \A op \in StepOps, steps \in Elses : Unless(op, steps) \in Steps
  <2>1. "none" \in StepArgs /\ "none" \in StepFields
    BY DEF StepArgs, StepFields
  <2>2. QED
    BY <1>1, <2>1 DEF Unless, Step, Steps
<1>8. {"fails", "opened", "marked"} \subseteq StepOps
  BY DEF StepOps
<1>9. QED
  BY <1>1, <1>3, <1>4, <1>5, <1>6, <1>7, <1>8 DEF IfFailed


\* Each program of the builder is a sequence of steps.
LEMMA ProgramsTyped ==
  /\ BASIC_STUB \in Seq(Steps)
  /\ BASIC_EXEC_STUB \in Seq(Steps)
  /\ BASIC_LOAD_PROBE_STUB \in Seq(Steps)
  /\ BASIC_FILE_PROBE_STUB \in Seq(Steps)
  /\ SMOKE_STUB \in Seq(Steps)
  /\ SMOKE_MAP_STUB \in Seq(Steps)
  /\ SMOKE_EXEC_STUB \in Seq(Steps)
  /\ Loading \in Seq(Steps)
  /\ BASIC_MAPPED_WRAPPER \in Seq(Steps)
  /\ BASIC_STEPS_MAPPED_WRAPPER \in Seq(Steps)
  /\ F200_SMOKE_ROUTINE \in Seq(Steps)
  /\ MAPPED_ROUTINE \in Seq(Steps)
  /\ InitCalls \in Seq(Steps)
<1>1. {"say", "basic", "exec", "open", "read", "close", "83EB", "7C82", "7C1E", "31B6"} \subseteq StepArgs
  BY DEF StepArgs
<1>2. BASIC_STUB \in Seq(Steps)
  BY <1>1, StepsTyped DEF BASIC_STUB
<1>3. BASIC_EXEC_STUB \in Seq(Steps)
  BY <1>1, StepsTyped DEF BASIC_EXEC_STUB
<1>4. BASIC_LOAD_PROBE_STUB \in Seq(Steps)
  BY <1>1, StepsTyped DEF BASIC_LOAD_PROBE_STUB
<1>5. BASIC_FILE_PROBE_STUB \in Seq(Steps)
  BY <1>1, StepsTyped DEF BASIC_FILE_PROBE_STUB
<1>6. SMOKE_STUB \in Seq(Steps)
  BY <1>1, StepsTyped DEF SMOKE_STUB
<1>7. SMOKE_MAP_STUB \in Seq(Steps)
  BY <1>1, StepsTyped DEF SMOKE_MAP_STUB
<1>8. SMOKE_EXEC_STUB \in Seq(Steps)
  BY <1>1, StepsTyped DEF SMOKE_EXEC_STUB
<1>9. Loading \in Seq(Steps)
  BY <1>1, StepsTyped DEF Loading
<1>10. BASIC_MAPPED_WRAPPER \in Seq(Steps)
  BY <1>1, StepsTyped DEF BASIC_MAPPED_WRAPPER
<1>11. BASIC_STEPS_MAPPED_WRAPPER \in Seq(Steps)
  BY <1>1, StepsTyped DEF BASIC_STEPS_MAPPED_WRAPPER
<1>12. F200_SMOKE_ROUTINE \in Seq(Steps)
  BY <1>1, StepsTyped DEF F200_SMOKE_ROUTINE
<1>13. MAPPED_ROUTINE \in Seq(Steps)
  BY <1>1, StepsTyped DEF MAPPED_ROUTINE
<1>14. InitCalls \in Seq(Steps)
  BY <1>1, StepsTyped DEF InitCalls
<1>15. QED
  BY <1>2, <1>3, <1>4, <1>5, <1>6, <1>7, <1>8, <1>9, <1>10, <1>11, <1>12, <1>13, <1>14

\* The parts that the longer programs are put together from.
LEMMA PartsTyped ==
  /\ <<IfFailed(<<Say>>), Say>> \in Seq(Steps)
  /\ <<IfFailed(<<Say>>), Say, MapPage>> \in Seq(Steps)
  /\ <<SayMapped>> \in Seq(Steps)
  /\ <<DataZero, SayMapped>> \in Seq(Steps)
  /\ <<Say, InitCalls[1], Say, Say, InitCalls[2], Say, Say, InitCalls[3], Say, MapPage>> \in Seq(Steps)
  /\ <<Say, FlagSet, ShowBasic, DataZero, Slot("7D00"), ShowMenu, FlagClear, Say, MapPage>> \in Seq(Steps)
  /\ <<Say, Slot("6800"), Say, Say, Slot("C3FD"), Say, UnmapPage>> \in Seq(Steps)
  /\ <<Slot("6800"), Slot("C3FD"), Say, Say, UnmapPage>> \in Seq(Steps)
  /\ <<Say, Slot("84D5"), Say, UnmapPage>> \in Seq(Steps)
<1>1. {"6800", "C3FD", "84D5", "7D00", "83EB", "7C82", "7C1E"} \subseteq StepArgs
  BY DEF StepArgs
<1>2. InitCalls[1] \in Steps /\ InitCalls[2] \in Steps /\ InitCalls[3] \in Steps
  BY <1>1, StepsTyped DEF InitCalls
<1>3. <<IfFailed(<<Say>>), Say>> \in Seq(Steps)
  BY <1>1, <1>2, StepsTyped
<1>4. <<IfFailed(<<Say>>), Say, MapPage>> \in Seq(Steps)
  BY <1>1, <1>2, StepsTyped
<1>5. <<SayMapped>> \in Seq(Steps)
  BY <1>1, <1>2, StepsTyped
<1>6. <<DataZero, SayMapped>> \in Seq(Steps)
  BY <1>1, <1>2, StepsTyped
<1>7. <<Say, InitCalls[1], Say, Say, InitCalls[2], Say, Say, InitCalls[3], Say, MapPage>> \in Seq(Steps)
  BY <1>1, <1>2, StepsTyped
<1>8. <<Say, FlagSet, ShowBasic, DataZero, Slot("7D00"), ShowMenu, FlagClear, Say, MapPage>> \in Seq(Steps)
  BY <1>1, <1>2, StepsTyped
<1>9. <<Say, Slot("6800"), Say, Say, Slot("C3FD"), Say, UnmapPage>> \in Seq(Steps)
  BY <1>1, <1>2, StepsTyped
<1>10. <<Slot("6800"), Slot("C3FD"), Say, Say, UnmapPage>> \in Seq(Steps)
  BY <1>1, <1>2, StepsTyped
<1>11. <<Say, Slot("84D5"), Say, UnmapPage>> \in Seq(Steps)
  BY <1>1, <1>2, StepsTyped
<1>12. QED
  BY <1>3, <1>4, <1>5, <1>6, <1>7, <1>8, <1>9, <1>10, <1>11

USE DEF Step, MapPage, UnmapPage, PathFixed, Say, SayMapped, FlagSet, FlagClear, ShowBasic,
        ShowMenu, WorkArea, Reloc, LoadInRam, DataZero, Slot, Enter, ShowMapped, RunBasic, Vector,
        Unless, IfFailed


\* BASIC_STUB maps the page for its calls and puts back what it set, as a
\* program that the loader starts must.
LEMMA BasicStarts ==
  ASSUME NEW pg
  PROVE  Starts(BASIC_STUB, pg)
<1>1. Fits(BASIC_STUB, pg)
  BY DEF Fits, Branching, BASIC_STUB
<1>2. Ends(BASIC_STUB, {"lcd"}, "menu")
  BY DEF Ends, BASIC_STUB
<1>3. Ends(BASIC_STUB, {"flag"}, "0")
  BY DEF Ends, BASIC_STUB
<1>4. Ends(BASIC_STUB, SetsData, "zero")
  BY DEF Ends, SetsData, BASIC_STUB
<1>5. PutsBack(BASIC_STUB)
  BY <1>2, <1>3, <1>4 DEF PutsBack
<1>6. UnmapsLast(BASIC_STUB)
  BY DEF UnmapsLast, BASIC_STUB
<1>7. BranchesFirst(BASIC_STUB) /\ CallsMapped(BASIC_STUB) /\ OpensNone(BASIC_STUB)
  BY DEF BranchesFirst, Branching, CallsMapped, Calls, OpensNone, BASIC_STUB
<1>8. QED
  BY <1>1, <1>2, <1>3, <1>4, <1>5, <1>6, <1>7, ProgramsTyped DEF Starts

\* BASIC_EXEC_STUB maps the page for its calls and puts back what it set, as a
\* program that the loader starts must.
LEMMA ExecStarts ==
  ASSUME NEW pg, pg.ff00 \in {"basic-exec", "basic-probe", "basic-steps"}
  PROVE  Starts(BASIC_EXEC_STUB, pg)
<1>1. Fits(BASIC_EXEC_STUB, pg)
  BY DEF Fits, Branching, BASIC_EXEC_STUB
<1>2. Without(BASIC_EXEC_STUB, {"lcd"})
  BY DEF Without, BASIC_EXEC_STUB
<1>3. Without(BASIC_EXEC_STUB, {"flag"})
  BY DEF Without, BASIC_EXEC_STUB
<1>4. Without(BASIC_EXEC_STUB, SetsData)
  BY DEF Without, SetsData, BASIC_EXEC_STUB
<1>5. PutsBack(BASIC_EXEC_STUB)
  BY <1>2, <1>3, <1>4 DEF PutsBack
<1>6. UnmapsLast(BASIC_EXEC_STUB)
  BY DEF UnmapsLast, BASIC_EXEC_STUB
<1>7. BranchesFirst(BASIC_EXEC_STUB) /\ CallsMapped(BASIC_EXEC_STUB) /\ OpensNone(BASIC_EXEC_STUB)
  BY DEF BranchesFirst, Branching, CallsMapped, Calls, OpensNone, BASIC_EXEC_STUB
<1>8. QED
  BY <1>1, <1>2, <1>3, <1>4, <1>5, <1>6, <1>7, ProgramsTyped DEF Starts

\* BASIC_LOAD_PROBE_STUB maps the page for its calls and puts back what it set,
\* as a program that the loader starts must.
LEMMA LoadProbeStarts ==
  ASSUME NEW pg, "31B6" \in pg.pocket
  PROVE  Starts(BASIC_LOAD_PROBE_STUB, pg)
<1>1. Fits(BASIC_LOAD_PROBE_STUB, pg)
  BY DEF Fits, Branching, BASIC_LOAD_PROBE_STUB
<1>2. Without(BASIC_LOAD_PROBE_STUB, {"lcd"})
  BY DEF Without, BASIC_LOAD_PROBE_STUB
<1>3. Without(BASIC_LOAD_PROBE_STUB, {"flag"})
  BY DEF Without, BASIC_LOAD_PROBE_STUB
<1>4. Ends(BASIC_LOAD_PROBE_STUB, SetsData, "zero")
  BY DEF Ends, SetsData, BASIC_LOAD_PROBE_STUB
<1>5. PutsBack(BASIC_LOAD_PROBE_STUB)
  BY <1>2, <1>3, <1>4 DEF PutsBack
<1>6. UnmapsLast(BASIC_LOAD_PROBE_STUB)
  BY DEF UnmapsLast, BASIC_LOAD_PROBE_STUB
<1>7. BranchesFirst(BASIC_LOAD_PROBE_STUB) /\ CallsMapped(BASIC_LOAD_PROBE_STUB) /\ OpensNone(BASIC_LOAD_PROBE_STUB)
  BY DEF BranchesFirst, Branching, CallsMapped, Calls, OpensNone, BASIC_LOAD_PROBE_STUB
<1>8. QED
  BY <1>1, <1>2, <1>3, <1>4, <1>5, <1>6, <1>7, ProgramsTyped DEF Starts

\* BASIC_FILE_PROBE_STUB maps the page for its calls and puts back what it set,
\* as a program that the loader starts must.
LEMMA FileProbeStarts ==
  ASSUME NEW pg
  PROVE  Starts(BASIC_FILE_PROBE_STUB, pg)
<1>1. Fits(BASIC_FILE_PROBE_STUB, pg)
  BY DEF Fits, Branching, BASIC_FILE_PROBE_STUB
<1>2. Without(BASIC_FILE_PROBE_STUB, {"lcd"})
  BY DEF Without, BASIC_FILE_PROBE_STUB
<1>3. Without(BASIC_FILE_PROBE_STUB, {"flag"})
  BY DEF Without, BASIC_FILE_PROBE_STUB
<1>4. Ends(BASIC_FILE_PROBE_STUB, SetsData, "zero")
  BY DEF Ends, SetsData, BASIC_FILE_PROBE_STUB
<1>5. PutsBack(BASIC_FILE_PROBE_STUB)
  BY <1>2, <1>3, <1>4 DEF PutsBack
<1>6. UnmapsLast(BASIC_FILE_PROBE_STUB)
  BY DEF UnmapsLast, BASIC_FILE_PROBE_STUB
<1>7. BranchesFirst(BASIC_FILE_PROBE_STUB) /\ CallsMapped(BASIC_FILE_PROBE_STUB)
  BY DEF BranchesFirst, Branching, CallsMapped, Calls, BASIC_FILE_PROBE_STUB
<1>8. QED
  BY <1>1, <1>2, <1>3, <1>4, <1>5, <1>6, <1>7, ProgramsTyped DEF Starts

\* SMOKE_STUB maps the page for its calls and puts back what it set, as a
\* program that the loader starts must.
LEMMA SmokeStarts ==
  ASSUME NEW pg
  PROVE  Starts(SMOKE_STUB, pg)
<1>1. Fits(SMOKE_STUB, pg)
  BY DEF Fits, Branching, SMOKE_STUB
<1>2. Without(SMOKE_STUB, {"lcd"})
  BY DEF Without, SMOKE_STUB
<1>3. Without(SMOKE_STUB, {"flag"})
  BY DEF Without, SMOKE_STUB
<1>4. Ends(SMOKE_STUB, SetsData, "zero")
  BY DEF Ends, SetsData, SMOKE_STUB
<1>5. PutsBack(SMOKE_STUB)
  BY <1>2, <1>3, <1>4 DEF PutsBack
<1>6. UnmapsLast(SMOKE_STUB)
  BY DEF UnmapsLast, SMOKE_STUB
<1>7. BranchesFirst(SMOKE_STUB) /\ CallsMapped(SMOKE_STUB) /\ OpensNone(SMOKE_STUB)
  BY DEF BranchesFirst, Branching, CallsMapped, Calls, OpensNone, SMOKE_STUB
<1>8. QED
  BY <1>1, <1>2, <1>3, <1>4, <1>5, <1>6, <1>7, ProgramsTyped DEF Starts

\* SMOKE_MAP_STUB maps the page for its calls and puts back what it set, as a
\* program that the loader starts must.
LEMMA SmokeMapStarts ==
  ASSUME NEW pg, pg.ff00 = "smoke-map"
  PROVE  Starts(SMOKE_MAP_STUB, pg)
<1>1. Fits(SMOKE_MAP_STUB, pg)
  BY DEF Fits, Branching, SMOKE_MAP_STUB
<1>2. Without(SMOKE_MAP_STUB, {"lcd"})
  BY DEF Without, SMOKE_MAP_STUB
<1>3. Without(SMOKE_MAP_STUB, {"flag"})
  BY DEF Without, SMOKE_MAP_STUB
<1>4. Ends(SMOKE_MAP_STUB, SetsData, "zero")
  BY DEF Ends, SetsData, SMOKE_MAP_STUB
<1>5. PutsBack(SMOKE_MAP_STUB)
  BY <1>2, <1>3, <1>4 DEF PutsBack
<1>6. UnmapsLast(SMOKE_MAP_STUB)
  BY DEF UnmapsLast, SMOKE_MAP_STUB
<1>7. BranchesFirst(SMOKE_MAP_STUB) /\ CallsMapped(SMOKE_MAP_STUB) /\ OpensNone(SMOKE_MAP_STUB)
  BY DEF BranchesFirst, Branching, CallsMapped, Calls, OpensNone, SMOKE_MAP_STUB
<1>8. QED
  BY <1>1, <1>2, <1>3, <1>4, <1>5, <1>6, <1>7, ProgramsTyped DEF Starts

\* SMOKE_EXEC_STUB maps the page for its calls and puts back what it set, as a
\* program that the loader starts must.
LEMMA SmokeExecStarts ==
  ASSUME NEW pg, pg.ff00 \in {"smoke-exec", "f200-smoke"}
  PROVE  Starts(SMOKE_EXEC_STUB, pg)
<1>1. Fits(SMOKE_EXEC_STUB, pg)
  BY DEF Fits, Branching, SMOKE_EXEC_STUB
<1>2. Without(SMOKE_EXEC_STUB, {"lcd"})
  BY DEF Without, SMOKE_EXEC_STUB
<1>3. Without(SMOKE_EXEC_STUB, {"flag"})
  BY DEF Without, SMOKE_EXEC_STUB
<1>4. Ends(SMOKE_EXEC_STUB, SetsData, "zero")
  BY DEF Ends, SetsData, SMOKE_EXEC_STUB
<1>5. PutsBack(SMOKE_EXEC_STUB)
  BY <1>2, <1>3, <1>4 DEF PutsBack
<1>6. UnmapsLast(SMOKE_EXEC_STUB)
  BY DEF UnmapsLast, SMOKE_EXEC_STUB
<1>7. BranchesFirst(SMOKE_EXEC_STUB) /\ CallsMapped(SMOKE_EXEC_STUB) /\ OpensNone(SMOKE_EXEC_STUB)
  BY DEF BranchesFirst, Branching, CallsMapped, Calls, OpensNone, SMOKE_EXEC_STUB
<1>8. QED
  BY <1>1, <1>2, <1>3, <1>4, <1>5, <1>6, <1>7, ProgramsTyped DEF Starts

\* The opening of the loading probes maps the page, calls nothing that draws and
\* may be followed by calls into it.
LEMMA LoadingStarts ==
  ASSUME NEW pg
  PROVE  /\ Starts(Loading, pg) /\ OpensNone(Loading) /\ KeepsPage(Loading) /\ Maps(Loading)
         /\ Without(Loading, {"lcd", "flag", "enter"})
<1>1. Fits(Loading, pg)
  BY DEF Fits, Branching, Loading
<1>2. Without(Loading, {"lcd"})
  BY DEF Without, Loading
<1>3. Without(Loading, {"flag"})
  BY DEF Without, Loading
<1>4. Ends(Loading, SetsData, "zero")
  BY DEF Ends, SetsData, Loading
<1>5. PutsBack(Loading)
  BY <1>2, <1>3, <1>4 DEF PutsBack
<1>6. UnmapsLast(Loading)
  BY DEF UnmapsLast, Loading
<1>7. BranchesFirst(Loading) /\ CallsMapped(Loading) /\ OpensNone(Loading)
  BY DEF BranchesFirst, Branching, CallsMapped, Calls, OpensNone, Loading
<1>8. KeepsPage(Loading) /\ Maps(Loading) /\ Without(Loading, {"lcd", "flag", "enter"})
  BY DEF KeepsPage, Maps, Without, Loading
<1>9. QED
  BY <1>1, <1>2, <1>3, <1>4, <1>5, <1>6, <1>7, <1>8, ProgramsTyped DEF Starts

\* BASIC_MAPPED_WRAPPER maps the page for its calls and puts back what it set,
\* as a program of the mapped page must.
LEMMA WrapperInner ==
  ASSUME NEW pg
  PROVE  Inner(BASIC_MAPPED_WRAPPER, pg) /\ KeepsPage(BASIC_MAPPED_WRAPPER)
<1>1. Fits(BASIC_MAPPED_WRAPPER, pg)
  BY DEF Fits, Branching, BASIC_MAPPED_WRAPPER
<1>2. Ends(BASIC_MAPPED_WRAPPER, {"lcd"}, "menu")
  BY DEF Ends, BASIC_MAPPED_WRAPPER
<1>3. Ends(BASIC_MAPPED_WRAPPER, {"flag"}, "0")
  BY DEF Ends, BASIC_MAPPED_WRAPPER
<1>4. Ends(BASIC_MAPPED_WRAPPER, SetsData, "zero")
  BY DEF Ends, SetsData, BASIC_MAPPED_WRAPPER
<1>5. PutsBack(BASIC_MAPPED_WRAPPER)
  BY <1>2, <1>3, <1>4 DEF PutsBack
<1>6. UnmapsLast(BASIC_MAPPED_WRAPPER)
  BY DEF UnmapsLast, BASIC_MAPPED_WRAPPER
<1>7. Without(BASIC_MAPPED_WRAPPER, Branching) /\ OpensNone(BASIC_MAPPED_WRAPPER)
  BY DEF Without, Branching, OpensNone, BASIC_MAPPED_WRAPPER
<1>8. KeepsPage(BASIC_MAPPED_WRAPPER)
  BY DEF KeepsPage, BASIC_MAPPED_WRAPPER
<1>9. QED
  BY <1>1, <1>2, <1>3, <1>4, <1>5, <1>6, <1>7, <1>8, ProgramsTyped DEF Inner

\* BASIC_STEPS_MAPPED_WRAPPER maps the page for its calls and puts back what it
\* set, as a program of the mapped page must.
LEMMA StepsWrapperInner ==
  ASSUME NEW pg
  PROVE  Inner(BASIC_STEPS_MAPPED_WRAPPER, pg) /\ KeepsPage(BASIC_STEPS_MAPPED_WRAPPER)
<1>1. Fits(BASIC_STEPS_MAPPED_WRAPPER, pg)
  BY DEF Fits, Branching, BASIC_STEPS_MAPPED_WRAPPER
<1>2. Ends(BASIC_STEPS_MAPPED_WRAPPER, {"lcd"}, "menu")
  BY DEF Ends, BASIC_STEPS_MAPPED_WRAPPER
<1>3. Ends(BASIC_STEPS_MAPPED_WRAPPER, {"flag"}, "0")
  BY DEF Ends, BASIC_STEPS_MAPPED_WRAPPER
<1>4. Ends(BASIC_STEPS_MAPPED_WRAPPER, SetsData, "zero")
  BY DEF Ends, SetsData, BASIC_STEPS_MAPPED_WRAPPER
<1>5. PutsBack(BASIC_STEPS_MAPPED_WRAPPER)
  BY <1>2, <1>3, <1>4 DEF PutsBack
<1>6. UnmapsLast(BASIC_STEPS_MAPPED_WRAPPER)
  BY DEF UnmapsLast, BASIC_STEPS_MAPPED_WRAPPER
<1>7. Without(BASIC_STEPS_MAPPED_WRAPPER, Branching) /\ OpensNone(BASIC_STEPS_MAPPED_WRAPPER)
  BY DEF Without, Branching, OpensNone, BASIC_STEPS_MAPPED_WRAPPER
<1>8. KeepsPage(BASIC_STEPS_MAPPED_WRAPPER)
  BY DEF KeepsPage, BASIC_STEPS_MAPPED_WRAPPER
<1>9. QED
  BY <1>1, <1>2, <1>3, <1>4, <1>5, <1>6, <1>7, <1>8, ProgramsTyped DEF Inner

\* F200_SMOKE_ROUTINE maps the page for its calls and puts back what it set, as
\* a program of the mapped page must.
LEMMA F200Inner ==
  ASSUME NEW pg
  PROVE  Inner(F200_SMOKE_ROUTINE, pg) /\ KeepsPage(F200_SMOKE_ROUTINE)
<1>1. Fits(F200_SMOKE_ROUTINE, pg)
  BY DEF Fits, Branching, F200_SMOKE_ROUTINE
<1>2. Without(F200_SMOKE_ROUTINE, {"lcd"})
  BY DEF Without, F200_SMOKE_ROUTINE
<1>3. Without(F200_SMOKE_ROUTINE, {"flag"})
  BY DEF Without, F200_SMOKE_ROUTINE
<1>4. Without(F200_SMOKE_ROUTINE, SetsData)
  BY DEF Without, SetsData, F200_SMOKE_ROUTINE
<1>5. PutsBack(F200_SMOKE_ROUTINE)
  BY <1>2, <1>3, <1>4 DEF PutsBack
<1>6. UnmapsLast(F200_SMOKE_ROUTINE)
  BY DEF UnmapsLast, F200_SMOKE_ROUTINE
<1>7. Without(F200_SMOKE_ROUTINE, Branching) /\ OpensNone(F200_SMOKE_ROUTINE)
  BY DEF Without, Branching, OpensNone, F200_SMOKE_ROUTINE
<1>8. KeepsPage(F200_SMOKE_ROUTINE)
  BY DEF KeepsPage, F200_SMOKE_ROUTINE
<1>9. QED
  BY <1>1, <1>2, <1>3, <1>4, <1>5, <1>6, <1>7, <1>8, ProgramsTyped DEF Inner

\* MAPPED_ROUTINE maps the page for its calls and puts back what it set, as a
\* program of the mapped page must.
LEMMA MappedInner ==
  ASSUME NEW pg
  PROVE  Inner(MAPPED_ROUTINE, pg) /\ KeepsPage(MAPPED_ROUTINE)
<1>1. Fits(MAPPED_ROUTINE, pg)
  BY DEF Fits, Branching, MAPPED_ROUTINE
<1>2. Without(MAPPED_ROUTINE, {"lcd"})
  BY DEF Without, MAPPED_ROUTINE
<1>3. Without(MAPPED_ROUTINE, {"flag"})
  BY DEF Without, MAPPED_ROUTINE
<1>4. Ends(MAPPED_ROUTINE, SetsData, "zero")
  BY DEF Ends, SetsData, MAPPED_ROUTINE
<1>5. PutsBack(MAPPED_ROUTINE)
  BY <1>2, <1>3, <1>4 DEF PutsBack
<1>6. UnmapsLast(MAPPED_ROUTINE)
  BY DEF UnmapsLast, MAPPED_ROUTINE
<1>7. Without(MAPPED_ROUTINE, Branching) /\ OpensNone(MAPPED_ROUTINE)
  BY DEF Without, Branching, OpensNone, MAPPED_ROUTINE
<1>8. KeepsPage(MAPPED_ROUTINE)
  BY DEF KeepsPage, MAPPED_ROUTINE
<1>9. QED
  BY <1>1, <1>2, <1>3, <1>4, <1>5, <1>6, <1>7, <1>8, ProgramsTyped DEF Inner

\* The calls of the start-up leave the machine as it was if the page has their slots.
LEMMA InitCallsInner ==
  ASSUME NEW pg, {"83EB", "7C82", "7C1E"} \subseteq pg.pocket
  PROVE  Inner(InitCalls, pg) /\ KeepsPage(InitCalls)
<1>1. Fits(InitCalls, pg)
  BY DEF Fits, Branching, InitCalls
<1>2. Without(InitCalls, {"lcd"})
  BY DEF Without, InitCalls
<1>3. Without(InitCalls, {"flag"})
  BY DEF Without, InitCalls
<1>4. Without(InitCalls, SetsData)
  BY DEF Without, SetsData, InitCalls
<1>5. PutsBack(InitCalls)
  BY <1>2, <1>3, <1>4 DEF PutsBack
<1>6. UnmapsLast(InitCalls)
  BY DEF UnmapsLast, InitCalls
<1>7. Without(InitCalls, Branching) /\ OpensNone(InitCalls)
  BY DEF Without, Branching, OpensNone, InitCalls
<1>8. KeepsPage(InitCalls)
  BY DEF KeepsPage, InitCalls
<1>9. QED
  BY <1>1, <1>2, <1>3, <1>4, <1>5, <1>6, <1>7, <1>8, ProgramsTyped DEF Inner

\* The tail that reports a failed load keeps the machine as it found it.
LEMMA FailedInner ==
  ASSUME NEW pg,
         NEW s, s = <<IfFailed(<<Say>>), Say>>
  PROVE  /\ s \in Seq(Steps) /\ Fits(s, pg) /\ PutsBack(s) /\ UnmapsLast(s) /\ OpensNone(s)
         /\ BranchesFirst(s) /\ KeepsPage(s)
<1>1. Fits(s, pg)
  BY DEF Fits, Branching
<1>2. Without(s, {"lcd"})
  BY DEF Without
<1>3. Without(s, {"flag"})
  BY DEF Without
<1>4. Ends(s, SetsData, "zero")
  BY DEF Ends, SetsData
<1>5. PutsBack(s)
  BY <1>2, <1>3, <1>4 DEF PutsBack
<1>6. UnmapsLast(s)
  BY DEF UnmapsLast
<1>7. BranchesFirst(s) /\ OpensNone(s)
  BY DEF BranchesFirst, Branching, OpensNone
<1>8. KeepsPage(s)
  BY DEF KeepsPage
<1>9. QED
  BY <1>1, <1>2, <1>3, <1>4, <1>5, <1>6, <1>7, <1>8, PartsTyped

\* ... also where it maps the page for what follows.
LEMMA FailedMapsInner ==
  ASSUME NEW pg,
         NEW s, s = <<IfFailed(<<Say>>), Say, MapPage>>
  PROVE  /\ s \in Seq(Steps) /\ Fits(s, pg) /\ PutsBack(s) /\ UnmapsLast(s) /\ OpensNone(s)
         /\ BranchesFirst(s) /\ KeepsPage(s)
<1>1. Fits(s, pg)
  BY DEF Fits, Branching
<1>2. Without(s, {"lcd"})
  BY DEF Without
<1>3. Without(s, {"flag"})
  BY DEF Without
<1>4. Ends(s, SetsData, "zero")
  BY DEF Ends, SetsData
<1>5. PutsBack(s)
  BY <1>2, <1>3, <1>4 DEF PutsBack
<1>6. UnmapsLast(s)
  BY DEF UnmapsLast
<1>7. BranchesFirst(s) /\ OpensNone(s)
  BY DEF BranchesFirst, Branching, OpensNone
<1>8. KeepsPage(s)
  BY DEF KeepsPage
<1>9. QED
  BY <1>1, <1>2, <1>3, <1>4, <1>5, <1>6, <1>7, <1>8, PartsTyped

\* A message from the page leaves the machine as it was.
LEMMA SayMappedInner ==
  ASSUME NEW pg,
         NEW s, s = <<SayMapped>>
  PROVE  Inner(s, pg) /\ KeepsPage(s)
<1>1. Fits(s, pg)
  BY DEF Fits, Branching
<1>2. Without(s, {"lcd"})
  BY DEF Without
<1>3. Without(s, {"flag"})
  BY DEF Without
<1>4. Without(s, SetsData)
  BY DEF Without, SetsData
<1>5. PutsBack(s)
  BY <1>2, <1>3, <1>4 DEF PutsBack
<1>6. UnmapsLast(s)
  BY DEF UnmapsLast
<1>7. Without(s, Branching) /\ OpensNone(s)
  BY DEF Without, Branching, OpensNone
<1>8. KeepsPage(s)
  BY DEF KeepsPage
<1>9. QED
  BY <1>1, <1>2, <1>3, <1>4, <1>5, <1>6, <1>7, <1>8, PartsTyped DEF Inner

\* ... also behind the return to data segment 0.
LEMMA ZeroInner ==
  ASSUME NEW pg,
         NEW s, s = <<DataZero, SayMapped>>
  PROVE  Inner(s, pg) /\ KeepsPage(s)
<1>1. Fits(s, pg)
  BY DEF Fits, Branching
<1>2. Without(s, {"lcd"})
  BY DEF Without
<1>3. Without(s, {"flag"})
  BY DEF Without
<1>4. Ends(s, SetsData, "zero")
  BY DEF Ends, SetsData
<1>5. PutsBack(s)
  BY <1>2, <1>3, <1>4 DEF PutsBack
<1>6. UnmapsLast(s)
  BY DEF UnmapsLast
<1>7. Without(s, Branching) /\ OpensNone(s)
  BY DEF Without, Branching, OpensNone
<1>8. KeepsPage(s)
  BY DEF KeepsPage
<1>9. QED
  BY <1>1, <1>2, <1>3, <1>4, <1>5, <1>6, <1>7, <1>8, PartsTyped DEF Inner

\* The three calls of the start-up, with the messages between them, leave the machine
\* as it was if the page has their slots.
LEMMA InitStepsInner ==
  ASSUME NEW pg, {"83EB", "7C82", "7C1E"} \subseteq pg.pocket,
         NEW s, s = <<Say, InitCalls[1], Say, Say, InitCalls[2], Say, Say, InitCalls[3], Say, MapPage>>
  PROVE  Inner(s, pg)
<1>1. Fits(s, pg)
  BY DEF Fits, Branching, InitCalls
<1>2. Without(s, {"lcd"})
  BY DEF Without, InitCalls
<1>3. Without(s, {"flag"})
  BY DEF Without, InitCalls
<1>4. Ends(s, SetsData, "zero")
  <2>1. Len(s) = 10 /\ s[9] = Say /\ s[10] = MapPage
    OBVIOUS
  <2>2. s[9].op = "say" /\ s[9].arg = "zero" /\ s[10].op = "bank"
    BY <2>1
  <2>3. 9 \in 1 .. Len(s) /\ \A j \in 10 .. Len(s) : j = 10
    BY <2>1
  <2> HIDE DEF Step
  <2>4. QED
    BY <2>2, <2>3 DEF Ends, SetsData
<1>5. PutsBack(s)
  BY <1>2, <1>3, <1>4 DEF PutsBack
<1>6. UnmapsLast(s)
  BY DEF UnmapsLast, InitCalls
<1>7. Without(s, Branching) /\ OpensNone(s)
  BY DEF Without, Branching, OpensNone, InitCalls
<1>8. QED
  BY <1>1, <1>2, <1>3, <1>4, <1>5, <1>6, <1>7, PartsTyped DEF Inner

\* The call of the whole start puts back the flag, the picture and the data segment.
LEMMA RuntimeInner ==
  ASSUME NEW pg, "7D00" \in pg.pocket,
         NEW s, s = <<Say, FlagSet, ShowBasic, DataZero, Slot("7D00"), ShowMenu, FlagClear, Say, MapPage>>
  PROVE  Inner(s, pg)
<1>1. Fits(s, pg)
  BY DEF Fits, Branching
<1>2. Ends(s, {"lcd"}, "menu")
  BY DEF Ends
<1>3. Ends(s, {"flag"}, "0")
  BY DEF Ends
<1>4. Ends(s, SetsData, "zero")
  BY DEF Ends, SetsData
<1>5. PutsBack(s)
  BY <1>2, <1>3, <1>4 DEF PutsBack
<1>6. UnmapsLast(s)
  BY DEF UnmapsLast
<1>7. Without(s, Branching) /\ OpensNone(s)
  BY DEF Without, Branching, OpensNone
<1>8. QED
  BY <1>1, <1>2, <1>3, <1>4, <1>5, <1>6, <1>7, PartsTyped DEF Inner

\* The two steps of the start, with the messages between them, leave the machine as
\* it was.
LEMMA RuntimeStepsInner ==
  ASSUME NEW pg, {"6800", "C3FD"} \subseteq pg.pocket,
         NEW s, s = <<Say, Slot("6800"), Say, Say, Slot("C3FD"), Say, UnmapPage>>
  PROVE  Inner(s, pg)
<1>1. Fits(s, pg)
  BY DEF Fits, Branching
<1>2. Without(s, {"lcd"})
  BY DEF Without
<1>3. Without(s, {"flag"})
  BY DEF Without
<1>4. Ends(s, SetsData, "zero")
  BY DEF Ends, SetsData
<1>5. PutsBack(s)
  BY <1>2, <1>3, <1>4 DEF PutsBack
<1>6. UnmapsLast(s)
  BY DEF UnmapsLast
<1>7. Without(s, Branching) /\ OpensNone(s)
  BY DEF Without, Branching, OpensNone
<1>8. QED
  BY <1>1, <1>2, <1>3, <1>4, <1>5, <1>6, <1>7, PartsTyped DEF Inner

\* ... also with the messages behind them.
LEMMA BranchInner ==
  ASSUME NEW pg, {"6800", "C3FD"} \subseteq pg.pocket,
         NEW s, s = <<Slot("6800"), Slot("C3FD"), Say, Say, UnmapPage>>
  PROVE  Inner(s, pg)
<1>1. Fits(s, pg)
  BY DEF Fits, Branching
<1>2. Without(s, {"lcd"})
  BY DEF Without
<1>3. Without(s, {"flag"})
  BY DEF Without
<1>4. Ends(s, SetsData, "zero")
  BY DEF Ends, SetsData
<1>5. PutsBack(s)
  BY <1>2, <1>3, <1>4 DEF PutsBack
<1>6. UnmapsLast(s)
  BY DEF UnmapsLast
<1>7. Without(s, Branching) /\ OpensNone(s)
  BY DEF Without, Branching, OpensNone
<1>8. QED
  BY <1>1, <1>2, <1>3, <1>4, <1>5, <1>6, <1>7, PartsTyped DEF Inner

\* The call that draws a letter leaves the machine as it was.
LEMMA LetterInner ==
  ASSUME NEW pg, "84D5" \in pg.pocket,
         NEW s, s = <<Say, Slot("84D5"), Say, UnmapPage>>
  PROVE  Inner(s, pg)
<1>1. Fits(s, pg)
  BY DEF Fits, Branching
<1>2. Without(s, {"lcd"})
  BY DEF Without
<1>3. Without(s, {"flag"})
  BY DEF Without
<1>4. Ends(s, SetsData, "zero")
  BY DEF Ends, SetsData
<1>5. PutsBack(s)
  BY <1>2, <1>3, <1>4 DEF PutsBack
<1>6. UnmapsLast(s)
  BY DEF UnmapsLast
<1>7. Without(s, Branching) /\ OpensNone(s)
  BY DEF Without, Branching, OpensNone
<1>8. QED
  BY <1>1, <1>2, <1>3, <1>4, <1>5, <1>6, <1>7, PartsTyped DEF Inner

HIDE DEF Step, MapPage, UnmapPage, PathFixed, Say, SayMapped, FlagSet, FlagClear, ShowBasic,
         ShowMenu, WorkArea, Reloc, LoadInRam, DataZero, Slot, Enter, ShowMapped, RunBasic, Vector,
         Unless, IfFailed

\* The programs that load the 325 BASIC into RAM start with the loading.
LEMMA LoadedStarts ==
  ASSUME NEW pg
  PROVE  /\ Starts(BASIC_RAM_LOAD_PROBE_STUB, pg)
         /\ Starts(Loaded, pg) /\ OpensNone(Loaded) /\ KeepsPage(Loaded) /\ Maps(Loaded)
<1>1. /\ Starts(Loading, pg) /\ OpensNone(Loading) /\ KeepsPage(Loading) /\ Maps(Loading)
      /\ Without(Loading, {"lcd", "flag", "enter"})
  BY LoadingStarts
<1>2. \A t : t \in {<<IfFailed(<<Say>>), Say>>, <<IfFailed(<<Say>>), Say, MapPage>>} =>
        /\ t \in Seq(Steps) /\ Fits(t, pg) /\ PutsBack(t) /\ UnmapsLast(t) /\ OpensNone(t)
        /\ BranchesFirst(t) /\ KeepsPage(t)
  BY FailedInner, FailedMapsInner
<1>3. \A t : t \in {<<IfFailed(<<Say>>), Say>>, <<IfFailed(<<Say>>), Say, MapPage>>} =>
        /\ Starts(Loading \o t, pg) /\ OpensNone(Loading \o t) /\ Maps(Loading \o t)
        /\ KeepsPage(Loading \o t)
  BY <1>1, <1>2, ConcatStarts
<1>4. QED
  BY <1>3 DEF BASIC_RAM_LOAD_PROBE_STUB, Loaded

\* ... and go on behind it.
LEMMA RuntimeStarts ==
  ASSUME NEW pg, {"83EB", "7C82", "7C1E"} \subseteq pg.pocket
  PROVE  /\ Starts(BASIC_INIT_STEPS_PROBE_STUB, pg)
         /\ "7D00" \in pg.pocket => Starts(BASIC_RUNTIME_PROBE_STUB, pg)
         /\ {"6800", "C3FD"} \subseteq pg.pocket => /\ Starts(BASIC_RUNTIME_STEPS_PROBE_STUB, pg)
                                                    /\ Starts(BASIC_RUNTIME_BRANCH_PROBE_STUB, pg)
         /\ "84D5" \in pg.pocket => Starts(BASIC_RUNTIME_LETTER_PROBE_STUB, pg)
<1>1. Starts(Loaded, pg) /\ OpensNone(Loaded) /\ KeepsPage(Loaded) /\ Maps(Loaded)
  BY LoadedStarts
<1>2. Inner(InitCalls, pg) /\ KeepsPage(InitCalls)
  BY InitCallsInner
<1> DEFINE s == Loaded \o InitCalls
<1>3. Starts(s, pg) /\ OpensNone(s) /\ KeepsPage(s) /\ Maps(s)
  BY <1>1, <1>2, ConcatStarts DEF Inner
<1>4. \A t : Inner(t, pg) => Starts(s \o t, pg) /\ Starts(Loaded \o t, pg)
  <2> HIDE DEF s
  <2>1. QED
    BY <1>1, <1>3, ConcatStarts DEF Inner
<1>5. Starts(BASIC_INIT_STEPS_PROBE_STUB, pg)
  BY <1>4, InitStepsInner DEF BASIC_INIT_STEPS_PROBE_STUB
<1>6. "7D00" \in pg.pocket => Starts(BASIC_RUNTIME_PROBE_STUB, pg)
  BY <1>4, RuntimeInner DEF BASIC_RUNTIME_PROBE_STUB
<1>7. {"6800", "C3FD"} \subseteq pg.pocket => /\ Starts(BASIC_RUNTIME_STEPS_PROBE_STUB, pg)
                                              /\ Starts(BASIC_RUNTIME_BRANCH_PROBE_STUB, pg)
  BY <1>4, RuntimeStepsInner, BranchInner
     DEF BASIC_RUNTIME_STEPS_PROBE_STUB, BASIC_RUNTIME_BRANCH_PROBE_STUB
<1>8. "84D5" \in pg.pocket => Starts(BASIC_RUNTIME_LETTER_PROBE_STUB, pg)
  BY <1>4, LetterInner DEF BASIC_RUNTIME_LETTER_PROBE_STUB
<1>9. QED
  BY <1>5, <1>6, <1>7, <1>8

\* Every program fits the page that is built with it.
LEMMA ProgramStarts ==
  ASSUME NEW kind \in Kinds
  PROVE  Starts(StubOf(kind).steps, Page(kind))
<1> DEFINE pg == Page(kind)
<1>1. pg = [ff00 |-> Ff00(kind), pocket |-> Pocket(kind)]
  BY DEF Page
<1>2. pg.ff00 = Ff00(kind) /\ pg.pocket = Pocket(kind)
  BY <1>1
<1> HIDE DEF pg
<1>3. CASE kind = "basic"
  BY <1>3, BasicStarts DEF StubOf, build_basic_stub, Format, pg
<1>4. CASE kind = "basic-load-probe"
  <2>1. "31B6" \in pg.pocket
    BY <1>2, <1>4 DEF Pocket, InitProbes
  <2>2. Starts(BASIC_LOAD_PROBE_STUB, pg)
    BY <2>1, LoadProbeStarts
  <2>3. QED
    BY <1>4, <2>2 DEF StubOf, build_basic_load_probe_stub, Format, pg
<1>5. CASE kind = "basic-file-probe"
  BY <1>5, FileProbeStarts DEF StubOf, build_basic_file_probe_stub, Format, pg
<1>6. CASE kind = "basic-ram-load-probe"
  BY <1>6, LoadedStarts DEF StubOf, build_basic_ram_load_probe_stub, Format, pg
<1>7. ASSUME kind \in InitProbes
      PROVE  {"83EB", "7C82", "7C1E"} \subseteq pg.pocket
  BY <1>2, <1>7 DEF Pocket, InitProbes
<1>8. CASE kind = "basic-init-steps-probe"
  <2>1. Starts(BASIC_INIT_STEPS_PROBE_STUB, pg)
    BY <1>7, <1>8, RuntimeStarts DEF InitProbes
  <2>2. QED
    BY <1>8, <2>1 DEF StubOf, build_basic_init_steps_probe_stub, Format, pg
<1>9. CASE kind = "basic-runtime-probe"
  <2>1. "7D00" \in pg.pocket
    BY <1>2, <1>9 DEF Pocket, InitProbes
  <2>2. Starts(BASIC_RUNTIME_PROBE_STUB, pg)
    BY <1>7, <1>9, <2>1, RuntimeStarts DEF InitProbes
  <2>3. QED
    BY <1>9, <2>2 DEF StubOf, build_basic_runtime_probe_stub, Format, pg
<1>10. CASE kind = "basic-runtime-branch-probe"
  <2>1. {"6800", "C3FD"} \subseteq pg.pocket
    BY <1>2, <1>10 DEF Pocket, InitProbes
  <2>2. Starts(BASIC_RUNTIME_BRANCH_PROBE_STUB, pg)
    BY <1>7, <1>10, <2>1, RuntimeStarts DEF InitProbes
  <2>3. QED
    BY <1>10, <2>2 DEF StubOf, build_basic_runtime_branch_probe_stub, Format, pg
<1>11. CASE kind = "basic-runtime-steps-probe"
  <2>1. {"6800", "C3FD"} \subseteq pg.pocket
    BY <1>2, <1>11 DEF Pocket, InitProbes
  <2>2. Starts(BASIC_RUNTIME_STEPS_PROBE_STUB, pg)
    BY <1>7, <1>11, <2>1, RuntimeStarts DEF InitProbes
  <2>3. QED
    BY <1>11, <2>2 DEF StubOf, build_basic_runtime_steps_probe_stub, Format, pg
<1>12. CASE kind = "basic-runtime-letter-probe"
  <2>1. "84D5" \in pg.pocket
    BY <1>2, <1>12 DEF Pocket, InitProbes
  <2>2. Starts(BASIC_RUNTIME_LETTER_PROBE_STUB, pg)
    BY <1>7, <1>12, <2>1, RuntimeStarts DEF InitProbes
  <2>3. QED
    BY <1>12, <2>2 DEF StubOf, build_basic_runtime_letter_probe_stub, Format, pg
<1>13. CASE kind \in {"basic-exec", "basic-probe", "basic-steps"}
  <2>1. pg.ff00 \in {"basic-exec", "basic-probe", "basic-steps"}
    BY <1>2, <1>13 DEF Ff00
  <2>2. Starts(BASIC_EXEC_STUB, pg)
    BY <2>1, ExecStarts
  <2>3. QED
    BY <1>13, <2>2 DEF StubOf, build_basic_exec_stub, Format, pg
<1>14. CASE kind = "smoke"
  BY <1>14, SmokeStarts DEF StubOf, build_smoke_stub, Format, pg
<1>15. CASE kind = "smoke-map"
  <2>1. pg.ff00 = "smoke-map"
    BY <1>2, <1>15 DEF Ff00
  <2>2. Starts(SMOKE_MAP_STUB, pg)
    BY <2>1, SmokeMapStarts
  <2>3. QED
    BY <1>15, <2>2 DEF StubOf, build_smoke_map_stub, Format, pg
<1>16. CASE kind \in {"smoke-exec", "f200-smoke"}
  <2>1. pg.ff00 \in {"smoke-exec", "f200-smoke"}
    BY <1>2, <1>16 DEF Ff00
  <2>2. Starts(SMOKE_EXEC_STUB, pg)
    BY <2>1, SmokeExecStarts
  <2>3. QED
    BY <1>16, <2>2 DEF StubOf, build_smoke_exec_stub, Format, pg
<1>17. QED
  BY <1>3, <1>4, <1>5, <1>6, <1>8, <1>9, <1>10, <1>11, <1>12, <1>13, <1>14, <1>15, <1>16
     DEF Kinds

\* A routine in the page does nothing that needs the page changed.
LEMMA RoutineInner ==
  ASSUME NEW pg, NEW name \in {"basic-exec", "basic-probe", "basic-steps", "smoke-exec", "f200-smoke"}
  PROVE  Inner(Routine(name).steps, pg) /\ KeepsPage(Routine(name).steps)
<1>1. CASE name = "basic-exec"
  BY <1>1, WrapperInner DEF Routine, build_basic_mapped_wrapper, Format
<1>2. CASE name = "basic-probe"
  <2>1. /\ Inner(<<SayMapped>>, pg) /\ KeepsPage(<<SayMapped>>)
        /\ Inner(BASIC_MAPPED_WRAPPER, pg) /\ KeepsPage(BASIC_MAPPED_WRAPPER)
        /\ Inner(<<DataZero, SayMapped>>, pg) /\ KeepsPage(<<DataZero, SayMapped>>)
    BY SayMappedInner, WrapperInner, ZeroInner
  <2>2. /\ Inner(<<SayMapped>> \o BASIC_MAPPED_WRAPPER, pg)
        /\ KeepsPage(<<SayMapped>> \o BASIC_MAPPED_WRAPPER)
    BY <2>1, ConcatInner
  <2>3. Inner(BASIC_PROBE_MAPPED_WRAPPER, pg) /\ KeepsPage(BASIC_PROBE_MAPPED_WRAPPER)
    BY <2>1, <2>2, ConcatInner DEF BASIC_PROBE_MAPPED_WRAPPER
  <2>4. QED
    BY <1>2, <2>3 DEF Routine, build_basic_probe_mapped_wrapper, Format
<1>3. CASE name = "basic-steps"
  BY <1>3, StepsWrapperInner DEF Routine, build_basic_steps_mapped_wrapper, Format
<1>4. CASE name = "smoke-exec"
  BY <1>4, MappedInner DEF Routine, build_mapped_routine, Format
<1>5. CASE name = "f200-smoke"
  BY <1>5, F200Inner DEF Routine, build_f200_smoke_routine, Format
<1>6. QED
  BY <1>1, <1>2, <1>3, <1>4, <1>5

------------------------------------------------------------------------------
(* The machine                                                               *)

\* What is still to be done puts a register back that is not as the menu has it.
Hands(s, ops, arg, have) == Ends(s, ops, arg) \/ (Without(s, ops) /\ have = arg)

FileFrom(p) == SubSeq(BASIC_FILE_PROBE_STUB, p, Len(BASIC_FILE_PROBE_STUB))

\* The file is open where the program that opens it has found that out, and not yet closed it.
FileClosed ==
  \/ ~mach.open /\ OpensNone(mach.rest)
  \/ \E p \in 1 .. 10 : /\ mach.rest = FileFrom(p)
                        /\ mach.open <=> (p > 5 \/ (p = 5 /\ mach.result = "opened"))
  \/ mach.open /\ mach.rest = <<Vector("close"), Say>>

MachType ==
  mach \in [rest : Seq(Steps), bank : {"rom", "card"}, lcd : {"menu", "basic"}, flag : {"0", "1"},
            ds : StepArgs, open : BOOLEAN, result : {"none", "opened", "marked", "loaded", "fails"}]

Registers ==
  /\ Hands(mach.rest, {"lcd"}, "menu", mach.lcd)
  /\ Hands(mach.rest, {"flag"}, "0", mach.flag)
  /\ Hands(mach.rest, SetsData, "zero", mach.ds)
  /\ BranchesFirst(mach.rest)
  /\ Without(mach.rest, Branching) \/ (mach.lcd = "menu" /\ mach.flag = "0")

Mapping ==
  /\ Fits(mach.rest, page) /\ UnmapsLast(mach.rest)
  /\ mach.bank = "card" \/ CallsMapped(mach.rest)

\* The program on the card has a kind, and the page goes with it.
Matched ==
  files["EROMCARD.X"] # NoFile =>
    \E kind \in Kinds : files["EROMCARD.X"] = Stub(kind) /\ page = Page(kind)

MachInv == MachType /\ Registers /\ Mapping /\ FileClosed

\* What is left of a program after its first step
LEMMA TailOf ==
  ASSUME NEW s \in Seq(Steps), s # <<>>
  PROVE  /\ Tail(s) \in Seq(Steps) /\ Len(s) \in Nat \ {0} /\ Len(Tail(s)) = Len(s) - 1
         /\ Head(s) = s[1] /\ Head(s) \in Steps
         /\ \A k \in 1 .. Len(Tail(s)) : k + 1 \in 1 .. Len(s) /\ Tail(s)[k] = s[k + 1]
         /\ \A k \in 2 .. Len(s) : k - 1 \in 1 .. Len(Tail(s)) /\ Tail(s)[k - 1] = s[k]
         /\ 1 \in 1 .. Len(s)
  OBVIOUS

\* A step done: the rest hands back what the whole did, or what this step set.
LEMMA TailHands ==
  ASSUME NEW s \in Seq(Steps), s # <<>>, NEW ops, NEW arg, NEW have, NEW new,
         Hands(s, ops, arg, have), new = IF s[1].op \in ops THEN s[1].arg ELSE have
  PROVE  Hands(Tail(s), ops, arg, new)
<1> DEFINE t == Tail(s)
<1>1. /\ t \in Seq(Steps) /\ Len(s) \in Nat \ {0} /\ Len(t) = Len(s) - 1
      /\ \A k \in 1 .. Len(t) : k + 1 \in 1 .. Len(s) /\ t[k] = s[k + 1]
      /\ \A k \in 2 .. Len(s) : k - 1 \in 1 .. Len(t) /\ t[k - 1] = s[k]
      /\ 1 \in 1 .. Len(s)
  BY TailOf
<1> HIDE DEF t
<1>2. CASE Without(s, ops) /\ have = arg
  <2>1. Without(t, ops) /\ new = arg
    BY <1>1, <1>2 DEF Without
  <2>2. QED
    BY <2>1 DEF Hands, t
<1>3. CASE Ends(s, ops, arg)
  <2>1. PICK k \in 1 .. Len(s) : /\ s[k].op \in ops /\ s[k].arg = arg
                                 /\ \A j \in k + 1 .. Len(s) : s[j].op \notin ops
    BY <1>3 DEF Ends
  <2>2. CASE k = 1
    <3>1. new = arg
      BY <2>1, <2>2
    <3>2. Without(t, ops)
      BY <1>1, <2>1, <2>2 DEF Without
    <3>3. QED
      BY <3>1, <3>2 DEF Hands, t
  <2>3. CASE k > 1
    <3>1. k - 1 \in 1 .. Len(t) /\ t[k - 1] = s[k]
      BY <1>1, <2>3
    <3>2. \A j \in k - 1 + 1 .. Len(t) : t[j].op \notin ops
      <4>1. SUFFICES ASSUME NEW j \in k - 1 + 1 .. Len(t) PROVE t[j].op \notin ops
        OBVIOUS
      <4>2. j \in 1 .. Len(t) /\ j + 1 \in k + 1 .. Len(s)
        BY <1>1
      <4>3. QED
        BY <1>1, <2>1, <4>2
    <3>3. Ends(t, ops, arg)
      BY <2>1, <3>1, <3>2 DEF Ends
    <3>4. QED
      BY <3>3 DEF Hands, t
  <2>4. QED
    BY <2>2, <2>3
<1>4. QED
  BY <1>2, <1>3 DEF Hands

\* A step that goes on to the next, by what it does to each register
TakesStep ==
  /\ mach' \in [rest : Seq(Steps), bank : {"rom", "card"}, lcd : {"menu", "basic"},
                flag : {"0", "1"}, ds : StepArgs, open : BOOLEAN,
                result : {"none", "opened", "marked", "loaded", "fails"}]
  /\ mach'.rest = Tail(mach.rest) /\ page' = page
  /\ mach'.bank = IF Now.op \in {"bank"} THEN Now.arg ELSE mach.bank
  /\ mach'.lcd  = IF Now.op \in {"lcd"} THEN Now.arg ELSE mach.lcd
  /\ mach'.flag = IF Now.op \in {"flag"} THEN Now.arg ELSE mach.flag
  /\ mach'.ds   = IF Now.op \in SetsData THEN Now.arg ELSE mach.ds
  /\ Now.op # "enter"

\* Every step leaves the steps to be done typed, the registers to be put back
\* and the page mapped for the calls that need it.
LEMMA StepKeeps ==
  ASSUME MachInv, ~Idle, TakesStep
  PROVE  MachType' /\ Registers' /\ Mapping'
<1> DEFINE s == mach.rest
           t == mach'.rest
<1>1. s \in Seq(Steps) /\ s # <<>> /\ t = Tail(s)
  BY DEF MachInv, MachType, Idle, TakesStep
<1>2. /\ t \in Seq(Steps) /\ Len(s) \in Nat \ {0} /\ Len(t) = Len(s) - 1
      /\ Now = s[1] /\ Now \in Steps
      /\ \A k \in 1 .. Len(t) : k + 1 \in 1 .. Len(s) /\ t[k] = s[k + 1]
      /\ \A k \in 2 .. Len(s) : k - 1 \in 1 .. Len(t) /\ t[k - 1] = s[k]
      /\ 1 \in 1 .. Len(s)
  BY <1>1, TailOf DEF Now
<1> HIDE DEF s, t
<1>3. MachType'
  BY DEF TakesStep, MachType
<1>4. /\ Hands(t, {"lcd"}, "menu", mach'.lcd) /\ Hands(t, {"flag"}, "0", mach'.flag)
      /\ Hands(t, SetsData, "zero", mach'.ds)
  <2>1. /\ Hands(s, {"lcd"}, "menu", mach.lcd) /\ Hands(s, {"flag"}, "0", mach.flag)
        /\ Hands(s, SetsData, "zero", mach.ds)
    BY DEF MachInv, Registers, s
  <2>2. /\ mach'.lcd  = IF s[1].op \in {"lcd"} THEN s[1].arg ELSE mach.lcd
        /\ mach'.flag = IF s[1].op \in {"flag"} THEN s[1].arg ELSE mach.flag
        /\ mach'.ds   = IF s[1].op \in SetsData THEN s[1].arg ELSE mach.ds
    BY <1>2 DEF TakesStep
  <2>3. Hands(t, {"lcd"}, "menu", mach'.lcd)
    BY <1>1, <2>1, <2>2, TailHands
  <2>4. Hands(t, {"flag"}, "0", mach'.flag)
    BY <1>1, <2>1, <2>2, TailHands
  <2>5. Hands(t, SetsData, "zero", mach'.ds)
    BY <1>1, <2>1, <2>2, TailHands
  <2>6. QED
    BY <2>3, <2>4, <2>5
<1>5. BranchesFirst(t)
  <2>1. SUFFICES ASSUME NEW b \in 1 .. Len(t), t[b].op \in Branching, NEW j \in 1 .. b
                 PROVE  t[j].op \notin {"lcd", "flag", "enter"}
    BY DEF BranchesFirst
  <2>2. b + 1 \in 1 .. Len(s) /\ s[b + 1].op \in Branching /\ j \in 1 .. Len(t) /\ j + 1 \in 1 .. b + 1
    BY <1>2, <2>1
  <2>3. s[j + 1].op \notin {"lcd", "flag", "enter"}
    BY <2>2 DEF MachInv, Registers, BranchesFirst, s
  <2>4. QED
    BY <1>2, <2>2, <2>3
<1>6. Without(t, Branching) \/ (mach'.lcd = "menu" /\ mach'.flag = "0")
  <2>1. SUFFICES ASSUME NEW b \in 1 .. Len(t), t[b].op \in Branching
                 PROVE  mach'.lcd = "menu" /\ mach'.flag = "0"
    BY DEF Without
  <2>2. b + 1 \in 1 .. Len(s) /\ s[b + 1].op \in Branching /\ 1 \in 1 .. b + 1
    BY <1>2, <2>1
  <2>3. s[1].op \notin {"lcd", "flag", "enter"}
    BY <2>2 DEF MachInv, Registers, BranchesFirst, s
  <2>4. mach.lcd = "menu" /\ mach.flag = "0"
    BY <2>2 DEF MachInv, Registers, Without, s
  <2>5. QED
    BY <1>2, <2>3, <2>4 DEF TakesStep
<1>7. Fits(t, page')
  <2>1. Fits(s, page)
    BY DEF MachInv, Mapping, s
  <2>2. page' = page
    BY DEF TakesStep
  <2>3. QED
    BY <1>2, <2>1, <2>2 DEF Fits
<1>8. UnmapsLast(t)
  <2>1. UnmapsLast(s)
    BY DEF MachInv, Mapping, s
  <2>2. SUFFICES ASSUME NEW k \in 1 .. Len(t), t[k].op = "bank", t[k].arg # "card"
                 PROVE  k = Len(t)
    BY DEF UnmapsLast
  <2>3. k + 1 = Len(s)
    BY <1>2, <2>1, <2>2 DEF UnmapsLast
  <2>4. QED
    BY <1>2, <2>3
<1>9. mach'.bank = "card" \/ CallsMapped(t)
  <2>1. CASE s[1].op = "bank" /\ s[1].arg = "card"
    BY <1>2, <2>1 DEF TakesStep
  <2>2. CASE s[1].op = "bank" /\ s[1].arg # "card"
    <3>1. Len(s) = 1
      BY <1>2, <2>2 DEF MachInv, Mapping, UnmapsLast, s
    <3>2. QED
      BY <1>2, <3>1 DEF CallsMapped
  <2>3. CASE s[1].op # "bank" /\ mach.bank = "card"
    BY <1>2, <2>3 DEF TakesStep
  <2>4. CASE s[1].op # "bank" /\ CallsMapped(s)
    <3>1. SUFFICES ASSUME NEW k \in 1 .. Len(t), t[k].op \in Calls
                   PROVE  \E j \in 1 .. k - 1 : t[j].op = "bank" /\ t[j].arg = "card"
      BY DEF CallsMapped
    <3>2. k + 1 \in 1 .. Len(s) /\ s[k + 1].op \in Calls
      BY <1>2, <3>1
    <3>3. PICK j \in 1 .. k + 1 - 1 : s[j].op = "bank" /\ s[j].arg = "card"
      BY <2>4, <3>2 DEF CallsMapped
    <3>4. j # 1 /\ j \in 2 .. Len(s) /\ j - 1 \in 1 .. k - 1
      BY <1>2, <2>4, <3>1, <3>3
    <3>5. t[j - 1] = s[j]
      BY <1>2, <3>4
    <3>6. QED
      BY <3>3, <3>4, <3>5
  <2>5. QED
    BY <2>1, <2>2, <2>3, <2>4 DEF MachInv, Mapping, s
<1>10. Registers' /\ Mapping'
  BY <1>4, <1>5, <1>6, <1>7, <1>8, <1>9 DEF Registers, Mapping, t
<1>11. QED
  BY <1>3, <1>10

\* The rests of the program that opens the file
LEMMA FileSteps ==
  /\ FileFrom(1) = BASIC_FILE_PROBE_STUB /\ FileFrom(11) = <<Say>>
  /\ \A p \in 1 .. 10 : /\ FileFrom(p) \in Seq(Steps) /\ FileFrom(p) # <<>>
                        /\ Head(FileFrom(p)) = BASIC_FILE_PROBE_STUB[p]
                        /\ Tail(FileFrom(p)) = FileFrom(p + 1)
<1> DEFINE P == BASIC_FILE_PROBE_STUB
<1>1. P \in Seq(Steps)
  BY ProgramsTyped
<1>2. Len(P) = 11 /\ P[11] = Say
  BY DEF BASIC_FILE_PROBE_STUB
<1> HIDE DEF P
<1>3. ASSUME NEW p \in 1 .. 11
      PROVE  /\ FileFrom(p) \in Seq(Steps) /\ Len(FileFrom(p)) = 12 - p
             /\ Head(FileFrom(p)) = P[p] /\ Tail(FileFrom(p)) = FileFrom(p + 1)
  <2>1. p \in Int /\ Len(P) \in Int /\ p \in 1 .. Len(P) /\ Len(P) \in p .. Len(P)
    BY <1>2
  <2>2. \A i \in p .. Len(P) : P[i] \in Steps
    BY <1>1, <2>1
  <2>3. SubSeq(P, p, Len(P)) \in Seq(Steps) /\ Len(SubSeq(P, p, Len(P))) = 12 - p
    BY <1>2, <2>1, <2>2, SubSeqProperties
  <2>4. /\ Head(SubSeq(P, p, Len(P))) = P[p]
        /\ Tail(SubSeq(P, p, Len(P))) = SubSeq(P, p + 1, Len(P))
    BY <1>1, <2>1, HeadTailOfSubSeq
  <2>5. QED
    BY <2>3, <2>4 DEF FileFrom, P
<1>4. FileFrom(1) = P
  BY <1>1, SubSeqFull DEF FileFrom, P
<1>5. FileFrom(11) = <<Say>>
  <2> DEFINE s == FileFrom(11)
  <2>1. 11 \in 1 .. 11
    OBVIOUS
  <2>2. s \in Seq(Steps) /\ Len(s) = 12 - 11 /\ Head(s) = P[11]
    BY <1>3, <2>1
  <2> HIDE DEF s
  <2>3. s \in Seq(Steps) /\ Len(s) = 1 /\ s[1] = Say
    BY <1>2, <2>2
  <2>4. <<Say>> \in Seq(Steps) /\ Len(<<Say>>) = 1 /\ <<Say>>[1] = Say
    BY StepsTyped
  <2>5. s = <<Say>>
    BY <2>3, <2>4, SeqEqual
  <2>6. QED
    BY <2>5 DEF s
<1>6. ASSUME NEW p \in 1 .. 10
      PROVE  /\ FileFrom(p) \in Seq(Steps) /\ FileFrom(p) # <<>>
             /\ Head(FileFrom(p)) = P[p] /\ Tail(FileFrom(p)) = FileFrom(p + 1)
  <2>1. p \in 1 .. 11
    OBVIOUS
  <2>2. /\ FileFrom(p) \in Seq(Steps) /\ Len(FileFrom(p)) = 12 - p
        /\ Head(FileFrom(p)) = P[p] /\ Tail(FileFrom(p)) = FileFrom(p + 1)
    BY <1>3, <2>1
  <2>3. FileFrom(p) # <<>>
    BY <2>2
  <2>4. QED
    BY <2>2, <2>3
<1>7. QED
  BY <1>4, <1>5, <1>6 DEF P

\* What these steps are
LEMMA FileOps ==
  LET P == BASIC_FILE_PROBE_STUB
  IN /\ \A p \in 1 .. 10 : /\ P[p].op = "vector" <=> p \in {4, 8, 10}
                           /\ P[p].op \in Branching <=> p \in {5, 9}
                           /\ P[p].op # "enter"
     /\ P[4].arg = "open" /\ P[8].arg = "read" /\ P[10].arg = "close"
     /\ P[5].op = "opened" /\ P[5].else = <<Say>>
     /\ P[9].op = "marked" /\ P[9].else = <<Vector("close"), Say>>
     /\ Say.op = "say" /\ Vector("close").op = "vector" /\ Vector("close").arg = "close"
BY DEF BASIC_FILE_PROBE_STUB, PathFixed, Say, DataZero, Vector, Unless, Step, Branching

\* A step that is neither a call by a vector nor a branch leaves the file as it is.
LEMMA FileStays ==
  ASSUME MachInv, ~Idle, mach'.rest = Tail(mach.rest), mach'.open = mach.open,
         Now.op \notin Branching \cup {"vector"}
  PROVE  FileClosed'
<1>1. mach.rest \in Seq(Steps) /\ mach.rest # <<>> /\ Now = mach.rest[1]
  BY TailOf DEF MachInv, MachType, Idle, Now
<1>2. CASE ~mach.open /\ OpensNone(mach.rest)
  <2>1. OpensNone(mach'.rest)
    BY <1>1, <1>2, TailOf DEF OpensNone
  <2>2. QED
    BY <1>2, <2>1 DEF FileClosed
<1>3. ASSUME NEW p \in 1 .. 10, mach.rest = FileFrom(p),
             mach.open <=> (p > 5 \/ (p = 5 /\ mach.result = "opened"))
      PROVE  FileClosed'
  <2>1. Now = BASIC_FILE_PROBE_STUB[p] /\ mach'.rest = FileFrom(p + 1)
    BY <1>3, FileSteps DEF Now
  <2>2. p \in {1, 2, 3, 6, 7}
    BY <2>1, FileOps
  <2>3. p + 1 \in 1 .. 10 /\ (mach'.open <=> p + 1 > 5) /\ p + 1 # 5
    BY <1>3, <2>2
  <2>4. QED
    BY <2>1, <2>3 DEF FileClosed
<1>4. CASE mach.rest = <<Vector("close"), Say>>
  <2>1. Now = Vector("close")
    BY <1>1, <1>4
  <2>2. QED
    BY <2>1, FileOps
<1>5. QED
  BY <1>2, <1>3, <1>4 DEF MachInv, FileClosed

\* What the next step may be
LEMMA NowTyped ==
  ASSUME MachInv, ~Idle
  PROVE  /\ mach.rest \in Seq(Steps) /\ mach.rest # <<>> /\ Now = mach.rest[1] /\ Now \in Steps
         /\ 1 \in 1 .. Len(mach.rest) /\ Tail(mach.rest) \in Seq(Steps)
         /\ Now.op = "bank" => Now.arg \in {"rom", "card"}
         /\ Now.op = "lcd" => Now.arg \in {"menu", "basic"}
         /\ Now.op = "flag" => Now.arg \in {"0", "1"}
         /\ Now.arg \in StepArgs
         /\ Now.op \in Branching => Now.else \in {<<Say>>, <<Vector("close"), Say>>}
<1>1. mach.rest \in Seq(Steps) /\ mach.rest # <<>>
  BY DEF MachInv, MachType, Idle
<1>2. /\ Now = mach.rest[1] /\ Now \in Steps /\ 1 \in 1 .. Len(mach.rest)
      /\ Tail(mach.rest) \in Seq(Steps)
  BY <1>1, TailOf DEF Now
<1>3. Now.arg \in StepArgs
  BY <1>2 DEF Steps
<1>4. Fits(mach.rest, page)
  BY DEF MachInv, Mapping
<1>5. QED
  BY <1>1, <1>2, <1>3, <1>4 DEF Fits

\* The steps that go on with the next one keep the invariant.
LEMMA PlainSteps ==
  ASSUME MachInv, OutPort \/ SetFlag \/ SetData \/ Loads \/ CallPage
  PROVE  MachInv'
<1> DEFINE M == [rest : Seq(Steps), bank : {"rom", "card"}, lcd : {"menu", "basic"},
                 flag : {"0", "1"}, ds : StepArgs, open : BOOLEAN,
                 result : {"none", "opened", "marked", "loaded", "fails"}]
           R == Tail(mach.rest)
<1>1. ~Idle /\ page' = page
  BY DEF OutPort, SetFlag, SetData, Loads, AtLoader, CallPage, At, Goes
<1>2. /\ mach \in M /\ R \in Seq(Steps) /\ Now.arg \in StepArgs
      /\ Now.op = "bank" => Now.arg \in {"rom", "card"}
      /\ Now.op = "lcd" => Now.arg \in {"menu", "basic"}
      /\ Now.op = "flag" => Now.arg \in {"0", "1"}
  BY <1>1, NowTyped DEF MachInv, MachType
<1> HIDE DEF R
<1>3. CASE OutPort
  <2>1. CASE Now.op = "bank"
    <3>1. mach' = [mach EXCEPT !.bank = Now.arg, !.rest = R]
      BY <1>2, <1>3, <2>1 DEF OutPort, Goes, R
    <3>2. TakesStep /\ mach'.rest = Tail(mach.rest) /\ mach'.open = mach.open
      BY <1>1, <1>2, <2>1, <3>1 DEF TakesStep, SetsData, R
    <3>3. MachType' /\ Registers' /\ Mapping'
      BY <1>1, <3>2, StepKeeps
    <3>4. FileClosed'
      BY <1>1, <2>1, <3>2, FileStays DEF Branching
    <3>5. QED
      BY <3>3, <3>4 DEF MachInv
  <2>2. CASE Now.op = "lcd"
    <3>1. mach' = [mach EXCEPT !.lcd = Now.arg, !.rest = R]
      BY <1>2, <1>3, <2>2 DEF OutPort, Goes, R
    <3>2. TakesStep /\ mach'.rest = Tail(mach.rest) /\ mach'.open = mach.open
      BY <1>1, <1>2, <2>2, <3>1 DEF TakesStep, SetsData, R
    <3>3. MachType' /\ Registers' /\ Mapping'
      BY <1>1, <3>2, StepKeeps
    <3>4. FileClosed'
      BY <1>1, <2>2, <3>2, FileStays DEF Branching
    <3>5. QED
      BY <3>3, <3>4 DEF MachInv
  <2>3. QED
    BY <1>3, <2>1, <2>2 DEF OutPort, At, Now
<1>4. CASE SetFlag
  <2>1. Now.op = "flag" /\ mach' = [mach EXCEPT !.flag = Now.arg, !.rest = R]
    BY <1>2, <1>4 DEF SetFlag, At, Now, Goes, R
  <2>2. TakesStep /\ mach'.rest = Tail(mach.rest) /\ mach'.open = mach.open
    BY <1>1, <1>2, <2>1 DEF TakesStep, SetsData, R
  <2>3. MachType' /\ Registers' /\ Mapping'
    BY <1>1, <2>2, StepKeeps
  <2>4. FileClosed'
    BY <1>1, <2>1, <2>2, FileStays DEF Branching
  <2>5. QED
    BY <2>3, <2>4 DEF MachInv
<1>5. CASE SetData
  <2>1. Now.op \in SetsData /\ mach' = [mach EXCEPT !.ds = Now.arg, !.rest = R]
    BY <1>2, <1>5 DEF SetData, At, Now, Goes, R, SetsData
  <2>2. TakesStep /\ mach'.rest = Tail(mach.rest) /\ mach'.open = mach.open
    BY <1>1, <1>2, <2>1 DEF TakesStep, SetsData, R
  <2>3. MachType' /\ Registers' /\ Mapping'
    BY <1>1, <2>2, StepKeeps
  <2>4. FileClosed'
    BY <1>1, <2>1, <2>2, FileStays DEF Branching, SetsData
  <2>5. QED
    BY <2>3, <2>4 DEF MachInv
<1>6. CASE Loads
  <2>1. /\ Now.op \in {"load", "slot"}
        /\ \E r \in {"loaded", "fails"} : mach' = [mach EXCEPT !.result = r, !.rest = R]
    BY <1>2, <1>6 DEF Loads, AtLoader, At, Now, Goes, R
  <2>2. TakesStep /\ mach'.rest = Tail(mach.rest) /\ mach'.open = mach.open
    BY <1>1, <1>2, <2>1 DEF TakesStep, SetsData, R
  <2>3. MachType' /\ Registers' /\ Mapping'
    BY <1>1, <2>2, StepKeeps
  <2>4. FileClosed'
    BY <1>1, <2>1, <2>2, FileStays DEF Branching
  <2>5. QED
    BY <2>3, <2>4 DEF MachInv
<1>7. CASE CallPage
  <2>1. Now.op \in {"slot", "trampoline", "basic", "show"} /\ mach' = [mach EXCEPT !.rest = R]
    BY <1>2, <1>7 DEF CallPage, At, Now, Goes, R
  <2>2. TakesStep /\ mach'.rest = Tail(mach.rest) /\ mach'.open = mach.open
    BY <1>1, <1>2, <2>1 DEF TakesStep, SetsData, R
  <2>3. MachType' /\ Registers' /\ Mapping'
    BY <1>1, <2>2, StepKeeps
  <2>4. FileClosed'
    BY <1>1, <2>1, <2>2, FileStays DEF Branching
  <2>5. QED
    BY <2>3, <2>4 DEF MachInv
<1>8. QED
  BY <1>3, <1>4, <1>5, <1>6, <1>7

\* A reset leaves the machine as it was at first.
LEMMA ResetSteps ==
  ASSUME LoadResets
  PROVE  MachInv'
<1>1. mach' = [rest |-> <<>>, bank |-> "rom", lcd |-> "menu", flag |-> "0", ds |-> "zero",
               open |-> FALSE, result |-> "none"]
  BY DEF LoadResets, Menu
<1>2. MachType'
  BY <1>1 DEF MachType, StepArgs
<1>3. Registers' /\ Mapping' /\ FileClosed'
  <2>1. Len(mach'.rest) = 0
    BY <1>1
  <2>2. QED
    BY <1>1, <2>1 DEF Registers, Hands, Ends, Without, BranchesFirst, Mapping, Fits, UnmapsLast,
                      CallsMapped, FileClosed, OpensNone
<1>4. QED
  BY <1>2, <1>3 DEF MachInv

\* A call of the file vectors keeps the invariant.
LEMMA VectorSteps ==
  ASSUME MachInv, CallVector
  PROVE  MachInv'
<1> DEFINE M == [rest : Seq(Steps), bank : {"rom", "card"}, lcd : {"menu", "basic"},
                 flag : {"0", "1"}, ds : StepArgs, open : BOOLEAN,
                 result : {"none", "opened", "marked", "loaded", "fails"}]
           R == Tail(mach.rest)
<1>1. ~Idle /\ Now.op = "vector"
  BY DEF CallVector, At, Now
<1>2. mach \in M /\ R \in Seq(Steps)
  BY <1>1, NowTyped DEF MachInv, MachType
<1> HIDE DEF R
<1>3. PICK o \in BOOLEAN, r \in {"none", "opened", "marked", "loaded", "fails"} :
        /\ mach' = [mach EXCEPT !.open = o, !.result = r, !.rest = R] /\ page' = page
        /\ Now.arg = "open" => (o <=> r = "opened")
        /\ Now.arg = "close" => ~o
        /\ Now.arg \notin {"open", "close"} => o = mach.open
  <2>1. CASE Now.arg = "open"
    <3>1. PICK got \in {Exists(vol.root, "BASIC.BAS"), FALSE} :
            Goes([mach EXCEPT !.open = got, !.result = IF got THEN "opened" ELSE "fails"])
      BY <2>1 DEF CallVector
    <3>2. got \in BOOLEAN
      BY DEF Exists
    <3>3. /\ mach' = [mach EXCEPT !.open = got, !.result = IF got THEN "opened" ELSE "fails", !.rest = R]
          /\ page' = page
      BY <1>2, <3>1 DEF Goes, R
    <3>4. CASE got
      BY <2>1, <3>2, <3>3, <3>4
    <3>5. CASE ~got
      BY <2>1, <3>2, <3>3, <3>5
    <3>6. QED
      BY <3>4, <3>5
  <2>2. CASE Now.arg = "read"
    <3>1. PICK r \in {"marked", "fails"} : Goes([mach EXCEPT !.result = r])
      BY <2>2 DEF CallVector
    <3>2. mach' = [mach EXCEPT !.open = mach.open, !.result = r, !.rest = R] /\ page' = page
      BY <1>2, <3>1 DEF Goes, R
    <3>3. mach.open \in BOOLEAN
      BY <1>2
    <3>4. QED
      BY <2>2, <3>2, <3>3
  <2>3. CASE Now.arg = "close"
    <3>1. Goes([mach EXCEPT !.open = FALSE])
      BY <2>3 DEF CallVector
    <3>2. mach' = [mach EXCEPT !.open = FALSE, !.result = mach.result, !.rest = R] /\ page' = page
      BY <1>2, <3>1 DEF Goes, R
    <3>3. mach.result \in {"none", "opened", "marked", "loaded", "fails"}
      BY <1>2
    <3>4. QED
      BY <2>3, <3>2, <3>3
  <2>4. CASE Now.arg \notin {"open", "read", "close"}
    <3>1. Goes(mach)
      BY <2>4 DEF CallVector
    <3>2. mach' = [mach EXCEPT !.open = mach.open, !.result = mach.result, !.rest = R] /\ page' = page
      BY <1>2, <3>1 DEF Goes, R
    <3>3. mach.open \in BOOLEAN /\ mach.result \in {"none", "opened", "marked", "loaded", "fails"}
      BY <1>2
    <3>4. QED
      BY <2>4, <3>2, <3>3
  <2>5. QED
    BY <2>1, <2>2, <2>3, <2>4
<1>4. TakesStep
  BY <1>1, <1>2, <1>3 DEF TakesStep, SetsData, R
<1>5. MachType' /\ Registers' /\ Mapping'
  BY <1>1, <1>4, StepKeeps
<1>6. mach'.rest = Tail(mach.rest) /\ mach'.open = o /\ mach'.result = r
  BY <1>2, <1>3 DEF R
<1>7. mach.rest \in Seq(Steps) /\ mach.rest # <<>> /\ Now = mach.rest[1] /\ 1 \in 1 .. Len(mach.rest)
  BY <1>1, NowTyped
<1>8. FileClosed'
  <2>1. CASE ~mach.open /\ OpensNone(mach.rest)
    <3>1. Now.arg # "open"
      BY <1>1, <1>7, <2>1 DEF OpensNone
    <3>2. ~o
      BY <1>3, <2>1, <3>1
    <3>3. OpensNone(mach'.rest)
      BY <1>6, <1>7, <2>1, TailOf DEF OpensNone
    <3>4. QED
      BY <1>6, <3>2, <3>3 DEF FileClosed
  <2>2. ASSUME NEW p \in 1 .. 10, mach.rest = FileFrom(p),
               mach.open <=> (p > 5 \/ (p = 5 /\ mach.result = "opened"))
        PROVE  FileClosed'
    <3>1. Now = BASIC_FILE_PROBE_STUB[p] /\ mach'.rest = FileFrom(p + 1)
      BY <1>6, <2>2, FileSteps DEF Now
    <3>2. p \in {4, 8, 10}
      BY <1>1, <3>1, FileOps
    <3>3. CASE p = 4
      <4>1. Now.arg = "open"
        BY <3>1, <3>3, FileOps
      <4>2. mach'.rest = FileFrom(5) /\ 5 \in 1 .. 10
        BY <3>1, <3>3
      <4>3. mach'.open <=> (5 > 5 \/ (5 = 5 /\ mach'.result = "opened"))
        BY <1>3, <1>6, <4>1
      <4>4. QED
        BY <4>2, <4>3 DEF FileClosed
    <3>4. CASE p = 8
      <4>1. Now.arg = "read"
        BY <3>1, <3>4, FileOps
      <4>2. mach'.rest = FileFrom(9) /\ 9 \in 1 .. 10
        BY <3>1, <3>4
      <4>3. mach'.open <=> (9 > 5 \/ (9 = 5 /\ mach'.result = "opened"))
        BY <1>3, <1>6, <2>2, <3>4, <4>1
      <4>4. QED
        BY <4>2, <4>3 DEF FileClosed
    <3>5. CASE p = 10
      <4>1. Now.arg = "close"
        BY <3>1, <3>5, FileOps
      <4>2. mach'.rest = <<Say>>
        BY <3>1, <3>5, FileSteps
      <4>3. OpensNone(<<Say>>)
        BY FileOps DEF OpensNone
      <4>4. QED
        BY <1>3, <1>6, <4>1, <4>2, <4>3 DEF FileClosed
    <3>6. QED
      BY <3>2, <3>3, <3>4, <3>5
  <2>3. CASE mach.open /\ mach.rest = <<Vector("close"), Say>>
    <3>1. Now.arg = "close"
      BY <1>7, <2>3, FileOps
    <3>2. mach'.rest = <<Say>>
      BY <1>6, <2>3
    <3>3. OpensNone(<<Say>>)
      BY FileOps DEF OpensNone
    <3>4. QED
      BY <1>3, <1>6, <3>1, <3>2, <3>3 DEF FileClosed
  <2>4. QED
    BY <2>1, <2>2, <2>3 DEF MachInv, FileClosed
<1>9. QED
  BY <1>5, <1>8 DEF MachInv

\* Where the steps of two parts in sequence are
LEMMA Concat ==
  ASSUME NEW s \in Seq(Steps), NEW t \in Seq(Steps)
  PROVE  /\ s \o t \in Seq(Steps) /\ Len(s \o t) = Len(s) + Len(t)
         /\ Len(s) \in Nat /\ Len(t) \in Nat
         /\ \A k \in 1 .. Len(s) : (s \o t)[k] = s[k]
         /\ \A k \in 1 .. Len(s) + Len(t) : k > Len(s) => /\ k - Len(s) \in 1 .. Len(t)
                                                         /\ (s \o t)[k] = t[k - Len(s)]
  OBVIOUS

\* A call into the page puts a whole routine before the steps to be done, and
\* the invariant holds.
LEMMA EnterSteps ==
  ASSUME MachInv, EnterPage
  PROVE  MachInv'
<1> DEFINE s == mach.rest
           t == Tail(s)
           r == Routine(page.ff00).steps
<1>1. /\ ~Idle /\ Now.op = "enter"
      /\ mach' = [mach EXCEPT !.rest = r \o t] /\ page' = page
  BY DEF EnterPage, At, Now
<1>2. s \in Seq(Steps) /\ s # <<>> /\ Now = s[1] /\ 1 \in 1 .. Len(s) /\ Now.arg \in StepArgs
  BY <1>1, NowTyped
<1>3. /\ t \in Seq(Steps) /\ Len(s) \in Nat \ {0} /\ Len(t) = Len(s) - 1
      /\ \A k \in 1 .. Len(t) : k + 1 \in 1 .. Len(s) /\ t[k] = s[k + 1]
      /\ \A k \in 2 .. Len(s) : k - 1 \in 1 .. Len(t) /\ t[k - 1] = s[k]
  BY <1>2, TailOf
<1>4. Inner(r, page) /\ KeepsPage(r)
  <2>1. page.ff00 \in {"basic-exec", "basic-probe", "basic-steps", "smoke-exec", "f200-smoke"}
    BY <1>1, <1>2 DEF MachInv, Mapping, Fits
  <2>2. QED
    BY <2>1, RoutineInner
<1> HIDE DEF s, t, r
<1> DEFINE u == r \o t
<1>5. r \in Seq(Steps) /\ u \in Seq(Steps)
  BY <1>3, <1>4 DEF Inner
<1>6. /\ Len(u) = Len(r) + Len(t) /\ Len(r) \in Nat /\ Len(t) \in Nat
      /\ \A k \in 1 .. Len(u) : \/ k \in 1 .. Len(r) /\ u[k] = r[k]
                                \/ k - Len(r) \in 1 .. Len(t) /\ u[k] = t[k - Len(r)] /\ k > Len(r)
  <2>1. /\ Len(u) = Len(r) + Len(t) /\ Len(r) \in Nat /\ Len(t) \in Nat
        /\ \A k \in 1 .. Len(r) : u[k] = r[k]
        /\ \A k \in 1 .. Len(r) + Len(t) : k > Len(r) => /\ k - Len(r) \in 1 .. Len(t)
                                                        /\ u[k] = t[k - Len(r)]
    BY <1>3, <1>5, Concat
  <2> HIDE DEF u
  <2>2. ASSUME NEW k \in 1 .. Len(u)
        PROVE  \/ k \in 1 .. Len(r) /\ u[k] = r[k]
               \/ k - Len(r) \in 1 .. Len(t) /\ u[k] = t[k - Len(r)] /\ k > Len(r)
    <3>1. CASE k <= Len(r)
      BY <2>1, <3>1
    <3>2. CASE k > Len(r)
      BY <2>1, <3>2
    <3>3. QED
      BY <2>1, <3>1, <3>2
  <2>3. QED
    BY <2>1, <2>2
<1>7. /\ mach'.rest = u /\ mach'.bank = mach.bank /\ mach'.lcd = mach.lcd /\ mach'.flag = mach.flag
      /\ mach'.ds = mach.ds /\ mach'.open = mach.open /\ mach'.result = mach.result
      /\ MachType'
  BY <1>1, <1>5 DEF MachInv, MachType
\* The routine puts the registers back, or leaves them to the rest.
<1>8. ASSUME NEW ops, NEW arg, NEW have, Hands(s, ops, arg, have), "enter" \notin ops,
             Without(r, ops) \/ Ends(r, ops, arg)
      PROVE  Hands(u, ops, arg, have)
  <2>1. Hands(t, ops, arg, have)
    <3>1. have = IF s[1].op \in ops THEN s[1].arg ELSE have
      BY <1>1, <1>2, <1>8
    <3>2. Hands(Tail(s), ops, arg, have)
      BY <1>2, <1>8, <3>1, TailHands
    <3>3. QED
      BY <3>2 DEF t
  <2>2. CASE Without(u, ops)
    <3>1. Without(t, ops)
      <4>1. SUFFICES ASSUME NEW k \in 1 .. Len(t) PROVE t[k].op \notin ops
        BY DEF Without
      <4>2. Len(r) + k \in 1 .. Len(u) /\ u[Len(r) + k] = t[k]
        BY <1>3, <1>5, <1>6
      <4>3. QED
        BY <2>2, <4>2 DEF Without
    <3>2. have = arg
      BY <2>1, <3>1 DEF Hands, Ends, Without
    <3>3. QED
      BY <2>2, <3>2 DEF Hands
  <2>3. Without(t, ops) \/ Ends(t, ops, arg)
    BY <2>1 DEF Hands
  <2>4. Without(u, ops) \/ Ends(u, ops, arg)
    <3>1. r \in Seq(Steps) /\ t \in Seq(Steps)
      BY <1>3, <1>5
    <3>2. QED
      BY <1>8, <2>3, <3>1, ConcatEnds
  <2>5. QED
    BY <2>2, <2>4 DEF Hands
<1>9. /\ Hands(u, {"lcd"}, "menu", mach.lcd) /\ Hands(u, {"flag"}, "0", mach.flag)
      /\ Hands(u, SetsData, "zero", mach.ds)
  <2>1. /\ Hands(s, {"lcd"}, "menu", mach.lcd) /\ Hands(s, {"flag"}, "0", mach.flag)
        /\ Hands(s, SetsData, "zero", mach.ds)
    BY DEF MachInv, Registers, s
  <2>2. "enter" \notin {"lcd"} /\ "enter" \notin {"flag"} /\ "enter" \notin SetsData
    BY DEF SetsData
  <2>3. PutsBack(r)
    BY <1>4 DEF Inner
  <2> HIDE DEF u
  <2>4. Hands(u, {"lcd"}, "menu", mach.lcd)
    BY <1>8, <2>1, <2>2, <2>3 DEF PutsBack
  <2>5. Hands(u, {"flag"}, "0", mach.flag)
    BY <1>8, <2>1, <2>2, <2>3 DEF PutsBack
  <2>6. Hands(u, SetsData, "zero", mach.ds)
    BY <1>8, <2>1, <2>2, <2>3 DEF PutsBack
  <2>7. QED
    BY <2>4, <2>5, <2>6
<1> HIDE DEF u
\* Neither the routine nor what comes after it branches.
<1>10. Without(t, Branching)
  <2>1. SUFFICES ASSUME NEW k \in 1 .. Len(t), t[k].op \in Branching PROVE FALSE
    BY DEF Without
  <2>2. k + 1 \in 1 .. Len(s) /\ s[k + 1].op \in Branching /\ 1 \in 1 .. k + 1
    BY <1>3, <2>1
  <2>3. s[1].op # "enter"
    BY <2>2 DEF MachInv, Registers, BranchesFirst, s
  <2>4. QED
    BY <1>1, <1>2, <2>3
<1>11. Without(u, Branching)
  BY <1>4, <1>6, <1>10 DEF Without, Inner
<1>12. BranchesFirst(u)
  BY <1>11 DEF BranchesFirst, Without
<1>13. Fits(u, page)
  <2>1. Fits(s, page)
    BY DEF MachInv, Mapping, s
  <2>2. Fits(t, page)
    BY <1>3, <2>1 DEF Fits
  <2>3. Fits(r, page)
    BY <1>4 DEF Inner
  <2>4. QED
    BY <1>6, <2>2, <2>3 DEF Fits
<1>14. mach.bank = "card"
  BY <1>1, <1>2 DEF MachInv, Mapping, CallsMapped, Calls, s
<1>15. UnmapsLast(u)
  <2>1. SUFFICES ASSUME NEW k \in 1 .. Len(u), u[k].op = "bank", u[k].arg # "card"
                 PROVE  k = Len(u)
    BY DEF UnmapsLast
  <2>2. k - Len(r) \in 1 .. Len(t) /\ u[k] = t[k - Len(r)]
    BY <1>4, <1>6, <2>1 DEF KeepsPage
  <2>3. k - Len(r) + 1 \in 1 .. Len(s) /\ u[k] = s[k - Len(r) + 1]
    BY <1>3, <2>2
  <2>4. k - Len(r) + 1 = Len(s)
    BY <2>1, <2>3 DEF MachInv, Mapping, UnmapsLast, s
  <2>5. QED
    BY <1>3, <1>6, <2>4
<1>16. FileClosed'
  <2>1. CASE ~mach.open /\ OpensNone(s)
    <3>1. OpensNone(t) /\ OpensNone(r)
      BY <1>3, <1>4, <2>1 DEF OpensNone, Inner
    <3>2. OpensNone(u)
      BY <1>6, <3>1 DEF OpensNone
    <3>3. QED
      BY <1>7, <2>1, <3>2 DEF FileClosed
  <2>2. ASSUME NEW p \in 1 .. 10, s = FileFrom(p)
        PROVE  FALSE
    <3>1. Now = BASIC_FILE_PROBE_STUB[p]
      BY <2>2, FileSteps DEF Now, s
    <3>2. QED
      BY <1>1, <3>1, FileOps
  <2>3. CASE s = <<Vector("close"), Say>>
    BY <1>1, <1>2, <2>3, FileOps
  <2>4. QED
    BY <2>1, <2>2, <2>3 DEF MachInv, FileClosed, s
<1>17. QED
  BY <1>1, <1>7, <1>9, <1>11, <1>12, <1>13, <1>14, <1>15, <1>16 DEF MachInv, Registers, Mapping

\* A branch on a result goes on with the rest or with its other way, and either
\* keeps the invariant.
LEMMA BranchSteps ==
  ASSUME MachInv, Branches
  PROVE  MachInv'
<1> DEFINE elsewhere == IF Now.op = "fails" THEN mach.result = "fails" ELSE mach.result # Now.op
           R == Tail(mach.rest)
<1>1. /\ ~Idle /\ Now.op \in Branching /\ page' = page
      /\ mach' = [mach EXCEPT !.rest = IF elsewhere THEN Now.else ELSE R, !.result = "none"]
  BY DEF Branches, At, Now, Branching
<1>2. /\ mach.rest \in Seq(Steps) /\ mach.rest # <<>> /\ Now = mach.rest[1] /\ Now \in Steps
      /\ 1 \in 1 .. Len(mach.rest) /\ R \in Seq(Steps)
      /\ Now.else \in {<<Say>>, <<Vector("close"), Say>>}
  BY <1>1, NowTyped
<1>3. mach.lcd = "menu" /\ mach.flag = "0"
  BY <1>1, <1>2 DEF MachInv, Registers, Without
<1> HIDE DEF R, elsewhere
\* The steps taken instead
<1>4. ASSUME NEW s \in {<<Say>>, <<Vector("close"), Say>>}
      PROVE  /\ s \in Seq(Steps)
             /\ Without(s, {"lcd"}) /\ Without(s, {"flag"}) /\ Ends(s, SetsData, "zero")
             /\ Without(s, Branching) /\ BranchesFirst(s)
             /\ Fits(s, page) /\ UnmapsLast(s) /\ CallsMapped(s) /\ OpensNone(s)
  <2>1. s \in Seq(Steps)
    <3>1. "close" \in StepArgs
      BY DEF StepArgs
    <3>2. Say \in Steps /\ Vector("close") \in Steps
      BY <3>1, StepsTyped
    <3>3. <<Say>> \in Seq(Steps) /\ <<Vector("close"), Say>> \in Seq(Steps)
      BY <3>2
    <3>4. QED
      BY <3>3
  <2>2. /\ Say = [op |-> "say", arg |-> "zero", field |-> "text", else |-> <<>>]
        /\ Vector("close") = [op |-> "vector", arg |-> "close", field |-> "none", else |-> <<>>]
    BY DEF Say, Vector, Step
  <2>3. \/ Len(s) = 1 /\ s[1] = Say
        \/ Len(s) = 2 /\ s[1] = Vector("close") /\ s[2] = Say
    OBVIOUS
  <2>4. \A k \in 1 .. Len(s) : s[k].op \in {"say", "vector"} /\ s[k].arg # "open"
    BY <2>2, <2>3
  <2>5. /\ Without(s, {"lcd"}) /\ Without(s, {"flag"}) /\ Without(s, Branching) /\ BranchesFirst(s)
        /\ Fits(s, page) /\ UnmapsLast(s) /\ CallsMapped(s) /\ OpensNone(s)
    BY <2>4 DEF Without, Branching, BranchesFirst, Fits, UnmapsLast, CallsMapped, Calls, OpensNone
  <2>6. Ends(s, SetsData, "zero")
    <3>1. Len(s) \in 1 .. Len(s) /\ s[Len(s)].op \in SetsData /\ s[Len(s)].arg = "zero"
      BY <2>2, <2>3 DEF SetsData
    <3>2. QED
      BY <2>1, <3>1 DEF Ends
  <2>7. QED
    BY <2>1, <2>5, <2>6
<1>5. CASE elsewhere
  <2> DEFINE s == Now.else
  <2>1. mach' = [mach EXCEPT !.rest = s, !.result = "none"]
    BY <1>1, <1>5
  <2> HIDE DEF s
  <2>2. /\ s \in Seq(Steps)
        /\ Without(s, {"lcd"}) /\ Without(s, {"flag"}) /\ Ends(s, SetsData, "zero")
        /\ Without(s, Branching) /\ BranchesFirst(s)
        /\ Fits(s, page) /\ UnmapsLast(s) /\ CallsMapped(s) /\ OpensNone(s)
    BY <1>2, <1>4 DEF s
  <2>3. /\ MachType' /\ mach'.rest = s /\ mach'.lcd = "menu" /\ mach'.flag = "0"
        /\ mach'.open = mach.open
    BY <1>3, <2>1, <2>2 DEF MachInv, MachType
  <2>4. Registers' /\ Mapping'
    BY <1>1, <2>2, <2>3 DEF Registers, Mapping, Hands
  <2>5. FileClosed'
    <3>1. CASE ~mach.open
      BY <2>2, <2>3, <3>1 DEF FileClosed
    <3>2. CASE mach.open
      <4>1. mach.rest # <<Vector("close"), Say>>
        <5>1. SUFFICES ASSUME mach.rest = <<Vector("close"), Say>> PROVE FALSE
          OBVIOUS
        <5>2. Now = Vector("close")
          BY <1>2, <5>1
        <5>3. QED
          BY <1>1, <5>2, FileOps DEF Branching
      <4>2. PICK p \in 1 .. 10 : /\ mach.rest = FileFrom(p)
                                 /\ mach.open <=> (p > 5 \/ (p = 5 /\ mach.result = "opened"))
        BY <3>2, <4>1 DEF MachInv, FileClosed
      <4>3. Now = BASIC_FILE_PROBE_STUB[p]
        BY <4>2, FileSteps DEF Now
      <4>4. p \in {5, 9}
        BY <1>1, <4>3, FileOps
      <4>5. p # 5
        <5>1. SUFFICES ASSUME p = 5 PROVE FALSE
          OBVIOUS
        <5>2. mach.result = "opened" /\ Now.op = "opened"
          BY <3>2, <4>2, <4>3, <5>1, FileOps
        <5>3. QED
          BY <1>5, <5>2 DEF elsewhere
      <4>6. s = <<Vector("close"), Say>>
        BY <4>3, <4>4, <4>5, FileOps DEF s
      <4>7. QED
        BY <2>3, <3>2, <4>6 DEF FileClosed
    <3>3. QED
      BY <3>1, <3>2
  <2>6. QED
    BY <2>3, <2>4, <2>5 DEF MachInv
<1>6. CASE ~elsewhere
  <2>1. mach' = [mach EXCEPT !.rest = R, !.result = "none"]
    BY <1>1, <1>6
  <2>2. TakesStep /\ mach'.rest = R /\ mach'.open = mach.open
    BY <1>1, <1>2, <2>1 DEF TakesStep, SetsData, Branching, R, MachInv, MachType
  <2>3. MachType' /\ Registers' /\ Mapping'
    BY <1>1, <2>2, StepKeeps
  <2>4. FileClosed'
    <3>1. CASE ~mach.open /\ OpensNone(mach.rest)
      <4>1. OpensNone(R)
        BY <1>2, <3>1, TailOf DEF OpensNone, R
      <4>2. QED
        BY <2>2, <3>1, <4>1 DEF FileClosed
    <3>2. ASSUME NEW p \in 1 .. 10, mach.rest = FileFrom(p),
                 mach.open <=> (p > 5 \/ (p = 5 /\ mach.result = "opened"))
          PROVE  FileClosed'
      <4>1. Now = BASIC_FILE_PROBE_STUB[p] /\ R = FileFrom(p + 1)
        BY <3>2, FileSteps DEF Now, R
      <4>2. p \in {5, 9}
        BY <1>1, <4>1, FileOps
      <4>3. p = 5 => mach.result = "opened"
        BY <1>6, <4>1, FileOps DEF elsewhere
      <4>4. p + 1 \in 1 .. 10 /\ p + 1 > 5 /\ mach'.open
        BY <2>2, <3>2, <4>2, <4>3
      <4>5. QED
        BY <2>2, <4>1, <4>4 DEF FileClosed
    <3>3. CASE mach.rest = <<Vector("close"), Say>>
      <4>1. Now = Vector("close")
        BY <1>2, <3>3
      <4>2. QED
        BY <1>1, <4>1, FileOps DEF Branching
    <3>4. QED
      BY <3>1, <3>2, <3>3 DEF MachInv, FileClosed
  <2>5. QED
    BY <2>3, <2>4 DEF MachInv
<1>7. QED
  BY <1>5, <1>6

------------------------------------------------------------------------------
(* The card and the machine together                                         *)

\* The inductive invariant of Spec
CardInv == VolumeInv /\ PlainFiles /\ Matched /\ MachInv

\* Nothing is left to do only with the machine as the menu has it.
LEMMA IdleAsMenu ==
  ASSUME MachInv, Idle
  PROVE  mach.lcd = "menu" /\ mach.flag = "0" /\ mach.ds = "zero" /\ ~mach.open
<1>1. Len(mach.rest) = 0
  BY DEF Idle
<1>2. mach.lcd = "menu" /\ mach.flag = "0" /\ mach.ds = "zero"
  BY <1>1 DEF MachInv, Registers, Hands, Ends
<1>3. \A p \in 1 .. 10 : mach.rest # FileFrom(p)
  BY FileSteps DEF Idle
<1>4. mach.rest # <<Vector("close"), Say>>
  BY <1>1
<1>5. QED
  BY <1>2, <1>3, <1>4 DEF MachInv, FileClosed

\* The menu starts the program that was put on the card.
LEMMA BootSteps ==
  ASSUME CardInv, Boot
  PROVE  MachInv'
<1> DEFINE x == "EROMCARD.X"
           e == Entry(vol, x)
<1>1. /\ Idle /\ Exists(vol.root, x) /\ page' = page
      /\ mach' = [mach EXCEPT !.rest = StubOf(ReadFile(vol, e)[1].kind).steps]
  BY DEF Boot
<1>2. files[x] # NoFile /\ x \in Names
  <2>1. x \in Names /\ x # "deleted"
    BY DEF Names
  <2>2. DOMAIN vol.root = 1 .. RootEntries
    BY DEF CardInv, VolumeInv, VolumeHolds, Typed
  <2>3. PICK i \in 1 .. RootEntries : vol.root[i].name = x
    BY <1>1, <2>2 DEF Exists
  <2>4. i \in Used(vol.root)
    BY <2>1, <2>3 DEF Used, NoEntry
  <2>5. files[x].name = x
    BY <2>3, <2>4 DEF CardInv, VolumeInv, VolumeHolds, Listing
  <2>6. QED
    BY <2>1, <2>5, DeletedIsNoName
<1>3. PICK kind \in Kinds : files[x] = Stub(kind) /\ page = Page(kind)
  BY <1>2 DEF CardInv, Matched
<1>4. ReadFile(vol, e) = Whole(Stub(kind))
  BY <1>2, <1>3, VolumeReads DEF CardInv, FilesRead
<1>5. Whole(Stub(kind))[1].kind = kind
  <2>1. StubSize[kind] \in Nat \ {0}
    BY FilesAssumption
  <2>2. Stub(kind) = [name |-> x, kind |-> kind, size |-> StubSize[kind]]
    BY DEF Stub, File
  <2>3. 1 \in 1 .. Stub(kind).size
    BY <2>1, <2>2
  <2>4. Whole(Stub(kind))[1] = Sector(Stub(kind), 1)
    BY <2>3 DEF Whole
  <2>5. QED
    BY <2>2, <2>4 DEF Sector
<1> DEFINE s == StubOf(kind).steps
<1>6. mach' = [mach EXCEPT !.rest = s]
  BY <1>1, <1>4, <1>5
<1>7. Starts(s, page)
  BY <1>3, ProgramStarts
<1>8. mach.lcd = "menu" /\ mach.flag = "0" /\ mach.ds = "zero" /\ ~mach.open
  BY <1>1, IdleAsMenu DEF CardInv
<1> HIDE DEF s
<1>9. /\ MachType' /\ mach'.rest = s /\ mach'.lcd = "menu" /\ mach'.flag = "0" /\ mach'.ds = "zero"
      /\ ~mach'.open
  BY <1>6, <1>7, <1>8 DEF CardInv, MachInv, MachType, Starts
<1>10. Registers'
  BY <1>7, <1>9 DEF Registers, Hands, Starts, PutsBack
<1>11. Mapping'
  BY <1>1, <1>7, <1>9 DEF Mapping, Starts
<1>12. FileClosed'
  <2>1. CASE OpensNone(s)
    BY <1>9, <2>1 DEF FileClosed
  <2>2. CASE s = BASIC_FILE_PROBE_STUB
    <3>1. s = FileFrom(1)
      BY <2>2, FileSteps
    <3>2. 1 \in 1 .. 10 /\ ~(1 > 5) /\ 1 # 5
      OBVIOUS
    <3>3. QED
      BY <1>9, <3>1, <3>2 DEF FileClosed
  <2>3. QED
    BY <1>7, <2>1, <2>2 DEF Starts
<1>13. QED
  BY <1>9, <1>10, <1>11, <1>12 DEF MachInv

\* While no program runs, the machine is what it was, whatever page is put on the card.
LEMMA IdleStays ==
  ASSUME MachInv, Idle, mach' = mach
  PROVE  MachInv'
<1>1. Len(mach.rest) = 0
  BY DEF Idle
<1>2. Mapping'
  <2>1. Fits(mach.rest, page')
    BY <1>1 DEF Fits
  <2>2. QED
    BY <2>1 DEF MachInv, Mapping
<1>3. QED
  BY <1>2 DEF MachInv, MachType, Registers, FileClosed

\* The files and the page that goes with the program
LEMMA FilesMatch ==
  ASSUME CardInv, [Next]_vars
  PROVE  PlainFiles' /\ Matched'
<1>1. DOMAIN files = Names /\ "EROMCARD.X" \in Names /\ "DW-BASIC.COD" \in Names
      /\ "BASIC.BAS" \in Names
  BY DEF CardInv, VolumeInv, VolumeHolds, Typed, Names
<1>2. ASSUME NEW file \in Saves, Save(file) PROVE PlainFiles' /\ Matched'
  <2>1. /\ file.name \in {"TEST.TXT", "DW-BASIC.COD"} /\ file.kind = "none"
        /\ files' = [files EXCEPT ![file.name] = file] /\ page' = page
    BY <1>2, FilesOfConstants DEF Save
  <2>2. files'["EROMCARD.X"] = files["EROMCARD.X"]
    BY <1>1, <2>1
  <2>3. PlainFiles'
    BY <1>1, <2>1 DEF CardInv, PlainFiles
  <2>4. QED
    BY <2>1, <2>2, <2>3 DEF CardInv, Matched
<1>3. ASSUME NEW i \in 1 .. RootEntries, Delete(i) PROVE PlainFiles' /\ Matched'
  <2>1. files' = [files EXCEPT ![vol.root[i].name] = NoFile] /\ page' = page
    BY <1>3 DEF Delete
  <2>2. NoFile.kind = "none"
    BY DEF NoFile, File
  <2>3. \A name \in Names : files'[name] \in {NoFile, files[name]}
    BY <1>1, <2>1
  <2>4. QED
    BY <1>1, <2>1, <2>2, <2>3 DEF CardInv, PlainFiles, Matched
<1>4. ASSUME NEW b \in Builds, Build(b) PROVE PlainFiles' /\ Matched'
  <2>1. /\ files' = [files EXCEPT !["EROMCARD.X"] = Stub(b.kind), !["BASIC.BAS"] = Basic(b.basic)]
        /\ page' = Page(b.kind) /\ b.kind \in Kinds
    BY <1>4, FilesOfConstants DEF Build
  <2>2. files'["EROMCARD.X"] = Stub(b.kind) /\ files'["DW-BASIC.COD"] = files["DW-BASIC.COD"]
    BY <1>1, <2>1
  <2>3. QED
    BY <2>1, <2>2 DEF CardInv, PlainFiles, Matched
<1>5. ASSUME UNCHANGED <<files, page>> PROVE PlainFiles' /\ Matched'
  BY <1>5 DEF CardInv, PlainFiles, Matched
<1>6. Boot \/ Program \/ UNCHANGED vars => UNCHANGED <<files, page>>
  BY DEF Boot, Program, OutPort, SetFlag, SetData, CallVector, Loads, LoadResets, CallPage,
         EnterPage, Branches, Goes, vars
<1>7. QED
  BY <1>2, <1>3, <1>4, <1>5, <1>6 DEF Next

\* The card and the machine keep to CardInv, whatever is saved, deleted, built and run.
THEOREM CardInvariant == Spec => []CardInv
<1>1. Init => CardInv
  <2>1. SUFFICES ASSUME Init PROVE CardInv
    OBVIOUS
  <2>2. VolumeInv
    BY <2>1, FormattedHolds DEF Init, VolumeInv
  <2>3. \A name \in Names : files[name] = NoFile
    BY <2>1 DEF Init
  <2>4. PlainFiles /\ Matched
    BY <2>3 DEF PlainFiles, Matched, NoFile, File, Names
  <2>5. mach = [rest |-> <<>>, bank |-> "rom", lcd |-> "menu", flag |-> "0", ds |-> "zero",
                open |-> FALSE, result |-> "none"]
    BY <2>1 DEF Init, Menu
  <2>6. MachType
    BY <2>5 DEF MachType, StepArgs
  <2>7. Registers /\ Mapping /\ FileClosed
    <3>1. Len(mach.rest) = 0
      BY <2>5
    <3>2. QED
      BY <2>5, <3>1 DEF Registers, Hands, Ends, Without, BranchesFirst, Mapping, Fits, UnmapsLast,
                        CallsMapped, FileClosed, OpensNone
  <2>8. QED
    BY <2>2, <2>4, <2>6, <2>7 DEF CardInv, MachInv
<1>2. CardInv /\ [Next]_vars => CardInv'
  <2>1. SUFFICES ASSUME CardInv, [Next]_vars PROVE CardInv'
    OBVIOUS
  <2>2. PlainFiles' /\ Matched'
    BY <2>1, FilesMatch
  <2>3. VolumeInv'
    BY <2>1, VolumeStep DEF CardInv
  <2>4. MachInv'
    <3>1. CASE (\E file \in Saves : Save(file)) \/ (\E i \in 1 .. RootEntries : Delete(i))
               \/ (\E b \in Builds : Build(b))
      <4>1. Idle /\ mach' = mach
        BY <3>1 DEF Save, Delete, Build
      <4>2. QED
        BY <2>1, <4>1, IdleStays DEF CardInv
    <3>2. CASE Boot
      BY <2>1, <3>2, BootSteps
    <3>3. CASE OutPort \/ SetFlag \/ SetData \/ Loads \/ CallPage
      BY <2>1, <3>3, PlainSteps DEF CardInv
    <3>4. CASE CallVector
      BY <2>1, <3>4, VectorSteps DEF CardInv
    <3>5. CASE EnterPage
      BY <2>1, <3>5, EnterSteps DEF CardInv
    <3>6. CASE Branches
      BY <2>1, <3>6, BranchSteps DEF CardInv
    <3>7. CASE LoadResets
      BY <3>7, ResetSteps
    <3>8. CASE UNCHANGED vars
      BY <2>1, <3>8 DEF vars, CardInv, MachInv, MachType, Registers, Mapping, FileClosed
    <3>9. QED
      BY <2>1, <3>1, <3>2, <3>3, <3>4, <3>5, <3>6, <3>7, <3>8 DEF Next, Program
  <2>5. QED
    BY <2>2, <2>3, <2>4 DEF CardInv
<1>3. QED
  BY <1>1, <1>2, PTL DEF Spec

\* Every file reads back as it was written, whatever has been written, deleted and built since.
THEOREM FilesReadBack == Spec => []FilesRead
<1>1. CardInv => FilesRead
  BY VolumeReads DEF CardInv
<1>2. QED
  BY <1>1, CardInvariant, PTL

\* The clusters taken are exactly those of the files, each of one file only.
THEOREM NoClusterLost == Spec => []NothingLost
<1>1. CardInv => NothingLost
  BY VolumeFull DEF CardInv
<1>2. QED
  BY <1>1, CardInvariant, PTL

\* The first-stage loader takes an image exactly if it lies in sequence.
THEOREM LoaderTakesContiguous == Spec => []CodeRunsInPlace
<1>1. CardInv => CodeRunsInPlace
  BY VolumeRunsCode DEF CardInv
<1>2. QED
  BY <1>1, CardInvariant, PTL

\* A program that calls into the page has mapped it, and finds there what it calls.
THEOREM CallsFindThePage == Spec => []CallsLand
<1>1. CardInv => CallsLand
  <2>1. SUFFICES ASSUME CardInv, At(Calls)
                 PROVE  /\ mach.bank = "card"
                        /\ Now.op = "slot" => Now.arg \in page.pocket
                        /\ Now.op = "show" => page.ff00 = "smoke-map"
                        /\ Now.op = "enter" => page.ff00 \in IF Now.arg = "basic"
                                                 THEN {"basic-exec", "basic-probe", "basic-steps"}
                                                 ELSE {"smoke-exec", "f200-smoke"}
    BY DEF CallsLand, Calls
  <2>2. ~Idle /\ Now.op \in Calls
    BY <2>1 DEF At, Now
  <2>3. Now = mach.rest[1] /\ 1 \in 1 .. Len(mach.rest)
    BY <2>1, <2>2, NowTyped DEF CardInv
  <2>4. mach.bank = "card"
    BY <2>1, <2>2, <2>3 DEF CardInv, MachInv, Mapping, CallsMapped
  <2>5. Fits(mach.rest, page)
    BY <2>1 DEF CardInv, MachInv, Mapping
  <2>6. QED
    BY <2>3, <2>4, <2>5 DEF Fits
<1>2. QED
  BY <1>1, CardInvariant, PTL

\* Every way through every program hands the machine back as the menu needs it.
THEOREM MenuGetsMachineBack == Spec => []HandsBack
<1>1. CardInv => HandsBack
  BY IdleAsMenu DEF CardInv, HandsBack
<1>2. QED
  BY <1>1, CardInvariant, PTL

\* Table, directory and machine are well formed.
THEOREM CardTyped == Spec => []TypeOK
<1>1. CardInv => TypeOK
  <2>1. SUFFICES ASSUME CardInv PROVE TypeOK
    OBVIOUS
  <2>2. DOMAIN vol.fat = Nibbles /\ \A n \in Nibbles : vol.fat[n] \in 0 .. 15
    BY <2>1 DEF CardInv, VolumeInv, VolumeHolds, Typed, Fats
  <2>3. \A i \in 1 .. RootEntries : vol.root[i] = NoEntry \/ vol.root[i].first \in Clusters
    <3>1. \A i \in Used(vol.root) : vol.root[i].first \in Clusters
      BY <2>1, EntryChain DEF CardInv
    <3>2. QED
      BY <3>1 DEF Used
  <2>4. DOMAIN vol.data = Clusters /\ DOMAIN files = Names
    BY <2>1 DEF CardInv, VolumeInv, VolumeHolds, Typed
  <2>5. /\ mach.open \in BOOLEAN /\ mach.result \in {"none", "opened", "marked", "loaded", "fails"}
        /\ mach.bank \in {"rom", "card"} /\ mach.lcd \in {"menu", "basic"} /\ mach.flag \in {"0", "1"}
    BY <2>1 DEF CardInv, MachInv, MachType
  <2>6. QED
    BY <2>2, <2>3, <2>4, <2>5 DEF TypeOK
<1>2. QED
  BY <1>1, CardInvariant, PTL
=============================================================================
