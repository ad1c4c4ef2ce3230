----------------------------- MODULE CardVolume -----------------------------
(***************************************************************************)
(* The store of the machine, on an SRAM card or built in: a FAT12 table in  *)
(* front of a root directory and the data sectors, one sector to a cluster. *)
(* The operators here are what the firmware, the Python tools that write a   *)
(* card image (build_basic_eromcard.py, install_eromcard.py) and the first-  *)
(* stage loader (eromcard_gw.asm) do with such a volume                      *)
(*   [fat  |-> nibble number -> 0 .. 15,                                     *)
(*    root |-> sequence of directory entries,                                *)
(*    data |-> cluster -> what the sector holds].                            *)
(* The table is a row of nibbles, three to an entry, so that entries share   *)
(* bytes as they do in the image.  Sizes are in sectors.                     *)
(***************************************************************************)
EXTENDS Naturals, Sequences, FiniteSets

CONSTANTS
  Geometry,      \* 32 KiB units of the volume (a unit here: 2 * SectorSize sectors)
  SectorSize,    \* bytes of a sector
  RootSectors,   \* sectors of the root directory
  RootEntries,   \* entries of the root directory: the builder looks at all
  InstallEntries, \* entries install_eromcard.py looks at
  LoaderEntries, \* entries the first-stage loader looks at
  CodSize        \* sectors of DW-BASIC.COD, as the loader was assembled

ASSUME VolumeAssumption ==
  /\ {Geometry, SectorSize, RootSectors, RootEntries, CodSize} \subseteq Nat \ {0}
  /\ LoaderEntries \in 1 .. RootEntries /\ InstallEntries \in 1 .. RootEntries
  /\ 2 * SectorSize * Geometry > 3 * Geometry + RootSectors + 1

\* One past the last cluster
MaxCluster == 2 * SectorSize * Geometry - (3 * Geometry + RootSectors - 1)

Clusters == 2 .. MaxCluster - 1

\* An entry has 12 bits, and a link from FF8 on ends a chain: volumes of up to 16 units.
ASSUME EntriesAssumption == MaxCluster <= 4088

\* The table fills 3 * Geometry sectors in front of the root directory.
Nibbles == 0 .. 6 * Geometry * SectorSize - 1

EndOfChain == 4095

------------------------------------------------------------------------------
(* The table                                                                 *)

GetFat(fat, c) == fat[3 * c] + 16 * fat[3 * c + 1] + 256 * fat[3 * c + 2]

\* Nibbles behind the table are those of the directory: that damage is left out.
Put(fat, n, v) ==
  [m \in DOMAIN fat |-> CASE m = n     -> v % 16
                          [] m = n + 1 -> (v \div 16) % 16
                          [] m = n + 2 -> v \div 256
                          [] OTHER     -> fat[m]]

\* Without the masks: the half of a byte that is another entry's becomes 0.
SetFatWholeBytes(fat, c, v, copies) ==
  Put(IF c % 2 = 1 THEN [fat EXCEPT ![3 * c - 1] = 0] ELSE [fat EXCEPT ![3 * c + 3] = 0],
      3 * c, v)

\* The builder writes one entry; the installer writes it three times, Geometry sectors apart.
SetFat(fat, c, v, copies) ==
  LET done[k \in 0 .. copies] ==
        IF k = 0 THEN fat ELSE Put(done[k - 1], 3 * c + 2 * (k - 1) * Geometry * SectorSize, v)
  IN done[copies]

Free(fat) == {c \in Clusters : GetFat(fat, c) = 0}

\* The clusters a walk from c comes by: the k-th for k = 1, 2, ...
Walk(fat, c) ==
  LET at[k \in 1 .. MaxCluster] ==
        IF k = 1 THEN c
        ELSE IF at[k - 1] \in Clusters THEN GetFat(fat, at[k - 1]) ELSE at[k - 1]
  IN at

Longest(a, b) == IF a >= b THEN a ELSE b

Needed(size) == Longest(1, size)

------------------------------------------------------------------------------
(* Directory, allocation, writing                                            *)

NoEntry == [name |-> "deleted", first |-> 0, size |-> 0]

Exists(root, name) == \E i \in DOMAIN root : root[i].name = name

Lowest(S) == CHOOSE i \in S : \A j \in S : i <= j

FindRootReplacing(root, name, entries) ==
  LET hits == {i \in 1 .. entries : root[i].name \in {"deleted", name}}
  IN IF hits = {} THEN 0 ELSE Lowest(hits)

\* find_root_entry: the first entry that is free or has the name, of those the program looks
\* at; 0 is its ValueError, for a name that is there and for a full directory.
FindRootEntry(root, name, entries) ==
  LET hits == {i \in 1 .. entries : root[i].name \in {"deleted", name}}
  IN IF hits = {} \/ root[Lowest(hits)].name = name THEN 0 ELSE Lowest(hits)

\* The n lowest members of S, in order
FirstOf(S, n) == [k \in 1 .. n |-> CHOOSE c \in S : Cardinality({d \in S : d < c}) = k - 1]

AllocateToMax(fat, size) ==
  LET free == Free(fat) \cup {MaxCluster}
  IN IF Cardinality(free) < Needed(size) THEN <<>>
     ELSE FirstOf(free, Needed(size))

\* allocate_clusters: the first ones that are free; <<>> is its ValueError
Allocate(fat, size) ==
  IF Cardinality(Free(fat)) < Needed(size) THEN <<>>
  ELSE FirstOf(Free(fat), Needed(size))

LinkOf(clusters, k) == IF k < Len(clusters) THEN clusters[k + 1] ELSE EndOfChain

Linked(fat, clusters, copies) ==
  LET made[k \in 0 .. Len(clusters)] ==
        IF k = 0 THEN fat ELSE SetFat(made[k - 1], clusters[k], LinkOf(clusters, k), copies)
  IN made[Len(clusters)]

\* What sector n of a file holds
Sector(file, n) == [name |-> file.name, kind |-> file.kind, size |-> file.size, n |-> n]
Stale   == Sector([name |-> "deleted", kind |-> "none", size |-> 0], 0)
File(name, kind, size) == [name |-> name, kind |-> kind, size |-> size]

CanWrite(v, file, entries) ==
  FindRootEntry(v.root, file.name, entries) # 0 /\ Allocate(v.fat, file.size) # <<>>

\* write_file of the builder, install_file of the installer
WriteFile(v, file, copies, entries) ==
  LET entry    == FindRootEntry(v.root, file.name, entries)
      clusters == Allocate(v.fat, file.size)
  IN [fat  |-> Linked(v.fat, clusters, copies),
      root |-> [v.root EXCEPT ![entry] =
                  [name |-> file.name, first |-> clusters[1], size |-> file.size]],
      data |-> [c \in Clusters |-> IF \E k \in DOMAIN clusters : clusters[k] = c
                                   THEN Sector(file, CHOOSE k \in DOMAIN clusters : clusters[k] = c)
                                   ELSE v.data[c]]]

------------------------------------------------------------------------------
(* Reading                                                                   *)

\* The firmware's search: the first entry of the name
Entry(v, name) == v.root[Lowest({i \in DOMAIN v.root : v.root[i].name = name})]

\* The firmware reads sectors until there are enough; a chain that ends early, loops or
\* leaves the volume holds no file.
Readable(v, e) ==
  LET at == Walk(v.fat, e.first)
  IN /\ \A k \in 1 .. Needed(e.size) : at[k] \in Clusters
     /\ \A j, k \in 1 .. Needed(e.size) : at[j] = at[k] => j = k

ReadFile(v, e) ==
  LET at == Walk(v.fat, e.first) IN [k \in 1 .. e.size |-> v.data[at[k]]]

------------------------------------------------------------------------------
(* The first-stage loader, which runs DW-BASIC.COD where the store has it    *)

VerifyLength(v, first) ==
  LET at == Walk(v.fat, first)
  IN (\A k \in 1 .. CodSize : at[k] \in Clusters) /\ GetFat(v.fat, at[CodSize]) >= 4088

\* verify_code_chain: each link is to the next cluster, and the last ends the chain
VerifyChain(v, first) ==
  /\ \A k \in 1 .. CodSize - 1 : GetFat(v.fat, first + k - 1) = first + k
  /\ GetFat(v.fat, first + CodSize - 1) >= 4088

\* compute_code_segment: the code is what is there from the first cluster on.
CodeImage(v, first) == [k \in 1 .. CodSize |-> v.data[first + k - 1]]

\* find_code_image
TakesCode(v) ==
  LET hits == {i \in 1 .. LoaderEntries : v.root[i].name = "DW-BASIC.COD"}
      e    == v.root[Lowest(hits)]
  IN /\ hits # {}
     /\ e.size = CodSize /\ e.first >= 2
     /\ VerifyChain(v, e.first)
     /\ CodeImage(v, e.first)[1] = Sector(File("DW-BASIC.COD", "none", CodSize), 1)

------------------------------------------------------------------------------
(* The firmware: format, delete                                              *)

Formatted ==
  [fat  |-> Put(Put([n \in Nibbles |-> 0], 0, 4089), 3, EndOfChain),
   root |-> [i \in 1 .. RootEntries |-> NoEntry],
   data |-> [c \in Clusters |-> Stale]]

Deleted(v, i) ==
  LET at   == Walk(v.fat, v.root[i].first)
      gone == {at[k] : k \in 1 .. Needed(v.root[i].size)}
  IN [fat  |-> [n \in DOMAIN v.fat |-> IF \E c \in gone : n \in 3 * c .. 3 * c + 2 THEN 0
                                      ELSE v.fat[n]],
      root |-> [v.root EXCEPT ![i] = NoEntry],
      data |-> [c \in Clusters |-> IF c \in gone THEN Stale ELSE v.data[c]]]
============================================================================
