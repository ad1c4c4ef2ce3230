------------------------------- MODULE Trace -------------------------------
(***************************************************************************)
(* src/tools/trace_boot.py: the recursive disassembly tracer.  A session    *)
(* is one run of the program: it registers its segments, loads the blocks   *)
(* that the previous session wrote (--load), and then works off a list of   *)
(* pending entry points.  Each one is disassembled up to the end of its     *)
(* block, and the targets of the block's jumps and calls become pending.    *)
(*                                                                          *)
(* A segment that is not registered (absent from SEGMENTS) has max = 0:     *)
(* the code skips its targets in both cases.  An instruction is what        *)
(* ndisasm makes of the bytes at a file offset: a length, an operation and  *)
(* the destination the tracer reads from the text.                          *)
(***************************************************************************)
EXTENDS Naturals, Sequences, FiniteSets

CONSTANTS
  Seg,          \* segment values
  Near,         \* stands for the segment of the instruction itself
  Para,         \* Para[s]: the address s << 4
  Profile,      \* the segment table of the profile, max = 0 where it has no entry
  RomLen,       \* len(ROM)
  Cap,          \* 0x10000, the bytes a segment reaches
  MaxBytes,     \* max_bytes of disasm_block
  MaxBlocks,    \* --max-blocks
  Images,       \* the ROM images considered
  Stops,        \* STOP_ADDRS
  Aliases,      \* KNOWN_ALIASES: file offsets declared with --alias
  DefaultSeeds, \* default_seeds of the profile
  Flags,        \* options that read dispatch tables
  Tables(_, _), \* the seeds these options add for a ROM image
  Commands,     \* the command lines considered
  MaxSessions   \* bound: sessions of one behaviour

Off     == 0 .. Cap - 1
Target  == Seg \X Off
Op      == {"plain", "jmp", "jcc", "call", "ret", "indirect"}
Insn    == [len : {1, 2}, op : Op, seg : Seg \cup {Near}, off : Off]
Segment == [base : Nat, max : Nat]
Command == [seed : Seq(Target), flags : SUBSET Flags]

Smaller(a, b) == IF a <= b THEN a ELSE b

\* A segment reaches either the end of its 64 KiB or the end of the ROM.
ReachesEnd(s, e) == e.max = 0 \/ e.max >= Cap \/ Para[s] + e.max >= RomLen

ASSUME TraceAssumption ==
  /\ Near \notin Seg
  /\ RomLen \in Nat \ {0} /\ Cap \in Nat \ {0}
  /\ MaxBytes \in Nat \ {0} /\ MaxBlocks \in Nat /\ MaxSessions \in Nat
  /\ Para \in [Seg -> Nat]
  /\ Images \subseteq [0 .. RomLen - 1 -> Insn]
  /\ Aliases \subseteq Nat
  /\ Commands \subseteq Command
  /\ DefaultSeeds \in Seq(Target)
  /\ \A f \in SUBSET Flags, r \in Images : Tables(f, r) \in Seq(Target)

\* The segments of both profiles reach the end of the ROM or of their 64 KiB, and their
\* bank windows (6000 and 8000) show what lies above them in the file.
ASSUME ProfileAssumption ==
  /\ Profile \in [Seg -> Segment]
  /\ \A s \in Seg : ReachesEnd(s, Profile[s])
  /\ \A e \in Seg : Profile[e].max > 0 => Para[e] <= Profile[e].base

VARIABLES
  rom,      \* ROM
  segs,     \* SEGMENTS: base and max_offset
  covered,  \* covered: the bytes of each segment that a block holds
  pending,  \* the list of entry points still to trace
  blocks,   \* the blocks in the order they were added: BLOCKS is the last of each address
  loaded,   \* how many of them come from the loaded file
  cur,      \* the block being disassembled, the address it has come to, and its segment
            \* as it was when the block began: base, what is covered (seen), and whether
            \* another entry has replaced it since (orphan)
  pc,       \* "done" between sessions, "next" and "walk" in trace and disasm_block
  cmd,      \* the command line of this session
  sessions, \* sessions started
  cut,      \* some session ended with entry points left
  named,    \* history: segments that far transfers have named
  short     \* history: segments that a session registered without reaching their end

history == <<named, short>>
vars == <<rom, segs, covered, pending, blocks, loaded, cur, pc, cmd, sessions, cut, named, short>>

\* The k-th member of a set of indices, and what a sequence has at the indices, in order
Nth(K, k) == CHOOSE i \in K : Cardinality({j \in K : j < i}) = k - 1
Picked(list, K) == [k \in 1 .. Cardinality(K) |-> list[Nth(K, k)]]

File(s, off) == segs[s].base + off

\* What ndisasm reads at a file offset; an instruction cut by the end is a db
Decode(p) == IF p + rom[p].len > RomLen
             THEN [len |-> 1, op |-> "plain", seg |-> Near, off |-> 0]
             ELSE rom[p]

------------------------------------------------------------------------------
(* Segments                                                                  *)

Unregistered == [base |-> 0, max |-> 0]

\* Registered segments whose bank window the address of s falls into
Banks(s) == {e \in Seg : /\ segs[e].max > 0 /\ segs[e].base # Para[e]
                         /\ Para[e] <= Para[s] /\ Para[s] < Para[e] + segs[e].max}

\* Where an unregistered segment begins in the file
FileBases(s) == IF Banks(s) = {} THEN {Para[s]}
                ELSE {segs[e].base + (Para[s] - Para[e]) : e \in Banks(s)}

Known(s, off) == off < segs[s].max

Resolvable(s, off) ==
  Known(s, off) \/ (Para[s] + off < RomLen /\ \E b \in FileBases(s) : b < RomLen)

\* The target an instruction of segment s names, if the tracer resolves it
TargetOf(s, i) ==
  IF i.seg = Near THEN <<<<s, i.off>>>>
  ELSE IF Resolvable(i.seg, i.off) THEN <<<<i.seg, i.off>>>> ELSE <<>>

AutoEntryShort(b) == [base |-> b, max |-> Smaller(RomLen - b, Cap) - 1]

AutoEntry(b) == [base |-> b, max |-> Smaller(RomLen - b, Cap)]

\* The segment is not registered, or is too short for the offset.
Registers(i) == i.seg # Near /\ ~Known(i.seg, i.off) /\ Resolvable(i.seg, i.off)

\* find_segment_for_far registers the segment of such a target, in the place of the entry it
\* may have.  A new entry has nothing covered.
Register(i) ==
  /\ named' = IF i.seg = Near THEN named ELSE named \cup {i.seg}
  /\ \/ /\ ~Registers(i)
        /\ UNCHANGED <<segs, covered, short>>
     \/ /\ Registers(i)
        /\ \E b \in FileBases(i.seg) :
             /\ b < RomLen
             /\ segs' = [segs EXCEPT ![i.seg] = AutoEntry(b)]
             /\ short' = IF ReachesEnd(i.seg, AutoEntry(b)) THEN short ELSE short \cup {i.seg}
        /\ covered' = [covered EXCEPT ![i.seg] = {}]

------------------------------------------------------------------------------
(* A session: main and load_trace                                            *)

Bytes(b) == UNION {i.addr .. i.addr + i.len - 1 : i \in b.insns}

\* The profile, then the segments that --seed names, based at their own address
SeededSegs(seed) ==
  [s \in Seg |-> IF Profile[s].max > 0 THEN Profile[s]
                 ELSE IF \E n \in DOMAIN seed : seed[n][1] = s
                      THEN [base |-> Para[s], max |-> Cap] ELSE Unregistered]

\* load_trace registers what is still missing, based at its own address
LoadedSegs(table, list) ==
  [s \in Seg |-> IF table[s].max > 0 \/ ~\E n \in DOMAIN list : list[n].seg = s THEN table[s]
                 ELSE IF Para[s] < RomLen THEN AutoEntry(Para[s]) ELSE Unregistered]

\* No later block begins at the same address and has taken its place in BLOCKS.
InBLOCKS(list, n) ==
  \A m \in DOMAIN list : m > n => list[m].seg # list[n].seg \/ list[m].start # list[n].start

\* output: the blocks a trace file holds.  It holds them sorted; here they keep the order in
\* which they were found.
Printed(list) == Picked(list, {n \in DOMAIN list : list[n].insns # {} /\ InBLOCKS(list, n)})

\* load_trace: the blocks of the file whose segment is known or can be registered
Loadable(table, list) == Picked(list, {n \in DOMAIN list : table[list[n].seg].max > 0})

LoadedBytes(list, s) == UNION {Bytes(list[n]) : n \in {m \in DOMAIN list : list[m].seg = s}}

Start(c) ==
  LET file  == Printed(blocks)
      table == LoadedSegs(SeededSegs(c.seed), file)
      kept  == Loadable(table, file)
  IN /\ pc = "done" /\ sessions < MaxSessions
     /\ segs' = table
     /\ blocks' = kept
     /\ covered' = [s \in Seg |-> LoadedBytes(kept, s)]
     /\ loaded' = Len(kept)
     /\ pending' = DefaultSeeds \o c.seed \o Tables(c.flags, rom)
     /\ cmd' = c
     /\ sessions' = sessions + 1
     /\ pc' = "next"
     /\ UNCHANGED <<rom, cur, cut>> /\ UNCHANGED history

\* The list is empty, or --max-blocks new blocks have been traced
Finish ==
  /\ pc = "next"
  /\ pending = <<>> \/ Len(blocks) - loaded >= MaxBlocks
  /\ cut' = (cut \/ pending # <<>>)
  /\ pending' = <<>>
  /\ pc' = "done"
  /\ UNCHANGED <<rom, segs, covered, blocks, loaded, cur, cmd, sessions>> /\ UNCHANGED history

------------------------------------------------------------------------------
(* trace: one entry point                                                    *)

Wanted(t) == t[2] < segs[t[1]].max /\ t[2] \notin covered[t[1]]

Pop == /\ pc = "next" /\ pending # <<>> /\ Len(blocks) - loaded < MaxBlocks
       /\ pending' = Tail(pending)

\* Covered by now, or outside its segment
Skip ==
  /\ Pop
  /\ ~Wanted(Head(pending))
  /\ UNCHANGED <<rom, segs, covered, blocks, loaded, cur, pc, cmd, sessions, cut>>
  /\ UNCHANGED history

\* Other segments under which the same byte is traced already
Twins(t) == {s \in Seg \ {t[1]} :
               \E off \in covered[s] : off < segs[s].max /\ File(s, off) = File(t[1], t[2])}

NoteAll(t) ==
  \/ /\ Twins(t) = {} \/ File(t[1], t[2]) \notin Aliases
     /\ UNCHANGED blocks
  \/ /\ File(t[1], t[2]) \in Aliases
     /\ \E s \in Twins(t) :
          blocks' = [n \in DOMAIN blocks |->
                       IF blocks[n].seg = s
                       THEN [blocks[n] EXCEPT !.aliases = @ \cup {t}] ELSE blocks[n]]

\* A declared alias is noted at the block that begins at the byte, if one does
Note(t) ==
  \/ /\ Twins(t) = {} \/ File(t[1], t[2]) \notin Aliases
     /\ UNCHANGED blocks
  \/ /\ File(t[1], t[2]) \in Aliases
     /\ \E s \in Twins(t) :
          blocks' = [n \in DOMAIN blocks |->
                       IF blocks[n].seg = s /\ File(s, blocks[n].start) = File(t[1], t[2])
                       THEN [blocks[n] EXCEPT !.aliases = @ \cup {t}] ELSE blocks[n]]

\* disasm_block gives nothing outside the ROM and at a stop; the alias is noted before.
Dismiss ==
  /\ Pop
  /\ LET t == Head(pending)
     IN /\ Wanted(t) /\ (File(t[1], t[2]) >= RomLen \/ t \in Stops)
        /\ Note(t)
  /\ UNCHANGED <<rom, segs, covered, loaded, cur, pc, cmd, sessions, cut>> /\ UNCHANGED history

Begin ==
  /\ Pop
  /\ LET t == Head(pending)
     IN /\ Wanted(t) /\ File(t[1], t[2]) < RomLen /\ t \notin Stops
        /\ Note(t)
        /\ cur' = [seg |-> t[1], start |-> t[2], at |-> t[2], end |-> "limit",
                   insns |-> {}, branches |-> <<>>, calls |-> <<>>, aliases |-> {},
                   base |-> segs[t[1]].base, seen |-> covered[t[1]], orphan |-> FALSE]
  /\ pc' = "walk"
  /\ UNCHANGED <<rom, segs, covered, loaded, cmd, sessions, cut>> /\ UNCHANGED history

------------------------------------------------------------------------------
(* disasm_block: one instruction, in the order of the tests                  *)

Here == cur.base + cur.at

EndReasonAgain ==
  IF Here >= RomLen \/ cur.at >= cur.start + MaxBytes THEN "limit"
  ELSE IF <<cur.seg, cur.at>> \in Stops THEN "blacklisted" ELSE "none"

\* The block ends before this address: out of bytes, or covered, or a stop
EndReason ==
  IF Here >= RomLen \/ cur.at >= cur.start + MaxBytes THEN "limit"
  ELSE IF cur.at \in cur.seen THEN "already_covered"
  ELSE IF <<cur.seg, cur.at>> \in Stops THEN "blacklisted" ELSE "none"

Unchanged == UNCHANGED <<rom, pending, blocks, loaded, cmd, sessions, cut>>

\* cur after instruction i, with the target it adds and where the walk stands
With(i, branch, call, end) ==
  [seg |-> cur.seg, start |-> cur.start, at |-> cur.at + i.len, end |-> end,
   insns |-> cur.insns \cup {[addr |-> cur.at, len |-> i.len]},
   branches |-> cur.branches \o branch, calls |-> cur.calls \o call,
   aliases |-> cur.aliases, base |-> cur.base, seen |-> cur.seen,
   orphan |-> cur.orphan \/ (i.op \in {"call", "jmp"} /\ i.seg = cur.seg /\ Registers(i))]

EndBefore ==
  /\ pc = "walk" /\ EndReason # "none"
  /\ cur' = [cur EXCEPT !.end = EndReason]
  /\ pc' = "store"
  /\ UNCHANGED <<segs, covered>> /\ UNCHANGED history /\ Unchanged

Walking == pc = "walk" /\ EndReason = "none"

StepPlain ==
  /\ Walking
  /\ LET i == Decode(Here)
     IN /\ i.op = "plain"
        /\ cur' = With(i, <<>>, <<>>, "limit")
  /\ UNCHANGED <<segs, covered, pc>> /\ UNCHANGED history /\ Unchanged

\* A branch of COND_OPS is near; its target joins the branches, the block goes on.
StepBranch ==
  /\ Walking
  /\ LET i == Decode(Here)
     IN /\ i.op = "jcc"
        /\ cur' = With(i, <<<<cur.seg, i.off>>>>, <<>>, "limit")
  /\ UNCHANGED <<segs, covered, pc>> /\ UNCHANGED history /\ Unchanged

\* A near or far call: its target joins the calls, the block goes on (NORETURN_CALLS,
\* the calls that would end it, is empty).
StepCall ==
  /\ Walking
  /\ LET i == Decode(Here)
     IN /\ i.op = "call"
        /\ Register(i)
        /\ cur' = With(i, <<>>, TargetOf(cur.seg, i), "limit")
  /\ UNCHANGED pc /\ Unchanged

EndJump ==
  /\ Walking
  /\ LET i == Decode(Here)
     IN /\ i.op = "jmp"
        /\ Register(i)
        /\ cur' = With(i, TargetOf(cur.seg, i), <<>>, "jmp")
  /\ pc' = "store"
  /\ Unchanged

\* ret, retf, iret or an indirect jump
EndReturn ==
  /\ Walking
  /\ LET i == Decode(Here)
     IN /\ i.op \in {"ret", "indirect"}
        /\ cur' = With(i, <<>>, <<>>, i.op)
  /\ pc' = "store"
  /\ UNCHANGED <<segs, covered>> /\ UNCHANGED history /\ Unchanged

------------------------------------------------------------------------------
(* trace: the finished block                                                 *)

UncoveredHere(list) ==
  Picked(list, {n \in DOMAIN list : list[n][2] \notin covered'[cur.seg]})

\* Targets that are not covered, the block itself included
Uncovered(list) ==
  Picked(list, {n \in DOMAIN list : list[n][2] \notin covered'[list[n][1]]})

BlockByEnd == [seg |-> cur.seg, start |-> cur.at, end |-> cur.end, insns |-> cur.insns,
               branches |-> cur.branches, calls |-> cur.calls, aliases |-> {}]

Block == [seg |-> cur.seg, start |-> cur.start, end |-> cur.end, insns |-> cur.insns,
          branches |-> cur.branches, calls |-> cur.calls, aliases |-> {}]

Store ==
  /\ pc = "store"
  /\ covered' = IF cur.orphan THEN covered ELSE [covered EXCEPT ![cur.seg] = @ \cup Bytes(cur)]
  /\ blocks' = Append(blocks, Block)
  /\ pending' = pending \o Uncovered(cur.branches) \o Uncovered(cur.calls)
  /\ pc' = "next"
  /\ UNCHANGED <<rom, segs, loaded, cur, cmd, sessions, cut>> /\ UNCHANGED history

------------------------------------------------------------------------------
NoBlock == [seg |-> Near, start |-> 0, at |-> 0, end |-> "limit",
            insns |-> {}, branches |-> <<>>, calls |-> <<>>, aliases |-> {},
            base |-> 0, seen |-> {}, orphan |-> FALSE]

Init ==
  /\ rom \in Images
  /\ segs = Profile
  /\ covered = [s \in Seg |-> {}]
  /\ pending = <<>> /\ blocks = <<>> /\ loaded = 0
  /\ cur = NoBlock /\ pc = "done"
  /\ cmd = [seed |-> <<>>, flags |-> {}]
  /\ sessions = 0 /\ cut = FALSE
  /\ named = {} /\ short = {}

Next == \/ \E c \in Commands : Start(c)
        \/ Skip \/ Dismiss \/ Begin
        \/ StepPlain \/ StepBranch \/ StepCall \/ EndBefore \/ EndJump \/ EndReturn
        \/ Store \/ Finish

Spec == Init /\ [][Next]_vars

------------------------------------------------------------------------------
(* Properties                                                                *)

Ends == {"limit", "already_covered", "blacklisted", "jmp", "ret", "indirect"}

BlockOK(b) ==
  /\ b.seg \in Seg /\ b.start \in Off /\ b.end \in Ends
  /\ b.insns \subseteq [addr : Nat, len : {1, 2}]
  /\ b.branches \in Seq(Target) /\ b.calls \in Seq(Target)
  /\ b.aliases \subseteq Target

\* Mapped like bank e of the profile, s has less than 64 KiB of the file behind it.
TooHigh(s, e) ==
  /\ Profile[e].max > 0 /\ Profile[e].base # Para[e] /\ Para[e] <= Para[s]
  /\ Profile[e].base + (Para[s] - Para[e]) + Cap > RomLen

\* Segments, pending entry points and blocks stay what the program's types say.  A segment
\* reaches the end of the ROM or of its 64 KiB, so that no far target is outside it and inside
\* the ROM and it is never registered again, unless it was mapped into a bank from so high up
\* that the file ends first.
TypeOK ==
  /\ rom \in Images
  /\ segs \in [Seg -> Segment]
  /\ \A s \in Seg : ReachesEnd(s, segs[s]) \/ s \in short
  /\ \A s \in short : s \in named /\ Profile[s].max = 0 /\ \E e \in Seg : TooHigh(s, e)
  /\ covered \in [Seg -> SUBSET Nat]
  /\ pending \in Seq(Target)
  /\ \A n \in DOMAIN blocks : BlockOK(blocks[n])
  /\ loaded \in 0 .. Len(blocks)
  /\ pc \in {"done", "next", "walk", "store"}
  /\ pc \in {"walk", "store"} => BlockOK(cur) /\ cur.at \in Nat
  /\ cmd \in Command
  /\ sessions \in 0 .. MaxSessions
  /\ cut \in BOOLEAN /\ named \subseteq Seg

Starts(b) == {i.addr : i \in b.insns}

\* No address of a segment is disassembled twice, also across sessions (trace_boot.py:6,
\* "Deduplicates at the instruction level"), but for segments registered without reaching
\* their end: one of those may be registered again, and what was covered is forgotten.
NoAddressTwice ==
  \A m, n \in DOMAIN blocks :
    m < n /\ blocks[m].seg = blocks[n].seg /\ blocks[m].seg \notin short
      => Bytes(blocks[m]) \cap Starts(blocks[n]) = {}

\* A block added in this session begins at one of its seeds, or at the target of a
\* block added before it in this session: nothing is traced that control flow from
\* the seeds does not reach.
Successors(b) == {b.branches[n] : n \in DOMAIN b.branches} \cup {b.calls[n] : n \in DOMAIN b.calls}

Seeds == LET list == DefaultSeeds \o cmd.seed \o Tables(cmd.flags, rom)
         IN {list[n] : n \in DOMAIN list}

Reached ==
  \A n \in loaded + 1 .. Len(blocks) :
    \/ <<blocks[n].seg, blocks[n].start>> \in Seeds
    \/ \E m \in loaded + 1 .. n - 1 : <<blocks[n].seg, blocks[n].start>> \in Successors(blocks[m])

\* An entry point needs no block any more
Settled(t) == ~Wanted(t) \/ File(t[1], t[2]) >= RomLen \/ t \in Stops

After(b) == IF b.insns = {} THEN b.start
            ELSE CHOOSE a \in {i.addr + i.len : i \in b.insns} :
                   \A i \in b.insns : i.addr + i.len <= a

\* When a session is over and none was cut short by --max-blocks, every seed, every
\* target of every block and what follows a block that stopped before covered bytes
\* or a stop is disassembled, a stop, or outside its segment, loaded blocks included:
\* what --load left out of the list was not needed.  A block cut at MaxBytes is the
\* exception, nothing queues the address it was cut at, and so is a seed of a segment
\* that neither the profile nor --seed names: trace drops it.  Of a segment registered
\* without reaching its end nothing is said.
NothingMissed ==
  pc = "done" /\ ~cut /\ sessions > 0 =>
    /\ \A t \in Seeds : SeededSegs(cmd.seed)[t[1]].max > 0 => Settled(t) \/ t[1] \in short
    /\ \A n \in DOMAIN blocks :
         /\ \A t \in Successors(blocks[n]) : Settled(t) \/ t[1] \in short
         /\ blocks[n].end \in {"already_covered", "blacklisted"} /\ blocks[n].seg \notin short
              => Settled(<<blocks[n].seg, After(blocks[n])>>)

\* The address of s lies within max bytes from that of e.
Behind(s, e, max) == Para[e] <= Para[s] /\ Para[s] < Para[e] + max

\* Sets of segments that hold those of the named ones that a bank window of the profile
\* holds, and those that begin in the 64 KiB of one of them, the profile's own apart
Windows(names) ==
  {B \in SUBSET Seg :
     \A s \in names : /\ Profile[s].max = 0
                      /\ \/ \E e \in Seg : Profile[e].base # Para[e] /\ Behind(s, e, Profile[e].max)
                         \/ \E e \in B : Behind(s, e, Cap)
                      => s \in B}

\* What every such set holds: the segments that the far transfers met so far may have mapped
\* into a bank.  find_segment_for_far gives an entry 64 KiB from inside a window, so it may
\* reach past the end of the window, and the segments it reaches are mapped after it.
Banked(names) == LET all == Windows(names) IN {s \in Seg : \A B \in all : s \in B}

\* The base of a segment that no bank is meant for
HomeBase(s) == IF Profile[s].max > 0 THEN Profile[s].base ELSE Para[s]

\* The file offset under which a session reads a segment is the same in all of them, whether
\* the profile, --seed, --load or a far transfer registered it.  Excepted are the segments
\* that a transfer met so far may have mapped into a bank: load_trace and --seed base
\* those at their own address, and past the window it depends on what is registered first.
OneBase(banked) ==
  \A s \in Seg : segs[s].max > 0 /\ s \notin banked => segs[s].base = HomeBase(s)

\* An alias noted at a block names the byte the block begins at, also when no session
\* registers its segment any more.
AliasesAgree(banked) ==
  \A n \in DOMAIN blocks : \A t \in blocks[n].aliases :
    t[1] \in banked \/ blocks[n].seg \in banked \/
    HomeBase(t[1]) + t[2] = HomeBase(blocks[n].seg) + blocks[n].start

\* However sessions follow each other and whichever address a byte was found under first,
\* a name means one place in the file, and the names noted for a block mean the same one.
OneFileOffset == LET banked == Banked(named) IN OneBase(banked) /\ AliasesAgree(banked)
============================================================================
