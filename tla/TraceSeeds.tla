----------------------------- MODULE TraceSeeds -----------------------------
(***************************************************************************)
(* The options of trace_boot.py that read dispatch tables out of the ROM:   *)
(* each entry of a table is an entry point.  A table is the sequence of its *)
(* words; NoSlot stands for an AH value that the validity table marks FF.   *)
(***************************************************************************)
EXTENDS Naturals, Sequences

LOCAL INSTANCE SequencesExt

CONSTANTS
  C000,        \* the segment the name "C000" in the code stands for,
  C000File,    \* its offset in the file, and
  C772,        \* the segment the name "C772" stands for
  Near,        \* the segment of a near call
  MenuSegment, \* menu_segment of the profile
  SegmentMax,  \* max_offset of each segment
  ThunkWords, MenuWords, DispatchTables, Handlers,
  NoSlot

\* Each word once, in the order of the table
Distinct(words) ==
  FoldLeft(LAMBDA seen, w : IF w \in ToSet(seen) THEN seen ELSE Append(seen, w), <<>>, words)

InSegment(s, words) == SelectSeq(words, LAMBDA w : 0 < w /\ w < SegmentMax[s])

SeedsAt(s, words) == [n \in DOMAIN words |-> <<s, words[n]>>]

ThunkSeeds == SeedsAt(C000, InSegment(C000, ThunkWords))

\* The bound is that of the profile's menu segment, the name is fixed.
MenuSeeds == SeedsAt(C772, InSegment(MenuSegment, MenuWords))

WordTable(s, words) == SeedsAt(s, Distinct(InSegment(s, words)))

DispatchSeeds ==
  FoldLeft(LAMBDA seeds, t : seeds \o WordTable(t.seg, t.words), <<>>, DispatchTables)

\* INT 21h: the handlers of the valid AH values, each once, and behind a handler that
\* is a call its target, which may be a handler that has been seen.
Callee(rom, h) == LET i == rom[C000File + h]
                  IN IF i.op = "call" /\ i.seg = Near THEN <<i.off>> ELSE <<>>

Int21Seeds(rom) ==
  SeedsAt(C000, FoldLeft(
    LAMBDA seen, h : IF h = NoSlot \/ h \in ToSet(seen) \/ h = 0 THEN seen
                     ELSE Distinct(seen \o <<h>> \o Callee(rom, h)),
    <<>>, Handlers))

TableSeeds(flags, rom) ==
  (IF "thunks" \in flags THEN ThunkSeeds ELSE <<>>)
  \o (IF "int21" \in flags THEN Int21Seeds(rom) ELSE <<>>)
  \o (IF "menu-vm" \in flags THEN MenuSeeds ELSE <<>>)
  \o (IF "dispatch" \in flags THEN DispatchSeeds ELSE <<>>)
============================================================================
