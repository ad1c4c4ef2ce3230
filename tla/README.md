# DW-BASIC verification project

This directory models the parts of this repository that carry its own logic: DW-BASIC, the port of GW-BASIC to the
Dreamwriter, with the firmware it runs on, and the tools that trace the ROM, drive the emulator and build cards. The
specifications are TLA+, checked by TLC on small instances; the main safety results are proved by TLAPS for every value of
the constants.

Paths below are relative to `src/`. `PROJECT.json` maps every definition of a module to the lines it translates.

## 1. The system

The repository holds a disassembly of the Dreamwriter firmware (`v2.1/asm`, `twinx`), a MAME driver (`mame/`), a card
loader and GW-BASIC with a new machine layer (`dw-basic/`), and the tools that build and drive all of it (`tools/`).
GW-BASIC itself is Microsoft's source, translated from MASM; the machine layer under it (`gw/dw*.asm`, `include/dw*.asm`)
is new, touches hardware, and shares vectors, bytes and timers with a ROM it cannot change. That layer is one subject. The
other is the tools that keep state: the tracer that finds the code of a ROM over several sessions, the driver that takes an
emulated machine through its menus, the programs that write and read card images, and the converter that makes NASM sources
of the MASM ones.

| component | state | operations | what is hard | what makes it correct |
|---|---|---|---|---|
| Sound driver, `dw-basic/src/gw/dwstubs.asm:131-476` | `dw_snd_*` bytes, a 32-entry ring, speaker gate, F9 one-shot, F9 vector | DONOTE (background, foreground, reset), SYSTME, F9 interrupt | the interrupt and DONOTE write the same bytes without a lock; the ROM's status poll uses the same timer and mask | notes play in order, once, for their duration; a waiting note ends; the ROM gets its vector back |
| Warm power resume, `dwstubs.asm:477-606` | retained context 0:6D65 with checksum, `dw_power_resume_*`, FF vector, [6809] | FF interrupt, ROM startup, trampoline | the key may be pressed anywhere, also in startup and in the trampoline | BASIC continues with its own registers, stack and handler |
| Keyboard, `gw/dwio.asm` | firmware key queue, Break flag | KEYINP, peek, read, map | peek and read are two firmware calls | each key once; Break recognised once |
| Console, `include/dwconsole.asm` | cursor cell, screen bitmap, shadow text | output, scroll, read_line, cursor show/hide | bit-level copies of overlapping rectangles; saved cell against output | scroll is a move of a rectangle; the cell shown is the cell stored |
| Disk backend, `gw/dwdisk.asm` under `gw/gio86.asm` | file data blocks, firmware handles, position | open, close, sequential and random I/O, save and load | one of several firmware calls fails; end-of-file byte | what is written is read back; no handle and no file number is lost |
| Card loader, `eromcard_gw.asm` | destination segment, image chain, overlay | find, verify, load, exit | sizes and chains come from the card | no image is started that was not verified and loaded |
| ROM tracer, `tools/trace_boot.py` | `SEGMENTS`, covered bytes, list of entry points, `BLOCKS`, the trace file of the session before | start with --load and --seed, take an entry point, disassemble a block, store it | the same byte has several addresses; segments are registered on the way; what is covered decides twice | no address twice; nothing reachable left out; only what is reachable |
| Emulator driver and bridge, `tools/run_dwbasic_mame.py`, `tools/dwbasic_input_bridge.lua` | menu to come, snapshot cache, socket, snapshot directory; key queue, debugger points | launch, connect, request, snapshot, key, user commands, terminate; one frame | two processes, files of earlier runs, EVT lines between responses, MAME dying anywhere | keys go to the menu they are for; each response to its request; MAME does not outlive the driver unnoticed |
| Card builder and installer, `tools/build_basic_eromcard.py`, `dw-basic/tools/install_eromcard.py` | FAT12 table, root directory, data sectors, card page; the program in the machine | write, install; each program step by step | two table entries share a byte; page and program must be of one build; exits after failures | files read back; code runs in place; calls find the page; the menu gets the machine back |
| Extractor, `tools/extract_wp_nvram.py` | - | list, extract | cluster size and offsets are constants | not modelled (section 6) |
| Source converter, `dw-basic/tools/masm2nasm.py`, `source_feature_ranges.py` | current segment and whether it has output, segments declared, radix, data names, open blocks; the generated file | convert a line; put a range into a condition | what a line means depends on lines long before it: `.RADIX`, a put-off segment switch, a name declared as data | NASM makes of the result what MASM makes of the source, in every build |
| MAME driver, `mame/nakajies.cpp` | interrupt latch and mask, one-shot, keyboard matrix | port reads and writes, timer callback | latch against mask | an interrupt is neither lost nor repeated |
| GW-BASIC, `gw/gwmain.asm` ... | program, variables, strings, event traps | statements | string compaction, traps | not this project's own code |
| Firmware documentation | - | - | - | external: modelled only where DW-BASIC shares state with it |

How they interact: BASIC's statements call DONOTE and SNDRST (sound), KEYINP between statements (keyboard, which calls the
firmware poll that arms the sound driver's timer), SCROUT and the cursor (console), and the dispatch table DSKDSP (disk).
Interrupts F9 (timer) and FF (power key) call back at any instruction with interrupts enabled. The loader starts BASIC and
SYSTEM jumps back to the loader through the exit thunk, with both vectors restored. The tools meet the machine in files: the
builder, the installer and the firmware write the same table and directory, the loader runs what they left there; the
driver talks to the Lua bridge inside MAME over one socket and sees the screen only as snapshot files.

## 2. Plan

Done in this order, the behaviour with most interleaving first.

1. `Sound`, `NoteQueue`, `MCSound`, `SoundProofs`: done.
2. `Power`, `PowerProofs`: done.
3. `Disk`, `MCDisk`, `DiskProofs`: sequential files, LOAD and SAVE with the cleanup after errors, done. Left: random files
   with their 32-bit offsets, EOF, LOC and LOF, MERGE, CHAIN and `LOAD ,R`, and an abstract file that the channel implements.
4. `Trace`, `TraceSeeds`, `MCTrace`, `TraceProofs`, `TraceSessionProofs`: done.
5. `InputBridge`, `EmuDriver`, `MCEmuDriver`, `EmuProofs`: done but for the debugger's execution control.
6. `CardVolume`, `CardStub`, `Card`, `MCCard`, `CardProofs`: builder, installer, and of the loader search, chain check and
   code segment, done. Left of the loader: the data segment, the overlay, error exits and the exit thunk.
7. `Assemblers`, `Convert`, `MCConvert`, `ConvertProofs`: masm2nasm and the feature ranges, done. Left: the scripts that
   post-process the tables (`gwdata_tables.py`, `gwram_tables.py`, `ibmres_tables.py`) and `flat_runtime_patches.py`.
8. Console: the cursor cell and read_line; scrolling as a pure algorithm against a reference move over all small
   rectangles.
9. Keyboard: KEYINP with a firmware queue that fills between the peek and the read.
10. Interrupt controller of the MAME driver; then event traps of GW-BASIC.

`EmuDriver` composes `InputBridge` with the driver and MAME (it EXTENDS it, since they share the queue); `Card` composes
`CardVolume`, the pure operations on a volume, with `CardStub`, the programs; `MCTrace` instantiates `TraceSeeds` for the
tables of its ROM images and gives them to `Trace` as a constant operator.

Proofs still worth doing: `SamePatched`, for files with ranges; `SameExports`; that `Text` types its characters in order; and
the channels of `Disk` against an abstract file, once there is one.

## 3. What is modelled

### Sound

`Sound` is the driver at the granularity of its shared accesses. DONOTE runs with interrupts enabled, so each instruction
that reads or writes a byte the F9 handler also uses is an action, and `pc` names it; registers that carry a value from one
access to the next are `cx`, `dx`, `ax` (`cx` only tells a tone from a rest). Routines between `pushf/cli` and `popf`
(`dw_music_install`, `dw_music_restore`, `dw_power_install`, `dw_power_restore`) are one action. The F9 handler runs with
interrupts disabled: one action, split by outcome (`F9Waiting`, `F9Quiet`, `F9Slice`, `F9Note`, `F9Empty`), each including
the `dw_music_start_next` and `dw_music_arm_next` it calls. The same two routines called by the foreground are the steps
`Start*`, `Empty*`, `Arm*`.

| state | code |
|---|---|
| `snd` | `dw_snd_q_head`, `_q_tail`, `_q_count`, `_active`, `_count_frac`, `_waiting`, `_remaining`, `_slice` |
| `queue` | `dw_snd_queue` |
| `speaker` | the gate behind port 52 |
| `timer`, `irq`, `masked` | one-shot behind port 53, latch, bit 02 of [6D4F]/port 60 |
| `wake` | bit 01 of [6DA9], which the ROM's poll sleeps on |
| `f9`, `ff` | vector with `dw_xx_old` and `dw_xx_installed` |

The ROM is external: its F9 handler (`RomF9`), its status poll (`PollEnter`, `PollSleep`, `PollNoKey`, `PollKey`, which
KEYINP calls only when `DWSND_ACTIVE` is zero) and the part of a power cycle that DW-BASIC sees (`PowerCycle`, atomic here;
`Power` opens it up). `Launch` is a new start by the loader: fresh variables, FF installed by GWINI, a reset by INIT.

`NoteQueue` is what background music promises: a bounded first-in first-out queue, a note left for its duration, taken off
slice by slice. `ImplementsNoteQueue` maps the ring to `queued` and the remaining units to `left`, and says that each step
of the driver is one step of the queue or none. Two corrections make the mapping hold in the middle of
`dw_music_start_next`: the entry at `start_count` is already taken, and until `start_remaining` the duration is still in DX.

Two specifications are used. `Spec` lets every program run: DONOTE of any kind whenever the foreground is between
statements. `CleanSpec` restricts the caller (`Undisturbed`): a note or a reset is started only when no tick is in flight,
notes are added freely to a playing queue, and power stays on. It is needed because without it `RingConsistent` is false:
with ticks in flight the handler and DONOTE can both run `dw_music_start_next`, `q_count` goes from 0 to 255, and a tone
stays on. The properties that hold for `Spec` are stated for it. `ToneHasNote` says that the speaker is on between statements only
while a note is active. It does not say that a tick will end the note: under `CleanSpec` too the last note can end between
`dw_music_install` and the enqueue of the next one, which then starts with the ROM's handler in the vector (section 4).

### Power

`Power` has one action per instruction of `dw_power_resume` before its `cli` and after its `popf`; what is between is
`ResumeBody`. `PressDW` is the whole of `dw_power_ff_isr`: it saves registers with a checksum in the retained area, the
return address and SS:SP in its own variables, and powers down. `PressRom` is the ROM's handler, which holds the vector
during startup and the first instructions of the trampoline: with [6809] at the startup value it retains its own address
without a checksum and powers down, otherwise it leaves a mark that the status poll acts on (`FirmwarePowersDown`).
`Startup` and `RestoreContext` are the ROM's startup. `basic` is a history variable: the registers at the last press in
BASIC. "firmware" is where BASIC's session is lost; the model ends there.

### Disk

`Disk` is the handle-based backend `dwdisk.asm` under the file statements of `gio86.asm` and `dskcom.asm`. Statements run one
at a time, so the difficulty is not interleaving but failure: a statement makes several firmware calls, each may fail, and
the error path makes more calls. `at` names the next firmware call, and an action is that call with the code up to the
next one; each has a failing twin. `Raise` is ERROR: the stack is reset and FINPRT runs, which releases the block that
FREFDB names and closes file 0, and may raise again.

| state | code |
|---|---|
| `fdb` | the chain of file data blocks: `F_MODE`, the handle word, `F_ORCT` (`atEof`), `F_BAKC` with its flag, `F_CODE` |
| `freFdb`, `ptrfil`, `nlonly` | `FREFDB`, `PTRFIL` by file number, bit 01 of `NLONLY` |
| `closing`, `back`, `errs` | the argument and return address of CLSFIL; the errors of the statement, of which DL holds the last |
| `slot`, `content` | the firmware's open-file slots (four on the machine) and the card |
| `saved`, `got`, `failed` | histories: what programs wrote, what they were given, what kinds of calls failed |

The firmware is external. A close releases the slot even when it reports an error; a create or an open looks for a slot
before it touches the file. The handle word of a block is unset until OPEN stores it, so `OpnFil` chooses any value for it:
that is the uninitialised memory of FALLOC. `Shares` restricts programs: a file that is being written has one number.

`StatementLeavesNothing` and `CleanupEnds` hold whatever fails. `SlotsOwned` needs every final ^Z to be written: when
`dw_disk_sot` fails inside `dw_disk_close` (`dwdisk.asm:278`), FINPRT releases the block without AH=3E and one of four slots is
gone until the machine is reset. `EachFdbItsSlot` needs every OPEN to succeed, because of the finding below: a number
left over from a failed OPEN has an arbitrary handle, and closing it can close, and end with ^Z, the file of another number.
Two differences from desktop GW-BASIC are visible in the model and not judged: ^Z is an ordinary byte on input
(`dw_disk_sin`), and the end of a file is noticed only by a read past it.

### ROM tracer

`Trace` is `trace_boot.py` from one session to the next. A session (`Start`) registers the profile's segments and those of
`--seed`, loads the blocks the session before wrote, marks their bytes covered and fills the list of entry points. `Skip`,
`Dismiss` and `Begin` take the first one: it is covered or outside its segment; or it is a stop or outside the ROM, where
`disasm_block` returns nothing, but a declared alias is noted before that; or it begins a block. `StepPlain`, `StepBranch`,
`StepCall`, `EndBefore`, `EndJump` and `EndReturn` are `disasm_block` instruction by instruction, in the order of its tests;
`Store` adds the block and queues its targets.

| state | code |
|---|---|
| `segs` | `SEGMENTS`: base and `max_offset`; max 0 is "not registered", the code skips such targets in both cases |
| `covered`, `pending`, `blocks` | the covered bytes by segment, the list of entry points, `BLOCKS` in the order found |
| `loaded` | how many blocks came from `--load`; `--max-blocks` counts the others |
| `cur`, `pc` | the block under way and whether a session takes entry points, walks, or is over |
| `cut`, `named`, `short` | histories: a session ended with entry points left; the segments that far transfers named; those registered without reaching their end |

`ndisasm` is external: a ROM is a map from file offsets to instructions, of which the model keeps length, operation and
destination, and an instruction that the end of the ROM cuts is a `db`. `Register` is what `find_segment_for_far` does when
a far transfer names a segment it does not know: inside a bank window the base follows the bank, elsewhere it is the
segment's own address, and where windows overlap any of them. The tables of `--thunks`, `--int21`, `--menu-vm` and
`--dispatch` are read by `TraceSeeds`. Selections from lists are written `Picked`, by index, so that they can be reasoned
about without induction.

`ProfileAssumption` states two things that the segment tables of both profiles satisfy: each of their segments reaches the
end of the ROM or of its 64 KiB, and a segment lies in the file at its own address or behind it, so that a bank window shows
what is above it. It says nothing of segments registered on the way. One of those may be mapped so high up that the ROM ends
within its 64 KiB (EF8A of the profile v31, which is based at 0x80000 + 0x8F8A0): it is `short`, and a transfer to an offset
behind its end registers it once more, with nothing covered (`trace_boot.py:212-243`). `Register` replaces the entry, and
`cur` keeps the one the block under way holds (`base`, `seen`, `orphan`). In such a segment an address may be disassembled
twice, so that the claim of `trace_boot.py:6` does not hold there, and `NoAddressTwice` and `NothingMissed` except `short`.

`OneFileOffset` is the conjunction of `OneBase` and `AliasesAgree`, which except the segments that the far transfers met so
far may have mapped into a bank (`Banked(named)`). `load_trace` and `--seed` base those at their own address, a far transfer
at the bank's. And `find_segment_for_far` gives such a segment 64 KiB from its address, past the end of the window
(`trace_boot.py:233-243`), so that a segment behind the window, whether it begins in the 64 KiB of a mapped one or of one
mapped on that account, is mapped or not depending on which of them the trace met first. In those places the same name does
mean two places. Segments that no transfer has named are not excepted, wherever they lie. `NothingMissed` also excepts
sessions cut by `--max-blocks` and seeds of segments that nothing names, and says nothing of the address behind a block of
0x400 bytes, which nothing queues (`trace_boot.py:320`).

### Emulator driver and bridge

`InputBridge` is the key queue of the Lua script: what each command adds (`Typed`) and what a frame takes off (`Advance`).
`EmuDriver` is the driver script with MAME and the firmware menus. `drv.pc` is where the driver stands: launching, waiting
for the window, connecting, looking at a menu (`look`), waiting for a response (`recv`) or for a new file (`poll`), setting
debugger points, pressing a menu's key, in the user's loop, or in the finally clause (`terminate`, `wait`, `killed`). A
failure of any kind is `Fail`: the exception leads to the finally clause with all that the driver held. That clause has two
waits of five seconds. The first ends in SIGKILL; nothing catches the time-out of the second (`run_dwbasic_mame.py:907-908`),
so that the driver may end with an exception before MAME has gone (`unreaped`). ^C (`Interrupt`) is an exception like others
before the finally clause, and leaves that clause where it hits it (`interrupted`), possibly with MAME running:
`EndsWithMame` names the first case and excepts the second.

| state | code |
|---|---|
| `drv.req`, `drv.answer` | the last request and the response the driver goes on with; `id` is a history that numbers requests |
| `drv.before`, `drv.cached`, `drv.shown` | the listing before SNAP, the last snapshot shown, the rows printed of it |
| `sent`, `lines` | the two directions of the socket |
| `snaps` | the snapshot directory: number to picture |
| `emu` | process and signal, window, screen and the redraw still to come, socket file, debugger points; `keys` and `misfired` are histories: how many of the driver's keys went down, and whether one did beside its menu |
| `queue`, `step` | the bridge's queue and the entry that is down |

What the model must keep is how files outlive runs: `Leftovers` are a directory with snapshots in the middle of the numbers,
and a socket file that nobody listens on. `Pictures` is MAME taking the first free number, or failing to write. Redraws are
slow: a key that is hit while the next menu is still to be drawn is lost, and `misfired` remembers it. The driver's keys are
the first `Len(Route)` that go down, since what the user types is queued behind them; the user's own may come at any time and
are not judged.

The assumptions on the constants say what the scripts' own tables do: Shift and Ctrl are no keys of their own
(`LayoutAssumption`); the keys of the menus need neither and have each a matrix field of their own (`MenuKeysAssumption`; the
driver sends `Enter`, and Return of a text is the same field); what the user types is one command that names a key or a text,
and sets no debugger points (`TypingAssumption`); an earlier run left any pictures and at most a socket file that nobody
listens on (`LeftoversAssumption`).

### Card

`CardVolume` holds the volume and what each program does with it: table entries as nibbles, three to an entry, so that
neighbours share a byte, and recursion over the table or a chain as recursive functions; `FindRootEntry`, `Allocate`,
`WriteFile` of builder and installer; the firmware's reading and deleting; `TakesCode` of the loader. Builder, installer and
loader look at different numbers of directory entries (`RootEntries`, 128; `InstallEntries`, 16; `LoaderEntries`, 64; here 4,
2 and 3). `CardStub` holds the sixteen programs as sequences of what they do that something else can see (map the page, take
the LCD, set the BASIC flag, change DS, open a file, call into the page), each built by its `build_...` function from a
template and the fields it is given. `Card` puts the firmware, the tools and a running program together. A tool works on a
copy and writes the image at its end, so that a run of it is one step and a failed run none; the machine runs programs step
by step (`mach.rest` is what is left).

Two assumptions on constants come from the code. A table entry has 12 bits and a link from FF8 on ends a chain, so volumes
have at most 4086 clusters (`EntriesAssumption`; the card of `docs/basic-eromcard.md:290`, of 16 units, has 4015).
`FilesAssumption` says what files users save and that the programs have at least one sector.

Two premises restrict what users do. The builder is not run on a card where its files are hidden behind a deleted
entry (`Hidden`): the tools look for a name only up to the first deleted entry and would write a second file of the name.
Damage behind the table, which the installer also does, is left out: the finding does not need it.

The loader 31B6 of the 325 BASIC reads its file from the card while it needs tables of the page that hides the card.
`docs/basic-eromcard.md:519-525` observes that it resets the machine when it runs from the mapped page, and 686-698 that a
page kept mapped "is not a valid fix" either, since MAME hangs; the builder's programs do keep it mapped ("Keep the 325 page
mapped while tokenizing the source file", `build_basic_eromcard.py:397-402`). So `Loads` may come back and, while the page is
mapped, the machine may be reset instead (`LoadResets`, to where the menu starts). `CallsLand` demands a mapped page of the
calls into it, of a call to a loader in the page too, as there is no routine otherwise; of the copy in RAM it demands
nothing, because either choice fails.

`HandsBack` leaves the mapping of the page out. `docs/basic-eromcard.md:427-428` (for `smoke-map`) and 672-675 (for the
runtime probes) promise that a program unmaps it. The smoke programs and, at the last exit, `basic-runtime-steps-probe`,
`-branch-probe` and `-letter-probe` do. The others that map it by themselves write the bank value once more and return
(`build_basic_eromcard.py:92-96`, 686-689, and 398-411 for the RAM probe), as do the three named at their exit after a failed
load.

### Source converter

`Convert` is one generated source from the makefile's command to the file on disk: `masm2nasm.py` line by line, then
`source_feature_ranges.py`, once and again. `Assemblers` says what the two texts mean: `MasmImage` and `NasmImage` read a text
and give the labels, data and instructions it places, in their order and segments. `SamePlain` compares them before any range is
applied, `SamePatched` behind the patcher; `SameExports` compares the symbols for other files (`MasmExports`, `NasmExports`).

| state | code |
|---|---|
| `block` | `in_comment_block`, `in_macro_block` of `convert_file` |
| `radix`, `segment`, `hasOutput`, `declared`, `data` | `CURRENT_RADIX`, `CURRENT_SEGMENT`, `DSEG_ACTIVE_HAS_OUTPUT`, `DECLARED_SEGMENTS`, `DATA_SYMBOLS` |
| `lines`, `disk` | the list of output lines, then the text that `patch_file` works on; the generated file |
| `todo`, `runs` | the `--range` arguments not applied yet; how often the patcher has been run |
| `plain` | history: the file before any range was applied |

A line is a record: its kind, a name, one operand. Of what one line leaves for another these are there: the switch to DSEG
that waits for the first line with output (`Due`), the class that is written the first time a segment is named, the radix
that decides what a numeral means, the names that pass 1 found in data segments and that pass 2 puts into brackets, and the
blocks that are open. How often a name is assigned (`ASSIGNMENT_COUNTS`), which only `$` by itself needs, is not. Numerals
are two digits, so that 10 and 17 differ between the bases. The syntax of operands, `SYMBOL_RENAMES` and the tables of
constants are abstracted: the tables are the set `AbsoluteNames`, of which `ConstantNames` are the errors and tokens whose
OFFSET becomes a constant of an include file (`Const`), and MASM types the externals that are in them as constants (`abs`).
`EquNames` are the two names whose `=` becomes `equ`, DATAS and FORSZC (`gw-basic/gwmain.asm:3326` and 355). The `%xdefine`
of `_OFFST` (`masm2nasm.py:773-774`) is reached by no source and left out.

MASM is external and modelled by what the sources use: segments nest, the radix holds until it is changed, `=` gives a value
at once, a plain name of data means its contents. So is NASM: one segment at a time, whose class belongs to its first
mention, `%define` keeps a text that is expanded where it is used, only brackets mean contents. A feature that is off leaves
out the lines of the source between the declarations that name its range (`Held`, `Dropped`), and puts the stubs where the
range opens (`StubBefore`): a range up to EOF takes in the end of its segment, and behind it a stub would lie in none. OFFSET
of a constant is its value, which `gw-basic/` uses some 200 times and which lets the converter drop the word; but MASM takes
the address if the file itself has a label of that name (`Referred`). RET in a PROC FAR returns to another segment (`InFar`).
PUBLIC makes a symbol of any name for MASM, and for NASM only of labels and `equ`.

`Texts` is any set of texts that MASM assembles (`TextsAssumption`), in the form `gw-basic/` has: segment lines, radix lines,
comment blocks and macros stand under no condition, segments nest as CSEG around DSEG, and what is placed lies in a segment.
All 35 files were compared with this. Three differ. `math2.asm` is the second half of `math1.asm` and has no segment lines of
its own; `gwmath_module.py` joins the two. `gwsts.asm:57` defines a macro without conditions in it under IF CPM86, which
changes nothing, as neither a macro nor what a false condition holds is assembled. `gwram.asm:38` labels data with a name of
the constant tables; `gwram_tables.py` rewrites that file.

`SamePlain` has premises, each needed: without it TLC finds a source for which the images differ. They were compared with the
sources.

- `OffsetsElsewhere`: no OFFSET of a name of the file that is an error or token. `gio86.asm` takes one, of DSKERR: a finding,
  section 4.
- `NoFarReturns`: no RET in a PROC FAR. `gw-basic/giodsk.asm:1213-1215` has the only one, behind two PUSHes of a segment and
  an offset; `masm2nasm.py:846` drops FAR, and `dw-basic/docs/conversion-audit-progress.md:798-801` asks for a review of it.
  It is left a premise and is no finding here.
- `DeclaredInPlace`: what is a plain operand has its data, or its external of a data type, in a data segment, where pass one
  looks (`collect_data_symbols`). The externals typed WORD that the tables list as constants (PRMSIZ, $ON, $OFF, $STOP) are
  no plain operand anywhere.
- `SwitchesUnconditional`: no segment line of the output stands in a condition of the source; converting every file of
  `gw-basic/` with `--conditional-segments` gives none.
- `ConstantsSettled`: no `%define` copies a name that gets another value later; the places where a file of `gw-basic/` does
  that are in `ibmres`, `gwdata` and `gwram`, whose tables are rewritten by the scripts that run next.

`SameExports` has the premise `PublicsAreSymbols`: a PUBLIC name given by `=` is a distance or one of `EquNames`. It fails
for INCSTR of `bistrs.asm` and for TRMLNF, TRMEOL and others: those become `%assign` or `%define`, and the object file does
not have them (`conversion-audit-progress.md:482-491` and 978-981, which find no file that would need them). Where it holds,
no symbol but the constants of the tables is lost.

`SamePatched` has the premises of `SamePlain` and `RangesApart`: ranges hold whole conditions and no segment line and do not
overlap or meet, have names of their own, start in the code segment if they leave stubs, and leave none that another range
starts or ends at. All hold for the ranges of `GNUmakefile:158-211` in the files they are applied to, which were converted
and compared.

## 4. Runs

| run | question | bounds |
|---|---|---|
| `sound` | `VectorsHandedBack`, `SpinEnds`, `WakeHasTick` for every program; foreground notes, resets, SYSTEM and polls return while the power stays on (`ReturnsWhilePowered`) | ring of 2, slices of 2, durations 0 and 3, one power-off |
| `sound_clean` | `RingConsistent`, `ToneHasNote`, `ImplementsNoteQueue` under `CleanSpec` | the same ring, durations 0, 1, 3, power stays on |
| `power` | `ResumesExactly`, `PowerOnReturns` | two register values, three presses |
| `disk` | cleanup after any failure, ownership of slots, contents over append, order of input | files 0 and two numbers, two slots, one name, one byte and ^Z, one byte of text per file |
| `trace` | `NoAddressTwice`, `Reached`, `NothingMissed`, `OneFileOffset` | 192 ROMs of eight bytes, six segments, two sessions of four command lines each, six blocks, three bytes a block |
| `emu` | `KeysInTime` (`KeysOnTheirMenu` and `DebugBeforeKeys`), `ResponseIsOwn`, `KeysChangeCleanly`, `OmittedWasSeen`, `EndsWithMame`, `NeverStuck` | two command lines, two leftovers, one retry before a deadline, two user commands, one unread EVT line |
| `card` | `FilesRead`, `NothingLost`, `CodeRunsInPlace`, `CallsLand`, `HandsBack` | a volume of eight clusters, four directory entries, all sixteen programs |
| `convert` | `SamePlain`, `SamePatched`, `SameExports`: the generated file against the source, in every build | sources of three out of 19 pieces, five lists of ranges, both radixes, with and without `--conditional-segments`, every assignment of three switches, the patcher run twice |
| `sound_power`, `disk_open`, `card_install`, `convert_offset` | disagreements of the code with its documentation | smallest that shows each |

Bounds. A ring of 2 fills, empties and wraps its indices at both ends; the byte `q_count` is modulo 4, so that a decrement at
0 wraps to a value above the ring's length, as 255 is above 32. A duration of 3 against a slice of 2 gives a note of two
slices, the second with `remaining` equal to what is left, and fifths to carry (12/5 of 2 and of 1); with 0 the note that
DONOTE refuses. `sound_clean` adds 1, a note below one slice. In `sound_power` durations of 5 and 10 leave no fifths, which
keeps that run small. One power-off in `Sound` is enough to lose the tick; three presses in `Power` are one in BASIC, one in
the trampoline and one in the startup after that.

In `disk` two slots and three file numbers make every allocation fail in some state; numbers and slots are interchangeable
(`Symmetry`). One name is enough, since a second number may read the same file. A text is at most one byte long, which with
its ^Z, or a ^Z that the program wrote, gives append all its cases: empty, ended, and ended by a byte that looks like the
end. `MaxLen` bounds the text, the position of a write and the bytes given to one number; without it a number left over from
a failed OPEN could go on for ever.

In `trace` the same byte of the ROM has several addresses: a segment of the profile and one that shows a bank read it, and a
far transfer registers three more, one inside the bank window, one that begins behind the window but in the 64 KiB of that
one, and one below a segment. The second, when it is mapped, has two bytes of the ROM behind it where a segment has three, so
it is `short` and a transfer to its third byte registers it again. Six blocks end some sessions early and not others; three
bytes a block make blocks that are cut. Two sessions are the least for `--load`. In `emu` one command line checks pictures
and sets all three kinds of debugger points, the other starts from a prepared NVRAM and compares nothing; a `:snap` after
another needs two commands. In `card` `DW-BASIC.COD` has three sectors and can lie in one piece, or around another file, at
the start of the volume or behind one; the first entry is deleted and taken again; the loader looks at three of the four
entries. In `convert` a piece is a segment block, a declaration with its use, a condition or a routine as `gw-basic/` has
them; three of them are enough for a block that comes first, between and last, for a name declared, used and declared again,
and for a range that occurs twice, with its end or without. The patcher is run twice because `apply_range` promises to leave
a range that is there alone (`source_feature_ranges.py:131-133`).

Deadlock is checked except where the system really stops. With power-offs a foreground note can wait for ever (a finding), so
TLC's deadlock check would stop `sound` and `sound_power` at it (`ReturnsWhilePowered` says that nothing stops before one);
in `Power` "firmware" is terminal; `trace` is over after its last session; `convert` when the file is written or the patcher
gives up; in `emu` the driver ends, and it waits for ever when MAME dies before it has a window.

Fairness. `Sound!Fairness`: the foreground's next instruction, the poll's, a pending interrupt and the expiry of a running
one-shot eventually happen. The processor and the counter do that by themselves; the user and the program get none. A
background DONOTE is not part of `ForegroundReturns` and `ReturnsWhilePowered`: nothing in the model says that ticks are slow
compared with instructions, and ticks that keep pace with `dw_music_start_next` could hold it in its loop. `Power!FairSpec`:
the machine is switched on again and executes; nothing is assumed of the user. `EmuDriver!Fairness`: the driver's own steps,
because its waits have deadlines (`connect_input_bridge`, the socket's time-out, `snapshot`, `wait_for_signpost`, `wait` in
the finally clause), and the death of MAME by SIGKILL; MAME's other steps, the user and ^C get none. `NeverStuck` starts
behind `find_mame_window`, because `xdotool search --sync` (`run_dwbasic_mame.py:63`) has no timeout.

### Findings

- `sound_power` (`ForegroundReturns`): a power-off while a foreground note waits; the resume puts FF back but not F9 and not
  the one-shot, and the loop at `dwstubs.asm:251-254` never ends.
- `disk_open` (`FailedOpenFreesNumber`): an OPEN that fails leaves its number allocated, so the next OPEN of it gives "File
  already open"; after a LOAD of a missing file FINPRT closes the unset handle, and the message is that of the failed close.
- `card_install` (`FilesRead`): `install_eromcard.py:69-77` writes each table entry three times, as if the table were three
  copies; the second and third place are entries of other clusters, and files there are lost.
- `convert_offset` (`SameWithOffsets`): `masm2nasm.py:384-389` makes `ERRC_DSKERR`, the number 49, of `OFFSET DSKERR`,
  although the file has a label DSKERR, the handler whose address is meant (`gw-basic/gio86.asm:2165` and 2205;
  `dw-basic/src/gw/gio86.asm:2002` and 2038). Only builds with `GW_KEEP_DOS_VECTOR_WRAPPERS=1` have the code.

Known windows and defects that no property above excludes, as they were met while modelling:

- `dw_music_reset` (`dwstubs.asm:409`) clears the indices with interrupts enabled; a tick in between leaves `q_head` and
  `q_tail` different. `CleanSpec` excludes it. The same holds of a stray tick that runs `dw_music_start_next` while DONOTE
  does (`dwstubs.asm:298`).
- The last note may end between `dw_music_install` and the enqueue: the handler is gone and the new note is not advanced before
  the next DONOTE.
- A press of the power key after `popf` and before the far jump (`dwstubs.asm:522-524`) makes the trampoline jump to itself;
  a press during ROM startup discards the session; `PowerOnReturns` names both; a press in the first instructions of the
  trampoline only leaves a mark, so that BASIC resumes and a later poll powers down into the built-in applications.
- `--stub basic-ram-load-probe`, which `docs/basic-eromcard.md:548` and 565 call for, can never be built: its template uses
  `{bank}` and `build_basic_ram_load_probe_stub` does not pass it, so that `format` raises KeyError. `Accepts` therefore
  refuses it.
- `--menu-vm` queues the handlers under the fixed name C772 (`trace_boot.py:519`); the profile v31-260 has its interpreter at
  C774 (`trace_boot.py:162`) and no C772, so every handler is dropped without a message (`trace_boot.py:411-413`), where
  lines 17-18 say that each is added as a seed. `MenuSeeds` takes both names as parameters; the run gives them the value of
  the other profile.
- `masm2nasm.py`: a line given out as nothing (ENDP, ADRP) takes a switch to DSEG that was due with it (`masm2nasm.py:703`
  and 851, 859); a condition whose first datum is the first of its segment block hides the switch when it is off. No source
  has either.
- The recipes of `GNUmakefile` convert and patch in several commands without `.DELETE_ON_ERROR`: if the patcher gives up, the
  file that is only converted stays, and the next make takes it as up to date (`GiveUp` leaves `disk` as it is).
- Most programs of the builder leave the card page mapped at an exit, where `docs/basic-eromcard.md:672-675` promises that it
  is unmapped (section 3, Card).
- `trace_boot.py:6` promises that no address is disassembled twice; a segment that is registered again loses what was covered
  (section 3, ROM tracer).
- `dw-basic/src/gw/giodsk.asm:1171-1172`: the RET of a PROC FAR is a near one (section 3, Source converter).

## 5. Theorems

`SoundProofs` proves `Spec => []SoundInv`, and from it `TypeOK`, `VectorsHandedBack`, `SpinEnds` and `WakeHasTick`, for every
ring length smaller than the counter's range, every slice for which 12 * slice + 4 < 5 * 256 (the timer count fits its byte;
40 does) and every set of durations (`SoundAssumption`).

`SpinEnds` is not inductive. It needs that the handler stays installed while a note waits (`NoteOwnsF9`), which needs that
no tick can find the queue empty and restore the vector under the note, which holds because the reset before the note
leaves nothing to play (`NothingToPlay`, stated by how many of the eight stores are done), which needs that only the
background path writes the queue (`ModeOK`). `Unmasked` says that the mask is open at the store that starts the one-shot,
`AccumulatorOK` that the count then stored is not 0, the value that would stop it. `HandedBack` is the step before exit.

It also proves `CleanSpec => []CleanInv`, and from it `RingConsistent`, `ToneHasNote` and, as `CleanSpec =>
ImplementsNoteQueue`, the refinement: the initial state maps to that of `NoteQueue`, and each step of the foreground or of
the interrupt is one step of the queue or none. The invariant says who owns what the handler and DONOTE share. While DONOTE
is starting a note no tick can come (`NoTickWhileStarting`), and while a note plays there is one tick under way at most
(`OneTick`), so that `dw_snd_active` divides the two (`ActiveWhile`). A note under way has units left and its slice is cut
from them (`LeftOK`); the registers carry the entry of the ring that is being stored or taken (`NoteOK`); while nothing plays
there is at most the one note that is about to start (`OneWaiting`). `RingOK` is `RingConsistent` with the entries'
durations, none of which is 0: a 0 would be taken for an empty queue. `TickFindsNote` is where it meets: a tick that finds
the note over finds the ring as the last store of the foreground left it.

`PowerProofs` proves `Spec => []PowerInv`, `TypeOK` and the action property `ResumesExactly`, for every set of register
values and every number of presses. `HandlerInPlace` gives vector and interrupt flag at each instruction, `PointerFromPress`
says which addresses a press can have saved, `ContextKept` where the interrupted registers are while the saved pointer is
BASIC's.

`DiskProofs` proves two invariants. From `Spec => []DiskInv` follow `TypeOK`, `StatementLeavesNothing`, `CleanupEnds` and
`SlotsOwned`, for every set of file numbers, slots, names and bytes. `DiskInv` has three parts besides the types. `Control`
says what each label relies on: which file CLSFIL is closing and that FREFDB names it (`Places`), that a load in progress has
had no error (`Loading`), and how many errors a label can have behind it (`ErrorPath`): the only firmware calls that can fail
after an error are those of CLSFIL for FINPRT, which closes file 0, and then FREFDB is file 0, so the next FINPRT frees it
and closes nothing. That, and `CleanPath`, which says where file 0 is free already, bound the errors and leave the state
clean. `Owners` strengthens `SlotsOwned`: an FDB that still waits for its handle may name a slot by chance (the stale word)
and must not count as its owner, and FINPRT frees no FDB whose slot is still open.

The second, `DataInv`, is about contents, and rests on the first; from it follow `EachFdbItsSlot`, `TextOnDisk` and
`ReadsInOrder`. An FDB `Holds` a slot if it is allocated and neither still waits for its handle nor is about to be freed by
FINPRT. Until an OPEN fails, what holds a slot holds one of its own (`Each`), a file that is written is open under one number
(`Apart`), and the bytes given of a file are those before its position (`InOrder`). `Apart` also speaks of the OPEN under
way, since `Shares` is tested two firmware calls before the slot is taken. Until anything fails, `Written` relates content,
history and position. The hard part of it is append: `dw_append_seek` takes a last ^Z for the end mark, so it must be known
that a text that ends in the program's own ^Z has another one behind it whenever it can be opened, which is every text file
that has no writer. `Steering` carries the mode and the statement to the label where the code relies on them, and `Fresh`
says that a block that is not read has nothing backed up.

File number 0 is the constant `File0`, of which nothing is used but that it is none of the other numbers. Besides being
enough, this keeps the proofs sound: when an obligation mentions a sequence, the SMT encoding of the prover gives every
function in it the domain `1..Len`, which a domain with a literal 0 contradicts. The leaves of all proof modules were tried
with the goal FALSE under the same facts; only those of impossible cases could prove it.

`TraceProofs` proves `Spec => []Inv`, and from it `TypeOK`, `NoAddressTwice` and `Reached`, for every ROM, profile and list
of seeds that `TraceAssumption` and `ProfileAssumption` allow. That types are kept is not simple here: a block steps from
address to address without looking at its segment's end, and what keeps it inside is that a segment reaches the end of the
ROM or of its 64 KiB. For a segment registered on the way this depends on its base, and the base on the bank windows:
`SegInv` says that a base is the profile's, or the segment's own address, or lies behind a profile segment's bank; with too
little behind it the segment is `short`. `NoAddressTwice` needs that the bytes of all blocks are covered (`BlocksOK`) and
that the block under way began and stepped only on bytes that were not (`CurOK`). `Reached` needs the same of what waits in
the list (`PendingReached`). When a session loads blocks, some are left out and the others keep their order (`PickedInOrder`,
which rests on `NthExists`: the members of a finite set of indices can be counted off).

`TraceSessionProofs` proves the two properties that span sessions, over `Inv`. `OneFileOffset` is inductive with it: a named
segment that is not `Banked` is registered at its home, whoever registers it (`FileBasesHome` is the case of the far
transfer, and the closure in `Banked` is what it needs; `SessionHome` that of a new session), more names except more
(`BankedGrows`), and an alias is noted only under the byte its block begins at (`NoteNames`). `NothingMissed` follows from
`CoverInv`: an address that is a target or a seed is `Due`, which is to say its segment is `short`, or it is a byte of some
block or a stop (`Met`), or out of the ROM in any session (`OutOfRom`), or still in the list, or the block under way begins
there. `Due` outlives a session although the table of segments does not, because neither `Met` nor `OutOfRom` mentions it.
`WalkShape` and `StoppedMet` are for the block under way, whose targets are queued only when it is stored. `--load` drops
entry points that lie in a loaded block; that these are met, and that the file holds every block (`PickedAll`), is the step
that begins a session.

`EmuProofs` proves `Spec => []Inv`, and from it `ResponseIsOwn` and `EndsWithMame`, for every set of runs, leftovers, keys
and bounds. The driver does not compare what it reads with what it asked beyond a prefix, and for keys and text not even
that, so the argument is about the socket as a whole: `Wire` says that between two requests no command and no response is
under way, only EVT lines, and that while the driver waits there is its own command, or at most one line that is no EVT line,
which answers it. What is dropped of a chunk behind its first line are EVT lines then. An EVT line that comes first is taken
for the response and fails the request. `Life` says that MAME is launched once, that the driver ends regularly only behind
its end, and that it gives up its second wait only after SIGKILL.

With types (`TypeInv`, from which `TypeOK`) it proves the other properties of the driver too. `KeysChangeCleanly` rests on
the queue: whatever a command adds begins and ends with nothing down and changes cleanly in between (`Tidy`, for a text by
induction over its characters), so what is down and what is queued change cleanly as one (`Joined`), whichever request added
which part. `OmittedWasSeen` is a lemma about `ChangedLines` and needs no invariant but that there is one new picture
(`OneNew`): the shift is chosen, and a row that is left out equals a row of the old picture under any. `KeysInTime` has two
halves. For the debugger points `PointInv` says that they are set whenever a key is queued, down, sent or next to be sent:
the batch is sent at the first menu, and no key before it is answered; `BatchSets` computes what a batch leaves, clearing
before setting. For the menus `MenuInv` compares what the driver knows with where the machine is. Before the driver's last
key went down (`emu.keys`), the queue, what is down and the socket hold no key at all or the next one, whose menu is there
and stays (`Pipeline`, `Coming`, `Held`), and the machine shows that menu or is still to draw it (`Position`). `Progress`
ties this to the driver: it looks for menu `stage` with the key before sent; it goes on only if a picture that is new shows
the menu, and then the menu is there with no key under way (`Ready`), because a menu's picture is new only when taken after
`before` was listed, and a menu that was left is not on the screen again. `Off` is about a MAME that does not run. TLC
checked the conjuncts on the instance of `emu` before they were proved.

`CardProofs` proves `Spec => []CardInv`, and from it all that the runs check of `Card`: `TypeOK`, `FilesRead`, `NothingLost`,
`CodeRunsInPlace`, `CallsLand` and `HandsBack`, for every volume, directory, set of files and cards the assumptions allow.
`CardInv` has two parts. `VolumeHolds` relates table, directory, data and the history `files`: each entry in use has a chain,
an ascending row of clusters the table links (`IsChain`), which holds the sectors of its file (`Filled`) and shares no
cluster with another (`Chained`); a cluster that is in none is free (`Owned`); the directory names what was written last,
each once (`Listing`). The chains are existence claims, and what makes them usable is that walking the table finds them
(`WalkedChains`). The proof has to know that writing an entry leaves its neighbour's half of the byte they share, that a
chain of fewer than FF8 clusters is walked to its end, and that `FirstOf` counts off the least free clusters; recursion in
the model is proved through `Iterates` and `UpTo`, instances of well-founded induction that take sets in place of predicates.
`MachInv` is about programs that are half done: what is left of one still puts back the LCD, the flag and the data segment or
they are as the menu has them (`Hands`), maps the page before it calls into it or the page is mapped (`Mapping`), and
branches only where nothing is taken yet (`BranchesFirst`), which is why a way out needs no cleaning up. The file needs more
than that: `FileClosed` follows the one program that opens it from step to step. That each of the sixteen programs starts out
so is a lemma for each (`ProgramStarts`), the longer ones put together from parts.

`ConvertProofs` proves `Spec => []TypeOK` and `Spec => []SamePlain` (`ConvertedRight`), for every set of sources and switches
and both radixes, from `TextsAssumption`, `RangesAssumption` and the assumptions on names. `SamePlain` is a simulation: in
every build in which the segments are well used, the state of NASM behind the lines written so far goes with the state of
MASM behind the lines read so far (`Body`). What goes together (`Follows`) is, first, `Alike`: labels, counts and open
conditions are equal, and the images are, up to the segments in a flat build. The constants are not equal, since `%define`
keeps a text: `Meaning` says that one assignment of values solves the equations of both. It is the only one because the names
that a text expands to can be ranked below it (`Ranked`, which `ConstantsSettled` gives), so the recursive function `Stands`
has one value. Second, where a line stands: `Level` ties MASM's segments, conditions, blocks and radix to `block`, `radix`
and the nesting of the source (`Here`), and in a split build NASM's segment is MASM's unless a switch to DSEG is still due
(`Facing`), and then nothing may be placed before it is written, which `Emit` does. The classes of NASM are those in
`declared`. That a switch is never lost under a condition is `SwitchesUnconditional`, a premise on the finished file, so the
proof goes back from it: what is written is a prefix of the file (`Relied`). One lemma for each line of the source says that
MASM's step and NASM's keep all this (`DatumLine`, `ConstantLine`, ...), and one for each action that the converter writes
that line.

Only model-checked: `SamePatched` and `SameExports`; in `Power`, `PowerOnReturns`; and the other
liveness properties, which with ENABLED are beyond the prover. RECURSIVE
operators are beyond the prover too, and the proved modules use none; recursion in
them is a recursive function, about which `Iterates` and `UpTo` say what is needed.

## 6. Not modelled

Of `dw-basic`: the console, the keyboard beyond its ticks, random files and the other statements of the disk, and the
loader's data segment, overlay and exit thunk; they are planned above. GW-BASIC's own statements are Microsoft's and enter
only as callers. Video timing, the keyboard matrix and the sound's frequency are outside every property stated. Of the
bridge: the debugger's execution control (DBGGO, DBGSTOP, DBGSTEP) and what queries of memory and registers return. The other
tools (`rom2.py`, `gen_asm_from_disasm.py`, `disassembly_audit.py`, `flat_runtime_patches.py` and smaller ones) turn text
into text, by rules over listings, without state that outlives a call. `extract_wp_nvram.py` only reads; its clusters have
0x400 bytes (line 17), as `docs/wp-edited-file-format.md:1190-1197` gives for a built-in store, those of the volumes that
builder, installer and loader know 128 (`docs/basic-eromcard.md:297-298`). The repository does not say which holds of a
built-in store, so neither is taken for a finding. Of `masm2nasm.py`: the syntax of single operands and instructions, `$` by
itself, ORG, INCLUDE and the macros it translates. `third_party/` is vendored.
