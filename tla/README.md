# TLA+ specifications of the kernel NES emulator

The repository is a small x86 kernel (a derivative of PeachOS) that boots, draws
a menu of NES ROMs, loads the chosen one from a FAT16 disk and runs it on an
emulated 6502, logging every instruction. This directory models its core
logic in TLA+. TLC checks the models on small instances; for the heap and its
loops, the trace log, the kernel, the file system and its blocks, the CPU and the processes
TLAPS proves the safety results for every instance. All source paths below are relative to
`src/src/`.

## Inventory

| Component | State | Operations | Module | What makes it correct |
|---|---|---|---|---|
| kernel heap, `memory/heap` | block table, memory | `kheap_init`, `kmalloc`, `kzalloc`, `kfree` | `HeapSpec`, `Heap`, `HeapLoops` | buffers are private, zeroed, inside the heap; nothing leaks |
| trace log, `emulator/CPU/tracelogger.c` | doubly linked list, length, operand index, selection | `add_tracelog_entry`, `remove_first_entry`, `tail_log_set_*`, `scroll_up`, `scroll_down`, `tracelog_print_entries` | `Tracelog` | the list is well formed and holds the last instructions; what is shown is in it |
| main thread, menu, terminal, `kernel.c` | `kernel_initialized`, `rom_selected`, `cursor_index`, `test_roms`, `terminal_row`, the screen | `kernel_main`, `draw_menu`, `increment_cursor`, `decrement_cursor` | `Kernel` | the ROM marked and chosen is the ROM that runs |
| keyboard, `drivers/keyboard`, `idt` | none | `int21h_handler`, `handle_scancode` | `Kernel` | safe between any two statements of the main thread |
| emulated CPU, `emulator/CPU/emulator.c` | registers, RAM, ROM, cycles, halt flag | `emu_init`, `emu_reset`, `emu_run`, `emulate_CPU` | `CPU` | stack discipline, exact arithmetic, agreement with the opcode table |
| opcode table and debug tracker, `emulator/CPU/opcode_table.c`, `emulator_debug.c` | constant rows; what an instruction touched | `compare_with_table` | `OpcodeTable`, `CPU` | table and switch describe the same instruction set |
| VFS, `fs/file.c` | descriptor table | `fs_init`, `fs_resolve`, `fopen`, `fread`, `fseek`, `fstat`, `fclose` | `FileStore`, `Files`, `FileBlocks` | a number names one open file; calls do not disturb others; a close returns what its open took |
| FAT16, `fs/fat/fat16.c` | positions of open files, three shared streams, root directory, items and directories on the heap | `fat16_open`, `_read`, `_seek`, `_stat`, `_close`, `_resolve` | `Files`, `FileBlocks` | a path opens its file; a read delivers the file's bytes; no structure is used after it was freed |
| path parser, `fs/pparser.c` | none | `pathparser_parse` | `Files`, `FileBlocks` | the parts in order |
| disk stream, `disk/streamer.c` | position | `diskstreamer_new`, `_seek`, `_read`, `_close` | `Files`, `FileBlocks` | every read returns, and returns consecutive bytes |
| paging, `memory/paging` | page tables, the directory in use | `paging_new_4gb`, `_set`, `_map_range`, `_free_4gb`, `_switch` | `Processes` | an address space has its own program at the program's address and the rest of memory, for reading, in its place; a program can write its own binary only |
| tasks and processes, `task` | task list, process table | `task_new`, `task_free`, `task_switch`, `process_load` | `Processes` | the list is the live tasks; a process is registered complete or not at all |
| disk driver, GDT, IDT tables, boot, libraries | hardware tables | | not modelled, but for `disk_search_and_init` | |
| PIT, VGA, PPU | | | not modelled: not run | |

How they interact. `kernel_main` calls everything else, in one thread. The only
concurrency is the keyboard interrupt, which runs to its end between two
instructions of the main thread and shares with it the menu (cursor, terminal
position, screen), the flags `kernel_initialized` and `rom_selected`, and the
trace log. The heap and the files are used by the main thread alone: before the menu for
the disk, after it for the ROM, and during the emulation for log entries.

What is hard: interrupts between the statements of `draw_menu` and
`add_tracelog_entry`; entries freed while selected; the limits of the heap and of
the descriptor table; zero and wrapped sizes; allocations that fail in the middle
of a call, and structures freed on one path and used on another; reads across
cluster and sector boundaries on a shared stream; lists and tables whose blocks
are reused; a stack that wraps; an expression with two side effects on one
register. `PROJECT.json` lists each hazard at its line.

## Modules

**HeapSpec** is the promise: a holder's buffer is a function from block
numbers to contents, private to it and zero when handed out, and a request is refused only
when no run of the heap's blocks is long enough. It has no table.

**Heap** has the table (an entry is its set of flag bits) and memory per block.
`Allocate` is `kzalloc` succeeding, from size rounding in 32-bit arithmetic through
search, marking and `memset`; `Refuse` is its NULL; `kfree` and `Store` are what
holders do; `kfree_NULL` is the one caller that frees a NULL (the error path of
`add_tracelog_entry`). The search is stated by what it returns: the first
run that fits, else the free run at the table's end, however short, else an
error. `PhysBlocks` is the memory from the heap's start on, so that buffers past
the heap's end have somewhere to be. `outside` records table writes out of range.

**HeapLoops** runs the same calls one loop iteration per step on the code's own
loop variables (`i`, `bc`, `bs`, `entry`), and implements `Heap`: during a call
the table is mapped to what it was when the call began.

**Tracelog** has the list as links between heap blocks. `lpc` is the statement of
`add_tracelog_entry` to run next; each statement that an interrupt can tell apart
is an action. `kzalloc` hands out the lowest free block zeroed, as a
one-block first-fit does; `kfree` leaves contents in place. Blocks available to
the log are any set, the empty one too, so that allocation can fail at every
entry. Reading through NULL yields the pointer `WILD`: page 0 is mapped, so the
code does not fault there. `trace` (all entries), `log` (the blocks in the list, oldest
first), `evicted` and `refused` are history.

**Kernel** composes the log with `kernel_main` from `enable_interrupts` on. The
main thread's actions are the statements that share state with the interrupt;
each key is one action. The menu is kept as the rows that show the mark; a line
is drawn in two steps, because the coordinates are loaded before the character
is stored (the build is `-O0`), and `terminal_row += 1` is a load and a store.
After an interrupt between the two, the one character in flight lands on the mark's
place or not: both are allowed. An instruction of the emulated CPU is its opcode,
the number of operand bytes and its cost.

**CPU** has one action per kind of instruction, selected by the labels of
the switch (`OpcodeTable!Cases`: opcode, operation, addressing mode). The ROM is
arbitrary: opcodes and other bytes come from the sets of `program`.
The order of the two side effects in `ADC_op` and `SBC_op`, which C leaves open, is a choice.
`writes_tracked` is the debug tracker's flag, as in a build with `DEBUG`.

**OpcodeTable** is `num_bytes`, `cycles`, the registers written and the writing rows
of `opcode_table`, and the cases of the switch.

**FileStore** is what the calls promise when the disk is in order: an open file is
its bytes and a position, and an `fread` delivers the bytes at the position of
its own descriptor, moves no other, and never touches the bytes.

**Files** has descriptors, path walk and reading, and implements `FileStore` on
contiguous files. Bytes on the disk are
their positions, so what a read delivers is the sequence of positions copied.
`fread` runs piece by piece (`read_cluster`) and sector by sector
(`diskstreamer_read`); the other calls are one action. A directory is its raw entries up to the end mark.
`IsVolume` is all that is assumed of a disk: a FAT of numbers and marks, and directories
of entries, an entry for a directory leading to one. Chains may be fragmented, cyclic, too
short or end in a mark the code does not know. `Openable` is every early
return of `fopen` before the path is walked. An open directory may be read, with
any first cluster, because the code reads that field behind its structure.

**FileBlocks** runs mounting, `fopen` and `fclose` one allocation at a time. A structure
is one heap block; `mem` keeps the kind of structure and its pointers also when
the block is freed, so that a dangling pointer reads what is there, old or new.
Every `kzalloc` is a step that may be refused, with what the code does then:
an early return, a shorter path, a NULL that is used, a freed directory that is
returned. For a directory without entries `fat16.c:447` asks for no bytes and gets
the first block of the free run at the heap's end (`NewEmpty`), which stays free
(`load_no_items`): the next structure may take it, and `fat16_free_directory`
frees it all the same. `no_block` remembers the first `kzalloc` that returned either
NULL or such a block; until then the module implements `Files`, whose calls are
single steps. Afterwards blocks may be shared; an `fclose` through structures that
others have replaced (not `Closable`) jumps through them, and the model says no more (`wild`).

**Processes** has page tables, tasks and processes in the same kind of memory. A page
directory and its tables are blocks with entries; addresses are page numbers, and the
heap's pages (`PageOf`) are among those that the tables map. Loading
goes allocation by allocation, the list operations are single steps. `paging.c` is
part of the kernel and used at boot; `task/` is in the repository but not among
the makefile's objects and has no caller, so its public functions are called in
any order, `task_free` and `task_switch` for live tasks. Where the code goes
on through NULL, an uninitialised pointer or a reused block into page tables, the
model enters the state `wild`, of which nothing is said.

`MCHeap`, `MCFiles`, `MCFileBlocks`, `MCProcesses` and `MCCPU` give the constants that a cfg cannot.
`HeapProofs`, `HeapLoopsProofs`, `KernelProofs` (with the log's lemmas), `FilesProofs`,
`FileBlocksProofs`, `CPUProofs` and `ProcessesProofs` hold the theorems; `NatLemmas` has what
several of them need of the naturals. Each inductive invariant stands in the proof
module that needs it.
Operators whose names begin with `bug` or `Bug` are defective variants of the
definition that follows them, used to see that the properties notice them; no
specification uses them.

## Runs

| Run | Checks | Result |
|---|---|---|
| `heap` | table and buffers agree, nothing leaks, buffers disjoint, `HeapSpec` implemented | holds |
| `heap_loops` | the loops implement the calls (size 0 included); every call returns | holds |
| `heap_over_end` | `BuffersInHeap` | violated: a too short run at the end is handed out (`heap.c:115`) |
| `kernel` | log well formed and equal to the history, operands in bounds, shown entries in the log until an eviction, chosen ROM booted; the run ends | holds |
| `kernel_scroll` | `ScrollStaysInLog` | violated: the selected entry is evicted and freed (`tracelogger.c:106`) |
| `kernel_menu` | `EnterRunsMarkedRom` | violated: a key during the first `draw_menu` (`kernel.c:243`) |
| `files` | path lookup, `FileStore` implemented on contiguous files, aligned elements of all files, reads past the chain fail; reads return | holds |
| `file_blocks` | descriptors own their blocks alone, only taken blocks are freed, what an `fopen` leaves and what an `fclose` returns, `Files` implemented; opens return | holds, all but the last until a `kzalloc` returns NULL or, for a directory without entries, a block that stays free (`fat16.c:447`) |
| `files_fragmented` | `ReadsFile` | violated: a piece crosses a cluster's end (`fat16.c:378`) |
| `processes` | address spaces, what a program can write, task list, ownership of page tables, registered processes | holds; the list until a task is freed whose `prev` is not the task before it (`task.c:63`) |
| `cpu` | stack, arithmetic, agreement with the table on lengths, registers and memory writes | holds, but for DEY's register (`emulator.c:300`) and the stores of ORA, EOR, AND on memory |
| `cpu_overflow` | `OverflowAsCommented` | violated: `bit_XOR_A` changes A (`emulator.c:919`) |

Bounds. *Heap*: 4 blocks, 3 holders, sizes of 1 to 3 blocks, exact multiples
included: fragmentation, a run too short in the middle and at the end, and
exhaustion all occur. The memory behind the heap is as long as the longest
request, so no store leaves it. *HeapLoops*: 3 blocks, 2 holders, sizes of 0 to 3 blocks.
*Kernel*: 4 blocks, a log of 3 entries (`MaxLength` 2), 1 line per page, 2 ROMs; a run
of 3 instructions of cost 2 and up to one of cost 0 in front of each
(`MaxFree`), enough for an eviction and the reuse of the freed block; scrolling
up through a freed entry stops at `MaxDrift`, a bound of the model.
*Files*: sectors of 2 bytes, clusters of 2 sectors, a file of 6 bytes in 2
clusters, contiguous on one disk and backwards on the other, which also has a
deleted entry and ends its chains with a mark the code does not know; 3 descriptors.
Reads of 2 elements of 3 bytes and of one of 5, from the start and from 5 and 6,
begin, cross and end at every kind of boundary, and pass the chain's end; `MaxPos`
bounds positions. *FileBlocks*: 2 descriptors, a root with a file and a directory
of one name, paths of one and two parts, with a file in place of a directory too, and a
second disk whose directory has no entries. The heaps of 6 to
18 blocks refuse each `kzalloc` of some call, the one of 25 has a full table of
descriptors before any is refused. *Processes*: tables of 8 entries, the heap from the
second table's second page on, so that all of it is mapped; 3 processes,
a program of two pages, a missing, an unreadable and an empty file. Heaps of
11 to 23 blocks refuse each kind of allocation of the first load; the one of 54 holds three
processes, enough to free a task in the middle, then the one behind it, and to
reuse the blocks of a freed task for another process.
*CPU*: four
families of programs, each to its own cycle limit: stack programs with every
push and pull and a stack pointer set near the wrap, arithmetic on the edge
values, stores and read-modify-writes, and all opcodes once or twice.

Fairness. `HeapLoops`, `Files` and `FileBlocks`: a call that has begun goes on (nothing else
runs, interrupt handlers return, and the disk driver polls until the disk is
ready). `Kernel`: weak fairness of the main thread as a whole, which an
interrupt only delays; no key is ever required to be pressed.
In `Kernel` an instruction without cost can be repeated only `MaxFree` times:
such an instruction only moves the program counter on, and after the ROM the counter
reaches the unmapped range, which reads as BRK, so the code has a finite bound as well.
`Processes` and `CPU` state no liveness: nothing in the code schedules tasks.
Deadlock is checked in every run.

## Proofs

Every theorem holds for all values of the constants that satisfy the assumption of
its module, and for all behaviours; the runs' bounds play no part. Each invariant
proved below is one that a run checks, strengthened until it is inductive.

| Module | Theorem | States | Hypotheses besides the module's `ASSUME` |
|---|---|---|---|
| `HeapProofs` | `HeapSafe` | `[]HeapInv` | `OrdinaryRequests` |
| | `HeapTypeCorrect`, `HeapNoOverlap`, `HeapNoLeak`, `HeapChains` | `TypeOK`, `BuffersDisjoint`, `NothingLeaked`, `ChainsMatchBuffers` | `OrdinaryRequests` |
| | `HeapImplementsSpec` | the refinement of `HeapSpec` | `OrdinaryRequests` |
| `HeapLoopsProofs` | `LoopsCorrect`, `LoopsRefineHeap` | `[]LoopInv`; the refinement of `Heap` | none |
| `KernelProofs` | `KernelInvariant`, `KernelTypeOK`, `RunsChosenRom` | `[](LogInv /\ KernelInv)`, `TypeOK`, `BootsChosenRom` | none |
| | `LogListWellFormed`, `LogHoldsHistory`, `OperandIndexBounded` | `ListWellFormed`, `LogIsHistory`, `OperandsInBounds` | none |
| | `PrintsOnlyLog` | `PrintsLogUntilEviction` | `DriftWithinPage` |
| `FilesProofs` | `FilesInvariant`, `FilesTypeOK` | `[]FilesInv`, `TypeOK` | none |
| | `AlignedReadsDeliver`, `ReadsPastChainError`, `OpensWhatIsNamed` | `ReadsAlignedElements`, `ReadsPastChainFail`, `OpensNamedFile` | none |
| | `FilesImplementStore` | the refinement of `FileStore` | none |
| `FileBlocksProofs` | `FileBlocksInvariant`, `BlocksTypeOK` | `[](StateOK /\ BlocksInv)`, `TypeOK` | none |
| | `NoBadFree`, `DescriptorsApart`, `CloseFreesExactly` | `FreesOnlyTakenBlocks`, `DescriptorsOwnTheirBlocks`, `CloseFreesOwned` | none |
| | `BlocksImplementFiles` | `ImplementsFiles`, the refinement of `Files` | none |
| `CPUProofs` | `CPUInvariant`, `CPUTypeOK` | `[]CPUInv`, `TypeOK` | none |
| | `PullsPushed`, `PushesInPage`, `ExactArithmetic` | `PullsWhatWasPushed`, `PushesStayInPage`, `ArithmeticExact` | none |
| | `LengthsAgree`, `RegistersAgree`, `WritesAgree` | `LengthsMatchTable`, `RegistersMatchTable`, `WritesMatchTable` | none |
| `ProcessesProofs` | `ProcessesInvariant`, `ProcessesTyped` | `[]ProcInv`, `TypeOK` | none |
| | `AddressSpacesHold`, `WritesOwnBinaryHolds`, `TaskListHolds`, `PagingBlocksOwnedHolds`, `RegisteredCompleteHolds` | `AddressSpaces`, `WritesOwnBinary`, `TaskList`, `PagingBlocksOwned`, `RegisteredComplete` | none |

**Heap.** `OrdinaryRequests` is sizes of at least one byte that do not wrap when
rounded up. It is needed: a request of size 0 (`fat16.c:447` makes one for an
empty directory) returns a block that stays free and soon is another's too; with
size 0 among the sizes TLC finds `BuffersDisjoint` violated. No buffer need lie
in the heap for these results; that part of the promise fails (`heap_over_end`), but
such a buffer is still private, because it leaves the last block taken and so
there is at most one. `BuffersDisjoint` is not inductive: a `kfree` releases what
the table's chain says, and an allocation believes the table. `HeapInv` adds that
each buffer's entries are one chain that starts and ends with it
(`ChainsMatchBuffers`), that no other entry is taken (`NothingLeaked`), and that a
buffer held has at least one block and fits in memory (`BuffersSized`).
`WholeBlocks` is the arithmetic of rounding: the blocks cleared are the blocks
handed out. `FreshBlocks`: what the search returns is in no buffer.
`ChainIsBuffer`: what `kfree` clears is the buffer's part of the table. For the
refinement each action of `Heap` is an action of `HeapSpec`.

**Loops.** `LoopInv` says what each loop has done so far: the search has passed
over no run that fits and `bc` free entries end at `i` (`SearchInv`), marking has written
a prefix of the chain (`MarkTakenInv`), freeing has cleared one (`MarkFreeInv`). A
step in a loop is a stutter of `Heap`; the last one is `Allocate`, `Refuse` or
`kfree` (`ReturnAllocates`, `NoMemoryRefuses`, `MarkFreeEndFrees`), because the
search's answer is the one `Heap` defines (`SearchAnswers`). Sizes of 0 and sizes that wrap
are included: what fails with them is the promise of `HeapSpec`, not the loops.

**Log and kernel.** `LogInv` relates the links to the sequence `log`, statement by
statement: `Ends`, `Lengths` and `Links` say which pointer is not yet, or no longer, what
the list needs at each `lpc`, `EntryInv` that the block in hand is apart from the list,
and `HistoryInv` that contents are the newest of `trace`. Each statement and each key preserves
it, so it holds for any interleaving; `ListWellFormed` and the others follow
where the list is whole. `SelectionInv` says how far the selection can be from
its index. With it, `PrintsOnlyLog` needs `DriftWithinPage`: no more W keys
between the two statements that set and select the first entry than a page has
lines (24 in the code). With more, an S key could move the selection
over the end of the list. What a key prints is a recursive
function on the lines; its values are exhibited and checked, not found by
induction. `KernelInv` has, for each place of the main thread, which
paths are set, that the log is empty before the emulator runs, and that the
ROM chosen is the cursor's at Enter.

**Files.** What a finished read has delivered says nothing of a read half done, so
`FilesInv` follows it piece by piece: the request, the descriptor and the history agree (`Requested`),
bytes copied, bytes left of the element and elements left add up to the request
(`Progress`), the last element was started in a cluster of the chain (`LastStarted`), an aligned
read stays aligned and no piece of it crosses a cluster's end (`StaysAligned`), and
the bytes copied are the file's up to the offset, with the stream at the next one
(`BytesInv`). The last holds for elements aligned to clusters or files that are
contiguous, where a piece that crosses a cluster's end runs on into the right
cluster; for the rest it is false (`files_fragmented`).
`fat16_get_cluster_for_offset` follows the chain of the reference definition until its end (`OffsetFollowsChain`),
and the walk along a path reaches an entry at it, and every one in tidy
directories (`WalkFinds`). Both are recursive functions; a recursive function is shown to exist and to be unique by
a least counterexample (`IterationExists`, `WalkExists`, `FoundExists`), and so is what it
returns. For the refinement, pieces of a read are stutters or steps without
effect, and its last step is `Read` or `ReadBeyond` (`StoreReadEnds`).

**File blocks.** The structures are trees: every pointer of a taken block is
to a taken block of the kind it is for, and no two point to the same (`Trees`).
`DescriptorsInv`, `MountInv` and `WalkInv` give the roots: each open descriptor, what mounting
left, and what the `fopen` being run holds at its place in the code. Taking a
block, storing a pointer to a root and freeing a whole tree keep trees (`AllocTrees`,
`LinkTrees`, `FreeTrees`). All of it until a `kzalloc` is refused or a directory without entries is
loaded (`no_block`), which is when the code goes on with pointers to blocks it does not
hold: on a disk with such a directory the theorems say nothing of what follows its
loading. `StateOK` and `BlocksTypeOK` hold after that too.
For the refinement `RefineInv` says where the `fopen` being run stands on the walk of
`Files`: the parts parsed are the first of the path (`PathInv`); the directory being searched
is the one the walk has reached, the item built is the last match passed,
and the stream is where the directories loaded so far left it (`SearchInv`), until
the item is the one that `Files` would open (`ArrivedInv`). Parsing,
searching and each allocation are stutters; the last step is the `fopen`,
`fopen_rejected` or `fclose` of `Files` (`SeenOpen`, `SeenRejected`, `SeenClosed`). `WalkSteps`
unrolls the recursive walk of `Files` by one directory, which is what one
round of the search does. `DisksAssumption` asks of the disks what `Files` does, and that a
directory's entries fit a block (128 of them in 4 KiB).

**CPU.** `CPUInv` is the type invariant and that each frame on the
stack holds the bytes pushed (`FrameHolds`), where a frame is dropped from the
history once the program has overwritten it. A lemma per kind of instruction says what it touches
(`LDEffects` to `BITEffects`), so that a frame survives what writes elsewhere, the wrap
of the stack pointer included. The properties about the opcode table are
proved row by row for the table's 256 rows (`TableLengths`, `TableRegisters`, `TableWrites`).
`CPUAssumption` is only that ROMs consist of bytes.

**Processes.** `AddressSpaces` rests on who owns which block: a store into a table
could show in another space, and a free could return another's block.
`ProcInv` has the blocks' structures (`Typed`), that the kernel's space and those of the live tasks
are disjoint and are all the taken paging blocks (`Spaces`), what they show
(`Views`), that the processes in the table and the one being loaded hold blocks of
their own that are not paging blocks (`Owners`), that tasks and processes name each other (`Tied`), and how
far the load in progress has come (`Filled`, `LoadInv`); and `TaskList`. The
operators take the memory as a parameter, so that a step is a change from `m` to `n`
that keeps every block in use (`Kept`, `Untouched`, `Takes`) and adds or drops one space
(`SpacesAdd`, `SpacesDrop`). Wild states are typed and no more. Spaces are not closed to
each other: `task_init` maps all memory to itself for user access (`task.c:91`), so every
program can read the blocks of every other. What holds is that it can write its own
binary alone (`WritesOwnBinary`): the one writeable entry of its tables leads to the
process's binary, and `Owners` keeps that block from page tables, tasks and the other
processes in the table. `ProcessesAssumption` asks for tables of
at least two entries, a heap that holds the kernel's tables, starts behind the
program's address and ends within the pages mapped, and files of no
bytes to be unreadable; the real values (1024 entries, 100 MB at `0x01000000`) satisfy it.

Only model-checked:

- liveness (`EveryCallReturns`, `LogEventuallyPrinted`, `EveryReadReturns`,
  `EveryOpenReturns`): TLAPS has no proof rule for fairness here;
- `OpenLeavesOnlyPath`: it counts blocks with a fold over sets, whose value for
  every set needs an induction over data;
- the properties that the code violates.

## Not modelled

Port I/O of the disk driver (it polls and does not fail), GDT, IDT setup, boot code,
enabling of paging, the registers of tasks and the jump to user mode, memory and
string functions: hardware, assembly, or loops whose results the models use. The
text of log lines and messages, the characters of names and paths and their 8.3
form: layout and conversions that no property is about. Directories longer than
a cluster. `process_load_for_slot` with a slot outside the table, which no code
passes. PPU, PIT and VGA: a stub and drivers that nothing runs.

Three things in the modelled code have no property of their own and are in the
models as they are: the stack of a process is allocated but never mapped; the processor
stays on the tables of a freed running task until the next switch; `current_task` is set
by `task_switch` alone, so that `task_run_first_ever_task` panics unless somebody
switched before.

## Plan

Done, in this order: `HeapSpec`, `Heap`, `HeapProofs`, `HeapLoops`; `Tracelog` and
`Kernel`; `Files`; `OpcodeTable` and `CPU`; `FileStore` and `FileBlocks`; `Processes`; the
proofs about `HeapLoops`, `Tracelog`, `Kernel`, `FileBlocks`, `CPU`, `Processes` and `Files`, and that `FileBlocks` implements `Files`. Next:
reads of the debug tracker against the table; directories longer than a cluster.
