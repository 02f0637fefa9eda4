-------------------------------- MODULE Heap --------------------------------
(***************************************************************************)
(* The kernel heap (memory/heap/heap.c, kheap.c): a table with one entry   *)
(* per block, searched first-fit, and the memory the blocks stand for.     *)
(* Every call of kzalloc and kfree is one action; HeapLoops runs the same  *)
(* calls one loop iteration at a time.                                     *)
(*                                                                         *)
(* The callers are the pointer variables Owners: start[o] is the block of  *)
(* the pointer o holds, len[o] the blocks it was handed, NULL and 0 when   *)
(* it holds none.  Memory is kept per block.                               *)
(***************************************************************************)
EXTENDS Integers

CONSTANTS Owners,      \* pointer variables of the kernel that hold buffers
          TotalBlocks, \* table->total, PEACHOS_HEAP_SIZE_BYTES / block size
          PhysBlocks,  \* blocks of memory from the heap's start on
          BlockSize,   \* PEACHOS_HEAP_BLOCK_SIZE
          WordSize,    \* 2^32: sizes are uint32_t
          Sizes,       \* sizes in bytes that callers request
          Values, Zero \* contents of a block, and its contents when zeroed

VARIABLES entries,     \* heap_table.entries
          mem,         \* contents of the blocks
          start, len,  \* the buffers held
          outside,     \* has a call written outside the table?
          answer       \* result of the last call: "none", "given", "refused"

vars == <<entries, mem, start, len, outside, answer>>

NULL == -1

(* An entry is the set of its flag bits; FREE is no bit at all. *)
Flags == {"TAKEN", "HAS_NEXT", "IS_FIRST"}
FREE == {}

Blocks == 0..(TotalBlocks - 1)
Memory == 0..(PhysBlocks - 1)
Run(s, n) == s..(s + n - 1)
Region(o) == Run(start[o], len[o])
Holds(o) == start[o] # NULL

-----------------------------------------------------------------------------
(* Sizes in bytes to blocks, in uint32_t arithmetic. *)
heap_align_value_to_upper(val) ==
  IF val % BlockSize = 0 THEN val
  ELSE ((val - (val % BlockSize)) + BlockSize) % WordSize

TotalFor(size) == heap_align_value_to_upper(size) \div BlockSize

(* Mutant: the count of touched blocks is rounded past an exact multiple. *)
BugTouched(s, size) == Run(s, (size \div BlockSize) + 1) \cap Memory

(* The blocks that memset(ptr, 0, size) touches. *)
Touched(s, size) == Run(s, (size + (BlockSize - 1)) \div BlockSize) \cap Memory

ASSUME HeapAssumption ==
  /\ TotalBlocks \in Nat \ {0}
  /\ PhysBlocks \in Nat
  /\ BlockSize \in Nat \ {0}
  /\ WordSize \in Nat
  /\ Sizes \subseteq 0..(WordSize - 1)
  /\ Zero \in Values
  /\ \A size \in Sizes : TotalBlocks + TotalFor(size) <= PhysBlocks

-----------------------------------------------------------------------------
(* Mutant: only the first block of a buffer counts as taken. *)
BugIsFree(b) == "IS_FIRST" \notin entries[b]

(* heap_get_entry_type(entry) == FREE *)
IsFree(b) == "TAKEN" \notin entries[b]

(* The search stops in the first run of free blocks that reaches n; when  *)
(* there is none, bs is still the start of the free run at the table's     *)
(* end, which is returned whatever its length, and -1 (ENOMEM) when the    *)
(* last block is taken.  bc is at least 1 when compared, so n = 0 never    *)
(* stops the loop.                                                         *)
Fits(n, b) == n > 0 /\ b + n <= TotalBlocks /\ \A c \in Run(b, n) : IsFree(c)
FirstFit(n, b) == Fits(n, b) /\ \A c \in 0..(b - 1) : ~Fits(n, c)
TailRun(b) == /\ \A c \in b..(TotalBlocks - 1) : IsFree(c)
              /\ b > 0 => ~IsFree(b - 1)

heap_get_start_block(n, b) ==
  \/ b \in Blocks /\ FirstFit(n, b)
  \/ b \in Blocks /\ TailRun(b) /\ \A c \in Blocks : ~Fits(n, c)
  \/ b = NULL /\ ~IsFree(TotalBlocks - 1) /\ \A c \in Blocks : ~Fits(n, c)

(* Mutant: HAS_NEXT is decided by i != end_block, one iteration late. *)
BugTakenEntry(s, n, b) == {"TAKEN"} \cup (IF b = s THEN {"IS_FIRST"} ELSE {"HAS_NEXT"})
                                    \cup (IF n > 1 THEN {"HAS_NEXT"} ELSE {})

(* The table after blocks s .. s+n-1 are marked; writes at or after        *)
(* TotalBlocks fall outside the table.                                     *)
TakenEntry(s, n, b) == {"TAKEN"} \cup (IF b = s THEN {"IS_FIRST"} ELSE {})
                                 \cup (IF b # s + n - 1 THEN {"HAS_NEXT"} ELSE {})

(* Mutant: the table is taken to have an entry for every block marked. *)
bug_heap_mark_blocks_taken(s, n) ==
  [b \in Blocks \cup Run(s, n) |->
     IF b \in Run(s, n) THEN TakenEntry(s, n, b) ELSE entries[b]]

heap_mark_blocks_taken(s, n) ==
  [b \in Blocks |-> IF b \in Run(s, n) THEN TakenEntry(s, n, b) ELSE entries[b]]

(* Mutant: only the block of the pointer is released. *)
BugChain(s) == {s}

(* The table after the chain that starts at s is cleared: every block      *)
(* whose predecessors from s on all have HAS_NEXT.                         *)
Chain(s) == {b \in Blocks : b >= s /\ \A c \in s..(b - 1) : "HAS_NEXT" \in entries[c]}

heap_mark_blocks_free(s) == [b \in Blocks |-> IF b \in Chain(s) THEN FREE ELSE entries[b]]

-----------------------------------------------------------------------------
(* kheap_init and heap_create: the arguments pass both validations, the    *)
(* table is cleared.                                                       *)
Init == /\ entries = [b \in Blocks |-> FREE]
        /\ mem \in [Memory -> Values]
        /\ start = [o \in Owners |-> NULL]
        /\ len = [o \in Owners |-> 0]
        /\ outside = FALSE
        /\ answer = "none"

(* kzalloc(size) succeeds: kmalloc, heap_malloc, heap_malloc_blocks, then  *)
(* the memset of size bytes.                                               *)
Allocate(o, size, s) ==
  LET n == TotalFor(size) IN
  /\ ~Holds(o)
  /\ s # NULL /\ heap_get_start_block(n, s)
  /\ entries' = heap_mark_blocks_taken(s, n)
  /\ outside' = (outside \/ s + n > TotalBlocks)
  /\ mem' = [b \in Memory |-> IF b \in Touched(s, size) THEN Zero ELSE mem[b]]
  /\ start' = [start EXCEPT ![o] = s]
  /\ len' = [len EXCEPT ![o] = n]
  /\ answer' = "given"

(* kzalloc(size) returns NULL. *)
Refuse(size) ==
  /\ heap_get_start_block(TotalFor(size), NULL)
  /\ answer' = "refused"
  /\ UNCHANGED <<entries, mem, start, len, outside>>

kfree(o) ==
  /\ Holds(o)
  /\ entries' = heap_mark_blocks_free(start[o])
  /\ start' = [start EXCEPT ![o] = NULL]
  /\ len' = [len EXCEPT ![o] = 0]
  /\ answer' = "none"
  /\ UNCHANGED <<mem, outside>>

(* The error path of add_tracelog_entry frees the NULL it was refused: the *)
(* block number is -PEACHOS_HEAP_ADDRESS / BlockSize, and the loop clears  *)
(* bytes below the table until one without bit 7 (the boot sector's zero   *)
(* padding lies between there and the table).                              *)
kfree_NULL ==
  /\ answer = "refused"
  /\ outside' = TRUE
  /\ answer' = "none"
  /\ UNCHANGED <<entries, mem, start, len>>

(* A holder stores into its own buffer. *)
Store(o, b, v) ==
  /\ b \in Region(o)
  /\ mem' = [mem EXCEPT ![b] = v]
  /\ answer' = "none"
  /\ UNCHANGED <<entries, start, len, outside>>

Next == \/ \E o \in Owners, size \in Sizes, s \in Blocks : Allocate(o, size, s)
        \/ \E size \in Sizes : Refuse(size)
        \/ \E o \in Owners : kfree(o)
        \/ kfree_NULL
        \/ \E o \in Owners, b \in Memory, v \in Values : Store(o, b, v)

Spec == Init /\ [][Next]_vars

-----------------------------------------------------------------------------
(* Sizes the kernel may ask for safely: not 0, and not so close to 2^32    *)
(* that rounding up wraps to 0 blocks.                                     *)
OrdinaryRequests == Sizes \subseteq 1..(WordSize - BlockSize)

(* The shape of the state. *)
TypeOK == /\ entries \in [Blocks -> SUBSET Flags]
          /\ mem \in [Memory -> Values]
          /\ start \in [Owners -> Blocks \cup {NULL}]
          /\ len \in [Owners -> Nat]
          /\ outside \in BOOLEAN
          /\ answer \in {"none", "given", "refused"}

(* heap_mark_blocks_taken and heap_mark_blocks_free keep the table in step  *)
(* with the buffers handed out: inside a buffer the entries are a chain     *)
(* that starts and ends where the buffer does, ...                          *)
ChainsMatchBuffers ==
  \A o \in Owners : \A b \in Region(o) \cap Blocks :
    /\ "TAKEN" \in entries[b]
    /\ "IS_FIRST" \in entries[b] <=> b = start[o]
    /\ "HAS_NEXT" \in entries[b] <=> b # start[o] + len[o] - 1

(* ... and no block stays taken that nobody holds: heap_mark_blocks_free    *)
(* releases all of a buffer, so the heap loses no memory.                   *)
NothingLeaked ==
  \A b \in Blocks : entries[b] # FREE => \E o \in Owners : b \in Region(o)

(* heap_get_start_block never hands out a block of a buffer still held,     *)
(* not even past the end of the heap.                                       *)
BuffersDisjoint ==
  \A o, p \in Owners : o # p => Region(o) \cap Region(p) = {}

(* The comment of heap_get_start_block: the sequence found "is at least as *)
(* long as the total_blocks parameter", so a buffer lies in the heap.       *)
BuffersInHeap == \A o \in Owners : Region(o) \subseteq Blocks

(* heap_create, kzalloc and kfree implement the private zeroed buffers of   *)
(* HeapSpec: what a holder reads back is what it last stored, whatever the  *)
(* others allocate, free and store.                                         *)
Buffer(o) == [b \in Region(o) |-> mem[b]]

Abs == INSTANCE HeapSpec
         WITH Lengths <- {TotalFor(size) : size \in Sizes},
              buf <- [o \in Owners |-> Buffer(o)]

PrivateBuffers == Abs!Spec
=============================================================================
