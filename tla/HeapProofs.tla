----------------------------- MODULE HeapProofs -----------------------------
(***************************************************************************)
(* Proofs about Heap, for every size of the heap and every set of callers  *)
(* and sizes, provided the sizes are ordinary: the table always describes  *)
(* the buffers handed out, no two of them share a block, and Heap          *)
(* implements HeapSpec.                                                    *)
(***************************************************************************)
EXTENDS Heap, TLAPS

(* The inductive invariant: the table and the buffers describe each other, *)
(* and a buffer that is held has at least one block.                        *)
BuffersSized == \A o \in Owners : IF Holds(o)
                                  THEN len[o] >= 1 /\ start[o] + len[o] <= PhysBlocks
                                  ELSE len[o] = 0

HeapInv == /\ TypeOK
           /\ BuffersSized
           /\ ChainsMatchBuffers
           /\ NothingLeaked
           /\ BuffersDisjoint

-----------------------------------------------------------------------------
(* Sizes. *)

(* Division with remainder, the two facts the size computation needs. *)
LEMMA DivUnique ==
  ASSUME NEW d \in Nat \ {0}, NEW q \in Nat, NEW r \in 0..(d - 1)
  PROVE  /\ (d * q + r) \div d = q
         /\ (d * q + r) % d = r
  OBVIOUS

(* A number is its quotient's multiple and its remainder. *)
LEMMA DivMod ==
  ASSUME NEW d \in Nat \ {0}, NEW a \in Nat
  PROVE  /\ a \div d \in Nat
         /\ a % d \in 0..(d - 1)
         /\ a = d * (a \div d) + (a % d)
  OBVIOUS

(* heap_malloc gives an ordinary request at least one block and exactly    *)
(* the blocks the memset of kzalloc touches.                               *)
LEMMA WholeBlocks ==
  ASSUME OrdinaryRequests, NEW size \in Sizes
  PROVE  /\ TotalFor(size) \in Nat \ {0}
         /\ TotalFor(size) = (size + (BlockSize - 1)) \div BlockSize
<1> DEFINE q == size \div BlockSize
           r == size % BlockSize
<1>1. /\ BlockSize \in Nat \ {0} /\ WordSize \in Nat
      /\ size \in Nat \ {0} /\ size <= WordSize - BlockSize
  BY HeapAssumption DEF OrdinaryRequests
<1>2. q \in Nat /\ r \in 0..(BlockSize - 1) /\ size = BlockSize * q + r
  BY <1>1, DivMod
<1>3. CASE r = 0
  <2>1. TotalFor(size) = q
    BY <1>3 DEF TotalFor, heap_align_value_to_upper
  <2>2. (size + (BlockSize - 1)) = BlockSize * q + (BlockSize - 1)
    BY <1>1, <1>2, <1>3
  <2>3. (BlockSize * q + (BlockSize - 1)) \div BlockSize = q
    <3>1. BlockSize - 1 \in 0..(BlockSize - 1)
      BY <1>1
    <3> HIDE DEF q, r
    <3> QED BY <1>1, <1>2, <3>1, DivUnique
  <2>4. q # 0
    BY <1>1, <1>2, <1>3
  <2> QED BY <1>2, <2>1, <2>2, <2>3, <2>4
<1>4. CASE r # 0
  <2>1. BlockSize * (q + 1) < WordSize
    BY <1>1, <1>2, <1>4
  <2>2. heap_align_value_to_upper(size) = BlockSize * (q + 1)
    <3>1. (size - r) + BlockSize = BlockSize * (q + 1)
      BY <1>1, <1>2
    <3>2. BlockSize * (q + 1) \in Nat
      BY <1>1, <1>2
    <3>3. (BlockSize * (q + 1)) % WordSize = BlockSize * (q + 1)
      BY <1>1, <2>1, <3>2
    <3> QED BY <1>4, <3>1, <3>3 DEF heap_align_value_to_upper
  <2>3. (BlockSize * (q + 1)) \div BlockSize = q + 1
    BY <1>1, <1>2, DivUnique
  <2>4. size + (BlockSize - 1) = BlockSize * (q + 1) + (r - 1)
    BY <1>1, <1>2
  <2>5. (BlockSize * (q + 1) + (r - 1)) \div BlockSize = q + 1
    <3>1. r - 1 \in 0..(BlockSize - 1) /\ q + 1 \in Nat
      BY <1>1, <1>2, <1>4
    <3> HIDE DEF q, r
    <3> QED BY <1>1, <3>1, DivUnique
  <2> QED BY <1>2, <2>2, <2>3, <2>4, <2>5 DEF TotalFor
<1> QED BY <1>3, <1>4

-----------------------------------------------------------------------------
(* Invariance. *)

(* heap_get_start_block answers with blocks that no held buffer contains, *)
(* the blocks past the end of the table included.                          *)
LEMMA FreshBlocks ==
  ASSUME HeapInv, NEW n \in Nat \ {0}, NEW s \in Blocks, heap_get_start_block(n, s),
         NEW p \in Owners
  PROVE  Region(p) \cap Run(s, n) = {}
<1> USE HeapAssumption
<1> SUFFICES ASSUME NEW b \in Region(p), b \in Run(s, n) PROVE FALSE
  OBVIOUS
<1>1. /\ TotalBlocks \in Nat \ {0} /\ s \in Int /\ s >= 0 /\ s < TotalBlocks
      /\ start[p] \in Int /\ len[p] \in Nat
      /\ start[p] < TotalBlocks
  BY DEF HeapInv, TypeOK, Blocks, NULL
<1>2. b \in Int /\ start[p] <= b /\ b <= start[p] + len[p] - 1 /\ s <= b /\ b <= s + n - 1
  BY <1>1 DEF Region, Run
<1>3. start[p] >= 0
  BY <1>1, <1>2 DEF HeapInv, BuffersSized, Holds, NULL, TypeOK, Blocks
<1>4. \A c \in Region(p) \cap Blocks : ~IsFree(c)
  BY DEF HeapInv, ChainsMatchBuffers, IsFree
<1>5. CASE FirstFit(n, s)
  <2>1. b \in Blocks /\ IsFree(b)
    BY <1>1, <1>2, <1>5 DEF FirstFit, Fits, Run, Blocks
  <2> QED BY <1>4, <2>1
<1>6. CASE TailRun(s)
  <2>1. CASE b < TotalBlocks
    <3>1. b \in Blocks /\ IsFree(b)
      BY <1>1, <1>2, <1>6, <2>1 DEF TailRun, Blocks
    <3> QED BY <1>4, <3>1
  <2>2. CASE b >= TotalBlocks
    <3>1. TotalBlocks - 1 \in Region(p) \cap Blocks
      BY <1>1, <1>2, <1>3, <2>2 DEF Region, Run, Blocks
    <3>2. IsFree(TotalBlocks - 1)
      BY <1>1, <1>6 DEF TailRun
    <3> QED BY <1>4, <3>1, <3>2
  <2> QED BY <1>1, <1>2, <2>1, <2>2
<1>7. s # NULL
  BY <1>1 DEF NULL
<1> QED BY <1>5, <1>6, <1>7 DEF heap_get_start_block

(* heap_mark_blocks_free clears exactly the blocks of the buffer freed. *)
LEMMA ChainIsBuffer ==
  ASSUME HeapInv, NEW o \in Owners, Holds(o)
  PROVE  Chain(start[o]) = Region(o) \cap Blocks
<1> USE HeapAssumption
<1>1. /\ TotalBlocks \in Nat \ {0} /\ start[o] \in Blocks /\ start[o] \in Nat
      /\ len[o] \in Nat /\ len[o] >= 1
  BY DEF HeapInv, TypeOK, BuffersSized, Holds, Blocks, NULL
<1>2. ASSUME NEW b \in Chain(start[o]) PROVE b \in Region(o) \cap Blocks
  <2> DEFINE last == start[o] + len[o] - 1
  <2>1. b \in Blocks /\ b \in Int /\ b >= start[o] /\ \A c \in start[o]..(b - 1) : "HAS_NEXT" \in entries[c]
    BY <1>2 DEF Chain, Blocks
  <2>2. SUFFICES ASSUME b > last PROVE FALSE
    BY <1>1, <2>1 DEF Region, Run
  <2>3. last \in start[o]..(b - 1) /\ last \in Region(o) \cap Blocks
    BY <1>1, <2>1, <2>2 DEF Region, Run, Blocks
  <2> QED BY <2>1, <2>3 DEF HeapInv, ChainsMatchBuffers
<1>3. ASSUME NEW b \in Region(o) \cap Blocks PROVE b \in Chain(start[o])
  <2>1. ASSUME NEW c \in start[o]..(b - 1) PROVE "HAS_NEXT" \in entries[c]
    <3>1. c \in Region(o) \cap Blocks /\ c # start[o] + len[o] - 1
      BY <1>1, <1>3, <2>1 DEF Region, Run, Blocks
    <3> QED BY <3>1 DEF HeapInv, ChainsMatchBuffers
  <2>2. b >= start[o]
    BY <1>1 DEF Region, Run
  <2> QED BY <2>1, <2>2 DEF Chain
<1> QED BY <1>2, <1>3

(* The initial heap: a cleared table and no buffer. *)
LEMMA InitInv == Init => HeapInv
<1> SUFFICES ASSUME Init PROVE HeapInv
  OBVIOUS
<1>1. TypeOK
  BY HeapAssumption DEF Init, TypeOK, FREE, Flags, NULL
<1>2. \A o \in Owners : Region(o) = {} /\ start[o] = NULL /\ len[o] = 0
  <2> SUFFICES ASSUME NEW o \in Owners PROVE Region(o) = {} /\ start[o] = NULL /\ len[o] = 0
    OBVIOUS
  <2>1. start[o] = NULL /\ len[o] = 0
    BY DEF Init
  <2>2. Region(o) = {}
    BY <2>1 DEF Region, Run, NULL
  <2> QED BY <2>1, <2>2
<1> QED BY <1>1, <1>2 DEF Init, HeapInv, BuffersSized, ChainsMatchBuffers, NothingLeaked,
                          BuffersDisjoint, Holds, FREE

(* kzalloc keeps the invariant: the blocks it marks were nobody's. *)
LEMMA AllocateInv ==
  ASSUME OrdinaryRequests, HeapInv, NEW o \in Owners, NEW size \in Sizes, NEW s \in Blocks,
         Allocate(o, size, s)
  PROVE  HeapInv'
<1> DEFINE n == TotalFor(size)
<1>1. n \in Nat \ {0}
  BY WholeBlocks
<1>2. /\ TotalBlocks \in Nat \ {0} /\ s \in Int /\ s >= 0 /\ s < TotalBlocks /\ s # NULL
      /\ TotalBlocks + n <= PhysBlocks /\ PhysBlocks \in Nat /\ Zero \in Values
  BY HeapAssumption DEF Blocks, NULL
<1> HIDE DEF n
<1>3. /\ heap_get_start_block(n, s)
      /\ entries' = heap_mark_blocks_taken(s, n)
      /\ outside' = (outside \/ s + n > TotalBlocks)
      /\ mem' = [b \in Memory |-> IF b \in Touched(s, size) THEN Zero ELSE mem[b]]
      /\ start' = [start EXCEPT ![o] = s]
      /\ len' = [len EXCEPT ![o] = n]
      /\ answer' = "given"
      /\ ~Holds(o)
  BY DEF Allocate, n
<1>4. TypeOK'
  <2>1. entries' \in [Blocks -> SUBSET Flags]
    BY <1>3 DEF HeapInv, TypeOK, heap_mark_blocks_taken, TakenEntry, Flags
  <2>2. start' \in [Owners -> Blocks \cup {NULL}] /\ len' \in [Owners -> Nat]
    BY <1>1, <1>3 DEF HeapInv, TypeOK
  <2>3. mem' \in [Memory -> Values] /\ outside' \in BOOLEAN
    BY <1>2, <1>3 DEF HeapInv, TypeOK
  <2> QED BY <1>3, <2>1, <2>2, <2>3 DEF TypeOK
<1>5. Region(o)' = Run(s, n) /\ start'[o] = s /\ len'[o] = n
  BY <1>3 DEF HeapInv, TypeOK, Region, Run
<1>6. \A p \in Owners \ {o} : start'[p] = start[p] /\ len'[p] = len[p] /\ Region(p)' = Region(p)
  BY <1>3 DEF HeapInv, TypeOK, Region, Run
<1>7. \A p \in Owners : Region(p) \cap Run(s, n) = {}
  BY <1>1, <1>3, FreshBlocks
<1>8. BuffersSized'
  BY <1>1, <1>2, <1>5, <1>6 DEF HeapInv, BuffersSized, Holds
<1>9. ChainsMatchBuffers'
  <2>1. ASSUME NEW b \in Run(s, n) \cap Blocks PROVE entries'[b] = TakenEntry(s, n, b)
    BY <1>3, <2>1 DEF heap_mark_blocks_taken
  <2>2. ASSUME NEW b \in Blocks, b \notin Run(s, n) PROVE entries'[b] = entries[b]
    BY <1>3, <2>2 DEF heap_mark_blocks_taken
  <2>3. ASSUME NEW p \in Owners, p # o, NEW b \in Region(p)' \cap Blocks
        PROVE  /\ "TAKEN" \in entries'[b]
               /\ "IS_FIRST" \in entries'[b] <=> b = start'[p]
               /\ "HAS_NEXT" \in entries'[b] <=> b # start'[p] + len'[p] - 1
    BY <1>6, <1>7, <2>2, <2>3 DEF HeapInv, ChainsMatchBuffers
  <2>4. ASSUME NEW b \in Region(o)' \cap Blocks
        PROVE  /\ "TAKEN" \in entries'[b]
               /\ "IS_FIRST" \in entries'[b] <=> b = start'[o]
               /\ "HAS_NEXT" \in entries'[b] <=> b # start'[o] + len'[o] - 1
    BY <1>5, <2>1, <2>4 DEF TakenEntry
  <2> QED BY <2>3, <2>4 DEF ChainsMatchBuffers, Blocks
<1>10. NothingLeaked'
  <2> SUFFICES ASSUME NEW b \in Blocks, entries'[b] # FREE PROVE \E p \in Owners : b \in Region(p)'
    BY DEF NothingLeaked, Blocks
  <2>1. CASE b \in Run(s, n)
    BY <1>5, <2>1
  <2>2. CASE b \notin Run(s, n)
    <3>1. entries[b] # FREE
      BY <1>3, <2>2 DEF heap_mark_blocks_taken
    <3>2. PICK p \in Owners : b \in Region(p)
      BY <3>1 DEF HeapInv, NothingLeaked
    <3>3. p # o
      BY <1>3, <3>2 DEF HeapInv, BuffersSized, Holds, Region, Run, NULL
    <3> QED BY <1>6, <3>2, <3>3
  <2> QED BY <2>1, <2>2
<1>11. BuffersDisjoint'
  BY <1>5, <1>6, <1>7 DEF HeapInv, BuffersDisjoint
<1> QED BY <1>4, <1>8, <1>9, <1>10, <1>11 DEF HeapInv

(* kfree keeps the invariant: it clears the buffer's entries, no others. *)
LEMMA FreeInv ==
  ASSUME HeapInv, NEW o \in Owners, kfree(o)
  PROVE  HeapInv'
<1>1. /\ entries' = [b \in Blocks |-> IF b \in Region(o) THEN FREE ELSE entries[b]]
  BY ChainIsBuffer DEF kfree, heap_mark_blocks_free
<1>2. TypeOK'
  BY <1>1 DEF HeapInv, TypeOK, kfree, FREE
<1>3. Region(o)' = {} /\ start'[o] = NULL /\ len'[o] = 0
  BY DEF HeapInv, TypeOK, kfree, Region, Run, NULL
<1>4. \A p \in Owners \ {o} : start'[p] = start[p] /\ len'[p] = len[p] /\ Region(p)' = Region(p)
  BY DEF HeapInv, TypeOK, kfree, Region, Run
<1>5. BuffersSized'
  BY <1>3, <1>4 DEF HeapInv, BuffersSized, Holds
<1>6. ChainsMatchBuffers'
  <2> SUFFICES ASSUME NEW p \in Owners, NEW b \in Region(p)' \cap Blocks
               PROVE  /\ "TAKEN" \in entries'[b]
                      /\ "IS_FIRST" \in entries'[b] <=> b = start'[p]
                      /\ "HAS_NEXT" \in entries'[b] <=> b # start'[p] + len'[p] - 1
    BY DEF ChainsMatchBuffers, Blocks
  <2>1. p # o
    BY <1>3
  <2>2. b \in Region(p) /\ b \notin Region(o)
    BY <1>4, <2>1 DEF HeapInv, BuffersDisjoint
  <2>3. entries'[b] = entries[b]
    BY <1>1, <2>2
  <2> QED BY <1>4, <2>1, <2>2, <2>3 DEF HeapInv, ChainsMatchBuffers
<1>7. NothingLeaked'
  <2> SUFFICES ASSUME NEW b \in Blocks, entries'[b] # FREE PROVE \E p \in Owners : b \in Region(p)'
    BY DEF NothingLeaked, Blocks
  <2>1. b \notin Region(o) /\ entries[b] # FREE
    BY <1>1
  <2>2. PICK p \in Owners : b \in Region(p)
    BY <2>1 DEF HeapInv, NothingLeaked
  <2> QED BY <1>4, <2>1, <2>2
<1>8. BuffersDisjoint'
  BY <1>3, <1>4 DEF HeapInv, BuffersDisjoint
<1> QED BY <1>2, <1>5, <1>6, <1>7, <1>8 DEF HeapInv

(* Every step keeps the invariant; the calls other than kzalloc and kfree   *)
(* touch neither the table nor the buffers held.                            *)
LEMMA NextInv ==
  ASSUME OrdinaryRequests, HeapInv, [Next]_vars
  PROVE  HeapInv'
<1> DEFINE Same == UNCHANGED <<entries, start, len>>
<1>1. ASSUME Same, TypeOK' PROVE HeapInv'
  BY <1>1 DEF HeapInv, BuffersSized, ChainsMatchBuffers, NothingLeaked, BuffersDisjoint,
              Holds, Region, Run, Blocks, FREE, NULL
<1>2. ASSUME NEW o \in Owners, NEW size \in Sizes, NEW s \in Blocks, Allocate(o, size, s)
      PROVE  HeapInv'
  BY <1>2, AllocateInv
<1>3. ASSUME NEW size \in Sizes, Refuse(size) PROVE HeapInv'
  BY <1>1, <1>3 DEF Refuse, HeapInv, TypeOK
<1>4. ASSUME NEW o \in Owners, kfree(o) PROVE HeapInv'
  BY <1>4, FreeInv
<1>5. CASE kfree_NULL
  BY <1>1, <1>5 DEF kfree_NULL, HeapInv, TypeOK
<1>6. ASSUME NEW o \in Owners, NEW b \in Memory, NEW v \in Values, Store(o, b, v) PROVE HeapInv'
  BY <1>1, <1>6 DEF Store, HeapInv, TypeOK
<1>7. CASE UNCHANGED vars
  BY <1>1, <1>7 DEF vars, HeapInv, TypeOK
<1> QED BY <1>2, <1>3, <1>4, <1>5, <1>6, <1>7 DEF Next

(* With ordinary requests, the table always describes the buffers handed   *)
(* out, and no block belongs to two of them, for every size of the heap.   *)
THEOREM HeapSafe == ASSUME OrdinaryRequests PROVE Spec => []HeapInv
<1>1. Init => HeapInv
  BY InitInv
<1>2. HeapInv /\ [Next]_vars => HeapInv'
  BY NextInv
<1> QED BY <1>1, <1>2, PTL DEF Spec

(* The table, the memory and the holders keep their shape under every      *)
(* kzalloc and kfree, whatever the number of blocks and of holders.        *)
THEOREM HeapTypeCorrect == ASSUME OrdinaryRequests PROVE Spec => []TypeOK
<1>1. HeapInv => TypeOK
  BY DEF HeapInv
<1> QED BY <1>1, HeapSafe, PTL

(* heap_get_start_block never hands out memory that another holder has, not *)
(* even when it answers with a run that is too short and ends past the heap. *)
THEOREM HeapNoOverlap == ASSUME OrdinaryRequests PROVE Spec => []BuffersDisjoint
<1>1. HeapInv => BuffersDisjoint
  BY DEF HeapInv
<1> QED BY <1>1, HeapSafe, PTL

(* heap_mark_blocks_free releases the whole of a buffer and nothing else:   *)
(* the blocks marked in the table are those of the buffers held.            *)
THEOREM HeapNoLeak == ASSUME OrdinaryRequests PROVE Spec => []NothingLeaked
<1>1. HeapInv => NothingLeaked
  BY DEF HeapInv
<1> QED BY <1>1, HeapSafe, PTL

(* heap_mark_blocks_taken writes the chain that heap_mark_blocks_free       *)
(* follows: it starts and ends where the buffer does, whatever was          *)
(* allocated and freed around it.                                           *)
THEOREM HeapChains == ASSUME OrdinaryRequests PROVE Spec => []ChainsMatchBuffers
<1>1. HeapInv => ChainsMatchBuffers
  BY DEF HeapInv
<1> QED BY <1>1, HeapSafe, PTL

-----------------------------------------------------------------------------
(* Refinement. *)

(* A buffer is a function on its region; a pointer variable that holds     *)
(* nothing has the empty one.                                              *)
LEMMA BufferDomain ==
  ASSUME HeapInv, NEW o \in Owners
  PROVE  /\ DOMAIN Buffer(o) = Region(o)
         /\ ~Holds(o) => Region(o) = {}
         /\ Holds(o) => Region(o) # {}
         /\ Region(o) \subseteq Memory
<1>1. DOMAIN Buffer(o) = Region(o)
  BY DEF Buffer
<1>2. ASSUME ~Holds(o) PROVE Region(o) = {}
  BY <1>2 DEF HeapInv, BuffersSized, Holds, Region, Run, NULL
<1>3. ASSUME Holds(o) PROVE start[o] \in Region(o)
  BY <1>3, HeapAssumption DEF HeapInv, TypeOK, BuffersSized, Holds, Region, Run, Blocks, NULL
<1>4. ASSUME Holds(o) PROVE Region(o) \subseteq Memory
  <2>1. /\ start[o] \in Nat /\ len[o] \in Nat /\ PhysBlocks \in Nat
        /\ start[o] + len[o] <= PhysBlocks
    BY <1>4, HeapAssumption DEF HeapInv, TypeOK, BuffersSized, Holds, Blocks, NULL
  <2> QED BY <2>1 DEF Region, Run, Memory
<1> QED BY <1>1, <1>2, <1>3, <1>4

(* kzalloc gives its caller zeroed blocks that nobody owned and leaves     *)
(* the contents of every other buffer alone.                                *)
LEMMA AllocateGives ==
  ASSUME OrdinaryRequests, HeapInv, HeapInv', NEW o \in Owners, NEW size \in Sizes,
         NEW s \in Blocks, Allocate(o, size, s)
  PROVE  Abs!Give(o, TotalFor(size), s)
<1> DEFINE n == TotalFor(size)
<1>1. n \in Nat \ {0} /\ Touched(s, size) = Run(s, n) \cap Memory
  BY WholeBlocks DEF Touched
<1>2. /\ TotalBlocks \in Nat \ {0} /\ s \in Int /\ s >= 0 /\ s < TotalBlocks
      /\ TotalBlocks + n <= PhysBlocks /\ PhysBlocks \in Nat
  BY HeapAssumption DEF Blocks
<1> HIDE DEF n
<1>3. /\ heap_get_start_block(n, s) /\ ~Holds(o)
      /\ mem' = [b \in Memory |-> IF b \in Touched(s, size) THEN Zero ELSE mem[b]]
      /\ start' = [start EXCEPT ![o] = s]
      /\ len' = [len EXCEPT ![o] = n]
      /\ answer' = "given"
  BY DEF Allocate, n
<1>4. Run(s, n) \subseteq Memory
  BY <1>1, <1>2 DEF Run, Memory
<1>5. \A p \in Owners : Region(p) \cap Run(s, n) = {}
  BY <1>1, <1>3, FreshBlocks
<1>6. Region(o)' = Run(s, n)
  BY <1>3 DEF HeapInv, TypeOK, Region, Run
<1>7. Buffer(o)' = [b \in Run(s, n) |-> Zero]
  BY <1>1, <1>3, <1>4, <1>6 DEF Buffer
<1>8. ASSUME NEW p \in Owners, p # o PROVE Buffer(p)' = Buffer(p)
  <2>1. Region(p)' = Region(p)
    BY <1>3, <1>8 DEF HeapInv, TypeOK, Region, Run
  <2>2. Region(p) \subseteq Memory
    BY BufferDomain
  <2>3. \A b \in Region(p) : mem'[b] = mem[b]
    BY <1>1, <1>3, <1>5, <2>2
  <2> QED BY <2>1, <2>3 DEF Buffer
<1>9. [p \in Owners |-> Buffer(p)]' = [[p \in Owners |-> Buffer(p)] EXCEPT ![o] = [b \in Run(s, n) |-> Zero]]
  BY <1>7, <1>8
<1>10. Abs!Owned(o) = {} /\ Abs!Unowned(Run(s, n))
  BY <1>3, <1>5, BufferDomain DEF Abs!Owned, Abs!Unowned
<1> QED BY <1>3, <1>4, <1>9, <1>10 DEF Abs!Give, n, Run, Memory

(* kzalloc refuses only when every run of the requested length in the heap *)
(* meets a buffer that is held.                                             *)
LEMMA RefuseRefuses ==
  ASSUME OrdinaryRequests, HeapInv, NEW size \in Sizes, Refuse(size)
  PROVE  Abs!Refuse(TotalFor(size))
<1> DEFINE n == TotalFor(size)
<1>1. n \in Nat \ {0} /\ TotalBlocks \in Nat
  BY WholeBlocks, HeapAssumption
<1>2. \A c \in Blocks : ~Fits(n, c)
  BY DEF Refuse, heap_get_start_block, Blocks, NULL
<1> HIDE DEF n
<1>3. ASSUME NEW s \in 0..(TotalBlocks - n) PROVE ~Abs!Unowned(Run(s, n))
  <2>1. s \in Blocks /\ s + n <= TotalBlocks
    BY <1>1 DEF Blocks
  <2>2. PICK c \in Run(s, n) : ~IsFree(c)
    BY <1>1, <1>2, <2>1 DEF Fits
  <2>3. c \in Blocks
    BY <1>1, <2>1 DEF Run, Blocks
  <2>4. PICK p \in Owners : c \in Region(p)
    BY <2>2, <2>3 DEF HeapInv, NothingLeaked, IsFree, FREE
  <2> QED BY <2>4, BufferDomain DEF Abs!Unowned, Abs!Owned
<1>4. UNCHANGED [p \in Owners |-> Buffer(p)] /\ answer' = "refused"
  BY DEF Refuse, Buffer, Region, Run
<1> QED BY <1>3, <1>4 DEF Abs!Refuse, n, Run

(* kfree takes the buffer away from its holder only. *)
LEMMA FreeReturns ==
  ASSUME HeapInv, HeapInv', NEW o \in Owners, kfree(o)
  PROVE  Abs!Return(o)
<1>1. Holds(o) /\ start' = [start EXCEPT ![o] = NULL] /\ len' = [len EXCEPT ![o] = 0]
      /\ mem' = mem /\ answer' = "none"
  BY DEF kfree
<1>2. Region(o)' = {}
  BY <1>1 DEF HeapInv, TypeOK, Region, Run, NULL
<1>3. Buffer(o)' = [b \in {} |-> Zero]
  BY <1>2 DEF Buffer
<1>4. ASSUME NEW p \in Owners, p # o PROVE Buffer(p)' = Buffer(p)
  BY <1>1, <1>4 DEF HeapInv, TypeOK, Buffer, Region, Run
<1>5. [p \in Owners |-> Buffer(p)]' = [[p \in Owners |-> Buffer(p)] EXCEPT ![o] = [b \in {} |-> Zero]]
  BY <1>3, <1>4
<1>6. Abs!Owned(o) # {}
  BY <1>1, BufferDomain DEF Abs!Owned
<1> QED BY <1>1, <1>5, <1>6 DEF Abs!Return

(* A store by a holder changes one block of its own buffer. *)
LEMMA StoreWrites ==
  ASSUME HeapInv, NEW o \in Owners, NEW b \in Memory, NEW v \in Values, Store(o, b, v)
  PROVE  Abs!Write(o, b, v)
<1>1. b \in Region(o) /\ mem' = [mem EXCEPT ![b] = v] /\ start' = start /\ len' = len /\ answer' = "none"
  BY DEF Store
<1>2. \A p \in Owners : Region(p)' = Region(p)
  BY <1>1 DEF Region, Run
<1>3. \A p \in Owners : Region(p) \subseteq Memory
  BY BufferDomain
<1>4. Buffer(o)' = [Buffer(o) EXCEPT ![b] = v]
  BY <1>1, <1>2, <1>3 DEF HeapInv, TypeOK, Buffer
<1>5. ASSUME NEW p \in Owners, p # o PROVE Buffer(p)' = Buffer(p)
  <2>1. b \notin Region(p)
    BY <1>1, <1>5 DEF HeapInv, BuffersDisjoint
  <2>2. \A c \in Region(p) : mem'[c] = mem[c]
    BY <1>1, <1>3, <2>1 DEF HeapInv, TypeOK
  <2> QED BY <1>2, <2>2 DEF Buffer
<1>6. [p \in Owners |-> Buffer(p)]' = [[p \in Owners |-> Buffer(p)] EXCEPT ![o] = [@ EXCEPT ![b] = v]]
  BY <1>4, <1>5
<1>7. b \in Abs!Owned(o)
  BY <1>1, BufferDomain DEF Abs!Owned
<1> QED BY <1>1, <1>6, <1>7 DEF Abs!Write

(* With ordinary requests the table and the memory of Heap implement the   *)
(* private, zeroed buffers of HeapSpec, for every size of the heap.        *)
THEOREM HeapImplementsSpec == ASSUME OrdinaryRequests PROVE Spec => PrivateBuffers
<1>1. Init => Abs!Init
  <2> SUFFICES ASSUME Init PROVE Abs!Init
    OBVIOUS
  <2>1. \A o \in Owners : Region(o) = {}
    BY InitInv, BufferDomain DEF Init, Holds
  <2>2. \A o \in Owners : Buffer(o) = [b \in {} |-> Zero]
    BY <2>1 DEF Buffer
  <2> QED BY <2>2 DEF Init, Abs!Init
<1>2. ASSUME HeapInv, HeapInv', [Next]_vars PROVE [Abs!Next]_(Abs!vars)
  <2>1. ASSUME NEW o \in Owners, NEW size \in Sizes, NEW s \in Blocks, Allocate(o, size, s)
        PROVE  Abs!Next
    BY <1>2, <2>1, AllocateGives DEF Abs!Next, Blocks
  <2>2. ASSUME NEW size \in Sizes, Refuse(size) PROVE Abs!Next
    BY <1>2, <2>2, RefuseRefuses DEF Abs!Next
  <2>3. ASSUME NEW o \in Owners, kfree(o) PROVE Abs!Next
    BY <1>2, <2>3, FreeReturns DEF Abs!Next
  <2>4. CASE kfree_NULL
    <3>1. UNCHANGED [p \in Owners |-> Buffer(p)]
      BY <2>4 DEF kfree_NULL, Buffer, Region, Run
    <3>2. Abs!Abandon
      BY <2>4, <3>1 DEF kfree_NULL, Abs!Abandon
    <3> QED BY <3>2 DEF Abs!Next
  <2>5. ASSUME NEW o \in Owners, NEW b \in Memory, NEW v \in Values, Store(o, b, v)
        PROVE  Abs!Next
    BY <1>2, <2>5, StoreWrites DEF Abs!Next, Memory
  <2>6. CASE UNCHANGED vars
    BY <2>6 DEF vars, Abs!vars, Buffer, Region, Run
  <2> QED BY <1>2, <2>1, <2>2, <2>3, <2>4, <2>5, <2>6 DEF Next
<1>3. Spec => []HeapInv
  BY HeapSafe
<1> QED BY <1>1, <1>2, <1>3, PTL DEF Spec, PrivateBuffers, Abs!Spec
=============================================================================
