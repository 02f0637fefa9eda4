------------------------------ MODULE HeapLoops -----------------------------
(***************************************************************************)
(* The kernel heap with the loops of heap_get_start_block,                 *)
(* heap_mark_blocks_taken and heap_mark_blocks_free run one iteration per  *)
(* step, on the loop variables the code keeps.  It implements Heap: a call *)
(* takes effect when its last loop ends, and the table that Heap sees      *)
(* during a call is the table as it was when the call began.               *)
(***************************************************************************)
EXTENDS Integers

CONSTANTS Owners, TotalBlocks, PhysBlocks, BlockSize, WordSize, Sizes, Values, Zero

ASSUME HeapLoopsAssumption ==
  /\ TotalBlocks \in Nat \ {0}
  /\ BlockSize \in Nat \ {0} /\ WordSize \in Nat
  /\ Sizes \subseteq 0..(WordSize - 1)

VARIABLES entries, mem, start, len, outside, answer,  \* as in Heap
          pc,          \* "idle", or the loop being run
          call,        \* arguments of the call: [owner, size, total_blocks]
          i, bc, bs,   \* loop counter, free blocks counted, run's start
          entry,       \* the entry heap_mark_blocks_taken writes next
          before       \* table and write flag when the call began

heapVars == <<entries, mem, start, len, outside, answer>>
loopVars == <<pc, call, i, bc, bs, entry, before>>
vars == <<entries, mem, start, len, outside, answer, pc, call, i, bc, bs, entry, before>>

H == INSTANCE Heap
       WITH entries <- IF pc = "idle" THEN entries ELSE before.entries,
            outside <- IF pc = "idle" THEN outside ELSE before.outside

NoCall == [owner |-> H!NULL, size |-> 0, total_blocks |-> 0]
NoTable == [entries |-> <<>>, outside |-> FALSE]

Init == /\ pc = "idle"
        /\ entries = [b \in H!Blocks |-> H!FREE]
        /\ outside = FALSE
        /\ H!Init
        /\ call = NoCall
        /\ i = 0 /\ bc = 0 /\ bs = -1 /\ entry = H!FREE
        /\ before = NoTable

Begin(label, c) == /\ pc = "idle"
                   /\ pc' = label
                   /\ call' = c
                   /\ before' = [entries |-> entries, outside |-> outside]

(* The call returns: nothing but the heap's own state survives it. *)
End == /\ pc' = "idle"
       /\ call' = NoCall
       /\ i' = 0 /\ bc' = 0 /\ bs' = -1 /\ entry' = H!FREE
       /\ before' = NoTable

-----------------------------------------------------------------------------
(* kzalloc(size) enters heap_malloc and the search. *)
kzalloc(o, size) ==
  /\ start[o] = H!NULL
  /\ Begin("search", [owner |-> o, size |-> size, total_blocks |-> H!TotalFor(size)])
  /\ UNCHANGED <<heapVars, i, bc, bs, entry>>

(* Mutant: bs is not reset when a run is interrupted. *)
bug_search_step ==
  /\ pc = "search" /\ i < TotalBlocks
  /\ ~(bc > 0 /\ bc = call.total_blocks)
  /\ IF "TAKEN" \in entries[i]
     THEN bc' = 0 /\ UNCHANGED bs
     ELSE bc' = bc + 1 /\ bs' = IF bs = -1 THEN i ELSE bs
  /\ i' = i + 1
  /\ UNCHANGED <<heapVars, pc, call, entry, before>>

(* One iteration of the search; the break leaves i behind. *)
search_step ==
  /\ pc = "search" /\ i < TotalBlocks
  /\ ~(bc > 0 /\ bc = call.total_blocks)
  /\ IF "TAKEN" \in entries[i]
     THEN bc' = 0 /\ bs' = -1
     ELSE bc' = bc + 1 /\ bs' = IF bs = -1 THEN i ELSE bs
  /\ i' = i + 1
  /\ UNCHANGED <<heapVars, pc, call, entry, before>>

SearchOver == pc = "search" /\ (i = TotalBlocks \/ (bc > 0 /\ bc = call.total_blocks))

(* -ENOMEM: kmalloc and kzalloc return 0. *)
no_memory ==
  /\ SearchOver /\ bs = -1
  /\ answer' = "refused"
  /\ End
  /\ UNCHANGED <<entries, mem, start, len, outside>>

enter_mark_taken ==
  /\ SearchOver /\ bs # -1
  /\ pc' = "mark_taken"
  /\ i' = bs
  /\ entry' = {"TAKEN", "IS_FIRST"} \cup (IF call.total_blocks > 1 THEN {"HAS_NEXT"} ELSE {})
  /\ UNCHANGED <<heapVars, call, bc, bs, before>>

end_block == bs + call.total_blocks - 1

mark_taken_step ==
  /\ pc = "mark_taken" /\ i <= end_block
  /\ entries' = [b \in H!Blocks |-> IF b = i THEN entry ELSE entries[b]]
  /\ outside' = (outside \/ i \notin H!Blocks)
  /\ entry' = {"TAKEN"} \cup (IF i # end_block - 1 THEN {"HAS_NEXT"} ELSE {})
  /\ i' = i + 1
  /\ UNCHANGED <<mem, start, len, answer, pc, call, bc, bs, before>>

(* The buffer is marked: kzalloc clears it and returns its address. *)
return_buffer ==
  /\ pc = "mark_taken" /\ i > end_block
  /\ mem' = [b \in H!Memory |-> IF b \in H!Touched(bs, call.size) THEN Zero ELSE mem[b]]
  /\ start' = [start EXCEPT ![call.owner] = bs]
  /\ len' = [len EXCEPT ![call.owner] = call.total_blocks]
  /\ answer' = "given"
  /\ End
  /\ UNCHANGED <<entries, outside>>

-----------------------------------------------------------------------------
kfree(o) ==
  /\ start[o] # H!NULL
  /\ Begin("mark_free", [owner |-> o, size |-> 0, total_blocks |-> 0])
  /\ i' = start[o]
  /\ UNCHANGED <<heapVars, bc, bs, entry>>

(* An iteration that finds HAS_NEXT and goes on to the next block. *)
mark_free_step ==
  /\ pc = "mark_free" /\ i < TotalBlocks
  /\ "HAS_NEXT" \in entries[i]
  /\ entries' = [entries EXCEPT ![i] = H!FREE]
  /\ i' = i + 1
  /\ UNCHANGED <<mem, start, len, outside, answer, pc, call, bc, bs, entry, before>>

(* Mutant: the loop is not bounded by table->total. *)
bug_mark_free_end ==
  /\ pc = "mark_free"
  /\ i < TotalBlocks /\ "HAS_NEXT" \notin entries[i]
  /\ entries' = [b \in H!Blocks |-> IF b = i THEN H!FREE ELSE entries[b]]
  /\ start' = [start EXCEPT ![call.owner] = H!NULL]
  /\ len' = [len EXCEPT ![call.owner] = 0]
  /\ answer' = "none"
  /\ End
  /\ UNCHANGED <<mem, outside>>

(* The iteration that breaks, or the end of the table. *)
mark_free_end ==
  /\ pc = "mark_free"
  /\ \/ i < TotalBlocks /\ "HAS_NEXT" \notin entries[i]
     \/ i = TotalBlocks
  /\ entries' = [b \in H!Blocks |-> IF b = i THEN H!FREE ELSE entries[b]]
  /\ start' = [start EXCEPT ![call.owner] = H!NULL]
  /\ len' = [len EXCEPT ![call.owner] = 0]
  /\ answer' = "none"
  /\ End
  /\ UNCHANGED <<mem, outside>>

kfree_NULL == /\ pc = "idle" /\ outside' = TRUE
              /\ UNCHANGED <<entries, loopVars>>
              /\ H!kfree_NULL

Store(o, b, v) == /\ pc = "idle"
                  /\ UNCHANGED <<entries, outside, loopVars>>
                  /\ H!Store(o, b, v)

Loop == \/ search_step \/ no_memory \/ enter_mark_taken
        \/ mark_taken_step \/ return_buffer
        \/ mark_free_step \/ mark_free_end

Next == \/ \E o \in Owners, size \in Sizes : kzalloc(o, size)
        \/ \E o \in Owners : kfree(o)
        \/ Loop
        \/ kfree_NULL
        \/ \E o \in Owners, b \in H!Memory, v \in Values : Store(o, b, v)

(* A call that has begun runs on: nothing else of the kernel uses the heap *)
(* meanwhile, and interrupt handlers return.                                *)
Spec == Init /\ [][Next]_vars /\ WF_vars(Loop)

-----------------------------------------------------------------------------
(* The loops of heap_get_start_block, heap_mark_blocks_taken and           *)
(* heap_mark_blocks_free compute what Heap's kzalloc and kfree do at once. *)
LoopsImplementCalls == H!Spec

(* Every call of kzalloc and kfree returns: each loop's index reaches the  *)
(* table's end, the requested length or the end of the chain.              *)
EveryCallReturns == pc # "idle" ~> pc = "idle"
=============================================================================
