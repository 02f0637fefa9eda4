------------------------------ MODULE HeapSpec ------------------------------
(***************************************************************************)
(* What the kernel heap promises its callers, with no block table and no  *)
(* physical memory: every holder of a pointer has a private buffer of      *)
(* consecutive blocks, zeroed when it is handed out, that only its holder  *)
(* changes, and a request is refused only when no run of free blocks of    *)
(* the heap is long enough.  The buffer of a holder is the function from   *)
(* the blocks it owns to their contents; a holder without a buffer has the *)
(* empty function.                                                         *)
(***************************************************************************)
EXTENDS Integers

CONSTANTS Owners,      \* the pointer variables that hold kzalloc results
          TotalBlocks, \* blocks of the heap
          PhysBlocks,  \* blocks of memory from the heap's start on
          Lengths,     \* lengths of requests, in blocks
          Values,      \* contents of a block
          Zero         \* the contents after memset(ptr, 0x00, size)

VARIABLES buf,         \* buf[o]: the buffer of holder o
          answer       \* result of the last call: "none", "given", "refused"

vars == <<buf, answer>>

Owned(o) == DOMAIN buf[o]
Unowned(S) == \A o \in Owners : Owned(o) \cap S = {}

Init == /\ buf = [o \in Owners |-> [b \in {} |-> Zero]]
        /\ answer = "none"

(* A run of n blocks nobody owns becomes o's, zeroed. *)
Give(o, n, s) == /\ Owned(o) = {}
                 /\ s..(s + n - 1) \subseteq 0..(PhysBlocks - 1)
                 /\ Unowned(s..(s + n - 1))
                 /\ buf' = [buf EXCEPT ![o] = [b \in s..(s + n - 1) |-> Zero]]
                 /\ answer' = "given"

Refuse(n) == /\ \A s \in 0..(TotalBlocks - n) : ~Unowned(s..(s + n - 1))
             /\ answer' = "refused"
             /\ UNCHANGED buf

(* The caller of a refused request goes on without a buffer. *)
Abandon == /\ answer = "refused"
           /\ answer' = "none"
           /\ UNCHANGED buf

Return(o) == /\ Owned(o) # {}
             /\ buf' = [buf EXCEPT ![o] = [b \in {} |-> Zero]]
             /\ answer' = "none"

Write(o, b, v) == /\ b \in Owned(o)
                  /\ buf' = [buf EXCEPT ![o] = [@ EXCEPT ![b] = v]]
                  /\ answer' = "none"

Next == \/ \E o \in Owners, n \in Lengths, s \in 0..(TotalBlocks - 1) : Give(o, n, s)
        \/ \E n \in Lengths : Refuse(n)
        \/ Abandon
        \/ \E o \in Owners : Return(o)
        \/ \E o \in Owners, b \in 0..(PhysBlocks - 1), v \in Values : Write(o, b, v)

Spec == Init /\ [][Next]_vars
=============================================================================
