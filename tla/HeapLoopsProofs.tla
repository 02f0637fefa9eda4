--------------------------- MODULE HeapLoopsProofs --------------------------
(***************************************************************************)
(* The loops of heap.c compute what Heap's single steps say, for a table   *)
(* of any size, any callers and any sizes: HeapLoops implements Heap.      *)
(***************************************************************************)
EXTENDS HeapLoops, TLAPS

(* The inductive invariant: what each loop has established when its next   *)
(* iteration begins.  Between two calls the loop variables are reset.      *)
LoopTypeOK == /\ entries \in [H!Blocks -> SUBSET H!Flags]
              /\ outside \in BOOLEAN
              /\ start \in [Owners -> H!Blocks \cup {H!NULL}]
              /\ pc \in {"idle", "search", "mark_taken", "mark_free"}
              /\ pc = "idle" => i = 0 /\ bc = 0 /\ bs = -1
              /\ pc # "idle" => /\ before.entries \in [H!Blocks -> SUBSET H!Flags]
                                /\ before.outside \in BOOLEAN
                                /\ call.owner \in Owners

IsTaken(b) == "TAKEN" \in entries[b]

(* No run of n free blocks ends before block k. *)
NoFitBefore(n, k) == \A c \in 0..k : c + n <= k => \E d \in c..(c + n - 1) : IsTaken(d)

(* The bc free blocks before i are the run that starts at bs. *)
SearchInv ==
  LET n == call.total_blocks IN
  pc = "search" =>
    /\ call.size \in Sizes /\ n = H!TotalFor(call.size)
    /\ start[call.owner] = H!NULL
    /\ before = [entries |-> entries, outside |-> outside]
    /\ i \in 0..TotalBlocks /\ bc \in 0..i
    /\ bs = IF bc = 0 THEN -1 ELSE i - bc
    /\ \A b \in (i - bc)..(i - 1) : ~IsTaken(b)
    /\ i > bc => IsTaken(i - bc - 1)
    /\ n > 0 => bc <= n /\ NoFitBefore(n, IF bc = n THEN i - 1 ELSE i)

(* The blocks from bs to i - 1 are marked, entry is what i will get. *)
MarkTakenInv ==
  LET n == call.total_blocks IN
  pc = "mark_taken" =>
    /\ call.size \in Sizes /\ n = H!TotalFor(call.size)
    /\ start[call.owner] = H!NULL
    /\ bs \in H!Blocks /\ H!heap_get_start_block(n, bs)
    /\ i \in bs..(bs + n)
    /\ i < bs + n => entry = H!TakenEntry(bs, n, i)
    /\ entries = [b \in H!Blocks |-> IF b \in bs..(i - 1) THEN H!TakenEntry(bs, n, b)
                                     ELSE before.entries[b]]
    /\ outside = (before.outside \/ i > TotalBlocks)

(* The chain of the buffer reaches i, and is cleared up to there. *)
MarkFreeInv ==
  pc = "mark_free" =>
    /\ start[call.owner] \in H!Blocks
    /\ i \in start[call.owner]..TotalBlocks
    /\ entries = [b \in H!Blocks |-> IF b \in start[call.owner]..(i - 1) THEN H!FREE
                                     ELSE before.entries[b]]
    /\ \A c \in start[call.owner]..(i - 1) : "HAS_NEXT" \in before.entries[c]
    /\ outside = before.outside

LoopInv == LoopTypeOK /\ SearchInv /\ MarkTakenInv /\ MarkFreeInv

-----------------------------------------------------------------------------
(* heap_malloc asks for a whole number of blocks, 0 for some sizes. *)
LEMMA TotalForNat ==
  ASSUME NEW size \in Sizes
  PROVE  H!TotalFor(size) \in Nat
<1>1. BlockSize \in Nat \ {0} /\ WordSize \in Nat \ {0} /\ size \in Nat
  BY HeapLoopsAssumption
<1>2. H!heap_align_value_to_upper(size) \in Nat
  <2>1. size % BlockSize \in Nat /\ size % BlockSize <= size
    BY <1>1
  <2>2. (size - (size % BlockSize)) + BlockSize \in Nat
    BY <1>1, <2>1
  <2>3. \A x \in Nat : x % WordSize \in Nat
    BY <1>1
  <2> QED BY <1>1, <2>2, <2>3 DEF H!heap_align_value_to_upper
<1>3. \A x \in Nat : x \div BlockSize \in Nat
  BY <1>1
<1> QED BY <1>2, <1>3 DEF H!TotalFor

-----------------------------------------------------------------------------
(* Invariance. *)

(* No call is being run at boot. *)
LEMMA InitLoopInv == Init => LoopInv
  BY HeapLoopsAssumption
  DEF Init, LoopInv, LoopTypeOK, SearchInv, MarkTakenInv, MarkFreeInv,
      H!Init, H!Blocks, H!Flags, H!FREE, H!NULL

(* kzalloc enters its search with nothing counted. *)
LEMMA KzallocInv ==
  ASSUME LoopInv, NEW o \in Owners, NEW size \in Sizes, kzalloc(o, size)
  PROVE  LoopInv'
<1> USE HeapLoopsAssumption
<1>1. /\ pc = "idle" /\ pc' = "search" /\ start[o] = H!NULL
      /\ call' = [owner |-> o, size |-> size, total_blocks |-> H!TotalFor(size)]
      /\ before' = [entries |-> entries, outside |-> outside]
      /\ UNCHANGED <<entries, mem, start, len, outside, answer, i, bc, bs, entry>>
  BY DEF kzalloc, Begin, heapVars
<1>2. LoopTypeOK'
  BY <1>1 DEF LoopInv, LoopTypeOK, H!Blocks, H!Flags, H!NULL
<1>3. H!TotalFor(size) \in Nat
  BY TotalForNat
<1>4. SearchInv'
  BY <1>1, <1>3 DEF LoopInv, LoopTypeOK, SearchInv, NoFitBefore, IsTaken, H!NULL, H!TotalFor,
                    H!heap_align_value_to_upper
<1> QED BY <1>1, <1>2, <1>4 DEF LoopInv, MarkTakenInv, MarkFreeInv

(* An iteration of the search keeps the run it has counted. *)
LEMMA SearchStepInv ==
  ASSUME LoopInv, search_step
  PROVE  LoopInv'
<1> DEFINE n == call.total_blocks
<1>1. TotalBlocks \in Nat /\ n \in Nat
  BY HeapLoopsAssumption, TotalForNat DEF LoopInv, SearchInv, search_step
<1>2. /\ pc = "search" /\ pc' = "search" /\ i < TotalBlocks /\ ~(bc > 0 /\ bc = n)
      /\ i' = i + 1 /\ UNCHANGED <<entries, mem, start, len, outside, answer, call, entry, before>>
  BY DEF search_step, heapVars
<1>3. LoopTypeOK'
  BY <1>2 DEF LoopInv, LoopTypeOK, H!Blocks, H!Flags, H!NULL
<1>4. /\ i \in Int /\ i >= 0 /\ bc \in Int /\ bc >= 0 /\ bc <= i
      /\ bs = IF bc = 0 THEN -1 ELSE i - bc
      /\ \A b \in (i - bc)..(i - 1) : ~IsTaken(b)
      /\ i > bc => IsTaken(i - bc - 1)
      /\ n > 0 => bc <= n /\ NoFitBefore(n, IF bc = n THEN i - 1 ELSE i)
  BY <1>1, <1>2 DEF LoopInv, SearchInv
<1>5. \A b : IsTaken(b)' <=> IsTaken(b)
  BY <1>2 DEF IsTaken
<1>6. bc <= TotalBlocks /\ (n > 0 => bc < n /\ NoFitBefore(n, i))
  BY <1>1, <1>2, <1>4
<1> HIDE DEF n
<1>7. CASE IsTaken(i)
  <2>1. bc' = 0 /\ bs' = -1
    BY <1>7 DEF search_step, IsTaken
  <2>2. n > 0 => NoFitBefore(n, i + 1)
    <3> SUFFICES ASSUME n > 0, NEW c \in 0..(i + 1), c + n <= i + 1
                 PROVE  \E d \in c..(c + n - 1) : IsTaken(d)
      BY DEF NoFitBefore
    <3>1. CASE c + n <= i
      <4>1. c \in 0..i
        BY <1>1, <1>4, <3>1
      <4> QED BY <1>6, <3>1, <4>1 DEF NoFitBefore
    <3>2. CASE c + n = i + 1
      BY <1>1, <1>4, <1>7, <3>2
    <3> QED BY <1>1, <1>4, <3>1, <3>2
  <2>3. SearchInv'
    BY <1>1, <1>2, <1>4, <1>5, <1>7, <2>1, <2>2
    DEF LoopInv, SearchInv, NoFitBefore, n, H!NULL, H!TotalFor, H!heap_align_value_to_upper
  <2> QED BY <1>2, <1>3, <2>3 DEF LoopInv, MarkTakenInv, MarkFreeInv
<1>8. CASE ~IsTaken(i)
  <2>1. bc' = bc + 1 /\ bs' = IF bs = -1 THEN i ELSE bs
    BY <1>8 DEF search_step, IsTaken
  <2>2. n > 0 /\ bc + 1 < n => NoFitBefore(n, i + 1)
    <3> SUFFICES ASSUME n > 0, bc + 1 < n, NEW c \in 0..(i + 1), c + n <= i + 1
                 PROVE  \E d \in c..(c + n - 1) : IsTaken(d)
      BY DEF NoFitBefore
    <3>1. CASE c + n <= i
      <4>1. c \in 0..i
        BY <1>1, <1>4, <3>1
      <4> QED BY <1>6, <3>1, <4>1 DEF NoFitBefore
    <3>2. CASE c + n = i + 1
      <4>1. i > bc /\ i - bc - 1 \in c..(c + n - 1)
        BY <1>1, <1>4, <3>2
      <4> QED BY <1>4, <4>1
    <3> QED BY <1>1, <1>4, <3>1, <3>2
  <2>3. n > 0 => bc' <= n /\ NoFitBefore(n, IF bc' = n THEN i' - 1 ELSE i')
    BY <1>1, <1>2, <1>4, <1>6, <2>1, <2>2
  <2>4. bs' = IF bc' = 0 THEN -1 ELSE i' - bc'
    BY <1>2, <1>4, <2>1
  <2>5. /\ \A b \in (i' - bc')..(i' - 1) : ~IsTaken(b)
        /\ i' > bc' => IsTaken(i' - bc' - 1)
    BY <1>2, <1>4, <1>8, <2>1
  <2>6. SearchInv'
    BY <1>1, <1>2, <1>4, <1>5, <2>1, <2>3, <2>4, <2>5
    DEF LoopInv, SearchInv, NoFitBefore, n, H!NULL, H!TotalFor, H!heap_align_value_to_upper
  <2> QED BY <1>2, <1>3, <2>6 DEF LoopInv, MarkTakenInv, MarkFreeInv
<1> QED BY <1>7, <1>8

(* The search answers with the first run that is long enough, or with the  *)
(* free run at the end of the table, or finds the last block taken.        *)
LEMMA SearchAnswers ==
  ASSUME LoopInv, SearchOver
  PROVE  /\ H!heap_get_start_block(call.total_blocks, bs)
         /\ bs # -1 => bs \in H!Blocks
<1> DEFINE n == call.total_blocks
<1>1. TotalBlocks \in Nat \ {0} /\ n \in Nat
  BY HeapLoopsAssumption, TotalForNat DEF LoopInv, SearchInv, SearchOver
<1>2. /\ pc = "search"
      /\ i = TotalBlocks \/ (bc > 0 /\ bc = n)
      /\ before = [entries |-> entries, outside |-> outside]
  BY DEF SearchOver, LoopInv, SearchInv
<1>3. /\ i \in Int /\ i >= 0 /\ i <= TotalBlocks /\ bc \in Int /\ bc >= 0 /\ bc <= i
      /\ bs = IF bc = 0 THEN -1 ELSE i - bc
      /\ \A b \in (i - bc)..(i - 1) : ~IsTaken(b)
      /\ i > bc => IsTaken(i - bc - 1)
      /\ n > 0 => bc <= n /\ NoFitBefore(n, IF bc = n THEN i - 1 ELSE i)
  BY <1>1, <1>2 DEF LoopInv, SearchInv
<1>4. \A b : H!IsFree(b) <=> ~IsTaken(b)
  BY <1>2 DEF H!IsFree, IsTaken
<1> HIDE DEF n
<1>5. bs # -1 => bs \in H!Blocks
  BY <1>1, <1>3 DEF H!Blocks
<1>6. CASE n > 0 /\ bc = n
  <2>1. bs = i - n /\ bs \in Int /\ bs >= 0 /\ bs + n = i
    BY <1>1, <1>3, <1>6
  <2>2. H!Fits(n, bs)
    BY <1>1, <1>3, <1>4, <1>6, <2>1 DEF H!Fits, H!Run
  <2>3. ASSUME NEW c \in 0..(bs - 1) PROVE ~H!Fits(n, c)
    <3>1. c \in 0..(i - 1) /\ c + n <= i - 1
      BY <1>1, <1>3, <2>1
    <3>2. \E d \in c..(c + n - 1) : IsTaken(d)
      BY <1>3, <1>6, <3>1 DEF NoFitBefore
    <3> QED BY <1>4, <3>2 DEF H!Fits, H!Run
  <2>4. H!FirstFit(n, bs) /\ bs \in H!Blocks
    BY <1>5, <2>1, <2>2, <2>3 DEF H!FirstFit
  <2> QED BY <1>5, <2>4 DEF H!heap_get_start_block, n
<1>7. CASE ~(n > 0 /\ bc = n)
  <2>1. i = TotalBlocks
    BY <1>1, <1>2, <1>7, <1>3
  <2>2. ASSUME NEW c \in H!Blocks PROVE ~H!Fits(n, c)
    <3> SUFFICES ASSUME n > 0, c + n <= TotalBlocks PROVE ~H!Fits(n, c)
      BY DEF H!Fits
    <3>1. c \in 0..i /\ c + n <= i
      BY <1>1, <2>1 DEF H!Blocks
    <3>2. \E d \in c..(c + n - 1) : IsTaken(d)
      BY <1>3, <1>7, <3>1 DEF NoFitBefore
    <3> QED BY <1>4, <3>2 DEF H!Fits, H!Run
  <2>3. CASE bc = 0
    <3>1. bs = H!NULL /\ IsTaken(TotalBlocks - 1)
      BY <1>1, <1>3, <2>1, <2>3 DEF H!NULL
    <3> QED BY <1>4, <1>5, <2>2, <3>1 DEF H!heap_get_start_block, n
  <2>4. CASE bc # 0
    <3>1. bs \in H!Blocks /\ bs = i - bc
      BY <1>1, <1>3, <2>4 DEF H!Blocks
    <3>2. H!TailRun(bs)
      BY <1>1, <1>3, <1>4, <2>1, <3>1 DEF H!TailRun, H!Blocks
    <3> QED BY <1>5, <2>2, <3>1, <3>2 DEF H!heap_get_start_block, n
  <2> QED BY <2>3, <2>4
<1> QED BY <1>6, <1>7

(* The marking begins at the run found. *)
LEMMA EnterMarkTakenInv ==
  ASSUME LoopInv, enter_mark_taken
  PROVE  LoopInv'
<1> DEFINE n == call.total_blocks
<1>1. /\ pc = "search" /\ pc' = "mark_taken" /\ bs # -1 /\ i' = bs
      /\ entry' = {"TAKEN", "IS_FIRST"} \cup (IF n > 1 THEN {"HAS_NEXT"} ELSE {})
      /\ UNCHANGED <<entries, mem, start, len, outside, answer, call, bc, bs, before>>
      /\ SearchOver
  BY DEF enter_mark_taken, SearchOver, heapVars
<1>2. LoopTypeOK'
  BY <1>1 DEF LoopInv, LoopTypeOK, H!Blocks, H!Flags, H!NULL
<1>3. H!heap_get_start_block(n, bs) /\ bs \in H!Blocks /\ bs \in Int
  BY <1>1, SearchAnswers, HeapLoopsAssumption DEF H!Blocks
<1>4. n \in Nat /\ TotalBlocks \in Nat /\ bs < TotalBlocks
  <2>1. n \in Nat
    BY <1>1, TotalForNat DEF LoopInv, SearchInv
  <2> QED BY <1>3, <2>1, HeapLoopsAssumption DEF H!Blocks
<1>5. H!heap_get_start_block(n, bs)'
  BY <1>1, <1>3 DEF LoopInv, SearchInv, H!heap_get_start_block, H!FirstFit, H!Fits, H!TailRun,
                    H!IsFree, H!Run, H!Blocks, H!NULL
<1>6. n > 0 => entry' = H!TakenEntry(bs, n, bs)
  BY <1>1, <1>3, <1>4 DEF H!TakenEntry
<1>7. /\ call.size \in Sizes /\ n = H!TotalFor(call.size) /\ start[call.owner] = H!NULL
      /\ before.entries = entries /\ before.outside = outside
  BY <1>1 DEF LoopInv, SearchInv
<1>8. /\ entries = [b \in H!Blocks |-> IF b \in bs..(bs - 1) THEN H!TakenEntry(bs, n, b)
                                      ELSE before.entries[b]]
      /\ outside = (before.outside \/ bs > TotalBlocks)
  BY <1>3, <1>4, <1>7 DEF LoopInv, LoopTypeOK
<1>9. bs \in bs..(bs + n)
  BY <1>3, <1>4
<1> HIDE DEF n
<1>10. MarkTakenInv'
  <2>1. (call.total_blocks)' = n /\ (call.size)' = call.size /\ (call.owner)' = call.owner
    BY <1>1 DEF n
  <2> QED BY <1>1, <1>3, <1>4, <1>5, <1>6, <1>7, <1>8, <1>9, <2>1
          DEF MarkTakenInv, n, H!Blocks, H!NULL, H!TotalFor, H!heap_align_value_to_upper, H!TakenEntry
<1> QED BY <1>1, <1>2, <1>10 DEF LoopInv, SearchInv, MarkFreeInv

(* An iteration marks one block more of the run. *)
LEMMA MarkTakenStepInv ==
  ASSUME LoopInv, mark_taken_step
  PROVE  LoopInv'
<1> DEFINE n == call.total_blocks
<1>1. /\ pc = "mark_taken" /\ i <= end_block /\ i' = i + 1
      /\ entries' = [b \in H!Blocks |-> IF b = i THEN entry ELSE entries[b]]
      /\ outside' = (outside \/ i \notin H!Blocks)
      /\ entry' = {"TAKEN"} \cup (IF i # end_block - 1 THEN {"HAS_NEXT"} ELSE {})
      /\ UNCHANGED <<mem, start, len, answer, pc, call, bc, bs, before>>
  BY DEF mark_taken_step
<1>2. /\ call.size \in Sizes /\ n = H!TotalFor(call.size) /\ start[call.owner] = H!NULL
      /\ bs \in H!Blocks /\ H!heap_get_start_block(n, bs)
      /\ i \in bs..(bs + n)
      /\ i < bs + n => entry = H!TakenEntry(bs, n, i)
      /\ entries = [b \in H!Blocks |-> IF b \in bs..(i - 1) THEN H!TakenEntry(bs, n, b)
                                       ELSE before.entries[b]]
      /\ outside = (before.outside \/ i > TotalBlocks)
  BY <1>1 DEF LoopInv, MarkTakenInv
<1>3. n \in Nat /\ TotalBlocks \in Nat
  BY <1>2, TotalForNat, HeapLoopsAssumption
<1>4. /\ bs \in Int /\ 0 <= bs /\ bs < TotalBlocks
      /\ i \in Int /\ bs <= i /\ i <= bs + n - 1
  BY <1>1, <1>2, <1>3 DEF H!Blocks, end_block
<1>5. entry = H!TakenEntry(bs, n, i)
  BY <1>2, <1>3, <1>4
<1> HIDE DEF n
<1>6. entries' = [b \in H!Blocks |-> IF b \in bs..(i' - 1) THEN H!TakenEntry(bs, n, b)
                                    ELSE before.entries[b]]
  BY <1>1, <1>2, <1>4, <1>5 DEF H!Blocks
<1>7. outside' = (before.outside \/ i' > TotalBlocks)
  <2>1. i \notin H!Blocks <=> i >= TotalBlocks
    BY <1>3, <1>4 DEF H!Blocks
  <2>2. (i > TotalBlocks \/ i >= TotalBlocks) <=> i' > TotalBlocks
    BY <1>1, <1>3, <1>4
  <2>3. /\ outside' = (outside \/ i \notin H!Blocks)
        /\ outside = (before.outside \/ i > TotalBlocks)
    BY <1>1, <1>2
  <2> QED BY <2>1, <2>2, <2>3, Zenon
<1>8. i' < bs + n => entry' = H!TakenEntry(bs, n, i')
  BY <1>1, <1>3, <1>4 DEF H!TakenEntry, end_block, n
<1>9. H!heap_get_start_block(n, bs)'
  <2>1. UNCHANGED <<pc, call, before, bs>> /\ pc # "idle"
    BY <1>1
  <2> QED BY <1>2, <2>1 DEF n, H!heap_get_start_block, H!FirstFit, H!Fits, H!TailRun,
                    H!IsFree, H!Run, H!Blocks, H!NULL
<1>10. MarkTakenInv'
  <2>1. /\ (call.total_blocks)' = n /\ (call.size)' = call.size /\ (call.owner)' = call.owner
        /\ (before.entries)' = before.entries /\ (before.outside)' = before.outside
    BY <1>1 DEF n
  <2>2. i' \in bs..(bs + n)
    BY <1>1, <1>3, <1>4
  <2> QED BY <1>1, <1>2, <1>6, <1>7, <1>8, <1>9, <2>1, <2>2
          DEF MarkTakenInv, n, H!Blocks, H!NULL, H!TotalFor, H!heap_align_value_to_upper, H!TakenEntry
<1>11. LoopTypeOK'
  <2>1. entries' \in [H!Blocks -> SUBSET H!Flags]
    BY <1>1, <1>5 DEF LoopInv, LoopTypeOK, H!TakenEntry, H!Flags
  <2> QED BY <1>1, <2>1 DEF LoopInv, LoopTypeOK, H!Blocks, H!Flags, H!NULL
<1> QED BY <1>1, <1>10, <1>11 DEF LoopInv, SearchInv, MarkFreeInv

(* kfree begins its loop at the buffer's first block. *)
LEMMA KfreeInv ==
  ASSUME LoopInv, NEW o \in Owners, kfree(o)
  PROVE  LoopInv'
<1>1. /\ pc = "idle" /\ pc' = "mark_free" /\ start[o] # H!NULL /\ i' = start[o]
      /\ call' = [owner |-> o, size |-> 0, total_blocks |-> 0]
      /\ before' = [entries |-> entries, outside |-> outside]
      /\ UNCHANGED <<entries, mem, start, len, outside, answer, bc, bs, entry>>
  BY DEF kfree, Begin, heapVars
<1>2. LoopTypeOK'
  BY <1>1 DEF LoopInv, LoopTypeOK, H!Blocks, H!Flags, H!NULL
<1>3. start[o] \in H!Blocks /\ start[o] \in Int /\ start[o] <= TotalBlocks /\ TotalBlocks \in Nat
  BY <1>1, HeapLoopsAssumption DEF LoopInv, LoopTypeOK, H!Blocks, H!NULL
<1>4. MarkFreeInv'
  BY <1>1, <1>3 DEF LoopInv, LoopTypeOK, MarkFreeInv, H!Blocks, H!FREE
<1> QED BY <1>1, <1>2, <1>4 DEF LoopInv, SearchInv, MarkTakenInv

(* An iteration clears one block more of the chain. *)
LEMMA MarkFreeStepInv ==
  ASSUME LoopInv, mark_free_step
  PROVE  LoopInv'
<1> DEFINE s == start[call.owner]
<1>1. /\ pc = "mark_free" /\ i < TotalBlocks /\ "HAS_NEXT" \in entries[i] /\ i' = i + 1
      /\ entries' = [entries EXCEPT ![i] = H!FREE]
      /\ UNCHANGED <<mem, start, len, outside, answer, pc, call, bc, bs, entry, before>>
  BY DEF mark_free_step
<1>2. /\ s \in H!Blocks /\ i \in s..TotalBlocks
      /\ entries = [b \in H!Blocks |-> IF b \in s..(i - 1) THEN H!FREE ELSE before.entries[b]]
      /\ \A c \in s..(i - 1) : "HAS_NEXT" \in before.entries[c]
      /\ outside = before.outside
  BY <1>1 DEF LoopInv, MarkFreeInv
<1>3. /\ TotalBlocks \in Nat /\ s \in Int /\ 0 <= s /\ i \in Int /\ s <= i /\ i \in H!Blocks
  BY <1>1, <1>2, HeapLoopsAssumption DEF H!Blocks
<1> HIDE DEF s
<1>4. "HAS_NEXT" \in before.entries[i]
  BY <1>1, <1>2, <1>3
<1>5. entries' = [b \in H!Blocks |-> IF b \in s..(i' - 1) THEN H!FREE ELSE before.entries[b]]
  BY <1>1, <1>2, <1>3 DEF H!Blocks
<1>6. \A c \in s..(i' - 1) : "HAS_NEXT" \in before.entries[c]
  BY <1>1, <1>2, <1>3, <1>4
<1>7. MarkFreeInv'
  <2>1. start'[call'.owner] = s /\ i' \in s..TotalBlocks
    BY <1>1, <1>3 DEF s
  <2> QED BY <1>1, <1>2, <1>5, <1>6, <2>1 DEF MarkFreeInv, H!Blocks, H!FREE
<1>8. LoopTypeOK'
  <2>1. entries' \in [H!Blocks -> SUBSET H!Flags]
    BY <1>1 DEF LoopInv, LoopTypeOK, H!FREE
  <2> QED BY <1>1, <2>1 DEF LoopInv, LoopTypeOK, H!Blocks, H!Flags, H!NULL
<1> QED BY <1>1, <1>7, <1>8 DEF LoopInv, SearchInv, MarkTakenInv

(* A call that returns leaves the loop variables as at boot. *)
LEMMA EndInv ==
  ASSUME LoopInv, End, entries' \in [H!Blocks -> SUBSET H!Flags], outside' \in BOOLEAN,
         start' \in [Owners -> H!Blocks \cup {H!NULL}]
  PROVE  LoopInv'
  BY DEF End, LoopInv, LoopTypeOK, SearchInv, MarkTakenInv, MarkFreeInv, H!Blocks, H!Flags, H!NULL

(* Every step keeps the invariant. *)
LEMMA NextLoopInv ==
  ASSUME LoopInv, [Next]_vars
  PROVE  LoopInv'
<1>1. ASSUME NEW o \in Owners, NEW size \in Sizes, kzalloc(o, size) PROVE LoopInv'
  BY <1>1, KzallocInv
<1>2. ASSUME NEW o \in Owners, kfree(o) PROVE LoopInv'
  BY <1>2, KfreeInv
<1>3. CASE search_step
  BY <1>3, SearchStepInv
<1>4. CASE no_memory
  BY <1>4, EndInv DEF no_memory, LoopInv, LoopTypeOK
<1>5. CASE enter_mark_taken
  BY <1>5, EnterMarkTakenInv
<1>6. CASE mark_taken_step
  BY <1>6, MarkTakenStepInv
<1>7. CASE return_buffer
  <2>1. bs \in H!Blocks
    BY <1>7 DEF return_buffer, LoopInv, MarkTakenInv
  <2> QED BY <1>7, <2>1, EndInv DEF return_buffer, LoopInv, LoopTypeOK
<1>8. CASE mark_free_step
  BY <1>8, MarkFreeStepInv
<1>9. CASE mark_free_end
  <2>1. entries' \in [H!Blocks -> SUBSET H!Flags]
    BY <1>9 DEF mark_free_end, LoopInv, LoopTypeOK, H!FREE
  <2> QED BY <1>9, <2>1, EndInv DEF mark_free_end, LoopInv, LoopTypeOK
<1> DEFINE Idle == /\ pc = "idle" /\ entries' = entries /\ start' = start /\ outside' \in BOOLEAN
                   /\ UNCHANGED loopVars
<1>10. ASSUME Idle PROVE LoopInv'
  BY <1>10 DEF loopVars, LoopInv, LoopTypeOK, SearchInv, MarkTakenInv, MarkFreeInv, H!Blocks,
               H!Flags, H!NULL
<1>11. CASE kfree_NULL
  BY <1>10, <1>11 DEF kfree_NULL, H!kfree_NULL
<1>12. ASSUME NEW o \in Owners, NEW b \in H!Memory, NEW v \in Values, Store(o, b, v) PROVE LoopInv'
  BY <1>10, <1>12 DEF Store, H!Store, LoopInv, LoopTypeOK
<1>13. CASE UNCHANGED vars
  BY <1>13 DEF vars, LoopInv, LoopTypeOK, SearchInv, MarkTakenInv, MarkFreeInv, NoFitBefore, IsTaken,
               H!Blocks, H!Flags, H!NULL, H!FREE, H!TotalFor, H!heap_align_value_to_upper, H!TakenEntry,
               H!heap_get_start_block, H!FirstFit, H!Fits, H!TailRun, H!IsFree, H!Run
<1> QED BY <1>1, <1>2, <1>3, <1>4, <1>5, <1>6, <1>7, <1>8, <1>9, <1>11, <1>12, <1>13 DEF Next, Loop

-----------------------------------------------------------------------------
(* Refinement: the table that Heap sees is the one of before the call. *)
Table == IF pc = "idle" THEN entries ELSE before.entries
Written == IF pc = "idle" THEN outside ELSE before.outside

(* The step in which kzalloc returns a buffer allocates the run that the   *)
(* search found.                                                           *)
LEMMA ReturnAllocates ==
  ASSUME LoopInv, return_buffer
  PROVE  H!Allocate(call.owner, call.size, bs)
<1> DEFINE n == call.total_blocks
<1>1. /\ pc = "mark_taken" /\ i > end_block /\ pc' = "idle"
      /\ mem' = [b \in H!Memory |-> IF b \in H!Touched(bs, call.size) THEN Zero ELSE mem[b]]
      /\ start' = [start EXCEPT ![call.owner] = bs]
      /\ len' = [len EXCEPT ![call.owner] = n]
      /\ answer' = "given" /\ entries' = entries /\ outside' = outside
  BY DEF return_buffer, End
<1>2. /\ call.size \in Sizes /\ n = H!TotalFor(call.size) /\ start[call.owner] = H!NULL
      /\ bs \in H!Blocks /\ H!heap_get_start_block(n, bs)
      /\ i \in bs..(bs + n)
      /\ entries = [b \in H!Blocks |-> IF b \in bs..(i - 1) THEN H!TakenEntry(bs, n, b)
                                       ELSE before.entries[b]]
      /\ outside = (before.outside \/ i > TotalBlocks)
  BY <1>1 DEF LoopInv, MarkTakenInv
<1>3. n \in Nat /\ bs \in Int /\ bs >= 0 /\ TotalBlocks \in Nat
  BY <1>2, TotalForNat, HeapLoopsAssumption DEF H!Blocks
<1>4. i = bs + n
  BY <1>1, <1>2, <1>3 DEF end_block
<1> HIDE DEF n
<1>5. entries' = H!heap_mark_blocks_taken(bs, n)
  <2>1. bs..(i - 1) = H!Run(bs, n)
    BY <1>3, <1>4 DEF H!Run
  <2>2. entries' = [b \in H!Blocks |-> IF b \in H!Run(bs, n) THEN H!TakenEntry(bs, n, b)
                                       ELSE before.entries[b]]
    BY <1>1, <1>2, <2>1
  <2> QED BY <1>1, <2>2 DEF H!heap_mark_blocks_taken
<1>6. outside' = (before.outside \/ bs + n > TotalBlocks)
  BY <1>1, <1>2, <1>4
<1>7. ~H!Holds(call.owner) /\ bs # H!NULL
  BY <1>2, <1>3 DEF H!Holds, H!NULL
<1> QED BY <1>1, <1>2, <1>5, <1>6, <1>7 DEF H!Allocate, n

(* A search that ends without a block refuses, as Heap does. *)
LEMMA NoMemoryRefuses ==
  ASSUME LoopInv, no_memory
  PROVE  H!Refuse(call.size)
<1>1. /\ pc = "search" /\ bs = H!NULL /\ pc' = "idle" /\ SearchOver
      /\ answer' = "refused" /\ UNCHANGED <<entries, mem, start, len, outside>>
  BY DEF no_memory, SearchOver, End, H!NULL
<1>2. H!heap_get_start_block(H!TotalFor(call.size), H!NULL)
  BY <1>1, SearchAnswers DEF LoopInv, SearchInv
<1>3. before.entries = entries /\ before.outside = outside
  BY <1>1 DEF LoopInv, SearchInv
<1> QED BY <1>1, <1>2, <1>3 DEF H!Refuse

(* The step in which kfree returns has cleared the buffer's chain. *)
LEMMA MarkFreeEndFrees ==
  ASSUME LoopInv, mark_free_end
  PROVE  H!kfree(call.owner)
<1> DEFINE s == start[call.owner]
<1>1. /\ pc = "mark_free" /\ pc' = "idle"
      /\ (i < TotalBlocks /\ "HAS_NEXT" \notin entries[i]) \/ i = TotalBlocks
      /\ entries' = [b \in H!Blocks |-> IF b = i THEN H!FREE ELSE entries[b]]
      /\ start' = [start EXCEPT ![call.owner] = H!NULL]
      /\ len' = [len EXCEPT ![call.owner] = 0]
      /\ answer' = "none" /\ mem' = mem /\ outside' = outside
  BY DEF mark_free_end, End
<1>2. /\ s \in H!Blocks /\ i \in s..TotalBlocks
      /\ entries = [b \in H!Blocks |-> IF b \in s..(i - 1) THEN H!FREE ELSE before.entries[b]]
      /\ \A c \in s..(i - 1) : "HAS_NEXT" \in before.entries[c]
      /\ outside = before.outside
  BY <1>1 DEF LoopInv, MarkFreeInv
<1>3. /\ TotalBlocks \in Nat /\ s \in Int /\ 0 <= s /\ i \in Int /\ s <= i /\ i <= TotalBlocks
  BY <1>2, HeapLoopsAssumption DEF H!Blocks
<1> HIDE DEF s
<1>4. i < TotalBlocks => "HAS_NEXT" \notin before.entries[i]
  BY <1>1, <1>2, <1>3 DEF H!Blocks
<1>5. ASSUME NEW b \in H!Blocks PROVE b \in H!Chain(s) <=> b \in s..i
  <2>1. b \in H!Chain(s) <=> b >= s /\ \A c \in s..(b - 1) : "HAS_NEXT" \in before.entries[c]
    BY <1>1 DEF H!Chain
  <2>2. b \in Int /\ b < TotalBlocks
    BY <1>3 DEF H!Blocks
  <2>3. CASE b <= i
    BY <1>2, <1>3, <2>1, <2>2, <2>3
  <2>4. CASE b > i
    <3>1. i \in s..(b - 1) /\ i < TotalBlocks
      BY <1>3, <2>2, <2>4
    <3> QED BY <1>3, <1>4, <2>1, <2>2, <2>4, <3>1
  <2> QED BY <1>3, <2>2, <2>3, <2>4
<1>6. entries' = H!heap_mark_blocks_free(s)
  <2>1. H!heap_mark_blocks_free(s) = [b \in H!Blocks |-> IF b \in H!Chain(s) THEN H!FREE ELSE before.entries[b]]
    BY <1>1 DEF H!heap_mark_blocks_free
  <2>2. ASSUME NEW b \in H!Blocks PROVE entries'[b] = IF b \in H!Chain(s) THEN H!FREE ELSE before.entries[b]
    BY <1>1, <1>2, <1>3, <1>5 DEF H!Blocks
  <2> QED BY <1>1, <2>1, <2>2
<1>7. H!Holds(call.owner)
  BY <1>2, <1>3 DEF s, H!Holds, H!NULL
<1> QED BY <1>1, <1>2, <1>6, <1>7 DEF H!kfree, s

(* Every step of a call but the last leaves what Heap sees alone. *)
LEMMA StepRefines ==
  ASSUME LoopInv, LoopInv', [Next]_vars
  PROVE  [H!Next]_(H!vars)
<1> DEFINE Hidden == UNCHANGED <<Table, mem, start, len, Written, answer>>
<1>1. ASSUME Hidden PROVE UNCHANGED H!vars
  BY <1>1 DEF H!vars, Table, Written
<1>2. ASSUME NEW o \in Owners, NEW size \in Sizes, kzalloc(o, size) PROVE UNCHANGED H!vars
  BY <1>1, <1>2 DEF kzalloc, Begin, heapVars, Table, Written
<1>3. ASSUME NEW o \in Owners, kfree(o) PROVE UNCHANGED H!vars
  BY <1>1, <1>3 DEF kfree, Begin, heapVars, Table, Written
<1>4. CASE search_step
  BY <1>1, <1>4 DEF search_step, heapVars, Table, Written
<1>5. CASE enter_mark_taken
  BY <1>1, <1>5 DEF enter_mark_taken, SearchOver, heapVars, Table, Written
<1>6. CASE mark_taken_step
  BY <1>1, <1>6 DEF mark_taken_step, Table, Written
<1>7. CASE mark_free_step
  BY <1>1, <1>7 DEF mark_free_step, Table, Written
<1>8. CASE no_memory
  <2>1. call.size \in Sizes
    BY <1>8 DEF no_memory, SearchOver, LoopInv, SearchInv
  <2> QED BY <1>8, <2>1, NoMemoryRefuses DEF H!Next
<1>9. CASE return_buffer
  <2>1. call.owner \in Owners /\ call.size \in Sizes /\ bs \in H!Blocks
    BY <1>9 DEF return_buffer, LoopInv, LoopTypeOK, MarkTakenInv
  <2> QED BY <1>9, <2>1, ReturnAllocates DEF H!Next
<1>10. CASE mark_free_end
  <2>1. call.owner \in Owners
    BY <1>10 DEF mark_free_end, LoopInv, LoopTypeOK
  <2> QED BY <1>10, <2>1, MarkFreeEndFrees DEF H!Next
<1>11. CASE kfree_NULL
  BY <1>11 DEF kfree_NULL, H!Next
<1>12. ASSUME NEW o \in Owners, NEW b \in H!Memory, NEW v \in Values, Store(o, b, v) PROVE H!Next
  BY <1>12 DEF Store, H!Next
<1>13. CASE UNCHANGED vars
  BY <1>1, <1>13 DEF vars, Table, Written
<1> QED BY <1>2, <1>3, <1>4, <1>5, <1>6, <1>7, <1>8, <1>9, <1>10, <1>11, <1>12, <1>13 DEF Next, Loop

(* What each loop of heap.c has established holds throughout, for a table  *)
(* of any size.                                                            *)
THEOREM LoopsCorrect == Spec => []LoopInv
<1>1. Init => LoopInv
  BY InitLoopInv
<1>2. LoopInv /\ [Next]_vars => LoopInv'
  BY NextLoopInv
<1> QED BY <1>1, <1>2, PTL DEF Spec

(* The loops of heap_get_start_block, heap_mark_blocks_taken and           *)
(* heap_mark_blocks_free implement the single steps of Heap, for a table   *)
(* of any size and requests of any size.                                   *)
THEOREM LoopsRefineHeap == Spec => LoopsImplementCalls
<1>1. Init => H!Init
  BY DEF Init
<1>2. LoopInv /\ LoopInv' /\ [Next]_vars => [H!Next]_(H!vars)
  BY StepRefines
<1>3. Spec => []LoopInv
  BY LoopsCorrect
<1> QED BY <1>1, <1>2, <1>3, PTL DEF Spec, LoopsImplementCalls, H!Spec
=============================================================================
