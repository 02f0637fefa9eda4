-------------------------- MODULE FileBlocksProofs --------------------------
(***************************************************************************)
(* The blocks of the file system, for any number of descriptors and any    *)
(* sequence of fopen and fclose.  Until a kzalloc returns no block (NULL,  *)
(* or for a directory without entries one that stays free) nothing is      *)
(* freed twice, no two descriptors share a block, and the calls, one step  *)
(* per allocation, do what those of Files do in one.                       *)
(***************************************************************************)
EXTENDS FileBlocks, NatLemmas, FiniteSetTheorems, SequenceTheorems

(* The inductive invariant.  The structures are trees: a taken block is     *)
(* linked from one taken block at most, and has the kind that block's       *)
(* pointer is for.  The descriptors hold the roots of complete trees, and   *)
(* the fopen being run those of the trees it builds.                        *)
Steps == {"root", "string", "part", "args", "search", "directory", "items", "clone", "descriptor"}
Walking == {"search", "directory", "items", "clone", "descriptor"}

Child(b) == IF mem[b].kind = "file_descriptor" THEN mem[b].private ELSE mem[b].ptr

(* Records with the fields of Struct and of fopen. *)
IsStruct(s) ==
  /\ s = [kind |-> s.kind, ptr |-> s.ptr, private |-> s.private, entry |-> s.entry]
  /\ s.ptr \in Block \cup {NULL, WILD} /\ s.private \in Block \cup {WILD}

MemOK == mem = [b \in Block |-> mem[b]] /\ \A b \in Block : IsStruct(mem[b])

IsOpen(c) ==
  c = [pc |-> c.pc, path |-> c.path, mode |-> c.mode, parts |-> c.parts,
       descriptor |-> c.descriptor, depth |-> c.depth, current_item |-> c.current_item,
       i |-> c.i, f_item |-> c.f_item, stream |-> c.stream, kept |-> c.kept]

CallOK ==
  IF call.pc \in Steps
  THEN /\ IsOpen(call)
       /\ call.depth \in Nat \ {0}
       /\ {call.descriptor, call.current_item, call.f_item} \subseteq Block \cup {NULL}
       /\ call.pc \in Walking => call.descriptor \in Block
       /\ call.pc \in {"clone", "directory", "items"} => call.f_item \in Block
       /\ call.pc = "items" => mem[call.f_item].ptr \in Block
  ELSE call = [pc |-> call.pc] /\ call.pc \in Mounting \cup {"idle", "wild"}

StateOK == /\ avail \subseteq Block /\ MemOK /\ CallOK
           /\ file_descriptors \in [1..MaxFd -> Block \cup {NULL}]
           /\ ret \in {F!EIO} \cup 0..MaxFd
           /\ no_block \in BOOLEAN /\ bad_free \in BOOLEAN

(* The kind of the block that b's pointer is for. *)
Fits(b, kind) ==
  \/ mem[b].kind = "file_descriptor" /\ kind = "fat_file_descriptor"
  \/ mem[b].kind = "fat_file_descriptor" /\ kind = "fat_item"
  \/ mem[b].kind = "fat_item" /\ kind = IF mem[b].entry.dir THEN "fat_directory" ELSE "entry"
  \/ mem[b].kind = "fat_directory" /\ kind = "items"

Trees ==
  /\ \A b \in Taken : Child(b) \in Block => Child(b) \in Taken /\ Fits(b, mem[Child(b)].kind)
  /\ \A b, c \in Taken : Child(b) \in Block /\ Child(b) = Child(c) => b = c

(* Nothing points to it. *)
IsRoot(x) == x \in Taken /\ \A b \in Taken : Child(b) # x

IsItem(x) == x \in Taken /\ mem[x].kind = "fat_item"
Complete(x) == /\ IsItem(x) /\ Child(x) \in Block
               /\ mem[x].entry.dir => Child(Child(x)) \in Block

Opened(d) == /\ d \in Taken /\ mem[d].kind = "file_descriptor"
             /\ Child(d) \in Block /\ Complete(Child(Child(d)))

DescriptorsInv ==
  /\ \A fd \in 1..MaxFd : file_descriptors[fd] # NULL => Opened(file_descriptors[fd])
  /\ \A fd, g \in 1..MaxFd :
       file_descriptors[fd] = file_descriptors[g] /\ file_descriptors[fd] # NULL => fd = g

(* The first blocks of all, and no links yet. *)
MountInv ==
  call.pc \in Mounting =>
    /\ file_descriptors = [fd \in 1..MaxFd |-> NULL]
    /\ \A b \in Taken : Child(b) \notin Block
    /\ call.pc = "header" => \A b \in avail : b > 4
    /\ call.pc \in {"root_directory", "resolved"} => \A b \in avail : b > 5

(* What the walk has found, the directory it searches and the item it       *)
(* builds.                                                                  *)
Found(x) ==
  /\ IsRoot(x) /\ IsItem(x)
  /\ call.pc \in {"search", "descriptor"} => Complete(x)
  /\ call.pc = "clone" => ~mem[x].entry.dir /\ Child(x) = NULL
  /\ call.pc = "directory" => mem[x].entry.dir /\ Child(x) = NULL
  /\ call.pc = "items" => mem[x].entry.dir /\ Child(Child(x)) = NULL

Searched(x) == IsRoot(x) /\ Complete(x) /\ x # call.f_item

WalkInv ==
  /\ call.pc \in Steps \ Walking => call.depth = 1 /\ call.f_item = NULL
  /\ call.pc \in Walking =>
       /\ IsRoot(call.descriptor)
       /\ mem[call.descriptor].kind = "fat_file_descriptor" /\ mem[call.descriptor].ptr = NULL
       /\ IF call.pc = "descriptor" THEN Found(call.current_item)
          ELSE /\ call.depth > 1 => Searched(call.current_item)
               /\ call.f_item # NULL => Found(call.f_item)

Intact == Trees /\ DescriptorsInv /\ MountInv /\ WalkInv /\ ~bad_free
BlocksInv == ~no_block => Intact

-----------------------------------------------------------------------------
(* Pointers are told from NULL and from bytes that are none. *)
LEMMA Blocks ==
  /\ Block \subseteq Nat /\ NULL \notin Block /\ WILD \notin Block
  /\ 1..MountBlocks \subseteq Block
<1>1. PICK n \in HeapSizes : n \in Nat /\ n >= MountBlocks
  BY FileBlocksAssumption
<1> QED BY <1>1, FileBlocksAssumption DEF Block, NULL, WILD, MountBlocks

(* kzalloc returns a free block, or NULL when there is none. *)
LEMMA NewBlock ==
  ASSUME avail \subseteq Block
  PROVE  /\ New = NULL <=> avail = {}
         /\ New # NULL => New \in avail /\ New \in Block
<1>1. avail # {} => Min(avail) \in avail
  BY Blocks, MinIsLeast
<1> QED BY <1>1, Blocks DEF New

(* Asked for no bytes it returns a free block as well, when the last one   *)
(* is free.                                                                *)
LEMMA NewEmptyBlock ==
  ASSUME avail \subseteq Block, NewEmpty # NULL
  PROVE  NewEmpty \in avail /\ NewEmpty \in Block
<1>1. PICK S : S = {b \in avail : b..heap_end \subseteq avail}
  OBVIOUS
<1>2. heap_end \in avail /\ NewEmpty = Min(S)
  BY <1>1 DEF NewEmpty
<1>3. heap_end \in S /\ S \in SUBSET Nat
  <2>1. avail \subseteq Nat
    BY Blocks
  <2>2. PICK n : n = heap_end /\ n \in Nat
    BY <1>2, <2>1
  <2>3. n..n = {n}
    BY <2>2
  <2> QED BY <1>1, <1>2, <2>1, <2>2, <2>3
<1>4. Min(S) \in S
  BY <1>3, MinIsLeast
<1> QED BY <1>1, <1>2, <1>4

(* A pointer stored in a structure. *)
LEMMA StorePtr ==
  ASSUME NEW m, m = [b \in Block |-> m[b]], \A b \in Block : IsStruct(m[b]),
         NEW x \in Block, NEW v, NEW m1, m1 = [m EXCEPT ![x].ptr = v]
  PROVE  /\ m1 = [b \in Block |-> m1[b]]
         /\ m1[x] = [kind |-> m[x].kind, ptr |-> v, private |-> m[x].private, entry |-> m[x].entry]
         /\ \A b \in Block : b # x => m1[b] = m[b]
<1>1. m[x] = [kind |-> m[x].kind, ptr |-> m[x].ptr, private |-> m[x].private, entry |-> m[x].entry]
  BY DEF IsStruct
<1>2. m1 = [m EXCEPT ![x] = [m[x] EXCEPT !.ptr = v]]
  OBVIOUS
<1>3. [m[x] EXCEPT !.ptr = v] = [kind |-> m[x].kind, ptr |-> v, private |-> m[x].private, entry |-> m[x].entry]
  BY <1>1
<1>4. m1 = [m EXCEPT ![x] = [kind |-> m[x].kind, ptr |-> v, private |-> m[x].private, entry |-> m[x].entry]]
  BY <1>2, <1>3
<1> QED BY <1>4

LEMMA FilledOK ==
  ASSUME avail \subseteq Block, MemOK, NEW s, IsStruct(s), NEW m, m = Filled(s)
  PROVE  m = [b \in Block |-> m[b]] /\ \A b \in Block : IsStruct(m[b])
<1>1. CASE New = NULL
  BY <1>1 DEF Filled, MemOK
<1>2. CASE New # NULL
  <2>1. New \in Block
    BY <1>2, NewBlock
  <2>2. m = [mem EXCEPT ![New] = s]
    BY <1>2 DEF Filled
  <2>3. m = [b \in Block |-> m[b]] /\ \A b \in Block : m[b] = IF b = New THEN s ELSE mem[b]
    BY <2>1, <2>2 DEF MemOK
  <2> QED BY <2>3 DEF MemOK
<1> QED BY <1>1, <1>2

(* An allocation that is not refused. *)
LEMMA Allocates ==
  ASSUME StateOK, kzalloc, ~no_block'
  PROVE  /\ ~no_block /\ New # NULL /\ bad_free' = bad_free
         /\ \E n : n = New /\ n # NULL /\ avail' = avail \ {n}
         /\ \A s : Filled(s) = [mem EXCEPT ![New] = s]
  BY DEF StateOK, kzalloc, Filled

-----------------------------------------------------------------------------
(* What allocating, linking and freeing do to the trees. *)

(* What is complete stays so when only blocks without a child are written.  *)
LEMMA KeepsComplete ==
  ASSUME Trees, Taken \subseteq Taken',
         \A b \in Taken : Child(b) \in Block => mem'[b] = mem[b]
  PROVE  /\ \A x : Complete(x) => Complete(x)'
         /\ \A d : Opened(d) => Opened(d)'
         /\ DescriptorsInv /\ UNCHANGED file_descriptors => DescriptorsInv'
<1>1. \A b \in Taken : Child(b) \in Block => Child(b)' = Child(b) /\ mem'[b] = mem[b]
  BY DEF Child
<1>2. \A b \in Taken : Child(b) \in Block => Child(b) \in Taken
  BY DEF Trees
<1>3. ASSUME NEW x, Complete(x)
      PROVE  Complete(x)'
  <2>1. x \in Taken /\ x \in Taken' /\ Child(x)' = Child(x) /\ mem'[x] = mem[x] /\ Child(x) \in Taken
    BY <1>1, <1>2, <1>3 DEF Complete, IsItem
  <2>2. mem[x].entry.dir => Child(Child(x)) \in Block /\ Child(Child(x))' = Child(Child(x))
    BY <1>1, <1>3, <2>1 DEF Complete, Child
  <2> QED BY <1>3, <2>1, <2>2 DEF Complete, IsItem
<1>4. ASSUME NEW d, Opened(d)
      PROVE  Opened(d)'
  <2>1. PICK x : x = Child(Child(d))
    OBVIOUS
  <2>2. d \in Taken /\ mem[d].kind = "file_descriptor" /\ Child(d) \in Block /\ Complete(x)
    BY <1>4, <2>1 DEF Opened
  <2>3. d \in Taken' /\ mem'[d] = mem[d] /\ Child(d)' = Child(d) /\ Child(d) \in Taken
    BY <1>1, <1>2, <2>2
  <2>4. x \in Block
    BY <2>2 DEF Complete, IsItem, Taken
  <2>5. Child(Child(d))' = x
    BY <1>1, <2>1, <2>3, <2>4 DEF Child
  <2>6. Complete(x)'
    BY <1>3, <2>2
  <2> QED BY <2>2, <2>3, <2>5, <2>6 DEF Opened
<1>5. ASSUME DescriptorsInv, UNCHANGED file_descriptors
      PROVE  DescriptorsInv'
  BY <1>4, <1>5 DEF DescriptorsInv
<1> QED BY <1>3, <1>4, <1>5

(* A new block without a child: a tree of its own. *)
LEMMA AllocTrees ==
  ASSUME StateOK, Trees, kzalloc, ~no_block', NEW n, n = New,
         NEW s, s.ptr \in {NULL, WILD}, s.private = WILD, mem' = Filled(s)
  PROVE  /\ Trees' /\ IsRoot(n)' /\ n \notin Taken /\ mem'[n] = s
         /\ \A b \in Taken : mem'[b] = mem[b]
         /\ \A x : IsRoot(x) => IsRoot(x)'
         /\ \A x : Complete(x) => Complete(x)'
         /\ DescriptorsInv /\ UNCHANGED file_descriptors => DescriptorsInv'
<1>1. n \in avail /\ n \in Block /\ n \notin Taken
  BY Allocates, NewBlock DEF Taken, StateOK
<1>2. mem'[n] = s /\ \A b \in Taken : mem'[b] = mem[b]
  <2>1. mem' = [mem EXCEPT ![n] = s]
    BY Allocates
  <2> QED BY <1>1, <2>1 DEF Taken, StateOK, MemOK
<1>3. Taken' = Taken \cup {n}
  BY <1>1 DEF Taken, kzalloc
<1>4. Child(n)' \in {NULL, WILD} /\ \A b \in Taken : Child(b)' = Child(b)
  BY <1>2 DEF Child
<1>5. Child(n)' \notin Block
  BY <1>4, Blocks
<1>6. \A b \in Taken : Child(b) # n
  BY <1>1 DEF Trees
<1>7. Trees'
  <2>1. ASSUME NEW b \in Taken', Child(b)' \in Block
        PROVE  /\ b \in Taken /\ Child(b)' = Child(b) /\ Child(b) \in Taken
               /\ Fits(b, mem[Child(b)].kind)' /\ mem'[Child(b)].kind = mem[Child(b)].kind
    <3>1. b \in Taken /\ Child(b)' = Child(b)
      BY <1>3, <1>4, <1>5, <2>1
    <3>2. Child(b) \in Taken /\ Fits(b, mem[Child(b)].kind)
      BY <2>1, <3>1 DEF Trees
    <3>3. mem'[b] = mem[b] /\ mem'[Child(b)] = mem[Child(b)]
      BY <1>2, <3>1, <3>2
    <3> QED BY <3>1, <3>2, <3>3 DEF Fits
  <2>2. \A b \in Taken' : Child(b)' \in Block => Child(b)' \in Taken' /\ Fits(b, mem[Child(b)].kind)'
    BY <1>3, <2>1 DEF Fits
  <2>3. \A b, c \in Taken' : Child(b)' \in Block /\ Child(b)' = Child(c)' => b = c
    BY <2>1 DEF Trees
  <2> QED BY <2>2, <2>3 DEF Trees
<1>8. IsRoot(n)' /\ \A x : IsRoot(x) => IsRoot(x)'
  <2>1. n \in Taken' /\ \A c \in Taken' : Child(c)' # n
    BY <1>1, <1>3, <1>4, <1>5, <1>6
  <2>2. ASSUME NEW x, x \in Taken, \A c \in Taken : Child(c) # x
        PROVE  x \in Taken' /\ \A c \in Taken' : Child(c)' # x
    BY <1>1, <1>3, <1>4, <1>5, <2>2 DEF Taken
  <2> QED BY <2>1, <2>2 DEF IsRoot
<1> QED BY <1>1, <1>2, <1>3, <1>5, <1>7, <1>8, KeepsComplete

(* The trees grow: links are only added, to blocks that had no parent, from *)
(* blocks that had no child.  Those are the blocks of L.                    *)
LEMMA GrowTrees ==
  ASSUME Trees, Taken \subseteq Taken', NEW L \in SUBSET Taken',
         \A b \in Taken' \ L : b \in Taken /\ mem'[b] = mem[b],
         \A b \in L \cap Taken : Child(b) \notin Block,
         \A b \in Taken : mem'[b].kind = mem[b].kind,
         \A b \in L : Child(b)' \in Block => /\ Child(b)' \in Taken' /\ Fits(b, mem[Child(b)].kind)'
                                             /\ \A c \in Taken : Child(c) # Child(b)',
         \A b, c \in L : Child(b)' \in Block /\ Child(b)' = Child(c)' => b = c
  PROVE  /\ Trees'
         /\ \A x : IsRoot(x) /\ (\A b \in L : Child(b)' # x) => IsRoot(x)'
         /\ \A x : Complete(x) => Complete(x)'
         /\ \A d : Opened(d) => Opened(d)'
         /\ DescriptorsInv /\ UNCHANGED file_descriptors => DescriptorsInv'
<1>1. \A b \in Taken' \ L : b \in Taken /\ mem'[b] = mem[b] /\ Child(b)' = Child(b)
  BY DEF Child
<1>2. ASSUME NEW b \in Taken', Child(b)' \in Block
      PROVE  Child(b)' \in Taken' /\ Fits(b, mem[Child(b)].kind)'
  <2>1. CASE b \in L
    BY <1>2, <2>1
  <2>2. CASE b \notin L
    <3>1. /\ b \in Taken /\ mem'[b] = mem[b] /\ Child(b)' = Child(b)
          /\ Child(b) \in Taken /\ Fits(b, mem[Child(b)].kind)
      BY <1>1, <1>2, <2>2 DEF Trees
    <3>2. mem'[Child(b)].kind = mem[Child(b)].kind
      BY <3>1
    <3> QED BY <3>1, <3>2 DEF Fits
  <2> QED BY <2>1, <2>2
<1>3. ASSUME NEW b \in Taken', NEW c \in Taken', Child(b)' \in Block, Child(b)' = Child(c)'
      PROVE  b = c
  <2>1. CASE b \in L /\ c \in L
    BY <1>3, <2>1
  <2>2. CASE b \notin L /\ c \notin L
    BY <1>1, <1>3, <2>2 DEF Trees
  <2>3. CASE b \in L /\ c \notin L
    BY <1>1, <1>3, <2>3
  <2>4. CASE b \notin L /\ c \in L
    BY <1>1, <1>3, <2>4
  <2> QED BY <2>1, <2>2, <2>3, <2>4
<1>4. Trees'
  BY <1>2, <1>3 DEF Trees
<1>5. ASSUME NEW x, IsRoot(x), \A b \in L : Child(b)' # x
      PROVE  IsRoot(x)'
  BY <1>1, <1>5 DEF IsRoot
<1>6. \A b \in Taken : Child(b) \in Block => mem'[b] = mem[b]
  OBVIOUS
<1> QED BY <1>4, <1>5, <1>6, KeepsComplete

(* A new block, linked from a block that had no child. *)
LinksNew(n, s, y) ==
  /\ n = New /\ IsStruct(s) /\ s.ptr \in {NULL, WILD} /\ s.kind # "file_descriptor"
  /\ y \in Taken /\ mem[y].kind \in {"fat_item", "fat_directory"} /\ mem[y].ptr = NULL
  /\ Fits(y, s.kind)
  /\ mem' = [Filled(s) EXCEPT ![y].ptr = n]

LEMMA LinkTrees ==
  ASSUME StateOK, Trees, kzalloc, ~no_block', NEW n, NEW s, NEW y, LinksNew(n, s, y)
  PROVE  /\ Trees' /\ n \notin Taken /\ n \in Taken'
         /\ Child(n)' = s.ptr /\ Child(y)' = n
         /\ mem'[y].kind = mem[y].kind /\ mem'[y].entry = mem[y].entry
         /\ \A b \in Taken : b # y => mem'[b] = mem[b]
         /\ \A x : IsRoot(x) => IsRoot(x)'
         /\ \A x : Complete(x) => Complete(x)'
         /\ DescriptorsInv /\ UNCHANGED file_descriptors => DescriptorsInv'
<1> USE DEF LinksNew
<1> PICK m : m = Filled(s)
  OBVIOUS
<1>1. n \in avail /\ n \in Block /\ n \notin Taken /\ y \in Block /\ y # n
  BY Allocates, NewBlock DEF Taken, StateOK
<1>2. /\ m = [b \in Block |-> m[b]] /\ \A b \in Block : IsStruct(m[b])
      /\ m[n] = s /\ \A b \in Block : b # n => m[b] = mem[b]
  <2>1. m = [mem EXCEPT ![n] = s]
    BY Allocates
  <2> QED BY <1>1, <2>1, FilledOK DEF StateOK, MemOK
<1>3. m[y] = mem[y]
  BY <1>1, <1>2
<1>4. /\ mem'[y] = [kind |-> mem[y].kind, ptr |-> n, private |-> mem[y].private, entry |-> mem[y].entry]
      /\ \A b \in Block : b # y => mem'[b] = m[b]
  <2>1. PICK m1 : m1 = mem'
    OBVIOUS
  <2>2. m1 = [m EXCEPT ![y].ptr = n]
    BY <2>1
  <2> QED BY <1>1, <1>2, <1>3, <2>1, <2>2, StorePtr
<1>5. /\ \A b \in Taken : b # y => mem'[b] = mem[b]
      /\ mem'[n] = s
      /\ mem'[y].kind = mem[y].kind /\ mem'[y].entry = mem[y].entry /\ mem'[y].ptr = n
  <2>1. \A b \in Taken : b \in Block /\ b # n
    BY <1>1 DEF Taken
  <2>2. \A b \in Taken : b # y => mem'[b] = mem[b]
    BY <1>2, <1>4, <2>1
  <2>3. mem'[n] = m[n]
    BY <1>1, <1>4
  <2>4. mem'[y].kind = mem[y].kind /\ mem'[y].entry = mem[y].entry /\ mem'[y].ptr = n
    BY <1>4
  <2> QED BY <1>2, <2>2, <2>3, <2>4
<1>6. Taken' = Taken \cup {n}
  BY <1>1 DEF Taken, kzalloc
<1>7. Child(n)' = s.ptr /\ Child(y)' = n /\ Child(y) = NULL
  BY <1>5 DEF Child
<1>8. \A c \in Taken : Child(c) # n
  BY <1>1 DEF Trees
<1>9. Fits(y, mem[Child(y)].kind)'
  BY <1>5, <1>7 DEF Fits
<1> DEFINE L == {n, y}
<1>10. /\ L \in SUBSET Taken' /\ \A b \in Taken' \ L : b \in Taken /\ mem'[b] = mem[b]
       /\ \A b \in L \cap Taken : Child(b) \notin Block
       /\ \A b \in Taken : mem'[b].kind = mem[b].kind
  BY <1>1, <1>5, <1>6, <1>7, Blocks
<1>11. /\ \A b \in L : Child(b)' \in Block => /\ Child(b)' \in Taken' /\ Fits(b, mem[Child(b)].kind)'
                                              /\ \A c \in Taken : Child(c) # Child(b)'
       /\ \A b, c \in L : Child(b)' \in Block /\ Child(b)' = Child(c)' => b = c
  BY <1>6, <1>7, <1>8, <1>9, Blocks
<1>12. \A x : IsRoot(x) => \A b \in L : Child(b)' # x
  BY <1>1, <1>7, Blocks DEF IsRoot, Taken
<1> HIDE DEF L
<1>13. /\ Trees' /\ \A x : IsRoot(x) /\ (\A b \in L : Child(b)' # x) => IsRoot(x)'
       /\ \A x : Complete(x) => Complete(x)'
       /\ DescriptorsInv /\ UNCHANGED file_descriptors => DescriptorsInv'
  BY <1>6, <1>10, <1>11, GrowTrees
<1> QED BY <1>1, <1>5, <1>6, <1>7, <1>12, <1>13

(* Whole subtrees are freed, with everything that points into them. *)
LEMMA FreeTrees ==
  ASSUME Trees, NEW R \in SUBSET Taken, Taken' = Taken \ R, mem' = mem,
         \A b \in Taken : Child(b) \in R => b \in R
  PROVE  /\ Trees'
         /\ \A x : IsRoot(x) /\ x \notin R => IsRoot(x)'
         /\ \A x : Complete(x) /\ x \notin R => Complete(x)'
<1>1. \A b : Child(b)' = Child(b) /\ mem'[b] = mem[b]
  BY DEF Child
<1>2. ASSUME NEW b \in Taken', Child(b)' \in Block
      PROVE  Child(b)' \in Taken' /\ Fits(b, mem[Child(b)].kind)'
  <2>1. b \in Taken /\ Child(b) \in Taken /\ Child(b) \notin R /\ Fits(b, mem[Child(b)].kind)
    BY <1>1, <1>2 DEF Trees
  <2> QED BY <1>1, <2>1 DEF Fits
<1>3. \A b, c \in Taken' : Child(b)' \in Block /\ Child(b)' = Child(c)' => b = c
  BY <1>1 DEF Trees
<1>4. Trees'
  BY <1>2, <1>3 DEF Trees
<1>5. \A x : IsRoot(x) /\ x \notin R => IsRoot(x)'
  BY <1>1 DEF IsRoot
<1>6. ASSUME NEW x, Complete(x), x \notin R
      PROVE  Complete(x)'
  <2>1. x \in Taken' /\ Child(x)' = Child(x) /\ Child(Child(x))' = Child(Child(x))
    BY <1>1, <1>6 DEF Complete, IsItem, Child
  <2> QED BY <1>1, <1>6, <2>1 DEF Complete, IsItem
<1> QED BY <1>4, <1>5, <1>6

-----------------------------------------------------------------------------
(* Every step keeps StateOK. *)

LEMMA StoredOK ==
  ASSUME NEW m, m = [b \in Block |-> m[b]], \A b \in Block : IsStruct(m[b]),
         NEW x \in Block, NEW v \in Block \cup {NULL, WILD}, mem' = [m EXCEPT ![x].ptr = v]
  PROVE  MemOK' /\ mem'[x].ptr = v
<1>1. /\ mem' = [b \in Block |-> mem'[b]]
      /\ mem'[x] = [kind |-> m[x].kind, ptr |-> v, private |-> m[x].private, entry |-> m[x].entry]
      /\ \A b \in Block : b # x => mem'[b] = m[b]
  <2>1. PICK m1 : m1 = mem'
    OBVIOUS
  <2>2. m1 = [m EXCEPT ![x].ptr = v]
    BY <2>1
  <2>3. /\ m1 = [b \in Block |-> m1[b]]
        /\ m1[x] = [kind |-> m[x].kind, ptr |-> v, private |-> m[x].private, entry |-> m[x].entry]
        /\ \A b \in Block : b # x => m1[b] = m[b]
    BY <2>2, StorePtr
  <2> QED BY <2>1, <2>3
<1>2. mem'[x].ptr = v /\ IsStruct(mem'[x])
  BY <1>1 DEF IsStruct
<1> QED BY <1>1, <1>2 DEF MemOK

LEMMA StructOK ==
  ASSUME NEW kind, NEW ptr \in {NULL, WILD}
  PROVE  IsStruct(Struct(kind, ptr))
  BY DEF IsStruct, Struct

LEMMA KzallocOK ==
  ASSUME StateOK, kzalloc
  PROVE  avail' \subseteq Block /\ no_block' \in BOOLEAN /\ bad_free' \in BOOLEAN
  BY DEF StateOK, kzalloc

LEMMA KfreeOK ==
  ASSUME StateOK, NEW ptrs, kfree(ptrs)
  PROVE  /\ avail' \subseteq Block /\ no_block' \in BOOLEAN /\ bad_free' \in BOOLEAN
         /\ mem' = mem /\ MemOK'
  BY DEF StateOK, kfree, MemOK

LEMMA ReturnOK ==
  ASSUME NEW r \in {F!EIO} \cup 0..MaxFd, NEW l, Return(r, l)
  PROVE  CallOK' /\ ret' \in {F!EIO} \cup 0..MaxFd
  BY DEF Return, Idle, CallOK, Steps

LEMMA GotoFields ==
  ASSUME StateOK, call.pc \in Steps, NEW pc, call' = [call EXCEPT !.pc = pc]
  PROVE  /\ IsOpen(call)' /\ call'.pc = pc /\ call'.depth = call.depth
         /\ call'.descriptor = call.descriptor /\ call'.current_item = call.current_item
         /\ call'.f_item = call.f_item
  BY DEF StateOK, CallOK, IsOpen

LEMMA GotoOK ==
  ASSUME StateOK, call.pc \in Steps, NEW pc \in Steps, Goto(pc),
         pc \in Walking => call.pc \in Walking,
         pc \in {"clone", "directory"} => FALSE,
         pc = "items" => call.f_item \in Block /\ mem'[call.f_item].ptr \in Block
  PROVE  CallOK' /\ ret' \in {F!EIO} \cup 0..MaxFd
<1>1. call' = [call EXCEPT !.pc = pc] /\ ret' = ret
  BY DEF Goto
<1>2. /\ IsOpen(call)' /\ call'.pc = pc /\ call'.depth = call.depth
      /\ call'.descriptor = call.descriptor /\ call'.current_item = call.current_item
      /\ call'.f_item = call.f_item
  BY <1>1, GotoFields
<1> QED BY <1>1, <1>2 DEF StateOK, CallOK, Steps, Walking

(* The path is parsed. *)
LEMMA PathOK ==
  ASSUME StateOK,
         pathparser_create_root \/ pathparser_get_path_part \/ path_end
         \/ pathparser_parse_path_part \/ open_rejected
  PROVE  StateOK'
<1>1. 0 \in {F!EIO} \cup 0..MaxFd
  BY FileBlocksAssumption
<1>2. avail \subseteq Block /\ MemOK
  BY DEF StateOK
<1>3. ASSUME mem' = Filled(Struct("path", WILD)) \/ mem' = Filled(Cleared)
      PROVE  MemOK'
  <2>1. IsStruct(Struct("path", WILD)) /\ IsStruct(Cleared)
    BY StructOK DEF Cleared
  <2> QED BY <1>2, <1>3, <2>1, FilledOK DEF MemOK
<1>4. CASE pathparser_create_root
  <2>1. /\ call.pc = "root" /\ kzalloc /\ mem' = Filled(Struct("path", WILD))
        /\ UNCHANGED file_descriptors
        /\ IF New = NULL THEN Return(0, F!NoCall) ELSE Goto("string")
    BY <1>4 DEF pathparser_create_root, Keeps
  <2>2. CallOK' /\ ret' \in {F!EIO} \cup 0..MaxFd
    BY <1>1, <2>1, ReturnOK, GotoOK DEF Steps, Walking
  <2> QED BY <1>3, <2>1, <2>2, KzallocOK DEF StateOK
<1>5. CASE pathparser_get_path_part
  <2>1. /\ call.pc = "string" /\ kzalloc /\ mem' = Filled(Struct("path", WILD))
        /\ UNCHANGED file_descriptors
        /\ Goto(IF New = NULL THEN "args" ELSE "part")
    BY <1>5 DEF pathparser_get_path_part, Keeps
  <2>2. CallOK' /\ ret' \in {F!EIO} \cup 0..MaxFd
    BY <2>1, GotoOK DEF Steps, Walking
  <2> QED BY <1>3, <2>1, <2>2, KzallocOK DEF StateOK
<1>6. CASE path_end
  <2>1. /\ call.pc = "string" /\ mem' = Filled(Cleared)
        /\ no_block' = (no_block \/ New = NULL) /\ bad_free' = (bad_free \/ New = NULL)
        /\ UNCHANGED <<avail, file_descriptors>> /\ Goto("args")
    BY <1>6 DEF path_end, Keeps
  <2>2. CallOK' /\ ret' \in {F!EIO} \cup 0..MaxFd
    BY <2>1, GotoOK DEF Steps, Walking
  <2> QED BY <1>3, <2>1, <2>2 DEF StateOK
<1>7. CASE pathparser_parse_path_part
  <2> DEFINE x == IF New = NULL THEN "args" ELSE "string"
             y == IF New = NULL THEN call.parts ELSE Append(call.parts, PathPart)
  <2>1. /\ call.pc = "part" /\ kzalloc /\ mem' = Filled(Struct("path", WILD))
        /\ UNCHANGED <<file_descriptors, ret>>
        /\ call' = [call EXCEPT !.pc = x, !.parts = y]
    BY <1>7 DEF pathparser_parse_path_part, Keeps
  <2>2. x \in {"args", "string"}
    OBVIOUS
  <2> HIDE DEF x, y
  <2>3. /\ IsOpen(call)' /\ call'.pc = x /\ call'.depth = call.depth
        /\ call'.descriptor = call.descriptor /\ call'.current_item = call.current_item
        /\ call'.f_item = call.f_item
    BY <2>1, <2>2 DEF StateOK, CallOK, IsOpen, Steps
  <2>4. CallOK'
    BY <2>1, <2>2, <2>3 DEF StateOK, CallOK, Steps, Walking
  <2> QED BY <1>3, <2>1, <2>4, KzallocOK DEF StateOK
<1>8. CASE open_rejected
  <2>1. Return(0, F!NoCall) /\ UNCHANGED <<avail, mem, no_block, bad_free, file_descriptors>>
    BY <1>8 DEF open_rejected, Keeps, heapVars
  <2> QED BY <1>1, <1>2, <2>1, ReturnOK DEF StateOK, MemOK
<1> QED BY <1>4, <1>5, <1>6, <1>7, <1>8

(* fat16_open and the items of the directories. *)
LEMMA ItemOK ==
  ASSUME StateOK,
         fat16_open \/ fat16_new_fat_item_for_directory_item \/ fat16_clone_directory_item
         \/ load_directory \/ load_items \/ load_no_items \/ load_items_refused
  PROVE  StateOK'
<1>1. 0 \in {F!EIO} \cup 0..MaxFd
  BY FileBlocksAssumption
<1>2. avail \subseteq Block /\ MemOK
  BY DEF StateOK
<1>3. New \in Block \cup {NULL}
  BY <1>2, NewBlock
<1>4. CASE fat16_open
  <2>1. /\ call.pc = "args" /\ kzalloc /\ mem' = Filled(Struct("fat_file_descriptor", NULL))
        /\ UNCHANGED file_descriptors
        /\ IF New = NULL THEN Return(0, [call |-> "fopen", fd |-> 0, path |-> call.path])
           ELSE call' = [call EXCEPT !.pc = "search", !.descriptor = New] /\ UNCHANGED ret
    BY <1>4 DEF fat16_open, Keeps, Fail
  <2>2. MemOK'
    <3>1. IsStruct(Struct("fat_file_descriptor", NULL))
      BY StructOK
    <3> QED BY <1>2, <2>1, <3>1, FilledOK DEF MemOK
  <2>3. CASE New = NULL
    BY <1>1, <2>1, <2>2, <2>3, ReturnOK, KzallocOK DEF StateOK
  <2>4. CASE New # NULL
    <3>1. /\ IsOpen(call)' /\ call'.pc = "search" /\ call'.depth = call.depth
          /\ call'.descriptor = New /\ call'.current_item = call.current_item
          /\ call'.f_item = call.f_item
      BY <2>1, <2>4 DEF StateOK, CallOK, IsOpen, Steps
    <3>2. CallOK'
      BY <1>3, <2>1, <2>4, <3>1 DEF StateOK, CallOK, Steps, Walking
    <3> QED BY <2>1, <2>2, <2>4, <3>2, KzallocOK DEF StateOK
  <2> QED BY <2>3, <2>4
<1>5. CASE fat16_new_fat_item_for_directory_item
  <2> DEFINE e == Directory[Min(HitsLeft)]
             pc == IF New = NULL THEN "search" ELSE IF e.dir THEN "directory" ELSE "clone"
  <2>1. /\ call.pc = "search" /\ kzalloc
        /\ mem' = Filled([Struct("fat_item", NULL) EXCEPT !.entry = e])
        /\ UNCHANGED <<file_descriptors, ret>>
        /\ call' = [call EXCEPT !.i = Min(HitsLeft) + 1, !.f_item = New, !.pc = pc]
    BY <1>5 DEF fat16_new_fat_item_for_directory_item, Keeps
  <2> HIDE DEF e
  <2>2. MemOK'
    <3>1. IsStruct([Struct("fat_item", NULL) EXCEPT !.entry = e])
      BY DEF IsStruct, Struct
    <3> QED BY ZenonT(30), <1>2, <2>1, <3>1, FilledOK DEF MemOK
  <2>3. pc \in {"search", "directory", "clone"} /\ (New = NULL => pc = "search")
    OBVIOUS
  <2> HIDE DEF pc
  <2>4. PICK c : c = [call EXCEPT !.i = Min(HitsLeft) + 1, !.f_item = New]
    OBVIOUS
  <2>5. /\ IsOpen(c) /\ c.depth = call.depth /\ c.descriptor = call.descriptor
        /\ c.current_item = call.current_item /\ c.f_item = New
    BY <2>1, <2>4 DEF StateOK, CallOK, IsOpen, Steps
  <2>6. call' = [c EXCEPT !.pc = pc]
    BY <2>1, <2>4
  <2>7. /\ IsOpen(call)' /\ call'.pc = pc /\ call'.depth = c.depth
        /\ call'.descriptor = c.descriptor /\ call'.current_item = c.current_item
        /\ call'.f_item = c.f_item
    BY <2>5, <2>6 DEF IsOpen
  <2>8. CallOK'
    BY <1>3, <2>1, <2>3, <2>5, <2>7 DEF StateOK, CallOK, Steps, Walking
  <2> QED BY <2>1, <2>2, <2>8, KzallocOK DEF StateOK
<1>6. CASE fat16_clone_directory_item
  <2>1. /\ call.pc = "clone" /\ kzalloc /\ Goto("search") /\ UNCHANGED file_descriptors
        /\ mem' = [Filled(Struct("entry", WILD)) EXCEPT ![call.f_item].ptr = New]
    BY <1>6 DEF fat16_clone_directory_item, Keeps
  <2>2. MemOK'
    <3>1. IsStruct(Struct("entry", WILD))
      BY StructOK
    <3>2. PICK m : m = Filled(Struct("entry", WILD))
      OBVIOUS
    <3>3. m = [b \in Block |-> m[b]] /\ \A b \in Block : IsStruct(m[b])
      BY <1>2, <3>1, <3>2, FilledOK
    <3>4. mem' = [m EXCEPT ![call.f_item].ptr = New] /\ call.f_item \in Block
      BY <2>1, <3>2 DEF StateOK, CallOK, Steps
    <3> QED BY <1>3, <3>3, <3>4, StoredOK
  <2>3. CallOK' /\ ret' \in {F!EIO} \cup 0..MaxFd
    BY <2>1, GotoOK DEF Steps, Walking
  <2> QED BY <2>1, <2>2, <2>3, KzallocOK DEF StateOK
<1>7. CASE load_directory
  <2>1. /\ call.pc = "directory" /\ kzalloc /\ UNCHANGED file_descriptors
        /\ Goto(IF New = NULL THEN "search" ELSE "items")
        /\ mem' = [Filled(Struct("fat_directory", NULL)) EXCEPT ![call.f_item].ptr = New]
    BY <1>7 DEF load_directory, Keeps
  <2>2. call.f_item \in Block
    BY <2>1 DEF StateOK, CallOK, Steps
  <2>3. MemOK' /\ mem'[call.f_item].ptr = New
    <3>1. IsStruct(Struct("fat_directory", NULL))
      BY StructOK
    <3>2. PICK m : m = Filled(Struct("fat_directory", NULL))
      OBVIOUS
    <3>3. m = [b \in Block |-> m[b]] /\ \A b \in Block : IsStruct(m[b])
      BY <1>2, <3>1, <3>2, FilledOK
    <3>4. mem' = [m EXCEPT ![call.f_item].ptr = New]
      BY <2>1, <3>2
    <3> QED BY <1>3, <2>2, <3>3, <3>4, StoredOK
  <2>4. CallOK' /\ ret' \in {F!EIO} \cup 0..MaxFd
    BY <1>3, <2>1, <2>2, <2>3, GotoOK DEF Steps, Walking
  <2> QED BY <2>1, <2>3, <2>4, KzallocOK DEF StateOK
<1>8. CASE load_items
  <2>1. /\ call.pc = "items" /\ kzalloc /\ UNCHANGED file_descriptors /\ Goto("search")
        /\ mem' = [Filled(Struct("items", WILD)) EXCEPT ![mem[call.f_item].ptr].ptr = New]
    BY <1>8 DEF load_items, items_read
  <2>2. MemOK'
    <3>1. IsStruct(Struct("items", WILD))
      BY StructOK
    <3>2. PICK m : m = Filled(Struct("items", WILD))
      OBVIOUS
    <3>3. m = [b \in Block |-> m[b]] /\ \A b \in Block : IsStruct(m[b])
      BY <1>2, <3>1, <3>2, FilledOK
    <3>4. mem' = [m EXCEPT ![mem[call.f_item].ptr].ptr = New] /\ mem[call.f_item].ptr \in Block
      BY <2>1, <3>2 DEF StateOK, CallOK, Steps
    <3> QED BY <1>3, <3>3, <3>4, StoredOK
  <2>3. CallOK' /\ ret' \in {F!EIO} \cup 0..MaxFd
    BY <2>1, GotoOK DEF Steps, Walking
  <2> QED BY <2>1, <2>2, <2>3, KzallocOK DEF StateOK
<1>9. CASE load_items_refused
  <2>1. /\ call.pc = "items" /\ avail' = avail \cup {mem[call.f_item].ptr} /\ no_block' = TRUE
        /\ UNCHANGED <<mem, bad_free, file_descriptors>> /\ Goto("search")
    BY <1>9 DEF load_items_refused, Keeps
  <2>2. CallOK' /\ ret' \in {F!EIO} \cup 0..MaxFd
    BY <2>1, GotoOK DEF Steps, Walking
  <2>3. avail' \subseteq Block
    BY <2>1 DEF StateOK, CallOK, Steps
  <2> QED BY <2>1, <2>2, <2>3 DEF StateOK, MemOK
<1>10. CASE load_no_items
  <2>1. /\ call.pc = "items" /\ NewEmpty # NULL /\ no_block' = TRUE /\ Goto("search")
        /\ UNCHANGED <<avail, bad_free, file_descriptors>>
        /\ mem' = [mem EXCEPT ![mem[call.f_item].ptr].ptr = NewEmpty]
    BY <1>10 DEF load_no_items, items_read
  <2>2. MemOK'
    <3>1. PICK m, n : m = mem /\ n = NewEmpty
      OBVIOUS
    <3>2. m = [b \in Block |-> m[b]] /\ \A b \in Block : IsStruct(m[b])
      BY <1>2, <3>1 DEF MemOK
    <3>3. mem' = [m EXCEPT ![mem[call.f_item].ptr].ptr = n] /\ mem[call.f_item].ptr \in Block
      BY <2>1, <3>1 DEF StateOK, CallOK, Steps
    <3>4. n \in Block
      BY <1>2, <2>1, <3>1, NewEmptyBlock
    <3> QED BY <3>2, <3>3, <3>4, StoredOK
  <2>3. CallOK' /\ ret' \in {F!EIO} \cup 0..MaxFd
    BY <2>1, GotoOK DEF Steps, Walking
  <2> QED BY <2>1, <2>2, <2>3 DEF StateOK
<1> QED BY <1>4, <1>5, <1>6, <1>7, <1>8, <1>9, <1>10

(* The walk goes on or ends, and a descriptor is made. *)
LEMMA WalkOK ==
  ASSUME StateOK, next_part \/ item_found \/ not_found \/ no_descriptor \/ file_new_descriptor
  PROVE  StateOK'
<1>1. 0 \in {F!EIO} \cup 0..MaxFd
  BY FileBlocksAssumption
<1>2. avail \subseteq Block /\ MemOK
  BY DEF StateOK
<1>3. New \in Block \cup {NULL}
  BY <1>2, NewBlock
<1>4. CASE next_part
  <2>1. /\ call.pc = "search" /\ kfree(ItemSearched) /\ UNCHANGED <<file_descriptors, ret>>
        /\ call' = [call EXCEPT !.depth = call.depth + 1, !.current_item = call.f_item,
                                !.i = 1, !.f_item = NULL]
    BY <1>4 DEF next_part, SearchOver, Keeps
  <2>2. PICK c : c = [call EXCEPT !.depth = call.depth + 1, !.current_item = call.f_item]
    OBVIOUS
  <2>3. /\ IsOpen(c) /\ c.pc = "search" /\ c.depth = call.depth + 1
        /\ c.descriptor = call.descriptor /\ c.current_item = call.f_item
    BY <2>1, <2>2 DEF StateOK, CallOK, IsOpen, Steps
  <2>4. call' = [c EXCEPT !.i = 1, !.f_item = NULL]
    BY <2>1, <2>2
  <2>5. /\ IsOpen(call)' /\ call'.pc = c.pc /\ call'.depth = c.depth
        /\ call'.descriptor = c.descriptor /\ call'.current_item = c.current_item
        /\ call'.f_item = NULL
    BY <2>3, <2>4 DEF IsOpen
  <2>6. CallOK'
    BY <2>1, <2>3, <2>5 DEF StateOK, CallOK, Steps, Walking
  <2> QED BY <2>1, <2>6, KfreeOK DEF StateOK
<1>5. CASE item_found
  <2>1. /\ call.pc = "search" /\ kfree(ItemSearched) /\ UNCHANGED <<file_descriptors, ret>>
        /\ call' = [call EXCEPT !.pc = "descriptor", !.current_item = call.f_item]
    BY <1>5 DEF item_found, SearchOver, Keeps
  <2>2. /\ IsOpen(call)' /\ call'.pc = "descriptor" /\ call'.depth = call.depth
        /\ call'.descriptor = call.descriptor /\ call'.current_item = call.f_item
        /\ call'.f_item = call.f_item
    BY <2>1 DEF StateOK, CallOK, IsOpen, Steps
  <2>3. CallOK'
    BY <2>1, <2>2 DEF StateOK, CallOK, Steps, Walking
  <2> QED BY <2>1, <2>3, KfreeOK DEF StateOK
<1>6. CASE not_found
  <2>1. /\ kfree(ItemSearched \o <<call.descriptor>>) /\ UNCHANGED file_descriptors
        /\ Return(0, [call |-> "fopen", fd |-> 0, path |-> call.path])
    BY <1>6 DEF not_found, Keeps, Fail
  <2> QED BY <1>1, <2>1, KfreeOK, ReturnOK DEF StateOK
<1>7. CASE no_descriptor
  <2>1. /\ call.pc = "descriptor" /\ mem' = [mem EXCEPT ![call.descriptor].ptr = call.current_item]
        /\ UNCHANGED <<file_descriptors, avail, no_block, bad_free>>
        /\ Return(0, [call |-> "fopen", fd |-> 0, path |-> call.path])
    BY <1>7 DEF no_descriptor, Keeps, Fail
  <2>2. call.descriptor \in Block /\ call.current_item \in Block \cup {NULL}
    BY <2>1 DEF StateOK, CallOK, Steps, Walking
  <2>3. MemOK'
    BY <1>2, <2>1, <2>2, StoredOK DEF MemOK
  <2> QED BY <1>1, <1>2, <2>1, <2>3, ReturnOK DEF StateOK
<1>8. CASE file_new_descriptor
  <2>1. PICK fd \in FreeFd :
          /\ file_descriptors' = [file_descriptors EXCEPT ![fd] = New]
          /\ Return(fd, [call |-> "fopen", fd |-> fd, path |-> call.path])
    BY <1>8 DEF file_new_descriptor
  <2> DEFINE t == [Struct("file_descriptor", WILD) EXCEPT !.private = call.descriptor]
  <2>2. /\ call.pc = "descriptor" /\ kzalloc
        /\ mem' = [Filled(t) EXCEPT ![call.descriptor].ptr = call.current_item]
    BY <1>8 DEF file_new_descriptor
  <2>3. call.descriptor \in Block /\ call.current_item \in Block \cup {NULL}
    BY <2>2 DEF StateOK, CallOK, Steps, Walking
  <2>4. IsStruct(t)
    BY <2>3 DEF IsStruct, Struct
  <2> HIDE DEF t
  <2>5. PICK m : m = Filled(t)
    OBVIOUS
  <2>6. m = [b \in Block |-> m[b]] /\ \A b \in Block : IsStruct(m[b])
    BY <1>2, <2>4, <2>5, FilledOK
  <2>7. mem' = [m EXCEPT ![call.descriptor].ptr = call.current_item]
    BY <2>2, <2>5
  <2>8. MemOK'
    BY <2>3, <2>6, <2>7, StoredOK
  <2>9. fd \in 1..MaxFd /\ fd \in {F!EIO} \cup 0..MaxFd
    BY FileBlocksAssumption DEF FreeFd
  <2>10. file_descriptors' \in [1..MaxFd -> Block \cup {NULL}]
    BY <1>3, <2>1, <2>9 DEF StateOK
  <2> QED BY <2>1, <2>2, <2>8, <2>9, <2>10, KzallocOK, ReturnOK DEF StateOK
<1> QED BY <1>4, <1>5, <1>6, <1>7, <1>8

(* The other calls. *)
LEMMA FopenOK ==
  ASSUME StateOK, NEW path, NEW mode, fopen(path, mode)
  PROVE  StateOK' /\ call'.pc = "root" /\ call.pc = "idle"
<1> DEFINE kept == IF no_block THEN {} ELSE Unowned
<1>1. /\ call = Idle /\ UNCHANGED <<avail, mem, no_block, bad_free, file_descriptors, ret>>
      /\ call' = [pc |-> "root", path |-> path, mode |-> mode, parts |-> <<>>,
                  descriptor |-> NULL, depth |-> 1, current_item |-> NULL, i |-> 1, f_item |-> NULL,
                  stream |-> stream, kept |-> kept]
  BY DEF fopen, heapVars, Keeps
<1> HIDE DEF kept
<1>2. IsOpen(call)' /\ call'.pc = "root"
  BY <1>1 DEF IsOpen
<1>3. call'.depth = 1 /\ call'.descriptor = NULL /\ call'.current_item = NULL /\ call'.f_item = NULL
  BY <1>1
<1>4. CallOK'
  BY <1>2, <1>3 DEF CallOK, Steps, Walking
<1> QED BY <1>1, <1>2, <1>4 DEF StateOK, MemOK, Idle

LEMMA FcloseOK ==
  ASSUME StateOK, NEW fd \in 0..MaxFd, fclose(fd) \/ fclose_fails(fd)
  PROVE  StateOK'
<1>1. 0 \in {F!EIO} \cup 0..MaxFd
  BY FileBlocksAssumption
<1>2. CASE fclose_fails(fd)
  <2>1. /\ UNCHANGED <<call, avail, mem, no_block, bad_free, file_descriptors>>
        /\ ret' \in {F!EIO} \cup 0..MaxFd
    BY <1>2 DEF fclose_fails, heapVars
  <2> QED BY <2>1 DEF StateOK, MemOK, CallOK
<1>3. CASE fclose(fd) /\ ~Closable(fd)
  <2>1. /\ call' = [pc |-> "wild"]
        /\ UNCHANGED <<avail, mem, no_block, bad_free, file_descriptors, ret>>
    BY <1>3 DEF fclose, heapVars
  <2>2. CallOK'
    BY <2>1 DEF CallOK, Steps
  <2> QED BY <2>1, <2>2 DEF StateOK, MemOK
<1>4. CASE fclose(fd) /\ Closable(fd)
  <2>1. /\ UNCHANGED call /\ ret' = 0 /\ \E ptrs : kfree(ptrs)
        /\ file_descriptors' = [file_descriptors EXCEPT ![fd] = NULL]
    BY <1>4 DEF fclose
  <2>2. avail' \subseteq Block /\ MemOK' /\ mem' = mem /\ no_block' \in BOOLEAN /\ bad_free' \in BOOLEAN
    BY <2>1, KfreeOK
  <2>3. CallOK'
    BY <2>1, <2>2 DEF StateOK, CallOK
  <2> QED BY <1>1, <2>1, <2>2, <2>3 DEF StateOK
<1> QED BY <1>2, <1>3, <1>4

LEMMA MountOK ==
  ASSUME StateOK, disk_search_and_init
  PROVE  StateOK'
<1>1. avail \subseteq Block /\ MemOK
  BY DEF StateOK
<1>2. ASSUME NEW pc \in Mounting, MountGoto(pc)
      PROVE  CallOK' /\ call'.pc = pc /\ UNCHANGED <<file_descriptors, ret>>
  BY <1>2 DEF MountGoto, CallOK, Mounting, Steps
<1>3. ASSUME NEW s, IsStruct(s), mem' = Filled(s)
      PROVE  MemOK'
  BY <1>1, <1>3, FilledOK DEF MemOK
<1>4. CASE fat16_init_private
  <2>1. /\ MountGoto("header") /\ avail' = avail \ {1, 2, 3, 4} /\ UNCHANGED <<no_block, bad_free>>
        /\ mem' = [b \in Block |-> IF b = 1 THEN Struct("fat_private", WILD)
                                   ELSE IF b \in {2, 3, 4} THEN Struct("disk_stream", WILD) ELSE mem[b]]
    BY <1>4 DEF fat16_init_private
  <2>2. IsStruct(Struct("fat_private", WILD)) /\ IsStruct(Struct("disk_stream", WILD))
    BY StructOK
  <2>3. MemOK'
    BY <1>1, <2>1, <2>2 DEF MemOK
  <2> QED BY <1>2, <2>1, <2>3 DEF StateOK, Mounting
<1>5. ASSUME NEW ours \in BOOLEAN, diskstreamer_new(ours)
      PROVE  StateOK'
  <2>1. /\ kzalloc /\ mem' = Filled(Struct("disk_stream", WILD))
        /\ MountGoto(IF ours THEN "root_directory" ELSE "resolved")
    BY <1>5 DEF diskstreamer_new
  <2>2. MemOK'
    BY <1>3, <2>1, StructOK
  <2> QED BY <1>2, <2>1, <2>2, KzallocOK DEF StateOK, Mounting
<1>6. CASE fat16_get_root_directory
  <2>1. kzalloc /\ mem' = Filled(Struct("items", WILD)) /\ MountGoto("resolved")
    BY <1>6 DEF fat16_get_root_directory
  <2>2. MemOK'
    BY <1>3, <2>1, StructOK
  <2> QED BY <1>2, <2>1, <2>2, KzallocOK DEF StateOK, Mounting
<1>7. CASE fat16_resolve
  <2>1. (\E ptrs : kfree(ptrs)) /\ call' = Idle /\ UNCHANGED <<file_descriptors, ret>>
    BY <1>7 DEF fat16_resolve
  <2>2. avail' \subseteq Block /\ MemOK' /\ no_block' \in BOOLEAN /\ bad_free' \in BOOLEAN
    BY <2>1, KfreeOK
  <2> QED BY <2>1, <2>2 DEF StateOK, CallOK, Idle, Steps
<1> QED BY <1>4, <1>5, <1>6, <1>7 DEF disk_search_and_init

LEMMA InitOK == Init => StateOK
<1> SUFFICES ASSUME Init PROVE StateOK
  OBVIOUS
<1>1. avail \subseteq Block
  BY DEF Init, Block
<1>2. MemOK
  BY StructOK DEF Init, MemOK, Cleared
<1>3. CallOK
  BY DEF Init, CallOK, Mounting, Steps
<1>4. file_descriptors \in [1..MaxFd -> Block \cup {NULL}]
  BY DEF Init
<1>5. ret \in {F!EIO} \cup 0..MaxFd
  BY FileBlocksAssumption DEF Init
<1>6. no_block \in BOOLEAN /\ bad_free \in BOOLEAN
  BY DEF Init
<1> QED BY <1>1, <1>2, <1>3, <1>4, <1>5, <1>6 DEF StateOK

LEMMA NextOK ==
  ASSUME StateOK, [Next]_vars
  PROVE  StateOK'
<1>1. CASE UNCHANGED vars
  BY <1>1 DEF vars, heapVars, StateOK, MemOK, CallOK
<1>2. CASE Open
  BY <1>2, PathOK, ItemOK, WalkOK DEF Open
<1> QED BY <1>1, <1>2, MountOK, FopenOK, FcloseOK DEF Next

-----------------------------------------------------------------------------
(* Every step keeps the trees, until a kzalloc returns no block. *)

(* The list names the blocks of R, each once. *)
Lists(ptrs, R) ==
  /\ ptrs \in Seq(Block)
  /\ R = {ptrs[i] : i \in 1..Len(ptrs)}
  /\ \A i, j \in 1..Len(ptrs) : ptrs[i] = ptrs[j] => i = j

LEMMA ListsNone == Lists(<<>>, {})
  BY DEF Lists

LEMMA ListsOne ==
  ASSUME NEW a \in Block
  PROVE  Lists(<<a>>, {a})
  BY DEF Lists

LEMMA ListsTwo ==
  ASSUME NEW a \in Block, NEW b \in Block, a # b
  PROVE  Lists(<<a, b>>, {a, b})
  BY DEF Lists

LEMMA ListsConcat ==
  ASSUME NEW p, NEW q, NEW R, NEW S, Lists(p, R), Lists(q, S), R \cap S = {}
  PROVE  Lists(p \o q, R \cup S)
<1> DEFINE r == p \o q
<1>1. /\ p \in Seq(Block) /\ q \in Seq(Block) /\ Len(p) \in Nat /\ Len(q) \in Nat
      /\ r \in Seq(Block) /\ Len(r) = Len(p) + Len(q)
      /\ \A i \in 1..Len(p) : r[i] = p[i]
      /\ \A i \in Len(p) + 1..Len(r) : r[i] = q[i - Len(p)]
  BY DEF Lists
<1> HIDE DEF r
<1>2. ASSUME NEW i \in 1..Len(q)
      PROVE  i + Len(p) \in 1..Len(r) /\ r[i + Len(p)] = q[i]
  <2>1. i + Len(p) \in Len(p) + 1..Len(r) /\ (i + Len(p)) - Len(p) = i /\ i + Len(p) \in 1..Len(r)
    BY <1>1
  <2> QED BY <1>1, <2>1
<1>3. /\ \A i \in 1..Len(r) : IF i <= Len(p) THEN r[i] \in R ELSE r[i] \in S
      /\ R \cup S = {r[i] : i \in 1..Len(r)}
  <2>1. \A i \in 1..Len(r) : IF i <= Len(p) THEN r[i] \in R ELSE r[i] \in S
    BY SMTT(30), <1>1 DEF Lists
  <2>2. \A x \in R : \E i \in 1..Len(r) : r[i] = x
    BY <1>1 DEF Lists
  <2>3. \A x \in S : \E i \in 1..Len(r) : r[i] = x
    BY <1>2 DEF Lists
  <2> QED BY <2>1, <2>2, <2>3
<1>4. ASSUME NEW i \in 1..Len(r), NEW j \in 1..Len(r), r[i] = r[j]
      PROVE  i = j
  <2>1. CASE i <= Len(p)
    <3>1. j <= Len(p)
      BY <1>3, <1>4, <2>1
    <3> QED BY <1>1, <1>4, <2>1, <3>1 DEF Lists
  <2>2. CASE ~(i <= Len(p))
    <3>1. ~(j <= Len(p))
      BY <1>3, <1>4, <2>2
    <3>2. i - Len(p) \in 1..Len(q) /\ j - Len(p) \in 1..Len(q) /\ q[i - Len(p)] = q[j - Len(p)]
      BY <1>1, <1>4, <2>2, <3>1
    <3>3. i - Len(p) = j - Len(p)
      BY <3>2 DEF Lists
    <3> QED BY <1>1, <3>3
  <2> QED BY <2>1, <2>2
<1> QED BY <1>1, <1>3, <1>4 DEF Lists, r

(* What kfree does with such a list of taken blocks. *)
LEMMA FreesList ==
  ASSUME avail \subseteq Block, NEW ptrs, NEW R, Lists(ptrs, R), R \subseteq Taken, kfree(ptrs), ~bad_free
  PROVE  Taken' = Taken \ R /\ avail' = avail \cup R /\ mem' = mem /\ ~bad_free' /\ no_block' = no_block
<1>1. ptrs \in Seq(Block) /\ Len(ptrs) \in Nat /\ \A i \in 1..Len(ptrs) : ptrs[i] \in Taken
  BY DEF Lists
<1>2. \A i \in 1..Len(ptrs) : \A j \in 1..(i - 1) : ptrs[j] # ptrs[i]
  BY <1>1 DEF Lists
<1>3. {ptrs[i] : i \in {j \in 1..Len(ptrs) : ptrs[j] \in Block}} = R
  BY <1>1 DEF Lists
<1>4. avail' = avail \cup R
  BY <1>3 DEF kfree
<1>5. ~bad_free'
  BY <1>1, <1>2 DEF kfree
<1> QED BY <1>4, <1>5 DEF kfree, Taken

(* The blocks of an item.  The list of fat16_fat_item_free names them all,  *)
(* and but for the item itself nothing outside points to them.              *)
ItemBlocks(x) == {x, Child(x)} \cup (IF mem[x].entry.dir THEN {Child(Child(x))} ELSE {})

LEMMA ItemTree ==
  ASSUME avail \subseteq Block, Trees, NEW x, Complete(x)
  PROVE  /\ ItemBlocks(x) \subseteq Taken
         /\ Lists(fat16_fat_item_free(x), ItemBlocks(x))
         /\ \A b \in ItemBlocks(x) : mem[b].kind \in {"fat_item", "fat_directory", "items", "entry"}
         /\ \A b \in ItemBlocks(x) : mem[b].kind = "fat_item" => b = x
         /\ \A b \in Taken : Child(b) \in ItemBlocks(x) /\ Child(b) # x => b \in ItemBlocks(x)
         /\ \A b \in ItemBlocks(x) : IsRoot(b) => b = x
<1> DEFINE c == Child(x)
           cc == Child(c)
<1>1. x \in Taken /\ x \in Block /\ mem[x].kind = "fat_item" /\ c \in Block /\ Deref(x) = c
  BY DEF Complete, IsItem, Taken, Deref, Child
<1>2. c \in Taken /\ mem[c].kind = (IF mem[x].entry.dir THEN "fat_directory" ELSE "entry") /\ c # x
  BY <1>1 DEF Trees, Fits
<1>3. Deref(c) = cc
  BY <1>1, <1>2 DEF Deref, Child
<1>4. IsDirectory(x) <=> mem[x].entry.dir
  BY <1>1 DEF IsDirectory
<1>5. CASE mem[x].entry.dir
  <2>1. cc \in Block
    BY <1>5 DEF Complete
  <2>2. cc \in Taken /\ mem[cc].kind = "items" /\ cc # c /\ cc # x
    BY <1>1, <1>2, <1>5, <2>1 DEF Trees, Fits
  <2>3. ItemBlocks(x) = {cc, c} \cup {x}
    BY <1>5 DEF ItemBlocks
  <2>4. fat16_fat_item_free(x) = <<cc, c>> \o <<x>>
    BY <1>1, <1>3, <1>4, <1>5, <2>1, Blocks DEF fat16_fat_item_free
  <2>5. Lists(<<cc, c>>, {cc, c}) /\ Lists(<<x>>, {x}) /\ {cc, c} \cap {x} = {}
    BY <1>1, <1>2, <2>1, <2>2, ListsOne, ListsTwo
  <2>6. Lists(fat16_fat_item_free(x), ItemBlocks(x))
    <3>1. Lists(<<cc, c>> \o <<x>>, {cc, c} \cup {x})
      BY <2>5, ListsConcat
    <3> QED BY <2>3, <2>4, <3>1
  <2>7. \A b \in Taken : Child(b) \in ItemBlocks(x) /\ Child(b) # x => b \in ItemBlocks(x)
    BY <1>1, <1>2, <2>1, <2>2, <2>3 DEF Trees
  <2>8. \A b \in ItemBlocks(x) : IsRoot(b) => b = x
    BY <1>1, <1>2, <2>2, <2>3 DEF IsRoot
  <2> HIDE DEF c, cc
  <2> QED BY <1>1, <1>2, <1>5, <2>2, <2>3, <2>6, <2>7, <2>8
<1>6. CASE ~mem[x].entry.dir
  <2>1. ItemBlocks(x) = {c, x}
    BY <1>6 DEF ItemBlocks
  <2>2. fat16_fat_item_free(x) = <<c, x>>
    BY <1>1, <1>4, <1>6 DEF fat16_fat_item_free
  <2>3. Lists(fat16_fat_item_free(x), ItemBlocks(x))
    BY <1>1, <1>2, <2>1, <2>2, ListsTwo
  <2>4. \A b \in Taken : Child(b) \in ItemBlocks(x) /\ Child(b) # x => b \in ItemBlocks(x)
    BY <1>1, <1>2, <2>1 DEF Trees
  <2>5. \A b \in ItemBlocks(x) : IsRoot(b) => b = x
    BY <1>1, <1>2, <2>1 DEF IsRoot
  <2> HIDE DEF c
  <2> QED BY <1>1, <1>2, <1>6, <2>1, <2>3, <2>4, <2>5
<1> QED BY <1>5, <1>6

LEMMA ItemsApart ==
  ASSUME avail \subseteq Block, Trees, NEW x, NEW y, Complete(x), Complete(y), x # y
  PROVE  ItemBlocks(x) \cap ItemBlocks(y) = {}
<1> DEFINE c == Child(x)
           e == Child(y)
<1>1. /\ {x, y, c, e} \subseteq Taken /\ c \in Block /\ e \in Block
      /\ mem[x].kind = "fat_item" /\ mem[y].kind = "fat_item"
      /\ mem[c].kind = (IF mem[x].entry.dir THEN "fat_directory" ELSE "entry")
      /\ mem[e].kind = (IF mem[y].entry.dir THEN "fat_directory" ELSE "entry")
  BY DEF Complete, IsItem, Trees, Fits
<1>2. c # e
  BY <1>1 DEF Trees
<1>3. mem[x].entry.dir => Child(c) \in Block /\ mem[Child(c)].kind = "items" /\ Child(c) # Child(e)
  BY <1>1, <1>2 DEF Complete, Trees, Fits
<1>4. mem[y].entry.dir => Child(e) \in Block /\ mem[Child(e)].kind = "items"
  BY <1>1 DEF Complete, Trees, Fits
<1>5. /\ ItemBlocks(x) = {x, c} \cup (IF mem[x].entry.dir THEN {Child(c)} ELSE {})
      /\ ItemBlocks(y) = {y, e} \cup (IF mem[y].entry.dir THEN {Child(e)} ELSE {})
  BY DEF ItemBlocks
<1> HIDE DEF c, e
<1> QED BY <1>1, <1>2, <1>3, <1>4, <1>5

(* Nothing changes in the taken blocks. *)
LEMMA SameTrees ==
  ASSUME Trees, DescriptorsInv, Taken' = Taken, \A b \in Taken : mem'[b] = mem[b],
         UNCHANGED file_descriptors
  PROVE  Trees' /\ DescriptorsInv'
<1>1. PICK L : L = {}
  OBVIOUS
<1>2. /\ L \in SUBSET Taken' /\ \A b \in Taken' \ L : b \in Taken /\ mem'[b] = mem[b]
      /\ \A b \in Taken : mem'[b].kind = mem[b].kind
  BY <1>1
<1> QED BY <1>1, <1>2, GrowTrees

(* The path is parsed: its blocks are trees of their own. *)
LEMMA PathBlocks ==
  ASSUME StateOK, BlocksInv, ~no_block',
         pathparser_create_root \/ pathparser_get_path_part \/ path_end
         \/ pathparser_parse_path_part \/ open_rejected
  PROVE  Intact'
<1>1. ASSUME kzalloc, mem' = Filled(Struct("path", WILD)), UNCHANGED file_descriptors
      PROVE  Trees' /\ DescriptorsInv' /\ ~bad_free' /\ New # NULL /\ WalkInv
  <2>1. Intact /\ ~bad_free' /\ New # NULL
    BY <1>1, Allocates DEF BlocksInv, Intact
  <2>2. PICK s : s = Struct("path", WILD)
    OBVIOUS
  <2>3. s.ptr = WILD /\ s.private = WILD
    BY <2>2 DEF Struct
  <2>4. Trees' /\ DescriptorsInv'
    BY <1>1, <2>1, <2>2, <2>3, AllocTrees DEF Intact
  <2> QED BY <2>1, <2>4 DEF Intact
<1>2. ASSUME WalkInv, call.pc \in Steps \ Walking, NEW pc \in Steps \ Walking, Goto(pc)
      PROVE  MountInv' /\ WalkInv'
  <2>1. call'.pc = pc /\ call'.depth = call.depth /\ call'.f_item = call.f_item
    BY <1>2, GotoFields DEF Goto
  <2> QED BY <1>2, <2>1 DEF MountInv, WalkInv, Steps, Walking, Mounting
<1>3. CASE pathparser_create_root
  <2>1. /\ call.pc = "root" /\ kzalloc /\ mem' = Filled(Struct("path", WILD))
        /\ UNCHANGED file_descriptors /\ (New # NULL => Goto("string"))
    BY <1>3 DEF pathparser_create_root, Keeps
  <2> QED BY <1>1, <1>2, <2>1 DEF Intact, Steps, Walking
<1>4. CASE pathparser_get_path_part
  <2>1. /\ call.pc = "string" /\ kzalloc /\ mem' = Filled(Struct("path", WILD))
        /\ UNCHANGED file_descriptors /\ (New # NULL => Goto("part"))
    BY <1>4 DEF pathparser_get_path_part, Keeps
  <2> QED BY <1>1, <1>2, <2>1 DEF Intact, Steps, Walking
<1>5. CASE path_end
  <2>1. /\ call.pc = "string" /\ mem' = Filled(Cleared)
        /\ no_block' = (no_block \/ New = NULL) /\ bad_free' = (bad_free \/ New = NULL)
        /\ UNCHANGED <<avail, file_descriptors>> /\ Goto("args")
    BY <1>5 DEF path_end, Keeps
  <2>2. Intact /\ ~bad_free' /\ New # NULL
    BY <2>1 DEF BlocksInv, Intact, StateOK
  <2>3. PICK n : n = New
    OBVIOUS
  <2>4. n \in avail /\ n \in Block /\ mem' = [mem EXCEPT ![n] = Cleared]
    BY <2>1, <2>2, <2>3, NewBlock DEF StateOK, Filled
  <2>5. Taken' = Taken /\ \A b \in Taken : mem'[b] = mem[b]
    BY <2>1, <2>4 DEF Taken, StateOK, MemOK
  <2>6. Trees' /\ DescriptorsInv'
    BY <2>1, <2>2, <2>5, SameTrees DEF Intact
  <2> QED BY <1>2, <2>1, <2>2, <2>6 DEF Intact, Steps, Walking
<1>6. CASE pathparser_parse_path_part
  <2> DEFINE y == Append(call.parts, PathPart)
  <2>1. /\ call.pc = "part" /\ kzalloc /\ mem' = Filled(Struct("path", WILD))
        /\ UNCHANGED file_descriptors
        /\ New # NULL => call' = [call EXCEPT !.pc = "string", !.parts = y]
    BY <1>6 DEF pathparser_parse_path_part, Keeps
  <2> HIDE DEF y
  <2>2. Trees' /\ DescriptorsInv' /\ ~bad_free' /\ New # NULL /\ WalkInv
    BY <1>1, <2>1
  <2>3. call'.pc = "string" /\ call'.depth = call.depth /\ call'.f_item = call.f_item
    BY <2>1, <2>2 DEF StateOK, CallOK, IsOpen, Steps
  <2>4. MountInv' /\ WalkInv'
    BY <2>1, <2>2, <2>3 DEF MountInv, WalkInv, Steps, Walking, Mounting
  <2> QED BY <2>2, <2>4 DEF Intact
<1>7. CASE open_rejected
  <2>1. call' = Idle /\ UNCHANGED <<avail, mem, no_block, bad_free, file_descriptors>>
    BY <1>7 DEF open_rejected, Keeps, heapVars, Return
  <2>2. Intact
    BY <2>1 DEF BlocksInv
  <2>3. Trees' /\ DescriptorsInv'
    BY <2>1, <2>2, SameTrees DEF Intact, Taken
  <2> QED BY <2>1, <2>2, <2>3 DEF Intact, MountInv, WalkInv, Idle, Steps, Walking, Mounting
<1> QED BY <1>3, <1>4, <1>5, <1>6, <1>7

(* The descriptor of fat16_open, and the items of the directories. *)
LEMMA NewItemBlocks ==
  ASSUME StateOK, BlocksInv, ~no_block', fat16_open \/ fat16_new_fat_item_for_directory_item
  PROVE  Intact'
<1>1. kzalloc /\ UNCHANGED file_descriptors
  BY DEF fat16_open, fat16_new_fat_item_for_directory_item, Keeps
<1>2. Intact /\ ~bad_free' /\ New # NULL
  BY <1>1, Allocates DEF BlocksInv, Intact
<1>3. PICK n : n = New
  OBVIOUS
<1>4. CASE fat16_open
  <2> DEFINE s == Struct("fat_file_descriptor", NULL)
  <2>1. /\ call.pc = "args" /\ mem' = Filled(s)
        /\ call' = [call EXCEPT !.pc = "search", !.descriptor = n]
    BY <1>2, <1>3, <1>4 DEF fat16_open
  <2>2. s.kind = "fat_file_descriptor" /\ s.ptr = NULL /\ s.private = WILD
    BY DEF Struct
  <2> HIDE DEF s
  <2>3. Trees' /\ DescriptorsInv' /\ IsRoot(n)' /\ mem'[n] = s
    BY <1>1, <1>2, <1>3, <2>1, <2>2, AllocTrees DEF Intact
  <2>4. call'.pc = "search" /\ call'.descriptor = n /\ call'.f_item = NULL /\ call'.depth = 1
    BY <1>2, <2>1 DEF StateOK, CallOK, IsOpen, Steps, Intact, WalkInv, Walking
  <2>5. WalkInv' /\ MountInv'
    BY <2>2, <2>3, <2>4 DEF WalkInv, MountInv, Mounting, Steps, Walking
  <2> QED BY <1>2, <2>3, <2>5 DEF Intact
<1>5. CASE fat16_new_fat_item_for_directory_item
  <2> DEFINE e == Directory[Min(HitsLeft)]
             pc == IF e.dir THEN "directory" ELSE "clone"
             i == Min(HitsLeft) + 1
             s == [Struct("fat_item", NULL) EXCEPT !.entry = e]
  <2>1. /\ call.pc = "search" /\ mem' = Filled(s)
        /\ call' = [call EXCEPT !.i = i, !.f_item = n, !.pc = pc]
    BY <1>2, <1>3, <1>5 DEF fat16_new_fat_item_for_directory_item
  <2> HIDE DEF e, i
  <2>2. s.kind = "fat_item" /\ s.ptr = NULL /\ s.private = WILD /\ s.entry = e
    BY DEF Struct
  <2> HIDE DEF s
  <2>3. /\ Trees' /\ DescriptorsInv' /\ IsRoot(n)' /\ n \notin Taken /\ mem'[n] = s
        /\ \A b \in Taken : mem'[b] = mem[b]
        /\ \A x : IsRoot(x) => IsRoot(x)'
        /\ \A x : Complete(x) => Complete(x)'
    BY <1>1, <1>2, <1>3, <2>1, <2>2, AllocTrees DEF Intact
  <2>4. /\ pc \in {"directory", "clone"} /\ (pc = "directory" => e.dir) /\ (pc = "clone" => ~e.dir)
    OBVIOUS
  <2> HIDE DEF pc
  <2>5. /\ call'.pc = pc /\ call'.f_item = n /\ call'.depth = call.depth
        /\ call'.descriptor = call.descriptor /\ call'.current_item = call.current_item
    <3>1. PICK c : c = [call EXCEPT !.i = i, !.f_item = n]
      OBVIOUS
    <3>2. /\ IsOpen(c) /\ c.depth = call.depth /\ c.descriptor = call.descriptor
          /\ c.current_item = call.current_item /\ c.f_item = n
      BY <2>1, <3>1 DEF StateOK, CallOK, IsOpen, Steps
    <3>3. call' = [c EXCEPT !.pc = pc]
      BY <2>1, <3>1
    <3> QED BY <3>2, <3>3 DEF IsOpen
  <2>6. Found(n)'
    <3>1. n \in Taken' /\ Child(n)' = NULL
      BY <2>2, <2>3 DEF IsRoot, Child
    <3> QED BY <2>2, <2>3, <2>4, <2>5, <3>1 DEF Found, IsItem
  <2>7. call.depth > 1 => Searched(call.current_item)'
    <3>1. SUFFICES ASSUME call.depth > 1 PROVE Searched(call.current_item)'
      OBVIOUS
    <3>2. PICK x : x = call.current_item
      OBVIOUS
    <3>3. IsRoot(x) /\ Complete(x) /\ x # n
      BY <1>2, <2>1, <2>3, <3>1, <3>2 DEF Intact, WalkInv, Walking, Searched, IsRoot
    <3> QED BY <2>3, <2>5, <3>2, <3>3 DEF Searched
  <2>8. /\ IsRoot(call.descriptor)' /\ mem'[call'.descriptor].kind = "fat_file_descriptor"
        /\ mem'[call'.descriptor].ptr = NULL
    <3>1. PICK x : x = call.descriptor
      OBVIOUS
    <3>2. IsRoot(x) /\ mem[x].kind = "fat_file_descriptor" /\ mem[x].ptr = NULL /\ x \in Taken
      BY <1>2, <2>1, <3>1 DEF Intact, WalkInv, Walking, IsRoot
    <3> QED BY <2>3, <2>5, <3>1, <3>2
  <2>9. WalkInv' /\ MountInv'
    BY <2>4, <2>5, <2>6, <2>7, <2>8 DEF WalkInv, MountInv, Mounting, Steps, Walking
  <2> QED BY <1>2, <2>3, <2>9 DEF Intact
<1> QED BY <1>4, <1>5

(* What the item being built points to. *)
LEMMA LinkBlocks ==
  ASSUME StateOK, BlocksInv, ~no_block', fat16_clone_directory_item \/ load_directory \/ load_items
  PROVE  Intact'
<1>1. /\ kzalloc /\ UNCHANGED file_descriptors /\ call.pc \in {"clone", "directory", "items"}
      /\ call.f_item \in Block
  BY DEF fat16_clone_directory_item, load_directory, load_items, items_read, Keeps, StateOK, CallOK, Steps
<1>2. Intact /\ ~bad_free' /\ New # NULL
  BY <1>1, Allocates DEF BlocksInv, Intact
<1>3. PICK n, x : n = New /\ x = call.f_item
  OBVIOUS
<1>4. /\ Found(x) /\ x \in Taken /\ mem[x].kind = "fat_item" /\ mem[x].ptr = Child(x)
      /\ IsRoot(call.descriptor) /\ mem[call.descriptor].kind = "fat_file_descriptor"
      /\ mem[call.descriptor].ptr = NULL /\ call.descriptor \in Taken
      /\ call.depth > 1 => Searched(call.current_item)
  BY <1>1, <1>2, <1>3, Blocks DEF Intact, WalkInv, Walking, Found, IsItem, IsRoot, Child
(* The new block is linked from y, which is x or what x points to. *)
<1>5. ASSUME NEW y, NEW s, LinksNew(n, s, y), NEW pc \in {"search", "items"}, Goto(pc), Found(x)'
      PROVE  Intact'
  <2>1. /\ Trees' /\ DescriptorsInv'
        /\ \A b \in Taken : b # y => mem'[b] = mem[b]
        /\ \A b : IsRoot(b) => IsRoot(b)'
        /\ \A b : Complete(b) => Complete(b)'
    BY <1>1, <1>2, <1>5, LinkTrees DEF Intact
  <2>2. /\ call'.pc = pc /\ call'.f_item = x /\ call'.depth = call.depth
        /\ call'.descriptor = call.descriptor /\ call'.current_item = call.current_item
    BY <1>1, <1>3, <1>5, GotoFields DEF Goto, Steps
  <2>3. call.depth > 1 => Searched(call.current_item)'
    <3>1. PICK c : c = call.current_item
      OBVIOUS
    <3> QED BY <1>3, <1>4, <2>1, <2>2, <3>1 DEF Searched
  <2>4. /\ IsRoot(call.descriptor)' /\ mem'[call'.descriptor].kind = "fat_file_descriptor"
        /\ mem'[call'.descriptor].ptr = NULL
    <3>1. PICK d : d = call.descriptor
      OBVIOUS
    <3>2. d # y
      BY <1>4, <1>5, <3>1 DEF LinksNew
    <3> QED BY <1>4, <2>1, <2>2, <3>1, <3>2
  <2>5. Found(call.f_item)'
    BY <1>5, <2>2
  <2>6. WalkInv' /\ MountInv'
    BY <2>2, <2>3, <2>4, <2>5 DEF WalkInv, MountInv, Mounting, Steps, Walking
  <2> QED BY <1>2, <2>1, <2>6 DEF Intact
<1>6. CASE fat16_clone_directory_item
  <2> DEFINE s == Struct("entry", WILD)
  <2>1. call.pc = "clone" /\ Goto("search") /\ mem' = [Filled(s) EXCEPT ![x].ptr = n]
    BY <1>3, <1>6 DEF fat16_clone_directory_item
  <2>2. IsStruct(s) /\ s.kind = "entry" /\ s.ptr = WILD
    BY StructOK DEF Struct
  <2> HIDE DEF s
  <2>3. ~mem[x].entry.dir /\ LinksNew(n, s, x)
    BY <1>3, <1>4, <2>1, <2>2 DEF Found, Fits, LinksNew
  <2>4. /\ n \in Taken' /\ Child(x)' = n /\ mem'[x].kind = mem[x].kind /\ mem'[x].entry = mem[x].entry
        /\ IsRoot(x)'
    BY <1>1, <1>2, <1>4, <2>2, <2>3, LinkTrees DEF Intact, Found
  <2>5. call'.pc = "search"
    BY <1>1, <2>1, GotoFields DEF Goto, Steps
  <2>6. Found(x)'
    BY <1>4, <2>3, <2>4, <2>5 DEF Found, IsItem, Complete, IsRoot, Taken
  <2> QED BY <1>5, <2>1, <2>3, <2>6
<1>7. CASE load_directory
  <2> DEFINE s == Struct("fat_directory", NULL)
  <2>1. call.pc = "directory" /\ Goto("items") /\ mem' = [Filled(s) EXCEPT ![x].ptr = n]
    BY <1>2, <1>3, <1>7 DEF load_directory
  <2>2. IsStruct(s) /\ s.kind = "fat_directory" /\ s.ptr = NULL
    BY StructOK DEF Struct
  <2> HIDE DEF s
  <2>3. mem[x].entry.dir /\ LinksNew(n, s, x)
    BY <1>3, <1>4, <2>1, <2>2 DEF Found, Fits, LinksNew
  <2>4. /\ n \in Taken' /\ Child(n)' = NULL /\ Child(x)' = n /\ mem'[x].kind = mem[x].kind
        /\ mem'[x].entry = mem[x].entry /\ IsRoot(x)'
    BY <1>1, <1>2, <1>4, <2>2, <2>3, LinkTrees DEF Intact, Found
  <2>5. call'.pc = "items"
    BY <1>1, <2>1, GotoFields DEF Goto, Steps
  <2>6. Child(Child(x))' = NULL
    BY <2>4 DEF Child
  <2>7. Found(x)'
    BY <1>4, <2>3, <2>4, <2>5, <2>6 DEF Found, IsItem, IsRoot
  <2> QED BY <1>5, <2>1, <2>3, <2>7
<1>8. CASE load_items
  <2> DEFINE s == Struct("items", WILD)
  <2>1. PICK y : y = mem[x].ptr
    OBVIOUS
  <2>2. call.pc = "items" /\ Goto("search") /\ mem' = [Filled(s) EXCEPT ![y].ptr = n] /\ y \in Block
    BY <1>3, <1>8, <2>1 DEF load_items, items_read, StateOK, CallOK, Steps
  <2>3. IsStruct(s) /\ s.kind = "items" /\ s.ptr = WILD
    BY StructOK DEF Struct
  <2> HIDE DEF s
  <2>4. mem[x].entry.dir /\ Child(x) = y /\ Child(y) = NULL
    BY <1>4, <2>1, <2>2 DEF Found
  <2>5. y \in Taken /\ mem[y].kind = "fat_directory" /\ y # x
    BY <1>2, <1>4, <2>2, <2>4 DEF Intact, Trees, Fits
  <2>6. LinksNew(n, s, y)
    BY <1>3, <2>2, <2>3, <2>4, <2>5 DEF Child, Fits, LinksNew
  <2>7. /\ n \in Taken' /\ Child(y)' = n /\ mem'[x] = mem[x] /\ IsRoot(x)'
    BY <1>1, <1>2, <1>4, <2>5, <2>6, LinkTrees DEF Intact, Found
  <2>8. call'.pc = "search"
    BY <1>1, <2>2, GotoFields DEF Goto, Steps
  <2>9. Child(x)' = y /\ Child(Child(x))' = n
    BY <2>4, <2>7 DEF Child
  <2>10. Found(x)'
    BY <1>4, <2>2, <2>7, <2>8, <2>9 DEF Found, IsItem, Complete, IsRoot, Taken
  <2> QED BY <1>5, <2>2, <2>6, <2>10
<1> QED BY <1>6, <1>7, <1>8

(* The directory searched is freed. *)
LEMMA SearchedFrees ==
  ASSUME StateOK, Intact, call.pc = "search"
  PROVE  \E R \in SUBSET Taken :
           /\ Lists(ItemSearched, R)
           /\ \A b \in Taken : Child(b) \in R => b \in R
           /\ \A b \in R : mem[b].kind \in {"fat_item", "fat_directory", "items", "entry"}
           /\ \A b \in R : mem[b].kind = "fat_item" => IsRoot(b)
           /\ call.f_item \notin R
<1>1. CASE call.depth = 1
  <2>1. Lists(ItemSearched, {})
    BY <1>1, ListsNone DEF ItemSearched
  <2> QED BY <2>1
<1>2. CASE call.depth # 1
  <2>1. PICK x : x = call.current_item
    OBVIOUS
  <2>2. IsRoot(x) /\ Complete(x) /\ x # call.f_item
    BY <1>2, <2>1 DEF StateOK, CallOK, Steps, Walking, Intact, WalkInv, Searched
  <2>3. PICK R : R = ItemBlocks(x)
    OBVIOUS
  <2>4. /\ R \subseteq Taken
        /\ Lists(fat16_fat_item_free(x), R)
        /\ \A b \in R : mem[b].kind \in {"fat_item", "fat_directory", "items", "entry"}
        /\ \A b \in R : mem[b].kind = "fat_item" => b = x
        /\ \A b \in Taken : Child(b) \in R /\ Child(b) # x => b \in R
        /\ \A b \in R : IsRoot(b) => b = x
    BY <2>2, <2>3, ItemTree DEF StateOK, Intact
  <2>5. Lists(ItemSearched, R)
    BY <1>2, <2>1, <2>4 DEF ItemSearched
  <2>6. \A b \in Taken : Child(b) # x
    BY <2>2 DEF IsRoot
  <2>7. call.f_item \notin R
    <3>1. call.f_item # NULL => IsRoot(call.f_item)
      BY DEF Intact, WalkInv, Walking, Found
    <3>2. NULL \notin R
      BY <2>4, Blocks DEF Taken
    <3> QED BY <2>2, <2>4, <3>1, <3>2
  <2> QED BY <2>2, <2>4, <2>5, <2>6, <2>7
<1> QED BY <1>1, <1>2

(* The descriptors keep what they own. *)
LEMMA FreeDescriptors ==
  ASSUME Trees, DescriptorsInv, NEW R \in SUBSET Taken, Taken' = Taken \ R, mem' = mem,
         \A b \in Taken : Child(b) \in R => b \in R,
         \A fd \in 1..MaxFd : file_descriptors'[fd] # NULL =>
           /\ file_descriptors'[fd] = file_descriptors[fd]
           /\ file_descriptors[fd] \notin R /\ Child(Child(file_descriptors[fd])) \notin R
  PROVE  DescriptorsInv'
<1>1. \A b : Child(b)' = Child(b) /\ Child(Child(b))' = Child(Child(b)) /\ mem'[b] = mem[b]
  BY DEF Child
<1>2. \A x : Complete(x) /\ x \notin R => Complete(x)'
  BY FreeTrees
<1>3. ASSUME NEW fd \in 1..MaxFd, NEW d, d = file_descriptors'[fd], d # NULL
      PROVE  Opened(d)'
  <2>1. PICK x : x = Child(Child(d))
    OBVIOUS
  <2>2. d = file_descriptors[fd] /\ d \notin R /\ x \notin R /\ Opened(d) /\ Complete(x)
    BY <1>3, <2>1 DEF DescriptorsInv, Opened
  <2>3. Complete(x)' /\ Child(Child(d))' = x
    BY <1>1, <1>2, <2>1, <2>2
  <2> QED BY <1>1, <2>2, <2>3 DEF Opened
<1>4. \A fd, g \in 1..MaxFd :
        file_descriptors'[fd] = file_descriptors'[g] /\ file_descriptors'[fd] # NULL => fd = g
  BY DEF DescriptorsInv
<1> QED BY <1>3, <1>4 DEF DescriptorsInv

(* The same, where the slots do not change. *)
LEMMA FreeWalk ==
  ASSUME StateOK, Intact, NEW R \in SUBSET Taken, Taken' = Taken \ R, mem' = mem,
         \A b \in Taken : Child(b) \in R => b \in R,
         \A b \in R : mem[b].kind # "file_descriptor" /\ (mem[b].kind = "fat_item" => IsRoot(b)),
         UNCHANGED file_descriptors
  PROVE  /\ Trees' /\ DescriptorsInv'
         /\ \A x : IsRoot(x) /\ x \notin R => IsRoot(x)'
         /\ \A x : Complete(x) /\ x \notin R => Complete(x)'
<1>1. ASSUME NEW fd \in 1..MaxFd, file_descriptors[fd] # NULL
      PROVE  file_descriptors[fd] \notin R /\ Child(Child(file_descriptors[fd])) \notin R
  <2>1. PICK d : d = file_descriptors[fd]
    OBVIOUS
  <2>2. Opened(d)
    BY <1>1, <2>1 DEF Intact, DescriptorsInv
  <2>3. d \in Taken /\ mem[d].kind = "file_descriptor" /\ Child(d) \in Taken
    BY <2>2 DEF Opened, Intact, Trees
  <2>4. mem[Child(Child(d))].kind = "fat_item" /\ ~IsRoot(Child(Child(d)))
    BY <2>2, <2>3 DEF Opened, Complete, IsItem, IsRoot
  <2> QED BY <2>1, <2>3, <2>4
<1>2. DescriptorsInv'
  BY <1>1, FreeDescriptors DEF Intact
<1> QED BY <1>2, FreeTrees DEF Intact

(* The walk goes on or ends. *)
LEMMA WalkBlocks ==
  ASSUME StateOK, BlocksInv, ~no_block', next_part \/ item_found \/ not_found
  PROVE  Intact'
<1>1. call.pc = "search" /\ UNCHANGED file_descriptors /\ \E ptrs : kfree(ptrs)
  BY DEF next_part, item_found, not_found, SearchOver, Keeps
<1>2. Intact
  BY <1>1 DEF kfree, BlocksInv
<1>3. PICK R \in SUBSET Taken :
        /\ Lists(ItemSearched, R)
        /\ \A b \in Taken : Child(b) \in R => b \in R
        /\ \A b \in R : mem[b].kind \in {"fat_item", "fat_directory", "items", "entry"}
        /\ \A b \in R : mem[b].kind = "fat_item" => IsRoot(b)
        /\ call.f_item \notin R
  BY <1>1, <1>2, SearchedFrees
<1>4. PICK d, x : d = call.descriptor /\ x = call.f_item
  OBVIOUS
<1>5. /\ IsRoot(d) /\ mem[d].kind = "fat_file_descriptor" /\ mem[d].ptr = NULL /\ d \in Taken /\ d \notin R
      /\ x \notin R
      /\ x # NULL => IsRoot(x) /\ Complete(x) /\ IsItem(x) /\ x \in Taken
  BY <1>1, <1>2, <1>3, <1>4 DEF Intact, WalkInv, Walking, Found, IsRoot
<1>6. ASSUME kfree(ItemSearched)
      PROVE  /\ Trees' /\ DescriptorsInv' /\ ~bad_free'
             /\ IsRoot(d)' /\ mem' = mem
             /\ x # NULL => IsRoot(x)' /\ Complete(x)' /\ IsItem(x)'
  <2>1. Taken' = Taken \ R /\ mem' = mem /\ ~bad_free'
    BY <1>2, <1>3, <1>6, FreesList DEF StateOK, Intact
  <2>2. /\ Trees' /\ DescriptorsInv'
        /\ \A b : IsRoot(b) /\ b \notin R => IsRoot(b)'
        /\ \A b : Complete(b) /\ b \notin R => Complete(b)'
    BY <1>1, <1>2, <1>3, <2>1, FreeWalk
  <2>3. x # NULL => IsItem(x)'
    BY <1>5, <2>1 DEF IsItem
  <2> QED BY <1>5, <2>1, <2>2, <2>3
<1>7. CASE next_part
  <2>1. /\ kfree(ItemSearched) /\ x \in Block
        /\ call' = [call EXCEPT !.depth = call.depth + 1, !.current_item = x, !.i = 1, !.f_item = NULL]
    BY <1>4, <1>7 DEF next_part, IsDirectory
  <2>2. x # NULL
    BY <2>1, Blocks
  <2>3. call'.pc = "search" /\ call'.descriptor = d /\ call'.current_item = x /\ call'.f_item = NULL
    <3>1. PICK c : c = [call EXCEPT !.depth = call.depth + 1, !.current_item = x]
      OBVIOUS
    <3>2. IsOpen(c) /\ c.pc = "search" /\ c.descriptor = d /\ c.current_item = x
      BY <1>1, <1>4, <3>1 DEF StateOK, CallOK, IsOpen, Steps
    <3>3. call' = [c EXCEPT !.i = 1, !.f_item = NULL]
      BY <2>1, <3>1
    <3> QED BY <3>2, <3>3 DEF IsOpen
  <2>4. IsRoot(call.descriptor)' /\ Searched(call.current_item)'
    BY <1>6, <2>1, <2>2, <2>3 DEF Searched
  <2>5. WalkInv' /\ MountInv'
    BY <1>5, <1>6, <2>1, <2>3, <2>4 DEF WalkInv, MountInv, Mounting, Steps, Walking
  <2> QED BY <1>6, <2>1, <2>5 DEF Intact
<1>8. CASE item_found
  <2>1. /\ kfree(ItemSearched) /\ x # NULL
        /\ call' = [call EXCEPT !.pc = "descriptor", !.current_item = x]
    BY <1>4, <1>8 DEF item_found
  <2>2. call'.pc = "descriptor" /\ call'.descriptor = d /\ call'.current_item = x
    BY <1>1, <1>4, <2>1 DEF StateOK, CallOK, IsOpen, Steps
  <2>3. IsRoot(call.descriptor)' /\ Found(call.current_item)'
    BY <1>6, <2>1, <2>2 DEF Found
  <2>4. WalkInv' /\ MountInv'
    BY <1>5, <1>6, <2>1, <2>2, <2>3 DEF WalkInv, MountInv, Mounting, Steps, Walking
  <2> QED BY <1>6, <2>1, <2>4 DEF Intact
<1>9. CASE not_found
  <2>1. kfree(ItemSearched \o <<d>>) /\ call' = Idle
    BY <1>4, <1>9 DEF not_found, Fail, Return
  <2>2. PICK S : S = R \cup {d}
    OBVIOUS
  <2>3. Lists(ItemSearched \o <<d>>, S)
    <3>1. Lists(<<d>>, {d}) /\ R \cap {d} = {}
      BY <1>5, ListsOne DEF Taken
    <3> QED BY <1>3, <2>2, <3>1, ListsConcat
  <2>4. S \in SUBSET Taken
    BY <1>3, <1>5, <2>2
  <2>5. Taken' = Taken \ S /\ mem' = mem /\ ~bad_free'
    BY <1>2, <2>1, <2>3, <2>4, FreesList DEF StateOK, Intact
  <2>6. \A b \in Taken : Child(b) \in S => b \in S
    BY <1>3, <1>5, <2>2 DEF IsRoot
  <2>7. \A b \in S : mem[b].kind # "file_descriptor" /\ (mem[b].kind = "fat_item" => IsRoot(b))
    BY <1>3, <1>5, <2>2
  <2>8. Trees' /\ DescriptorsInv'
    BY <1>1, <1>2, <2>4, <2>5, <2>6, <2>7, FreeWalk
  <2>9. WalkInv' /\ MountInv'
    BY <2>1 DEF WalkInv, MountInv, Mounting, Steps, Walking, Idle
  <2> QED BY <2>5, <2>8, <2>9 DEF Intact
<1> QED BY <1>7, <1>8, <1>9

(* The item found is the descriptor's. *)
LEMMA DescriptorBlocks ==
  ASSUME StateOK, BlocksInv, ~no_block', no_descriptor \/ file_new_descriptor
  PROVE  Intact'
<1>1. call.pc = "descriptor" /\ call' = Idle
  BY DEF no_descriptor, file_new_descriptor, Fail, Return
<1>2. WalkInv' /\ MountInv'
  BY <1>1 DEF WalkInv, MountInv, Mounting, Steps, Walking, Idle
<1>3. PICK d, x : d = call.descriptor /\ x = call.current_item
  OBVIOUS
<1>4. ASSUME Intact
      PROVE  /\ IsRoot(d) /\ d \in Taken /\ d \in Block /\ mem[d].kind = "fat_file_descriptor" /\ mem[d].ptr = NULL
             /\ IsRoot(x) /\ Complete(x) /\ x \in Taken /\ x \in Block /\ mem[x].kind = "fat_item"
             /\ Child(d) = NULL /\ d # x
  BY <1>1, <1>3, <1>4 DEF Intact, WalkInv, Walking, Found, IsRoot, IsItem, Taken, Child
<1>5. CASE no_descriptor
  <2>1. /\ mem' = [mem EXCEPT ![d].ptr = x]
        /\ UNCHANGED <<avail, no_block, bad_free, file_descriptors>>
    BY <1>3, <1>5 DEF no_descriptor, Keeps
  <2>2. Intact
    BY <2>1 DEF BlocksInv
  <2>3. /\ mem'[d] = [kind |-> mem[d].kind, ptr |-> x, private |-> mem[d].private, entry |-> mem[d].entry]
        /\ \A b \in Block : b # d => mem'[b] = mem[b]
    <3>1. PICK m1 : m1 = mem'
      OBVIOUS
    <3>2. m1 = [mem EXCEPT ![d].ptr = x]
      BY <2>1, <3>1
    <3> QED BY <1>4, <2>2, <3>1, <3>2, StorePtr DEF StateOK, MemOK
  <2>4. Taken' = Taken /\ Taken \subseteq Block
    BY <2>1 DEF Taken
  <2>5. Child(d)' = x /\ mem'[d].kind = mem[d].kind /\ mem'[x] = mem[x]
    BY <1>4, <2>2, <2>3 DEF Child
  <2>6. Fits(d, mem[Child(d)].kind)'
    BY <1>4, <2>2, <2>5 DEF Fits
  <2>7. PICK L : L = {d}
    OBVIOUS
  <2>8. /\ L \in SUBSET Taken' /\ \A b \in Taken' \ L : b \in Taken /\ mem'[b] = mem[b]
        /\ \A b \in L \cap Taken : Child(b) \notin Block
        /\ \A b \in Taken : mem'[b].kind = mem[b].kind
    BY <1>4, <2>2, <2>3, <2>4, <2>5, <2>7, Blocks
  <2>9. /\ \A b \in L : Child(b)' \in Block => /\ Child(b)' \in Taken' /\ Fits(b, mem[Child(b)].kind)'
                                               /\ \A c \in Taken : Child(c) # Child(b)'
        /\ \A b, c \in L : Child(b)' \in Block /\ Child(b)' = Child(c)' => b = c
    BY <1>4, <2>2, <2>4, <2>5, <2>6, <2>7 DEF IsRoot
  <2>10. Trees' /\ DescriptorsInv'
    BY <2>1, <2>2, <2>4, <2>8, <2>9, GrowTrees DEF Intact
  <2> QED BY <1>2, <2>1, <2>2, <2>10 DEF Intact
<1>6. CASE file_new_descriptor
  <2> DEFINE s == [Struct("file_descriptor", WILD) EXCEPT !.private = d]
  <2>1. PICK fd \in FreeFd : file_descriptors' = [file_descriptors EXCEPT ![fd] = New]
    BY <1>6 DEF file_new_descriptor
  <2>2. kzalloc /\ mem' = [Filled(s) EXCEPT ![d].ptr = x]
    BY <1>3, <1>6 DEF file_new_descriptor
  <2>3. s.kind = "file_descriptor" /\ s.private = d
    BY DEF Struct
  <2>4. d \in Block => IsStruct(s)
    BY DEF IsStruct, Struct
  <2> HIDE DEF s
  <2>5. Intact /\ ~bad_free' /\ New # NULL
    BY <2>2, Allocates DEF BlocksInv, Intact
  <2>6. PICK n, m : n = New /\ m = Filled(s)
    OBVIOUS
  <2>7. n \in avail /\ n \in Block /\ n \notin Taken /\ n # d /\ n # x
    BY <1>4, <2>5, <2>6, NewBlock DEF Taken, StateOK
  <2>8. /\ m = [b \in Block |-> m[b]] /\ \A b \in Block : IsStruct(m[b])
        /\ m[n] = s /\ \A b \in Block : b # n => m[b] = mem[b]
    <3>1. m = [mem EXCEPT ![n] = s]
      BY <2>2, <2>6, Allocates
    <3> QED BY <1>4, <2>4, <2>5, <2>6, <2>7, <3>1, FilledOK DEF StateOK, MemOK
  <2>9. /\ mem'[d] = [kind |-> m[d].kind, ptr |-> x, private |-> m[d].private, entry |-> m[d].entry]
        /\ \A b \in Block : b # d => mem'[b] = m[b]
    <3>1. PICK m1 : m1 = mem'
      OBVIOUS
    <3>2. m1 = [m EXCEPT ![d].ptr = x]
      BY <2>2, <2>6, <3>1
    <3> QED BY <1>4, <2>5, <2>8, <3>1, <3>2, StorePtr
  <2>10. Taken' = Taken \cup {n} /\ Taken' \subseteq Block
    BY <2>2, <2>6, <2>7 DEF Taken, kzalloc
  <2>11. /\ mem'[n] = s /\ \A b \in Taken : b # d => mem'[b] = mem[b]
         /\ m[d] = mem[d] /\ mem'[d].kind = mem[d].kind /\ mem'[d].ptr = x
    BY <1>4, <2>5, <2>7, <2>8, <2>9, <2>10
  <2>12. Child(n)' = d /\ Child(d)' = x
    BY <1>4, <2>3, <2>5, <2>11 DEF Child
  <2>13. mem'[x] = mem[x]
    BY <1>4, <2>5, <2>11
  <2>14. Fits(n, mem[Child(n)].kind)' /\ Fits(d, mem[Child(d)].kind)'
    BY <1>4, <2>3, <2>5, <2>11, <2>12, <2>13 DEF Fits
  <2>15. PICK L : L = {n, d}
    OBVIOUS
  <2>16. /\ L \in SUBSET Taken' /\ \A b \in Taken' \ L : b \in Taken /\ mem'[b] = mem[b]
         /\ \A b \in L \cap Taken : Child(b) \notin Block
         /\ \A b \in Taken : mem'[b].kind = mem[b].kind
    BY <1>4, <2>5, <2>7, <2>10, <2>11, <2>15, Blocks
  <2>17. /\ \A b \in L : Child(b)' \in Block => /\ Child(b)' \in Taken' /\ Fits(b, mem[Child(b)].kind)'
                                                /\ \A c \in Taken : Child(c) # Child(b)'
         /\ \A b, c \in L : Child(b)' \in Block /\ Child(b)' = Child(c)' => b = c
    BY <1>4, <2>5, <2>10, <2>12, <2>14, <2>15 DEF IsRoot
  <2>18. /\ Trees' /\ \A b : Opened(b) => Opened(b)'
         /\ \A b : Complete(b) => Complete(b)'
    BY <2>5, <2>10, <2>16, <2>17, GrowTrees DEF Intact
  <2>19. Opened(n)'
    <3>1. Child(Child(n))' = x
      BY <2>12 DEF Child
    <3> QED BY <1>4, <2>3, <2>5, <2>10, <2>11, <2>12, <2>18, <3>1 DEF Opened
  <2>20. fd \in 1..MaxFd /\ file_descriptors[fd] = NULL
    BY DEF FreeFd
  <2>21. \A g \in 1..MaxFd : file_descriptors'[g] = IF g = fd THEN n ELSE file_descriptors[g]
    BY <2>1, <2>6, <2>20 DEF StateOK
  <2>22. \A g \in 1..MaxFd : file_descriptors[g] # n
    BY <2>5, <2>6, <2>7 DEF Intact, DescriptorsInv, Opened
  <2>23. DescriptorsInv'
    BY <2>5, <2>18, <2>19, <2>21, <2>22 DEF Intact, DescriptorsInv
  <2> QED BY <1>2, <2>5, <2>18, <2>23 DEF Intact
<1> QED BY <1>5, <1>6

(* Mounting: the blocks point nowhere. *)
LEMMA MountBlocksInv ==
  ASSUME StateOK, BlocksInv, ~no_block', disk_search_and_init
  PROVE  Intact'
<1>1. call.pc \in Mounting /\ UNCHANGED file_descriptors
  BY DEF disk_search_and_init, fat16_init_private, diskstreamer_new, fat16_get_root_directory,
         fat16_resolve, MountGoto, Mounting
<1>2. ASSUME Intact
      PROVE  (\A b \in Taken : Child(b) \notin Block) /\ \A fd \in 1..MaxFd : file_descriptors'[fd] = NULL
  BY <1>1, <1>2 DEF Intact, MountInv
<1>3. ASSUME Intact, \A b \in Taken' : Child(b)' \notin Block
      PROVE  Trees' /\ DescriptorsInv'
  BY <1>2, <1>3 DEF Trees, DescriptorsInv
<1>4. \A b \in avail : b \in Nat /\ b # 0
  BY Blocks DEF StateOK, NULL
<1>5. ASSUME NEW pc, MountGoto(pc)
      PROVE  call'.pc = pc /\ (pc \in Mounting => WalkInv')
  BY <1>5 DEF MountGoto, WalkInv, Mounting, Steps, Walking
<1>6. CASE fat16_init_private
  <2>1. /\ MountGoto("header") /\ avail' = avail \ {1, 2, 3, 4} /\ UNCHANGED <<no_block, bad_free>>
        /\ mem' = [b \in Block |-> IF b = 1 THEN Struct("fat_private", WILD)
                                   ELSE IF b \in {2, 3, 4} THEN Struct("disk_stream", WILD) ELSE mem[b]]
    BY <1>6 DEF fat16_init_private
  <2>2. Intact
    BY <2>1 DEF BlocksInv
  <2>3. ASSUME NEW b \in Taken'
        PROVE  Child(b)' \notin Block
    <3>1. b \in Block /\ (b \in Taken \/ b \in {1, 2, 3, 4})
      BY <2>1, <2>3 DEF Taken
    <3>2. CASE b \in {1, 2, 3, 4}
      <4>1. mem'[b].kind # "file_descriptor" /\ mem'[b].ptr = WILD
        BY <2>1, <3>1, <3>2 DEF Struct
      <4> QED BY <4>1, Blocks DEF Child
    <3>3. CASE b \in Taken /\ b \notin {1, 2, 3, 4}
      BY <1>2, <2>1, <2>2, <3>1, <3>3 DEF Child
    <3> QED BY <3>1, <3>2, <3>3
  <2>4. call'.pc = "header" /\ WalkInv'
    BY <1>5, <2>1 DEF Mounting
  <2>5. \A b \in avail' : b > 4
    BY <1>4, <2>1
  <2>6. MountInv'
    BY <1>1, <2>2, <2>3, <2>4, <2>5 DEF MountInv, Intact
  <2> QED BY <1>3, <2>1, <2>2, <2>3, <2>4, <2>6 DEF Intact
<1>7. ASSUME NEW pc \in {"root_directory", "resolved"}, MountGoto(pc), kzalloc, NEW kind,
             kind # "file_descriptor", mem' = Filled(Struct(kind, WILD)),
             call.pc \in {"header", "root_directory"}
      PROVE  Intact'
  <2>1. Intact /\ ~bad_free' /\ New # NULL
    BY <1>7, Allocates DEF BlocksInv, Intact
  <2>2. PICK s, n : s = Struct(kind, WILD) /\ n = New
    OBVIOUS
  <2>3. s.ptr = WILD /\ s.private = WILD /\ s.kind # "file_descriptor"
    BY <1>7, <2>2 DEF Struct
  <2>4. mem'[n] = s /\ n \notin Taken /\ \A b \in Taken : mem'[b] = mem[b]
    BY <1>7, <2>1, <2>2, <2>3, AllocTrees DEF Intact
  <2>5. avail' = avail \ {n} /\ Taken' = Taken \cup {n}
    BY <1>7, <2>1, <2>2, NewBlock DEF kzalloc, Taken, StateOK
  <2>6. \A b \in Taken' : Child(b)' \notin Block
    <3>1. Child(n)' \notin Block
      BY <2>3, <2>4, Blocks DEF Child
    <3>2. \A b \in Taken : Child(b)' = Child(b)
      BY <2>4 DEF Child
    <3> QED BY <1>2, <2>1, <2>5, <3>1, <3>2
  <2>7. call'.pc = pc /\ WalkInv'
    BY <1>5, <1>7 DEF Mounting
  <2>8. \A b \in avail' : b > 5
    <3>1. \A b \in avail : b > 4
      BY <1>4, <1>7, <2>1 DEF Intact, MountInv, Mounting
    <3>2. n \in avail /\ \A b \in avail : n <= b
      BY <1>4, <2>1, <2>2, MinIsLeast DEF New
    <3> QED BY <1>4, <2>5, <3>1, <3>2
  <2>9. MountInv'
    BY <1>1, <1>7, <2>1, <2>6, <2>7, <2>8 DEF MountInv, Intact
  <2> QED BY <1>3, <2>1, <2>6, <2>7, <2>9 DEF Intact
<1>8. ASSUME NEW ours \in BOOLEAN, diskstreamer_new(ours)
      PROVE  Intact'
  <2>1. /\ call.pc = "header" /\ kzalloc /\ mem' = Filled(Struct("disk_stream", WILD))
        /\ MountGoto(IF ours THEN "root_directory" ELSE "resolved")
    BY <1>8 DEF diskstreamer_new
  <2> QED BY <1>7, <2>1
<1>9. CASE fat16_get_root_directory
  BY <1>7, <1>9 DEF fat16_get_root_directory
<1>10. CASE fat16_resolve
  <2>1. PICK ptrs : /\ call.pc = "resolved" /\ kfree(ptrs) /\ call' = Idle
                    /\ ptrs \in {<<MountBlocks - 1>>, <<MountBlocks - 1, 1>>}
    BY <1>10 DEF fat16_resolve
  <2>2. Intact
    BY <2>1 DEF BlocksInv, kfree
  <2>3. {5, 1} \subseteq Taken
    BY <1>4, <2>1, <2>2, Blocks DEF Intact, MountInv, Mounting, MountBlocks, Taken
  <2>4. PICK R : R \subseteq Taken /\ Lists(ptrs, R)
    <3>1. Lists(<<5>>, {5}) /\ Lists(<<5, 1>>, {5, 1})
      BY <2>3, ListsOne, ListsTwo DEF Taken
    <3>2. ptrs = <<5>> \/ ptrs = <<5, 1>>
      BY <2>1 DEF MountBlocks
    <3> QED BY <2>3, <3>1, <3>2
  <2>5. Taken' = Taken \ R /\ mem' = mem /\ ~bad_free'
    BY <2>1, <2>2, <2>4, FreesList DEF Intact, StateOK
  <2>6. \A b \in Taken' : Child(b)' \notin Block
    BY <1>2, <2>2, <2>5 DEF Child
  <2>7. WalkInv' /\ MountInv'
    BY <2>1 DEF WalkInv, MountInv, Mounting, Steps, Walking, Idle
  <2> QED BY <1>3, <2>2, <2>5, <2>6, <2>7 DEF Intact
<1> QED BY <1>6, <1>8, <1>9, <1>10 DEF disk_search_and_init

-----------------------------------------------------------------------------
(* What a descriptor owns, and fclose frees. *)
Owns(fd, d, p, x) ==
  /\ p = mem[d].private /\ x = mem[p].ptr /\ x = Deref(p)
  /\ {d, p} \subseteq Taken /\ Complete(x) /\ Child(d) = p /\ Child(p) = x
  /\ mem[d].kind = "file_descriptor" /\ mem[p].kind = "fat_file_descriptor"
  /\ Owned(fd) = ItemBlocks(x) \cup {p, d}
  /\ Lists(fat16_fat_item_free(x) \o <<p, d>>, Owned(fd))

LEMMA OwnedBlocks ==
  ASSUME StateOK, Intact, NEW fd \in 1..MaxFd, NEW d, d = file_descriptors[fd], d # NULL
  PROVE  \E p, x : Owns(fd, d, p, x)
<1>1. PICK p, x : p = mem[d].private /\ x = mem[p].ptr
  OBVIOUS
<1>2. Opened(d)
  BY DEF Intact, DescriptorsInv
<1>3. d \in Taken /\ mem[d].kind = "file_descriptor" /\ Child(d) = p /\ p \in Block
  BY <1>1, <1>2 DEF Opened, Child
<1>4. p \in Taken /\ mem[p].kind = "fat_file_descriptor"
  BY <1>3 DEF Intact, Trees, Fits
<1>5. Child(p) = x /\ Deref(p) = x /\ Complete(x)
  BY <1>1, <1>2, <1>3, <1>4 DEF Child, Deref, Opened
<1>6. x \in Block /\ mem[x].kind = "fat_item" /\ Deref(x) = Child(x) /\ Child(x) \in Block
  BY <1>5 DEF Complete, IsItem, Taken, Deref, Child
<1>7. mem[Child(x)].kind # "file_descriptor"
  BY <1>5, <1>6 DEF Intact, Trees, Fits, Complete, IsItem
<1>8. Deref(Deref(x)) = Child(Child(x))
  BY <1>6, <1>7 DEF Deref, Child
<1>9. IsDirectory(x) <=> mem[x].entry.dir
  BY <1>6 DEF IsDirectory
<1>10. Owned(fd) = {d, p, x, Child(x)} \cup (IF mem[x].entry.dir THEN {Child(Child(x))} ELSE {})
  BY <1>1, <1>5, <1>6, <1>8, <1>9 DEF Owned
<1>11. Owned(fd) = ItemBlocks(x) \cup {p, d}
  BY <1>10 DEF ItemBlocks
<1>12. Lists(fat16_fat_item_free(x), ItemBlocks(x)) /\ ItemBlocks(x) \cap {p, d} = {}
  BY <1>3, <1>4, <1>5, ItemTree DEF Intact, StateOK
<1>13. Lists(<<p, d>>, {p, d})
  BY <1>3, <1>4, ListsTwo DEF Taken
<1>14. Lists(fat16_fat_item_free(x) \o <<p, d>>, ItemBlocks(x) \cup {p, d})
  BY <1>12, <1>13, ListsConcat
<1>15. Owns(fd, d, p, x)
  BY <1>1, <1>3, <1>4, <1>5, <1>11, <1>14 DEF Owns
<1> QED BY <1>15

(* Descriptors share nothing. *)
LEMMA OwnedApart ==
  ASSUME StateOK, Intact, NEW fd \in 1..MaxFd, NEW g \in 1..MaxFd, fd # g
  PROVE  Owned(fd) \cap Owned(g) = {}
<1>1. CASE file_descriptors[fd] = NULL \/ file_descriptors[g] = NULL
  BY <1>1 DEF Owned
<1>2. CASE file_descriptors[fd] # NULL /\ file_descriptors[g] # NULL
  <2>1. PICK d, e : d = file_descriptors[fd] /\ e = file_descriptors[g]
    OBVIOUS
  <2>2. d # e
    BY <1>2, <2>1 DEF Intact, DescriptorsInv
  <2>3. PICK p, x : Owns(fd, d, p, x)
    BY <1>2, <2>1, OwnedBlocks
  <2>4. PICK q, y : Owns(g, e, q, y)
    BY <1>2, <2>1, OwnedBlocks
  <2>5. p # q /\ x # y
    <3>1. x \in Block /\ p \in Block
      BY <2>3 DEF Owns, Complete, IsItem, Taken
    <3>2. p # q
      BY <2>2, <2>3, <2>4, <3>1 DEF Owns, Intact, Trees
    <3> QED BY <2>3, <2>4, <3>1, <3>2 DEF Owns, Intact, Trees
  <2>6. /\ \A b \in ItemBlocks(x) : mem[b].kind \in {"fat_item", "fat_directory", "items", "entry"}
        /\ \A b \in ItemBlocks(y) : mem[b].kind \in {"fat_item", "fat_directory", "items", "entry"}
    BY <2>3, <2>4, ItemTree DEF Owns, Intact, StateOK
  <2>7. ItemBlocks(x) \cap ItemBlocks(y) = {}
    BY <2>3, <2>4, <2>5, ItemsApart DEF Owns, Intact, StateOK
  <2> QED BY <2>2, <2>3, <2>4, <2>5, <2>6, <2>7 DEF Owns
<1> QED BY <1>1, <1>2

(* While the trees are intact every open descriptor can be closed. *)
LEMMA FcloseCloses ==
  ASSUME StateOK, Intact, NEW fd \in 0..MaxFd, fclose(fd), NEW d, d = file_descriptors[fd]
  PROVE  /\ fd \in 1..MaxFd /\ fd < MaxFd /\ d # NULL /\ call = Idle /\ UNCHANGED call
         /\ kfree(fat16_fat_item_free(Deref(mem[d].private)) \o <<mem[d].private, d>>)
         /\ file_descriptors' = [file_descriptors EXCEPT ![fd] = NULL]
         /\ ret' = 0 /\ last' = [F!NoCall EXCEPT !.fd = fd]
<1>1. /\ fd \in 1..MaxFd /\ fd < MaxFd /\ d # NULL /\ d = file_get_descriptor(fd)
  BY FileBlocksAssumption DEF fclose, file_get_descriptor
<1>2. PICK p, x : Owns(fd, d, p, x)
  BY <1>1, OwnedBlocks
<1>3. /\ mem[d].kind = "file_descriptor" /\ Deref(mem[d].private) = x
      /\ x \in Block /\ mem[x].kind = "fat_item"
  BY <1>2 DEF Owns, Complete, IsItem, Taken
<1>4. \A g \in 1..MaxFd : file_descriptors[g] = d => g = fd
  BY <1>1 DEF Intact, DescriptorsInv
<1>5. Closable(fd)
  BY <1>3, <1>4 DEF Closable
<1> QED BY <1>1, <1>5 DEF fclose

LEMMA FcloseBlocks ==
  ASSUME StateOK, Intact, NEW fd \in 0..MaxFd, fclose(fd)
  PROVE  /\ fd \in 1..MaxFd /\ fd < MaxFd /\ avail' = avail \cup Owned(fd) /\ no_block' = no_block
         /\ Intact'
<1>1. PICK d : d = file_descriptors[fd]
  OBVIOUS
<1>2. /\ fd \in 1..MaxFd /\ fd < MaxFd /\ d # NULL /\ call = Idle /\ UNCHANGED call
      /\ kfree(fat16_fat_item_free(Deref(mem[d].private)) \o <<mem[d].private, d>>)
      /\ file_descriptors' = [file_descriptors EXCEPT ![fd] = NULL]
  BY <1>1, FcloseCloses
<1>3. PICK p, x : Owns(fd, d, p, x)
  BY <1>1, <1>2, OwnedBlocks
<1>4. PICK R : R = Owned(fd)
  OBVIOUS
<1>5. Lists(fat16_fat_item_free(x) \o <<p, d>>, R) /\ kfree(fat16_fat_item_free(x) \o <<p, d>>)
  BY <1>2, <1>3, <1>4 DEF Owns
<1>6. R = ItemBlocks(x) \cup {p, d} /\ R \in SUBSET Taken
  BY <1>3, <1>4, ItemTree DEF Owns, Intact, StateOK
<1>7. Taken' = Taken \ R /\ avail' = avail \cup R /\ mem' = mem /\ ~bad_free' /\ no_block' = no_block
  BY <1>5, <1>6, FreesList DEF Intact, StateOK
<1>8. \A b \in Taken : Child(b) \in R => b \in R
  <2>1. \A b \in Taken : Child(b) \in ItemBlocks(x) /\ Child(b) # x => b \in ItemBlocks(x)
    BY <1>3, ItemTree DEF Owns, Intact, StateOK
  <2>2. d \in Block /\ p \in Block /\ x \in Block
    BY <1>3 DEF Owns, Complete, IsItem, Taken
  <2>3. \A b \in Taken : Child(b) # d
    BY <1>3, <2>2 DEF Owns, Intact, Trees, Fits
  <2>4. \A b \in Taken : (Child(b) = p => b = d) /\ (Child(b) = x => b = p)
    BY <1>3, <2>2 DEF Owns, Intact, Trees
  <2> QED BY <1>6, <2>1, <2>3, <2>4
<1>9. \A g \in 1..MaxFd : file_descriptors'[g] = IF g = fd THEN NULL ELSE file_descriptors[g]
  BY <1>2 DEF StateOK
<1>10. ASSUME NEW g \in 1..MaxFd, g # fd, file_descriptors[g] # NULL
       PROVE  file_descriptors[g] \notin R /\ Child(Child(file_descriptors[g])) \notin R
  <2>1. PICK e : e = file_descriptors[g]
    OBVIOUS
  <2>2. PICK q, y : Owns(g, e, q, y)
    BY <1>10, <2>1, OwnedBlocks
  <2>3. e \in Owned(g) /\ Child(Child(e)) \in Owned(g)
    BY <2>2 DEF Owns, ItemBlocks
  <2>4. Owned(fd) \cap Owned(g) = {}
    BY <1>2, <1>10, OwnedApart
  <2> QED BY <1>4, <2>1, <2>3, <2>4
<1>11. DescriptorsInv'
  BY <1>6, <1>7, <1>8, <1>9, <1>10, FreeDescriptors DEF Intact
<1>12. Trees'
  BY <1>6, <1>7, <1>8, FreeTrees DEF Intact
<1>13. WalkInv' /\ MountInv'
  BY <1>2 DEF WalkInv, MountInv, Mounting, Steps, Walking, Idle
<1> QED BY <1>2, <1>4, <1>7, <1>11, <1>12, <1>13 DEF Intact

LEMMA FopenBlocks ==
  ASSUME StateOK, BlocksInv, ~no_block', NEW path, NEW mode, fopen(path, mode)
  PROVE  Intact'
<1>1. UNCHANGED <<avail, mem, no_block, bad_free, file_descriptors>> /\ call'.pc = "root"
  BY FopenOK DEF fopen, heapVars, Keeps
<1>2. call'.depth = 1 /\ call'.f_item = NULL
  BY DEF fopen
<1>3. Intact
  BY <1>1 DEF BlocksInv
<1>4. Trees' /\ DescriptorsInv'
  BY <1>1, <1>3, SameTrees DEF Intact, Taken
<1>5. WalkInv' /\ MountInv'
  BY <1>1, <1>2 DEF WalkInv, MountInv, Mounting, Steps, Walking
<1> QED BY <1>1, <1>3, <1>4, <1>5 DEF Intact

LEMMA InitBlocks == Init => BlocksInv
<1> SUFFICES ASSUME Init PROVE Intact
  BY DEF BlocksInv
<1>1. \A b \in Taken : Child(b) = NULL
  BY DEF Init, Taken, Child, Cleared, Struct
<1>2. \A b \in Taken : Child(b) \notin Block
  BY <1>1, Blocks
<1>3. Trees
  BY <1>2 DEF Trees
<1>4. DescriptorsInv
  BY DEF Init, DescriptorsInv
<1>5. MountInv /\ WalkInv
  BY <1>2 DEF Init, MountInv, WalkInv, Mounting, Steps, Walking
<1> QED BY <1>3, <1>4, <1>5 DEF Init, Intact

LEMMA NextBlocks ==
  ASSUME StateOK, BlocksInv, [Next]_vars
  PROVE  BlocksInv'
<1> SUFFICES ASSUME ~no_block' PROVE Intact'
  BY DEF BlocksInv
<1>1. CASE UNCHANGED vars
  <2>1. UNCHANGED <<avail, mem, no_block, bad_free, file_descriptors, call>>
    BY <1>1 DEF vars, heapVars
  <2>2. Intact
    BY <2>1 DEF BlocksInv
  <2>3. Trees' /\ DescriptorsInv'
    BY <2>1, <2>2, SameTrees DEF Intact, Taken
  <2>4. MountInv' /\ WalkInv'
    BY <2>1, <2>2 DEF Intact, MountInv, WalkInv, Found, Searched, IsRoot, IsItem, Complete, Child, Taken
  <2> QED BY <2>1, <2>2, <2>3, <2>4 DEF Intact
<1>2. CASE Open
  <2>1. ~load_items_refused /\ ~load_no_items
    BY DEF load_items_refused, load_no_items
  <2> QED BY <1>2, <2>1, PathBlocks, NewItemBlocks, LinkBlocks, WalkBlocks, DescriptorBlocks DEF Open
<1>3. ASSUME NEW fd \in 0..MaxFd, fclose(fd)
      PROVE  Intact'
  <2>1. Intact
    BY <1>3 DEF fclose, kfree, heapVars, BlocksInv
  <2> QED BY <1>3, <2>1, FcloseBlocks
<1>4. ASSUME NEW fd \in 0..MaxFd, fclose_fails(fd)
      PROVE  Intact'
  <2>1. UNCHANGED <<avail, mem, no_block, bad_free, file_descriptors, call>> /\ call = Idle
    BY <1>4 DEF fclose_fails, heapVars
  <2>2. Intact
    BY <2>1 DEF BlocksInv
  <2>3. Trees' /\ DescriptorsInv'
    BY <2>1, <2>2, SameTrees DEF Intact, Taken
  <2>4. MountInv' /\ WalkInv'
    BY <2>1 DEF MountInv, WalkInv, Mounting, Steps, Walking, Idle
  <2> QED BY <2>1, <2>2, <2>3, <2>4 DEF Intact
<1> QED BY <1>1, <1>2, <1>3, <1>4, MountBlocksInv, FopenBlocks DEF Next

-----------------------------------------------------------------------------
(* The inductive invariant holds on every run: types always, the trees     *)
(* until a kzalloc returns NULL or, for a directory without entries, a     *)
(* block that stays free (every handler of file.c, fat16.c, pparser.c).    *)
THEOREM FileBlocksInvariant == Spec => [](StateOK /\ BlocksInv)
<1>1. Init => StateOK /\ BlocksInv
  BY InitOK, InitBlocks
<1>2. StateOK /\ BlocksInv /\ [Next]_vars => (StateOK /\ BlocksInv)'
  BY NextOK, NextBlocks
<1> QED BY <1>1, <1>2, PTL DEF Spec

(* Every pointer of a structure is a block, NULL or bytes that are none,   *)
(* and every slot a block or NULL, with memory or without.                 *)
THEOREM BlocksTypeOK == Spec => []TypeOK
<1>1. StateOK => TypeOK
  <2> SUFFICES ASSUME StateOK PROVE TypeOK
    OBVIOUS
  <2>1. call.pc \in Mounting \cup {"idle", "wild"} \cup Steps
    BY DEF StateOK, CallOK
  <2>2. \A b \in Block : mem[b].ptr \in Block \cup {NULL, WILD} /\ mem[b].private \in Block \cup {WILD}
    BY DEF StateOK, MemOK, IsStruct
  <2> QED BY <2>1, <2>2 DEF StateOK, TypeOK, Steps
<1> QED BY <1>1, FileBlocksInvariant, PTL

(* No kfree of mounting, fopen or fclose hits a block that is not taken,   *)
(* or one twice, before a kzalloc has returned NULL or a directory without *)
(* entries has been loaded: for any disk, heap and sequence of calls up to *)
(* then.                                                                   *)
THEOREM NoBadFree == Spec => []FreesOnlyTakenBlocks
<1>1. StateOK /\ BlocksInv => FreesOnlyTakenBlocks
  BY DEF StateOK, BlocksInv, Intact, FreesOnlyTakenBlocks
<1> QED BY <1>1, FileBlocksInvariant, PTL

(* Until then an open descriptor owns four or five taken blocks of the     *)
(* kinds file_new_descriptor and fat16_open gave them, and shares none     *)
(* with another one.                                                       *)
THEOREM DescriptorsApart == Spec => []DescriptorsOwnTheirBlocks
<1>1. StateOK /\ BlocksInv => DescriptorsOwnTheirBlocks
  <2> SUFFICES ASSUME StateOK, Intact PROVE DescriptorsOwnTheirBlocks
    BY DEF BlocksInv, DescriptorsOwnTheirBlocks
  <2>1. ASSUME NEW fd \in 1..MaxFd, file_descriptors[fd] # NULL
        PROVE  LET d == file_descriptors[fd]
                   p == mem[d].private
                   item == mem[p].ptr
                   data == mem[item].ptr
               IN /\ Owned(fd) \subseteq Taken
                  /\ mem[d].kind = "file_descriptor" /\ mem[p].kind = "fat_file_descriptor"
                  /\ mem[item].kind = "fat_item"
                  /\ IF IsDirectory(item)
                     THEN mem[data].kind = "fat_directory" /\ mem[mem[data].ptr].kind = "items"
                     ELSE mem[data].kind = "entry"
    <3>1. PICK d : d = file_descriptors[fd]
      OBVIOUS
    <3>2. PICK p, x : Owns(fd, d, p, x)
      BY <2>1, <3>1, OwnedBlocks
    <3>3. PICK c : c = mem[x].ptr
      OBVIOUS
    <3>4. x \in Taken /\ x \in Block /\ mem[x].kind = "fat_item" /\ Child(x) = c /\ c \in Block
      BY <3>2, <3>3 DEF Owns, Complete, IsItem, Child, Taken
    <3>5. c \in Taken /\ mem[c].kind = IF mem[x].entry.dir THEN "fat_directory" ELSE "entry"
      BY <3>4 DEF Intact, Trees, Fits
    <3>6. mem[x].entry.dir => mem[mem[c].ptr].kind = "items"
      <4> SUFFICES ASSUME mem[x].entry.dir PROVE mem[mem[c].ptr].kind = "items"
        OBVIOUS
      <4>1. Child(c) = mem[c].ptr /\ Child(c) \in Block
        BY <3>2, <3>4, <3>5 DEF Owns, Complete, Child
      <4> QED BY <3>5, <4>1 DEF Intact, Trees, Fits
    <3>7. IsDirectory(x) <=> mem[x].entry.dir
      BY <3>4 DEF IsDirectory
    <3>8. Owned(fd) \subseteq Taken
      BY <3>2, ItemTree DEF Owns, Intact, StateOK
    <3>9. p = mem[d].private /\ x = mem[p].ptr
      BY <3>2 DEF Owns
    <3> QED BY <3>1, <3>2, <3>3, <3>4, <3>5, <3>6, <3>7, <3>8, <3>9 DEF Owns
  <2> QED BY <2>1, OwnedApart DEF DescriptorsOwnTheirBlocks
<1> QED BY <1>1, FileBlocksInvariant, PTL

(* An fclose frees exactly what the descriptor owns, and nothing of the    *)
(* others, until a kzalloc returns NULL or a directory without entries is  *)
(* loaded; the last descriptor is refused (fat16_close,                    *)
(* file_free_descriptor, file_get_descriptor).                             *)
THEOREM CloseFreesExactly == Spec => CloseFreesOwned
<1> DEFINE Closes == call = Idle /\ call' = Idle /\ ~no_block =>
             \A fd \in {last'.fd} \cap {g \in 1..MaxFd : file_descriptors[g] # NULL} :
               IF fd < MaxFd
               THEN ret' = 0 /\ avail' = avail \cup Owned(fd) /\ file_descriptors'[fd] = NULL
               ELSE ret' = F!EIO /\ UNCHANGED <<avail, file_descriptors>>
<1>1. StateOK /\ BlocksInv /\ [Next]_vars => [Closes]_vars
  <2> SUFFICES ASSUME StateOK, BlocksInv, Next, call = Idle, call' = Idle, ~no_block,
                      NEW fd \in 1..MaxFd, fd = last'.fd, file_descriptors[fd] # NULL
               PROVE  IF fd < MaxFd
                      THEN ret' = 0 /\ avail' = avail \cup Owned(fd) /\ file_descriptors'[fd] = NULL
                      ELSE ret' = F!EIO /\ UNCHANGED <<avail, file_descriptors>>
    OBVIOUS
  <2>1. call.pc = "idle" /\ call'.pc = "idle" /\ Intact
    BY DEF Idle, BlocksInv
  <2>2. PICK g \in 0..MaxFd : fclose(g) \/ fclose_fails(g)
    <3>1. ~disk_search_and_init
      BY <2>1 DEF disk_search_and_init, fat16_init_private, diskstreamer_new,
                  fat16_get_root_directory, fat16_resolve
    <3>2. ~Open
      BY <2>1 DEF Open, pathparser_create_root, pathparser_get_path_part, path_end,
                  pathparser_parse_path_part, open_rejected, fat16_open,
                  fat16_new_fat_item_for_directory_item, fat16_clone_directory_item,
                  load_directory, load_items, load_no_items, load_items_refused, next_part,
                  item_found, not_found, SearchOver, no_descriptor, file_new_descriptor
    <3>3. \A o \in Opens : ~fopen(o.path, o.mode)
      BY <2>1, FopenOK
    <3> QED BY <3>1, <3>2, <3>3 DEF Next
  <2>3. g = fd
    <3>1. last' = [F!NoCall EXCEPT !.fd = g]
      BY <2>1, <2>2, FcloseCloses DEF fclose_fails
    <3> QED BY <3>1 DEF F!NoCall
  <2>4. CASE fclose(g)
    <3>1. ret' = 0 /\ file_descriptors' = [file_descriptors EXCEPT ![fd] = NULL]
      BY <2>1, <2>3, <2>4, FcloseCloses
    <3>2. file_descriptors'[fd] = NULL
      BY <3>1 DEF StateOK
    <3>3. fd < MaxFd /\ avail' = avail \cup Owned(fd)
      BY <2>1, <2>2, <2>3, <2>4, FcloseBlocks
    <3> QED BY <3>1, <3>2, <3>3
  <2>5. CASE fclose_fails(g)
    <3>1. ret' = F!EIO /\ UNCHANGED <<avail, file_descriptors>> /\ file_get_descriptor(fd) = NULL
      BY <2>3, <2>5 DEF fclose_fails, heapVars
    <3>2. ~(fd < MaxFd)
      BY <3>1, FileBlocksAssumption DEF file_get_descriptor
    <3> QED BY <3>1, <3>2
  <2> QED BY <2>2, <2>4, <2>5
<1> QED BY <1>1, FileBlocksInvariant, PTL DEF Spec, CloseFreesOwned

-----------------------------------------------------------------------------
(* Refinement: where the fopen being run stands on the walk of Files.      *)

NoName == ""

(* The walk along the first n parts. *)
WalkTo(n) == F!fat16_get_directory_entry(SubSeq(call.parts, 1, n))

Directories == {vol.root} \cup {vol.dirs[c] : c \in DOMAIN vol.dirs}

(* The path: the parts read are its first ones, none of them empty, and    *)
(* then all that Files keeps.                                              *)
PathInv ==
  /\ \E o \in Opens : call.path = o.path /\ call.mode = o.mode
  /\ call.pc \notin Walking => stream = call.stream /\ call.i = 1
  /\ IF call.pc \in {"root", "string", "part"}
     THEN /\ Len(call.parts) \in 0..Len(call.path.parts)
          /\ call.parts = SubSeq(call.path.parts, 1, Len(call.parts))
          /\ \A j \in 1..Len(call.parts) : call.path.parts[j] # NoName
          /\ call.pc = "part" => /\ Len(call.parts) < Len(call.path.parts)
                                 /\ call.path.parts[Len(call.parts) + 1] # NoName
     ELSE call.parts = F!pathparser_parse(call.path.parts)

(* The search of a directory: the matches seen, those whose item is built, *)
(* and the stream as the directories among them have left it.              *)
Matches == F!Hits(Directory, call.parts[call.depth])
Seen == {j \in Matches : j < call.i}
Built == IF call.pc = "search" THEN Seen ELSE Seen \ {call.i - 1}

Loaded(dir, subs, s) ==
  IF subs = {} THEN s
  ELSE F!fat16_cluster_to_sector(dir[Max(subs)].first) * SectorSize
         + F!fat16_get_total_items_for_directory(vol.dirs[dir[Max(subs)].first]) * EntrySize

SearchInv ==
  /\ Directory \in Directories /\ WalkTo(call.depth - 1).dir = {Directory}
  /\ call.depth > 1 => mem[call.current_item].entry.dir
  /\ call.i \in Nat \ {0}
  /\ call.f_item = NULL <=> Seen = {}
  /\ call.f_item # NULL => mem[call.f_item].entry = Directory[Max(Seen)]
  /\ call.pc # "search" => call.i - 1 \in Matches
  /\ stream = Loaded(Directory, {j \in Built : Directory[j].dir}, WalkTo(call.depth - 1).stream)

(* The walk is over: Files would open the same item. *)
ArrivedInv ==
  /\ call.depth = Len(call.parts)
  /\ WalkTo(call.depth).item = {mem[call.current_item].entry}
  /\ stream = WalkTo(call.depth).stream

TracksInv ==
  /\ PathInv
  /\ call.pc \in Walking =>
       /\ filesystem /\ F!Openable(call.path, call.mode) /\ call.depth \in 1..Len(call.parts)
       /\ IF call.pc = "descriptor" THEN ArrivedInv ELSE SearchInv

RefineInv ==
  /\ vol \in Volumes
  /\ call.pc \in Mounting => ~filesystem
  /\ call.pc \in Steps /\ ~no_block => TracksInv

-----------------------------------------------------------------------------
(* Sets of numbers, paths and directories, as Files sees them. *)

(* A bounded set of naturals has a greatest element, which is what Max picks. *)
LEMMA MaxIsGreatest ==
  ASSUME NEW b \in Nat, NEW S \in SUBSET (0..b), S # {}
  PROVE  Max(S) \in S /\ \A k \in S : k <= Max(S)
<1> DEFINE T == {b - k : k \in S}
<1>1. T \in SUBSET Nat /\ T # {}
  <2>1. \A k \in S : b - k \in Nat
    OBVIOUS
  <2> QED BY <2>1
<1>2. PICK t \in T : \A u \in T : t <= u
  <2> HIDE DEF T
  <2> QED BY <1>1, LeastElement
<1>3. PICK m \in S : t = b - m
  BY <1>2
<1>4. ASSUME NEW k \in S PROVE k <= m
  <2>1. b - k \in T
    OBVIOUS
  <2>2. b - m <= b - k
    BY <1>2, <1>3, <2>1
  <2> QED BY <2>2
<1>5. \E x \in S : \A y \in S : x >= y
  BY <1>4
<1>6. Max(S) \in S /\ \A y \in S : Max(S) >= y
  BY <1>5, Zenon DEF Max
<1> QED BY <1>6

(* The operators that Files takes from the libraries are the same. *)
LEMMA SameOperators ==
  \A S : F!Cardinality(S) = Cardinality(S) /\ F!Min(S) = Min(S) /\ F!Max(S) = Max(S)
<1>1. \A S : F!Cardinality(S) = Cardinality(S)
  BY Zenon DEF F!Cardinality, Cardinality
<1>2. \A S : F!Min(S) = Min(S) /\ F!Max(S) = Max(S)
  BY Zenon DEF F!Min, Min, F!Max, Max
<1> QED BY <1>1, <1>2

(* The first parts, up to an empty one. *)
FirstParts(parts, empty) ==
  SubSeq(parts, 1, Min({Len(parts)} \cup {i - 1 : i \in {j \in 1..Len(parts) : parts[j] = empty}}))

LEMMA ParseFirst == \A parts : F!pathparser_parse(parts) = FirstParts(parts, NoName)
  BY SameOperators, Zenon DEF F!pathparser_parse, FirstParts, NoName

LEMMA ParseStops ==
  ASSUME NEW S, NEW parts \in Seq(S), NEW empty, NEW k \in 0..Len(parts),
         \A j \in 1..k : parts[j] # empty,
         k < Len(parts) => parts[k + 1] = empty
  PROVE  FirstParts(parts, empty) = SubSeq(parts, 1, k)
<1> DEFINE J == {j \in 1..Len(parts) : parts[j] = empty}
           M == {Len(parts)} \cup {i - 1 : i \in J}
<1>1. J \subseteq 1..Len(parts) /\ Len(parts) \in Nat /\ k \in Nat
  OBVIOUS
<1>2. M \in SUBSET Nat /\ M # {}
  <2> HIDE DEF J
  <2> QED BY <1>1
<1>3. k \in M
  <2>1. CASE k = Len(parts)
    BY <2>1
  <2>2. CASE k < Len(parts)
    <3>1. k + 1 \in J /\ k = (k + 1) - 1
      BY <1>1, <2>2
    <3> QED BY <3>1
  <2> QED BY <1>1, <2>1, <2>2
<1>4. ASSUME NEW x \in M PROVE k <= x
  <2>1. CASE x = Len(parts)
    BY <2>1
  <2>2. ASSUME NEW i \in J, x = i - 1 PROVE k <= x
    <3>1. i \in 1..Len(parts) /\ i \notin 1..k
      BY <2>2
    <3> QED BY <1>1, <2>2, <3>1
  <2> QED BY <2>1, <2>2
<1>5. Min(M) = k
  <2>1. Min(M) \in M /\ \A x \in M : Min(M) <= x
    <3> HIDE DEF M
    <3> QED BY <1>2, MinIsLeast
  <2>2. Min(M) <= k /\ k <= Min(M) /\ Min(M) \in Nat
    BY <1>2, <1>3, <1>4, <2>1
  <2> HIDE DEF M
  <2> QED BY <1>1, <2>2
<1> QED BY <1>5 DEF FirstParts

(* The first parts are a sequence. *)
LEMMA ParseParts ==
  ASSUME NEW S, NEW parts \in Seq(S), NEW empty
  PROVE  FirstParts(parts, empty) \in Seq(S)
<1> DEFINE J == {j \in 1..Len(parts) : parts[j] = empty}
           M == {Len(parts)} \cup {i - 1 : i \in J}
<1>1. M \in SUBSET Nat /\ M # {} /\ Len(parts) \in M
  <2>1. J \subseteq 1..Len(parts) /\ Len(parts) \in Nat
    OBVIOUS
  <2> HIDE DEF J
  <2> QED BY <2>1
<1>2. PICK m \in Nat : m = Min(M) /\ m <= Len(parts)
  <2> HIDE DEF M
  <2> QED BY <1>1, MinIsLeast
<1>3. SubSeq(parts, 1, m) \in Seq(S)
  <2>1. \A i \in 1..m : parts[i] \in S
    BY <1>2
  <2> QED BY <1>2, <2>1, SubSeqProperties
<1> QED BY <1>2, <1>3 DEF FirstParts

EntriesOf(d) == {d[i] : i \in 1..Len(d)}

LEMMA DirectoryEntries ==
  ASSUME vol \in Volumes, NEW d \in Directories
  PROVE  /\ Len(d) \in Nat
         /\ \A i \in 1..Len(d) : d[i].dir => vol.dirs[d[i].first] \in Directories
<1>1. F!IsVolume(vol)
  BY DisksAssumption
<1>2. d \in Seq(F!Entries)
  BY <1>1 DEF F!IsVolume, Directories
<1>3. \A i \in 1..Len(d) : d[i].dir => d[i].first \in DOMAIN vol.dirs
  BY <1>1 DEF F!IsVolume, Directories
<1> QED BY <1>2, <1>3 DEF Directories

(* The matches are among the first entries. *)
LEMMA HitsBounded ==
  ASSUME vol \in Volumes, NEW d \in Directories, NEW name
  PROVE  /\ Len(d) \in Nat /\ F!Hits(d, name) \in SUBSET (1..Len(d))
         /\ \A S \in SUBSET F!Hits(d, name) : S # {} => Max(S) \in S /\ \A k \in S : k <= Max(S)
<1>0. Len(d) \in Nat
  BY DirectoryEntries
<1> DEFINE S == 1..Len(d)
           T == {i \in S : d[i].name # F!DELETED}
<1>1. IsFiniteSet(S) /\ Cardinality(S) = Len(d)
  <2>1. IsFiniteSet(1..Len(d)) /\ Cardinality(1..Len(d)) = IF 1 > Len(d) THEN 0 ELSE Len(d) - 1 + 1
    BY <1>0, FS_Interval, SMTT(20)
  <2> QED BY <1>0, <2>1
<1>2. T \in SUBSET S
  OBVIOUS
<1> HIDE DEF S
<1>3. IsFiniteSet(T) /\ Cardinality(T) <= Cardinality(S)
  <2> HIDE DEF T
  <2> QED BY <1>1, <1>2, FS_Subset
<1>4. Cardinality(T) \in Nat
  <2> HIDE DEF T
  <2> QED BY <1>3, FS_CardinalityType
<1>5. PICK c \in Nat : c = F!fat16_get_total_items_for_directory(d) /\ c <= Len(d)
  <2>1. F!fat16_get_total_items_for_directory(d) = Cardinality(T)
    BY SameOperators DEF F!fat16_get_total_items_for_directory, S
  <2> HIDE DEF T
  <2> QED BY <1>1, <1>3, <1>4, <2>1
<1>6. F!Hits(d, name) \in SUBSET (1..Len(d))
  BY <1>0, <1>5 DEF F!Hits
<1>7. ASSUME NEW R \in SUBSET F!Hits(d, name), R # {} PROVE Max(R) \in R /\ \A k \in R : k <= Max(R)
  <2>1. R \in SUBSET (0..Len(d))
    BY <1>0, <1>6
  <2> QED BY <1>0, <1>7, <2>1, MaxIsGreatest
<1> QED BY <1>0, <1>6, <1>7

-----------------------------------------------------------------------------
(* The walk of Files, part by part. *)

AbsStream == IF call.pc \in Mounting \cup {"idle"} THEN stream ELSE call.stream

WalkPart(part, w) ==
  LET found == UNION {F!fat16_find_item_in_directory(d, part) : d \in w.dir}
  IN [dir |-> {vol.dirs[e.first] : e \in {x \in found : x.dir}},
      item |-> found,
      stream |-> IF w.dir = {} THEN w.stream
                 ELSE F!fat16_load_fat_directory(CHOOSE d \in w.dir : TRUE, part, w.stream)]

WalkStart == [dir |-> {vol.root}, item |-> {}, stream |-> AbsStream]

IsWalk(parts, n, f) ==
  f = [i \in 0..n |-> IF i = 0 THEN WalkStart ELSE WalkPart(parts[i], f[i - 1])]

LEMMA WalkExists ==
  ASSUME NEW parts, NEW n \in Nat
  PROVE  \E f : IsWalk(parts, n, f)
<1> DEFINE S == {m \in Nat : \E f : IsWalk(parts, m, f)}
<1>1. 0 \in S
  <2> DEFINE f == [i \in 0..0 |-> WalkStart]
  <2>1. IsWalk(parts, 0, f)
    BY DEF IsWalk
  <2> QED BY <2>1
<1>2. ASSUME NEW m \in 0..(n - 1), m \in S PROVE m + 1 \in S
  <2>1. PICK f : IsWalk(parts, m, f)
    BY <1>2
  <2> DEFINE h == [i \in 0..(m + 1) |-> IF i <= m THEN f[i] ELSE WalkPart(parts[m + 1], f[m])]
  <2>2. ASSUME NEW i \in 0..(m + 1)
        PROVE  h[i] = IF i = 0 THEN WalkStart ELSE WalkPart(parts[i], h[i - 1])
    <3>1. CASE i <= m
      <4>1. h[i] = f[i] /\ (i # 0 => h[i - 1] = f[i - 1]) /\ i \in 0..m
        BY <3>1
      <4> HIDE DEF h
      <4> QED BY <2>1, <4>1 DEF IsWalk
    <3>2. CASE i = m + 1
      BY <3>2
    <3> QED BY <3>1, <3>2
  <2>3. IsWalk(parts, m + 1, h)
    BY <2>2 DEF IsWalk
  <2> QED BY <2>3
<1>3. 0..n \subseteq S
  <2> HIDE DEF S
  <2> QED BY <1>1, <1>2, InductionUpTo
<1> QED BY <1>3

LEMMA WalkIsWalk ==
  ASSUME NEW parts, Len(parts) \in Nat
  PROVE  \E f : /\ IsWalk(parts, Len(parts), f)
                /\ F!fat16_get_directory_entry(parts) = f[Len(parts)]
<1> DEFINE C == CHOOSE f : IsWalk(parts, Len(parts), f)
<1>1. F!fat16_get_directory_entry(parts) = C[Len(parts)]
  BY DEF F!fat16_get_directory_entry, IsWalk, WalkPart, WalkStart, AbsStream
<1>2. IsWalk(parts, Len(parts), C)
  BY WalkExists
<1> QED BY <1>1, <1>2

(* A walk is the walk along the parts before, and one part more. *)
WalksAlong(parts, f) ==
  /\ f[0] = WalkStart
  /\ \A i \in 1..Len(parts) : f[i] = WalkPart(parts[i], f[i - 1])
  /\ \A i \in 0..Len(parts) : F!fat16_get_directory_entry(SubSeq(parts, 1, i)) = f[i]
  /\ F!fat16_get_directory_entry(parts) = f[Len(parts)]

LEMMA WalkSteps ==
  ASSUME NEW S, NEW parts \in Seq(S)
  PROVE  \E f : WalksAlong(parts, f)
<1>1. PICK n \in Nat : n = Len(parts)
  OBVIOUS
<1>2. PICK f : IsWalk(parts, n, f) /\ F!fat16_get_directory_entry(parts) = f[n]
  BY <1>1, WalkIsWalk
<1>3. \A q, k, g : IsWalk(q, k, g) /\ k \in Nat =>
        g[0] = WalkStart /\ \A i \in 1..k : g[i] = WalkPart(q[i], g[i - 1])
  <2> SUFFICES ASSUME NEW q, NEW k \in Nat, NEW g, IsWalk(q, k, g)
               PROVE  g[0] = WalkStart /\ \A i \in 1..k : g[i] = WalkPart(q[i], g[i - 1])
    OBVIOUS
  <2>1. g[0] = WalkStart
    BY DEF IsWalk
  <2>2. ASSUME NEW i \in 1..k PROVE g[i] = WalkPart(q[i], g[i - 1])
    <3>1. i \in 0..k /\ i # 0
      OBVIOUS
    <3> QED BY <3>1 DEF IsWalk
  <2> QED BY <2>1, <2>2
<1>4. ASSUME NEW k \in 0..n PROVE F!fat16_get_directory_entry(SubSeq(parts, 1, k)) = f[k]
  <2>1. PICK q \in Seq(S) : /\ q = SubSeq(parts, 1, k) /\ Len(q) = k
                            /\ \A i \in 1..k : q[i] = parts[i]
    <3>1. \A i \in 1..k : parts[i] \in S
      BY <1>1
    <3>2. /\ SubSeq(parts, 1, k) \in Seq(S)
          /\ Len(SubSeq(parts, 1, k)) = IF 1 <= k THEN k - 1 + 1 ELSE 0
          /\ \A i \in 1..(k - 1 + 1) : SubSeq(parts, 1, k)[i] = parts[1 + i - 1]
      BY <1>1, <3>1, SubSeqProperties
    <3>3. (IF 1 <= k THEN k - 1 + 1 ELSE 0) = k /\ k - 1 + 1 = k /\ \A i \in 1..k : 1 + i - 1 = i
      BY <1>1
    <3> QED BY <3>2, <3>3
  <2>2. PICK g : IsWalk(q, k, g) /\ F!fat16_get_directory_entry(q) = g[k]
    <3>1. Len(q) \in Nat
      BY <2>1
    <3>2. \E g : IsWalk(q, Len(q), g) /\ F!fat16_get_directory_entry(q) = g[Len(q)]
      BY <3>1, WalkIsWalk
    <3> QED BY <2>1, <3>2
  <2> DEFINE T == {j \in Nat : j <= k => g[j] = f[j]}
  <2>3. 0 \in T
    BY <1>1, <1>2, <1>3, <2>2
  <2>4. ASSUME NEW j \in 0..(k - 1), j \in T PROVE j + 1 \in T
    <3>1. j + 1 \in 1..k /\ j + 1 \in 1..n /\ (j + 1) - 1 = j /\ g[j] = f[j]
      BY <2>4
    <3>2. g[j + 1] = WalkPart(q[j + 1], g[j]) /\ f[j + 1] = WalkPart(parts[j + 1], f[j])
      BY <1>2, <1>3, <2>2, <3>1
    <3> QED BY <2>1, <3>1, <3>2
  <2>5. 0..k \subseteq T
    <3> HIDE DEF T
    <3> QED BY <2>3, <2>4, InductionUpTo
  <2>6. g[k] = f[k]
    BY <2>5
  <2> QED BY <2>1, <2>2, <2>6
<1>5. f[0] = WalkStart /\ \A i \in 1..n : f[i] = WalkPart(parts[i], f[i - 1])
  BY <1>2, <1>3
<1> QED BY <1>1, <1>2, <1>4, <1>5 DEF WalksAlong

(* Below no directory there is nothing. *)
LEMMA DeadEnd ==
  ASSUME NEW S, NEW parts \in Seq(S), NEW f, WalksAlong(parts, f),
         NEW k \in 0..(Len(parts) - 1), f[k].dir = {}
  PROVE  f[Len(parts)].item = {} /\ f[Len(parts)].stream = f[k].stream
<1>1. PICK n \in Nat : n = Len(parts)
  OBVIOUS
<1> DEFINE T == {j \in Nat : j > k /\ j <= n => /\ f[j].item = {} /\ f[j].dir = {}
                                               /\ f[j].stream = f[k].stream}
<1>2. 0 \in T
  OBVIOUS
<1>3. ASSUME NEW j \in 0..(n - 1), j \in T PROVE j + 1 \in T
  <2> SUFFICES ASSUME j + 1 > k
               PROVE  f[j + 1].item = {} /\ f[j + 1].dir = {} /\ f[j + 1].stream = f[k].stream
    OBVIOUS
  <2>1. PICK w : w = f[j] /\ w.dir = {} /\ w.stream = f[k].stream
    <3>1. CASE j = k
      BY <3>1
    <3>2. CASE j > k
      BY <1>3, <3>2
    <3> QED BY <1>1, <3>1, <3>2
  <2>2. f[j + 1] = WalkPart(parts[j + 1], w)
    <3>1. j + 1 \in 1..Len(parts) /\ (j + 1) - 1 = j
      BY <1>1
    <3> QED BY <2>1, <3>1 DEF WalksAlong
  <2>3. ASSUME NEW part PROVE /\ WalkPart(part, w).item = {} /\ WalkPart(part, w).dir = {}
                              /\ WalkPart(part, w).stream = w.stream
    BY <2>1 DEF WalkPart
  <2> QED BY <2>1, <2>2, <2>3
<1>4. 0..n \subseteq T
  <2> HIDE DEF T
  <2> QED BY <1>2, <1>3, InductionUpTo
<1>5. n \in T /\ n > k
  BY <1>1, <1>4
<1> QED BY <1>1, <1>5

(* What one part finds in one directory. *)
LEMMA PartFinds ==
  ASSUME vol \in Volumes, NEW d \in Directories, NEW part, NEW w, w.dir = {d}
  PROVE  LET hits == F!Hits(d, part)
             next == WalkPart(part, w)
         IN /\ hits = {} => next.item = {} /\ next.dir = {}
            /\ hits # {} => /\ next.item = {d[Max(hits)]}
                            /\ d[Max(hits)].dir => next.dir = {vol.dirs[d[Max(hits)].first]}
                            /\ ~d[Max(hits)].dir => next.dir = {}
            /\ next.stream = Loaded(d, {j \in hits : d[j].dir}, w.stream)
<1> DEFINE hits == F!Hits(d, part)
           found == F!fat16_find_item_in_directory(d, part)
<1>1. hits # {} => Max(hits) \in hits /\ \A k \in hits : k <= Max(hits)
  BY HitsBounded
<1>2. hits \in SUBSET Nat
  BY HitsBounded
<1>3. found = {d[i] : i \in {j \in hits : \A k \in hits : k <= j}}
  BY DEF F!fat16_find_item_in_directory
<1> HIDE DEF hits, found
<1>4. hits = {} => found = {}
  BY <1>3
<1>5. hits # {} => found = {d[Max(hits)]}
  <2> SUFFICES ASSUME hits # {} PROVE {j \in hits : \A k \in hits : k <= j} = {Max(hits)}
    BY <1>3
  <2>1. PICK m \in hits : m = Max(hits) /\ m \in Nat /\ \A k \in hits : k <= m
    BY <1>1, <1>2
  <2>2. \A j \in hits : (\A k \in hits : k <= j) => j = m
    <3> SUFFICES ASSUME NEW j \in hits, \A k \in hits : k <= j PROVE j = m
      OBVIOUS
    <3>1. m <= j /\ j <= m /\ j \in Nat
      BY <1>2, <2>1
    <3> QED BY <2>1, <3>1
  <2> QED BY <2>1, <2>2
<1>6. WalkPart(part, w).item = found
  BY DEF WalkPart, found
<1>7. WalkPart(part, w).dir = {vol.dirs[e.first] : e \in {x \in found : x.dir}}
  BY DEF WalkPart, found
<1>8. WalkPart(part, w).stream = F!fat16_load_fat_directory(d, part, w.stream)
  <2>1. (CHOOSE x \in {d} : TRUE) = d /\ {d} # {}
    OBVIOUS
  <2> QED BY <2>1 DEF WalkPart
<1>9. F!fat16_load_fat_directory(d, part, w.stream) = Loaded(d, {j \in hits : d[j].dir}, w.stream)
  BY SameOperators DEF F!fat16_load_fat_directory, Loaded, hits
<1> QED BY <1>4, <1>5, <1>6, <1>7, <1>8, <1>9 DEF hits

-----------------------------------------------------------------------------
(* What the variables of Files see of a step. *)

ItemOf(d) == mem[mem[mem[d].private].ptr].entry

OpenItems == [fd \in 1..MaxFd |-> IF file_descriptors[fd] = NULL THEN [pos |-> -1]
                                  ELSE [item |-> ItemOf(file_descriptors[fd]), pos |-> 0]]

LEMMA OpenItemsEntry ==
  ASSUME NEW fd \in 1..MaxFd
  PROVE  OpenItems[fd] = [pos |-> -1] <=> file_descriptors[fd] = NULL
<1>1. CASE file_descriptors[fd] = NULL
  BY <1>1 DEF OpenItems
<1>2. CASE file_descriptors[fd] # NULL
  <2>1. OpenItems[fd] = [item |-> ItemOf(file_descriptors[fd]), pos |-> 0]
    BY <1>2 DEF OpenItems
  <2>2. OpenItems[fd].pos = 0
    BY <2>1
  <2>3. [pos |-> -1].pos # 0
    OBVIOUS
  <2> QED BY <1>2, <2>2, <2>3
<1> QED BY <1>1, <1>2

(* The descriptor that file_new_descriptor of Files takes. *)
LEMMA SameFree == F!file_new_descriptor = FreeFd
<1>1. F!file_new_descriptor = {fd \in 1..MaxFd : /\ OpenItems[fd] = [pos |-> -1]
                                                /\ \A g \in 1..(fd - 1) : OpenItems[g] # [pos |-> -1]}
  BY DEF F!file_new_descriptor, F!NoFile, OpenItems, ItemOf
<1>2. \A fd \in 1..MaxFd : 1..(fd - 1) \subseteq 1..MaxFd
  BY FileBlocksAssumption
<1>3. \A fd \in 1..MaxFd : (OpenItems[fd] = [pos |-> -1]) <=> (file_descriptors[fd] = NULL)
  BY OpenItemsEntry
<1>4. ASSUME NEW fd \in 1..MaxFd
      PROVE  (\A g \in 1..(fd - 1) : OpenItems[g] # [pos |-> -1]) <=> (\A g \in 1..(fd - 1) : file_descriptors[g] # NULL)
  BY <1>2, <1>3, Zenon
<1> QED BY <1>1, <1>3, <1>4 DEF FreeFd

LEMMA NothingSeen ==
  ASSUME UNCHANGED <<vol, ret, last>>, OpenItems' = OpenItems, AbsStream' = AbsStream
  PROVE  UNCHANGED F!vars
  BY DEF F!vars, OpenItems, ItemOf, AbsStream

LEMMA SeenRejected ==
  ASSUME NEW path, NEW mode, ~F!Openable(path, mode), vol' = vol, ret' = 0, last' = F!NoCall,
         OpenItems' = OpenItems, AbsStream' = AbsStream
  PROVE  F!fopen_rejected(path, mode)
  BY DEF F!fopen_rejected, OpenItems, ItemOf, AbsStream

LEMMA SeenOpen ==
  ASSUME NEW path, NEW mode, F!Openable(path, mode), vol' = vol,
         last' = [call |-> "fopen", fd |-> ret', path |-> path],
         NEW walk, walk = F!fat16_get_directory_entry(F!pathparser_parse(path.parts)),
         AbsStream' = walk.stream,
         \/ /\ walk.item = {} \/ FreeFd = {}
            /\ ret' = 0 /\ OpenItems' = OpenItems
         \/ \E item, fd : /\ walk.item = {item} /\ FreeFd = {fd} /\ ret' = fd
                          /\ OpenItems' = [OpenItems EXCEPT ![fd] = [item |-> item, pos |-> 0]]
  PROVE  F!fopen(path, mode)
<1> DEFINE ok == walk.item # {} /\ F!file_new_descriptor # {}
           fd == CHOOSE f \in F!file_new_descriptor : TRUE
           item == CHOOSE e \in walk.item : TRUE
<1>1. /\ F!Openable(path, mode) /\ vol' = vol
      /\ AbsStream' = walk.stream
      /\ ret' = IF ok THEN fd ELSE 0
      /\ OpenItems' = IF ok THEN [OpenItems EXCEPT ![fd] = [item |-> item, pos |-> 0]] ELSE OpenItems
      /\ last' = [call |-> "fopen", fd |-> ret', path |-> path]
      => F!fopen(path, mode)
  BY ZenonT(60) DEF F!fopen, OpenItems, ItemOf, AbsStream
<1>2. CASE walk.item = {} \/ FreeFd = {}
  BY <1>1, <1>2, SameFree
<1>3. ASSUME NEW x, NEW g, walk.item = {x}, FreeFd = {g}, ret' = g,
             OpenItems' = [OpenItems EXCEPT ![g] = [item |-> x, pos |-> 0]]
      PROVE  F!fopen(path, mode)
  <2>1. ok /\ fd = g /\ item = x
    BY <1>3, SameFree
  <2> HIDE DEF ok, fd, item
  <2> QED BY <1>1, <1>3, <2>1
<1> QED BY <1>2, <1>3

LEMMA SeenClosed ==
  ASSUME NEW fd \in 0..MaxFd, vol' = vol, AbsStream' = AbsStream, last' = [F!NoCall EXCEPT !.fd = fd],
         IF file_get_descriptor(fd) = NULL THEN ret' = F!EIO /\ OpenItems' = OpenItems
         ELSE ret' = 0 /\ OpenItems' = [OpenItems EXCEPT ![fd] = [pos |-> -1]]
  PROVE  F!fclose(fd)
<1>1. F!file_get_descriptor(fd) = F!NoFile <=> file_get_descriptor(fd) = NULL
  <2>1. F!file_get_descriptor(fd) = IF fd <= 0 \/ fd >= MaxFd THEN F!NoFile ELSE OpenItems[fd]
    BY DEF F!file_get_descriptor, OpenItems, ItemOf
  <2>2. F!NoFile = [pos |-> -1]
    BY DEF F!NoFile
  <2>3. CASE fd <= 0 \/ fd >= MaxFd
    BY <2>1, <2>3 DEF file_get_descriptor
  <2>4. CASE ~(fd <= 0 \/ fd >= MaxFd)
    <3>1. fd \in 1..MaxFd
      BY <2>4, FileBlocksAssumption
    <3> QED BY <2>1, <2>2, <2>4, <3>1, OpenItemsEntry DEF file_get_descriptor
  <2> QED BY <2>3, <2>4
<1>2. /\ AbsStream' = AbsStream /\ vol' = vol
      /\ ret' = IF F!file_get_descriptor(fd) = F!NoFile THEN F!EIO ELSE 0
      /\ OpenItems' = IF F!file_get_descriptor(fd) = F!NoFile THEN OpenItems
                      ELSE [OpenItems EXCEPT ![fd] = F!NoFile]
      /\ last' = [F!NoCall EXCEPT !.fd = fd]
      => F!fclose(fd)
  BY DEF F!fclose, OpenItems, ItemOf, AbsStream
<1> QED BY <1>1, <1>2 DEF F!NoFile

-----------------------------------------------------------------------------
(* What does not change with the heap. *)

(* Blocks are filled that were free, and links set that were NULL. *)
MemGrows == \A b \in Taken : mem'[b].entry = mem[b].entry /\ (Child(b) \in Block => mem'[b] = mem[b])

LEMMA ItemsKept ==
  ASSUME StateOK, Intact, MemGrows
  PROVE  \A fd \in 1..MaxFd : file_descriptors[fd] # NULL =>
           mem'[mem'[mem'[file_descriptors[fd]].private].ptr].entry = ItemOf(file_descriptors[fd])
<1> SUFFICES ASSUME NEW d, Opened(d)
             PROVE  mem'[mem'[mem'[d].private].ptr].entry = mem[mem[mem[d].private].ptr].entry
  BY DEF Intact, DescriptorsInv, ItemOf
<1>1. PICK p : p = Child(d) /\ p \in Block /\ p = mem[d].private /\ d \in Taken
  BY DEF Opened, Child
<1>2. p \in Taken /\ mem[p].kind = "fat_file_descriptor"
  BY <1>1 DEF Intact, Trees, Fits, Opened
<1>3. PICK x : x = Child(p) /\ x \in Taken /\ x = mem[p].ptr
  BY <1>1, <1>2 DEF Opened, Complete, IsItem, Child
<1>4. x \in Block
  BY <1>3 DEF Taken
<1>5. mem'[d] = mem[d] /\ mem'[p] = mem[p] /\ mem'[x].entry = mem[x].entry
  BY <1>1, <1>2, <1>3, <1>4 DEF MemGrows
<1> QED BY <1>1, <1>3, <1>5

LEMMA OpenItemsKept ==
  ASSUME StateOK, Intact, MemGrows, UNCHANGED file_descriptors
  PROVE  OpenItems' = OpenItems
<1>1. \A fd \in 1..MaxFd : file_descriptors[fd] # NULL => ItemOf(file_descriptors[fd])' = ItemOf(file_descriptors[fd])
  BY ItemsKept DEF ItemOf
<1> QED BY <1>1 DEF OpenItems

LEMMA WalkKept ==
  ASSUME vol' = vol, AbsStream' = AbsStream
  PROVE  /\ \A ps : F!fat16_get_directory_entry(ps)' = F!fat16_get_directory_entry(ps)
         /\ \A d, name : F!Hits(d, name)' = F!Hits(d, name)
         /\ \A d, S, s : Loaded(d, S, s)' = Loaded(d, S, s)
         /\ \A p, m : F!Openable(p, m)' <=> F!Openable(p, m)
         /\ Directories' = Directories
<1>1. \A ps : F!fat16_get_directory_entry(ps)' = F!fat16_get_directory_entry(ps)
  <2>1. \A ps : F!fat16_get_directory_entry(ps) = (CHOOSE f : IsWalk(ps, Len(ps), f))[Len(ps)]
    BY DEF F!fat16_get_directory_entry, IsWalk, WalkPart, WalkStart, AbsStream
  <2>2. \A ps : F!fat16_get_directory_entry(ps)' = (CHOOSE f : IsWalk(ps, Len(ps), f)')[Len(ps)]
    BY DEF F!fat16_get_directory_entry, IsWalk, WalkPart, WalkStart, AbsStream
  <2>3. \A p, w : WalkPart(p, w)' = WalkPart(p, w)
    BY DEF WalkPart, F!fat16_find_item_in_directory, F!Hits, F!fat16_load_fat_directory, F!fat16_get_total_items_for_directory, F!fat16_cluster_to_sector
  <2>4. \A ps, n, f : IsWalk(ps, n, f)' <=> IsWalk(ps, n, f)
    BY <2>3 DEF IsWalk, WalkStart
  <2> QED BY <2>1, <2>2, <2>4
<1>2. \A d, name : F!Hits(d, name)' = F!Hits(d, name)
  BY DEF F!Hits, F!fat16_get_total_items_for_directory
<1>3. \A d, S, s : Loaded(d, S, s)' = Loaded(d, S, s)
  BY DEF Loaded, F!fat16_get_total_items_for_directory, F!fat16_cluster_to_sector
<1>4. \A p, m : F!Openable(p, m)' <=> F!Openable(p, m)
  BY DEF F!Openable, F!pathparser_parse
<1>5. Directories' = Directories
  BY DEF Directories
<1> QED BY <1>1, <1>2, <1>3, <1>4, <1>5

-----------------------------------------------------------------------------
(* Every step of fopen stays on the walk, and Files sees nothing of it. *)

LEMMA StreamSeen ==
  /\ call.pc \in Steps => AbsStream = call.stream
  /\ call.pc = "idle" => AbsStream = stream
  /\ call'.pc \in Steps => AbsStream' = call'.stream
  /\ call'.pc = "idle" => AbsStream' = stream'
  BY DEF AbsStream, Steps, Mounting

LEMMA GotoRest ==
  ASSUME StateOK, call.pc \in Steps, NEW pc, call' = [call EXCEPT !.pc = pc]
  PROVE  /\ call'.pc = pc /\ call'.path = call.path /\ call'.mode = call.mode
         /\ call'.parts = call.parts /\ call'.depth = call.depth
         /\ call'.current_item = call.current_item /\ call'.f_item = call.f_item
         /\ call'.i = call.i /\ call'.stream = call.stream
  BY DEF StateOK, CallOK, IsOpen

(* A new block touches none that was taken. *)
LEMMA AllocGrows ==
  ASSUME StateOK, Intact, kzalloc, ~no_block',
         NEW s, s.ptr \in {NULL, WILD}, s.private = WILD, mem' = Filled(s)
  PROVE  MemGrows /\ \A b \in Taken : mem'[b] = mem[b]
<1>1. PICK n : n = New
  OBVIOUS
<1>2. \A b \in Taken : mem'[b] = mem[b]
  BY <1>1, AllocTrees DEF Intact
<1> QED BY <1>2 DEF MemGrows

(* The parts of every path that fopen may be given. *)
LEMMA PathParts ==
  ASSUME \E o \in Opens : call.path = o.path /\ call.mode = o.mode
  PROVE  \E S : call.path.parts \in Seq(S)
  BY DisksAssumption

LEMMA ParseKept == \A parts : F!pathparser_parse(parts)' = F!pathparser_parse(parts)
  BY DEF F!pathparser_parse

LEMMA AppendPart ==
  ASSUME NEW S, NEW parts \in Seq(S), NEW k \in 0..(Len(parts) - 1)
  PROVE  /\ Append(SubSeq(parts, 1, k), parts[k + 1]) = SubSeq(parts, 1, k + 1)
         /\ Len(SubSeq(parts, 1, k + 1)) = k + 1
<1>1. PICK n \in Nat : n = Len(parts)
  OBVIOUS
<1>2. /\ SubSeq(parts, 1, k) \in Seq(S) /\ Len(SubSeq(parts, 1, k)) = k
      /\ \A i \in 1..k : SubSeq(parts, 1, k)[i] = parts[i]
  OBVIOUS
<1>3. /\ SubSeq(parts, 1, k + 1) \in Seq(S) /\ Len(SubSeq(parts, 1, k + 1)) = k + 1
      /\ \A i \in 1..(k + 1) : SubSeq(parts, 1, k + 1)[i] = parts[i]
  OBVIOUS
<1>4. PICK q \in Seq(S), r \in Seq(S), e \in S :
        q = SubSeq(parts, 1, k) /\ r = SubSeq(parts, 1, k + 1) /\ e = parts[k + 1]
  <2>1. parts[k + 1] \in S
    BY <1>1
  <2> QED BY <1>2, <1>3, <2>1
<1>5. Len(q) = k /\ Len(r) = k + 1 /\ (\A i \in 1..k : q[i] = r[i]) /\ r[k + 1] = e
  BY <1>2, <1>3, <1>4
<1>6. Append(q, e) = r
  <2>1. Append(q, e) \in Seq(S) /\ Len(Append(q, e)) = Len(r)
    BY <1>5
  <2>2. \A i \in 1..Len(r) : Append(q, e)[i] = r[i]
    BY <1>5
  <2> QED BY <2>1, <2>2, SeqEqual
<1> QED BY <1>3, <1>4, <1>6

(* The path is parsed. *)
LEMMA PathTracks ==
  ASSUME StateOK, BlocksInv, RefineInv, ~no_block',
         pathparser_create_root \/ pathparser_get_path_part \/ path_end \/ pathparser_parse_path_part
  PROVE  TracksInv' /\ UNCHANGED F!vars
<1>0. /\ call.pc \in {"root", "string", "part"} /\ Keeps
      /\ \/ kzalloc /\ mem' = Filled(Struct("path", WILD))
         \/ mem' = Filled(Cleared) /\ UNCHANGED avail /\ no_block' = (no_block \/ New = NULL)
  BY DEF pathparser_create_root, pathparser_get_path_part, path_end, pathparser_parse_path_part
<1>1. ~no_block /\ New # NULL /\ Intact /\ PathInv /\ call.pc \in Steps /\ call.pc \notin Walking
  <2>1. ~no_block /\ New # NULL
    <3>1. CASE kzalloc
      BY <3>1, Allocates
    <3>2. CASE no_block' = (no_block \/ New = NULL)
      BY <3>2 DEF StateOK
    <3> QED BY <1>0, <3>1, <3>2
  <2>2. call.pc \in Steps /\ call.pc \notin Walking
    BY <1>0 DEF Steps, Walking
  <2> QED BY <2>1, <2>2 DEF BlocksInv, RefineInv, TracksInv
<1>2. MemGrows
  <2>1. CASE kzalloc /\ mem' = Filled(Struct("path", WILD))
    <3>1. PICK s : s = Struct("path", WILD)
      OBVIOUS
    <3>2. s.ptr = WILD /\ s.private = WILD
      BY <3>1 DEF Struct
    <3> QED BY <1>1, <2>1, <3>1, <3>2, AllocGrows
  <2>2. CASE mem' = Filled(Cleared) /\ UNCHANGED avail
    <3>1. PICK n, s : n = New /\ s = Cleared
      OBVIOUS
    <3>2. n \in avail /\ n \in Block /\ mem' = [mem EXCEPT ![n] = s]
      BY <1>1, <2>2, <3>1, NewBlock DEF StateOK, Filled
    <3>3. \A b \in Taken : mem'[b] = mem[b]
      BY <3>2 DEF Taken, StateOK, MemOK
    <3> QED BY <3>3 DEF MemGrows
  <2> QED BY <1>0, <2>1, <2>2
<1>3. OpenItems' = OpenItems
  BY <1>0, <1>1, <1>2, OpenItemsKept DEF Keeps
<1>4. PICK k, q, S : /\ k = Len(call.parts) /\ q = call.path.parts /\ q \in Seq(S)
                     /\ k \in 0..Len(q) /\ call.parts = SubSeq(q, 1, k)
                     /\ \A j \in 1..k : q[j] # NoName
                     /\ call.pc = "part" => k < Len(q) /\ q[k + 1] # NoName
  BY <1>0, <1>1, PathParts DEF PathInv
<1>5. PathPart = IF k = Len(q) THEN NoName ELSE q[k + 1]
  BY <1>4, Zenon DEF PathPart, NoName
(* Where the call goes next, and the parts it has then. *)
<1>6. ASSUME /\ call'.path = call.path /\ call'.mode = call.mode /\ call'.i = call.i
             /\ call'.stream = call.stream /\ UNCHANGED <<ret, last>>
             /\ call'.pc \in {"string", "part", "args"}
             /\ IF call'.pc = "args" THEN call'.parts = F!pathparser_parse(q)
                ELSE \E j \in 0..Len(q) :
                       /\ call'.parts = SubSeq(q, 1, j) /\ Len(call'.parts) = j
                       /\ \A l \in 1..j : q[l] # NoName
                       /\ call'.pc = "part" => j < Len(q) /\ q[j + 1] # NoName
      PROVE  TracksInv' /\ UNCHANGED F!vars
  <2>1. call'.pc \in Steps /\ call'.pc \notin Walking
    BY <1>6 DEF Steps, Walking
  <2>2. AbsStream' = AbsStream /\ vol' = vol
    BY <1>0, <1>1, <1>6, <2>1, StreamSeen DEF Keeps
  <2>3. UNCHANGED F!vars
    BY <1>3, <1>6, <2>2, NothingSeen
  <2>4. (\E o \in Opens : call.path = o.path /\ call.mode = o.mode)'
    BY <1>1, <1>6 DEF PathInv
  <2>5. stream' = call'.stream /\ call'.i = 1
    BY <1>0, <1>1, <1>6 DEF PathInv, Keeps
  <2>6. CASE call'.pc = "args"
    <3>1. call'.parts = F!pathparser_parse(call.path.parts)'
      BY <1>4, <1>6, <2>6, ParseKept
    <3>2. call'.pc \notin {"root", "string", "part"}
      BY <2>6
    <3>3. PathInv'
      BY <2>4, <2>5, <3>1, <3>2 DEF PathInv
    <3> QED BY <2>1, <2>3, <3>3 DEF TracksInv
  <2>7. CASE call'.pc # "args"
    <3>1. call'.pc \in {"root", "string", "part"}
      BY <1>6, <2>7
    <3>2. PICK j \in 0..Len(q) : /\ call'.parts = SubSeq(q, 1, j) /\ Len(call'.parts) = j
                                 /\ \A l \in 1..j : q[l] # NoName
                                 /\ call'.pc = "part" => j < Len(q) /\ q[j + 1] # NoName
      BY <1>6, <2>7
    <3>3. call'.path.parts = q
      BY <1>4, <1>6
    <3>4. PathInv'
      BY <2>4, <2>5, <3>1, <3>2, <3>3 DEF PathInv
    <3> QED BY <2>1, <2>3, <3>4 DEF TracksInv
  <2> QED BY <2>6, <2>7
<1>7. CASE pathparser_create_root
  <2>1. call.pc = "root" /\ Goto("string")
    BY <1>1, <1>7 DEF pathparser_create_root
  <2>2. call' = [call EXCEPT !.pc = "string"] /\ UNCHANGED <<ret, last>>
    BY <2>1 DEF Goto
  <2> QED BY <1>1, <1>4, <1>6, <2>2, GotoRest
<1>8. CASE pathparser_get_path_part
  <2>1. call.pc = "string" /\ Goto("part") /\ PathPart # NoName
    <3>1. PathPart # NoName
      BY <1>8, Zenon DEF pathparser_get_path_part, NoName
    <3> QED BY <1>1, <1>8, <3>1 DEF pathparser_get_path_part
  <2>2. call' = [call EXCEPT !.pc = "part"] /\ UNCHANGED <<ret, last>>
    BY <2>1 DEF Goto
  <2>3. k < Len(q) /\ q[k + 1] # NoName
    BY <1>4, <1>5, <2>1
  <2> QED BY <1>1, <1>4, <1>6, <2>2, <2>3, GotoRest
<1>9. CASE path_end
  <2>1. Goto("args") /\ PathPart = NoName
    <3>1. PathPart = NoName
      BY <1>9, Zenon DEF path_end, NoName
    <3> QED BY <1>9, <3>1 DEF path_end
  <2>2. call' = [call EXCEPT !.pc = "args"] /\ UNCHANGED <<ret, last>>
    BY <2>1 DEF Goto
  <2>3. k < Len(q) => q[k + 1] = NoName
    BY <1>5, <2>1
  <2>4. call.parts = F!pathparser_parse(q)
    <3>1. FirstParts(q, NoName) = SubSeq(q, 1, k)
      BY <1>4, <2>3, ParseStops
    <3> QED BY <1>4, <3>1, ParseFirst
  <2> QED BY <1>1, <1>6, <2>2, <2>4, GotoRest
<1>10. CASE pathparser_parse_path_part
  <2>1. PICK y : y = Append(call.parts, PathPart)
    OBVIOUS
  <2>2. /\ call.pc = "part" /\ call' = [call EXCEPT !.pc = "string", !.parts = y]
        /\ UNCHANGED <<ret, last>>
    BY <1>1, <1>10, <2>1 DEF pathparser_parse_path_part
  <2>3. /\ call'.path = call.path /\ call'.mode = call.mode /\ call'.i = call.i
        /\ call'.stream = call.stream /\ call'.pc = "string" /\ call'.parts = y
    BY <1>1, <2>2 DEF StateOK, CallOK, IsOpen
  <2>4. k + 1 \in 0..Len(q) /\ k \in 0..(Len(q) - 1) /\ PathPart = q[k + 1] /\ q[k + 1] # NoName
    BY <1>4, <1>5, <2>2
  <2>5. y = SubSeq(q, 1, k + 1) /\ Len(y) = k + 1
    BY <1>4, <2>1, <2>4, AppendPart
  <2>6. \A l \in 1..(k + 1) : q[l] # NoName
    BY <1>4, <2>4
  <2> QED BY <1>6, <2>2, <2>3, <2>4, <2>5, <2>6
<1> QED BY <1>7, <1>8, <1>9, <1>10

(* fopen begins, with no part read. *)
LEMMA FopenTracks ==
  ASSUME StateOK, BlocksInv, RefineInv, ~no_block', NEW o \in Opens, fopen(o.path, o.mode)
  PROVE  TracksInv' /\ UNCHANGED F!vars
<1>1. /\ call.pc = "idle" /\ call'.pc = "root" /\ call'.path = o.path /\ call'.mode = o.mode
      /\ call'.parts = <<>> /\ call'.i = 1 /\ call'.stream = stream
      /\ UNCHANGED <<ret, last, vol, file_descriptors, stream, mem, avail, no_block>>
  BY DEF fopen, Idle, heapVars, Keeps
<1>2. OpenItems' = OpenItems
  BY <1>1 DEF OpenItems, ItemOf
<1>3. AbsStream' = AbsStream
  <2>1. call'.pc \in Steps
    BY <1>1 DEF Steps
  <2> QED BY <1>1, <2>1, StreamSeen
<1>4. UNCHANGED F!vars
  BY <1>1, <1>2, <1>3, NothingSeen
<1>5. PICK q, S : q = o.path.parts /\ q \in Seq(S)
  BY DisksAssumption
<1>6. SubSeq(q, 1, 0) = <<>> /\ Len(<<>>) = 0 /\ 0 \in 0..Len(q)
  BY <1>5
<1>7. PathInv'
  <2>1. (\E x \in Opens : call.path = x.path /\ call.mode = x.mode)'
    BY <1>1
  <2>2. call'.path.parts = q
    BY <1>1, <1>5
  <2> QED BY <1>1, <1>6, <2>1, <2>2 DEF PathInv
<1> QED BY <1>1, <1>4, <1>7 DEF TracksInv, Walking

(* The parts of the walk are those that Files walks along. *)
LEMMA ArgsParts ==
  ASSUME PathInv, call.pc \in Steps, call.pc \notin {"root", "string", "part"}
  PROVE  /\ call.parts = F!pathparser_parse(call.path.parts)
         /\ \E S : call.parts \in Seq(S)
<1>1. call.parts = F!pathparser_parse(call.path.parts)
  BY DEF PathInv
<1>2. PICK S, q : q = call.path.parts /\ q \in Seq(S)
  BY PathParts DEF PathInv
<1>3. FirstParts(q, NoName) \in Seq(S)
  BY <1>2, ParseParts
<1> QED BY <1>1, <1>2, <1>3, ParseFirst

LEMMA OpenableThere ==
  ASSUME PathInv, call.pc = "args", filesystem
  PROVE  Openable <=> F!Openable(call.path, call.mode)
<1>1. call.parts = F!pathparser_parse(call.path.parts)
  BY ArgsParts DEF Steps
<1> QED BY <1>1 DEF Openable, F!Openable

LEMMA RejectTracks ==
  ASSUME StateOK, BlocksInv, RefineInv, ~no_block', open_rejected, filesystem
  PROVE  \E o \in Opens : F!fopen_rejected(o.path, o.mode)
<1>1. /\ call.pc = "args" /\ ~Openable /\ call' = Idle /\ ret' = 0 /\ last' = F!NoCall
      /\ UNCHANGED <<vol, file_descriptors, stream, mem, avail, no_block>>
  BY DEF open_rejected, Return, heapVars, Keeps
<1>2. PathInv /\ call.pc \in Steps /\ call.pc \notin Walking
  BY <1>1 DEF RefineInv, TracksInv, Steps, Walking
<1>3. PICK o \in Opens : call.path = o.path /\ call.mode = o.mode
  BY <1>2 DEF PathInv
<1>4. ~F!Openable(o.path, o.mode)
  BY <1>1, <1>2, <1>3, OpenableThere
<1>5. OpenItems' = OpenItems
  BY <1>1 DEF OpenItems, ItemOf
<1>6. AbsStream' = AbsStream
  <2>1. call'.pc = "idle"
    BY <1>1 DEF Idle
  <2>2. stream = call.stream
    BY <1>2 DEF PathInv
  <2> QED BY <1>1, <1>2, <2>1, <2>2, StreamSeen
<1>7. F!fopen_rejected(o.path, o.mode)
  BY <1>1, <1>4, <1>5, <1>6, SeenRejected
<1> QED BY <1>7

(* The search of the root directory begins. *)
LEMMA OpenTracks ==
  ASSUME StateOK, BlocksInv, RefineInv, ~no_block', fat16_open
  PROVE  TracksInv' /\ UNCHANGED F!vars
<1>1. /\ call.pc = "args" /\ Openable /\ kzalloc /\ Keeps
      /\ mem' = Filled(Struct("fat_file_descriptor", NULL))
  BY DEF fat16_open
<1>2. New # NULL /\ ~no_block /\ Intact /\ PathInv /\ call.pc \in Steps /\ call.pc \notin Walking
  <2>1. New # NULL /\ ~no_block
    BY <1>1, Allocates
  <2>2. call.pc \in Steps /\ call.pc \notin Walking
    BY <1>1 DEF Steps, Walking
  <2> QED BY <2>1, <2>2 DEF RefineInv, TracksInv, BlocksInv
<1>3. call' = [call EXCEPT !.pc = "search", !.descriptor = New] /\ UNCHANGED <<ret, last>>
  BY <1>2 DEF fat16_open
<1>4. /\ call'.pc = "search" /\ call'.path = call.path /\ call'.mode = call.mode
      /\ call'.parts = call.parts /\ call'.depth = call.depth /\ call'.f_item = call.f_item
      /\ call'.i = call.i /\ call'.stream = call.stream
  BY <1>2, <1>3 DEF StateOK, CallOK, IsOpen
<1>5. call.depth = 1 /\ call.f_item = NULL /\ call.i = 1 /\ stream = call.stream
  BY <1>2 DEF Intact, WalkInv, PathInv
<1>6. call'.pc \in Steps /\ vol' = vol /\ AbsStream' = AbsStream
  <2>1. call'.pc \in Steps /\ vol' = vol
    BY <1>1, <1>4 DEF Steps, Keeps
  <2> QED BY <1>2, <1>4, <2>1, StreamSeen
<1>7. UNCHANGED F!vars
  <2>1. PICK s : s = Struct("fat_file_descriptor", NULL)
    OBVIOUS
  <2>2. s.ptr = NULL /\ s.private = WILD
    BY <2>1 DEF Struct
  <2>3. MemGrows
    BY <1>1, <1>2, <2>1, <2>2, AllocGrows
  <2>4. OpenItems' = OpenItems
    BY <1>1, <1>2, <2>3, OpenItemsKept DEF Keeps
  <2> QED BY <1>3, <1>6, <2>4, NothingSeen
<1>8. PICK parts, S : parts = call.parts /\ parts \in Seq(S) /\ parts = F!pathparser_parse(call.path.parts)
  BY <1>1, <1>2, ArgsParts
<1>9. PathInv'
  <2>1. (\E o \in Opens : call.path = o.path /\ call.mode = o.mode)'
    BY <1>2, <1>4 DEF PathInv
  <2>2. call'.parts = F!pathparser_parse(call.path.parts)'
    BY <1>4, <1>8, ParseKept
  <2> QED BY <1>4, <2>1, <2>2 DEF PathInv, Walking
<1>10. filesystem' /\ F!Openable(call.path, call.mode)' /\ call'.depth \in 1..Len(call'.parts)
  <2>1. filesystem /\ filesystem' /\ parts # <<>>
    BY <1>1, <1>8 DEF Openable, Keeps
  <2>2. F!Openable(call.path, call.mode)
    BY <1>1, <1>2, <2>1, OpenableThere
  <2>3. F!Openable(call.path, call.mode)'
    BY <1>4, <1>6, <2>2, WalkKept
  <2>4. Len(parts) \in Nat \ {0}
    BY <1>8, <2>1
  <2> QED BY <1>4, <1>5, <1>8, <2>1, <2>3, <2>4
<1>11. PICK f : WalksAlong(parts, f)
  BY <1>8, WalkSteps
<1>12. WalkTo(call.depth - 1)' = WalkStart
  <2>1. F!fat16_get_directory_entry(SubSeq(parts, 1, 0)) = f[0] /\ f[0] = WalkStart
    BY <1>8, <1>11 DEF WalksAlong
  <2>2. call'.depth - 1 = 0
    BY <1>4, <1>5
  <2>3. WalkTo(call.depth - 1)' = F!fat16_get_directory_entry(SubSeq(parts, 1, 0))'
    BY <1>4, <1>8, <2>2 DEF WalkTo
  <2>4. F!fat16_get_directory_entry(SubSeq(parts, 1, 0))' = F!fat16_get_directory_entry(SubSeq(parts, 1, 0))
    BY <1>6, WalkKept
  <2> QED BY <2>1, <2>3, <2>4
<1>13. Directory' = vol.root /\ vol.root \in Directories /\ vol \in Volumes
  BY <1>4, <1>5, <1>6 DEF Directory, Directories, RefineInv
<1>14. Seen' = {} /\ Built' = {}
  <2>1. PICK d, H : d = Directory' /\ H = Matches' /\ H = F!Hits(d, call'.parts[call'.depth])
    <3>1. Matches' = F!Hits(Directory', call'.parts[call'.depth])
      BY DEF Matches, F!Hits, F!fat16_get_total_items_for_directory
    <3> QED BY <3>1
  <2>2. H \in SUBSET (1..Len(d)) /\ Len(d) \in Nat
    BY <1>13, <2>1, HitsBounded
  <2>3. Seen' = {j \in H : j < 1}
    BY <1>4, <1>5, <2>1 DEF Seen
  <2>4. Seen' = {}
    <3>1. \A j \in H : ~(j < 1)
      BY <2>2
    <3> QED BY <2>3, <3>1
  <2> QED BY <1>4, <2>4 DEF Built
<1>15. SearchInv'
  <2>1. (Directory \in Directories)' /\ WalkTo(call.depth - 1)'.dir = {Directory'}
    BY <1>6, <1>12, <1>13, WalkKept DEF WalkStart
  <2>2. WalkTo(call.depth - 1)'.stream = stream'
    BY <1>1, <1>2, <1>5, <1>12, StreamSeen DEF WalkStart, Keeps
  <2>3. {j \in Built' : Directory'[j].dir} = {}
    BY <1>14
  <2>4. (Loaded(Directory, {j \in Built : Directory[j].dir}, WalkTo(call.depth - 1).stream))' = stream'
    BY <2>2, <2>3 DEF Loaded
  <2> QED BY <1>4, <1>5, <1>14, <2>1, <2>4 DEF SearchInv
<1> QED BY <1>4, <1>7, <1>9, <1>10, <1>15 DEF TracksInv, Walking

(* The greatest element, when it is known. *)
LEMMA MaxIs ==
  ASSUME NEW b \in Nat, NEW S \in SUBSET (0..b), NEW m \in S, \A k \in S : k <= m
  PROVE  Max(S) = m
<1>1. PICK x \in S : x = Max(S) /\ m <= x
  BY MaxIsGreatest
<1>2. x <= m /\ x \in Nat /\ m \in Nat
  OBVIOUS
<1> QED BY <1>1, <1>2

Searching == {"search", "directory", "items", "clone"}

(* A step inside the search of one directory. *)
SearchStep ==
  /\ call.pc \in Searching /\ call'.pc \in Searching /\ MemGrows
  /\ UNCHANGED <<vol, filesystem, file_descriptors, ret, last>>
  /\ call'.path = call.path /\ call'.mode = call.mode /\ call'.parts = call.parts
  /\ call'.depth = call.depth /\ call'.current_item = call.current_item /\ call'.stream = call.stream

(* The directory searched, the matches in it, and where Files stands. *)
SearchView(d, H, w) ==
  /\ d = Directory /\ H = Matches /\ w = WalkTo(call.depth - 1)
  /\ d \in Directories /\ w.dir = {d}
  /\ Len(d) \in Nat /\ H \in SUBSET (1..Len(d)) /\ H = F!Hits(d, call.parts[call.depth])
  /\ call.i \in Nat \ {0}
  /\ call.f_item = NULL <=> {j \in H : j < call.i} = {}
  /\ call.f_item # NULL => mem[call.f_item].entry = d[Max({j \in H : j < call.i})]
  /\ call.pc = "search" => stream = Loaded(d, {j \in {l \in H : l < call.i} : d[j].dir}, w.stream)
  /\ call.pc # "search" =>
       /\ call.i - 1 \in H
       /\ stream = Loaded(d, {j \in {l \in H : l < call.i} \ {call.i - 1} : d[j].dir}, w.stream)

LEMMA SearchViews ==
  ASSUME RefineInv, ~no_block, call.pc \in Searching
  PROVE  \E d, H, w : SearchView(d, H, w)
<1>1. SearchInv /\ vol \in Volumes
  BY DEF RefineInv, TracksInv, Searching, Steps, Walking
<1>2. PICK d, H, w : /\ d = Directory /\ H = Matches /\ w = WalkTo(call.depth - 1)
                     /\ H = F!Hits(d, call.parts[call.depth])
  BY DEF Matches
<1>3. d \in Directories /\ w.dir = {d}
  BY <1>1, <1>2 DEF SearchInv
<1>4. Len(d) \in Nat /\ H \in SUBSET (1..Len(d))
  BY <1>1, <1>2, <1>3, HitsBounded
<1>5. Seen = {l \in H : l < call.i}
  BY <1>2 DEF Seen
<1>6. /\ call.pc = "search" => Built = Seen
      /\ call.pc # "search" => Built = Seen \ {call.i - 1}
  BY DEF Built
<1>7. SearchView(d, H, w)
  BY <1>1, <1>2, <1>3, <1>4, <1>5, <1>6 DEF SearchInv, SearchView
<1> QED BY <1>7

LEMMA SearchKept ==
  ASSUME StateOK, Intact, RefineInv, ~no_block, SearchStep
  PROVE  /\ UNCHANGED F!vars /\ PathInv' /\ AbsStream' = AbsStream
         /\ Directory' = Directory /\ (Directory \in Directories)'
         /\ Matches' = Matches /\ WalkTo(call.depth - 1)' = WalkTo(call.depth - 1)
         /\ (call.depth > 1 => mem[call.current_item].entry.dir)'
         /\ SearchInv' => TracksInv'
<1>1. /\ call.pc \in Steps /\ call'.pc \in Steps /\ call.pc \in Walking /\ call'.pc \in Walking
      /\ call.pc # "descriptor" /\ call'.pc # "descriptor"
  BY DEF SearchStep, Searching, Steps, Walking
<1>2. TracksInv /\ PathInv /\ SearchInv
  BY <1>1 DEF RefineInv, TracksInv
<1>3. AbsStream' = AbsStream /\ vol' = vol
  BY <1>1, StreamSeen DEF SearchStep
<1>4. UNCHANGED F!vars
  <2>1. OpenItems' = OpenItems
    BY OpenItemsKept DEF SearchStep
  <2> QED BY <1>3, <2>1, NothingSeen DEF SearchStep
<1>5. PathInv'
  <2>1. (\E o \in Opens : call.path = o.path /\ call.mode = o.mode)'
    BY <1>2 DEF PathInv, SearchStep
  <2>2. call'.parts = F!pathparser_parse(call.path.parts)'
    <3>1. call.parts = F!pathparser_parse(call.path.parts)
      BY <1>1, <1>2, ArgsParts DEF SearchStep, Searching
    <3> QED BY <3>1, ParseKept DEF SearchStep
  <2>3. call'.pc \notin {"root", "string", "part"}
    BY DEF SearchStep, Searching
  <2> QED BY <1>1, <2>1, <2>2, <2>3 DEF PathInv
<1>6. Directory' = Directory /\ (call.depth > 1 => mem[call.current_item].entry.dir)'
  <2>1. CASE call.depth = 1
    BY <1>3, <2>1 DEF Directory, SearchStep
  <2>2. CASE call.depth # 1
    <3>1. call.depth > 1
      BY <2>2 DEF StateOK, CallOK, Steps, SearchStep, Searching
    <3>2. PICK x : x = call.current_item /\ Complete(x) /\ mem[x].entry.dir
      BY <1>1, <1>2, <3>1 DEF SearchInv, Intact, WalkInv, Searched
    <3>3. PICK y : /\ y = Child(x) /\ y = mem[x].ptr /\ x \in Taken /\ y \in Block
                   /\ mem[x].kind = "fat_item" /\ Child(y) \in Block
      BY <3>2 DEF Complete, IsItem, Child
    <3>4. y \in Taken /\ mem[y].kind = "fat_directory" /\ mem[y].ptr = Child(y)
      BY <3>2, <3>3 DEF Intact, Trees, Fits, Child
    <3>5. mem'[x] = mem[x] /\ mem'[y] = mem[y] /\ x \in Block
      BY <3>3, <3>4 DEF SearchStep, MemGrows, Taken
    <3>6. Deref(Deref(x)) \in Block /\ (Deref(Deref(x)) \in Block)'
      BY <3>3, <3>4, <3>5 DEF Deref
    <3>7. Directory = vol.dirs[mem[x].entry.first]
      BY <2>2, <3>2, <3>6 DEF Directory
    <3>8. call'.current_item = x /\ call'.depth # 1
      BY <2>2, <3>2 DEF SearchStep
    <3>9. Deref(Deref(call.current_item))' = Deref(Deref(x))'
      BY <3>8 DEF Deref
    <3>10. Directory' = vol'.dirs[mem'[x].entry.first]
      BY <3>6, <3>8, <3>9 DEF Directory
    <3> QED BY <1>3, <3>2, <3>5, <3>7, <3>8, <3>10
  <2> QED BY <2>1, <2>2
<1>7. (Directory \in Directories)'
  BY <1>2, <1>3, <1>6, WalkKept DEF SearchInv
<1>8. Matches' = Matches
  <2>1. PICK d, p : d = Directory /\ p = call.parts[call.depth]
    OBVIOUS
  <2>2. Directory' = d /\ call'.parts[call'.depth] = p
    BY <1>6, <2>1 DEF SearchStep
  <2>3. Matches = F!Hits(d, p) /\ Matches' = F!Hits(d, p)'
    BY <2>1, <2>2 DEF Matches, F!Hits, F!fat16_get_total_items_for_directory
  <2> QED BY <1>3, <2>3, WalkKept
<1>9. WalkTo(call.depth - 1)' = WalkTo(call.depth - 1)
  <2>1. PICK ps : ps = SubSeq(call.parts, 1, call.depth - 1)
    OBVIOUS
  <2>2. SubSeq(call'.parts, 1, call'.depth - 1) = ps
    BY <2>1 DEF SearchStep
  <2>3. /\ WalkTo(call.depth - 1) = F!fat16_get_directory_entry(ps)
        /\ WalkTo(call.depth - 1)' = F!fat16_get_directory_entry(ps)'
    BY <2>1, <2>2 DEF WalkTo
  <2> QED BY <1>3, <2>3, WalkKept
<1>10. filesystem' /\ F!Openable(call.path, call.mode)' /\ call'.depth \in 1..Len(call'.parts)
  <2>1. filesystem /\ F!Openable(call.path, call.mode) /\ call.depth \in 1..Len(call.parts)
    BY <1>1, <1>2 DEF TracksInv
  <2>2. F!Openable(call.path, call.mode)'
    BY <1>3, <2>1, WalkKept DEF SearchStep
  <2> QED BY <2>1, <2>2 DEF SearchStep
<1>11. SearchInv' => TracksInv'
  BY <1>1, <1>5, <1>10 DEF TracksInv
<1> QED BY <1>3, <1>4, <1>5, <1>6, <1>7, <1>8, <1>9, <1>11

(* What the search has to find after a step. *)
LEMMA SearchAgain ==
  ASSUME StateOK, Intact, RefineInv, ~no_block, SearchStep,
         NEW d, NEW H, NEW w, SearchView(d, H, w),
         call'.i \in Nat \ {0},
         NEW seen, seen = {j \in H : j < call'.i},
         call'.f_item = NULL <=> seen = {},
         call'.f_item # NULL => mem'[call'.f_item].entry = d[Max(seen)],
         call'.pc # "search" => call'.i - 1 \in H,
         NEW subs, subs = {j \in (IF call'.pc = "search" THEN seen ELSE seen \ {call'.i - 1}) : d[j].dir},
         stream' = Loaded(d, subs, w.stream)
  PROVE  TracksInv' /\ UNCHANGED F!vars
<1>1. /\ Directory' = d /\ Matches' = H /\ WalkTo(call.depth - 1)' = w /\ w.dir = {d}
      /\ (Directory \in Directories)' /\ (call.depth > 1 => mem[call.current_item].entry.dir)'
  BY SearchKept DEF SearchView
<1>2. Seen' = seen
  BY <1>1 DEF Seen
<1>3. {j \in Built : Directory[j].dir}' = subs
  BY <1>1, <1>2 DEF Built
<1>4. Loaded(Directory, {j \in Built : Directory[j].dir}, WalkTo(call.depth - 1).stream)'
        = Loaded(d, subs, w.stream)
  <2>1. Loaded(Directory, {j \in Built : Directory[j].dir}, WalkTo(call.depth - 1).stream)'
          = Loaded(d, subs, w.stream)'
    BY <1>1, <1>3 DEF Loaded
  <2>2. vol' = vol /\ AbsStream' = AbsStream
    BY SearchKept DEF SearchStep
  <2> QED BY <2>1, <2>2, WalkKept
<1>5. SearchInv'
  BY <1>1, <1>2, <1>4 DEF SearchInv
<1> QED BY <1>5, SearchKept

(* The next match. *)
LEMMA NewItemTracks ==
  ASSUME StateOK, BlocksInv, RefineInv, ~no_block', fat16_new_fat_item_for_directory_item
  PROVE  TracksInv' /\ UNCHANGED F!vars
<1>1. /\ call.pc = "search" /\ HitsLeft # {} /\ kzalloc /\ Keeps /\ UNCHANGED <<ret, last>>
      /\ call.pc \in Searching
  BY DEF fat16_new_fat_item_for_directory_item, Searching
<1>2. New # NULL /\ ~no_block /\ Intact
  <2>1. New # NULL /\ ~no_block
    BY <1>1, Allocates
  <2> QED BY <2>1 DEF BlocksInv
<1>3. PICK d, H, w : SearchView(d, H, w)
  BY <1>1, <1>2, SearchViews
<1>4. HitsLeft = {j \in H : j >= call.i}
  BY <1>3 DEF HitsLeft, SearchView, Matches
<1>5. PICK i \in Nat : i = call.i /\ H \in SUBSET (1..Len(d)) /\ Len(d) \in Nat
  BY <1>3 DEF SearchView
<1>6. PICK m \in H : m = Min(HitsLeft) /\ m >= i /\ \A j \in H : j >= i => m <= j
  <2>1. {j \in H : j >= i} \in SUBSET Nat /\ {j \in H : j >= i} # {}
    <3>1. \A j \in H : j \in Nat
      BY <1>5
    <3>2. HitsLeft = {j \in H : j >= i}
      BY <1>4, <1>5
    <3> QED BY <1>1, <3>1, <3>2
  <2>2. PICK L : L = {j \in H : j >= i}
    OBVIOUS
  <2>3. Min(L) \in L /\ \A j \in L : Min(L) <= j
    BY <2>1, <2>2, MinIsLeast
  <2> QED BY <1>4, <1>5, <2>2, <2>3
<1>7. PICK n, e, pc : n = New /\ e = d[m] /\ pc = (IF e.dir THEN "directory" ELSE "clone")
  OBVIOUS
<1>8. PICK s : s = [Struct("fat_item", NULL) EXCEPT !.entry = e]
  OBVIOUS
<1>9. mem' = Filled(s) /\ call' = [call EXCEPT !.i = m + 1, !.f_item = n, !.pc = pc]
  <2>1. Directory[Min(HitsLeft)] = e
    BY <1>3, <1>6, <1>7 DEF SearchView
  <2> QED BY <1>2, <1>6, <1>7, <1>8, <2>1 DEF fat16_new_fat_item_for_directory_item
<1>10. s.ptr = NULL /\ s.private = WILD /\ s.entry = e
  BY <1>8 DEF Struct
<1>11. MemGrows /\ mem'[n] = s
  BY <1>1, <1>2, <1>7, <1>9, <1>10, AllocGrows, AllocTrees DEF Intact
<1>12. /\ call'.pc = pc /\ call'.path = call.path /\ call'.mode = call.mode
       /\ call'.parts = call.parts /\ call'.depth = call.depth
       /\ call'.current_item = call.current_item /\ call'.f_item = n
       /\ call'.i = m + 1 /\ call'.stream = call.stream
  <2>1. PICK c, k : k = m + 1 /\ c = [call EXCEPT !.i = k, !.f_item = n]
    OBVIOUS
  <2>2. /\ IsOpen(c) /\ c.path = call.path /\ c.mode = call.mode /\ c.parts = call.parts
        /\ c.depth = call.depth /\ c.current_item = call.current_item /\ c.f_item = n
        /\ c.i = k /\ c.stream = call.stream
    BY <1>1, <2>1 DEF StateOK, CallOK, IsOpen, Steps
  <2>3. call' = [c EXCEPT !.pc = pc]
    BY <1>9, <2>1
  <2> QED BY <2>1, <2>2, <2>3 DEF IsOpen
<1>13. pc \in Searching /\ pc # "search"
  BY <1>7 DEF Searching
<1>14. SearchStep
  BY <1>1, <1>11, <1>12, <1>13 DEF SearchStep, Keeps
<1>15. PICK seen : seen = {j \in H : j < m + 1}
  OBVIOUS
<1>16. seen \ {m} = {l \in H : l < i}
  <2>1. \A l \in H : l < m + 1 /\ l # m <=> l < i
    BY <1>5, <1>6
  <2> QED BY <1>15, <2>1
<1>17. m \in seen /\ Max(seen) = m
  <2>1. seen \in SUBSET (0..Len(d)) /\ m \in seen /\ \A k \in seen : k <= m
    <3>1. \A k \in H : k \in 0..Len(d) /\ k \in Nat /\ (k < m + 1 => k <= m)
      BY <1>5
    <3>2. m < m + 1
      BY <1>5
    <3> QED BY <1>15, <3>1, <3>2
  <2> QED BY <1>5, <2>1, MaxIs
<1>18. mem'[n].entry = d[Max(seen)]
  BY <1>7, <1>10, <1>11, <1>17
<1>19. stream' = Loaded(d, {j \in seen \ {m} : d[j].dir}, w.stream)
  BY <1>1, <1>3, <1>5, <1>16 DEF SearchView, Keeps
<1>20. m + 1 \in Nat \ {0} /\ m = (m + 1) - 1 /\ n # NULL
  BY <1>2, <1>5, <1>7
<1>21. {j \in (IF call'.pc = "search" THEN seen ELSE seen \ {call'.i - 1}) : d[j].dir}
         = {j \in seen \ {m} : d[j].dir}
  BY <1>12, <1>13, <1>20
<1>22. PICK subs : subs = {j \in seen \ {m} : d[j].dir}
  OBVIOUS
<1>23. /\ call'.i \in Nat \ {0} /\ seen = {j \in H : j < call'.i}
       /\ call'.f_item = NULL <=> seen = {}
       /\ call'.f_item # NULL => mem'[call'.f_item].entry = d[Max(seen)]
       /\ call'.pc # "search" => call'.i - 1 \in H
  BY <1>12, <1>15, <1>17, <1>18, <1>20
<1> QED BY <1>2, <1>3, <1>14, <1>19, <1>21, <1>22, <1>23, SearchAgain

(* The blocks of the item being built. *)
LEMMA LinkGrows ==
  ASSUME StateOK, Intact, kzalloc, ~no_block', NEW n, NEW s, NEW y, LinksNew(n, s, y)
  PROVE  MemGrows
<1>1. /\ mem'[y].entry = mem[y].entry
      /\ \A b \in Taken : b # y => mem'[b] = mem[b]
  BY LinkTrees DEF Intact
<1>2. Child(y) \notin Block
  BY Blocks DEF LinksNew, Child
<1> QED BY <1>1, <1>2 DEF MemGrows

LEMMA LinkTracks ==
  ASSUME StateOK, BlocksInv, RefineInv, ~no_block',
         fat16_clone_directory_item \/ load_directory \/ load_items
  PROVE  TracksInv' /\ UNCHANGED F!vars
<1>1. /\ kzalloc /\ call.pc \in {"clone", "directory", "items"} /\ call.pc \in Searching
      /\ call.pc \in Steps /\ call.pc # "search" /\ UNCHANGED <<vol, filesystem, file_descriptors>>
  BY DEF fat16_clone_directory_item, load_directory, load_items, items_read, Keeps, Searching, Steps
<1>2. New # NULL /\ ~no_block /\ Intact
  <2>1. New # NULL /\ ~no_block
    BY <1>1, Allocates
  <2> QED BY <2>1 DEF BlocksInv
<1>3. PICK d, H, w : SearchView(d, H, w)
  BY <1>1, <1>2, SearchViews
<1>4. PICK i, x : /\ i \in Nat /\ i = call.i /\ i - 1 \in H /\ x = call.f_item /\ x \in Block
                  /\ H \in SUBSET (1..Len(d)) /\ Len(d) \in Nat
  BY <1>1, <1>3 DEF SearchView, StateOK, CallOK
<1>5. PICK seen : seen = {j \in H : j < i}
  OBVIOUS
<1>6. i - 1 \in seen /\ Max(seen) = i - 1 /\ seen # {}
  <2>1. seen \in SUBSET (0..Len(d)) /\ i - 1 \in seen /\ \A k \in seen : k <= i - 1
    <3>1. \A k \in H : k \in 0..Len(d) /\ (k < i => k <= i - 1)
      BY <1>4
    <3>2. i - 1 < i
      BY <1>4
    <3> QED BY <1>4, <1>5, <3>1, <3>2
  <2> QED BY <1>4, <2>1, MaxIs
<1>7. /\ Found(x) /\ x \in Taken /\ mem[x].kind = "fat_item" /\ mem[x].ptr = Child(x)
      /\ mem[x].entry = d[i - 1]
  <2>1. Found(x)
    BY <1>1, <1>2, <1>4, Blocks DEF Intact, WalkInv, Walking
  <2>2. mem[x].entry = d[Max(seen)]
    BY <1>3, <1>4, <1>5, Blocks DEF SearchView
  <2> QED BY <1>6, <2>1, <2>2 DEF Found, IsItem, Child
<1>8. PICK n : n = New
  OBVIOUS
<1>9. ASSUME NEW s, NEW y, LinksNew(n, s, y), NEW pc \in Searching, Goto(pc),
             stream' = Loaded(d, {j \in (IF pc = "search" THEN seen ELSE seen \ {i - 1}) : d[j].dir}, w.stream)
      PROVE  TracksInv' /\ UNCHANGED F!vars
  <2>1. MemGrows /\ \A b \in Taken : mem'[b].entry = mem[b].entry
    BY <1>1, <1>2, <1>9, LinkGrows DEF MemGrows
  <2>2. /\ call'.pc = pc /\ call'.path = call.path /\ call'.mode = call.mode
        /\ call'.parts = call.parts /\ call'.depth = call.depth
        /\ call'.current_item = call.current_item /\ call'.f_item = x
        /\ call'.i = i /\ call'.stream = call.stream /\ UNCHANGED <<ret, last>>
    BY <1>1, <1>4, <1>9, GotoRest DEF Goto
  <2>3. SearchStep
    BY <1>1, <1>9, <2>1, <2>2 DEF SearchStep
  <2>4. PICK subs : subs = {j \in (IF pc = "search" THEN seen ELSE seen \ {i - 1}) : d[j].dir}
    OBVIOUS
  <2>5. mem'[x].entry = d[Max(seen)]
    BY <1>6, <1>7, <2>1
  <2>6. /\ call'.i \in Nat \ {0} /\ seen = {j \in H : j < call'.i}
        /\ call'.f_item = NULL <=> seen = {}
        /\ call'.f_item # NULL => mem'[call'.f_item].entry = d[Max(seen)]
        /\ call'.pc # "search" => call'.i - 1 \in H
    <3>1. i \in Nat \ {0}
      BY <1>3, <1>4 DEF SearchView
    <3> QED BY <1>4, <1>5, <1>6, <2>2, <2>5, <3>1, Blocks
  <2>7. subs = {j \in (IF call'.pc = "search" THEN seen ELSE seen \ {call'.i - 1}) : d[j].dir}
    BY <2>2, <2>4
  <2>8. stream' = Loaded(d, subs, w.stream)
    BY <1>9, <2>4
  <2> QED BY <1>2, <1>3, <2>3, <2>6, <2>7, <2>8, SearchAgain
<1>10. stream = Loaded(d, {j \in seen \ {i - 1} : d[j].dir}, w.stream)
  BY <1>1, <1>3, <1>4, <1>5 DEF SearchView
<1>11. CASE fat16_clone_directory_item
  <2>1. PICK s : s = Struct("entry", WILD)
    OBVIOUS
  <2>2. call.pc = "clone" /\ Goto("search") /\ mem' = [Filled(s) EXCEPT ![x].ptr = n] /\ stream' = stream
    BY <1>4, <1>8, <1>11, <2>1 DEF fat16_clone_directory_item, Keeps
  <2>3. IsStruct(s) /\ s.kind = "entry" /\ s.ptr = WILD
    BY <2>1, StructOK DEF Struct
  <2>4. ~mem[x].entry.dir /\ LinksNew(n, s, x)
    BY <1>7, <1>8, <2>2, <2>3 DEF Found, Fits, LinksNew
  <2>5. {j \in seen : d[j].dir} = {j \in seen \ {i - 1} : d[j].dir}
    BY <1>7, <2>4
  <2>6. "search" \in Searching
    BY DEF Searching
  <2> QED BY <1>9, <1>10, <2>2, <2>4, <2>5, <2>6
<1>12. CASE load_directory
  <2>1. PICK s : s = Struct("fat_directory", NULL)
    OBVIOUS
  <2>2. call.pc = "directory" /\ Goto("items") /\ mem' = [Filled(s) EXCEPT ![x].ptr = n] /\ stream' = stream
    BY <1>2, <1>4, <1>8, <1>12, <2>1 DEF load_directory, Keeps
  <2>3. IsStruct(s) /\ s.kind = "fat_directory" /\ s.ptr = NULL
    BY <2>1, StructOK DEF Struct
  <2>4. LinksNew(n, s, x)
    BY <1>7, <1>8, <2>2, <2>3 DEF Found, Fits, LinksNew
  <2>5. "items" \in Searching
    BY DEF Searching
  <2> QED BY <1>9, <1>10, <2>2, <2>4, <2>5
<1>13. CASE load_items
  <2>1. PICK s, y : s = Struct("items", WILD) /\ y = mem[x].ptr
    OBVIOUS
  <2>2. /\ call.pc = "items" /\ Goto("search") /\ mem' = [Filled(s) EXCEPT ![y].ptr = n] /\ y \in Block
        /\ stream' = F!fat16_cluster_to_sector(mem[x].entry.first) * SectorSize
                       + F!fat16_get_total_items_for_directory(vol.dirs[mem[x].entry.first]) * EntrySize
    BY <1>4, <1>8, <1>13, <2>1 DEF load_items, items_read, DirectoryTotal, StateOK, CallOK, Steps
  <2>3. IsStruct(s) /\ s.kind = "items" /\ s.ptr = WILD
    BY <2>1, StructOK DEF Struct
  <2>4. mem[x].entry.dir /\ Child(x) = y /\ Child(y) = NULL
    BY <1>7, <2>1, <2>2 DEF Found
  <2>5. y \in Taken /\ mem[y].kind = "fat_directory" /\ y # x
    BY <1>2, <1>7, <2>2, <2>4 DEF Intact, Trees, Fits
  <2>6. LinksNew(n, s, y)
    BY <1>8, <2>2, <2>3, <2>4, <2>5 DEF Child, Fits, LinksNew
  <2>7. PICK subs : subs = {j \in seen : d[j].dir}
    OBVIOUS
  <2>8. i - 1 \in subs /\ Max(subs) = i - 1
    <3>1. i - 1 \in subs
      BY <1>6, <1>7, <2>4, <2>7
    <3>2. subs \in SUBSET (0..Len(d)) /\ \A k \in subs : k <= i - 1
      <4>1. \A k \in H : k \in 0..Len(d) /\ (k < i => k <= i - 1)
        BY <1>4
      <4> QED BY <1>5, <2>7, <4>1
    <3> QED BY <1>4, <3>1, <3>2, MaxIs
  <2>9. stream' = Loaded(d, subs, w.stream)
    BY <1>7, <2>2, <2>8 DEF Loaded
  <2>10. "search" \in Searching
    BY DEF Searching
  <2> QED BY <1>9, <2>2, <2>6, <2>7, <2>9, <2>10
<1> QED BY <1>11, <1>12, <1>13

(* A directory is searched: the item found is the one that the walk of     *)
(* Files reaches with this part.                                           *)
Reaches(parts, f, k, x) ==
  /\ WalksAlong(parts, f) /\ k \in 1..Len(parts)
  /\ x = NULL => f[k].item = {} /\ f[k].dir = {}
  /\ x # NULL => /\ f[k].item = {mem[x].entry}
                 /\ mem[x].entry.dir => /\ f[k].dir = {vol.dirs[mem[x].entry.first]}
                                        /\ vol.dirs[mem[x].entry.first] \in Directories
                 /\ ~mem[x].entry.dir => f[k].dir = {}
  /\ stream = f[k].stream

LEMMA SearchEnds ==
  ASSUME RefineInv, ~no_block, SearchOver
  PROVE  \E S, f : call.parts \in Seq(S) /\ Reaches(call.parts, f, call.depth, call.f_item)
<1>1. call.pc = "search" /\ call.pc \in Searching /\ call.pc \in Steps /\ call.pc \in Walking
  BY DEF SearchOver, Searching, Steps, Walking
<1>2. TracksInv /\ PathInv /\ vol \in Volumes /\ call.depth \in 1..Len(call.parts)
  BY <1>1 DEF RefineInv, TracksInv
<1>3. PICK parts, S, k, x : /\ parts = call.parts /\ parts \in Seq(S) /\ k = call.depth /\ x = call.f_item
                            /\ k \in 1..Len(parts)
  BY <1>1, <1>2, ArgsParts
<1>4. PICK f : WalksAlong(parts, f)
  BY <1>3, WalkSteps
<1>5. PICK d, H, w : SearchView(d, H, w)
  BY <1>1, SearchViews
<1>6. w = f[k - 1] /\ f[k] = WalkPart(parts[k], w)
  <2>1. k - 1 \in 0..Len(parts)
    BY <1>3
  <2>2. F!fat16_get_directory_entry(SubSeq(parts, 1, k - 1)) = f[k - 1]
    BY <1>4, <2>1 DEF WalksAlong
  <2>3. w = f[k - 1]
    BY <1>3, <1>5, <2>2 DEF SearchView, WalkTo
  <2> QED BY <1>3, <1>4, <2>3 DEF WalksAlong
<1>7. {j \in H : j < call.i} = H
  <2>1. {j \in H : j >= call.i} = {}
    BY <1>5 DEF SearchOver, HitsLeft, SearchView, Matches
  <2>2. \A j \in H : j \in Nat /\ call.i \in Nat
    BY <1>5 DEF SearchView
  <2>3. \A j \in H : j < call.i
    BY <2>1, <2>2
  <2> QED BY <2>3
<1>8. /\ H = F!Hits(d, parts[k]) /\ d \in Directories /\ w.dir = {d} /\ Len(d) \in Nat
      /\ H \in SUBSET (1..Len(d))
      /\ x = NULL <=> H = {}
      /\ x # NULL => mem[x].entry = d[Max(H)]
      /\ stream = Loaded(d, {j \in H : d[j].dir}, w.stream)
  BY <1>1, <1>3, <1>5, <1>7 DEF SearchView
<1>9. /\ H = {} => f[k].item = {} /\ f[k].dir = {}
      /\ H # {} => /\ f[k].item = {d[Max(H)]}
                   /\ d[Max(H)].dir => f[k].dir = {vol.dirs[d[Max(H)].first]}
                   /\ ~d[Max(H)].dir => f[k].dir = {}
      /\ f[k].stream = Loaded(d, {j \in H : d[j].dir}, w.stream)
  <2>1. PICK p, g : p = parts[k] /\ g = WalkPart(p, w)
    OBVIOUS
  <2>2. LET hits == F!Hits(d, p)
        IN /\ hits = {} => g.item = {} /\ g.dir = {}
           /\ hits # {} => /\ g.item = {d[Max(hits)]}
                           /\ d[Max(hits)].dir => g.dir = {vol.dirs[d[Max(hits)].first]}
                           /\ ~d[Max(hits)].dir => g.dir = {}
           /\ g.stream = Loaded(d, {j \in hits : d[j].dir}, w.stream)
    <3>1. vol \in Volumes /\ d \in Directories /\ w.dir = {d}
      BY <1>2, <1>8
    <3> QED BY ZenonT(60), <2>1, <3>1, PartFinds
  <2>3. H = F!Hits(d, p) /\ f[k] = g
    BY <1>6, <1>8, <2>1
  <2> QED BY <2>2, <2>3
<1>10. H # {} /\ d[Max(H)].dir => vol.dirs[d[Max(H)].first] \in Directories
  <2> SUFFICES ASSUME H # {}, d[Max(H)].dir PROVE vol.dirs[d[Max(H)].first] \in Directories
    OBVIOUS
  <2>1. Max(H) \in H
    BY <1>2, <1>8, HitsBounded
  <2>2. Max(H) \in 1..Len(d)
    BY <1>8, <2>1
  <2> QED BY <1>2, <1>8, <2>2, DirectoryEntries
<1>11. Reaches(parts, f, k, x)
  BY <1>3, <1>4, <1>8, <1>9, <1>10 DEF Reaches
<1> QED BY <1>3, <1>11

LEMMA FreedKept ==
  ASSUME StateOK, NEW ptrs, kfree(ptrs), ~no_block', BlocksInv
  PROVE  ~no_block /\ Intact /\ mem' = mem /\ MemGrows
  BY DEF kfree, BlocksInv, MemGrows

(* The walk moves on to the next directory. *)
LEMMA NextPartTracks ==
  ASSUME StateOK, BlocksInv, RefineInv, ~no_block', next_part
  PROVE  TracksInv' /\ UNCHANGED F!vars
<1>1. /\ SearchOver /\ ~LastPart /\ IsDirectory(call.f_item) /\ kfree(ItemSearched)
      /\ call' = [call EXCEPT !.depth = call.depth + 1, !.current_item = call.f_item, !.i = 1, !.f_item = NULL]
      /\ UNCHANGED <<ret, last>> /\ Keeps
  BY DEF next_part
<1>2. ~no_block /\ Intact /\ mem' = mem /\ MemGrows
  BY <1>1, FreedKept
<1>3. call.pc = "search" /\ call.pc \in Steps /\ call.pc \in Walking
  BY <1>1 DEF SearchOver, Steps, Walking
<1>4. TracksInv /\ PathInv /\ vol \in Volumes /\ filesystem /\ F!Openable(call.path, call.mode)
  BY <1>2, <1>3 DEF RefineInv, TracksInv
<1>5. PICK parts, k, x : parts = call.parts /\ k = call.depth /\ x = call.f_item
  OBVIOUS
<1>6. PICK S, f : parts \in Seq(S) /\ Reaches(parts, f, k, x)
  BY <1>1, <1>2, <1>5, SearchEnds
<1>7. x \in Block /\ x # NULL /\ mem[x].entry.dir /\ mem[x].kind = "fat_item"
  BY <1>1, <1>5, Blocks DEF IsDirectory
<1>8. PICK d : d = vol.dirs[mem[x].entry.first] /\ f[k].dir = {d} /\ d \in Directories /\ stream = f[k].stream
  BY <1>6, <1>7 DEF Reaches
<1>9. k \in Nat /\ k + 1 \in 1..Len(parts) /\ k \in 0..Len(parts) /\ (k + 1) - 1 = k /\ k + 1 # 1
  <2>1. k \in 1..Len(parts) /\ k # Len(parts) /\ Len(parts) \in Nat
    BY <1>1, <1>5, <1>6 DEF LastPart, Reaches
  <2> QED BY <2>1
<1>10. /\ call'.pc = "search" /\ call'.path = call.path /\ call'.mode = call.mode
       /\ call'.parts = parts /\ call'.depth = k + 1 /\ call'.current_item = x
       /\ call'.f_item = NULL /\ call'.i = 1 /\ call'.stream = call.stream
  <2>1. PICK c, l : l = k + 1 /\ c = [call EXCEPT !.depth = l, !.current_item = x]
    OBVIOUS
  <2>2. /\ IsOpen(c) /\ c.pc = "search" /\ c.path = call.path /\ c.mode = call.mode /\ c.parts = parts
        /\ c.depth = l /\ c.current_item = x /\ c.stream = call.stream
    BY <1>3, <1>5, <2>1 DEF StateOK, CallOK, IsOpen
  <2>3. call' = [c EXCEPT !.i = 1, !.f_item = NULL]
    BY <1>1, <1>5, <2>1
  <2> QED BY <2>1, <2>2, <2>3 DEF IsOpen
<1>11. call'.pc \in Steps /\ call'.pc \in Walking /\ call'.pc # "descriptor" /\ vol' = vol
  BY <1>1, <1>10 DEF Steps, Walking, Keeps
<1>12. AbsStream' = AbsStream
  BY <1>3, <1>10, <1>11, StreamSeen
<1>13. UNCHANGED F!vars
  <2>1. OpenItems' = OpenItems
    BY <1>1, <1>2, OpenItemsKept DEF Keeps
  <2> QED BY <1>1, <1>11, <1>12, <2>1, NothingSeen
<1>14. PathInv'
  <2>1. (\E o \in Opens : call.path = o.path /\ call.mode = o.mode)'
    BY <1>4, <1>10 DEF PathInv
  <2>2. call'.parts = F!pathparser_parse(call.path.parts)'
    <3>1. call.parts = F!pathparser_parse(call.path.parts)
      BY <1>3, <1>4, ArgsParts
    <3> QED BY <1>5, <1>10, <3>1, ParseKept
  <2> QED BY <1>10, <1>11, <2>1, <2>2 DEF PathInv
<1>15. filesystem' /\ F!Openable(call.path, call.mode)' /\ call'.depth \in 1..Len(call'.parts)
  <2>1. F!Openable(call.path, call.mode)'
    BY <1>4, <1>10, <1>11, <1>12, WalkKept
  <2> QED BY <1>1, <1>4, <1>9, <1>10, <2>1 DEF Keeps
<1>16. Directory' = d
  <2>1. Complete(x)
    BY <1>2, <1>3, <1>5, <1>7 DEF Intact, WalkInv, Found
  <2>2. PICK y : y = Child(x) /\ y = mem[x].ptr /\ y \in Block /\ Child(y) \in Block /\ x \in Taken
    BY <1>7, <2>1 DEF Complete, IsItem, Child
  <2>3. mem[y].kind = "fat_directory" /\ mem[y].ptr = Child(y)
    BY <1>2, <1>7, <2>2 DEF Intact, Trees, Fits, Child
  <2>4. Deref(x)' = y /\ (Deref(Deref(x)) \in Block)'
    BY <1>2, <1>7, <2>2, <2>3 DEF Deref
  <2>5. Deref(Deref(call.current_item))' = Deref(Deref(x))'
    BY <1>10 DEF Deref
  <2>6. Directory' = vol'.dirs[mem'[x].entry.first]
    BY <1>9, <1>10, <2>4, <2>5 DEF Directory
  <2> QED BY <1>2, <1>8, <1>11, <2>6
<1>17. WalkTo(call.depth - 1)' = f[k]
  <2>1. F!fat16_get_directory_entry(SubSeq(parts, 1, k)) = f[k]
    BY <1>6, <1>9 DEF Reaches, WalksAlong
  <2>2. WalkTo(call.depth - 1)' = F!fat16_get_directory_entry(SubSeq(parts, 1, k))'
    BY <1>9, <1>10 DEF WalkTo
  <2> QED BY <1>11, <1>12, <2>1, <2>2, WalkKept
<1>18. Seen' = {} /\ Built' = {}
  <2>1. PICK H, p : p = parts[k + 1] /\ H = F!Hits(d, p)
    OBVIOUS
  <2>2. Matches' = H
    <3>1. Matches' = F!Hits(d, p)'
      BY <1>10, <1>16, <2>1 DEF Matches, F!Hits, F!fat16_get_total_items_for_directory
    <3> QED BY <1>11, <1>12, <2>1, <3>1, WalkKept
  <2>3. H \in SUBSET (1..Len(d)) /\ Len(d) \in Nat
    BY <1>4, <1>8, <2>1, HitsBounded
  <2>4. \A j \in H : ~(j < 1)
    BY <2>3
  <2>5. Seen' = {}
    BY <1>10, <2>2, <2>4 DEF Seen
  <2> QED BY <1>10, <2>5 DEF Built
<1>19. SearchInv'
  <2>1. (Directory \in Directories)' /\ WalkTo(call.depth - 1)'.dir = {Directory'}
    BY <1>8, <1>11, <1>12, <1>16, <1>17, WalkKept
  <2>2. {j \in Built' : Directory'[j].dir} = {}
    BY <1>18
  <2>3. (Loaded(Directory, {j \in Built : Directory[j].dir}, WalkTo(call.depth - 1).stream))' = stream'
    <3>1. stream' = stream
      BY <1>1 DEF Keeps
    <3> QED BY <1>8, <1>17, <2>2, <3>1 DEF Loaded
  <2>4. mem'[call'.current_item].entry.dir
    BY <1>2, <1>7, <1>10
  <2> QED BY <1>10, <1>18, <2>1, <2>3, <2>4 DEF SearchInv
<1> QED BY <1>11, <1>13, <1>14, <1>15, <1>19 DEF TracksInv

(* The item sought is found. *)
LEMMA FoundTracks ==
  ASSUME StateOK, BlocksInv, RefineInv, ~no_block', item_found
  PROVE  TracksInv' /\ UNCHANGED F!vars
<1>1. /\ SearchOver /\ LastPart /\ call.f_item # NULL /\ kfree(ItemSearched)
      /\ call' = [call EXCEPT !.pc = "descriptor", !.current_item = call.f_item]
      /\ UNCHANGED <<ret, last>> /\ Keeps
  BY DEF item_found
<1>2. ~no_block /\ Intact /\ mem' = mem /\ MemGrows
  BY <1>1, FreedKept
<1>3. call.pc = "search" /\ call.pc \in Steps /\ call.pc \in Walking
  BY <1>1 DEF SearchOver, Steps, Walking
<1>4. /\ TracksInv /\ PathInv /\ vol \in Volumes /\ filesystem /\ F!Openable(call.path, call.mode)
  BY <1>2, <1>3 DEF RefineInv, TracksInv
<1>5. PICK parts, k, x : parts = call.parts /\ k = call.depth /\ x = call.f_item
  OBVIOUS
<1>6. PICK S, f : parts \in Seq(S) /\ Reaches(parts, f, k, x)
  BY <1>1, <1>2, <1>5, SearchEnds
<1>7. f[k].item = {mem[x].entry} /\ stream = f[k].stream /\ k \in 1..Len(parts) /\ k = Len(parts)
  BY <1>1, <1>5, <1>6 DEF Reaches, LastPart
<1>8. /\ call'.pc = "descriptor" /\ call'.path = call.path /\ call'.mode = call.mode
      /\ call'.parts = parts /\ call'.depth = k /\ call'.current_item = x /\ call'.stream = call.stream
  BY <1>1, <1>3, <1>5 DEF StateOK, CallOK, IsOpen
<1>9. call'.pc \in Steps /\ call'.pc \in Walking /\ vol' = vol
  BY <1>1, <1>8 DEF Steps, Walking, Keeps
<1>10. AbsStream' = AbsStream
  BY <1>3, <1>8, <1>9, StreamSeen
<1>11. UNCHANGED F!vars
  <2>1. OpenItems' = OpenItems
    BY <1>1, <1>2, OpenItemsKept DEF Keeps
  <2> QED BY <1>1, <1>9, <1>10, <2>1, NothingSeen
<1>12. PathInv'
  <2>1. (\E o \in Opens : call.path = o.path /\ call.mode = o.mode)'
    BY <1>4, <1>8 DEF PathInv
  <2>2. call'.parts = F!pathparser_parse(call.path.parts)'
    <3>1. call.parts = F!pathparser_parse(call.path.parts)
      BY <1>3, <1>4, ArgsParts
    <3> QED BY <1>5, <1>8, <3>1, ParseKept
  <2> QED BY <1>8, <1>9, <2>1, <2>2 DEF PathInv
<1>13. filesystem' /\ F!Openable(call.path, call.mode)' /\ call'.depth \in 1..Len(call'.parts)
  <2>1. F!Openable(call.path, call.mode)'
    BY <1>4, <1>8, <1>9, <1>10, WalkKept
  <2> QED BY <1>1, <1>4, <1>7, <1>8, <2>1 DEF Keeps
<1>14. WalkTo(call.depth)' = f[k]
  <2>1. k \in 0..Len(parts)
    BY <1>7
  <2>2. F!fat16_get_directory_entry(SubSeq(parts, 1, k)) = f[k]
    BY <1>6, <2>1 DEF Reaches, WalksAlong
  <2>3. WalkTo(call.depth)' = F!fat16_get_directory_entry(SubSeq(parts, 1, k))'
    BY <1>8 DEF WalkTo
  <2> QED BY <1>9, <1>10, <2>2, <2>3, WalkKept
<1>15. ArrivedInv'
  <2>1. stream' = stream
    BY <1>1 DEF Keeps
  <2> QED BY <1>2, <1>7, <1>8, <1>14, <2>1 DEF ArrivedInv
<1> QED BY <1>8, <1>11, <1>12, <1>13, <1>15 DEF TracksInv

-----------------------------------------------------------------------------
(* The steps that Files sees. *)

(* The path leads nowhere. *)
LEMMA NotFoundTracks ==
  ASSUME StateOK, BlocksInv, RefineInv, ~no_block', not_found
  PROVE  \E o \in Opens : F!fopen(o.path, o.mode)
<1>1. /\ SearchOver /\ (call.f_item = NULL \/ (~LastPart /\ ~IsDirectory(call.f_item)))
      /\ kfree(ItemSearched \o <<call.descriptor>>) /\ call' = Idle /\ Keeps
      /\ ret' = 0 /\ last' = [call |-> "fopen", fd |-> 0, path |-> call.path]
  BY DEF not_found, Fail, Return
<1>2. ~no_block /\ Intact /\ mem' = mem /\ MemGrows
  BY <1>1, FreedKept
<1>3. call.pc = "search" /\ call.pc \in Steps /\ call.pc \in Walking
  BY <1>1 DEF SearchOver, Steps, Walking
<1>4. PathInv /\ F!Openable(call.path, call.mode)
  BY <1>2, <1>3 DEF RefineInv, TracksInv
<1>5. PICK parts, k, x : parts = call.parts /\ k = call.depth /\ x = call.f_item
  OBVIOUS
<1>6. PICK S, f : parts \in Seq(S) /\ Reaches(parts, f, k, x)
  BY <1>1, <1>2, <1>5, SearchEnds
<1>7. k \in 1..Len(parts) /\ Len(parts) \in Nat /\ WalksAlong(parts, f) /\ stream = f[k].stream
  BY <1>6 DEF Reaches
<1>8. f[Len(parts)].item = {} /\ f[Len(parts)].stream = stream
  <2>1. CASE k = Len(parts)
    <3>1. x = NULL
      BY <1>1, <1>5, <2>1 DEF LastPart
    <3> QED BY <1>6, <1>7, <2>1, <3>1 DEF Reaches
  <2>2. CASE k # Len(parts)
    <3>1. x # NULL => ~mem[x].entry.dir
      <4>1. x # NULL => x \in Block /\ mem[x].kind = "fat_item"
        BY <1>2, <1>3, <1>5 DEF Intact, WalkInv, Found, IsItem, Taken
      <4> QED BY <1>1, <1>5, <4>1 DEF IsDirectory
    <3>2. f[k].dir = {}
      BY <1>6, <3>1 DEF Reaches
    <3>3. k \in 0..(Len(parts) - 1)
      BY <1>7, <2>2
    <3> QED BY <1>6, <1>7, <3>2, <3>3, DeadEnd
  <2> QED BY <2>1, <2>2
<1>9. PICK o \in Opens : call.path = o.path /\ call.mode = o.mode
  BY <1>4 DEF PathInv
<1>10. PICK walk : walk = F!fat16_get_directory_entry(F!pathparser_parse(o.path.parts))
  OBVIOUS
<1>11. walk.item = {} /\ walk.stream = stream
  <2>1. F!pathparser_parse(o.path.parts) = parts
    BY <1>3, <1>4, <1>5, <1>9, ArgsParts
  <2>2. F!fat16_get_directory_entry(parts) = f[Len(parts)]
    BY <1>7 DEF WalksAlong
  <2> QED BY <1>8, <1>10, <2>1, <2>2
<1>12. AbsStream' = walk.stream
  <2>1. call'.pc = "idle" /\ stream' = stream
    BY <1>1 DEF Idle, Keeps
  <2> QED BY <1>11, <2>1, StreamSeen
<1>13. OpenItems' = OpenItems /\ vol' = vol
  BY <1>1, <1>2, OpenItemsKept DEF Keeps
<1>14. F!Openable(o.path, o.mode) /\ last' = [call |-> "fopen", fd |-> ret', path |-> o.path]
  BY <1>1, <1>4, <1>9
<1>15. F!fopen(o.path, o.mode)
  BY <1>1, <1>10, <1>11, <1>12, <1>13, <1>14, SeenOpen
<1> QED BY <1>15

(* The walk is over, and Files has found the same item. *)
LEMMA Arrived ==
  ASSUME RefineInv, ~no_block, call.pc = "descriptor"
  PROVE  \E o, walk :
           /\ o \in Opens /\ call.path = o.path /\ F!Openable(o.path, o.mode)
           /\ walk = F!fat16_get_directory_entry(F!pathparser_parse(o.path.parts))
           /\ walk.item = {mem[call.current_item].entry} /\ walk.stream = stream
<1>1. call.pc \in Steps /\ call.pc \in Walking /\ call.pc \notin {"root", "string", "part"}
  BY DEF Steps, Walking
<1>2. PathInv /\ F!Openable(call.path, call.mode) /\ ArrivedInv
  BY <1>1 DEF RefineInv, TracksInv
<1>3. PICK o \in Opens : call.path = o.path /\ call.mode = o.mode
  BY <1>2 DEF PathInv
<1>4. PICK parts, S : /\ parts = call.parts /\ parts \in Seq(S)
                      /\ parts = F!pathparser_parse(o.path.parts)
  BY <1>1, <1>2, <1>3, ArgsParts
<1>5. PICK f : WalksAlong(parts, f)
  BY <1>4, WalkSteps
<1>6. WalkTo(call.depth) = f[Len(parts)]
  <2>1. Len(parts) \in 0..Len(parts)
    BY <1>4
  <2>2. F!fat16_get_directory_entry(SubSeq(parts, 1, Len(parts))) = f[Len(parts)]
    BY <1>5, <2>1 DEF WalksAlong
  <2> QED BY <1>2, <1>4, <2>2 DEF ArrivedInv, WalkTo
<1>7. PICK walk : walk = F!fat16_get_directory_entry(parts) /\ walk = f[Len(parts)]
  BY <1>5 DEF WalksAlong
<1>8. walk.item = {mem[call.current_item].entry} /\ walk.stream = stream
  BY <1>2, <1>6, <1>7 DEF ArrivedInv
<1> QED BY <1>2, <1>3, <1>4, <1>7, <1>8

(* The item found hangs from the descriptor of fat16_open. *)
LEMMA DescriptorRoot ==
  ASSUME Intact, call.pc = "descriptor"
  PROVE  \E d, x : /\ d = call.descriptor /\ x = call.current_item
                   /\ d \in Taken /\ d \in Block /\ mem[d].kind = "fat_file_descriptor" /\ mem[d].ptr = NULL
                   /\ Child(d) = NULL /\ x \in Taken /\ x \in Block /\ mem[x].kind = "fat_item" /\ d # x
  BY DEF Intact, WalkInv, Walking, Found, IsRoot, IsItem, Taken, Child

LEMMA NoDescriptorTracks ==
  ASSUME StateOK, BlocksInv, RefineInv, ~no_block', no_descriptor
  PROVE  \E o \in Opens : F!fopen(o.path, o.mode)
<1>1. /\ call.pc = "descriptor" /\ FreeFd = {} /\ call' = Idle /\ Keeps
      /\ ret' = 0 /\ last' = [call |-> "fopen", fd |-> 0, path |-> call.path]
      /\ mem' = [mem EXCEPT ![call.descriptor].ptr = call.current_item]
      /\ UNCHANGED <<avail, no_block>>
  BY DEF no_descriptor, Fail, Return
<1>2. ~no_block /\ Intact
  BY <1>1 DEF BlocksInv
<1>3. PICK d, x : /\ d = call.descriptor /\ x = call.current_item
                  /\ d \in Taken /\ d \in Block /\ Child(d) = NULL
  BY <1>1, <1>2, DescriptorRoot
<1>4. MemGrows
  <2>1. PICK m1 : m1 = mem' /\ m1 = [mem EXCEPT ![d].ptr = x]
    BY <1>1, <1>3
  <2>2. /\ m1[d] = [kind |-> mem[d].kind, ptr |-> x, private |-> mem[d].private, entry |-> mem[d].entry]
        /\ \A b \in Block : b # d => m1[b] = mem[b]
    BY <1>3, <2>1, StorePtr DEF StateOK, MemOK
  <2> QED BY <1>3, <2>1, <2>2, Blocks DEF MemGrows, Taken
<1>5. OpenItems' = OpenItems /\ vol' = vol
  BY <1>1, <1>2, <1>4, OpenItemsKept DEF Keeps
<1>6. PICK o, walk :
        /\ o \in Opens /\ call.path = o.path /\ F!Openable(o.path, o.mode)
        /\ walk = F!fat16_get_directory_entry(F!pathparser_parse(o.path.parts))
        /\ walk.item = {mem[call.current_item].entry} /\ walk.stream = stream
  BY <1>1, <1>2, Arrived
<1>7. AbsStream' = walk.stream
  <2>1. call'.pc = "idle" /\ stream' = stream
    BY <1>1 DEF Idle, Keeps
  <2> QED BY <1>6, <2>1, StreamSeen
<1>8. last' = [call |-> "fopen", fd |-> ret', path |-> o.path]
  BY <1>1, <1>6
<1>9. F!fopen(o.path, o.mode)
  BY <1>1, <1>5, <1>6, <1>7, <1>8, SeenOpen
<1> QED BY <1>6, <1>9

LEMMA NewDescriptorTracks ==
  ASSUME StateOK, BlocksInv, RefineInv, ~no_block', file_new_descriptor
  PROVE  \E o \in Opens : F!fopen(o.path, o.mode)
<1>1. call.pc = "descriptor" /\ kzalloc /\ UNCHANGED <<vol, stream>> /\ call' = Idle
  BY DEF file_new_descriptor, Return
<1>2. ~no_block /\ Intact /\ New # NULL
  <2>1. ~no_block /\ New # NULL
    BY <1>1, Allocates
  <2> QED BY <2>1 DEF BlocksInv
<1>3. PICK d, x : /\ d = call.descriptor /\ x = call.current_item
                  /\ d \in Taken /\ d \in Block /\ Child(d) = NULL
                  /\ x \in Taken /\ x \in Block /\ d # x
  BY <1>1, <1>2, DescriptorRoot
<1>4. PICK fd, n : /\ fd \in FreeFd /\ n = New /\ n # NULL
                   /\ file_descriptors' = [file_descriptors EXCEPT ![fd] = n] /\ ret' = fd
                   /\ last' = [call |-> "fopen", fd |-> fd, path |-> call.path]
  BY <1>2 DEF file_new_descriptor, Return
<1>5. PICK s : s = [Struct("file_descriptor", WILD) EXCEPT !.private = d]
  OBVIOUS
<1>6. s.private = d /\ IsStruct(s)
  BY <1>3, <1>5 DEF IsStruct, Struct
<1>7. PICK m : m = Filled(s) /\ mem' = [m EXCEPT ![d].ptr = x]
  BY <1>3, <1>5 DEF file_new_descriptor
<1>8. n \in Block /\ n \notin Taken /\ n # d /\ n # x
  BY <1>2, <1>3, <1>4, NewBlock DEF Taken, StateOK
<1>9. /\ m = [b \in Block |-> m[b]] /\ \A b \in Block : IsStruct(m[b])
      /\ m[n] = s /\ \A b \in Block : b # n => m[b] = mem[b]
  <2>1. m = [mem EXCEPT ![n] = s]
    BY <1>1, <1>4, <1>7, Allocates
  <2> QED BY <1>6, <1>7, <1>8, <2>1, FilledOK DEF StateOK, MemOK
<1>10. /\ mem'[d] = [kind |-> m[d].kind, ptr |-> x, private |-> m[d].private, entry |-> m[d].entry]
       /\ \A b \in Block : b # d => mem'[b] = m[b]
  <2>1. PICK m1 : m1 = mem'
    OBVIOUS
  <2>2. m1 = [m EXCEPT ![d].ptr = x]
    BY <1>7, <2>1
  <2> QED BY <1>3, <1>9, <2>1, <2>2, StorePtr
<1>11. /\ mem'[n] = s /\ mem'[d].ptr = x /\ mem'[d].entry = mem[d].entry
       /\ \A b \in Taken : b # d => mem'[b] = mem[b]
  BY <1>3, <1>8, <1>9, <1>10 DEF Taken
<1>12. MemGrows
  BY <1>3, <1>11, Blocks DEF MemGrows
<1>13. PICK e : e = mem[x].entry
  OBVIOUS
<1>14. mem'[mem'[mem'[n].private].ptr].entry = e
  BY <1>3, <1>6, <1>11, <1>13
<1>15. fd \in 1..MaxFd /\ file_descriptors[fd] = NULL /\ \A g \in 1..(fd - 1) : file_descriptors[g] # NULL
  BY <1>4 DEF FreeFd
<1>16. FreeFd = {fd}
  <2> SUFFICES ASSUME NEW g \in FreeFd PROVE g = fd
    BY <1>4
  <2>1. g \in 1..MaxFd /\ file_descriptors[g] = NULL /\ \A h \in 1..(g - 1) : file_descriptors[h] # NULL
    BY DEF FreeFd
  <2>2. ~(g < fd)
    <3>1. g < fd => g \in 1..(fd - 1)
      BY <1>15, <2>1, FileBlocksAssumption
    <3> QED BY <1>15, <2>1, <3>1
  <2>3. ~(fd < g)
    <3>1. fd < g => fd \in 1..(g - 1)
      BY <1>15, <2>1, FileBlocksAssumption
    <3> QED BY <1>15, <2>1, <3>1
  <2> QED BY <1>15, <2>1, <2>2, <2>3
<1>17. OpenItems' = [OpenItems EXCEPT ![fd] = [item |-> e, pos |-> 0]]
  <2>1. \A g \in 1..MaxFd : file_descriptors'[g] = IF g = fd THEN n ELSE file_descriptors[g]
    BY <1>4, <1>15 DEF StateOK
  <2>2. \A g \in 1..MaxFd : file_descriptors[g] # NULL =>
          mem'[mem'[mem'[file_descriptors[g]].private].ptr].entry = ItemOf(file_descriptors[g])
    BY <1>2, <1>12, ItemsKept
  <2>3. ASSUME NEW g \in 1..MaxFd
        PROVE  OpenItems'[g] = IF g = fd THEN [item |-> e, pos |-> 0] ELSE OpenItems[g]
    <3>1. CASE g = fd
      <4>1. file_descriptors'[g] = n
        BY <2>1, <3>1
      <4> QED BY <1>4, <1>14, <3>1, <4>1 DEF OpenItems, ItemOf
    <3>2. CASE g # fd
      <4>1. PICK z : z = file_descriptors[g] /\ z = file_descriptors'[g]
        BY <2>1, <3>2
      <4>2. z # NULL => mem'[mem'[mem'[z].private].ptr].entry = ItemOf(z)
        BY <2>2, <4>1
      <4>3. /\ OpenItems'[g] = IF z = NULL THEN [pos |-> -1]
                               ELSE [item |-> mem'[mem'[mem'[z].private].ptr].entry, pos |-> 0]
            /\ OpenItems[g] = IF z = NULL THEN [pos |-> -1] ELSE [item |-> ItemOf(z), pos |-> 0]
        BY <4>1 DEF OpenItems, ItemOf
      <4> QED BY <3>2, <4>2, <4>3
    <3> QED BY <3>1, <3>2
  <2>4. OpenItems = [g \in 1..MaxFd |-> OpenItems[g]] /\ OpenItems' = [g \in 1..MaxFd |-> OpenItems'[g]]
    BY DEF OpenItems
  <2>5. PICK A, B : A = OpenItems /\ B = OpenItems'
    OBVIOUS
  <2>6. /\ A = [g \in 1..MaxFd |-> A[g]] /\ B = [g \in 1..MaxFd |-> B[g]]
        /\ \A g \in 1..MaxFd : B[g] = IF g = fd THEN [item |-> e, pos |-> 0] ELSE A[g]
    BY <2>3, <2>4, <2>5
  <2>7. B = [A EXCEPT ![fd] = [item |-> e, pos |-> 0]]
    BY <1>15, <2>6
  <2> QED BY <2>5, <2>7
<1>18. PICK o, walk :
        /\ o \in Opens /\ call.path = o.path /\ F!Openable(o.path, o.mode)
        /\ walk = F!fat16_get_directory_entry(F!pathparser_parse(o.path.parts))
        /\ walk.item = {mem[call.current_item].entry} /\ walk.stream = stream
  BY <1>1, <1>2, Arrived
<1>19. AbsStream' = walk.stream
  <2>1. call'.pc = "idle" /\ stream' = stream
    BY <1>1 DEF Idle
  <2> QED BY <1>18, <2>1, StreamSeen
<1>20. last' = [call |-> "fopen", fd |-> ret', path |-> o.path] /\ walk.item = {e} /\ vol' = vol
  BY <1>1, <1>3, <1>4, <1>13, <1>18
<1>21. \E item, g : /\ walk.item = {item} /\ FreeFd = {g} /\ ret' = g
                    /\ OpenItems' = [OpenItems EXCEPT ![g] = [item |-> item, pos |-> 0]]
  BY <1>4, <1>16, <1>17, <1>20
<1>22. F!fopen(o.path, o.mode)
  BY <1>18, <1>19, <1>20, <1>21, SeenOpen
<1> QED BY <1>18, <1>22

(* fclose empties the slot, and the other descriptors keep their items. *)
LEMMA FcloseTracks ==
  ASSUME StateOK, BlocksInv, ~no_block', NEW fd \in 0..MaxFd, fclose(fd) \/ fclose_fails(fd)
  PROVE  F!fclose(fd)
<1>1. /\ call = Idle /\ UNCHANGED <<vol, stream, call>> /\ last' = [F!NoCall EXCEPT !.fd = fd]
      /\ mem' = mem /\ Intact
  <2>1. Intact /\ UNCHANGED <<vol, stream>> /\ mem' = mem
    BY DEF fclose, fclose_fails, kfree, heapVars, BlocksInv
  <2> QED BY <2>1, FcloseCloses DEF fclose_fails
<1>2. AbsStream' = AbsStream
  BY <1>1 DEF AbsStream
<1>3. CASE fclose_fails(fd)
  <2>1. ret' = F!EIO /\ file_get_descriptor(fd) = NULL /\ UNCHANGED file_descriptors
    BY <1>3 DEF fclose_fails
  <2>2. OpenItems' = OpenItems
    BY <1>1, <2>1 DEF OpenItems, ItemOf
  <2> QED BY <1>1, <1>2, <2>1, <2>2, SeenClosed
<1>4. CASE fclose(fd)
  <2>1. /\ ret' = 0 /\ file_get_descriptor(fd) # NULL
        /\ file_descriptors' = [file_descriptors EXCEPT ![fd] = NULL]
    BY <1>1, <1>4, FcloseCloses DEF fclose
  <2>2. fd \in 1..MaxFd
    BY <2>1, FileBlocksAssumption DEF file_get_descriptor
  <2>3. \A g \in 1..MaxFd : file_descriptors'[g] = IF g = fd THEN NULL ELSE file_descriptors[g]
    BY <2>1, <2>2 DEF StateOK
  <2>4. ASSUME NEW g \in 1..MaxFd
        PROVE  OpenItems'[g] = IF g = fd THEN [pos |-> -1] ELSE OpenItems[g]
    BY <1>1, <2>3 DEF OpenItems, ItemOf
  <2>5. PICK A, B : A = OpenItems /\ B = OpenItems'
    OBVIOUS
  <2>6. /\ A = [g \in 1..MaxFd |-> A[g]] /\ B = [g \in 1..MaxFd |-> B[g]]
        /\ \A g \in 1..MaxFd : B[g] = IF g = fd THEN [pos |-> -1] ELSE A[g]
    <3>1. OpenItems = [g \in 1..MaxFd |-> OpenItems[g]] /\ OpenItems' = [g \in 1..MaxFd |-> OpenItems'[g]]
      BY DEF OpenItems
    <3> QED BY <2>4, <2>5, <3>1
  <2>7. B = [A EXCEPT ![fd] = [pos |-> -1]]
    BY <2>2, <2>6
  <2> QED BY <1>1, <1>2, <2>1, <2>5, <2>7, SeenClosed
<1> QED BY <1>3, <1>4

-----------------------------------------------------------------------------
FilesStep ==
  \/ UNCHANGED F!vars
  \/ \E o \in Opens : F!fopen(o.path, o.mode) \/ F!fopen_rejected(o.path, o.mode)
  \/ \E fd \in 0..MaxFd : F!fclose(fd)

LEMMA InitTracks == Init => RefineInv
  BY DEF Init, RefineInv, Mounting, Steps

LEMMA OpenGoes ==
  ASSUME StateOK, Open
  PROVE  call'.pc \in Steps \cup {"idle"}
<1>1. call.pc \in Steps
  BY DEF Open, pathparser_create_root, pathparser_get_path_part, path_end,
         pathparser_parse_path_part, open_rejected, fat16_open,
         fat16_new_fat_item_for_directory_item, fat16_clone_directory_item, load_directory,
         load_items, load_no_items, load_items_refused, next_part, item_found, not_found,
         no_descriptor, file_new_descriptor, SearchOver, Steps
<1>2. IsOpen(call)
  BY <1>1 DEF StateOK, CallOK
<1>3. ASSUME NEW pc \in Steps, Goto(pc) PROVE call'.pc \in Steps
  BY <1>1, <1>3, GotoRest DEF Goto
<1>4. ASSUME NEW r, NEW l, Return(r, l) PROVE call'.pc = "idle"
  BY <1>4 DEF Return, Idle
<1>5. CASE pathparser_create_root \/ pathparser_get_path_part \/ path_end \/ open_rejected
  BY <1>3, <1>4, <1>5 DEF pathparser_create_root, pathparser_get_path_part, path_end, open_rejected, Steps
<1>6. CASE \/ fat16_clone_directory_item \/ load_directory \/ load_items \/ load_no_items
           \/ load_items_refused \/ not_found \/ no_descriptor \/ file_new_descriptor
  BY <1>3, <1>4, <1>6 DEF fat16_clone_directory_item, load_directory, load_items, load_no_items,
                         items_read, load_items_refused, not_found, no_descriptor, file_new_descriptor, Fail, Steps
<1>7. CASE pathparser_parse_path_part
  <2> DEFINE pc == IF New = NULL THEN "args" ELSE "string"
             y == IF New = NULL THEN call.parts ELSE Append(call.parts, PathPart)
  <2>1. call' = [call EXCEPT !.pc = pc, !.parts = y]
    BY <1>7 DEF pathparser_parse_path_part
  <2>2. pc \in Steps
    BY DEF Steps
  <2> HIDE DEF pc, y
  <2> QED BY <1>2, <2>1, <2>2 DEF IsOpen
<1>8. CASE fat16_open
  <2>1. CASE New = NULL
    BY <1>4, <1>8, <2>1 DEF fat16_open, Fail
  <2>2. CASE New # NULL
    <3>1. PICK n : call' = [call EXCEPT !.pc = "search", !.descriptor = n]
      BY <1>8, <2>2 DEF fat16_open
    <3> QED BY <1>2, <3>1 DEF IsOpen, Steps
  <2> QED BY <2>1, <2>2
<1>9. CASE fat16_new_fat_item_for_directory_item
  <2> DEFINE i == Min(HitsLeft) + 1
             pc == IF New = NULL THEN "search"
                   ELSE IF Directory[Min(HitsLeft)].dir THEN "directory" ELSE "clone"
  <2>1. call' = [call EXCEPT !.i = i, !.f_item = New, !.pc = pc]
    BY <1>9, Zenon DEF fat16_new_fat_item_for_directory_item
  <2>2. pc \in Steps
    BY DEF Steps
  <2> HIDE DEF i, pc
  <2>3. PICK c : c = [call EXCEPT !.i = i, !.f_item = New]
    OBVIOUS
  <2>4. IsOpen(c) /\ call' = [c EXCEPT !.pc = pc]
    BY <1>2, <2>1, <2>3 DEF IsOpen
  <2> QED BY <2>2, <2>4 DEF IsOpen
<1>10. CASE next_part
  <2>1. PICK k, x : call' = [call EXCEPT !.depth = k, !.current_item = x, !.i = 1, !.f_item = NULL]
    BY <1>10 DEF next_part
  <2>2. PICK c : c = [call EXCEPT !.depth = k, !.current_item = x]
    OBVIOUS
  <2>3. IsOpen(c) /\ c.pc = call.pc /\ call' = [c EXCEPT !.i = 1, !.f_item = NULL]
    BY <1>2, <2>1, <2>2 DEF IsOpen
  <2> QED BY <1>1, <2>3 DEF IsOpen
<1>11. CASE item_found
  <2>1. PICK x : call' = [call EXCEPT !.pc = "descriptor", !.current_item = x]
    BY <1>11 DEF item_found
  <2> QED BY <1>2, <2>1 DEF IsOpen, Steps
<1> QED BY <1>5, <1>6, <1>7, <1>8, <1>9, <1>10, <1>11 DEF Open

(* A step leaves Files where it was, or is a step of Files. *)
LEMMA NextTracks ==
  ASSUME StateOK, BlocksInv, RefineInv, [Next]_vars
  PROVE  RefineInv' /\ (filesystem /\ ~no_block' => FilesStep)
<1>1. CASE UNCHANGED vars
  <2>1. /\ UNCHANGED <<vol, filesystem, avail, mem, file_descriptors, stream, call, ret, last, no_block>>
        /\ AbsStream' = AbsStream
    BY <1>1 DEF vars, heapVars, AbsStream
  <2>2. UNCHANGED F!vars
    BY <2>1 DEF F!vars
  <2>3. RefineInv'
    <3> SUFFICES ASSUME call.pc \in Steps, ~no_block PROVE TracksInv'
      BY <2>1 DEF RefineInv
    <3>1. TracksInv
      BY DEF RefineInv
    <3>2. PathInv'
      BY <2>1, <3>1, ParseKept DEF TracksInv, PathInv
    <3>3. CASE call.pc \notin Walking
      BY <2>1, <3>2, <3>3 DEF TracksInv
    <3>4. CASE call.pc \in Walking
      <4>1. /\ filesystem /\ F!Openable(call.path, call.mode) /\ call.depth \in 1..Len(call.parts)
            /\ IF call.pc = "descriptor" THEN ArrivedInv ELSE SearchInv
        BY <3>1, <3>4 DEF TracksInv
      <4>2. F!Openable(call.path, call.mode)'
        BY <2>1, <4>1, WalkKept
      <4>4. WalkTo(call.depth)' = WalkTo(call.depth) /\ WalkTo(call.depth - 1)' = WalkTo(call.depth - 1)
        BY <2>1, WalkKept DEF WalkTo
      <4>5. ArrivedInv => ArrivedInv'
        BY <2>1, <4>4 DEF ArrivedInv
      <4>6. Directory' = Directory /\ Matches' = Matches
        <5>1. Directory' = Directory
          BY <2>1 DEF Directory, Deref
        <5>2. PICK d, p : d = Directory /\ p = call.parts[call.depth]
          OBVIOUS
        <5>3. Matches = F!Hits(d, p) /\ Matches' = F!Hits(d, p)'
          BY <2>1, <5>1, <5>2 DEF Matches, F!Hits, F!fat16_get_total_items_for_directory
        <5> QED BY <2>1, <5>1, <5>3, WalkKept
      <4>7. Seen' = Seen /\ Built' = Built
        BY <2>1, <4>6 DEF Seen, Built
      <4>8. Loaded(Directory, {j \in Built : Directory[j].dir}, WalkTo(call.depth - 1).stream)'
              = Loaded(Directory, {j \in Built : Directory[j].dir}, WalkTo(call.depth - 1).stream)
        <5>1. PICK d, b, s : /\ d = Directory /\ b = {j \in Built : Directory[j].dir}
                             /\ s = WalkTo(call.depth - 1).stream
          OBVIOUS
        <5>2. Loaded(Directory, {j \in Built : Directory[j].dir}, WalkTo(call.depth - 1).stream)'
                = Loaded(d, b, s)'
          BY <4>4, <4>6, <4>7, <5>1 DEF Loaded
        <5> QED BY <2>1, <5>1, <5>2, WalkKept
      <4>9. (Directory \in Directories)' <=> Directory \in Directories
        BY <2>1, <4>6, WalkKept
      <4>10. SearchInv => SearchInv'
        BY <2>1, <4>4, <4>6, <4>7, <4>8, <4>9 DEF SearchInv
      <4> QED BY <2>1, <3>2, <4>1, <4>2, <4>5, <4>10 DEF TracksInv
    <3> QED BY <3>3, <3>4
  <2> QED BY <2>2, <2>3 DEF FilesStep
<1>2. ASSUME vol' = vol, call'.pc \notin Mounting, ~no_block' /\ call'.pc \in Steps => TracksInv'
      PROVE  RefineInv'
  BY <1>2 DEF RefineInv
<1>3. "idle" \notin Steps /\ "idle" \notin Mounting /\ Steps \cap Mounting = {}
  BY DEF Steps, Mounting
<1>4. CASE disk_search_and_init
  <2>1. call.pc \in Mounting /\ vol' = vol
    BY <1>4 DEF disk_search_and_init, fat16_init_private, diskstreamer_new, fat16_get_root_directory,
                fat16_resolve, MountGoto, Mounting
  <2>2. ~filesystem
    BY <2>1 DEF RefineInv
  <2>3. call'.pc \notin Steps /\ (call'.pc \in Mounting => filesystem' = filesystem)
    BY <1>4, <1>3 DEF disk_search_and_init, fat16_init_private, diskstreamer_new,
                      fat16_get_root_directory, fat16_resolve, MountGoto, Idle, Steps
  <2> QED BY <2>1, <2>2, <2>3 DEF RefineInv
<1>5. ASSUME NEW o \in Opens, fopen(o.path, o.mode)
      PROVE  RefineInv' /\ (~no_block' => FilesStep)
  <2>1. vol' = vol /\ call'.pc = "root"
    BY <1>5 DEF fopen, Keeps
  <2>2. call'.pc \notin Mounting
    BY <2>1 DEF Mounting
  <2> QED BY <1>2, <1>5, <2>1, <2>2, FopenTracks DEF FilesStep
<1>6. ASSUME NEW fd \in 0..MaxFd, fclose(fd) \/ fclose_fails(fd)
      PROVE  RefineInv' /\ (~no_block' => FilesStep)
  <2>1. vol' = vol /\ call'.pc \in {"idle", "wild"}
    BY <1>6 DEF fclose, fclose_fails, Idle
  <2>2. RefineInv'
    BY <1>2, <2>1 DEF Steps, Mounting
  <2> QED BY <1>6, <2>2, FcloseTracks DEF FilesStep
<1>7. CASE Open
  <2>1. vol' = vol
    BY <1>7 DEF Open, pathparser_create_root, pathparser_get_path_part, path_end,
                pathparser_parse_path_part, open_rejected, fat16_open,
                fat16_new_fat_item_for_directory_item, fat16_clone_directory_item, load_directory,
                load_items, load_no_items, items_read, load_items_refused, next_part, item_found,
                not_found, no_descriptor, file_new_descriptor, Keeps
  <2>2. call'.pc \notin Mounting
    BY <1>3, <1>7, OpenGoes
  <2>3. CASE not_found \/ no_descriptor \/ file_new_descriptor
    <3>1. call'.pc = "idle"
      BY <2>3 DEF not_found, no_descriptor, file_new_descriptor, Fail, Return, Idle
    <3> QED BY <1>2, <1>3, <2>1, <2>3, <3>1, NotFoundTracks, NoDescriptorTracks, NewDescriptorTracks
            DEF FilesStep
  <2>4. CASE open_rejected
    <3>1. call'.pc = "idle"
      BY <2>4 DEF open_rejected, Return, Idle
    <3> QED BY <1>2, <1>3, <2>1, <2>4, <3>1, RejectTracks DEF FilesStep
  <2>5. ASSUME ~(not_found \/ no_descriptor \/ file_new_descriptor \/ open_rejected), ~no_block'
        PROVE  TracksInv' /\ UNCHANGED F!vars
    <3>1. ~load_items_refused /\ ~load_no_items
      BY <2>5 DEF load_items_refused, load_no_items
    <3> QED BY <1>7, <2>5, <3>1, PathTracks, OpenTracks, NewItemTracks, LinkTracks, NextPartTracks,
               FoundTracks DEF Open
  <2> QED BY <1>2, <2>1, <2>2, <2>3, <2>4, <2>5 DEF FilesStep
<1> QED BY <1>1, <1>4, <1>5, <1>6, <1>7 DEF Next

(* On a FAT16 disk and until a kzalloc returns NULL or, for a directory    *)
(* without entries, a block that stays free, every step of mounting, fopen *)
(* and fclose with all its allocations and frees leaves what Files keeps   *)
(* unchanged or is the fopen, the rejected fopen or the fclose of Files:   *)
(* up to then, and for any paths and any heap, the walk over item blocks   *)
(* opens the entry at the end of the path, at the lowest free number, and  *)
(* leaves the cluster stream where the single step does (file.c, fat16.c). *)
THEOREM BlocksImplementFiles == Spec => ImplementsFiles
<1>1. Init => StateOK /\ BlocksInv /\ RefineInv
  BY InitOK, InitBlocks, InitTracks
<1>2. StateOK /\ BlocksInv /\ RefineInv /\ [Next]_vars => (StateOK /\ BlocksInv /\ RefineInv)'
  BY NextOK, NextBlocks, NextTracks
<1>3. StateOK /\ BlocksInv /\ RefineInv /\ [Next]_vars =>
        [filesystem /\ ~no_block' =>
           \/ UNCHANGED F!vars
           \/ \E o \in Opens : F!fopen(o.path, o.mode) \/ F!fopen_rejected(o.path, o.mode)
           \/ \E fd \in 0..MaxFd : F!fclose(fd)]_vars
  BY NextTracks DEF FilesStep
<1> QED BY <1>1, <1>2, <1>3, PTL DEF Spec, ImplementsFiles
=============================================================================
