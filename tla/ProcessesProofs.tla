-------------------------- MODULE ProcessesProofs --------------------------
(***************************************************************************)
(* Proofs about Processes.                                                 *)
(***************************************************************************)
EXTENDS Processes, NatLemmas, FiniteSetTheorems

(* The inductive invariant of the proofs. *)

Pointer == Block \cup {NULL}
Entry == [page : Pages, flags : {USER, WRITEABLE}]

ProcessStruct == [kind : {"process"}, id : Slots, task : Pointer, ptr : Pointer,
                  blocks : Nat, stack : Pointer]
TaskStruct == [kind : {"task"}, page_directory : Block, process : Block,
               next : Pointer, prev : Pointer]
ChunkStruct == [kind : {"chunk"}, directory : Block]
DirectoryStruct == [kind : {"directory"}, tables : [Index -> Block]]
TableStruct == [kind : {"table"}, entries : [Index -> Entry]]
Struct == {Bytes} \cup ProcessStruct \cup TaskStruct
            \cup ChunkStruct \cup DirectoryStruct \cup TableStruct

Load == [pc : {"binary", "stack", "task", "map"}, program : Programs, process : Block]

Typed == /\ heap_end \in HeapSizes /\ avail \subseteq 1..heap_end
         /\ mem \in [Block -> Struct]
         /\ {task_head, task_tail, current_task, current_directory, kernel_chunk} \subseteq Pointer
         /\ processes \in [Slots -> Pointer]
         /\ load \in {Idle} \cup Load
         /\ mode \in {"boot", "run", "panic", "wild"}
         /\ tasks \in Seq(Block) /\ stale_store \in BOOLEAN

(* Nothing is taken before boot. *)
Fresh == /\ avail = 1..heap_end /\ \A b \in Block : mem[b] = Bytes
         /\ {task_head, task_tail, current_task} = {NULL}
         /\ \A s \in Slots : processes[s] = NULL
         /\ load = Idle /\ tasks = <<>>

(* A chunk, its directory and as many tables as the directory has entries. *)
IsSpace(m, chunk) ==
  LET d == m[chunk].directory IN
  /\ chunk \in Block /\ m[chunk].kind = "chunk" /\ m[d].kind = "directory"
  /\ \A i \in Index : m[m[d].tables[i]].kind = "table"
  /\ \A i, j \in Index : m[d].tables[i] = m[d].tables[j] => i = j

(* The taken blocks are the kernel's space, those of the tasks L, and      *)
(* blocks without paging structures.                                       *)
Spaces(m, kernel, L, taken) ==
  /\ IsSpace(m, kernel)
  /\ \A t \in L : m[t].kind = "task" /\ IsSpace(m, m[t].page_directory)
  /\ {b \in taken : m[b].kind \in PagingKinds}
       = ChunkOwned(m, kernel) \cup TasksOwned(m, L)
  /\ \A t \in L : TaskOwned(m, t) \cap ChunkOwned(m, kernel) = {}
  /\ \A t, u \in L : t # u => TaskOwned(m, t) \cap TaskOwned(m, u) = {}

(* What the tasks L and the kernel see; mapped is the process whose        *)
(* program is still to be mapped.                                          *)
Views(m, kernel, L, mapped) ==
  /\ \A t \in L, v \in Pages :
       Translate(m, DirectoryOf(m, t), v) =
         IF v = PROGRAM_VIRTUAL /\ m[t].process # mapped
         THEN [page |-> PageOf(m[m[t].process].ptr), flags |-> WRITEABLE]
         ELSE [page |-> v, flags |-> USER]
  /\ \A v \in Pages \ {BOOT_VIRTUAL} :
       Translate(m, m[kernel].directory, v) = [page |-> v, flags |-> WRITEABLE]

(* The blocks of a process so far. *)
Body(p) == p..(p + ProcessBlocks - 1)
Binary(m, p) == IF m[p].ptr = NULL THEN {} ELSE m[p].ptr..(m[p].ptr + m[p].blocks - 1)
Stack(m, p) == IF m[p].stack = NULL THEN {} ELSE m[p].stack..(m[p].stack + StackBlocks - 1)
Holds(m, p) == Body(p) \cup Binary(m, p) \cup Stack(m, p)

IsProcess(m, p, taken) ==
  /\ p \in Block /\ m[p].kind = "process"
  /\ Holds(m, p) \subseteq taken
  /\ \A b \in Holds(m, p) \ {p} : m[b].kind = "bytes"
  /\ Body(p) \cap Binary(m, p) = {} /\ Body(p) \cap Stack(m, p) = {}
  /\ Binary(m, p) \cap Stack(m, p) = {}

(* The processes P have blocks of their own. *)
Owners(m, P, taken) ==
  /\ \A p \in P : IsProcess(m, p, taken)
  /\ \A p, q \in P : p # q => Holds(m, p) \cap Holds(m, q) = {}

(* Each of the tasks L is that of one of the processes P. *)
Tied(m, L, P) == \A t \in L : m[t].process \in P /\ m[m[t].process].task = t

Loading == IF load = Idle THEN {} ELSE {load.process}
ToMap == IF load.pc = "map" THEN load.process ELSE NULL

Filled(m, table) ==
  \A s \in Slots : table[s] # NULL =>
    LET p == m[table[s]] IN p.id = s /\ p.ptr # NULL /\ p.blocks > 0 /\ p.stack # NULL

(* How far the process being loaded has come. *)
LoadInv ==
  load # Idle =>
    LET p == mem[load.process] IN
    /\ processes[p.id] = NULL
    /\ load.pc = "binary" => p.ptr = NULL
    /\ load.pc # "binary" => p.ptr # NULL /\ p.blocks > 0
    /\ load.pc \in {"binary", "stack"} => p.stack = NULL
    /\ load.pc \in {"task", "map"} => p.stack # NULL
    /\ load.pc # "map" => p.task = NULL
    /\ load.pc = "map" => p.task \in Live /\ mem[p.task].process = load.process

RunInv == /\ Spaces(mem, kernel_chunk, Live, Taken)
          /\ Views(mem, kernel_chunk, Live, ToMap)
          /\ Owners(mem, Registered \cup Loading, Taken)
          /\ Tied(mem, Live, Registered \cup Loading)
          /\ Filled(mem, processes)
          /\ LoadInv
          /\ \A i, j \in 1..Len(tasks) : tasks[i] = tasks[j] => i = j

ProcInv == /\ Typed
           /\ mode = "boot" => Fresh
           /\ Running => RunInv
           /\ TaskList

-----------------------------------------------------------------------------
(* The blocks of a set in their order. *)

Rank(S, b) == Cardinality({c \in S : c < b})

LEMMA RankGrows ==
  ASSUME NEW S \in SUBSET Nat, IsFiniteSet(S), NEW b \in S
  PROVE  /\ Rank(S, b) \in 0..(Cardinality(S) - 1)
         /\ \A d \in S : b < d => Rank(S, b) < Rank(S, d)
<1> DEFINE Below(x) == {c \in S : c < x}
<1>1. \A x \in S : /\ IsFiniteSet(Below(x)) /\ Cardinality(Below(x)) \in Nat
                   /\ Cardinality(Below(x)) <= Cardinality(S)
                   /\ Cardinality(S) = Cardinality(Below(x)) => S = Below(x)
  <2>1. \A x \in S : Below(x) \in SUBSET S
    OBVIOUS
  <2> HIDE DEF Below
  <2> QED BY <2>1, FS_Subset, FS_CardinalityType
<1>2. b \notin Below(b)
  OBVIOUS
<1>3. Cardinality(S) \in Nat
  BY FS_CardinalityType
<1>4. ASSUME NEW d \in S, b < d PROVE Cardinality(Below(b)) < Cardinality(Below(d))
  <2>0. \A c \in S : c < b => c < d
    BY <1>4
  <2>1. Below(b) \in SUBSET Below(d) /\ b \in Below(d)
    BY <1>4, <2>0
  <2> HIDE DEF Below
  <2>2. /\ Cardinality(Below(b)) <= Cardinality(Below(d))
        /\ Cardinality(Below(d)) = Cardinality(Below(b)) => Below(d) = Below(b)
    BY <1>1, <2>1, FS_Subset
  <2> QED BY <1>1, <1>2, <2>1, <2>2
<1>5. Rank(S, b) = Cardinality(Below(b)) /\ \A d \in S : Rank(S, d) = Cardinality(Below(d))
  BY DEF Rank
<1> HIDE DEF Below
<1>6. Cardinality(Below(b)) # Cardinality(S)
  BY <1>1, <1>2
<1> QED BY <1>1, <1>3, <1>4, <1>5, <1>6

(* Each place is that of one block. *)
LEMMA RankBijective ==
  ASSUME NEW S \in SUBSET Nat, IsFiniteSet(S)
  PROVE  /\ \A b, d \in S : Rank(S, b) = Rank(S, d) => b = d
         /\ \A i \in 0..(Cardinality(S) - 1) : \E b \in S : Rank(S, b) = i
<1>1. \A b \in S : Rank(S, b) \in 0..(Cardinality(S) - 1)
  BY RankGrows
<1>2. ASSUME NEW b \in S, NEW d \in S, Rank(S, b) = Rank(S, d) PROVE b = d
  <2>1. b < d => Rank(S, b) < Rank(S, d)
    BY RankGrows
  <2>2. d < b => Rank(S, d) < Rank(S, b)
    BY RankGrows
  <2>3. Rank(S, b) \in Int
    BY <1>1
  <2> QED BY <1>2, <2>1, <2>2, <2>3
<1>3. Cardinality(S) \in Nat
  BY FS_CardinalityType
<1> DEFINE f == [b \in S |-> Rank(S, b)]
           T == 0..(Cardinality(S) - 1)
<1>4. f \in Injection(S, T)
  BY <1>1, <1>2 DEF Injection, IsInjective
<1>5. IsFiniteSet(T) /\ Cardinality(T) = Cardinality(S)
  <2>1. 0 \in Int /\ Cardinality(S) - 1 \in Int
    BY <1>3
  <2> QED BY <1>3, <2>1, FS_Interval
<1>6. f \in Surjection(S, T)
  <2> HIDE DEF f, T
  <2> QED BY <1>4, <1>5, FS_Injection
<1>7. \A i \in T : \E b \in S : f[b] = i
  BY <1>6 DEF Surjection
<1> QED BY <1>2, <1>7

(* Nth(S, i) is the block at place i. *)
LEMMA NthIs ==
  ASSUME NEW S \in SUBSET Nat, IsFiniteSet(S)
  PROVE  /\ \A i \in 0..(Cardinality(S) - 1) : Nth(S, i) \in S /\ Rank(S, Nth(S, i)) = i
         /\ \A b \in S : Rank(S, b) \in 0..(Cardinality(S) - 1) /\ Nth(S, Rank(S, b)) = b
<1>1. \A i \in 0..(Cardinality(S) - 1) : Nth(S, i) \in S /\ Rank(S, Nth(S, i)) = i
  <2>1. \A i : Nth(S, i) = CHOOSE b \in S : Rank(S, b) = i
    BY DEF Nth, Rank
  <2> QED BY <2>1, RankBijective
<1>2. \A b \in S : Rank(S, b) \in 0..(Cardinality(S) - 1)
  BY RankGrows
<1>3. \A b, d \in S : Rank(S, b) = Rank(S, d) => b = d
  BY RankBijective
<1> QED BY <1>1, <1>2, <1>3

(* Lowest(S, n) has n blocks if S has. *)
LEMMA LowestHas ==
  ASSUME NEW S \in SUBSET Nat, IsFiniteSet(S), NEW n \in Nat, n <= Cardinality(S)
  PROVE  Lowest(S, n) \subseteq S /\ Cardinality(Lowest(S, n)) = n
<1> DEFINE L == Lowest(S, n)
           f == [b \in L |-> Rank(S, b)]
           T == 0..(n - 1)
<1>1. L = {b \in S : Rank(S, b) < n}
  BY DEF Lowest, Rank
<1>2. Cardinality(S) \in Nat
  BY FS_CardinalityType
<1>3. \A b \in S : Rank(S, b) \in 0..(Cardinality(S) - 1)
  BY RankGrows
<1>4. L \in SUBSET S
  BY <1>1
<1>5. IsFiniteSet(T) /\ Cardinality(T) = n
  <2>1. 0 \in Int /\ n - 1 \in Int /\ (IF 0 > n - 1 THEN 0 ELSE n - 1 - 0 + 1) = n
    OBVIOUS
  <2> QED BY <2>1, FS_Interval
<1>6. f \in [L -> T] /\ \A b, d \in L : f[b] = f[d] => b = d
  <2>1. \A b, d \in S : Rank(S, b) = Rank(S, d) => b = d
    BY RankBijective
  <2>2. \A b \in L : b \in S /\ Rank(S, b) \in T
    <3>1. \A b \in S : Rank(S, b) < n => Rank(S, b) \in 0..(n - 1)
      BY <1>2, <1>3
    <3> HIDE DEF L
    <3> QED BY <1>1, <3>1
  <2> HIDE DEF L, T
  <2> QED BY <2>1, <2>2
<1>7. \A i \in T : \E b \in L : f[b] = i
  <2>1. \A i \in T : \E b \in S : Rank(S, b) = i
    BY <1>2, RankBijective
  <2> HIDE DEF L
  <2> QED BY <1>1, <2>1
<1> HIDE DEF L, f, T
<1>8. f \in Bijection(L, T)
  BY <1>6, <1>7 DEF Bijection, Injection, Surjection, IsInjective
<1>9. IsFiniteSet(L)
  BY <1>4, FS_Subset
<1> QED BY <1>4, <1>5, <1>8, <1>9, FS_Bijection DEF ExistsBijection, L
-----------------------------------------------------------------------------
(* Types *)

LEMMA BlocksAre ==
  /\ Block \in SUBSET Nat /\ NULL \notin Block
  /\ \A n \in HeapSizes : n \in Nat /\ n >= ENTRIES + 3 /\ 1..n \subseteq Block
  /\ \A n \in HeapSizes : \A S \in SUBSET (1..n) : IsFiniteSet(S) /\ S \in SUBSET Nat /\ S \in SUBSET Block
<1>1. \A n \in HeapSizes : n \in Nat /\ n >= ENTRIES + 3
  BY ProcessesAssumption
<1>2. \A n \in HeapSizes : 1..n \subseteq Block
  BY DEF Block
<1>3. \A n \in HeapSizes : IsFiniteSet(1..n)
  BY <1>1, FS_Interval
<1>4. Block \in SUBSET Nat /\ NULL \notin Block
  BY <1>1 DEF Block, NULL
<1>5. ASSUME NEW n \in HeapSizes, NEW S \in SUBSET (1..n)
      PROVE  IsFiniteSet(S) /\ S \in SUBSET Nat /\ S \in SUBSET Block
  <2>1. IsFiniteSet(S)
    BY <1>3, FS_Subset
  <2>2. S \in SUBSET Block
    BY <1>2
  <2> QED BY <1>4, <2>1, <2>2
<1> QED BY <1>1, <1>2, <1>4, <1>5

(* A structure's kind says which fields it has. *)
LEMMA KindsAre ==
  ASSUME NEW r \in Struct
  PROVE  /\ r.kind = "bytes" => r = Bytes
         /\ r.kind = "process" => r \in ProcessStruct
         /\ r.kind = "task" => r \in TaskStruct
         /\ r.kind = "chunk" => r \in ChunkStruct
         /\ r.kind = "directory" => r \in DirectoryStruct
         /\ r.kind = "table" => r \in TableStruct
         /\ r.kind \in {"bytes", "process", "task", "chunk", "directory", "table"}
<1>1. r = Bytes => r.kind = "bytes"
  BY DEF Bytes
<1>2. r \in ProcessStruct => r.kind = "process"
  BY DEF ProcessStruct
<1>3. r \in TaskStruct => r.kind = "task"
  BY DEF TaskStruct
<1>4. r \in ChunkStruct => r.kind = "chunk"
  BY DEF ChunkStruct
<1>5. r \in DirectoryStruct => r.kind = "directory"
  BY DEF DirectoryStruct
<1>6. r \in TableStruct => r.kind = "table"
  BY DEF TableStruct
<1> QED BY <1>1, <1>2, <1>3, <1>4, <1>5, <1>6 DEF Struct

(* A page number is a table's number and an entry's. *)
LEMMA DivMod ==
  /\ \A v \in Pages : /\ v \div ENTRIES \in Index /\ v % ENTRIES \in Index
                      /\ v = (v \div ENTRIES) * ENTRIES + (v % ENTRIES)
  /\ \A i, e \in Index : i * ENTRIES + e \in Pages
<1>1. ENTRIES \in Nat /\ ENTRIES >= 2
  BY ProcessesAssumption
<1>2. ASSUME NEW E \in Nat, E >= 2, NEW i \in 0..(E - 1), NEW e \in 0..(E - 1)
      PROVE  i * E + e \in 0..(E * E - 1)
  <2>1. i * E <= (E - 1) * E
    BY <1>2
  <2>2. (E - 1) * E = E * E - E
    BY <1>2
  <2>3. i * E \in Nat /\ E * E \in Nat
    BY <1>2
  <2> QED BY <1>2, <2>1, <2>2, <2>3
<1>3. ASSUME NEW E \in Nat, E >= 2, NEW v \in 0..(E * E - 1)
      PROVE  /\ v \div E \in 0..(E - 1) /\ v % E \in 0..(E - 1)
             /\ v = (v \div E) * E + (v % E)
  <2>1. v \div E \in Int /\ v % E \in 0..(E - 1) /\ v = (v \div E) * E + (v % E)
    BY <1>3
  <2>2. \A q \in Int : q >= E => q * E >= E * E
    BY <1>3
  <2>3. \A q \in Int : q <= -1 => q * E <= -E
    BY <1>3
  <2> QED BY <1>3, <2>1, <2>2, <2>3
<1> QED BY <1>1, <1>2, <1>3 DEF Pages, Index
-----------------------------------------------------------------------------
(* Paging *)

(* In the memory n the blocks S are a chunk, its directory and its tables, *)
(* which map every page to itself; the others are as in m.                 *)
NewSpace(m, n, S, flags) ==
  LET c == ChunkIn(S)
      d == DirectoryIn(S)
  IN
  /\ n \in [Block -> Struct]
  /\ \A b \in Block \ S : n[b] = m[b]
  /\ c \in S /\ n[c].kind = "chunk" /\ n[c].directory = d
  /\ d \in S /\ n[d].kind = "directory"
  /\ \A i \in Index : LET b == n[d].tables[i] IN
       /\ b \in S /\ n[b].kind = "table"
       /\ \A e \in Index : n[b].entries[e] = [page |-> i * ENTRIES + e, flags |-> flags]
  /\ \A i, j \in Index : n[d].tables[i] = n[d].tables[j] => i = j
  /\ S = {c, d} \cup {n[d].tables[i] : i \in Index}

LEMMA PagingNew ==
  ASSUME NEW m \in [Block -> Struct], NEW S \in SUBSET Block, IsFiniteSet(S),
         Cardinality(S) = ChunkBlocks, NEW flags \in {USER, WRITEABLE}
  PROVE  NewSpace(m, paging_new_4gb(m, S, flags), S, flags)
<1> DEFINE c == ChunkIn(S)
           d == DirectoryIn(S)
           table(i) == Nth(S, i + 1)
           index(b) == CHOOSE i \in Index : table(i) = b
           n == paging_new_4gb(m, S, flags)
<1>1. ENTRIES \in Nat /\ ENTRIES >= 2 /\ S \in SUBSET Nat /\ Cardinality(S) = ENTRIES + 2
  BY ProcessesAssumption, BlocksAre DEF ChunkBlocks
<1>2. \A i \in 0..(ENTRIES + 1) : Nth(S, i) \in S /\ Rank(S, Nth(S, i)) = i
  BY <1>1, NthIs
<1>3. \A b \in S : \E i \in 0..(ENTRIES + 1) : Nth(S, i) = b
  BY <1>1, NthIs
<1>4. /\ c \in S /\ Rank(S, c) = ENTRIES + 1
      /\ d \in S /\ Rank(S, d) = 0
      /\ \A i \in Index : table(i) \in S /\ Rank(S, table(i)) = i + 1
  BY <1>1, <1>2 DEF ChunkIn, DirectoryIn, Index
<1>5. \A b \in S : b = c \/ b = d \/ \E i \in Index : table(i) = b
  <2> SUFFICES ASSUME NEW b \in S PROVE b = c \/ b = d \/ \E i \in Index : table(i) = b
    OBVIOUS
  <2>1. PICK i \in 0..(ENTRIES + 1) : Nth(S, i) = b
    BY <1>3
  <2>2. i = 0 \/ i = ENTRIES + 1 \/ (i - 1 \in Index /\ (i - 1) + 1 = i)
    BY <1>1 DEF Index
  <2> QED BY <2>1, <2>2 DEF ChunkIn, DirectoryIn
<1>6. /\ c # d
      /\ \A i \in Index : table(i) # c /\ table(i) # d
      /\ \A i, j \in Index : table(i) = table(j) => i = j
  BY <1>1, <1>4 DEF Index
<1>7. n = [b \in Block |->
        IF b = d THEN [kind |-> "directory", tables |-> [i \in Index |-> table(i)]]
        ELSE IF b = c THEN [kind |-> "chunk", directory |-> d]
        ELSE IF b \in S
        THEN [kind |-> "table",
              entries |-> [e \in Index |-> [page |-> index(b) * ENTRIES + e, flags |-> flags]]]
        ELSE m[b]]
  BY DEF paging_new_4gb
<1> HIDE DEF n, c, d, table
<1>8. \A i \in Index : index(table(i)) = i
  BY <1>6
<1>9. \A b \in S : b # c /\ b # d => index(b) \in Index
  BY <1>5
<1> HIDE DEF index
<1>10. n[d] = [kind |-> "directory", tables |-> [i \in Index |-> table(i)]]
  BY <1>4, <1>7
<1>11. n[c] = [kind |-> "chunk", directory |-> d]
  BY <1>4, <1>6, <1>7
<1>12. \A b \in S : b # c /\ b # d =>
         n[b] = [kind |-> "table",
                 entries |-> [e \in Index |-> [page |-> index(b) * ENTRIES + e, flags |-> flags]]]
  BY <1>7
<1>13. \A b \in Block \ S : n[b] = m[b]
  BY <1>4, <1>7
<1>14. n \in [Block -> Struct]
  <2>1. n[d] \in DirectoryStruct
    BY <1>4, <1>10 DEF DirectoryStruct
  <2>2. n[c] \in ChunkStruct
    BY <1>4, <1>11 DEF ChunkStruct
  <2>3. ASSUME NEW b \in S, b # c, b # d PROVE n[b] \in TableStruct
    <3>1. \A e \in Index : index(b) * ENTRIES + e \in Pages
      BY <1>9, <2>3, DivMod
    <3>2. \A e \in Index : [page |-> index(b) * ENTRIES + e, flags |-> flags] \in Entry
      BY <3>1 DEF Entry
    <3>3. [e \in Index |-> [page |-> index(b) * ENTRIES + e, flags |-> flags]] \in [Index -> Entry]
      BY <3>2
    <3>4. PICK f \in [Index -> Entry] :
            f = [e \in Index |-> [page |-> index(b) * ENTRIES + e, flags |-> flags]]
      BY <3>3
    <3>5. n[b] = [kind |-> "table", entries |-> f]
      BY <1>12, <2>3, <3>4
    <3> QED BY <3>5 DEF TableStruct
  <2>4. \A b \in Block : n[b] \in Struct
    BY <1>13, <2>1, <2>2, <2>3 DEF Struct
  <2>5. n = [b \in Block |-> n[b]]
    BY <1>7
  <2> QED BY <2>4, <2>5
<1>15. n[d].kind = "directory" /\ \A i \in Index : n[d].tables[i] = table(i)
  BY <1>10
<1>16. n[c].kind = "chunk" /\ n[c].directory = d
  BY <1>11
<1>17. ASSUME NEW i \in Index
       PROVE  /\ n[table(i)].kind = "table"
              /\ \A e \in Index : n[table(i)].entries[e] = [page |-> i * ENTRIES + e, flags |-> flags]
  <2>1. n[table(i)] = [kind |-> "table",
          entries |-> [e \in Index |-> [page |-> index(table(i)) * ENTRIES + e, flags |-> flags]]]
    BY <1>4, <1>6, <1>12
  <2> QED BY <1>8, <2>1
<1>18. {n[d].tables[i] : i \in Index} = {table(i) : i \in Index}
  BY <1>15
<1>19. S = {c, d} \cup {table(i) : i \in Index}
  BY <1>4, <1>5
<1> QED BY <1>4, <1>6, <1>13, <1>14, <1>15, <1>16, <1>17, <1>18, <1>19 DEF NewSpace, n, c, d
(* The blocks of a space are of their kinds, and as many as were asked for. *)
LEMMA SpaceBlocks ==
  ASSUME NEW m \in [Block -> Struct], NEW c, IsSpace(m, c)
  PROVE  LET d == m[c].directory IN
         /\ c \in Block /\ d \in Block /\ \A i \in Index : m[d].tables[i] \in Block
         /\ c # d /\ \A i \in Index : m[d].tables[i] # c /\ m[d].tables[i] # d
         /\ ChunkOwned(m, c) \subseteq Block
         /\ \A b \in ChunkOwned(m, c) : m[b].kind \in {"chunk", "directory", "table"}
<1>1. m[c] \in ChunkStruct
  BY KindsAre DEF IsSpace
<1>2. PICK d \in Block : d = m[c].directory
  BY <1>1 DEF ChunkStruct
<1>3. m[d] \in DirectoryStruct /\ m[d].kind = "directory" /\ m[c].kind = "chunk" /\ c \in Block
  BY <1>2, KindsAre DEF IsSpace
<1>4. \A i \in Index : m[d].tables[i] \in Block /\ m[m[d].tables[i]].kind = "table"
  BY <1>2, <1>3 DEF DirectoryStruct, IsSpace
<1>5. ChunkOwned(m, c) = {c, d} \cup {m[d].tables[i] : i \in Index}
  BY <1>2 DEF ChunkOwned
<1> QED BY <1>2, <1>3, <1>4, <1>5

LEMMA SpaceCardinality ==
  ASSUME NEW m \in [Block -> Struct], NEW c, IsSpace(m, c)
  PROVE  IsFiniteSet(ChunkOwned(m, c)) /\ Cardinality(ChunkOwned(m, c)) = ChunkBlocks
<1>1. PICK d : d = m[c].directory
  OBVIOUS
<1> DEFINE T == {m[d].tables[i] : i \in Index}
           f == [i \in Index |-> m[d].tables[i]]
<1>2. f \in Bijection(Index, T)
  BY <1>1 DEF IsSpace, Bijection, Injection, Surjection, IsInjective
<1>3. IsFiniteSet(Index) /\ Cardinality(Index) = ENTRIES /\ ENTRIES \in Nat
  <2>1. /\ ENTRIES \in Nat /\ 0 \in Int /\ ENTRIES - 1 \in Int
        /\ (IF 0 > ENTRIES - 1 THEN 0 ELSE ENTRIES - 1 - 0 + 1) = ENTRIES
    BY ProcessesAssumption
  <2> QED BY <2>1, FS_Interval DEF Index
<1>4. c # d /\ c \notin T /\ d \notin T
  BY <1>1, SpaceBlocks
<1>5. ChunkOwned(m, c) = (T \cup {d}) \cup {c}
  BY <1>1 DEF ChunkOwned
<1> HIDE DEF T, f
<1>6. IsFiniteSet(T) /\ Cardinality(T) = ENTRIES
  BY <1>2, <1>3, FS_Bijection DEF ExistsBijection
<1>7. IsFiniteSet(T \cup {d}) /\ Cardinality(T \cup {d}) = ENTRIES + 1
  BY <1>4, <1>6, FS_AddElement
<1>8. c \notin T \cup {d}
  BY <1>4
<1>9. IsFiniteSet((T \cup {d}) \cup {c}) /\ Cardinality((T \cup {d}) \cup {c}) = (ENTRIES + 1) + 1
  BY <1>7, <1>8, FS_AddElement
<1> QED BY <1>3, <1>5, <1>9 DEF ChunkBlocks

(* What a step may not do to a block b in use: change its kind to or from  *)
(* a paging one, or where it points to.                                    *)
Kept(m, n, b) ==
  /\ m[b].kind \in PagingKinds => n[b].kind = m[b].kind
  /\ m[b].kind \notin PagingKinds => n[b].kind \notin PagingKinds
  /\ m[b].kind = "chunk" => n[b].directory = m[b].directory
  /\ m[b].kind = "directory" => n[b].tables = m[b].tables
  /\ m[b].kind = "task" => n[b].page_directory = m[b].page_directory /\ n[b].process = m[b].process

LEMMA SpaceKept ==
  ASSUME NEW m \in [Block -> Struct], NEW n \in [Block -> Struct],
         NEW c, IsSpace(m, c), \A b \in ChunkOwned(m, c) : Kept(m, n, b)
  PROVE  /\ IsSpace(n, c) /\ ChunkOwned(n, c) = ChunkOwned(m, c)
         /\ n[c].directory = m[c].directory
         /\ n[m[c].directory].tables = m[m[c].directory].tables
<1>1. PICK d : d = m[c].directory
  OBVIOUS
<1>2. /\ c \in Block /\ m[c].kind = "chunk" /\ m[d].kind = "directory"
      /\ \A i \in Index : m[m[d].tables[i]].kind = "table"
      /\ \A i, j \in Index : m[d].tables[i] = m[d].tables[j] => i = j
  BY <1>1 DEF IsSpace
<1>3. /\ Kept(m, n, c) /\ Kept(m, n, d)
      /\ \A i \in Index : Kept(m, n, m[d].tables[i])
  BY <1>1 DEF ChunkOwned
<1>4. n[c].kind = "chunk" /\ n[c].directory = d /\ n[d].kind = "directory" /\ n[d].tables = m[d].tables
  BY <1>1, <1>2, <1>3 DEF Kept, PagingKinds
<1>5. \A i \in Index : n[m[d].tables[i]].kind = "table"
  BY <1>2, <1>3 DEF Kept, PagingKinds
<1>6. IsSpace(n, c)
  BY <1>2, <1>4, <1>5 DEF IsSpace
<1>7. ChunkOwned(n, c) = ChunkOwned(m, c)
  BY <1>1, <1>4 DEF ChunkOwned
<1> QED BY <1>1, <1>4, <1>6, <1>7

(* Who has a block. *)
LEMMA HasBlock ==
  ASSUME NEW m, NEW L
  PROVE  \A b : b \in TasksOwned(m, L) <=> \E u \in L : b \in TaskOwned(m, u)
BY DEF TasksOwned

(* The spaces of the tasks and of the kernel are taken. *)
LEMMA SpacesTaken ==
  ASSUME NEW m, NEW k, NEW L, NEW T, Spaces(m, k, L, T)
  PROVE  /\ ChunkOwned(m, k) \subseteq T
         /\ \A t \in L : t \in T /\ TaskOwned(m, t) \subseteq T
                          /\ ChunkOwned(m, m[t].page_directory) \subseteq TaskOwned(m, t)
         /\ \A b \in ChunkOwned(m, k) : m[b].kind \in PagingKinds
         /\ \A t \in L : \A b \in TaskOwned(m, t) : m[b].kind \in PagingKinds
<1>1. {b \in T : m[b].kind \in PagingKinds}
         = ChunkOwned(m, k) \cup TasksOwned(m, L)
  BY DEF Spaces
<1>2. \A t \in L : t \in TaskOwned(m, t) /\ ChunkOwned(m, m[t].page_directory) \subseteq TaskOwned(m, t)
  BY DEF TaskOwned
<1> QED BY <1>1, <1>2, HasBlock

LEMMA TaskKept ==
  ASSUME NEW m \in [Block -> Struct], NEW n \in [Block -> Struct], NEW t,
         m[t].kind = "task", IsSpace(m, m[t].page_directory),
         \A b \in TaskOwned(m, t) : Kept(m, n, b)
  PROVE  /\ n[t].kind = "task" /\ n[t].process = m[t].process
         /\ n[t].page_directory = m[t].page_directory
         /\ IsSpace(n, n[t].page_directory) /\ TaskOwned(n, t) = TaskOwned(m, t)
<1>1. PICK c : c = m[t].page_directory
  OBVIOUS
<1>2. Kept(m, n, t) /\ \A b \in ChunkOwned(m, c) : Kept(m, n, b)
  BY <1>1 DEF TaskOwned
<1>3. n[t].kind = "task" /\ n[t].page_directory = c /\ n[t].process = m[t].process
  BY <1>1, <1>2 DEF Kept, PagingKinds
<1>4. IsSpace(n, c) /\ ChunkOwned(n, c) = ChunkOwned(m, c)
  BY <1>1, <1>2, SpaceKept
<1> QED BY <1>1, <1>3, <1>4 DEF TaskOwned

(* A step that keeps the blocks in use, and puts no paging structure into  *)
(* those it takes, keeps the spaces.                                       *)
LEMMA SpacesKept ==
  ASSUME NEW m \in [Block -> Struct], NEW n \in [Block -> Struct],
         NEW k, NEW L, NEW T, NEW U, Spaces(m, k, L, T),
         T \subseteq U, \A b \in T : Kept(m, n, b),
         \A b \in U \ T : n[b].kind \notin PagingKinds
  PROVE  /\ Spaces(n, k, L, U)
         /\ ChunkOwned(n, k) = ChunkOwned(m, k)
         /\ \A t \in L : TaskOwned(n, t) = TaskOwned(m, t)
<1>1. IsSpace(n, k) /\ ChunkOwned(n, k) = ChunkOwned(m, k)
  <2>1. IsSpace(m, k) /\ \A b \in ChunkOwned(m, k) : Kept(m, n, b)
    BY SpacesTaken DEF Spaces
  <2> QED BY <2>1, SpaceKept
<1>2. ASSUME NEW t \in L
      PROVE  /\ n[t].kind = "task" /\ IsSpace(n, n[t].page_directory)
             /\ TaskOwned(n, t) = TaskOwned(m, t)
  <2>1. m[t].kind = "task" /\ IsSpace(m, m[t].page_directory)
    BY DEF Spaces
  <2>2. \A b \in TaskOwned(m, t) : Kept(m, n, b)
    BY SpacesTaken
  <2> QED BY <2>1, <2>2, TaskKept
<1>3. {b \in U : n[b].kind \in PagingKinds} = {b \in T : m[b].kind \in PagingKinds}
  BY DEF Kept
<1>4. TasksOwned(n, L) = TasksOwned(m, L)
  <2>1. \A b : b \in TasksOwned(n, L) <=> b \in TasksOwned(m, L)
    BY <1>2, HasBlock
  <2> QED BY <2>1
<1>5. {b \in U : n[b].kind \in PagingKinds}
        = ChunkOwned(n, k) \cup TasksOwned(n, L)
  BY <1>1, <1>3, <1>4 DEF Spaces
<1>6. /\ \A t \in L : TaskOwned(n, t) \cap ChunkOwned(n, k) = {}
      /\ \A t, u \in L : t # u => TaskOwned(n, t) \cap TaskOwned(n, u) = {}
  BY <1>1, <1>2 DEF Spaces
<1> QED BY <1>1, <1>2, <1>5, <1>6 DEF Spaces
(* A new task with a space in new blocks. *)
LEMMA SpacesAdd ==
  ASSUME NEW m \in [Block -> Struct], NEW k, NEW L, NEW T, NEW t, NEW U,
         Spaces(m, k, L, T), m[t].kind = "task", IsSpace(m, m[t].page_directory),
         U = TaskOwned(m, t), U \cap T = {}
  PROVE  Spaces(m, k, L \cup {t}, T \cup U)
<1>1. \A b \in U : m[b].kind \in PagingKinds
  <2>1. \A b \in ChunkOwned(m, m[t].page_directory) : m[b].kind \in {"chunk", "directory", "table"}
    BY SpaceBlocks
  <2> QED BY <2>1 DEF TaskOwned, PagingKinds
<1>2. {b \in T \cup U : m[b].kind \in PagingKinds} = {b \in T : m[b].kind \in PagingKinds} \cup U
  BY <1>1
<1>3. TasksOwned(m, L \cup {t}) = TasksOwned(m, L) \cup U
  <2>1. \A b : b \in TasksOwned(m, L \cup {t})
               <=> b \in TasksOwned(m, L) \/ b \in TaskOwned(m, t)
    BY HasBlock
  <2> QED BY <2>1
<1>4. /\ ChunkOwned(m, k) \subseteq T /\ \A u \in L : TaskOwned(m, u) \subseteq T
  BY SpacesTaken
<1>5. {b \in T \cup U : m[b].kind \in PagingKinds}
        = ChunkOwned(m, k) \cup TasksOwned(m, L \cup {t})
  BY <1>2, <1>3 DEF Spaces
<1>6. \A u \in L \cup {t} : TaskOwned(m, u) \cap ChunkOwned(m, k) = {}
  BY <1>4 DEF Spaces
<1>7. \A u, w \in L \cup {t} : u # w => TaskOwned(m, u) \cap TaskOwned(m, w) = {}
  BY <1>4 DEF Spaces
<1> QED BY <1>5, <1>6, <1>7 DEF Spaces

(* A task goes with its space. *)
LEMMA SpacesDrop ==
  ASSUME NEW m, NEW k, NEW L, NEW T, NEW t \in L, Spaces(m, k, L, T)
  PROVE  Spaces(m, k, L \ {t}, T \ TaskOwned(m, t))
<1> DEFINE U == TaskOwned(m, t)
<1>1. /\ \A u \in L \ {t} : TaskOwned(m, u) \cap U = {}
      /\ U \cap ChunkOwned(m, k) = {}
  BY DEF Spaces
<1>2. {b \in T \ U : m[b].kind \in PagingKinds} = {b \in T : m[b].kind \in PagingKinds} \ U
  OBVIOUS
<1>3. TasksOwned(m, L) = TasksOwned(m, L \ {t}) \cup U
  <2>1. \A b : b \in TasksOwned(m, L)
               <=> b \in TasksOwned(m, L \ {t}) \/ b \in TaskOwned(m, t)
    BY HasBlock
  <2> QED BY <2>1
<1> HIDE DEF U
<1>4. {b \in T \ U : m[b].kind \in PagingKinds}
        = ChunkOwned(m, k) \cup TasksOwned(m, L \ {t})
  <2>1. TasksOwned(m, L \ {t}) \cap U = {}
    BY <1>1, HasBlock
  <2>2. {b \in T : m[b].kind \in PagingKinds} = ChunkOwned(m, k) \cup TasksOwned(m, L)
    BY DEF Spaces
  <2> QED BY <1>1, <1>2, <1>3, <2>1, <2>2
<1> QED BY <1>4 DEF Spaces, U

(* With the same tables and entries a directory shows the same pages. *)
LEMMA TranslateKept ==
  ASSUME NEW m, NEW n, NEW d, NEW v \in Pages,
         n[d].tables = m[d].tables,
         \A i \in Index : n[m[d].tables[i]].entries = m[m[d].tables[i]].entries
  PROVE  Translate(n, d, v) = Translate(m, d, v)
<1>1. v \div ENTRIES \in Index
  BY DivMod
<1> QED BY <1>1 DEF Translate, paging_get_indexes

(* The views of a step that leaves tables alone. *)
LEMMA ViewsKept ==
  ASSUME NEW m \in [Block -> Struct], NEW n \in [Block -> Struct],
         NEW k, NEW L, NEW T, NEW f, Spaces(m, k, L, T), Views(m, k, L, f),
         \A b \in T : Kept(m, n, b),
         \A b \in T : m[b].kind = "table" => n[b].entries = m[b].entries,
         \A t \in L : n[m[t].process].ptr = m[m[t].process].ptr
  PROVE  Views(n, k, L, f)
<1>1. ASSUME NEW c, IsSpace(m, c), ChunkOwned(m, c) \subseteq T, NEW v \in Pages
      PROVE  Translate(n, n[c].directory, v) = Translate(m, m[c].directory, v)
  <2>1. PICK d : d = m[c].directory
    OBVIOUS
  <2>2. n[c].directory = d /\ n[d].tables = m[d].tables
    BY <1>1, <2>1, SpaceKept
  <2>3. \A i \in Index : m[d].tables[i] \in T /\ m[m[d].tables[i]].kind = "table"
    BY <1>1, <2>1 DEF ChunkOwned, IsSpace
  <2>4. \A i \in Index : n[m[d].tables[i]].entries = m[m[d].tables[i]].entries
    BY <2>3
  <2> QED BY <2>1, <2>2, <2>4, TranslateKept
<1>2. ASSUME NEW t \in L, NEW v \in Pages
      PROVE  Translate(n, DirectoryOf(n, t), v) =
               IF v = PROGRAM_VIRTUAL /\ n[t].process # f
               THEN [page |-> PageOf(n[n[t].process].ptr), flags |-> WRITEABLE]
               ELSE [page |-> v, flags |-> USER]
  <2>1. m[t].kind = "task" /\ IsSpace(m, m[t].page_directory)
    BY DEF Spaces
  <2>2. n[t].page_directory = m[t].page_directory /\ n[t].process = m[t].process
    BY <2>1, SpacesTaken DEF Kept
  <2>3. ChunkOwned(m, m[t].page_directory) \subseteq T
    BY SpacesTaken
  <2>4. Translate(n, DirectoryOf(n, t), v) = Translate(m, DirectoryOf(m, t), v)
    BY <1>1, <2>1, <2>2, <2>3 DEF DirectoryOf
  <2>5. n[n[t].process].ptr = m[m[t].process].ptr
    BY <2>2
  <2> QED BY <2>2, <2>4, <2>5 DEF Views
<1>3. ASSUME NEW v \in Pages \ {BOOT_VIRTUAL}
      PROVE  Translate(n, n[k].directory, v) = [page |-> v, flags |-> WRITEABLE]
  <2>1. IsSpace(m, k) /\ ChunkOwned(m, k) \subseteq T
    BY SpacesTaken DEF Spaces
  <2> QED BY <1>1, <2>1 DEF Views
<1> QED BY <1>2, <1>3 DEF Views

(* A new space maps every page to itself. *)
LEMMA NewSpaceShows ==
  ASSUME NEW m, NEW n, NEW S \in SUBSET Block, NEW flags, NewSpace(m, n, S, flags)
  PROVE  /\ IsSpace(n, ChunkIn(S)) /\ ChunkOwned(n, ChunkIn(S)) = S
         /\ \A v \in Pages : Translate(n, n[ChunkIn(S)].directory, v) = [page |-> v, flags |-> flags]
<1> DEFINE c == ChunkIn(S)
           d == DirectoryIn(S)
<1>1. /\ n \in [Block -> Struct] /\ n[c].kind = "chunk" /\ n[c].directory = d /\ n[d].kind = "directory"
      /\ \A i \in Index : /\ n[n[d].tables[i]].kind = "table"
                          /\ \A e \in Index : n[n[d].tables[i]].entries[e] = [page |-> i * ENTRIES + e, flags |-> flags]
      /\ \A i, j \in Index : n[d].tables[i] = n[d].tables[j] => i = j
      /\ S = {c, d} \cup {n[d].tables[i] : i \in Index}
  BY DEF NewSpace
<1> HIDE DEF c, d
<1>2. c \in Block
  BY DEF NewSpace, c
<1>3. IsSpace(n, c) /\ ChunkOwned(n, c) = S
  BY <1>1, <1>2 DEF IsSpace, ChunkOwned
<1>4. ASSUME NEW v \in Pages PROVE Translate(n, d, v) = [page |-> v, flags |-> flags]
  <2>1. v \div ENTRIES \in Index /\ v % ENTRIES \in Index /\ v = (v \div ENTRIES) * ENTRIES + (v % ENTRIES)
    BY DivMod
  <2>2. PICK i \in Index, e \in Index : i = v \div ENTRIES /\ e = v % ENTRIES
    BY <2>1
  <2>3. Translate(n, d, v) = n[n[d].tables[i]].entries[e]
    BY <2>2 DEF Translate, paging_get_indexes
  <2> QED BY <1>1, <2>1, <2>2, <2>3
<1> QED BY <1>1, <1>3, <1>4 DEF c

(* paging_set stores one entry, which is what the page is from then on. *)
LEMMA PagingSet ==
  ASSUME NEW m \in [Block -> Struct], NEW c, IsSpace(m, c),
         NEW v0 \in Pages, NEW val \in Entry,
         NEW n, n = paging_set(m, m[c].directory, v0, val)
  PROVE  LET d == m[c].directory IN
         /\ n \in [Block -> Struct]
         /\ \A b \in Block : Kept(m, n, b)
         /\ \A b \in Block \ {m[d].tables[v0 \div ENTRIES]} : n[b] = m[b]
         /\ \A v \in Pages : Translate(n, d, v) = IF v = v0 THEN val ELSE Translate(m, d, v)
<1>1. PICK d \in Block : d = m[c].directory
  BY SpaceBlocks
<1>2. PICK i0 \in Index, e0 \in Index : i0 = v0 \div ENTRIES /\ e0 = v0 % ENTRIES
  BY DivMod
<1>3. PICK b0 \in Block : b0 = m[d].tables[i0]
  BY <1>1, SpaceBlocks
<1>4. m[d].kind = "directory" /\ m[b0].kind = "table" /\ \A i \in Index : m[m[d].tables[i]].kind = "table"
  BY <1>1, <1>3 DEF IsSpace
<1>5. n = [m EXCEPT ![b0].entries[e0] = val]
  BY <1>1, <1>2, <1>3 DEF paging_set, paging_get_indexes
<1>6. m[b0] \in TableStruct
  BY <1>4, KindsAre
<1>7. PICK f \in [Index -> Entry] : m[b0] = [kind |-> "table", entries |-> f]
  BY <1>6 DEF TableStruct
<1>8. PICK g \in [Index -> Entry] : g = [f EXCEPT ![e0] = val]
  OBVIOUS
<1>9. n = [m EXCEPT ![b0] = [kind |-> "table", entries |-> g]]
  <2>1. n = [m EXCEPT ![b0] = [m[b0] EXCEPT !.entries = [m[b0].entries EXCEPT ![e0] = val]]]
    BY <1>5
  <2>2. m[b0].entries = f /\ [m[b0] EXCEPT !.entries = g] = [kind |-> "table", entries |-> g]
    BY <1>7
  <2> QED BY <1>8, <2>1, <2>2
<1>10. PICK r \in TableStruct : r = [kind |-> "table", entries |-> g]
  BY DEF TableStruct
<1>11. r \in Struct /\ r.kind = "table" /\ r.entries = g
  BY <1>10 DEF Struct
<1>12. n \in [Block -> Struct] /\ n[b0] = r /\ \A b \in Block \ {b0} : n[b] = m[b]
  BY <1>9, <1>10, <1>11
<1>13. \A b \in Block : Kept(m, n, b)
  BY <1>4, <1>11, <1>12 DEF Kept, PagingKinds
<1>14. ASSUME NEW v \in Pages
       PROVE  Translate(n, d, v) = IF v = v0 THEN val ELSE Translate(m, d, v)
  <2>1. PICK i \in Index, e \in Index : i = v \div ENTRIES /\ e = v % ENTRIES
    BY DivMod
  <2>2. v = v0 <=> i = i0 /\ e = e0
    BY <1>2, <2>1, DivMod
  <2>3. /\ Translate(n, d, v) = n[n[d].tables[i]].entries[e]
        /\ Translate(m, d, v) = m[m[d].tables[i]].entries[e]
    BY <2>1 DEF Translate, paging_get_indexes
  <2>4. n[d].tables = m[d].tables
    BY <1>4, <1>12
  <2>5. m[d].tables[i] \in Block
    BY <1>1, SpaceBlocks
  <2>6. CASE i = i0
    <3>1. Translate(n, d, v) = g[e] /\ Translate(m, d, v) = f[e]
      BY <1>3, <1>7, <1>11, <1>12, <2>3, <2>4, <2>6
    <3> QED BY <1>8, <2>2, <2>6, <3>1
  <2>7. CASE i # i0
    <3>1. m[d].tables[i] # b0
      BY <1>1, <1>3, <2>7 DEF IsSpace
    <3> QED BY <1>12, <2>2, <2>3, <2>4, <2>5, <2>7, <3>1
  <2> QED BY <2>6, <2>7
<1> QED BY <1>1, <1>2, <1>3, <1>12, <1>13, <1>14

-----------------------------------------------------------------------------
(* Processes *)

(* A step that leaves the blocks of the processes alone. *)
Untouched(m, n, P, U) ==
  \A p \in P : /\ n[p].kind = "process" /\ n[p].ptr = m[p].ptr
               /\ n[p].blocks = m[p].blocks /\ n[p].stack = m[p].stack
               /\ Holds(m, p) \subseteq U
               /\ \A b \in Holds(m, p) \ {p} : n[b].kind = m[b].kind

LEMMA OwnersKept ==
  ASSUME NEW m, NEW n, NEW P, NEW T, NEW U, Owners(m, P, T), Untouched(m, n, P, U)
  PROVE  Owners(n, P, U) /\ \A p \in P : Holds(n, p) = Holds(m, p)
<1>1. \A p \in P : /\ Holds(n, p) = Holds(m, p) /\ Binary(n, p) = Binary(m, p)
                   /\ Stack(n, p) = Stack(m, p)
  BY DEF Holds, Binary, Stack, Untouched
<1>2. ASSUME NEW p \in P PROVE IsProcess(n, p, U)
  <2>1. IsProcess(m, p, T)
    BY DEF Owners
  <2> QED BY <1>1, <2>1 DEF IsProcess, Untouched
<1> QED BY <1>1, <1>2 DEF Owners

(* A process is in its own body. *)
LEMMA InBody ==
  ASSUME NEW m, NEW p \in Block
  PROVE  p \in Body(p) /\ p \in Holds(m, p)
  BY BlocksAre, ProcessesAssumption DEF Body, Holds

(* One more process, in blocks of its own. *)
LEMMA OwnersAdd ==
  ASSUME NEW m, NEW P, NEW T, NEW p, Owners(m, P, T), IsProcess(m, p, T),
         \A q \in P \ {p} : Holds(m, q) \cap Holds(m, p) = {}
  PROVE  Owners(m, P \cup {p}, T)
  BY DEF Owners

LEMMA OwnersFewer ==
  ASSUME NEW m, NEW P, NEW Q, NEW T, Owners(m, P, T), Q \subseteq P
  PROVE  Owners(m, Q, T)
  BY DEF Owners

LEMMA OwnersRest ==
  ASSUME NEW m, NEW P, NEW T, NEW p, Owners(m, P, T), NEW q \in P, p \in P, q # p
  PROVE  Holds(m, q) \cap Holds(m, p) = {}
  BY DEF Owners

-----------------------------------------------------------------------------
(* Steps *)

LEMMA InSequence ==
  ASSUME NEW s \in Seq(Block)
  PROVE  /\ Len(s) \in Nat /\ Range(s) \subseteq Block
         /\ \A i \in 1..Len(s) : s[i] \in Block /\ s[i] \in Range(s)
         /\ \A x \in Range(s) : \E i \in 1..Len(s) : s[i] = x
<1>1. DOMAIN s = 1..Len(s) /\ Len(s) \in Nat /\ \A i \in 1..Len(s) : s[i] \in Block
  OBVIOUS
<1> QED BY <1>1 DEF Range

LEMMA TypedFacts ==
  ASSUME Typed
  PROVE  /\ heap_end \in Nat /\ 1..heap_end \subseteq Block
         /\ avail \subseteq 1..heap_end /\ avail \subseteq Block
         /\ avail \in SUBSET Nat /\ IsFiniteSet(avail) /\ Cardinality(avail) \in Nat
         /\ Taken \subseteq Block /\ Taken \subseteq 1..heap_end /\ Taken \cap avail = {}
         /\ mem \in [Block -> Struct] /\ Live \subseteq Block
<1>1. heap_end \in Nat /\ 1..heap_end \subseteq Block
  BY BlocksAre DEF Typed
<1>2. avail \in SUBSET (1..heap_end)
  BY DEF Typed
<1>3. IsFiniteSet(avail) /\ avail \in SUBSET Nat
  BY <1>2, BlocksAre DEF Typed
<1>4. Cardinality(avail) \in Nat
  BY <1>3, FS_CardinalityType
<1>5. Live \subseteq Block
  BY InSequence DEF Typed, Live
<1> QED BY <1>1, <1>2, <1>3, <1>4, <1>5 DEF Taken, Typed

(* What the heap hands out is available, if it is a block. *)
LEMMA KzallocIs ==
  ASSUME Typed, NEW a \in SUBSET avail, NEW n \in Nat
  PROVE  LET p == kzalloc(a, n) IN
         \/ p = NULL \/ p = OVER
         \/ n > 0 /\ p \in Block /\ p \in Nat /\ p..(p + n - 1) \subseteq a /\ p \in p..(p + n - 1)
<1> DEFINE fits == {b \in a : n > 0 /\ b..(b + n - 1) \subseteq a}
<1>1. fits \in SUBSET Nat /\ a \in SUBSET Nat /\ a \in SUBSET Block
  BY TypedFacts
<1>2. kzalloc(a, n) = IF fits # {} THEN Min(fits) ELSE IF heap_end \in a THEN OVER ELSE NULL
  BY DEF kzalloc
<1>3. CASE fits # {}
  <2>1. PICK p : p = Min(fits)
    OBVIOUS
  <2>2. p \in fits
    <3> HIDE DEF fits
    <3> QED BY <1>1, <1>3, <2>1, MinIsLeast
  <2>3. p \in a /\ n > 0 /\ p..(p + n - 1) \subseteq a
    BY <2>2
  <2>4. p \in Nat /\ p \in Block
    BY <1>1, <2>3
  <2>5. p \in p..(p + n - 1)
    BY <2>3, <2>4
  <2> HIDE DEF fits
  <2> QED BY <1>2, <1>3, <2>1, <2>3, <2>4, <2>5
<1>4. CASE fits = {}
  <2> HIDE DEF fits
  <2> QED BY <1>2, <1>4
<1> QED BY <1>3, <1>4

LEMMA NullsAre == NULL \notin Block /\ OVER \notin Block /\ NULL # OVER /\ NULL \in Pointer
<1>1. NULL # OVER /\ OVER \notin Nat
  BY DEF NULL, OVER
<1> QED BY <1>1, BlocksAre DEF Pointer

(* Nothing is said of a state in which the program has left its data. *)
LEMMA WildInv ==
  ASSUME Typed', mode' \in {"panic", "wild"}
  PROVE  ProcInv'
  BY DEF ProcInv, Running, TaskList

(* A step that changes the current task alone. *)
LEMMA QuietInv ==
  ASSUME ProcInv, mode # "boot",
         UNCHANGED <<heap_end, avail, mem, kernel_chunk, task_head, task_tail, tasks, stale_store,
                     processes, load>>,
         mode' = mode \/ mode' \in {"panic", "wild"},
         current_task' \in Pointer, current_directory' \in Pointer,
         Running /\ ~stale_store => current_task' = NULL \/ current_task' \in Live
  PROVE  ProcInv'
<1>1. Typed'
  BY DEF ProcInv, Typed
<1>2. CASE mode' \in {"panic", "wild"}
  BY <1>1, <1>2, WildInv
<1>3. CASE mode' = mode
  <2>1. Running' => RunInv'
    <3>1. Live' = Live /\ Taken' = Taken /\ Registered' = Registered /\ Loading' = Loading /\ ToMap' = ToMap
      BY DEF Live, Taken, Registered, Loading, ToMap
    <3>2. LoadInv => LoadInv'
      BY <3>1 DEF LoadInv
    <3> QED BY <1>3, <3>1, <3>2 DEF ProcInv, Running, RunInv
  <2>2. TaskList'
    BY <1>3 DEF ProcInv, TaskList, Running, Live
  <2> QED BY <1>1, <1>3, <2>1, <2>2 DEF ProcInv
<1> QED BY <1>2, <1>3

LEMMA ProcInit == Init => ProcInv
<1> SUFFICES ASSUME Init PROVE ProcInv
  OBVIOUS
<1>1. PICK n \in HeapSizes : heap_end = n /\ avail = 1..n
  BY DEF Init
<1>2. mem \in [Block -> Struct] /\ \A b \in Block : mem[b] = Bytes
  BY DEF Init, Struct
<1>3. tasks = <<>> /\ tasks \in Seq(Block)
  BY DEF Init
<1>4. Typed
  BY <1>1, <1>2, <1>3, NullsAre DEF Typed, Init
<1>5. Fresh
  BY <1>1, <1>2 DEF Init, Fresh
<1> QED BY <1>4, <1>5 DEF ProcInv, Init, Running, TaskList

(* The list's ends, and the turn of the current task, are live tasks. *)
LEMMA TurnsLive ==
  ASSUME ProcInv, Running, ~stale_store
  PROVE  /\ current_task = NULL \/ current_task \in Live
         /\ Live # {} => task_head \in Live
         /\ current_task \in Live => task_get_next \in Live
<1>1. /\ IF tasks = <<>> THEN task_head = NULL /\ task_tail = NULL
         ELSE task_head = Head(tasks) /\ task_tail = tasks[Len(tasks)]
      /\ \A i \in 1..Len(tasks) : mem[tasks[i]].next = IF i = Len(tasks) THEN NULL ELSE tasks[i + 1]
      /\ current_task = NULL \/ current_task \in Live
      /\ tasks \in Seq(Block)
  BY DEF ProcInv, TaskList, Typed
<1>2. Live # {} => task_head \in Live
  <2>1. Live # {} => tasks # <<>> /\ 1 \in 1..Len(tasks) /\ Head(tasks) = tasks[1]
    BY <1>1, InSequence DEF Live
  <2> QED BY <1>1, <2>1, InSequence DEF Live
<1>3. ASSUME current_task \in Live PROVE task_get_next \in Live
  <2>1. PICK i \in 1..Len(tasks) : tasks[i] = current_task
    BY <1>1, <1>3, InSequence DEF Live
  <2>2. mem[current_task].kind = "task"
    BY <1>3 DEF ProcInv, RunInv, Spaces
  <2>3. i # Len(tasks) => i + 1 \in 1..Len(tasks)
    BY <1>1, InSequence
  <2>4. i # Len(tasks) => mem[current_task].next \in Live
    BY <1>1, <2>1, <2>3, InSequence DEF Live
  <2>5. i = Len(tasks) => mem[current_task].next = NULL
    BY <1>1, <2>1
  <2> QED BY <1>2, <1>3, <2>2, <2>4, <2>5 DEF task_get_next
<1> QED BY <1>1, <1>2, <1>3

LEMMA SwitchInv ==
  ASSUME ProcInv, Ready, NEW t \in Pointer, task_switch(t),
         ~stale_store => t \in Live
  PROVE  ProcInv'
<1>1. mode = "run" /\ Typed /\ mem \in [Block -> Struct]
  BY TypedFacts DEF ProcInv, Ready, Running
<1>2. CASE t # NULL /\ mem[t].kind = "task" /\ mem[mem[t].page_directory].kind = "chunk"
  <2>1. current_task' = t /\ current_directory' = DirectoryOf(mem, t) /\ mode' = mode
    BY <1>2 DEF task_switch
  <2>2. mem[t] \in TaskStruct
    BY <1>1, <1>2, KindsAre DEF Pointer
  <2>3. mem[t].page_directory \in Block
    BY <2>2 DEF TaskStruct
  <2>4. mem[mem[t].page_directory] \in ChunkStruct
    BY <1>1, <1>2, <2>3, KindsAre
  <2>5. current_directory' \in Pointer
    BY <2>1, <2>4 DEF ChunkStruct, DirectoryOf, Pointer
  <2> QED BY <1>1, <2>1, <2>5, QuietInv DEF task_switch
<1>3. CASE ~(t # NULL /\ mem[t].kind = "task" /\ mem[mem[t].page_directory].kind = "chunk")
  <2>1. mode' = "wild" /\ UNCHANGED <<current_task, current_directory>>
    BY <1>3 DEF task_switch, Wild
  <2>2. current_task \in Pointer /\ current_directory \in Pointer
    BY <1>1 DEF Typed
  <2>3. Running /\ ~stale_store => current_task = NULL \/ current_task \in Live
    BY TurnsLive
  <2> QED BY <1>1, <2>1, <2>2, <2>3, QuietInv DEF task_switch
<1> QED BY <1>2, <1>3

(* The pointers that are switched to. *)
LEMMA TurnPointers ==
  ASSUME Typed, current_task # NULL
  PROVE  {current_task, task_head, task_get_next} \subseteq Pointer
<1>1. current_task \in Block /\ task_head \in Pointer /\ mem \in [Block -> Struct]
  BY DEF Typed, Pointer
<1>2. mem[current_task].kind = "task" => mem[current_task].next \in Pointer
  BY <1>1, KindsAre DEF TaskStruct
<1>3. task_get_next \in Pointer
  BY <1>1, <1>2, NullsAre DEF task_get_next
<1> QED BY <1>1, <1>3 DEF Pointer

LEMMA TurnsInv ==
  ASSUME ProcInv,
         \/ \E t \in Live : Ready /\ task_switch(t)
         \/ switch_next \/ task_page \/ task_run_first_ever_task
  PROVE  ProcInv'
<1>1. Typed
  BY DEF ProcInv
<1>2. ASSUME NEW t \in Live, Ready, task_switch(t) PROVE ProcInv'
  BY <1>1, <1>2, SwitchInv, TypedFacts DEF Pointer
<1>3. ASSUME switch_next PROVE ProcInv'
  BY <1>1, <1>3, SwitchInv, TurnsLive, TurnPointers DEF switch_next, Ready
<1>4. ASSUME task_page PROVE ProcInv'
  BY <1>1, <1>4, SwitchInv, TurnsLive, TurnPointers DEF task_page, Ready
<1>5. ASSUME task_run_first_ever_task PROVE ProcInv'
  <2>1. Ready /\ mode # "boot"
    BY <1>5 DEF task_run_first_ever_task, Ready, Running
  <2>2. ASSUME current_task # NULL, task_switch(task_head) PROVE ProcInv'
    BY <1>1, <2>1, <2>2, SwitchInv, TurnsLive, TurnPointers DEF Ready
  <2>3. ASSUME current_task = NULL, mode' = "panic",
               UNCHANGED <<avail, mem, listVars, processes, load>>, Keeps
        PROVE  ProcInv'
    BY <1>1, <2>1, <2>3, QuietInv, NullsAre DEF Keeps, listVars, Typed
  <2> QED BY <1>5, <2>2, <2>3 DEF task_run_first_ever_task
<1> QED BY <1>2, <1>3, <1>4, <1>5

(* The processes of live tasks are in use, and the one being loaded is     *)
(* none of them until its task is made, and is in no slot.                 *)
LEMMA LoadApart ==
  ASSUME ProcInv, Running
  PROVE  /\ \A t \in Live : mem[t].process \in Block /\ mem[mem[t].process].kind = "process"
         /\ \A p \in Registered \cup Loading :
              /\ p \in Block /\ p \in Taken /\ mem[p].kind = "process" /\ mem[p] \in ProcessStruct
              /\ Holds(mem, p) \subseteq Taken
         /\ Loading \cap Registered = {}
         /\ load.pc # "map" => \A t \in Live : mem[t].process \in Registered
<1>1. /\ Owners(mem, Registered \cup Loading, Taken) /\ Tied(mem, Live, Registered \cup Loading)
      /\ Filled(mem, processes) /\ LoadInv /\ Typed
  BY DEF ProcInv, RunInv
<1>2. \A p \in Registered \cup Loading : p \in Block /\ mem[p].kind = "process" /\ Holds(mem, p) \subseteq Taken
  BY <1>1 DEF Owners, IsProcess
<1>3. \A p \in Registered \cup Loading : mem[p] \in ProcessStruct /\ p \in Taken
  BY <1>1, <1>2, KindsAre, InBody, TypedFacts
<1>4. \A t \in Live : mem[t].process \in Registered \cup Loading /\ mem[mem[t].process].task = t
  BY <1>1 DEF Tied
<1>5. Loading \cap Registered = {}
  <2> SUFFICES ASSUME load # Idle, load.process \in Registered PROVE FALSE
    BY DEF Loading
  <2>1. PICK s \in Slots : processes[s] = load.process /\ processes[s] # NULL
    BY <1>1 DEF Registered, Typed
  <2> QED BY <1>1, <2>1 DEF Filled, LoadInv
<1>6. ASSUME load.pc # "map", NEW t \in Live PROVE mem[t].process \in Registered
  <2>1. t # NULL
    BY <1>1, TypedFacts, NullsAre
  <2>2. load # Idle => mem[load.process].task = NULL
    BY <1>1, <1>6 DEF LoadInv
  <2> QED BY <1>4, <2>1, <2>2 DEF Loading
<1> QED BY <1>2, <1>3, <1>4, <1>5, <1>6

(* A step of loading writes the blocks Z, which were available, and the    *)
(* blocks W of the process being loaded, and takes some of Z.              *)
Takes(Z, W) ==
  /\ Z \subseteq avail /\ W \subseteq Loading
  /\ avail' \subseteq avail /\ avail \ avail' \subseteq Z
  /\ mem' \in [Block -> Struct]
  /\ \A b \in Block \ (Z \cup W) : mem'[b] = mem[b]
  /\ \A b \in Z : mem'[b].kind \notin PagingKinds
  /\ \A b \in W : mem'[b].kind = "process"
  /\ UNCHANGED <<heap_end, kernel_chunk, current_directory, listVars, processes, mode>>

LEMMA TakesTyped ==
  ASSUME ProcInv, Running, NEW Z, NEW W, Takes(Z, W), load' \in {Idle} \cup Load
  PROVE  Typed'
<1>1. Typed
  BY DEF ProcInv
<1>2. /\ UNCHANGED <<heap_end, kernel_chunk, current_directory, task_head, task_tail, current_task,
                     tasks, stale_store, processes, mode>>
      /\ avail' \subseteq avail /\ mem' \in [Block -> Struct]
  BY DEF Takes, listVars
<1>3. avail' \subseteq 1..heap_end'
  BY <1>1, <1>2 DEF Typed
<1> QED BY <1>1, <1>2, <1>3 DEF Typed

(* It leaves the tasks and the processes in the table alone. *)
LEMMA TakesKeep ==
  ASSUME ProcInv, Running, NEW Z, NEW W, Takes(Z, W), load.pc # "map"
  PROVE  /\ Spaces(mem', kernel_chunk', Live', Taken') /\ Views(mem', kernel_chunk', Live', NULL)
         /\ Owners(mem', Registered', Taken') /\ Tied(mem', Live', Registered')
         /\ Filled(mem', processes') /\ TaskList'
         /\ Registered' = Registered /\ Live' = Live
         /\ Taken \subseteq Taken' /\ avail \ avail' \subseteq Taken'
         /\ \A i, j \in 1..Len(tasks') : tasks'[i] = tasks'[j] => i = j
         /\ \A q \in Registered : Holds(mem', q) = Holds(mem, q)
<1>1. Typed /\ RunInv
  BY DEF ProcInv
<1>2. /\ Spaces(mem, kernel_chunk, Live, Taken) /\ Views(mem, kernel_chunk, Live, NULL)
      /\ Owners(mem, Registered, Taken) /\ Filled(mem, processes)
      /\ Tied(mem, Live, Registered \cup Loading)
      /\ \A i, j \in 1..Len(tasks) : tasks[i] = tasks[j] => i = j
  BY <1>1, OwnersFewer DEF RunInv, ToMap
<1>3. /\ UNCHANGED <<heap_end, kernel_chunk, task_head, task_tail, current_task, tasks, stale_store,
                     processes, mode>>
      /\ mem' \in [Block -> Struct] /\ mem \in [Block -> Struct]
      /\ Z \subseteq avail /\ avail' \subseteq avail /\ avail \ avail' \subseteq Z
  BY <1>1, TypedFacts DEF Takes, listVars
<1>4. Live' = Live /\ Registered' = Registered
  BY <1>3 DEF Live, Registered
<1>5. /\ Taken \subseteq Block /\ Taken \cap avail = {} /\ Taken \subseteq Taken'
      /\ Taken' \ Taken \subseteq Z /\ avail \ avail' \subseteq Taken'
  BY <1>1, <1>3, TypedFacts DEF Taken
<1>6. \A b \in W : b \in Block /\ mem[b].kind = "process" /\ mem'[b].kind = "process" /\ b \notin Registered
  BY LoadApart DEF Takes
<1>7. \A b \in Taken : b \notin W => mem'[b] = mem[b]
  BY <1>3, <1>5 DEF Takes
<1>8. \A b \in Taken : Kept(mem, mem', b) /\ (mem[b].kind = "table" => mem'[b].entries = mem[b].entries)
  BY <1>6, <1>7 DEF Kept, PagingKinds
<1>9. \A b \in Taken' \ Taken : mem'[b].kind \notin PagingKinds
  BY <1>5 DEF Takes
<1>10. Spaces(mem', kernel_chunk, Live, Taken')
  BY <1>2, <1>3, <1>5, <1>8, <1>9, SpacesKept
<1>11. \A q \in Registered : mem'[q] = mem[q] /\ q \in Taken /\ Holds(mem, q) \subseteq Taken
  BY <1>6, <1>7, LoadApart
<1>12. \A t \in Live : mem[t].process \in Registered
  BY LoadApart
<1>13. Views(mem', kernel_chunk, Live, NULL)
  BY <1>2, <1>3, <1>8, <1>11, <1>12, ViewsKept
<1>14. \A t \in Live : mem'[t] = mem[t]
  <2>1. \A t \in Live : mem[t].kind = "task" /\ t \in Taken
    BY <1>2, SpacesTaken DEF Spaces
  <2> QED BY <1>6, <1>7, <2>1
<1>15. Owners(mem', Registered, Taken') /\ \A q \in Registered : Holds(mem', q) = Holds(mem, q)
  <2>1. ASSUME NEW q \in Registered, NEW b \in Holds(mem, q) \ {q} PROVE mem'[b].kind = mem[b].kind
    <3>1. b \in Taken
      BY <1>11
    <3> QED BY <1>6, <1>7, <3>1
  <2>2. \A q \in Registered : mem[q].kind = "process"
    BY LoadApart
  <2>3. Untouched(mem, mem', Registered, Taken')
    BY <1>5, <1>11, <2>1, <2>2 DEF Untouched
  <2> QED BY <1>2, <2>3, OwnersKept
<1>16. Tied(mem', Live, Registered)
  <2>1. \A t \in Live : mem'[mem[t].process] = mem[mem[t].process]
    BY <1>11, <1>12
  <2> QED BY <1>2, <1>12, <1>14, <2>1 DEF Tied
<1>17. Filled(mem', processes)
  <2>1. \A s \in Slots : processes[s] # NULL => processes[s] \in Registered
    BY <1>1 DEF Registered, Typed
  <2> QED BY <1>2, <1>11, <2>1 DEF Filled
<1>18. TaskList'
  <2>1. \A i \in 1..Len(tasks) : mem'[tasks[i]] = mem[tasks[i]]
    BY <1>1, <1>14, InSequence DEF Typed, Live
  <2> QED BY <1>3, <1>4, <2>1 DEF ProcInv, TaskList, Running
<1> QED BY <1>2, <1>3, <1>4, <1>5, <1>10, <1>13, <1>15, <1>16, <1>17, <1>18

(* The load ends early. *)
LEMMA TakesReturn ==
  ASSUME ProcInv, Running, NEW Z, NEW W, Takes(Z, W), load.pc # "map", load' = Idle
  PROVE  ProcInv'
<1>1. Typed'
  BY TakesTyped
<1>2. Loading' = {} /\ ToMap' = NULL /\ LoadInv'
  BY DEF Loading, ToMap, LoadInv, Idle
<1>3. RunInv'
  BY <1>2, TakesKeep DEF RunInv
<1>4. mode' # "boot"
  BY DEF Takes, Running
<1> QED BY <1>1, <1>3, <1>4, TakesKeep DEF ProcInv

(* The load goes on. *)
LEMMA TakesGoOn ==
  ASSUME ProcInv, Running, NEW Z, NEW W, Takes(Z, W), load.pc # "map",
         load' \in Load, load'.pc # "map", NEW p, p = load'.process,
         IsProcess(mem', p, Taken'),
         Holds(mem', p) \subseteq Z \/ (load # Idle /\ p = load.process /\ Holds(mem', p) \subseteq Z \cup Holds(mem, p)),
         LoadInv'
  PROVE  ProcInv'
<1>1. Typed' /\ load' # Idle
  BY TakesTyped DEF Load, Idle
<1>2. Loading' = {p} /\ ToMap' = NULL
  BY <1>1 DEF Loading, ToMap
<1>3. Owners(mem', Registered' \cup Loading', Taken')
  <2>1. ASSUME NEW q \in Registered' \ {p} PROVE Holds(mem', q) \cap Holds(mem', p) = {}
    <3>1. q \in Registered /\ Holds(mem', q) = Holds(mem, q) /\ Holds(mem, q) \subseteq Taken
      BY TakesKeep, LoadApart
    <3>2. Taken \cap Z = {}
      BY TypedFacts DEF ProcInv, Takes
    <3>3. ASSUME load # Idle, p = load.process PROVE Holds(mem, q) \cap Holds(mem, p) = {}
      <4>1. p \in Registered \cup Loading /\ Owners(mem, Registered \cup Loading, Taken)
        BY <3>3 DEF ProcInv, RunInv, Loading
      <4> QED BY <3>1, <4>1, OwnersRest
    <3> QED BY <3>1, <3>2, <3>3
  <2> QED BY <1>2, <2>1, TakesKeep, OwnersAdd
<1>4. Tied(mem', Live', Registered' \cup Loading')
  BY TakesKeep DEF Tied
<1>5. RunInv'
  BY <1>2, <1>3, <1>4, TakesKeep DEF RunInv
<1>6. mode' # "boot"
  BY DEF Takes, Running
<1> QED BY <1>1, <1>5, <1>6, TakesKeep DEF ProcInv

LEMMA LoadForSlotInv ==
  ASSUME ProcInv, NEW slot \in process_get_free_slot, NEW program \in Programs,
         process_load_for_slot(program, slot)
  PROVE  ProcInv'
<1>1. /\ Typed /\ Running /\ mode # "boot" /\ load = Idle /\ load.pc # "map"
      /\ slot \in Slots /\ processes[slot] = NULL
  BY DEF ProcInv, Typed, process_load_for_slot, process_get_free_slot, Ready, Running, Idle
<1>2. PICK p : p = kzalloc(avail, ProcessBlocks)
  OBVIOUS
<1>3. \/ p = NULL \/ p = OVER
      \/ p \in Block /\ p \in Nat /\ Body(p) \subseteq avail /\ p \in Body(p)
  BY <1>1, <1>2, KzallocIs, ProcessesAssumption DEF Body
<1>4. CASE p = NULL \/ p = OVER
  <2>1. mode' = mode \/ mode' \in {"panic", "wild"}
    BY <1>2, <1>4, NullsAre DEF process_load_for_slot, Wild
  <2>2. /\ UNCHANGED <<heap_end, avail, mem, kernel_chunk, task_head, task_tail, tasks, stale_store,
                       processes, load>>
        /\ UNCHANGED <<current_task, current_directory>>
    BY <1>1, <1>2, <1>4, NullsAre DEF process_load_for_slot, Keeps, listVars, Return
  <2> QED BY <1>1, <2>1, <2>2, TurnsLive, QuietInv DEF Typed
<1>5. CASE p \in Block /\ p \in Nat /\ Body(p) \subseteq avail /\ p \in Body(p)
  <2>1. PICK r : r = [kind |-> "process", id |-> slot, task |-> NULL, ptr |-> NULL,
                      blocks |-> 0, stack |-> NULL]
    OBVIOUS
  <2>2. r \in Struct
    BY <1>1, <2>1, NullsAre DEF Struct, ProcessStruct
  <2>3. /\ avail' = avail \ Body(p)
        /\ mem' = [b \in Block |-> IF b = p THEN r ELSE IF b \in Body(p) THEN Bytes ELSE mem[b]]
        /\ load' = [pc |-> "binary", program |-> program, process |-> p]
        /\ UNCHANGED <<heap_end, kernel_chunk, current_directory, listVars, processes, mode>>
    BY <1>2, <1>5, <2>1, NullsAre DEF process_load_for_slot, Keeps, Body
  <2>4. /\ mem'[p] = r /\ \A b \in Body(p) \ {p} : mem'[b] = Bytes
        /\ \A b \in Block \ Body(p) : mem'[b] = mem[b]
    BY <1>1, <1>5, <2>3, TypedFacts
  <2>5. mem' \in [Block -> Struct]
    BY <1>1, <2>2, <2>3, TypedFacts DEF Struct
  <2>6. Takes(Body(p), {})
    BY <1>5, <2>1, <2>3, <2>4, <2>5 DEF Takes, Bytes, PagingKinds
  <2>7. load' \in Load /\ load'.pc = "binary" /\ load'.process = p
    BY <1>5, <2>3 DEF Load
  <2>8. Holds(mem', p) = Body(p) /\ Binary(mem', p) = {} /\ Stack(mem', p) = {}
    BY <2>1, <2>4 DEF Holds, Binary, Stack
  <2>9. Body(p) \subseteq Taken'
    BY <1>1, <1>5, <2>3, TakesKeep, <2>6
  <2>10. IsProcess(mem', p, Taken')
    BY <1>5, <2>1, <2>4, <2>8, <2>9 DEF IsProcess, Bytes
  <2>11. LoadInv'
    BY <1>1, <2>1, <2>3, <2>4, <2>7 DEF LoadInv
  <2> QED BY <1>1, <2>6, <2>7, <2>8, <2>10, <2>11, TakesGoOn
<1> QED BY <1>3, <1>4, <1>5

LEMMA ClearedIs ==
  ASSUME NEW m \in [Block -> Struct], NEW Z
  PROVE  /\ Cleared(m, Z) \in [Block -> Struct]
         /\ \A b \in Block : Cleared(m, Z)[b] = IF b \in Z THEN Bytes ELSE m[b]
  BY DEF Cleared, Struct

(* The process being loaded. *)
LEMMA LoadIs ==
  ASSUME ProcInv, Running, load.pc \in {"binary", "stack", "task", "map"}
  PROVE  /\ load \in Load /\ load # Idle /\ Loading = {load.process}
         /\ load.process \in Block /\ load.process \in Taken
         /\ load.process \notin avail /\ mem[load.process] \in ProcessStruct
         /\ load.program \in Programs
         /\ IsProcess(mem, load.process, Taken)
<1>1. load \in Load /\ load # Idle
  BY DEF ProcInv, Typed, Idle
<1>2. Loading = {load.process} /\ load.process \in Block /\ load.program \in Programs
  BY <1>1 DEF Loading, Load
<1>3. load.process \in Taken /\ mem[load.process] \in ProcessStruct
  BY <1>2, LoadApart
<1>4. IsProcess(mem, load.process, Taken)
  BY <1>2 DEF ProcInv, RunInv, Owners
<1> QED BY <1>1, <1>2, <1>3, <1>4, TypedFacts DEF ProcInv

LEMMA StackInv ==
  ASSUME ProcInv, process_stack
  PROVE  ProcInv'
<1>1. /\ Typed /\ Running /\ mode # "boot" /\ load.pc = "stack" /\ load.pc # "map"
      /\ load.pc \in {"binary", "stack", "task", "map"}
  BY DEF ProcInv, process_stack, Running
<1>2. PICK s : s = kzalloc(avail, StackBlocks)
  OBVIOUS
<1> DEFINE Z == s..(s + StackBlocks - 1)
<1>3. \/ s = NULL \/ s = OVER
      \/ s \in Block /\ Z \subseteq avail
  BY <1>1, <1>2, KzallocIs, ProcessesAssumption
<1>4. CASE s = NULL
  <2>1. /\ UNCHANGED <<avail, mem, mode, listVars, processes>> /\ Keeps /\ load' = Idle
    BY <1>2, <1>4 DEF process_stack, Return
  <2>2. Takes({}, {})
    BY <1>1, <2>1, TypedFacts DEF Takes, Keeps
  <2> QED BY <1>1, <2>1, <2>2, TakesReturn
<1>5. CASE s = OVER
  <2>1. /\ mode' = "wild" /\ UNCHANGED <<heap_end, avail, mem, kernel_chunk, task_head, task_tail, tasks,
                                         stale_store, processes, load, current_task, current_directory>>
    BY <1>2, <1>5, NullsAre DEF process_stack, Wild, Keeps, listVars
  <2> QED BY <1>1, <2>1, TurnsLive, QuietInv DEF Typed
<1>6. CASE s \in Block /\ Z \subseteq avail
  <2>1. PICK p \in Block : p = load.process
    BY <1>1, LoadIs
  <2>2. PICK m : m = Cleared(mem, Z)
    OBVIOUS
  <2>3. /\ avail' = avail \ Z /\ mem' = [m EXCEPT ![p].stack = s]
        /\ load' = [load EXCEPT !.pc = "task"]
        /\ UNCHANGED <<heap_end, kernel_chunk, current_directory, listVars, processes, mode>>
    BY <1>2, <1>6, <2>1, <2>2, NullsAre DEF process_stack, Keeps
  <2>4. /\ p \in Taken /\ p \notin avail /\ mem[p] \in ProcessStruct /\ Loading = {p}
        /\ load \in Load /\ load # Idle /\ IsProcess(mem, p, Taken)
    BY <1>1, <2>1, LoadIs
  <2>5. m \in [Block -> Struct] /\ \A b \in Block : m[b] = IF b \in Z THEN Bytes ELSE mem[b]
    <3>1. mem \in [Block -> Struct]
      BY <1>1, TypedFacts
    <3> HIDE DEF Z
    <3> QED BY <2>2, <3>1, ClearedIs
  <2>6. m[p] = mem[p]
    BY <1>6, <2>4, <2>5
  <2>7. PICK r \in ProcessStruct : r = [mem[p] EXCEPT !.stack = s]
    BY <1>6, <2>4 DEF ProcessStruct, Pointer
  <2>8. /\ r.kind = "process" /\ r.stack = s /\ r.ptr = mem[p].ptr /\ r.blocks = mem[p].blocks
        /\ r.id = mem[p].id /\ r.task = mem[p].task
    BY <2>4, <2>7 DEF ProcessStruct
  <2>9. mem' = [m EXCEPT ![p] = r]
    BY <2>3, <2>6, <2>7
  <2>10. /\ mem' \in [Block -> Struct] /\ mem'[p] = r
         /\ \A b \in Block \ (Z \cup {p}) : mem'[b] = mem[b]
         /\ \A b \in Z : mem'[b] = Bytes
    <3>1. r \in Struct
      BY DEF Struct
    <3>2. Z \subseteq Block /\ p \notin Z
      BY <1>1, <1>6, <2>4, TypedFacts
    <3> HIDE DEF Z
    <3> QED BY <2>5, <2>9, <3>1, <3>2
  <2> HIDE DEF Z
  <2>11. Takes(Z, {p})
    <3>1. avail' \subseteq avail /\ avail \ avail' \subseteq Z
      BY <2>3
    <3>2. \A b \in Z : mem'[b].kind \notin PagingKinds
      BY <2>10 DEF Bytes, PagingKinds
    <3>3. \A b \in {p} : mem'[b].kind = "process"
      BY <2>8, <2>10
    <3> QED BY <1>6, <2>3, <2>4, <2>10, <3>1, <3>2, <3>3 DEF Takes
  <2>12. load' \in Load /\ load'.pc = "task" /\ load'.process = p /\ load' # Idle
    BY <2>1, <2>3, <2>4 DEF Load, Idle
  <2>13. s # NULL /\ LoadInv
    BY <1>1, <1>6, NullsAre DEF ProcInv, RunInv
  <2>14. Stack(mem, p) = {} /\ Stack(mem', p) = Z /\ Binary(mem', p) = Binary(mem, p)
    BY <1>1, <2>1, <2>4, <2>8, <2>10, <2>13 DEF Stack, Binary, LoadInv, Z
  <2>15. Holds(mem, p) = Body(p) \cup Binary(mem, p) /\ Holds(mem', p) = Holds(mem, p) \cup Z
    BY <2>14 DEF Holds
  <2>16. /\ Taken \subseteq Taken' /\ Z \subseteq Taken' /\ Holds(mem, p) \subseteq Taken
         /\ Taken \cap Z = {} /\ Taken \subseteq Block
    BY <1>1, <1>6, <2>3, <2>4, <2>11, TakesKeep, TypedFacts DEF IsProcess
  <2>17. \A b \in Holds(mem', p) \ {p} : mem'[b].kind = "bytes"
    <3>1. ASSUME NEW b \in Holds(mem, p) \ {p} PROVE mem'[b].kind = "bytes"
      BY <2>4, <2>10, <2>16 DEF IsProcess
    <3> QED BY <2>10, <2>15, <3>1 DEF Bytes
  <2>18. IsProcess(mem', p, Taken')
    <3>1. Body(p) \cap Z = {} /\ Binary(mem, p) \cap Z = {}
      BY <2>15, <2>16
    <3> QED BY <2>4, <2>8, <2>10, <2>14, <2>15, <2>16, <2>17, <3>1 DEF IsProcess
  <2>19. LoadInv'
    <3>1. /\ processes[mem[p].id] = NULL /\ mem[p].ptr # NULL /\ mem[p].blocks > 0
          /\ mem[p].task = NULL
      BY <1>1, <2>1, <2>4, <2>13 DEF LoadInv
    <3>2. /\ processes'[mem'[p].id] = NULL /\ mem'[p].ptr # NULL /\ mem'[p].blocks > 0
          /\ mem'[p].stack # NULL /\ mem'[p].task = NULL
      BY <2>3, <2>8, <2>10, <2>13, <3>1
    <3> QED BY <2>12, <3>2 DEF LoadInv
  <2> QED BY <1>1, <2>1, <2>4, <2>11, <2>12, <2>15, <2>18, <2>19, TakesGoOn
<1> QED BY <1>3, <1>4, <1>5, <1>6

(* The binary is read, or the load ends. *)
LEMMA BinaryInv ==
  ASSUME ProcInv, process_load_binary
  PROVE  ProcInv'
<1>1. /\ Typed /\ Running /\ mode # "boot" /\ load.pc = "binary" /\ load.pc # "map"
      /\ load.pc \in {"binary", "stack", "task", "map"}
  BY DEF ProcInv, process_load_binary, Running
<1>2. PICK path : path = fopen
  OBVIOUS
<1>3. path \subseteq avail
  BY <1>2 DEF fopen, Lowest
<1>4. mem \in [Block -> Struct] /\ avail \subseteq Block
  BY <1>1, TypedFacts
<1>5. CASE ~Opened
  <2>1. /\ avail' = avail \ path /\ mem' = Cleared(mem, path) /\ load' = Idle
        /\ UNCHANGED <<heap_end, kernel_chunk, current_directory, listVars, processes, mode>>
    BY <1>2, <1>5 DEF process_load_binary, Return, Keeps
  <2>2. /\ mem' \in [Block -> Struct] /\ \A b \in Block \ path : mem'[b] = mem[b]
        /\ \A b \in path : mem'[b] = Bytes
    BY <1>3, <1>4, <2>1, ClearedIs
  <2>3. Takes(path, {})
    BY <1>3, <2>1, <2>2 DEF Takes, Bytes, PagingKinds
  <2> QED BY <1>1, <2>1, <2>3, TakesReturn
<1>6. CASE Opened
  <2>1. PICK held : held = Lowest(avail \ path, FdBlocks)
    OBVIOUS
  <2>2. held \subseteq avail
    BY <2>1 DEF Lowest
  <2>3. PICK left \in SUBSET avail : left = (avail \ path) \ held
    OBVIOUS
  <2>4. PICK n \in Nat : n = load.program.blocks /\ (n = 0 => ~load.program.readable)
    BY <1>1, LoadIs, ProcessesAssumption
  <2>5. PICK ptr : ptr = kzalloc(left, n)
    OBVIOUS
  <2>6. \/ ptr = NULL \/ ptr = OVER
        \/ n > 0 /\ ptr \in Block /\ ptr..(ptr + n - 1) \subseteq left
    BY <1>1, <2>5, KzallocIs
  <2>7. PICK data : data = IF ptr \in Block THEN ptr..(ptr + n - 1) ELSE {}
    OBVIOUS
  <2>8. data \subseteq avail
    BY <2>3, <2>6, <2>7, NullsAre
  <2>9. PICK Z : Z = path \cup held \cup data
    OBVIOUS
  <2>10. PICK m : m = Cleared(mem, Z)
    OBVIOUS
  <2>11. Z \subseteq avail
    BY <1>3, <2>2, <2>8, <2>9
  <2>12. CASE n > 0 /\ ptr = OVER
    <3>1. mode' = "wild" /\ UNCHANGED <<avail, mem, load, listVars, processes>> /\ Keeps
      BY <1>2, <1>6, <2>1, <2>3, <2>4, <2>5, <2>12 DEF process_load_binary, Wild
    <3>2. UNCHANGED <<heap_end, kernel_chunk, task_head, task_tail, tasks, stale_store,
                      current_task, current_directory>>
      BY <3>1 DEF Keeps, listVars
    <3> QED BY <1>1, <3>1, <3>2, TurnsLive, QuietInv DEF Typed
  <2>13. CASE ~(n > 0 /\ ptr = OVER)
    <3>1. /\ avail' = (avail \ path) \ data
          /\ UNCHANGED <<heap_end, kernel_chunk, current_directory, listVars, processes, mode>>
          /\ IF ptr # NULL /\ load.program.readable
             THEN /\ mem' = [m EXCEPT ![load.process].ptr = ptr, ![load.process].blocks = n]
                  /\ load' = [load EXCEPT !.pc = "stack"]
             ELSE mem' = m /\ load' = Idle
      BY <1>2, <1>6, <2>1, <2>3, <2>4, <2>5, <2>7, <2>9, <2>10, <2>13
         DEF process_load_binary, Return, Keeps
    <3>2. avail' \subseteq avail /\ avail \ avail' \subseteq Z
      BY <2>9, <3>1
    <3>3. m \in [Block -> Struct] /\ \A b \in Block : m[b] = IF b \in Z THEN Bytes ELSE mem[b]
      BY <1>4, <2>10, ClearedIs
    <3>4. CASE ~(ptr # NULL /\ load.program.readable)
      <4>1. mem' = m /\ load' = Idle
        BY <3>1, <3>4
      <4>2. \A b \in Z : mem'[b].kind \notin PagingKinds
        BY <1>4, <2>11, <3>3, <4>1 DEF Bytes, PagingKinds
      <4>3. Takes(Z, {})
        BY <2>11, <3>1, <3>2, <3>3, <4>1, <4>2 DEF Takes
      <4> QED BY <1>1, <4>1, <4>3, TakesReturn
    <3>5. CASE ptr # NULL /\ load.program.readable
      <4>1. n > 0 /\ ptr \in Block /\ data = ptr..(ptr + n - 1)
        BY <2>4, <2>6, <2>7, <2>13, <3>5
      <4>2. PICK p \in Block : p = load.process
        BY <1>1, LoadIs
      <4>3. /\ p \in Taken /\ p \notin avail /\ mem[p] \in ProcessStruct /\ Loading = {p}
            /\ load \in Load /\ load # Idle /\ IsProcess(mem, p, Taken)
        BY <1>1, <4>2, LoadIs
      <4>4. m[p] = mem[p]
        BY <2>11, <3>3, <4>3
      <4>5. PICK q \in ProcessStruct : q = [mem[p] EXCEPT !.ptr = ptr]
        BY <4>1, <4>3 DEF ProcessStruct, Pointer
      <4>6. PICK r \in ProcessStruct : r = [q EXCEPT !.blocks = n]
        BY DEF ProcessStruct
      <4>7. /\ r.kind = "process" /\ r.ptr = ptr /\ r.blocks = n /\ r.stack = mem[p].stack
            /\ r.id = mem[p].id /\ r.task = mem[p].task
        BY <4>3, <4>5, <4>6 DEF ProcessStruct
      <4>8. /\ mem' \in [Block -> Struct] /\ mem'[p] = r
            /\ \A b \in Block \ (Z \cup {p}) : mem'[b] = mem[b]
            /\ \A b \in Z : mem'[b] = Bytes
        <5>1. mem' = [[m EXCEPT ![p].ptr = ptr] EXCEPT ![p].blocks = n]
          BY <3>1, <3>5, <4>2
        <5>2. PICK m1 : m1 = [m EXCEPT ![p].ptr = ptr]
          OBVIOUS
        <5>3. m1 = [m EXCEPT ![p] = q]
          BY <4>4, <4>5, <5>2
        <5>4. m1[p] = q
          BY <3>3, <5>3
        <5>5. mem' = [m1 EXCEPT ![p] = r]
          BY <4>6, <5>1, <5>2, <5>4
        <5>6. q \in Struct /\ r \in Struct
          BY DEF Struct
        <5>7. Z \subseteq Block /\ p \notin Z
          BY <1>4, <2>11, <4>3
        <5>8. m1 \in [Block -> Struct] /\ \A b \in Block \ {p} : m1[b] = m[b]
          BY <3>3, <5>3, <5>6
        <5>9. mem' \in [Block -> Struct] /\ mem'[p] = r /\ \A b \in Block \ {p} : mem'[b] = m1[b]
          BY <5>5, <5>6, <5>8
        <5> QED BY <3>3, <5>7, <5>8, <5>9
      <4>9. Takes(Z, {p})
        <5>1. \A b \in Z : mem'[b].kind \notin PagingKinds
          BY <4>8 DEF Bytes, PagingKinds
        <5>2. \A b \in {p} : mem'[b].kind = "process"
          BY <4>7, <4>8
        <5> QED BY <2>11, <3>1, <3>2, <4>3, <4>8, <5>1, <5>2 DEF Takes
      <4>10. load' \in Load /\ load'.pc = "stack" /\ load'.process = p /\ load' # Idle
        BY <3>1, <3>5, <4>2, <4>3 DEF Load, Idle
      <4>11. ptr # NULL /\ LoadInv
        BY <1>1, <3>5 DEF ProcInv, RunInv
      <4>12. /\ Binary(mem, p) = {} /\ Stack(mem, p) = {} /\ Stack(mem', p) = {} /\ Binary(mem', p) = data
        BY <1>1, <4>1, <4>2, <4>3, <4>7, <4>8, <4>11 DEF Stack, Binary, LoadInv
      <4>13. Holds(mem, p) = Body(p) /\ Holds(mem', p) = Body(p) \cup data
        BY <4>12 DEF Holds
      <4>14. /\ Taken \subseteq Taken' /\ data \subseteq Taken' /\ Body(p) \subseteq Taken
             /\ Taken \cap Z = {} /\ Taken \subseteq Block
        <5>1. Taken \subseteq Taken' /\ avail \ avail' \subseteq Taken'
          BY <1>1, <4>9, TakesKeep
        <5>2. data \subseteq avail \ avail'
          BY <2>8, <3>1
        <5> QED BY <1>1, <2>11, <4>3, <4>13, <5>1, <5>2, TypedFacts DEF IsProcess
      <4>15. \A b \in Holds(mem', p) \ {p} : mem'[b].kind = "bytes"
        <5>1. ASSUME NEW b \in Body(p) \ {p} PROVE mem'[b].kind = "bytes"
          BY <4>3, <4>8, <4>13, <4>14 DEF IsProcess
        <5>2. \A b \in data : mem'[b].kind = "bytes"
          BY <2>9, <4>8 DEF Bytes
        <5> QED BY <4>13, <5>1, <5>2
      <4>16. IsProcess(mem', p, Taken')
        <5>1. Body(p) \cap data = {}
          BY <2>9, <4>14
        <5> QED BY <4>7, <4>8, <4>12, <4>13, <4>14, <4>15, <5>1 DEF IsProcess
      <4>17. LoadInv'
        BY <1>1, <3>1, <4>1, <4>2, <4>3, <4>7, <4>8, <4>10, <4>11 DEF LoadInv
      <4>18. Holds(mem', p) \subseteq Z \cup Holds(mem, p)
        BY <2>9, <4>13
      <4> QED BY <1>1, <4>2, <4>3, <4>9, <4>10, <4>16, <4>17, <4>18, TakesGoOn
    <3> QED BY <3>4, <3>5
  <2> QED BY <2>12, <2>13
<1> QED BY <1>5, <1>6

LEMMA VirtualPages == PROGRAM_VIRTUAL \in Pages /\ BOOT_VIRTUAL \in Pages
<1>1. ENTRIES \in Nat /\ ENTRIES >= 2
  BY ProcessesAssumption
<1>2. \A E \in Nat : E >= 2 => E * E >= 2 * E /\ E * E \in Nat
  OBVIOUS
<1> QED BY <1>1, <1>2 DEF PROGRAM_VIRTUAL, BOOT_VIRTUAL, Pages

(* The entry of a program's or the kernel's page. *)
LEMMA HeapEntry ==
  ASSUME NEW b \in Block
  PROVE  [page |-> PageOf(b), flags |-> WRITEABLE] \in Entry
<1>1. PICK n \in HeapSizes : b \in 1..n
  BY DEF Block
<1>2. PICK P \in Nat, E \in Nat : P = HEAP_PAGE /\ E = ENTRIES * ENTRIES /\ n \in Nat /\ P + n <= E
  BY <1>1, ProcessesAssumption
<1>3. P + b - 1 \in 0..(E - 1)
  BY <1>1, <1>2
<1>4. PageOf(b) \in Pages
  BY <1>2, <1>3 DEF PageOf, Pages
<1> QED BY <1>4 DEF Entry

(* Boot takes the kernel's space and one page. *)
LEMMA KernelMainInv ==
  ASSUME ProcInv, kernel_main
  PROVE  ProcInv'
<1>1. Typed /\ Fresh /\ mode' = "run"
  BY DEF ProcInv, kernel_main
<1>2. PICK S : S = Lowest(avail, ChunkBlocks)
  OBVIOUS
<1>3. PICK ptr : ptr = Min(avail \ S)
  OBVIOUS
<1>4. PICK m : m = paging_new_4gb(mem, S, WRITEABLE)
  OBVIOUS
<1>5. PICK c : c = ChunkIn(S)
  OBVIOUS
<1>6. /\ avail' = (avail \ S) \ {ptr}
      /\ mem' = paging_set(m, DirectoryIn(S), BOOT_VIRTUAL, [page |-> PageOf(ptr), flags |-> WRITEABLE])
      /\ kernel_chunk' = c /\ current_directory' = DirectoryIn(S)
      /\ UNCHANGED <<heap_end, task_head, task_tail, current_task, tasks, stale_store, processes, load>>
  BY <1>2, <1>3, <1>4, <1>5 DEF kernel_main, listVars
<1>7. /\ avail \in SUBSET Nat /\ IsFiniteSet(avail) /\ avail \subseteq Block /\ avail = 1..heap_end
      /\ Cardinality(avail) \in Nat /\ Cardinality(avail) >= ENTRIES + 3
  <2>1. heap_end \in Nat /\ heap_end >= ENTRIES + 3
    BY <1>1, BlocksAre DEF Typed
  <2>2. avail = 1..heap_end
    BY <1>1 DEF Fresh
  <2>3. Cardinality(1..heap_end) = heap_end
    <3>1. ENTRIES \in Nat
      BY ProcessesAssumption
    <3>2. 1 \in Int /\ heap_end \in Int /\ (IF 1 > heap_end THEN 0 ELSE heap_end - 1 + 1) = heap_end
      BY <2>1, <3>1
    <3> QED BY <3>2, FS_Interval
  <2> QED BY <1>1, <2>1, <2>2, <2>3, TypedFacts
<1>8. ENTRIES \in Nat /\ ChunkBlocks = ENTRIES + 2
  BY ProcessesAssumption DEF ChunkBlocks
<1>9. S \subseteq avail /\ Cardinality(S) = ChunkBlocks
  <2>1. ChunkBlocks \in Nat /\ ChunkBlocks <= Cardinality(avail)
    BY <1>7, <1>8
  <2>2. avail \in SUBSET Nat /\ IsFiniteSet(avail)
    BY <1>7
  <2> QED BY <1>2, <2>1, <2>2, LowestHas
<1>10. IsFiniteSet(S) /\ S \in SUBSET Block
  BY <1>7, <1>9, FS_Subset
<1>11. ptr \in avail \ S
  <2>1. avail \cap S = S
    BY <1>9
  <2>2. IsFiniteSet(avail \ S) /\ Cardinality(avail \ S) = Cardinality(avail) - Cardinality(S)
    <3>1. IsFiniteSet(avail)
      BY <1>7
    <3> QED BY <2>1, <3>1, FS_Difference
  <2>3. Cardinality(avail \ S) # 0
    BY <1>7, <1>8, <1>9, <2>2
  <2>4. avail \ S # {}
    BY <2>3, FS_EmptySet
  <2> QED BY <1>3, <1>7, <2>4, MinIsLeast
<1>12. NewSpace(mem, m, S, WRITEABLE)
  BY <1>1, <1>4, <1>9, <1>10, PagingNew, TypedFacts
<1>13. /\ m \in [Block -> Struct] /\ c \in S /\ m[c].directory = DirectoryIn(S) /\ DirectoryIn(S) \in S
       /\ \A b \in Block \ S : m[b] = mem[b]
  BY <1>5, <1>12 DEF NewSpace
<1>14. /\ IsSpace(m, c) /\ ChunkOwned(m, c) = S
       /\ \A v \in Pages : Translate(m, m[c].directory, v) = [page |-> v, flags |-> WRITEABLE]
  BY <1>5, <1>10, <1>12, NewSpaceShows
<1>15. /\ mem' \in [Block -> Struct] /\ \A b \in Block : Kept(m, mem', b)
       /\ \A v \in Pages \ {BOOT_VIRTUAL} :
            Translate(mem', m[c].directory, v) = [page |-> v, flags |-> WRITEABLE]
  <2>1. PICK val \in Entry : val = [page |-> PageOf(ptr), flags |-> WRITEABLE]
    BY <1>7, <1>11, HeapEntry
  <2>2. mem' = paging_set(m, m[c].directory, BOOT_VIRTUAL, val)
    BY <1>6, <1>13, <2>1
  <2> QED BY <1>13, <1>14, <2>2, VirtualPages, PagingSet
<1>16. IsSpace(mem', c) /\ ChunkOwned(mem', c) = S /\ mem'[c].directory = m[c].directory
  BY <1>10, <1>13, <1>14, <1>15, SpaceKept
<1>17. Taken' = S \cup {ptr} /\ Live' = {} /\ Registered' = {} /\ Loading' = {} /\ ToMap' = NULL
  <2>1. Taken' = S \cup {ptr}
    BY <1>6, <1>7, <1>9, <1>11 DEF Taken
  <2>2. Live' = {}
    BY <1>1, <1>6 DEF Fresh, Live, Range
  <2>3. Registered' = {}
    BY <1>1, <1>6 DEF Fresh, Registered, Typed
  <2> QED BY <1>1, <1>6, <2>1, <2>2, <2>3 DEF Fresh, Loading, ToMap, Idle
<1>18. Spaces(mem', c, {}, S \cup {ptr})
  <2>1. \A b \in S : mem'[b].kind \in PagingKinds
    BY <1>15, <1>16, SpaceBlocks DEF PagingKinds
  <2>2. mem'[ptr].kind \notin PagingKinds
    BY <1>1, <1>7, <1>11, <1>13, <1>15 DEF Kept, Fresh, Bytes, PagingKinds
  <2>3. {b \in S \cup {ptr} : mem'[b].kind \in PagingKinds} = S
    BY <2>1, <2>2
  <2>4. TasksOwned(mem', {}) = {}
    BY DEF TasksOwned
  <2> QED BY <1>16, <2>3, <2>4 DEF Spaces
<1>19. Views(mem', c, {}, NULL)
  BY <1>15, <1>16 DEF Views
<1>20. RunInv'
  <2>1. Owners(mem', {}, Taken') /\ Tied(mem', {}, {})
    BY DEF Owners, Tied
  <2>2. Filled(mem', processes') /\ LoadInv' /\ tasks' = <<>>
    BY <1>1, <1>6 DEF Filled, LoadInv, Fresh
  <2>3. \A i, j \in 1..Len(tasks') : tasks'[i] = tasks'[j] => i = j
    BY <2>2
  <2> QED BY <1>6, <1>17, <1>18, <1>19, <2>1, <2>2, <2>3 DEF RunInv
<1>21. Typed'
  <2>1. avail' \subseteq 1..heap_end'
    BY <1>6, <1>7
  <2>2. c \in Pointer /\ DirectoryIn(S) \in Pointer
    BY <1>10, <1>13 DEF Pointer
  <2> QED BY <1>1, <1>6, <1>15, <2>1, <2>2 DEF Typed
<1>22. TaskList'
  <2>1. tasks' = <<>> /\ task_head' = NULL /\ task_tail' = NULL /\ current_task' = NULL
    <3>1. tasks = <<>> /\ task_head = NULL /\ task_tail = NULL /\ current_task = NULL
      BY <1>1 DEF Fresh
    <3> QED BY <1>6, <3>1
  <2>2. \A i \in 1..Len(tasks') : FALSE
    BY <2>1
  <2> QED BY <2>1, <2>2 DEF TaskList
<1> QED BY <1>1, <1>20, <1>21, <1>22 DEF ProcInv

(* The program's page is mapped in the space of its own task, and in no    *)
(* other.                                                                  *)
LEMMA MapMemoryInv ==
  ASSUME ProcInv, process_map_memory
  PROVE  ProcInv'
<1>1. /\ Typed /\ Running /\ mode # "boot" /\ load.pc = "map" /\ RunInv /\ LoadInv
      /\ load.pc \in {"binary", "stack", "task", "map"}
  BY DEF ProcInv, process_map_memory, Running, RunInv
<1>2. PICK p \in Block : p = load.process
  BY <1>1, LoadIs
<1>3. /\ p \in Taken /\ mem[p] \in ProcessStruct /\ Loading = {p} /\ load # Idle /\ ToMap = p
  BY <1>1, <1>2, LoadIs DEF ToMap
<1>4. PICK t : t = mem[p].task
  OBVIOUS
<1>5. PICK s : s = mem[p].id
  OBVIOUS
<1>6. /\ t \in Live /\ mem[t].process = p /\ mem[p].ptr # NULL /\ mem[p].blocks > 0
      /\ mem[p].stack # NULL /\ processes[s] = NULL /\ s \in Slots
  BY <1>1, <1>2, <1>3, <1>4, <1>5 DEF LoadInv, ProcessStruct
<1>7. PICK c : c = mem[t].page_directory
  OBVIOUS
<1>8. /\ Spaces(mem, kernel_chunk, Live, Taken) /\ Views(mem, kernel_chunk, Live, p)
      /\ Owners(mem, Registered \cup {p}, Taken) /\ Tied(mem, Live, Registered \cup {p})
      /\ Filled(mem, processes)
  BY <1>1, <1>3 DEF RunInv
<1>9. mem[t].kind = "task" /\ IsSpace(mem, c) /\ mem \in [Block -> Struct]
  BY <1>1, <1>6, <1>7, <1>8, TypedFacts DEF Spaces
<1>10. PICK val \in Entry : val = [page |-> PageOf(mem[p].ptr), flags |-> WRITEABLE]
  <2>1. mem[p].ptr \in Block
    BY <1>3, <1>6 DEF ProcessStruct, Pointer
  <2> QED BY <2>1, HeapEntry
<1>11. /\ mem' = paging_set(mem, mem[c].directory, PROGRAM_VIRTUAL, val)
       /\ processes' = [processes EXCEPT ![s] = p] /\ load' = Idle
       /\ UNCHANGED <<heap_end, avail, kernel_chunk, current_directory, task_head, task_tail,
                      current_task, tasks, stale_store, mode>>
  BY <1>2, <1>4, <1>5, <1>6, <1>7, <1>10
     DEF process_map_memory, paging_map_range, DirectoryOf, Keeps, listVars, Return
<1>12. PICK b0 : b0 = mem[mem[c].directory].tables[PROGRAM_VIRTUAL \div ENTRIES]
  OBVIOUS
<1>13. mem[b0].kind = "table" /\ b0 \in TaskOwned(mem, t)
  <2>1. PROGRAM_VIRTUAL \div ENTRIES \in Index
    BY VirtualPages, DivMod
  <2> QED BY <1>7, <1>9, <1>12, <2>1 DEF IsSpace, TaskOwned, ChunkOwned
<1>14. /\ mem' \in [Block -> Struct] /\ \A b \in Block : Kept(mem, mem', b)
       /\ \A b \in Block \ {b0} : mem'[b] = mem[b]
       /\ \A v \in Pages : Translate(mem', mem[c].directory, v)
                             = IF v = PROGRAM_VIRTUAL THEN val ELSE Translate(mem, mem[c].directory, v)
  BY <1>9, <1>11, <1>12, VirtualPages, PagingSet
<1>15. /\ Live' = Live /\ Taken' = Taken /\ Loading' = {} /\ ToMap' = NULL /\ kernel_chunk' = kernel_chunk
       /\ Taken \subseteq Block /\ Live \subseteq Block
  BY <1>1, <1>11, TypedFacts DEF Live, Taken, Loading, ToMap, Idle
<1>16. Spaces(mem', kernel_chunk, Live, Taken)
  BY <1>8, <1>9, <1>14, <1>15, SpacesKept
<1>17. \A b \in Block : mem[b].kind # "table" => mem'[b] = mem[b]
  BY <1>13, <1>14
<1>18. \A u \in Live : mem[u].process \in Block /\ mem[mem[u].process].kind = "process" /\ mem[u].kind = "task"
  BY <1>1, <1>8, LoadApart DEF Spaces
<1>19. \A u \in Live : mem'[u] = mem[u] /\ mem'[mem[u].process] = mem[mem[u].process]
  BY <1>15, <1>17, <1>18
<1>20. Views(mem', kernel_chunk, Live, NULL)
  <2>1. PICK L : L = Live \ {t}
    OBVIOUS
  <2>2. PICK T : T = Taken \ TaskOwned(mem, t)
    OBVIOUS
  <2>3. Spaces(mem, kernel_chunk, L, T)
    BY <1>6, <1>8, <2>1, <2>2, SpacesDrop
  <2>4. Views(mem, kernel_chunk, L, p)
    BY <1>8, <2>1 DEF Views
  <2>5. \A b \in T : Kept(mem, mem', b) /\ mem'[b] = mem[b]
    BY <1>13, <1>14, <1>15, <2>2
  <2>6. Views(mem', kernel_chunk, L, p)
    BY <1>9, <1>14, <1>19, <2>1, <2>3, <2>4, <2>5, ViewsKept
  <2>7. \A u \in L : mem'[u].process # p /\ mem'[u].process # NULL
    BY <1>4, <1>8, <1>18, <1>19, <2>1, NullsAre DEF Tied
  <2>8. ASSUME NEW v \in Pages
        PROVE  Translate(mem', DirectoryOf(mem', t), v) =
                 IF v = PROGRAM_VIRTUAL /\ mem'[t].process # NULL
                 THEN [page |-> PageOf(mem'[mem'[t].process].ptr), flags |-> WRITEABLE]
                 ELSE [page |-> v, flags |-> USER]
    <3>1. mem'[t] = mem[t] /\ mem'[p] = mem[p] /\ p # NULL
      BY <1>6, <1>19, NullsAre
    <3>2. mem'[c].directory = mem[c].directory
      BY <1>9, <1>14, SpaceBlocks DEF Kept, IsSpace
    <3>3. DirectoryOf(mem', t) = mem[c].directory /\ DirectoryOf(mem, t) = mem[c].directory
      BY <1>7, <3>1, <3>2 DEF DirectoryOf
    <3>4. v # PROGRAM_VIRTUAL => Translate(mem, mem[c].directory, v) = [page |-> v, flags |-> USER]
      BY <1>6, <1>8, <3>3 DEF Views
    <3> QED BY <1>6, <1>10, <1>14, <3>1, <3>3, <3>4
  <2> QED BY <2>1, <2>6, <2>7, <2>8 DEF Views
<1>21. Registered' = Registered \cup {p} /\ p \notin Registered
  <2>1. processes \in [Slots -> Pointer] /\ processes' \in [Slots -> Pointer] /\ p # NULL
    BY <1>1, <1>6, <1>11, NullsAre DEF Typed, Pointer
  <2>2. \A x : x \in Registered' <=> x \in Registered \/ x = p
    BY <1>6, <1>11, <2>1 DEF Registered
  <2>3. p \notin Registered
    BY <1>1, <1>3, LoadApart
  <2> QED BY <2>2, <2>3
<1>22. Owners(mem', Registered \cup {p}, Taken)
  <2>1. ASSUME NEW q \in Registered \cup {p}
        PROVE  /\ mem'[q] = mem[q] /\ mem[q].kind = "process" /\ Holds(mem, q) \subseteq Taken
               /\ \A b \in Holds(mem, q) \ {q} : mem'[b].kind = mem[b].kind
    <3>1. q \in Block /\ mem[q].kind = "process" /\ Holds(mem, q) \subseteq Taken
      BY <1>1, <1>3, LoadApart
    <3>2. \A b \in Holds(mem, q) \ {q} : mem[b].kind = "bytes" /\ b \in Block
      BY <1>8, <1>15, <3>1 DEF Owners, IsProcess
    <3> QED BY <1>17, <3>1, <3>2
  <2>2. Untouched(mem, mem', Registered \cup {p}, Taken)
    BY <2>1 DEF Untouched
  <2> QED BY <1>8, <2>2, OwnersKept
<1>23. Tied(mem', Live, Registered \cup {p})
  BY <1>8, <1>19 DEF Tied
<1>24. Filled(mem', processes')
  <2>1. \A x \in Slots : processes[x] # NULL =>
          mem'[processes[x]] = mem[processes[x]]
    <3>1. \A x \in Slots : processes[x] # NULL => processes[x] \in Registered
      BY <1>1 DEF Registered, Typed
    <3> QED BY <1>1, <1>17, <3>1, LoadApart
  <2>2. mem'[p] = mem[p]
    BY <1>6, <1>19
  <2>3. processes \in [Slots -> Pointer]
    BY <1>1 DEF Typed
  <2> QED BY <1>5, <1>6, <1>8, <1>11, <2>1, <2>2, <2>3 DEF Filled
<1>25. LoadInv' /\ \A i, j \in 1..Len(tasks') : tasks'[i] = tasks'[j] => i = j
  BY <1>1, <1>11 DEF LoadInv, RunInv
<1>26. RunInv'
  <2>1. Registered' \cup Loading' = Registered \cup {p}
    BY <1>15, <1>21
  <2> QED BY <1>15, <1>16, <1>20, <1>22, <1>23, <1>24, <1>25, <2>1 DEF RunInv
<1>27. Typed'
  <2>1. processes' \in [Slots -> Pointer]
    BY <1>1, <1>11 DEF Typed, Pointer
  <2> QED BY <1>1, <1>11, <1>14, <2>1 DEF Typed
<1>28. TaskList'
  <2>1. \A i \in 1..Len(tasks) : mem'[tasks[i]] = mem[tasks[i]]
    BY <1>1, <1>19, InSequence DEF Typed, Live
  <2> QED BY <1>11, <1>15, <2>1 DEF ProcInv, TaskList, Running
<1>29. mode' # "boot"
  BY <1>1, <1>11
<1> QED BY <1>26, <1>27, <1>28, <1>29 DEF ProcInv

(* The end of task_new changes links alone. *)
LEMMA AppendIs ==
  ASSUME Typed, NEW m \in [Block -> Struct], NEW t \in Block, m[t].kind = "task",
         list_append(m, t), task_head # NULL => task_tail \in Block /\ m[task_tail].kind = "task"
  PROVE  /\ mem' \in [Block -> Struct]
         /\ \A b \in Block : Kept(m, mem', b) /\ (m[b].kind # "task" => mem'[b] = m[b])
         /\ \A b \in Block : m[b].kind = "task" /\ (task_head # NULL => b # task_tail)
                               => mem'[b].next = m[b].next
         /\ task_head # NULL => mem'[task_tail].next = t
<1>1. CASE task_head = NULL
  <2>1. mem' = m
    BY <1>1 DEF list_append
  <2> QED BY <1>1, <2>1 DEF Kept
<1>2. CASE task_head # NULL
  <2>1. PICK l \in Block : l = task_tail /\ m[l].kind = "task"
    BY <1>2
  <2>2. m[l] \in TaskStruct
    BY <2>1, KindsAre
  <2>3. PICK q \in TaskStruct : q = [m[l] EXCEPT !.next = t]
    BY <2>2 DEF TaskStruct, Pointer
  <2>4. /\ q.kind = "task" /\ q.next = t /\ q.page_directory = m[l].page_directory
        /\ q.process = m[l].process
    BY <2>2, <2>3 DEF TaskStruct
  <2>5. mem' = [[m EXCEPT ![l].next = t] EXCEPT ![t].prev = l]
    BY <1>2, <2>1 DEF list_append
  <2>6. PICK m1 : m1 = [m EXCEPT ![l].next = t]
    OBVIOUS
  <2>7. m1 = [m EXCEPT ![l] = q]
    BY <2>3, <2>6
  <2>8. q \in Struct
    BY DEF Struct
  <2>9. m1 \in [Block -> Struct] /\ m1[l] = q /\ \A b \in Block \ {l} : m1[b] = m[b]
    BY <2>7, <2>8
  <2>10. m1[t].kind = "task"
    BY <2>4, <2>9
  <2>11. m1[t] \in TaskStruct
    BY <2>9, <2>10, KindsAre
  <2>12. PICK r \in TaskStruct : r = [m1[t] EXCEPT !.prev = l]
    BY <2>11 DEF TaskStruct, Pointer
  <2>13. /\ r.kind = "task" /\ r.next = m1[t].next /\ r.page_directory = m1[t].page_directory
         /\ r.process = m1[t].process
    BY <2>11, <2>12 DEF TaskStruct
  <2>14. mem' = [m1 EXCEPT ![t] = r]
    BY <2>5, <2>6, <2>12
  <2>15. r \in Struct
    BY DEF Struct
  <2>16. mem' \in [Block -> Struct] /\ mem'[t] = r /\ \A b \in Block \ {t} : mem'[b] = m1[b]
    BY <2>9, <2>14, <2>15
  <2>17. /\ mem'[l].kind = "task" /\ mem'[l].next = t /\ mem'[l].page_directory = m[l].page_directory
         /\ mem'[l].process = m[l].process
    BY <2>4, <2>9, <2>13, <2>16
  <2>18. ASSUME t # l
         PROVE  /\ mem'[t].kind = "task" /\ mem'[t].next = m[t].next
                /\ mem'[t].page_directory = m[t].page_directory /\ mem'[t].process = m[t].process
    BY <2>9, <2>13, <2>16, <2>18
  <2>19. \A b \in Block \ {l, t} : mem'[b] = m[b]
    BY <2>9, <2>16
  <2>20. ASSUME NEW b \in Block
         PROVE  Kept(m, mem', b) /\ (m[b].kind # "task" => mem'[b] = m[b])
    <3>1. CASE b = l
      BY <2>1, <2>17, <3>1 DEF Kept, PagingKinds
    <3>2. CASE b = t /\ t # l
      BY <2>18, <3>2 DEF Kept, PagingKinds
    <3>3. CASE b # l /\ b # t
      BY <2>19, <3>3 DEF Kept
    <3> QED BY <3>1, <3>2, <3>3
  <2> QED BY <1>2, <2>1, <2>16, <2>17, <2>18, <2>19, <2>20
<1> QED BY <1>1, <1>2

LEMMA AppendRange ==
  ASSUME NEW s \in Seq(Block), NEW t \in Block
  PROVE  /\ Append(s, t) \in Seq(Block) /\ Range(Append(s, t)) = Range(s) \cup {t}
         /\ Len(Append(s, t)) = Len(s) + 1 /\ Append(s, t)[Len(s) + 1] = t
         /\ \A i \in 1..Len(s) : Append(s, t)[i] = s[i]
<1>1. PICK u \in Seq(Block) : u = Append(s, t)
  <2>1. Append(s, t) \in Seq(Block)
    OBVIOUS
  <2> QED BY <2>1
<1>2. Len(u) = Len(s) + 1 /\ u[Len(s) + 1] = t /\ \A i \in 1..Len(s) : u[i] = s[i]
  BY <1>1
<1>3. Len(s) \in Nat
  OBVIOUS
<1>4. \A x : x \in Range(u) <=> x \in Range(s) \/ x = t
  <2>1. ASSUME NEW x \in Range(u) PROVE x \in Range(s) \/ x = t
    <3>1. PICK i \in 1..Len(u) : u[i] = x
      BY InSequence
    <3>2. i \in 1..Len(s) \/ i = Len(s) + 1
      BY <1>2, <1>3
    <3> QED BY <1>2, <3>1, <3>2, InSequence
  <2>2. ASSUME NEW x \in Range(s) PROVE x \in Range(u)
    <3>1. PICK i \in 1..Len(s) : s[i] = x
      BY InSequence
    <3>2. i \in 1..Len(u)
      BY <1>2, <1>3
    <3> QED BY <1>2, <3>1, <3>2, InSequence
  <2>3. t \in Range(u)
    <3>1. Len(s) + 1 \in 1..Len(u)
      BY <1>2, <1>3
    <3> QED BY <1>2, <3>1, InSequence
  <2> QED BY <2>1, <2>2, <2>3
<1>5. Range(u) = Range(s) \cup {t}
  BY <1>4
<1> QED BY <1>1, <1>2, <1>5

(* The memory in which the new task is linked. *)
TaskBuilt(m, S, t, p, c) ==
  /\ m \in [Block -> Struct] /\ IsSpace(m, c) /\ ChunkOwned(m, c) = S
  /\ \A v \in Pages : Translate(m, m[c].directory, v) = [page |-> v, flags |-> USER]
  /\ m[t] = task_init(c, p)
  /\ m[p].kind = "process" /\ m[p].task = t /\ m[p].id = mem[p].id /\ m[p].ptr = mem[p].ptr
  /\ m[p].blocks = mem[p].blocks /\ m[p].stack = mem[p].stack
  /\ \A b \in Block \ (S \cup {t, p}) : m[b] = mem[b]

LEMMA TaskMemory ==
  ASSUME Typed, NEW p \in Block, NEW t \in Block, NEW S \in SUBSET Block,
         mem[p] \in ProcessStruct, t # p, t \notin S, p \notin S,
         IsFiniteSet(S), Cardinality(S) = ChunkBlocks, NEW c, c = ChunkIn(S), NEW m,
         m = paging_new_4gb([mem EXCEPT ![t] = task_init(c, p), ![p].task = t], S, USER)
  PROVE  TaskBuilt(m, S, t, p, c)
<1>1. mem \in [Block -> Struct] /\ S \in SUBSET Nat /\ ENTRIES \in Nat
  BY BlocksAre, ProcessesAssumption DEF Typed
<1>2. c \in Block
  <2>1. ENTRIES + 1 \in 0..(Cardinality(S) - 1)
    BY <1>1 DEF ChunkBlocks
  <2> QED BY <1>1, <2>1, NthIs DEF ChunkIn
<1>3. PICK q \in TaskStruct : q = task_init(c, p)
  BY <1>2, NullsAre DEF TaskStruct, task_init
<1>4. PICK r \in ProcessStruct : r = [mem[p] EXCEPT !.task = t]
  BY DEF ProcessStruct, Pointer
<1>5. /\ r.kind = "process" /\ r.task = t /\ r.id = mem[p].id /\ r.ptr = mem[p].ptr
      /\ r.blocks = mem[p].blocks /\ r.stack = mem[p].stack
  BY <1>4 DEF ProcessStruct
<1>6. PICK m0 : m0 = [mem EXCEPT ![t] = task_init(c, p), ![p].task = t]
  OBVIOUS
<1>7. PICK m1 : m1 = [mem EXCEPT ![t] = q]
  OBVIOUS
<1>8. q \in Struct /\ r \in Struct
  BY DEF Struct
<1>9. m1 \in [Block -> Struct] /\ m1[t] = q /\ \A b \in Block \ {t} : m1[b] = mem[b]
  BY <1>1, <1>7, <1>8
<1>10. m0 = [m1 EXCEPT ![p].task = t]
  BY <1>3, <1>6, <1>7
<1>11. m0 = [m1 EXCEPT ![p] = r]
  BY <1>4, <1>9, <1>10
<1>12. /\ m0 \in [Block -> Struct] /\ m0[t] = q /\ m0[p] = r
       /\ \A b \in Block \ {t, p} : m0[b] = mem[b]
  BY <1>8, <1>9, <1>11
<1>13. NewSpace(m0, m, S, USER)
  BY <1>6, <1>12, PagingNew
<1>14. m \in [Block -> Struct] /\ \A b \in Block \ S : m[b] = m0[b]
  BY <1>13 DEF NewSpace
<1>15. /\ IsSpace(m, c) /\ ChunkOwned(m, c) = S
       /\ \A v \in Pages : Translate(m, m[c].directory, v) = [page |-> v, flags |-> USER]
  <2>1. PICK f : f = USER
    OBVIOUS
  <2>2. NewSpace(m0, m, S, f)
    BY <1>13, <2>1
  <2>3. /\ IsSpace(m, ChunkIn(S)) /\ ChunkOwned(m, ChunkIn(S)) = S
        /\ \A v \in Pages : Translate(m, m[ChunkIn(S)].directory, v) = [page |-> v, flags |-> f]
    BY ONLY <2>2, S \in SUBSET Block, NewSpaceShows
  <2> QED BY <2>1, <2>3
<1>16. /\ m[t] = task_init(c, p) /\ m[p] = r
       /\ \A b \in Block \ (S \cup {t, p}) : m[b] = mem[b]
  BY <1>3, <1>12, <1>14
<1> QED BY <1>5, <1>14, <1>15, <1>16 DEF TaskBuilt

(* A new task is the last of the list, with a space of its own. *)
LEMMA TaskNewInv ==
  ASSUME ProcInv, task_new
  PROVE  ProcInv'
<1>1. /\ Typed /\ Running /\ mode # "boot" /\ load.pc = "task" /\ load.pc # "map" /\ RunInv /\ LoadInv
      /\ load.pc \in {"binary", "stack", "task", "map"}
  BY DEF ProcInv, task_new, Running, RunInv
<1>2. PICK p \in Block : p = load.process
  BY <1>1, LoadIs
<1>3. /\ p \in Taken /\ p \notin avail /\ mem[p] \in ProcessStruct /\ Loading = {p}
      /\ load \in Load /\ load # Idle
  BY <1>1, <1>2, LoadIs
<1>4. PICK t : t = Min(avail)
  OBVIOUS
<1>5. PICK S : S = Lowest(avail \ {t}, ChunkBlocks)
  OBVIOUS
<1>9. PICK c : c = ChunkIn(S)
  OBVIOUS
<1>6. PICK m : m = paging_new_4gb([mem EXCEPT ![t] = task_init(c, p), ![p].task = t], S, USER)
  OBVIOUS
<1> DEFINE Can == /\ Cardinality(avail) > ChunkBlocks
                  /\ task_head # NULL => task_tail # NULL /\ m[task_tail].kind = "task"
<1>7. CASE ~Can
  <2>1. mode' = "wild" /\ UNCHANGED <<avail, mem, listVars, load, processes>> /\ Keeps
    BY <1>2, <1>4, <1>5, <1>6, <1>7, <1>9 DEF task_new, Wild
  <2>2. UNCHANGED <<heap_end, kernel_chunk, task_head, task_tail, tasks, stale_store,
                    current_task, current_directory>>
    BY <2>1 DEF Keeps, listVars
  <2> QED BY <1>1, <2>1, <2>2, TurnsLive, QuietInv DEF Typed
<1>8. CASE Can
  <2>1. /\ avail' = avail \ ({t} \cup S) /\ list_append(m, t) /\ load' = [load EXCEPT !.pc = "map"]
        /\ UNCHANGED <<heap_end, kernel_chunk, current_directory, current_task, stale_store,
                       processes, mode>>
    BY <1>2, <1>4, <1>5, <1>6, <1>8, <1>9 DEF task_new, Keeps
  <2>2. /\ avail \in SUBSET Nat /\ IsFiniteSet(avail) /\ avail \subseteq Block
        /\ Cardinality(avail) \in Nat /\ Taken \cap avail = {} /\ Taken \subseteq Block
        /\ mem \in [Block -> Struct] /\ avail \subseteq 1..heap_end /\ Live \subseteq Block
    BY <1>1, TypedFacts
  <2>3. ENTRIES \in Nat /\ ChunkBlocks = ENTRIES + 2 /\ ChunkBlocks \in Nat
    BY ProcessesAssumption DEF ChunkBlocks
  <2>4. t \in avail
    <3>1. avail # {}
      BY <1>8, <2>2, <2>3, FS_EmptySet
    <3> QED BY <1>4, <2>2, <3>1, MinIsLeast
  <2>5. /\ S \subseteq avail \ {t} /\ Cardinality(S) = ChunkBlocks
    <3>1. IsFiniteSet(avail \ {t}) /\ Cardinality(avail \ {t}) = Cardinality(avail) - 1
      BY <2>2, <2>4, FS_RemoveElement
    <3>2. ChunkBlocks <= Cardinality(avail \ {t})
      BY <1>8, <2>2, <2>3, <3>1
    <3>3. avail \ {t} \in SUBSET Nat
      BY <2>2
    <3> QED BY <1>5, <2>3, <3>1, <3>2, <3>3, LowestHas
  <2>6. IsFiniteSet(S) /\ S \in SUBSET Block /\ t \in Block /\ t # p /\ t \notin S /\ p \notin S
    BY <1>3, <2>2, <2>4, <2>5, FS_Subset
  <2>41. TaskBuilt(m, S, t, p, c)
    BY <1>1, <1>3, <1>6, <1>9, <2>5, <2>6, TaskMemory
  <2>7. /\ m \in [Block -> Struct] /\ IsSpace(m, c) /\ ChunkOwned(m, c) = S
        /\ \A v \in Pages : Translate(m, m[c].directory, v) = [page |-> v, flags |-> USER]
        /\ m[t] = task_init(c, p)
        /\ m[p].kind = "process" /\ m[p].task = t /\ m[p].id = mem[p].id /\ m[p].ptr = mem[p].ptr
        /\ m[p].blocks = mem[p].blocks /\ m[p].stack = mem[p].stack
        /\ \A b \in Block \ (S \cup {t, p}) : m[b] = mem[b]
    BY <2>41 DEF TaskBuilt
  <2>8. /\ m[t].kind = "task" /\ m[t].page_directory = c /\ m[t].process = p /\ m[t].next = NULL
    BY <2>7 DEF task_init
  <2>9. task_head # NULL => task_tail \in Block /\ m[task_tail].kind = "task"
    BY <1>1, <1>8 DEF Typed, Pointer
  <2>10. /\ mem' \in [Block -> Struct]
         /\ \A b \in Block : Kept(m, mem', b) /\ (m[b].kind # "task" => mem'[b] = m[b])
         /\ \A b \in Block : m[b].kind = "task" /\ (task_head # NULL => b # task_tail)
                               => mem'[b].next = m[b].next
         /\ task_head # NULL => mem'[task_tail].next = t
    BY <1>1, <2>1, <2>6, <2>7, <2>8, <2>9, AppendIs
  <2>11. /\ task_head' = IF task_head = NULL THEN t ELSE task_head
         /\ task_tail' = t /\ tasks' = Append(tasks, t) /\ tasks \in Seq(Block)
    BY <1>1, <2>1 DEF list_append, Typed
  <2>12. /\ tasks' \in Seq(Block) /\ Live' = Live \cup {t} /\ Len(tasks') = Len(tasks) + 1
         /\ tasks'[Len(tasks) + 1] = t /\ \A i \in 1..Len(tasks) : tasks'[i] = tasks[i]
    BY <2>6, <2>11, AppendRange DEF Live
  <2>13. \A b \in Taken : b \in Block /\ b \notin S /\ b # t
    BY <2>2, <2>4, <2>5
  <2>14. \A b \in Taken \ {p} : m[b] = mem[b]
    BY <2>7, <2>13
  <2>15. /\ mem'[p] = m[p] /\ mem[p].kind = "process"
    BY <1>3, <2>7, <2>10 DEF ProcessStruct
  <2>16. \A b \in Taken : Kept(mem, mem', b)
    <3>1. ASSUME NEW b \in Taken \ {p} PROVE Kept(mem, mem', b)
      <4>1. m[b] = mem[b] /\ Kept(m, mem', b)
        BY <2>10, <2>13, <2>14
      <4> QED BY <4>1 DEF Kept
    <3>2. Kept(mem, mem', p)
      BY <2>7, <2>15 DEF Kept, PagingKinds
    <3> QED BY <3>1, <3>2
  <2>17. \A b \in Taken \ {p} : mem[b].kind # "task" => mem'[b] = mem[b]
    BY <2>10, <2>13, <2>14
  <2>18. /\ Spaces(mem, kernel_chunk, Live, Taken) /\ Views(mem, kernel_chunk, Live, NULL)
         /\ Owners(mem, Registered \cup {p}, Taken) /\ Tied(mem, Live, Registered \cup {p})
         /\ Filled(mem, processes)
         /\ \A i, j \in 1..Len(tasks) : tasks[i] = tasks[j] => i = j
    BY <1>1, <1>3 DEF RunInv, ToMap
  <2>19. Spaces(mem', kernel_chunk, Live, Taken)
    BY <2>2, <2>10, <2>16, <2>18, SpacesKept
  <2>20. /\ mem'[t].kind = "task" /\ mem'[t].page_directory = c /\ mem'[t].process = p
    BY <2>6, <2>8, <2>10 DEF Kept, PagingKinds
  <2>21. /\ IsSpace(mem', c) /\ ChunkOwned(mem', c) = S
         /\ mem'[c].directory = m[c].directory
         /\ mem'[m[c].directory].tables = m[m[c].directory].tables
    BY <2>6, <2>7, <2>10, SpaceKept
  <2>22. TaskOwned(mem', t) = {t} \cup S
    BY <2>20, <2>21 DEF TaskOwned
  <2>23. Taken' = Taken \cup ({t} \cup S)
    BY <2>1, <2>2, <2>4, <2>5 DEF Taken
  <2>24. Spaces(mem', kernel_chunk', Live', Taken')
    <3>1. ({t} \cup S) \cap Taken = {}
      BY <2>13
    <3>2. Spaces(mem', kernel_chunk, Live \cup {t}, Taken \cup ({t} \cup S))
      BY <2>10, <2>19, <2>20, <2>21, <2>22, <3>1, SpacesAdd
    <3> QED BY <2>1, <2>12, <2>23, <3>2
  <2>25. \A u \in Live : /\ mem[u].process \in Registered /\ mem[u].process # p /\ mem[u].process # NULL
                         /\ u \in Taken /\ mem[u].kind = "task"
    <3>1. \A u \in Live : mem[u].process \in Registered /\ mem[u].process \in Block
      BY <1>1, LoadApart
    <3>2. p \notin Registered
      BY <1>1, <1>3, LoadApart
    <3>3. \A u \in Live : u \in Taken /\ mem[u].kind = "task"
      BY <2>18, SpacesTaken DEF Spaces
    <3> QED BY <3>1, <3>2, <3>3, NullsAre
  <2>26. \A q \in Registered : mem'[q] = mem[q] /\ mem[q].kind = "process" /\ q # p
    BY <1>1, <1>3, <2>17, LoadApart
  <2>27. \A u \in Live : mem'[u].process = mem[u].process
    BY <2>16, <2>25 DEF Kept
  <2>28. Views(mem', kernel_chunk, Live, NULL)
    <3>1. \A b \in Taken : mem[b].kind = "table" => mem'[b].entries = mem[b].entries
      BY <2>15, <2>17
    <3>2. \A u \in Live : mem'[mem[u].process].ptr = mem[mem[u].process].ptr
      BY <2>25, <2>26
    <3> QED BY <2>2, <2>10, <2>16, <2>18, <3>1, <3>2, ViewsKept
  <2>29. Views(mem', kernel_chunk', Live', p)
    <3>1. ASSUME NEW v \in Pages PROVE Translate(mem', DirectoryOf(mem', t), v) = [page |-> v, flags |-> USER]
      <4>1. PICK d : d = m[c].directory
        OBVIOUS
      <4>2. \A i \in Index : mem'[m[d].tables[i]] = m[m[d].tables[i]]
        <5>1. \A i \in Index : m[d].tables[i] \in Block /\ m[m[d].tables[i]].kind = "table"
          BY <2>7, <4>1, SpaceBlocks DEF IsSpace
        <5> QED BY <2>10, <5>1
      <4>3. Translate(mem', d, v) = Translate(m, d, v)
        BY <2>21, <4>1, <4>2, TranslateKept
      <4> QED BY <2>7, <2>20, <2>21, <4>1, <4>3 DEF DirectoryOf
    <3> QED BY <2>1, <2>12, <2>20, <2>25, <2>27, <2>28, <3>1 DEF Views
  <2>30. load' \in Load /\ load'.pc = "map" /\ load'.process = p /\ load' # Idle
    BY <1>2, <1>3, <2>1 DEF Load, Idle
  <2>31. Loading' = {p} /\ Registered' = Registered /\ ToMap' = p
    BY <2>1, <2>30 DEF Loading, Registered, ToMap
  <2>32. Owners(mem', Registered \cup {p}, Taken')
    <3>1. ASSUME NEW q \in Registered \cup {p}
          PROVE  /\ mem'[q].kind = "process" /\ mem'[q].ptr = mem[q].ptr /\ mem'[q].blocks = mem[q].blocks
                 /\ mem'[q].stack = mem[q].stack /\ Holds(mem, q) \subseteq Taken'
                 /\ \A b \in Holds(mem, q) \ {q} : mem'[b].kind = mem[b].kind
      <4>1. Holds(mem, q) \subseteq Taken /\ \A b \in Holds(mem, q) \ {q} : mem[b].kind = "bytes"
        BY <2>18 DEF Owners, IsProcess
      <4>2. \A b \in Holds(mem, q) \ {q} : mem'[b] = mem[b]
        BY <2>15, <2>17, <4>1
      <4> QED BY <2>7, <2>15, <2>23, <2>26, <4>1, <4>2
    <3>2. Untouched(mem, mem', Registered \cup {p}, Taken')
      BY <3>1 DEF Untouched
    <3> QED BY <2>18, <3>2, OwnersKept
  <2>33. Tied(mem', Live', Registered \cup {p})
    <3>1. \A u \in Live : mem'[mem[u].process] = mem[mem[u].process]
      BY <2>25, <2>26
    <3> QED BY <2>7, <2>12, <2>15, <2>18, <2>20, <2>27, <3>1 DEF Tied
  <2>34. Filled(mem', processes')
    <3>1. \A x \in Slots : processes[x] # NULL => processes[x] \in Registered
      BY <1>1 DEF Registered, Typed
    <3> QED BY <2>1, <2>18, <2>26, <3>1 DEF Filled
  <2>35. LoadInv'
    <3>1. t \in Live'
      BY <2>12
    <3> QED BY <1>1, <1>2, <1>3, <2>1, <2>7, <2>15, <2>20, <2>30, <3>1 DEF LoadInv
  <2>36. \A i, j \in 1..Len(tasks') : tasks'[i] = tasks'[j] => i = j
    <3>1. \A i \in 1..Len(tasks) : tasks[i] # t
      <4>1. t \notin Live
        BY <2>2, <2>4, <2>25
      <4> QED BY <2>11, <4>1, InSequence DEF Live
    <3>2. Len(tasks) \in Nat /\ 1..Len(tasks') = 1..Len(tasks) \cup {Len(tasks) + 1}
      BY <2>11, <2>12, InSequence
    <3> QED BY <2>12, <2>18, <3>1, <3>2
  <2>37. RunInv'
    BY <2>24, <2>29, <2>31, <2>32, <2>33, <2>34, <2>35, <2>36 DEF RunInv
  <2>38. Typed'
    <3>1. {task_head, current_task, current_directory, kernel_chunk} \subseteq Pointer /\ t \in Pointer
      BY <1>1, <2>6 DEF Typed, Pointer
    <3>2. {task_head', task_tail', current_task', current_directory', kernel_chunk'} \subseteq Pointer
      BY <2>1, <2>11, <3>1
    <3>3. avail' \subseteq 1..heap_end'
      BY <2>1, <2>2
    <3> QED BY <1>1, <2>1, <2>10, <2>12, <2>30, <3>2, <3>3 DEF Typed
  <2>39. TaskList'
    <3> SUFFICES ASSUME ~stale_store PROVE TaskList'
      BY <2>1 DEF TaskList
    <3>1. /\ IF tasks = <<>> THEN task_head = NULL /\ task_tail = NULL
             ELSE task_head = Head(tasks) /\ task_tail = tasks[Len(tasks)]
          /\ \A i \in 1..Len(tasks) :
               mem[tasks[i]].next = IF i = Len(tasks) THEN NULL ELSE tasks[i + 1]
          /\ current_task = NULL \/ current_task \in Live
      BY <1>1 DEF ProcInv, TaskList
    <3>2. /\ Len(tasks) \in Nat /\ \A i \in 1..Len(tasks) : tasks[i] \in Live /\ tasks[i] \in Block
          /\ \A i \in 1..Len(tasks) : m[tasks[i]] = mem[tasks[i]]
      <4>1. \A u \in Live : u \in Taken /\ u # p
        BY <2>15, <2>25
      <4> QED BY <2>11, <2>14, <4>1, InSequence DEF Live
    <3>3. CASE tasks = <<>>
      <4>1. task_head = NULL /\ Len(tasks) = 0
        BY <3>1, <3>3
      <4>2. mem'[t].next = NULL
        BY <2>6, <2>8, <2>10, <4>1
      <4>3. tasks' # <<>> /\ Head(tasks') = t /\ Len(tasks') = 1 /\ tasks'[1] = t
        BY <2>12, <4>1
      <4> QED BY <2>1, <2>11, <2>12, <3>1, <4>1, <4>2, <4>3 DEF TaskList
    <3>4. CASE tasks # <<>>
      <4>1. Len(tasks) >= 1 /\ Head(tasks) = tasks[1] /\ 1 \in 1..Len(tasks)
        BY <2>11, <3>2, <3>4
      <4>2. task_head = tasks[1] /\ task_tail = tasks[Len(tasks)] /\ task_head # NULL
        BY <3>1, <3>2, <3>4, <4>1, NullsAre
      <4>3. task_head' = task_head /\ tasks' # <<>> /\ Head(tasks') = tasks'[1] /\ tasks'[1] = tasks[1]
        BY <2>11, <2>12, <4>1, <4>2
      <4>4. t # task_tail
        <5>1. Len(tasks) \in 1..Len(tasks)
          BY <3>2, <4>1
        <5> QED BY <2>2, <2>4, <2>25, <3>2, <4>2, <5>1
      <4>5. ASSUME NEW i \in 1..Len(tasks')
            PROVE  mem'[tasks'[i]].next = IF i = Len(tasks') THEN NULL ELSE tasks'[i + 1]
        <5>1. CASE i = Len(tasks')
          BY <2>6, <2>8, <2>10, <2>12, <4>4, <5>1
        <5>2. CASE i = Len(tasks)
          BY <2>10, <2>12, <3>2, <4>1, <4>2, <5>2
        <5>3. CASE i \in 1..(Len(tasks) - 1)
          <6>1. /\ i \in 1..Len(tasks) /\ Len(tasks) \in 1..Len(tasks) /\ i + 1 \in 1..Len(tasks)
                /\ i # Len(tasks) /\ i # Len(tasks')
            BY <2>12, <3>2, <5>3
          <6>2. tasks[i] # task_tail
            BY <2>18, <4>2, <6>1
          <6>3. m[tasks[i]].kind = "task"
            BY <2>25, <3>2, <6>1
          <6>4. mem'[tasks[i]].next = m[tasks[i]].next
            BY <2>10, <3>2, <6>1, <6>2, <6>3
          <6> QED BY <2>12, <3>1, <3>2, <6>1, <6>4
        <5> QED BY <2>12, <3>2, <5>1, <5>2, <5>3
      <4> QED BY <2>1, <2>11, <2>12, <3>1, <4>3, <4>5 DEF TaskList
    <3> QED BY <3>3, <3>4
  <2>40. mode' # "boot"
    BY <1>1, <2>1
  <2> QED BY <2>37, <2>38, <2>39, <2>40 DEF ProcInv
<1> QED BY <1>7, <1>8

-----------------------------------------------------------------------------
(* task_free *)

(* A sequence without the element at k. *)
IsWithout(s, k, u) ==
  /\ u \in Seq(Block) /\ Len(u) = Len(s) - 1 /\ Range(u) = Range(s) \ {s[k]}
  /\ \A i, j \in 1..Len(u) : u[i] = u[j] => i = j
  /\ \A i \in 1..(Len(s) - 1) : u[i] = IF i < k THEN s[i] ELSE s[i + 1]

LEMMA Without ==
  ASSUME NEW s \in Seq(Block), NEW k \in 1..Len(s), NEW u,
         \A i, j \in 1..Len(s) : s[i] = s[j] => i = j,
         u = [j \in 1..(Len(s) - 1) |-> IF j < k THEN s[j] ELSE s[j + 1]]
  PROVE  IsWithout(s, k, u)
<1>1. Len(s) \in Nat /\ Len(s) >= 1 /\ k \in Nat /\ Len(s) - 1 \in Nat
  BY InSequence
<1>2. \A i \in 1..(Len(s) - 1) : /\ i \in 1..Len(s) /\ i + 1 \in 1..Len(s)
                                 /\ i < k => i # k
                                 /\ ~(i < k) => i + 1 # k
  BY <1>1
<1>3. \A i \in 1..(Len(s) - 1) : u[i] = IF i < k THEN s[i] ELSE s[i + 1]
  OBVIOUS
<1>4. u \in [1..(Len(s) - 1) -> Block]
  <2>1. \A i \in 1..(Len(s) - 1) : (IF i < k THEN s[i] ELSE s[i + 1]) \in Block
    BY <1>2, InSequence
  <2> QED BY <2>1
<1>5. u \in Seq(Block) /\ Len(u) = Len(s) - 1
  BY <1>1, <1>4
<1>6. ASSUME NEW i \in 1..(Len(s) - 1), NEW j \in 1..(Len(s) - 1), u[i] = u[j] PROVE i = j
  <2>1. CASE i < k /\ j < k
    BY <1>2, <1>3, <1>6, <2>1
  <2>2. CASE ~(i < k) /\ ~(j < k)
    <3>1. i + 1 = j + 1
      BY <1>2, <1>3, <1>6, <2>2
    <3> QED BY <3>1
  <2>3. CASE i < k /\ ~(j < k)
    <3>1. i = j + 1
      BY <1>2, <1>3, <1>6, <2>3
    <3> QED BY <1>1, <2>3, <3>1
  <2>4. CASE ~(i < k) /\ j < k
    <3>1. i + 1 = j
      BY <1>2, <1>3, <1>6, <2>4
    <3> QED BY <1>1, <2>4, <3>1
  <2> QED BY <2>1, <2>2, <2>3, <2>4
<1>7. \A x : x \in Range(u) <=> x \in Range(s) /\ x # s[k]
  <2>1. ASSUME NEW x \in Range(u) PROVE x \in Range(s) /\ x # s[k]
    <3>1. PICK i \in 1..(Len(s) - 1) : u[i] = x
      BY <1>5, InSequence
    <3> QED BY <1>2, <1>3, <3>1, InSequence
  <2>2. ASSUME NEW x \in Range(s), x # s[k] PROVE x \in Range(u)
    <3>1. PICK i \in 1..Len(s) : s[i] = x
      BY InSequence
    <3>2. i # k
      BY <2>2, <3>1
    <3>3. CASE i < k
      <4>1. i \in 1..(Len(s) - 1)
        BY <1>1, <3>3
      <4> QED BY <1>3, <1>5, <3>1, <3>3, <4>1, InSequence
    <3>4. CASE i > k
      <4>1. i - 1 \in 1..(Len(s) - 1) /\ ~(i - 1 < k) /\ (i - 1) + 1 = i
        BY <1>1, <3>4
      <4>2. u[i - 1] = x
        BY <1>3, <3>1, <4>1
      <4> QED BY <1>5, <4>1, <4>2, InSequence
    <3> QED BY <1>1, <3>2, <3>3, <3>4
  <2> QED BY <2>1, <2>2
<1>8. Range(u) = Range(s) \ {s[k]}
  BY <1>7
<1> QED BY <1>3, <1>5, <1>6, <1>8 DEF IsWithout

(* Unlinking a task changes the link of the task before and nothing else. *)
LEMMA UnlinkIs ==
  ASSUME Typed, NEW t \in Block, mem[t] \in TaskStruct, task_list_remove(t)
  PROVE  /\ mem' \in [Block -> Struct]
         /\ \A b \in Block : Kept(mem, mem', b) /\ (mem[b].kind # "task" => mem'[b] = mem[b])
         /\ \A b \in Block : b # mem[t].prev => mem'[b] = mem[b]
         /\ mem[t].prev \in Block /\ mem[mem[t].prev].kind = "task" => mem'[mem[t].prev].next = mem[t].next
         /\ {task_head', task_tail', current_task'} \subseteq Pointer
<1>1. mem \in [Block -> Struct] /\ {task_head, task_tail, current_task} \subseteq Pointer
  BY DEF Typed
<1>2. PICK prev \in Pointer : prev = mem[t].prev
  BY DEF TaskStruct
<1>3. PICK next \in Pointer : next = mem[t].next
  BY DEF TaskStruct
<1>4. {task_head', task_tail', current_task'} \subseteq Pointer
  BY <1>1, <1>2, <1>3 DEF task_list_remove
<1>5. CASE prev \in Block /\ mem[prev].kind = "task"
  <2>1. mem[prev] \in TaskStruct
    BY <1>1, <1>5, KindsAre
  <2>2. PICK r \in TaskStruct : r = [mem[prev] EXCEPT !.next = next]
    BY <2>1 DEF TaskStruct
  <2>3. /\ r.kind = "task" /\ r.page_directory = mem[prev].page_directory
        /\ r.process = mem[prev].process /\ r.next = next
    BY <2>1, <2>2 DEF TaskStruct
  <2>4. mem' = [mem EXCEPT ![prev] = r]
    <3>1. mem' = [mem EXCEPT ![prev].next = next]
      BY <1>2, <1>3, <1>5, NullsAre DEF task_list_remove
    <3> QED BY <1>1, <2>2, <3>1
  <2>5. r \in Struct
    BY DEF Struct
  <2>6. mem' \in [Block -> Struct] /\ mem'[prev] = r /\ \A b \in Block \ {prev} : mem'[b] = mem[b]
    BY <1>1, <1>5, <2>4, <2>5
  <2>7. Kept(mem, mem', prev)
    BY <1>5, <2>3, <2>6 DEF Kept, PagingKinds
  <2>8. \A b \in Block \ {prev} : Kept(mem, mem', b)
    BY <2>6 DEF Kept
  <2> QED BY <1>2, <1>3, <1>4, <1>5, <2>3, <2>6, <2>7, <2>8
<1>6. CASE ~(prev \in Block /\ mem[prev].kind = "task")
  <2>1. mem' = mem
    BY <1>2, <1>3, <1>6 DEF task_list_remove, Pointer
  <2>2. \A b \in Block : Kept(mem, mem', b)
    BY <2>1 DEF Kept
  <2> QED BY <1>1, <1>2, <1>3, <1>4, <1>6, <2>1, <2>2
<1> QED BY <1>5, <1>6

(* A freed task takes its space out of the taken blocks, and no other      *)
(* task's or process's blocks with it.                                     *)
LEMMA TaskFreeInv ==
  ASSUME ProcInv, NEW t \in Live, task_free(t)
  PROVE  ProcInv'
<1>1. /\ Typed /\ Running /\ mode = "run" /\ load = Idle /\ load.pc # "map" /\ RunInv
  BY DEF ProcInv, task_free, Ready, Running, Idle
<1>2. /\ Taken \subseteq Block /\ Taken \subseteq 1..heap_end /\ Taken \cap avail = {}
      /\ mem \in [Block -> Struct] /\ Live \subseteq Block /\ avail \subseteq 1..heap_end
  BY <1>1, TypedFacts
<1>3. Loading = {} /\ ToMap = NULL
  BY <1>1 DEF Loading, ToMap
<1>4. /\ Spaces(mem, kernel_chunk, Live, Taken) /\ Views(mem, kernel_chunk, Live, NULL)
      /\ Owners(mem, Registered, Taken) /\ Tied(mem, Live, Registered) /\ Filled(mem, processes)
      /\ \A i, j \in 1..Len(tasks) : tasks[i] = tasks[j] => i = j
  BY <1>1, <1>3 DEF RunInv
<1>5. \A u \in Live : /\ u \in Taken /\ u \in Block /\ mem[u].kind = "task"
                      /\ mem[u] \in TaskStruct /\ TaskOwned(mem, u) \subseteq Taken
  <2>1. \A u \in Live : u \in Taken /\ TaskOwned(mem, u) \subseteq Taken /\ mem[u].kind = "task"
    BY <1>4, SpacesTaken DEF Spaces
  <2> QED BY <1>2, <2>1, KindsAre
<1>6. /\ avail' = avail \cup TaskOwned(mem, t) /\ task_list_remove(t)
      /\ tasks' = [j \in 1..(Len(tasks) - 1) |-> IF j < Place(t) THEN tasks[j] ELSE tasks[j + 1]]
      /\ stale_store' = (stale_store \/ mem[t].prev # Before(t))
      /\ UNCHANGED <<heap_end, kernel_chunk, current_directory, processes, load>>
      /\ mode' = mode \/ mode' = "wild"
  <2>1. paging_free_4gb(mem[t].page_directory) \cup {t} = TaskOwned(mem, t)
    BY DEF paging_free_4gb, TaskOwned, ChunkOwned
  <2>2. avail' = avail \cup TaskOwned(mem, t)
    BY <2>1 DEF task_free
  <2> QED BY <2>2 DEF task_free, Wild, Keeps
<1>7. /\ mem' \in [Block -> Struct]
      /\ \A b \in Block : Kept(mem, mem', b) /\ (mem[b].kind # "task" => mem'[b] = mem[b])
      /\ \A b \in Block : b # mem[t].prev => mem'[b] = mem[b]
      /\ mem[t].prev \in Block /\ mem[mem[t].prev].kind = "task" => mem'[mem[t].prev].next = mem[t].next
      /\ {task_head', task_tail', current_task'} \subseteq Pointer
  BY <1>1, <1>5, <1>6, UnlinkIs
<1>8. tasks \in Seq(Block) /\ Len(tasks) \in Nat /\ DOMAIN tasks = 1..Len(tasks)
  BY <1>1, InSequence DEF Typed
<1>9. PICK k \in 1..Len(tasks) : k = Place(t) /\ tasks[k] = t
  <2>1. \E i \in DOMAIN tasks : tasks[i] = t
    BY <1>8, InSequence DEF Live
  <2> QED BY <1>8, <2>1 DEF Place
<1>10. /\ tasks' \in Seq(Block) /\ Len(tasks') = Len(tasks) - 1 /\ Live' = Live \ {t}
       /\ \A i, j \in 1..Len(tasks') : tasks'[i] = tasks'[j] => i = j
       /\ \A i \in 1..(Len(tasks) - 1) : tasks'[i] = IF i < k THEN tasks[i] ELSE tasks[i + 1]
  <2>1. PICK u : u = tasks'
    OBVIOUS
  <2>2. u = [j \in 1..(Len(tasks) - 1) |-> IF j < k THEN tasks[j] ELSE tasks[j + 1]]
    BY <1>6, <1>9, <2>1
  <2>3. /\ u \in Seq(Block) /\ Len(u) = Len(tasks) - 1 /\ Range(u) = Range(tasks) \ {tasks[k]}
        /\ \A i, j \in 1..Len(u) : u[i] = u[j] => i = j
        /\ \A i \in 1..(Len(tasks) - 1) : u[i] = IF i < k THEN tasks[i] ELSE tasks[i + 1]
    <3>1. PICK s \in Seq(Block) : s = tasks
      BY <1>8
    <3>2. /\ \A i, j \in 1..Len(s) : s[i] = s[j] => i = j
          /\ u = [j \in 1..(Len(s) - 1) |-> IF j < k THEN s[j] ELSE s[j + 1]]
          /\ k \in 1..Len(s)
      BY <1>4, <2>2, <3>1
    <3>3. IsWithout(s, k, u)
      BY <3>2, Without
    <3> QED BY <3>1, <3>3 DEF IsWithout
  <2> QED BY <1>9, <2>1, <2>3 DEF Live
<1>11. Taken' = Taken \ TaskOwned(mem, t)
  BY <1>6 DEF Taken
<1>12. /\ Spaces(mem', kernel_chunk, Live, Taken)
       /\ TaskOwned(mem', t) = TaskOwned(mem, t)
  <2>1. \A b \in Taken : Kept(mem, mem', b)
    BY <1>2, <1>7
  <2>2. Spaces(mem', kernel_chunk, Live, Taken)
    BY <1>2, <1>4, <1>7, <2>1, SpacesKept
  <2>3. /\ mem[t].kind = "task" /\ IsSpace(mem, mem[t].page_directory)
        /\ \A b \in TaskOwned(mem, t) : Kept(mem, mem', b)
    BY <1>4, <1>5, <2>1 DEF Spaces
  <2>4. TaskOwned(mem', t) = TaskOwned(mem, t)
    BY <1>2, <1>7, <2>3, TaskKept
  <2> QED BY <2>2, <2>4
<1>13. Spaces(mem', kernel_chunk', Live', Taken')
  <2>1. Spaces(mem', kernel_chunk, Live \ {t}, Taken \ TaskOwned(mem', t))
    BY <1>12, SpacesDrop
  <2> QED BY <1>6, <1>10, <1>11, <1>12, <2>1
<1>14. \A u \in Live : /\ mem[u].process \in Block /\ mem[u].process \in Registered
                       /\ mem'[mem[u].process] = mem[mem[u].process]
                       /\ mem'[u].process = mem[u].process
  <2>1. \A u \in Live : /\ mem[u].process \in Block /\ mem[u].process \in Registered
                        /\ mem[mem[u].process].kind = "process"
    BY <1>1, LoadApart
  <2>2. \A u \in Live : mem'[u].process = mem[u].process
    BY <1>5, <1>7 DEF Kept
  <2> QED BY <1>7, <2>1, <2>2
<1>15. Views(mem', kernel_chunk', Live', NULL)
  <2>1. \A b \in Taken : Kept(mem, mem', b) /\ (mem[b].kind = "table" => mem'[b].entries = mem[b].entries)
    BY <1>2, <1>7
  <2>2. \A u \in Live : mem'[mem[u].process].ptr = mem[mem[u].process].ptr
    BY <1>14
  <2>3. Views(mem', kernel_chunk, Live, NULL)
    BY <1>2, <1>4, <1>7, <2>1, <2>2, ViewsKept
  <2> QED BY <1>6, <1>10, <2>3 DEF Views
<1>16. Registered' = Registered /\ Loading' = {} /\ ToMap' = NULL /\ load' = Idle
  BY <1>1, <1>3, <1>6 DEF Registered, Loading, ToMap
<1>17. \A q \in Registered : /\ q \in Block /\ mem[q].kind = "process" /\ mem'[q] = mem[q]
  <2>1. \A q \in Registered : q \in Block /\ mem[q].kind = "process"
    BY <1>1, LoadApart
  <2> QED BY <1>7, <2>1
<1>18. Owners(mem', Registered, Taken')
  <2>1. ASSUME NEW q \in Registered
        PROVE  /\ mem'[q].kind = "process" /\ mem'[q].ptr = mem[q].ptr /\ mem'[q].blocks = mem[q].blocks
               /\ mem'[q].stack = mem[q].stack /\ Holds(mem, q) \subseteq Taken'
               /\ \A b \in Holds(mem, q) \ {q} : mem'[b].kind = mem[b].kind
    <3>1. Holds(mem, q) \subseteq Taken /\ \A b \in Holds(mem, q) \ {q} : mem[b].kind = "bytes"
      BY <1>4 DEF Owners, IsProcess
    <3>2. \A b \in Holds(mem, q) : mem[b].kind \in {"bytes", "process"}
      BY <1>17, <3>1
    <3>3. \A b \in TaskOwned(mem, t) : mem[b].kind \in PagingKinds
      BY <1>4, SpacesTaken
    <3>4. Holds(mem, q) \cap TaskOwned(mem, t) = {}
      BY <3>2, <3>3 DEF PagingKinds
    <3>5. \A b \in Holds(mem, q) : mem'[b] = mem[b]
      BY <1>2, <1>7, <3>1, <3>2
    <3> QED BY <1>11, <1>17, <3>1, <3>4, <3>5
  <2>2. Untouched(mem, mem', Registered, Taken')
    BY <2>1 DEF Untouched
  <2> QED BY <1>4, <2>2, OwnersKept
<1>19. Tied(mem', Live', Registered)
  BY <1>4, <1>10, <1>14 DEF Tied
<1>20. Filled(mem', processes')
  <2>1. \A x \in Slots : processes[x] # NULL => processes[x] \in Registered
    BY <1>1 DEF Registered, Typed
  <2> QED BY <1>4, <1>6, <1>17, <2>1 DEF Filled
<1>21. RunInv'
  <2>1. LoadInv'
    BY <1>16 DEF LoadInv
  <2> QED BY <1>10, <1>13, <1>15, <1>16, <1>18, <1>19, <1>20, <2>1 DEF RunInv
<1>22. Typed'
  <2>1. {task_head', task_tail', current_task', current_directory', kernel_chunk'} \subseteq Pointer
    BY <1>1, <1>6, <1>7 DEF Typed
  <2>2. avail' \subseteq 1..heap_end'
    BY <1>2, <1>5, <1>6
  <2>3. stale_store' \in BOOLEAN
    BY <1>6
  <2>4. mode' \in {"boot", "run", "panic", "wild"}
    BY <1>1, <1>6
  <2> QED BY <1>1, <1>6, <1>7, <1>10, <1>16, <2>1, <2>2, <2>3, <2>4 DEF Typed
<1>23. TaskList'
  <2> SUFFICES ASSUME ~stale_store, mem[t].prev = Before(t) PROVE TaskList'
    BY <1>6 DEF TaskList
  <2>1. /\ IF tasks = <<>> THEN task_head = NULL /\ task_tail = NULL
           ELSE task_head = Head(tasks) /\ task_tail = tasks[Len(tasks)]
        /\ \A i \in 1..Len(tasks) :
             mem[tasks[i]].next = IF i = Len(tasks) THEN NULL ELSE tasks[i + 1]
        /\ current_task = NULL \/ current_task \in Live
    BY <1>1 DEF ProcInv, TaskList
  <2>2. PICK n \in Nat : n = Len(tasks) /\ n >= 1 /\ 1 \in 1..n /\ n \in 1..n /\ k \in 1..n /\ k \in Nat
    <3>1. PICK n \in Nat : n = Len(tasks)
      BY <1>8
    <3>2. n >= 1 /\ 1 \in 1..n /\ n \in 1..n /\ k \in 1..n /\ k \in Nat
      BY <1>9, <3>1
    <3> QED BY <3>1, <3>2
  <2>3. task_head = tasks[1] /\ task_tail = tasks[n]
    <3>1. tasks # <<>> /\ Head(tasks) = tasks[1]
      BY <1>8, <2>2
    <3> QED BY <2>1, <2>2, <3>1
  <2>4. \A i \in 1..n : tasks[i] \in Live /\ tasks[i] \in Block
    BY <1>8, <2>2, InSequence DEF Live
  <2>5. /\ mem[t].prev = IF k = 1 THEN NULL ELSE tasks[k - 1]
        /\ mem[t].next = IF k = n THEN NULL ELSE tasks[k + 1]
    BY <1>9, <2>1, <2>2 DEF Before
  <2>6. k # 1 => k - 1 \in 1..n /\ k - 1 \in 1..(n - 1)
    BY <2>2
  <2>7. k # n => k + 1 \in 1..n
    BY <2>2
  <2>8. \A i \in 1..(n - 1) : i \in 1..n /\ i + 1 \in 1..n
    BY <2>2
  <2>9. /\ t = task_head <=> k = 1
        /\ t = task_tail <=> k = n
    BY <1>4, <1>9, <2>2, <2>3
  <2>10. /\ task_head' = IF k = 1 THEN mem[t].next ELSE tasks[1]
         /\ task_tail' = IF k = n THEN mem[t].prev ELSE tasks[n]
         /\ current_task' = IF t # current_task THEN current_task
                            ELSE IF mem[t].next = NULL THEN task_head' ELSE mem[t].next
    BY <1>6, <2>3, <2>9 DEF task_list_remove
  <2>11. \A i \in 1..(n - 1) : tasks'[i] = IF i < k THEN tasks[i] ELSE tasks[i + 1]
    BY <1>10, <2>2
  <2>12. ASSUME NEW i \in 1..(n - 1)
         PROVE  mem'[tasks'[i]].next = IF i = n - 1 THEN NULL ELSE tasks'[i + 1]
    <3>1. i \in 1..n /\ i + 1 \in 1..n
      BY <2>8
    <3>2. i # n - 1 => i + 1 \in 1..(n - 1) /\ (i + 1) + 1 \in 1..n
      BY <2>2
    <3>3. CASE i >= k
      <4>1. tasks'[i] = tasks[i + 1] /\ i # n - 1 => tasks'[i + 1] = tasks[(i + 1) + 1]
        BY <2>2, <2>11, <3>2, <3>3
      <4>2. tasks'[i] = tasks[i + 1]
        BY <2>2, <2>11, <3>3
      <4>3. tasks[i + 1] # mem[t].prev
        <5>1. k # 1 => i + 1 # k - 1
          BY <2>2, <3>3
        <5>2. tasks[i + 1] # NULL
          BY <2>4, <3>1, NullsAre
        <5> QED BY <1>4, <2>2, <2>5, <2>6, <3>1, <5>1, <5>2
      <4>4. mem'[tasks[i + 1]] = mem[tasks[i + 1]]
        BY <1>7, <2>4, <3>1, <4>3
      <4>5. mem[tasks[i + 1]].next = IF i + 1 = n THEN NULL ELSE tasks[(i + 1) + 1]
        BY <2>1, <2>2, <3>1
      <4>6. i + 1 = n <=> i = n - 1
        BY <2>2
      <4> QED BY <4>1, <4>2, <4>4, <4>5, <4>6
    <3>4. CASE i = k - 1
      <4>1. tasks'[i] = tasks[i] /\ k # 1 /\ i + 1 = k
        BY <2>2, <2>11, <3>4
      <4>2. tasks[i] = mem[t].prev /\ mem[t].prev \in Block /\ mem[mem[t].prev].kind = "task"
        BY <1>5, <2>4, <2>5, <3>1, <3>4, <4>1
      <4>3. mem'[tasks'[i]].next = mem[t].next
        BY <1>7, <4>1, <4>2
      <4>4. i # n - 1 => tasks'[i + 1] = tasks[k + 1]
        BY <2>2, <2>11, <3>2, <4>1
      <4>5. k = n <=> i = n - 1
        BY <2>2, <4>1
      <4> QED BY <2>5, <4>3, <4>4, <4>5
    <3>5. CASE i < k - 1
      <4>1. i < k /\ i + 1 < k /\ i # n - 1 /\ i # n
        BY <2>2, <3>5
      <4>2. tasks'[i] = tasks[i] /\ tasks'[i + 1] = tasks[i + 1]
        BY <2>11, <3>2, <4>1
      <4>3. tasks[i] # mem[t].prev
        <5>1. tasks[i] # NULL
          BY <2>4, <3>1, NullsAre
        <5>2. i # k - 1
          BY <2>2, <3>5
        <5> QED BY <1>4, <2>2, <2>5, <2>6, <3>1, <5>1, <5>2
      <4>4. mem'[tasks[i]] = mem[tasks[i]]
        BY <1>7, <2>4, <3>1, <4>3
      <4>5. mem[tasks[i]].next = tasks[i + 1]
        BY <2>1, <2>2, <3>1, <4>1
      <4> QED BY <4>1, <4>2, <4>4, <4>5
    <3> QED BY <2>2, <3>3, <3>4, <3>5
  <2>13. Len(tasks') = n - 1
    BY <1>10, <2>2
  <2>14. IF tasks' = <<>> THEN task_head' = NULL /\ task_tail' = NULL
         ELSE task_head' = Head(tasks') /\ task_tail' = tasks'[Len(tasks')]
    <3>1. CASE n = 1
      <4>1. k = 1 /\ k = n
        BY <2>2, <3>1
      <4>2. tasks' = <<>>
        BY <1>10, <2>13, <3>1
      <4> QED BY <2>5, <2>10, <4>1, <4>2
    <3>2. CASE n > 1
      <4>1. 1 \in 1..(n - 1) /\ n - 1 \in 1..(n - 1) /\ (n - 1) + 1 = n /\ 1 + 1 = 2
        BY <2>2, <3>2
      <4>2. tasks' # <<>> /\ Head(tasks') = tasks'[1]
        BY <1>10, <2>13, <4>1
      <4>3. tasks'[1] = IF k = 1 THEN tasks[2] ELSE tasks[1]
        BY <2>2, <2>11, <4>1
      <4>4. tasks'[n - 1] = IF k = n THEN tasks[n - 1] ELSE tasks[n]
        BY <2>2, <2>11, <4>1
      <4>5. task_head' = tasks'[1]
        BY <2>2, <2>5, <2>10, <3>2, <4>3
      <4>6. task_tail' = tasks'[n - 1]
        BY <2>2, <2>5, <2>10, <3>2, <4>4
      <4> QED BY <2>13, <4>2, <4>5, <4>6
    <3> QED BY <2>2, <3>1, <3>2
  <2>15. current_task' = NULL \/ current_task' \in Live'
    <3>1. \A i \in 1..n : i # k => tasks[i] \in Live'
      BY <1>4, <1>9, <1>10, <2>2, <2>4
    <3>2. k # n => tasks[k + 1] \in Live'
      <4>1. k + 1 # k
        BY <2>2
      <4> QED BY <2>7, <3>1, <4>1
    <3>3. mem[t].next = NULL \/ mem[t].next \in Live'
      BY <2>5, <3>2
    <3>4. task_head' = NULL \/ task_head' \in Live'
      BY <2>2, <2>10, <3>1, <3>3
    <3> QED BY <1>10, <2>1, <2>10, <3>3, <3>4
  <2> QED BY <2>12, <2>13, <2>14, <2>15 DEF TaskList
<1>24. mode' # "boot"
  BY <1>1, <1>6
<1> QED BY <1>21, <1>22, <1>23, <1>24 DEF ProcInv

-----------------------------------------------------------------------------
(* The theorems *)

LEMMA ProcNext ==
  ASSUME ProcInv, [Next]_vars
  PROVE  ProcInv'
<1>1. ASSUME mode # "boot", mode' = mode \/ mode' \in {"panic", "wild"},
             UNCHANGED <<heap_end, avail, mem, kernel_chunk, current_directory, task_head, task_tail,
                         current_task, tasks, stale_store, processes, load>>
      PROVE  ProcInv'
  <2>1. current_task \in Pointer /\ current_directory \in Pointer
    BY DEF ProcInv, Typed
  <2>2. Running /\ ~stale_store => current_task = NULL \/ current_task \in Live
    BY TurnsLive
  <2> QED BY <1>1, <2>1, <2>2, QuietInv
<1>2. CASE kernel_main
  BY <1>2, KernelMainInv
<1>3. CASE process_load_full
  BY <1>1, <1>3 DEF process_load_full, Ready, Running, Keeps, listVars
<1>4. ASSUME NEW s \in process_get_free_slot, NEW p \in Programs, process_load_for_slot(p, s)
      PROVE  ProcInv'
  BY <1>4, LoadForSlotInv
<1>5. ASSUME NEW s \in DOMAIN processes, slot_taken(s)
      PROVE  ProcInv'
  BY <1>1, <1>5 DEF slot_taken, Ready, Running, Keeps, Wild, listVars
<1>6. CASE process_load_binary
  BY <1>6, BinaryInv
<1>7. CASE process_stack
  BY <1>7, StackInv
<1>8. CASE task_new
  BY <1>8, TaskNewInv
<1>9. CASE process_map_memory
  BY <1>9, MapMemoryInv
<1>10. ASSUME NEW t \in Live, task_free(t)
       PROVE  ProcInv'
  BY <1>10, TaskFreeInv
<1>11. CASE \/ \E t \in Live : Ready /\ task_switch(t)
            \/ switch_next \/ task_page \/ task_run_first_ever_task
  BY <1>11, TurnsInv
<1>12. CASE stopped
  BY <1>1, <1>12 DEF stopped, vars, listVars
<1>13. CASE UNCHANGED vars
  <2>1. UNCHANGED <<heap_end, avail, mem, kernel_chunk, current_directory, task_head, task_tail,
                    current_task, tasks, stale_store, processes, load, mode>>
    BY <1>13 DEF vars, listVars
  <2>2. CASE mode = "boot"
    <3>1. Typed' /\ Fresh'
      BY <2>1, <2>2 DEF ProcInv, Typed, Fresh
    <3> QED BY <2>1, <2>2, <3>1 DEF ProcInv, Running, TaskList
  <2>3. CASE mode # "boot"
    BY <1>1, <2>1, <2>3
  <2> QED BY <2>2, <2>3
<1> QED BY <1>2, <1>3, <1>4, <1>5, <1>6, <1>7, <1>8, <1>9, <1>10, <1>11, <1>12, <1>13 DEF Next

(* Whatever the sequence of loads, frees and switches, and wherever memory *)
(* runs out, the blocks of the heap are what paging.c, task.c and          *)
(* process.c take them for: the inductive invariant holds.                 *)
THEOREM ProcessesInvariant == Spec => []ProcInv
<1>1. ProcInv /\ [Next]_vars => ProcInv'
  BY ProcNext
<1> QED BY <1>1, ProcInit, PTL DEF Spec

(* The state has its shape, for every heap, program and table size. *)
THEOREM ProcessesTyped == Spec => []TypeOK
<1>1. ProcInv => TypeOK
  <2> SUFFICES ASSUME Typed PROVE TypeOK
    BY DEF ProcInv
  <2>1. ASSUME NEW b \in Block
        PROVE  /\ mem[b].kind \in {"bytes", "process", "task", "chunk", "directory", "table"}
               /\ mem[b].kind = "table" => \A i \in Index :
                    /\ mem[b].entries[i].page \in Pages
                    /\ mem[b].entries[i].flags \in {USER, WRITEABLE}
    <3>1. mem[b] \in Struct
      BY DEF Typed
    <3>2. mem[b].kind = "table" => mem[b] \in TableStruct
      BY <3>1, KindsAre
    <3>3. mem[b] \in TableStruct => \A i \in Index : mem[b].entries[i] \in Entry
      BY DEF TableStruct
    <3> QED BY <3>1, <3>2, <3>3, KindsAre DEF Entry
  <2>2. load.pc \in {"idle", "binary", "stack", "task", "map"}
    BY DEF Typed, Idle, Load
  <2> QED BY <2>1, <2>2 DEF Typed, TypeOK, Pointer
<1> QED BY <1>1, ProcessesInvariant, PTL

(* The list by next is the live tasks until a task is freed whose prev is  *)
(* not the task before it (task_new, task_list_remove).                    *)
THEOREM TaskListHolds == Spec => []TaskList
<1>1. ProcInv => TaskList
  BY DEF ProcInv
<1> QED BY <1>1, ProcessesInvariant, PTL

(* However blocks are freed and taken again, a task's space is the memory  *)
(* as it is, for reading, with its own binary's first page at the          *)
(* program's address, and the kernel's stays what it was at boot           *)
(* (paging_new_4gb, paging_set, process_map_binary, paging_free_4gb).      *)
THEOREM AddressSpacesHold == Spec => []AddressSpaces
<1>1. ProcInv => AddressSpaces
  <2> SUFFICES ASSUME ProcInv, Running PROVE AddressSpaces
    BY DEF AddressSpaces
  <2>1. Views(mem, kernel_chunk, Live, ToMap)
    BY DEF ProcInv, RunInv
  <2>2. \A t \in Live : mem[t].process # NULL
    BY LoadApart, NullsAre
  <2>3. \A t \in Live : mem[t].process # ToMap <=> ~(load.pc = "map" /\ load.process = mem[t].process)
    BY <2>2 DEF ToMap
  <2> QED BY <2>1, <2>3 DEF Views, AddressSpaces
<1> QED BY <1>1, ProcessesInvariant, PTL

(* task_free returns what task_new took: a taken paging block is the       *)
(* kernel's or that of exactly one live task, and every task has all of    *)
(* its own (paging_free_4gb).                                              *)
THEOREM PagingBlocksOwnedHolds == Spec => []PagingBlocksOwned
<1>1. ProcInv => PagingBlocksOwned
  <2> SUFFICES ASSUME ProcInv, Running PROVE PagingBlocksOwned
    BY DEF PagingBlocksOwned
  <2>1. Spaces(mem, kernel_chunk, Live, Taken) /\ mem \in [Block -> Struct]
    BY DEF ProcInv, RunInv, Typed
  <2>2. ASSUME NEW t \in Live PROVE Cardinality(TaskOwned(mem, t)) = ChunkBlocks + 1
    <3>1. PICK c : c = mem[t].page_directory
      OBVIOUS
    <3>2. IsSpace(mem, c) /\ mem[t].kind = "task"
      BY <2>1, <3>1 DEF Spaces
    <3>3. IsFiniteSet(ChunkOwned(mem, c)) /\ Cardinality(ChunkOwned(mem, c)) = ChunkBlocks
      BY <2>1, <3>2, SpaceCardinality
    <3>4. t \notin ChunkOwned(mem, c)
      BY <2>1, <3>2, SpaceBlocks
    <3>5. TaskOwned(mem, t) = ChunkOwned(mem, c) \cup {t}
      BY <3>1 DEF TaskOwned
    <3> QED BY <3>3, <3>4, <3>5, FS_AddElement
  <2> QED BY <2>1, <2>2 DEF Spaces, PagingBlocksOwned
<1> QED BY <1>1, ProcessesInvariant, PTL

(* The blocks of an interval, and of three disjoint sets. *)
LEMMA RunSize ==
  ASSUME NEW a \in Nat, NEW n \in Nat
  PROVE  IsFiniteSet(a..(a + n - 1)) /\ Cardinality(a..(a + n - 1)) = n
<1>1. a + n - 1 \in Int
  OBVIOUS
<1>2. IsFiniteSet(a..(a + n - 1)) /\ Cardinality(a..(a + n - 1))
        = IF a > a + n - 1 THEN 0 ELSE (a + n - 1) - a + 1
  BY <1>1, FS_Interval
<1> QED BY <1>2

LEMMA ThreeParts ==
  ASSUME NEW A, NEW B, NEW C, IsFiniteSet(A), IsFiniteSet(B), IsFiniteSet(C),
         A \cap B = {}, A \cap C = {}, B \cap C = {}
  PROVE  Cardinality(A \cup B \cup C) = Cardinality(A) + Cardinality(B) + Cardinality(C)
<1>1. Cardinality({}) = 0
  BY FS_EmptySet
<1>2. /\ Cardinality(A) \in Nat /\ Cardinality(B) \in Nat /\ Cardinality(C) \in Nat
  BY FS_CardinalityType
<1>3. /\ IsFiniteSet(A \cup B)
      /\ Cardinality(A \cup B) = Cardinality(A) + Cardinality(B) - Cardinality(A \cap B)
  BY FS_Union
<1>4. /\ Cardinality((A \cup B) \cup C)
           = Cardinality(A \cup B) + Cardinality(C) - Cardinality((A \cup B) \cap C)
  BY <1>3, FS_Union
<1>5. (A \cup B) \cap C = {}
  OBVIOUS
<1>6. Cardinality(A \cup B) = Cardinality(A) + Cardinality(B)
  <2>1. Cardinality(A \cap B) = 0
    BY <1>1
  <2> QED BY <1>2, <1>3, <2>1
<1>7. Cardinality((A \cup B) \cap C) = 0
  BY <1>1, <1>5
<1>8. Cardinality((A \cup B) \cup C) = Cardinality(A) + Cardinality(B) + Cardinality(C)
  BY <1>2, <1>4, <1>6, <1>7
<1> QED BY <1>8

(* What a process in the table owns. *)
LEMMA RegisteredOwns ==
  ASSUME ProcInv, Running, NEW p \in Registered
  PROVE  /\ p \in Block /\ mem[p] \in ProcessStruct /\ mem[p].kind = "process"
         /\ mem[p].ptr # NULL /\ mem[p].blocks > 0 /\ ProcessOwned(p) = Holds(mem, p)
         /\ Cardinality(ProcessOwned(p)) = ProcessBlocks + mem[p].blocks + StackBlocks
<1>0. /\ Typed /\ Owners(mem, Registered \cup Loading, Taken)
      /\ Tied(mem, Live, Registered \cup Loading) /\ Filled(mem, processes)
  BY DEF ProcInv, RunInv
<1>1. p \in Block /\ mem[p] \in ProcessStruct /\ mem[p].kind = "process"
  BY LoadApart
<1>2. PICK s \in Slots : p = processes[s] /\ p # NULL
  BY <1>0 DEF Registered, Typed
<1>3. mem[p].ptr # NULL /\ mem[p].blocks > 0 /\ mem[p].stack # NULL
  BY <1>0, <1>2 DEF Filled
<1>4. /\ mem[p].ptr \in Nat /\ mem[p].blocks \in Nat /\ mem[p].stack \in Nat /\ p \in Nat
      /\ ProcessBlocks \in Nat /\ StackBlocks \in Nat
  BY <1>1, <1>3, BlocksAre, ProcessesAssumption DEF ProcessStruct, Pointer
<1>5. /\ Binary(mem, p) = mem[p].ptr..(mem[p].ptr + mem[p].blocks - 1)
      /\ Stack(mem, p) = mem[p].stack..(mem[p].stack + StackBlocks - 1)
      /\ Body(p) = p..(p + ProcessBlocks - 1)
  BY <1>3 DEF Binary, Stack, Body
<1>6. ProcessOwned(p) = Body(p) \cup Binary(mem, p) \cup Stack(mem, p)
  BY <1>5 DEF ProcessOwned
<1>7. /\ IsFiniteSet(Body(p)) /\ Cardinality(Body(p)) = ProcessBlocks
      /\ IsFiniteSet(Binary(mem, p)) /\ Cardinality(Binary(mem, p)) = mem[p].blocks
      /\ IsFiniteSet(Stack(mem, p)) /\ Cardinality(Stack(mem, p)) = StackBlocks
  <2>1. IsFiniteSet(Body(p)) /\ Cardinality(Body(p)) = ProcessBlocks
    <3>1. /\ IsFiniteSet(p..(p + ProcessBlocks - 1))
          /\ Cardinality(p..(p + ProcessBlocks - 1)) = ProcessBlocks
      BY <1>4, RunSize
    <3> QED BY <1>5, <3>1
  <2>2. IsFiniteSet(Binary(mem, p)) /\ Cardinality(Binary(mem, p)) = mem[p].blocks
    <3>1. PICK a \in Nat, n \in Nat : a = mem[p].ptr /\ n = mem[p].blocks
      BY <1>4
    <3>2. Binary(mem, p) = a..(a + n - 1)
      BY <1>5, <3>1
    <3>3. IsFiniteSet(a..(a + n - 1)) /\ Cardinality(a..(a + n - 1)) = n
      BY RunSize
    <3> QED BY <3>1, <3>2, <3>3
  <2>3. IsFiniteSet(Stack(mem, p)) /\ Cardinality(Stack(mem, p)) = StackBlocks
    <3>1. PICK a \in Nat : a = mem[p].stack
      BY <1>4
    <3>2. Stack(mem, p) = a..(a + StackBlocks - 1)
      BY <1>5, <3>1
    <3>3. StackBlocks \in Nat
      BY <1>4
    <3>4. IsFiniteSet(a..(a + StackBlocks - 1)) /\ Cardinality(a..(a + StackBlocks - 1)) = StackBlocks
      BY <3>3, RunSize
    <3> QED BY <3>2, <3>4
  <2> QED BY <2>1, <2>2, <2>3
<1>8. /\ Body(p) \cap Binary(mem, p) = {} /\ Body(p) \cap Stack(mem, p) = {}
      /\ Binary(mem, p) \cap Stack(mem, p) = {}
  BY <1>0 DEF Owners, IsProcess
<1>9. Cardinality(ProcessOwned(p)) = ProcessBlocks + mem[p].blocks + StackBlocks
  BY <1>6, <1>7, <1>8, ThreeParts
<1> QED BY <1>1, <1>3, <1>6, <1>9 DEF Holds

(* A process in the table has its id, its structure, its binary and its    *)
(* stack, in blocks that nobody else has, and the tasks are theirs         *)
(* (process_load_for_slot): no failure on the way leaves half a process in *)
(* the table.                                                              *)
THEOREM RegisteredCompleteHolds == Spec => []RegisteredComplete
<1>1. ProcInv => RegisteredComplete
  <2> SUFFICES ASSUME ProcInv, Running PROVE RegisteredComplete
    BY DEF RegisteredComplete
  <2>1. /\ Typed /\ Owners(mem, Registered \cup Loading, Taken)
        /\ Tied(mem, Live, Registered \cup Loading) /\ Filled(mem, processes)
    BY DEF ProcInv, RunInv
  <2>2. ASSUME NEW p \in Registered
        PROVE  /\ p \in Block /\ mem[p] \in ProcessStruct /\ mem[p].kind = "process"
               /\ mem[p].blocks > 0 /\ ProcessOwned(p) = Holds(mem, p)
               /\ Cardinality(ProcessOwned(p)) = ProcessBlocks + mem[p].blocks + StackBlocks
    BY RegisteredOwns
  <2>3. ASSUME NEW s \in DOMAIN processes, NEW p, p = processes[s], p # NULL
        PROVE  /\ mem[p].kind = "process" /\ mem[p].id = s /\ mem[p].blocks > 0
               /\ ProcessOwned(p) \subseteq Taken
               /\ Cardinality(ProcessOwned(p)) = ProcessBlocks + mem[p].blocks + StackBlocks
               /\ \A q \in Registered \ {p} : ProcessOwned(p) \cap ProcessOwned(q) = {}
    <3>1. p \in Registered
      BY <2>3 DEF Registered
    <3>2. mem[p].id = s
      BY <2>1, <2>3 DEF Filled, Typed
    <3>3. Holds(mem, p) \subseteq Taken
      BY <3>1, LoadApart
    <3>4. \A q \in Registered \ {p} : ProcessOwned(p) \cap ProcessOwned(q) = {}
      BY <2>1, <2>2, <3>1 DEF Owners
    <3> QED BY <2>2, <3>1, <3>2, <3>3, <3>4
  <2>4. ASSUME NEW t \in Live, NEW p, p = mem[t].process
        PROVE  mem[p].task = t /\ (p \in Registered \/ (load # Idle /\ p = load.process))
    BY <2>1, <2>4 DEF Tied, Loading
  <2> QED BY <2>3, <2>4 DEF RegisteredComplete
<1> QED BY <1>1, ProcessesInvariant, PTL

(* No program can write anything but its own binary: no page table, no     *)
(* memory outside the heap and no other process, though it can read them   *)
(* all (task_init, process_map_binary).                                    *)
THEOREM WritesOwnBinaryHolds == Spec => []WritesOwnBinary
<1>1. ProcInv => WritesOwnBinary
  <2> SUFFICES ASSUME ProcInv, Running, NEW t \in Live, NEW p, p = mem[t].process,
                      NEW page \in Writeable(t)
               PROVE  \E b \in mem[p].ptr..(mem[p].ptr + mem[p].blocks - 1) :
                        /\ page = PageOf(b)
                        /\ b \notin ChunkOwned(mem, kernel_chunk) \cup TasksOwned(mem, Live)
                        /\ \A q \in Registered \ {p} : b \notin ProcessOwned(q)
    BY DEF WritesOwnBinary
  <2>1. /\ Spaces(mem, kernel_chunk, Live, Taken) /\ Views(mem, kernel_chunk, Live, ToMap)
        /\ Owners(mem, Registered \cup Loading, Taken)
        /\ Tied(mem, Live, Registered \cup Loading)
    BY DEF ProcInv, RunInv
  <2>2. PICK v \in Pages : /\ page = Translate(mem, DirectoryOf(mem, t), v).page
                           /\ "writeable" \in Translate(mem, DirectoryOf(mem, t), v).flags
    BY DEF Writeable
  <2>3. "writeable" \notin USER
    BY DEF USER
  <2>4. p # ToMap /\ page = PageOf(mem[p].ptr)
    <3>1. Translate(mem, DirectoryOf(mem, t), v) =
            IF v = PROGRAM_VIRTUAL /\ p # ToMap
            THEN [page |-> PageOf(mem[p].ptr), flags |-> WRITEABLE]
            ELSE [page |-> v, flags |-> USER]
      BY <2>1 DEF Views
    <3> QED BY <2>2, <2>3, <3>1
  <2>5. p \in Registered
    BY <2>1, <2>4, LoadApart DEF Tied, Loading, ToMap
  <2>6. /\ p \in Block /\ mem[p] \in ProcessStruct /\ mem[p].ptr # NULL /\ mem[p].blocks > 0
    BY <2>5, RegisteredOwns
  <2>7. PICK b \in Nat, n \in Nat \ {0} : b = mem[p].ptr /\ n = mem[p].blocks
    BY <2>6, BlocksAre DEF ProcessStruct, Pointer
  <2>8. b \in Binary(mem, p)
    <3>1. b \in b..(b + n - 1)
      OBVIOUS
    <3> QED BY <2>6, <2>7, <3>1 DEF Binary
  <2>9. p \in Body(p)
    BY <2>6, InBody
  <2>10. IsProcess(mem, p, Taken)
    BY <2>1, <2>5 DEF Owners
  <2>11. mem[b].kind = "bytes"
    BY <2>8, <2>9, <2>10 DEF IsProcess, Holds
  <2>12. b \notin ChunkOwned(mem, kernel_chunk) \cup TasksOwned(mem, Live)
    BY <2>1, <2>11 DEF Spaces, PagingKinds
  <2>13. \A q \in Registered \ {p} : b \notin ProcessOwned(q)
    BY <2>1, <2>5, <2>8, RegisteredOwns DEF Owners, Holds
  <2>14. b \in mem[p].ptr..(mem[p].ptr + mem[p].blocks - 1)
    BY <2>6, <2>8 DEF Binary
  <2> QED BY <2>4, <2>7, <2>12, <2>13, <2>14
<1> QED BY <1>1, ProcessesInvariant, PTL
=============================================================================
