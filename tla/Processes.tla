----------------------------- MODULE Processes ------------------------------
(***************************************************************************)
(* Page tables, tasks and processes (memory/paging/paging.c, task/task.c,  *)
(* task/process.c): the kernel's own page tables at boot, loading of       *)
(* programs, the task list, switching and freeing tasks.  The makefile     *)
(* links paging.c and leaves task/ out, so who calls the functions of      *)
(* task.h and process.h, and when, is open; they are called here in any    *)
(* order, for live tasks, and for a slot process_load chooses or a taken   *)
(* one.                                                                    *)
(*                                                                         *)
(* A heap block is a page.  A structure in a block is kept as the fields   *)
(* that are read again, and a freed block keeps them.  A page number       *)
(* stands for an address, virtual or physical.  The heap's pages are among *)
(* those that the tables span.  Error codes are left out: a call that      *)
(* fails returns early, and nobody is there to test its result.            *)
(***************************************************************************)
EXTENDS Integers, Sequences, FiniteSetsExt

CONSTANTS ENTRIES,          \* PAGING_TOTAL_ENTRIES_PER_TABLE
          MAX_PROCESSES,    \* PEACHOS_MAX_PROCESSES
          ProcessBlocks,    \* blocks of a struct process,
          StackBlocks,      \* and of PEACHOS_USER_PROGRAM_STACK_SIZE
          Programs,         \* files: [found, blocks, readable]
          HEAP_PAGE,        \* the page at PEACHOS_HEAP_ADDRESS
          HeapSizes         \* how many blocks the heap may have

ASSUME ProcessesAssumption ==
  /\ ENTRIES \in Nat /\ ENTRIES >= 2
  /\ MAX_PROCESSES \in Nat /\ ProcessBlocks \in Nat \ {0} /\ StackBlocks \in Nat \ {0}
  /\ \A p \in Programs : p.blocks \in Nat /\ (p.blocks = 0 => ~p.readable)
  /\ HeapSizes # {} /\ \A n \in HeapSizes : n \in Nat /\ n >= ENTRIES + 3
  /\ HEAP_PAGE \in Nat /\ HEAP_PAGE > ENTRIES
  /\ \A n \in HeapSizes : HEAP_PAGE + n <= ENTRIES * ENTRIES

VARIABLES heap_end,            \* the heap's last block
          avail,               \* blocks the heap can hand out
          mem,                 \* block -> structure
          kernel_chunk, current_directory,
          task_head, task_tail, current_task,
          processes,           \* slot -> block or NULL
          load,                \* the process_load_for_slot being run
          mode,                \* "boot", "run", "panic", or "wild": see below
          tasks,               \* history: the live tasks, oldest first
          stale_store          \* history: was a task freed whose prev is not the task before it?

listVars == <<task_head, task_tail, current_task, tasks, stale_store>>
vars == <<heap_end, avail, mem, kernel_chunk, current_directory, listVars,
          processes, load, mode>>

Slots == 0..(MAX_PROCESSES - 1)

NULL == 0
OVER == -1                     \* a buffer that ends behind the heap

Block == UNION {1..n : n \in HeapSizes}
Index == 0..(ENTRIES - 1)      \* of tables in a directory, and of entries in a table
Pages == 0..(ENTRIES * ENTRIES - 1)
PageOf(b) == HEAP_PAGE + b - 1

(* Mutant: PAGING_IS_WRITEABLE is among the flags of task_init. *)
BugUSER == {"present", "user", "writeable"}

(* The flags of task_init, and those of the kernel and of a program. *)
USER == {"present", "user"}
WRITEABLE == {"present", "user", "writeable"}

PROGRAM_VIRTUAL == ENTRIES     \* PEACHOS_PROGRAM_VIRTUAL_ADDRESS: second table, first entry
BOOT_VIRTUAL == 1              \* 0x1000

Bytes == [kind |-> "bytes"]
Idle == [pc |-> "idle"]

-----------------------------------------------------------------------------
(* The heap: first fit; the run at the end may be handed out too short,    *)
(* also for a request of no bytes, which takes no block.                   *)
kzalloc(a, n) ==
  LET fits == {b \in a : n > 0 /\ b..(b + n - 1) \subseteq a}
  IN IF fits # {} THEN Min(fits) ELSE IF heap_end \in a THEN OVER ELSE NULL

(* The first n single blocks. *)
Lowest(a, n) == {b \in a : Cardinality({c \in a : c < b}) < n}
Nth(S, i) == CHOOSE b \in S : Cardinality({c \in S : c < b}) = i

(* What runs on after a store or a jump through a pointer that was not     *)
(* meant: nothing is said of it.                                           *)
Wild == mode' = "wild"

-----------------------------------------------------------------------------
(* Paging *)

ChunkBlocks == ENTRIES + 2
DirectoryIn(S) == Nth(S, 0)
ChunkIn(S) == Nth(S, ENTRIES + 1)

(* Mutant: offset is not advanced from table to table. *)
bug_paging_new_4gb(m, S, flags) ==
  LET table(i) == Nth(S, i + 1) IN
  [b \in Block |->
     IF b = DirectoryIn(S) THEN [kind |-> "directory", tables |-> [i \in Index |-> table(i)]]
     ELSE IF b = ChunkIn(S) THEN [kind |-> "chunk", directory |-> DirectoryIn(S)]
     ELSE IF b \in S THEN [kind |-> "table",
                           entries |-> [e \in Index |-> [page |-> e, flags |-> flags]]]
     ELSE m[b]]

(* The directory, then its tables, each of which maps its pages to         *)
(* themselves, then the chunk, in the blocks S in this order.              *)
paging_new_4gb(m, S, flags) ==
  LET table(i) == Nth(S, i + 1)
      index(b) == CHOOSE i \in Index : table(i) = b
  IN [b \in Block |->
        IF b = DirectoryIn(S) THEN [kind |-> "directory", tables |-> [i \in Index |-> table(i)]]
        ELSE IF b = ChunkIn(S) THEN [kind |-> "chunk", directory |-> DirectoryIn(S)]
        ELSE IF b \in S
        THEN [kind |-> "table",
              entries |-> [e \in Index |-> [page |-> index(b) * ENTRIES + e, flags |-> flags]]]
        ELSE m[b]]

(* The table and the entry of a virtual page. *)
paging_get_indexes(virt) == [directory |-> virt \div ENTRIES, table |-> virt % ENTRIES]

(* Every address here is a page's, so that no call is refused. *)
paging_set(m, directory, virt, val) ==
  LET i == paging_get_indexes(virt)
  IN [m EXCEPT ![m[directory].tables[i.directory]].entries[i.table] = val]

(* The loop ends with the first page that is mapped. *)
paging_map_range(m, directory, virt, phys, count, flags) ==
  IF count = 0 THEN m ELSE paging_set(m, directory, virt, [page |-> phys, flags |-> flags])

(* Mutant: the last table is forgotten. *)
bug_paging_free_4gb(chunk) ==
  LET d == mem[chunk].directory
  IN {mem[d].tables[i] : i \in 0..(ENTRIES - 2)} \cup {d, chunk}

(* The blocks freed. *)
paging_free_4gb(chunk) ==
  LET d == mem[chunk].directory
  IN {mem[d].tables[i] : i \in Index} \cup {d, chunk}

-----------------------------------------------------------------------------
(* Boot *)

Init == /\ \E n \in HeapSizes : heap_end = n /\ avail = 1..n
        /\ mem = [b \in Block |-> Bytes]
        /\ kernel_chunk = NULL /\ current_directory = NULL
        /\ task_head = NULL /\ task_tail = NULL /\ current_task = NULL
        /\ processes = [s \in Slots |-> NULL]
        /\ load = Idle /\ mode = "boot"
        /\ tasks = <<>> /\ stale_store = FALSE

(* The kernel's page tables, with one page from the heap at 0x1000. *)
kernel_main ==
  LET S == Lowest(avail, ChunkBlocks)
      ptr == Min(avail \ S)
      m == paging_new_4gb(mem, S, WRITEABLE)
  IN
  /\ mode = "boot" /\ mode' = "run"
  /\ avail' = (avail \ S) \ {ptr}
  /\ mem' = paging_set(m, DirectoryIn(S), BOOT_VIRTUAL, [page |-> PageOf(ptr), flags |-> WRITEABLE])
  /\ kernel_chunk' = ChunkIn(S) /\ current_directory' = DirectoryIn(S)
  /\ UNCHANGED <<heap_end, listVars, processes, load>>

-----------------------------------------------------------------------------
(* Loading a process *)

Running == mode = "run"
Ready == Running /\ load = Idle
Keeps == UNCHANGED <<heap_end, kernel_chunk, current_directory>>
Return == load' = Idle

(* Mutant: the slot is not tested. *)
bug_process_get_free_slot == {0} \cap DOMAIN processes

(* The first slot in which there is no process. *)
process_get_free_slot ==
  {s \in DOMAIN processes : processes[s] = NULL /\ \A q \in 0..(s - 1) : processes[q] # NULL}

(* process_load without a slot. *)
process_load_full ==
  /\ Ready /\ process_get_free_slot = {}
  /\ UNCHANGED <<avail, mem, listVars, processes, load, mode>> /\ Keeps

(* A taken slot: _process is not yet set when it is tested at out, and     *)
(* unless it happens to be NULL a task is freed through it.                *)
slot_taken(slot) ==
  /\ Ready /\ processes[slot] # NULL
  /\ Wild \/ UNCHANGED mode
  /\ UNCHANGED <<avail, mem, listVars, processes, load>> /\ Keeps

process_load_for_slot(program, slot) ==
  LET p == kzalloc(avail, ProcessBlocks) IN
  /\ Ready
  /\ IF p = NULL THEN Return /\ UNCHANGED <<avail, mem, mode>>
     ELSE IF p = OVER THEN Wild /\ UNCHANGED <<avail, mem, load>>
     ELSE /\ avail' = avail \ (p..(p + ProcessBlocks - 1))
          /\ mem' = [b \in Block |->
                       IF b = p THEN [kind |-> "process", id |-> slot, task |-> NULL, ptr |-> NULL,
                                      blocks |-> 0, stack |-> NULL]
                       ELSE IF b \in p..(p + ProcessBlocks - 1) THEN Bytes ELSE mem[b]]
          /\ load' = [pc |-> "binary", program |-> program, process |-> p]
          /\ UNCHANGED mode
  /\ UNCHANGED <<listVars, processes>> /\ Keeps

(* fopen takes three blocks for the path, which stay taken, and four for   *)
(* the descriptor.  With too few of them it fails, or returns a number     *)
(* whose slot is empty and that fstat refuses (see FileBlocks).            *)
PathBlocks == 3
FdBlocks == 4
fopen == IF Cardinality(avail) \in {PathBlocks + 2, PathBlocks + 3} /\ load.program.found
         THEN avail ELSE Lowest(avail, PathBlocks)
Opened == load.program.found /\ Cardinality(avail) >= PathBlocks + FdBlocks

Cleared(m, S) == [b \in Block |-> IF b \in S THEN Bytes ELSE m[b]]

(* The file's blocks are freed on every path; a buffer that could not be   *)
(* filled is not.                                                          *)
process_load_binary ==
  LET path == fopen
      held == IF Opened THEN Lowest(avail \ path, FdBlocks) ELSE {}
      left == (avail \ path) \ held
      n == load.program.blocks
      ptr == kzalloc(left, n)
      data == IF ptr \in Block THEN ptr..(ptr + n - 1) ELSE {}
  IN
  /\ Running /\ load.pc = "binary"
  /\ IF ~Opened
     THEN /\ avail' = avail \ path /\ mem' = Cleared(mem, path)
          /\ Return /\ UNCHANGED mode
     ELSE IF n > 0 /\ ptr = OVER
     THEN Wild /\ UNCHANGED <<avail, mem, load>>
     ELSE /\ avail' = (avail \ path) \ data
          /\ LET m == Cleared(mem, path \cup held \cup data)
             IN IF ptr # NULL /\ load.program.readable
                THEN /\ mem' = [m EXCEPT ![load.process].ptr = ptr, ![load.process].blocks = n]
                     /\ load' = [load EXCEPT !.pc = "stack"]
                ELSE /\ mem' = m
                     /\ Return
          /\ UNCHANGED mode
  /\ UNCHANGED <<listVars, processes>> /\ Keeps

(* On failure the process and its binary stay taken. *)
process_stack ==
  LET s == kzalloc(avail, StackBlocks)
      data == s..(s + StackBlocks - 1)
  IN
  /\ Running /\ load.pc = "stack"
  /\ IF s = NULL THEN Return /\ UNCHANGED <<avail, mem, mode>>
     ELSE IF s = OVER THEN Wild /\ UNCHANGED <<avail, mem, load>>
     ELSE /\ avail' = avail \ data
          /\ mem' = [Cleared(mem, data) EXCEPT ![load.process].stack = s]
          /\ load' = [load EXCEPT !.pc = "task"]
          /\ UNCHANGED mode
  /\ UNCHANGED <<listVars, processes>> /\ Keeps

-----------------------------------------------------------------------------
(* Tasks *)

(* The end of task_new. *)
list_append(m, t) ==
  /\ mem' = IF task_head = NULL THEN m ELSE [m EXCEPT ![task_tail].next = t, ![t].prev = task_tail]
  /\ task_head' = IF task_head = NULL THEN t ELSE task_head
  /\ task_tail' = t
  /\ tasks' = Append(tasks, t)

task_init(chunk, process) ==
  [kind |-> "task", page_directory |-> chunk, process |-> process, next |-> NULL, prev |-> NULL]

(* The task and its page tables, at the end of the list.  Without          *)
(* memory for them paging_new_4gb and task_new go on through NULL, and the *)
(* error is taken for a task, as the test of task is the wrong way round.  *)
(* So is a tail that is no task any more.                                  *)
task_new ==
  LET t == Min(avail)
      S == Lowest(avail \ {t}, ChunkBlocks)
      p == load.process
      m == paging_new_4gb(
             [mem EXCEPT ![t] = task_init(ChunkIn(S), p), ![p].task = t], S, USER)
  IN
  /\ Running /\ load.pc = "task"
  /\ IF /\ Cardinality(avail) > ChunkBlocks
        /\ task_head # NULL => task_tail # NULL /\ m[task_tail].kind = "task"
     THEN /\ avail' = avail \ ({t} \cup S)
          /\ list_append(m, t)
          /\ load' = [load EXCEPT !.pc = "map"]
          /\ UNCHANGED <<current_task, stale_store, mode>>
     ELSE Wild /\ UNCHANGED <<avail, mem, listVars, load>>
  /\ UNCHANGED processes /\ Keeps

DirectoryOf(m, t) == m[m[t].page_directory].directory

(* Mutant: PAGING_ACCESS_FROM_ALL is missing. *)
bug_process_map_memory ==
  LET p == load.process IN
  /\ Running /\ load.pc = "map"
  /\ mem' = paging_map_range(mem, DirectoryOf(mem, mem[p].task), PROGRAM_VIRTUAL,
                             PageOf(mem[p].ptr), mem[p].blocks, WRITEABLE \ {"user"})
  /\ processes' = [processes EXCEPT ![mem[p].id] = p]
  /\ Return
  /\ UNCHANGED <<avail, listVars, mode>> /\ Keeps

(* The program's pages are mapped and the process is entered in its slot. *)
process_map_memory ==
  LET p == load.process IN
  /\ Running /\ load.pc = "map"
  /\ mem' = paging_map_range(mem, DirectoryOf(mem, mem[p].task), PROGRAM_VIRTUAL,
                             PageOf(mem[p].ptr), mem[p].blocks, WRITEABLE)
  /\ processes' = [processes EXCEPT ![mem[p].id] = p]
  /\ Return
  /\ UNCHANGED <<avail, listVars, mode>> /\ Keeps

(* Mutant: a task in the middle is not taken out of the list. *)
bug_task_list_remove(t) ==
  LET next == mem[t].next
      head == IF t = task_head THEN next ELSE task_head
  IN
  /\ mem' = mem
  /\ task_head' = head
  /\ task_tail' = IF t = task_tail THEN mem[t].prev ELSE task_tail
  /\ current_task' = IF t # current_task THEN current_task
                     ELSE IF next = NULL THEN head ELSE next

(* The link of the task before, but not that of the task behind. *)
task_list_remove(t) ==
  LET next == mem[t].next
      prev == mem[t].prev
      head == IF t = task_head THEN next ELSE task_head
  IN
  /\ mem' = IF prev # NULL /\ mem[prev].kind = "task" THEN [mem EXCEPT ![prev].next = next] ELSE mem
  /\ task_head' = head
  /\ task_tail' = IF t = task_tail THEN prev ELSE task_tail
  /\ current_task' = IF t # current_task THEN current_task
                     ELSE IF next = NULL THEN head ELSE next

Live == Range(tasks)
Place(t) == CHOOSE i \in DOMAIN tasks : tasks[i] = t
Before(t) == IF Place(t) = 1 THEN NULL ELSE tasks[Place(t) - 1]

(* A store through prev into page tables makes them wild. *)
task_free(t) ==
  LET prev == mem[t].prev IN
  /\ Ready
  /\ avail' = avail \cup paging_free_4gb(mem[t].page_directory) \cup {t}
  /\ task_list_remove(t)
  /\ tasks' = [j \in 1..(Len(tasks) - 1) |-> IF j < Place(t) THEN tasks[j] ELSE tasks[j + 1]]
  /\ stale_store' = (stale_store \/ prev # Before(t))
  /\ IF prev # NULL /\ mem[prev].kind \in {"directory", "table"} THEN Wild ELSE UNCHANGED mode
  /\ UNCHANGED <<processes, load>> /\ Keeps

task_get_next == IF mem[current_task].kind # "task" THEN NULL
                 ELSE IF mem[current_task].next = NULL THEN task_head ELSE mem[current_task].next

(* A task to switch to that is none, or whose chunk is none, is wild. *)
task_switch(t) ==
  /\ IF t # NULL /\ mem[t].kind = "task" /\ mem[mem[t].page_directory].kind = "chunk"
     THEN current_task' = t /\ current_directory' = DirectoryOf(mem, t) /\ UNCHANGED mode
     ELSE Wild /\ UNCHANGED <<current_task, current_directory>>
  /\ UNCHANGED <<heap_end, avail, mem, kernel_chunk, task_head, task_tail, tasks, stale_store,
                 processes, load>>

(* The next task's turn, and the return to the current one's pages. *)
switch_next == Ready /\ current_task # NULL /\ task_switch(task_get_next)
task_page == Ready /\ current_task # NULL /\ task_switch(current_task)

task_run_first_ever_task ==
  /\ Ready
  /\ \/ current_task # NULL /\ task_switch(task_head)
     \/ /\ current_task = NULL /\ mode' = "panic"
        /\ UNCHANGED <<avail, mem, listVars, processes, load>> /\ Keeps

(* Nothing follows a panic, and nothing is said of wild states. *)
stopped == mode \in {"panic", "wild"} /\ UNCHANGED vars

Next == \/ kernel_main
        \/ process_load_full
        \/ \E s \in process_get_free_slot, p \in Programs : process_load_for_slot(p, s)
        \/ \E s \in DOMAIN processes : slot_taken(s)
        \/ process_load_binary \/ process_stack \/ task_new \/ process_map_memory
        \/ \E t \in Live : task_free(t) \/ (Ready /\ task_switch(t))
        \/ switch_next \/ task_page \/ task_run_first_ever_task
        \/ stopped

Spec == Init /\ [][Next]_vars
-----------------------------------------------------------------------------
(* What a virtual page is in a directory of the memory m. *)
Translate(m, directory, virt) ==
  LET i == paging_get_indexes(virt)
  IN m[m[directory].tables[i.directory]].entries[i.table]

ChunkOwned(m, chunk) ==
  {chunk, m[chunk].directory} \cup {m[m[chunk].directory].tables[i] : i \in Index}
TaskOwned(m, t) == {t} \cup ChunkOwned(m, m[t].page_directory)
TasksOwned(m, L) == UNION {TaskOwned(m, t) : t \in L}
ProcessOwned(p) == (p..(p + ProcessBlocks - 1)) \cup (mem[p].ptr..(mem[p].ptr + mem[p].blocks - 1))
                     \cup (mem[p].stack..(mem[p].stack + StackBlocks - 1))

PagingKinds == {"task", "chunk", "directory", "table"}
Taken == (1..heap_end) \ avail
Registered == {processes[s] : s \in DOMAIN processes} \ {NULL}

(* The shape of the state. *)
TypeOK == /\ avail \subseteq 1..heap_end
          /\ {task_head, task_tail, current_task, current_directory, kernel_chunk} \subseteq Block \cup {NULL}
          /\ processes \in [Slots -> Block \cup {NULL}]
          /\ \A b \in Block :
               /\ mem[b].kind \in {"bytes", "process", "task", "chunk", "directory", "table"}
               /\ mem[b].kind = "table" => \A i \in Index :
                    /\ mem[b].entries[i].page \in Pages
                    /\ mem[b].entries[i].flags \in {USER, WRITEABLE}
          /\ load.pc \in {"idle", "binary", "stack", "task", "map"}
          /\ mode \in {"boot", "run", "panic", "wild"}

(* However tasks come and go and blocks are reused, every task's tables    *)
(* map each page to itself, for reading, but for the first page of the     *)
(* program, which is the process's own binary and writeable (task_init,    *)
(* process_map_binary); the kernel's directory never changes after boot.   *)
(* So every program can read all memory, the heap with the other           *)
(* processes included, and a pointer into the heap means the same block in *)
(* every space.                                                            *)
AddressSpaces ==
  Running =>
    /\ \A t \in Live, v \in Pages :
         Translate(mem, DirectoryOf(mem, t), v) =
           IF v = PROGRAM_VIRTUAL /\ ~(load.pc = "map" /\ load.process = mem[t].process)
           THEN [page |-> PageOf(mem[mem[t].process].ptr), flags |-> WRITEABLE]
           ELSE [page |-> v, flags |-> USER]
    /\ \A v \in Pages \ {BOOT_VIRTUAL} :
         Translate(mem, mem[kernel_chunk].directory, v) = [page |-> v, flags |-> WRITEABLE]

(* The pages that the program of t can write. *)
Writeable(t) ==
  LET at(v) == Translate(mem, DirectoryOf(mem, t), v)
  IN {at(v).page : v \in {w \in Pages : "writeable" \in at(w).flags}}

(* A program can write its own binary and nothing else: no page outside    *)
(* the heap, no task, page table or directory, the kernel's included, and  *)
(* no block of another process in the table, whichever blocks tasks before *)
(* it have had (task_init maps without PAGING_IS_WRITEABLE,                *)
(* process_map_binary with it).                                            *)
WritesOwnBinary ==
  Running =>
    \A t \in Live : LET p == mem[t].process IN
      \A page \in Writeable(t) : \E b \in mem[p].ptr..(mem[p].ptr + mem[p].blocks - 1) :
        /\ page = PageOf(b)
        /\ b \notin ChunkOwned(mem, kernel_chunk) \cup TasksOwned(mem, Live)
        /\ \A q \in Registered \ {p} : b \notin ProcessOwned(q)

(* The list from task_head by next is the live tasks, oldest first, with   *)
(* task_tail at its end, and current_task is one of them or none, until a  *)
(* task is freed whose prev is not the task before it, but a freed one or  *)
(* what has its block now: task_list_remove does not correct the prev of   *)
(* the task behind.                                                        *)
TaskList ==
  Running /\ ~stale_store =>
    /\ IF tasks = <<>> THEN task_head = NULL /\ task_tail = NULL
       ELSE task_head = Head(tasks) /\ task_tail = tasks[Len(tasks)]
    /\ \A i \in 1..Len(tasks) :
         mem[tasks[i]].next = IF i = Len(tasks) THEN NULL ELSE tasks[i + 1]
    /\ current_task = NULL \/ current_task \in Live

(* Tasks, directories, tables and chunks that are taken are the kernel's   *)
(* or a live task's, each of one task alone: task_free returns all that    *)
(* task_new took and nothing else.                                         *)
PagingBlocksOwned ==
  Running =>
    /\ {b \in Taken : mem[b].kind \in PagingKinds}
         = ChunkOwned(mem, kernel_chunk) \cup TasksOwned(mem, Live)
    /\ \A t \in Live :
         /\ Cardinality(TaskOwned(mem, t)) = ChunkBlocks + 1
         /\ TaskOwned(mem, t) \cap ChunkOwned(mem, kernel_chunk) = {}
         /\ \A u \in Live \ {t} : TaskOwned(mem, t) \cap TaskOwned(mem, u) = {}

(* A process in the table is complete: its structure, binary and stack are *)
(* blocks of its own, and its id is its slot.  Every live task is that of  *)
(* one process, in the table or being loaded, that names it                *)
(* (process_load_for_slot).                                                *)
RegisteredComplete ==
  Running =>
    /\ \A s \in DOMAIN processes : LET p == processes[s] IN
      p # NULL =>
        /\ mem[p].kind = "process" /\ mem[p].id = s /\ mem[p].blocks > 0
        /\ ProcessOwned(p) \subseteq Taken
        /\ Cardinality(ProcessOwned(p)) = ProcessBlocks + mem[p].blocks + StackBlocks
        /\ \A q \in Registered \ {p} : ProcessOwned(p) \cap ProcessOwned(q) = {}
    /\ \A t \in Live : LET p == mem[t].process IN
         /\ mem[p].task = t
         /\ p \in Registered \/ (load # Idle /\ p = load.process)
=============================================================================
