------------------------------ MODULE Tracelog ------------------------------
(***************************************************************************)
(* The trace log (emulator/CPU/tracelogger.c): a doubly linked list of the *)
(* last instructions, written by the emulator and read by the keyboard     *)
(* interrupt.  The emulator runs add_tracelog_entry one statement at a     *)
(* time (lpc is the statement to run next), because the interrupt may come *)
(* between any two; scroll_up and scroll_down run inside the interrupt and *)
(* are one step each.  Kernel composes them.                               *)
(*                                                                         *)
(* An entry is one heap block: kzalloc hands out the lowest free one,      *)
(* zeroed, and kfree leaves its contents.  Page 0 is mapped, so reading    *)
(* through NULL yields whatever lies there: the pointer WILD.              *)
(***************************************************************************)
EXTENDS Integers, Sequences, FiniteSetsExt

CONSTANTS Addr,             \* heap blocks the log may get, as numbers
          MaxLength,        \* TRACELOG_MAX_LENGTH
          NumPrint,         \* NUM_PRINT_ENTRIES
          MaxDrift          \* bound: the index goes no lower than -MaxDrift

ASSUME TracelogAssumption == /\ Addr \subseteq Nat \ {0}
                             /\ MaxLength \in Nat \ {0} /\ NumPrint \in Nat \ {0}
                             /\ MaxDrift \in Nat

VARIABLES log_head, log_tail, current_length, current_operand,
          cur_selected_entry, cur_selected_index,
          next, prev,       \* the links of the entries
          seq, opcode,      \* an entry's registers and cycle count, its opcode
          avail,            \* blocks the heap can hand out
          lpc, entry,       \* position in add_tracelog_entry, its local entry
          log,              \* history: the entries linked into the list, oldest first
          trace,            \* history: opcodes of the instructions begun
          evicted, refused  \* history: was an entry evicted, a kzalloc refused?

listVars == <<log, log_head, log_tail, current_length, next, prev, avail>>
selVars == <<cur_selected_entry, cur_selected_index>>
dataVars == <<seq, opcode, current_operand, trace>>
logVars == <<listVars, selVars, dataVars, lpc, entry, evicted, refused>>

NULL == 0
WILD == -1
Pointers == Addr \cup {NULL, WILD}

(* p->field, for a field of the structure kept as a function. *)
Deref(field, p) == IF p \in Addr THEN field[p] ELSE WILD
(* p->field = v; a store through NULL or WILD hits no entry. *)
Assign(field, p, v) == IF p \in Addr THEN [field EXCEPT ![p] = v] ELSE field

LogInit == /\ log_head = NULL /\ log_tail = NULL
           /\ current_length = 0 /\ current_operand = 0
           /\ cur_selected_entry = NULL /\ cur_selected_index = 0
           /\ next = [a \in Addr |-> NULL] /\ prev = [a \in Addr |-> NULL]
           /\ seq = [a \in Addr |-> 0] /\ opcode = [a \in Addr |-> 0]
           /\ avail \in SUBSET Addr
           /\ lpc = "idle" /\ entry = NULL
           /\ log = <<>> /\ trace = <<>>
           /\ evicted = FALSE /\ refused = FALSE

-----------------------------------------------------------------------------
(* add_tracelog_entry *)

(* The test of the length.  trace grows here: the instruction has begun. *)
add_begin(op) ==
  /\ lpc = "idle"
  /\ lpc' = IF current_length + 1 > MaxLength THEN "unlink" ELSE "alloc"
  /\ trace' = Append(trace, op)
  /\ UNCHANGED <<listVars, selVars, seq, opcode, current_operand, entry, evicted, refused>>

(* remove_first_entry.  Its branch for a log of one entry cannot be taken  *)
(* from here: a full log has MaxLength + 1 entries, at least two.  entry   *)
(* stands for the local old_head until kzalloc sets it.                    *)
unlink ==
  /\ lpc = "unlink" /\ lpc' = "clear_prev"
  /\ entry' = log_head
  /\ log_head' = Deref(next, log_head)
  /\ log' = Tail(log)
  /\ evicted' = TRUE
  /\ UNCHANGED <<log_tail, current_length, next, prev, avail, selVars, dataVars, refused>>

clear_prev ==
  /\ lpc = "clear_prev" /\ lpc' = "free"
  /\ prev' = Assign(prev, log_head, NULL)
  /\ UNCHANGED <<log, log_head, log_tail, current_length, next, avail, selVars, dataVars, entry, evicted, refused>>

free_old ==
  /\ lpc = "free" /\ lpc' = "shorten"
  /\ avail' = avail \cup {entry}
  /\ UNCHANGED <<log, log_head, log_tail, current_length, next, prev, selVars, dataVars, entry, evicted, refused>>

(* Mutant: the length is not decremented. *)
bug_shorten ==
  /\ lpc = "shorten" /\ lpc' = "alloc"
  /\ UNCHANGED <<listVars, selVars, dataVars, entry, evicted, refused>>

shorten ==
  /\ lpc = "shorten" /\ lpc' = "alloc"
  /\ current_length' = current_length - 1
  /\ UNCHANGED <<log, log_head, log_tail, next, prev, avail, selVars, dataVars, entry, evicted, refused>>

(* Mutant: kmalloc instead of kzalloc, the entry keeps its old contents. *)
bug_alloc ==
  /\ lpc = "alloc" /\ avail # {}
  /\ entry' = Min(avail)
  /\ avail' = avail \ {entry'}
  /\ lpc' = IF log_head = NULL THEN "set_head" ELSE "link_next"
  /\ UNCHANGED <<log, log_head, log_tail, current_length, next, prev, selVars, dataVars, evicted, refused>>

(* kzalloc: the lowest free block, zeroed. *)
alloc ==
  /\ lpc = "alloc" /\ avail # {}
  /\ entry' = Min(avail)
  /\ avail' = avail \ {entry'}
  /\ next' = [next EXCEPT ![entry'] = NULL] /\ prev' = [prev EXCEPT ![entry'] = NULL]
  /\ seq' = [seq EXCEPT ![entry'] = 0] /\ opcode' = [opcode EXCEPT ![entry'] = 0]
  /\ lpc' = IF log_head = NULL THEN "set_head" ELSE "link_next"
  /\ UNCHANGED <<log, log_head, log_tail, current_length, selVars, current_operand, trace, evicted, refused>>

(* -ENOMEM: kfree(NULL), and emulate_CPU does not look at the result. *)
no_memory ==
  /\ lpc = "alloc" /\ avail = {}
  /\ lpc' = "added"
  /\ entry' = NULL
  /\ refused' = TRUE
  /\ UNCHANGED <<listVars, selVars, dataVars, evicted>>

(* The first entry. *)
set_head ==
  /\ lpc = "set_head" /\ lpc' = "select_head"
  /\ log_head' = entry
  /\ log' = <<entry>>
  /\ UNCHANGED <<log_tail, current_length, next, prev, avail, selVars, dataVars, entry, evicted, refused>>

select_head ==
  /\ lpc = "select_head" /\ lpc' = "first_tail"
  /\ cur_selected_entry' = log_head
  /\ UNCHANGED <<listVars, cur_selected_index, dataVars, entry, evicted, refused>>

(* The other entries. *)
link_next ==
  /\ lpc = "link_next" /\ lpc' = "link_prev"
  /\ next' = Assign(next, log_tail, entry)
  /\ log' = Append(log, entry)
  /\ UNCHANGED <<log_head, log_tail, current_length, prev, avail, selVars, dataVars, entry, evicted, refused>>

link_prev ==
  /\ lpc = "link_prev" /\ lpc' = "set_tail"
  /\ prev' = [prev EXCEPT ![entry] = log_tail]
  /\ UNCHANGED <<log, log_head, log_tail, current_length, next, avail, selVars, dataVars, entry, evicted, refused>>

set_tail ==
  /\ lpc \in {"first_tail", "set_tail"}
  /\ lpc' = IF lpc = "first_tail" THEN "init_first" ELSE "init"
  /\ log_tail' = entry
  /\ UNCHANGED <<log, log_head, current_length, next, prev, avail, selVars, dataVars, entry, evicted, refused>>

(* Mutant: the operand index is not reset. *)
bug_init_log_entry ==
  /\ lpc \in {"init_first", "init"}
  /\ lpc' = IF lpc = "init_first" THEN "added" ELSE "lengthen"
  /\ seq' = [seq EXCEPT ![entry] = Len(trace)]
  /\ UNCHANGED <<listVars, selVars, opcode, current_operand, trace, entry, evicted, refused>>

init_log_entry ==
  /\ lpc \in {"init_first", "init"}
  /\ lpc' = IF lpc = "init_first" THEN "added" ELSE "lengthen"
  /\ seq' = [seq EXCEPT ![entry] = Len(trace)]
  /\ current_operand' = 0
  /\ UNCHANGED <<listVars, selVars, opcode, trace, entry, evicted, refused>>

lengthen ==
  /\ lpc = "lengthen" /\ lpc' = "added"
  /\ current_length' = current_length + 1
  /\ UNCHANGED <<log, log_head, log_tail, next, prev, avail, selVars, dataVars, entry, evicted, refused>>

(* The instruction runs: tail_log_set_operand is called for its opcode and *)
(* for each of its k operand bytes; the other tail_log_set_* functions     *)
(* fill fields of the same entry.                                          *)
tail_log_set(k) ==
  LET op == trace[Len(trace)] IN
  /\ lpc = "added" /\ lpc' = "idle"
  /\ opcode' = IF Deref(opcode, log_tail) = 0 THEN Assign(opcode, log_tail, op) ELSE opcode
  /\ current_operand' = current_operand + k + (IF Deref(opcode, log_tail) = 0 THEN 0 ELSE 1)
  /\ entry' = NULL
  /\ UNCHANGED <<listVars, selVars, seq, trace, evicted, refused>>

AddStep == \/ unlink \/ clear_prev \/ free_old \/ shorten
           \/ alloc \/ no_memory
           \/ set_head \/ select_head
           \/ link_next \/ link_prev \/ set_tail \/ init_log_entry \/ lengthen

-----------------------------------------------------------------------------
(* The keyboard interrupt.  Both also print, which changes only the screen. *)

(* Mutant: the bound on the index leaves out the page that is shown. *)
bug_scroll_down ==
  /\ IF cur_selected_index < current_length + NumPrint
     THEN /\ cur_selected_entry' = Deref(next, cur_selected_entry)
          /\ cur_selected_index' = cur_selected_index + 1
     ELSE UNCHANGED selVars
  /\ UNCHANGED <<listVars, dataVars, lpc, entry, evicted, refused>>

scroll_down ==
  /\ IF cur_selected_index + NumPrint < current_length
     THEN /\ cur_selected_entry' = Deref(next, cur_selected_entry)
          /\ cur_selected_index' = cur_selected_index + 1
     ELSE UNCHANGED selVars
  /\ UNCHANGED <<listVars, dataVars, lpc, entry, evicted, refused>>

scroll_up ==
  /\ IF cur_selected_entry # log_head
     THEN /\ cur_selected_index > -MaxDrift
          /\ cur_selected_entry' = Deref(prev, cur_selected_entry)
          /\ cur_selected_index' = cur_selected_index - 1
     ELSE UNCHANGED selVars
  /\ UNCHANGED <<listVars, dataVars, lpc, entry, evicted, refused>>

(* The pointers print_tracelog_entry is given by tracelog_print_entries. *)
LastLine == Min({NumPrint, current_length})

tracelog_print_entries ==
  LET print_entry[i \in 0..LastLine] ==
        IF i = 0 THEN cur_selected_entry
        ELSE IF print_entry[i - 1] # log_tail THEN Deref(next, print_entry[i - 1])
        ELSE print_entry[i - 1]
  IN {print_entry[i] : i \in 0..LastLine}

-----------------------------------------------------------------------------
Linked == Range(log)

LogTypeOK == /\ log_head \in Pointers /\ log_tail \in Pointers
             /\ cur_selected_entry \in Pointers
             /\ next \in [Addr -> Pointers] /\ prev \in [Addr -> Pointers]
             /\ avail \subseteq Addr

(* Between two instructions the list built by add_tracelog_entry and        *)
(* remove_first_entry is the entries linked and not evicted, oldest first:  *)
(* doubly linked, without cycles, of current_length + 1 blocks that the     *)
(* heap does not think free, and never longer than TRACELOG_MAX_LENGTH + 1, *)
(* also when a block was reused or a kzalloc was refused.                   *)
ListWellFormed ==
  lpc = "idle" =>
    /\ log_head = IF log = <<>> THEN NULL ELSE log[1]
    /\ log # <<>> => /\ log_tail = log[Len(log)]
                     /\ Len(log) = current_length + 1 /\ Len(log) <= MaxLength + 1
    /\ \A i \in 1..Len(log) :
         /\ next[log[i]] = IF i = Len(log) THEN NULL ELSE log[i + 1]
         /\ prev[log[i]] = IF i = 1 THEN NULL ELSE log[i - 1]
         /\ log[i] \notin avail
         /\ \A j \in 1..(i - 1) : log[j] # log[i]

(* Between two instructions the log holds exactly the last instructions,    *)
(* in order, each with its own opcode (tail_log_set_operand writes to the   *)
(* entry of its own instruction), as long as no kzalloc was refused.        *)
LogIsHistory ==
  lpc = "idle" /\ ~refused =>
    \A i \in 1..Len(log) :
      LET n == Len(trace) - Len(log) + i IN
      n \in 1..Len(trace) /\ seq[log[i]] = n /\ opcode[log[i]] = trace[n]

(* operands[2] is never overrun by tail_log_set_operand, as long as no      *)
(* kzalloc was refused (then the index is not reset by init_log_entry).     *)
OperandsInBounds == ~refused => current_operand <= 2

(* Whenever the interrupt comes, also in the middle of add_tracelog_entry, *)
(* what tracelog_print_entries reads are entries of the log, once there is *)
(* a first entry and until one is evicted.                                  *)
PrintsLogUntilEviction ==
  log_tail # NULL /\ ~evicted => tracelog_print_entries \subseteq Linked

(* The menu's promise: "Once it runs, you can scroll through the tracelog   *)
(* with the W and S keys."  Between two instructions, what is printed is    *)
(* in the log.                                                              *)
ScrollStaysInLog ==
  lpc = "idle" /\ log_tail # NULL => tracelog_print_entries \subseteq Linked
=============================================================================
