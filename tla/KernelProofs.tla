---------------------------- MODULE KernelProofs ----------------------------
(***************************************************************************)
(* The trace log first: every statement of add_tracelog_entry and every    *)
(* key preserves LogInv, for any heap, any TRACELOG_MAX_LENGTH and any     *)
(* page.  Then the main thread and the keyboard interrupt together, for    *)
(* any number of ROMs and any opcodes, however the keys interleave.        *)
(***************************************************************************)
EXTENDS Kernel, NatLemmas

(* The inductive invariant: the list in the middle of add_tracelog_entry.   *)
(* The new entry is first nobody's, then the last of the list; log_tail and *)
(* its link back follow.                                                    *)
New == {"set_head", "link_next"}                     \* entry is not linked yet
Unset == {"select_head", "first_tail", "init_first",
          "link_prev", "set_tail", "init"}           \* linked, not filled
Joined == Unset \cup {"lengthen"}
Steps == New \cup Joined \cup {"idle", "unlink", "clear_prev", "free", "shorten", "alloc", "added"}

LogStateOK == /\ log \in Seq(Addr) /\ trace \in Seq(Nat)
              /\ lpc \in Steps /\ (lpc # "idle" => Len(trace) > 0)
              /\ next \in [Addr -> Pointers] /\ prev \in [Addr -> Pointers]
              /\ seq \in [Addr -> Nat] /\ opcode \in [Addr -> Nat]
              /\ avail \subseteq Addr
              /\ entry \in Pointers /\ cur_selected_entry \in Pointers
              /\ cur_selected_index \in Int /\ current_length \in Nat /\ current_operand \in Nat
              /\ evicted \in BOOLEAN /\ refused \in BOOLEAN

Ends ==
  /\ log_head = IF Len(log) = 0 THEN NULL ELSE log[1]
  /\ log_tail = IF Len(log) = 0 \/ lpc \in {"select_head", "first_tail"} THEN NULL
                ELSE log[IF lpc \in {"link_prev", "set_tail"} THEN Len(log) - 1 ELSE Len(log)]

Lengths ==
  LET n == Len(log) IN
  /\ n <= MaxLength + 1
  /\ lpc \in {"idle", "alloc", "added"} => current_length = IF n = 0 THEN 0 ELSE n - 1
  /\ lpc = "unlink" => n = MaxLength + 1 /\ current_length = n - 1
  /\ lpc \in {"clear_prev", "free", "shorten"} => n = MaxLength /\ current_length = n
  /\ lpc \in {"alloc", "link_next"} => n <= MaxLength
  /\ lpc = "set_head" => n = 0 /\ current_length = 0
  /\ lpc = "link_next" => n >= 1 /\ current_length = n - 1
  /\ lpc \in {"select_head", "first_tail", "init_first"} => n = 1 /\ current_length = 0
  /\ lpc \in {"link_prev", "set_tail", "init", "lengthen"} => n >= 2 /\ current_length = n - 2

Links ==
  /\ \A i \in 1..Len(log) :
       /\ next[log[i]] = IF i = Len(log) THEN NULL ELSE log[i + 1]
       /\ i = 1 /\ lpc # "clear_prev" => prev[log[i]] = NULL
       /\ i > 1 /\ (lpc = "link_prev" => i < Len(log)) => prev[log[i]] = log[i - 1]
       /\ log[i] \notin avail
  /\ \A i, j \in 1..Len(log) : log[i] = log[j] => i = j

EntryInv ==
  /\ lpc \in New => next[entry] = NULL /\ prev[entry] = NULL /\ opcode[entry] = 0
  /\ lpc \in New \cup {"clear_prev", "free"} =>
       entry \in Addr \ avail /\ \A i \in 1..Len(log) : log[i] # entry
  /\ lpc \in Joined => entry = log[Len(log)] /\ opcode[entry] = 0

(* The instructions that are in the log no more. *)
Forgotten == IF lpc \in Joined \cup {"idle", "added"} THEN Len(trace) - Len(log)
             ELSE Len(trace) - 1 - Len(log)

HistoryInv ==
  ~refused =>
    /\ Forgotten >= 0
    /\ \A i \in 1..Len(log) :
         /\ ~(lpc \in Unset /\ i = Len(log)) => seq[log[i]] = Forgotten + i
         /\ ~(lpc \in Joined \cup {"added"} /\ i = Len(log)) => opcode[log[i]] = trace[Forgotten + i]
    /\ lpc = "added" => Len(log) > 0 /\ opcode[log[Len(log)]] = 0
    /\ current_operand <= 2
    /\ lpc \in {"lengthen", "added"} => current_operand = 0

LogInv == LogStateOK /\ Ends /\ Lengths /\ Links /\ EntryInv /\ HistoryInv

(* Until the first eviction the selection runs ahead of its index by the    *)
(* W keys that came between the two statements that set the first entry.    *)
SelectionInv ==
  ~evicted =>
    /\ lpc \notin {"clear_prev", "free", "shorten"}
    /\ Len(log) = 0 => cur_selected_entry = NULL /\ cur_selected_index = 0
    /\ lpc = "select_head" => cur_selected_index \in -MaxDrift..0
    /\ Len(log) > 0 /\ lpc # "select_head" =>
         \E i \in 1..(current_length + 1) :
           /\ cur_selected_entry = log[i]
           /\ i - 1 - cur_selected_index \in 0..MaxDrift

(* That is no more than the lines of a page.  With more, S could move the   *)
(* selection over the end of the list.                                      *)
DriftWithinPage == MaxDrift <= NumPrint

(* The inductive invariant of the main thread and the keys; that of the log *)
(* is LogInv.                                                               *)
Before == {"interrupts_on", "set_roms", "draw"}
Drawing == {"load", "store", "newline", "newline_store"}
Running == {"emu_run", "done"}

(* Nothing is logged before the emulator runs. *)
LogEmpty == pc \notin Running => lpc = "idle" /\ current_length = 0

(* A line of the menu is at most Roms + 1 lines too low: an interrupt has   *)
(* drawn the menu once more than main has come to.                          *)
Rows ==
  /\ terminal_row \in Nat /\ item \in Nat /\ marks \subseteq 0..LastRow
  /\ pc \in Before => terminal_row <= Roms + 1
  /\ pc \in Drawing => item <= Roms /\ terminal_row <= Roms + 1 + item
  /\ pc \in {"store", "newline_store"} => pos.row \in 0..(Roms + 1 + item)
  /\ pc = "wait" => terminal_row <= 2 * Roms + 2
  /\ pc \in Running => terminal_row <= LastRow

Choice ==
  /\ cursor_index \in 0..(Roms - 1) /\ test_roms \in 0..Roms
  /\ pc = "interrupts_on" => test_roms = 0
  /\ pc = "set_roms" => test_roms < Roms
  /\ pc \notin {"interrupts_on", "set_roms"} => test_roms = Roms
  /\ rom_selected => chosen = cursor_index
  /\ booted # -1 => rom_selected /\ booted = cursor_index /\ test_roms = Roms

KernelInv == /\ pc \in Before \cup Drawing \cup Running \cup {"wait"}
             /\ LogEmpty /\ Rows /\ Choice

-----------------------------------------------------------------------------
(* The log's sequence operations, by index. *)
LEMMA AppendLog ==
  ASSUME NEW S, NEW s \in Seq(S), NEW e \in S
  PROVE  /\ Append(s, e) \in Seq(S)
         /\ Len(Append(s, e)) = Len(s) + 1
         /\ \A i \in 1..Len(s) : Append(s, e)[i] = s[i]
         /\ Append(s, e)[Len(s) + 1] = e
  OBVIOUS

LEMMA TailLog ==
  ASSUME NEW S, NEW s \in Seq(S), Len(s) > 0
  PROVE  /\ Tail(s) \in Seq(S)
         /\ Len(Tail(s)) = Len(s) - 1
         /\ \A i \in 1..(Len(s) - 1) : Tail(s)[i] = s[i + 1]
  OBVIOUS

(* The blocks of the log. *)
LEMMA LogBlocks ==
  ASSUME LogInv
  PROVE  Len(log) \in Nat /\ \A i \in 1..Len(log) : log[i] \in Addr /\ log[i] # NULL
  BY TracelogAssumption DEF LogInv, LogStateOK, NULL

LEMMA JoinedEntry ==
  ASSUME LogInv, lpc \in Joined
  PROVE  Len(log) >= 1 /\ entry = log[Len(log)] /\ entry \in Addr /\ opcode[entry] = 0
<1>1. Len(log) >= 1
  BY DEF LogInv, Lengths, Joined, Unset
<1> QED BY <1>1, LogBlocks DEF LogInv, EntryInv

(* The log is empty at boot. *)
LEMMA InitLogInv == LogInit => LogInv /\ SelectionInv
<1> SUFFICES ASSUME LogInit PROVE LogInv /\ SelectionInv
  OBVIOUS
<1> USE TracelogAssumption DEF LogInit
<1>1. /\ NULL \in Pointers /\ log \in Seq(Addr) /\ trace \in Seq(Nat)
      /\ Len(log) = 0 /\ Len(trace) = 0
  BY DEF Pointers
<1>2. /\ next \in [Addr -> Pointers] /\ prev \in [Addr -> Pointers]
      /\ seq \in [Addr -> Nat] /\ opcode \in [Addr -> Nat]
  BY <1>1
<1>3. LogStateOK
  <2>1. lpc \in Steps /\ avail \subseteq Addr
    BY DEF Steps
  <2>2. evicted \in BOOLEAN /\ refused \in BOOLEAN
    OBVIOUS
  <2>3. /\ entry \in Pointers /\ cur_selected_entry \in Pointers
        /\ cur_selected_index \in Int /\ current_length \in Nat /\ current_operand \in Nat
    BY <1>1
  <2> QED BY <1>1, <1>2, <2>1, <2>2, <2>3 DEF LogStateOK
<1>4. Ends /\ Lengths /\ Links /\ EntryInv
  BY <1>1 DEF Ends, Lengths, Links, EntryInv, New, Unset, Joined
<1>5. HistoryInv /\ SelectionInv
  BY <1>1 DEF HistoryInv, Forgotten, SelectionInv, Unset, Joined
<1> QED BY <1>3, <1>4, <1>5 DEF LogInv

LEMMA AddBeginInv ==
  ASSUME LogInv, NEW op \in Nat, add_begin(op)
  PROVE  LogInv' /\ (SelectionInv => SelectionInv')
<1> USE TracelogAssumption
<1>1. /\ lpc = "idle" /\ lpc' = IF current_length + 1 > MaxLength THEN "unlink" ELSE "alloc"
      /\ trace' = Append(trace, op)
      /\ UNCHANGED <<log, log_head, log_tail, current_length, next, prev, avail,
                     cur_selected_entry, cur_selected_index, seq, opcode, current_operand,
                     entry, evicted, refused>>
  BY DEF add_begin, listVars, selVars
<1>2. /\ trace' \in Seq(Nat) /\ Len(trace') = Len(trace) + 1
      /\ \A i \in 1..Len(trace) : trace'[i] = trace[i]
  BY <1>1, AppendLog DEF LogInv, LogStateOK
<1>3. LogStateOK'
  BY <1>1, <1>2 DEF LogInv, LogStateOK, Steps, New, Joined, Unset
<1>4. Ends'
  BY <1>1 DEF LogInv, Ends
<1>5. Lengths'
  BY <1>1 DEF LogInv, LogStateOK, Lengths
<1>6. Links'
  BY <1>1 DEF LogInv, Links
<1>7. EntryInv'
  BY <1>1 DEF LogInv, EntryInv, New, Joined, Unset
<1>8. HistoryInv'
  BY <1>1, <1>2 DEF LogInv, LogStateOK, HistoryInv, Forgotten, New, Joined, Unset
<1>9. SelectionInv => SelectionInv'
  BY <1>1 DEF LogInv, SelectionInv
<1> QED BY <1>3, <1>4, <1>5, <1>6, <1>7, <1>8, <1>9 DEF LogInv
(* The oldest entry leaves the log; its successor still points back to it. *)
LEMMA UnlinkInv ==
  ASSUME LogInv, unlink
  PROVE  LogInv' /\ (SelectionInv => SelectionInv')
<1> USE TracelogAssumption
<1>1. /\ lpc = "unlink" /\ lpc' = "clear_prev"
      /\ entry' = log_head /\ log_head' = Deref(next, log_head)
      /\ log' = Tail(log) /\ evicted' = TRUE
      /\ UNCHANGED <<log_tail, current_length, next, prev, avail,
                     cur_selected_entry, cur_selected_index, seq, opcode,
                     current_operand, trace, refused>>
  BY DEF unlink, listVars, selVars, dataVars
<1>2. Len(log) = MaxLength + 1 /\ Len(log) >= 2
  BY <1>1 DEF LogInv, LogStateOK, Lengths
<1>3. /\ log' \in Seq(Addr) /\ Len(log') = Len(log) - 1
      /\ \A i \in 1..(Len(log) - 1) : log'[i] = log[i + 1]
  BY <1>1, <1>2, TailLog DEF LogInv, LogStateOK
<1>4. log_head = log[1] /\ log[1] \in Addr /\ log_head' = log[2]
  BY <1>1, <1>2 DEF LogInv, LogStateOK, Ends, Links, Deref
<1>5. LogStateOK'
  BY <1>1, <1>2, <1>3, <1>4 DEF LogInv, LogStateOK, Steps, New, Joined, Unset, Pointers
<1>6. Ends'
  BY SMTT(30), <1>1, <1>2, <1>3, <1>4 DEF LogInv, LogStateOK, Ends, Lengths
<1>7. Lengths'
  BY <1>1, <1>2, <1>3, <1>4 DEF LogInv, LogStateOK, Lengths
<1>8. Links'
  BY SMTT(30), <1>1, <1>2, <1>3, <1>4 DEF LogInv, LogStateOK, Links, Lengths
<1>9. EntryInv'
  BY <1>1, <1>2, <1>3, <1>4 DEF LogInv, LogStateOK, EntryInv, Lengths, New, Joined, Unset, Links
<1>10. HistoryInv'
  <2> SUFFICES ASSUME ~refused PROVE HistoryInv'
    BY <1>1 DEF HistoryInv
  <2>1. Forgotten' = Forgotten + 1 /\ Forgotten \in Nat
    <3>1. Len(log) \in Nat /\ Len(trace) \in Nat /\ Forgotten >= 0
      BY DEF LogInv, LogStateOK, HistoryInv
    <3> QED BY <1>1, <1>3, <3>1 DEF Forgotten, Joined, Unset
  <2>2. ASSUME NEW i \in 1..Len(log')
        PROVE  seq[log'[i]] = Forgotten' + i /\ opcode[log'[i]] = trace[Forgotten' + i]
    <3>1. i + 1 \in 1..Len(log) /\ log'[i] = log[i + 1]
      BY <1>2, <1>3
    <3>2. /\ seq[log[i + 1]] = Forgotten + (i + 1)
          /\ opcode[log[i + 1]] = trace[Forgotten + (i + 1)]
      BY <1>1, <3>1 DEF LogInv, HistoryInv, Joined, Unset
    <3> QED BY <2>1, <3>1, <3>2
  <2> QED BY <1>1, <2>1, <2>2 DEF LogInv, HistoryInv, Joined, Unset
<1>11. SelectionInv => SelectionInv'
  BY <1>1, <1>2, <1>3, <1>4 DEF LogInv, LogStateOK, SelectionInv, Lengths
<1> QED BY <1>5, <1>6, <1>7, <1>8, <1>9, <1>10, <1>11 DEF LogInv

(* The new head has no predecessor. *)
LEMMA ClearPrevInv ==
  ASSUME LogInv, clear_prev
  PROVE  LogInv' /\ (SelectionInv => SelectionInv')
<1> USE TracelogAssumption
<1>1. /\ lpc = "clear_prev" /\ lpc' = "free"
      /\ prev' = Assign(prev, log_head, NULL)
      /\ UNCHANGED <<log, log_head, log_tail, current_length, next, avail,
                     cur_selected_entry, cur_selected_index, seq, opcode,
                     current_operand, trace, entry, evicted, refused>>
  BY DEF clear_prev, listVars, selVars, dataVars
<1>2. Len(log) >= 1
  BY <1>1 DEF LogInv, LogStateOK, Lengths
<1>3. log_head = log[1] /\ log[1] \in Addr /\ prev' = [prev EXCEPT ![log[1]] = NULL]
  <2>1. log[1] \in Addr
    BY <1>2, LogBlocks
  <2>2. log_head = log[1]
    BY <1>2 DEF LogInv, Ends
  <2> QED BY <1>1, <2>1, <2>2 DEF Assign
<1>4. LogStateOK'
  BY <1>1, <1>2, <1>3 DEF LogInv, LogStateOK, Steps, New, Joined, Unset, Pointers
<1>5. Ends'
  BY <1>1, <1>2, <1>3 DEF LogInv, LogStateOK, Ends, Lengths
<1>6. Lengths'
  BY <1>1, <1>2, <1>3 DEF LogInv, LogStateOK, Lengths
<1>7. Links'
  <2>1. \A i \in 1..Len(log) : i # 1 => log[i] # log[1]
    BY <1>2, LogBlocks DEF LogInv, Links
  <2>2. prev'[log[1]] = NULL /\ \A i \in 1..Len(log) : i # 1 => prev'[log[i]] = prev[log[i]]
    BY <1>2, <1>3, <2>1, LogBlocks DEF LogInv, LogStateOK
  <2>3. UNCHANGED <<log, next, avail>>
    BY <1>1
  <2>4. \A i \in 1..Len(log) :
          /\ next[log[i]] = IF i = Len(log) THEN NULL ELSE log[i + 1]
          /\ i > 1 => prev[log[i]] = log[i - 1]
          /\ log[i] \notin avail
    BY <1>1 DEF LogInv, Links
  <2>5. \A i, j \in 1..Len(log) : log[i] = log[j] => i = j
    BY DEF LogInv, Links
  <2> QED BY <1>2, <2>2, <2>3, <2>4, <2>5, LogBlocks DEF Links
<1>8. EntryInv'
  BY <1>1, <1>2, <1>3 DEF LogInv, LogStateOK, EntryInv, Lengths, New, Joined, Unset
<1>9. HistoryInv'
  BY <1>1, <1>2, <1>3 DEF LogInv, LogStateOK, HistoryInv, Forgotten, Lengths, New, Joined, Unset
<1>10. SelectionInv => SelectionInv'
  BY <1>1, <1>2, <1>3 DEF LogInv, LogStateOK, SelectionInv, Lengths
<1> QED BY <1>4, <1>5, <1>6, <1>7, <1>8, <1>9, <1>10 DEF LogInv

(* The evicted block, which the log holds no more, is free. *)
LEMMA FreeOldInv ==
  ASSUME LogInv, free_old
  PROVE  LogInv' /\ (SelectionInv => SelectionInv')
<1> USE TracelogAssumption
<1>1. /\ lpc = "free" /\ lpc' = "shorten"
      /\ avail' = avail \cup {entry}
      /\ UNCHANGED <<log, log_head, log_tail, current_length, next, prev,
                     cur_selected_entry, cur_selected_index, seq, opcode,
                     current_operand, trace, entry, evicted, refused>>
  BY DEF free_old, listVars, selVars, dataVars
<1>2. entry \in Addr /\ \A i \in 1..Len(log) : log[i] # entry
  BY <1>1 DEF LogInv, EntryInv
<1>3. LogStateOK'
  BY <1>1, <1>2 DEF LogInv, LogStateOK, Steps, New, Joined, Unset
<1>4. Ends'
  BY <1>1, <1>2 DEF LogInv, LogStateOK, Ends, Lengths
<1>5. Lengths'
  BY <1>1, <1>2 DEF LogInv, LogStateOK, Lengths
<1>6. Links'
  BY <1>1, <1>2 DEF LogInv, LogStateOK, Links, Lengths
<1>7. EntryInv'
  BY <1>1, <1>2 DEF LogInv, LogStateOK, EntryInv, Lengths, New, Joined, Unset
<1>8. HistoryInv'
  BY <1>1, <1>2 DEF LogInv, LogStateOK, HistoryInv, Forgotten, Lengths, New, Joined, Unset
<1>9. SelectionInv => SelectionInv'
  BY <1>1, <1>2 DEF LogInv, LogStateOK, SelectionInv, Lengths
<1> QED BY <1>3, <1>4, <1>5, <1>6, <1>7, <1>8, <1>9 DEF LogInv

(* The length is that of the list again. *)
LEMMA ShortenInv ==
  ASSUME LogInv, shorten
  PROVE  LogInv' /\ (SelectionInv => SelectionInv')
<1> USE TracelogAssumption
<1>1. /\ lpc = "shorten" /\ lpc' = "alloc"
      /\ current_length' = current_length - 1
      /\ UNCHANGED <<log, log_head, log_tail, next, prev, avail,
                     cur_selected_entry, cur_selected_index, seq, opcode,
                     current_operand, trace, entry, evicted, refused>>
  BY DEF shorten, listVars, selVars, dataVars
<1>2. current_length' \in Nat
  BY <1>1 DEF LogInv, LogStateOK, Lengths
<1>3. LogStateOK'
  BY <1>1, <1>2 DEF LogInv, LogStateOK, Steps, New, Joined, Unset
<1>4. Ends'
  BY <1>1, <1>2 DEF LogInv, LogStateOK, Ends, Lengths
<1>5. Lengths'
  BY <1>1, <1>2 DEF LogInv, LogStateOK, Lengths
<1>6. Links'
  BY <1>1, <1>2 DEF LogInv, LogStateOK, Links, Lengths
<1>7. EntryInv'
  BY <1>1, <1>2 DEF LogInv, LogStateOK, EntryInv, Lengths, New, Joined, Unset
<1>8. HistoryInv'
  BY <1>1, <1>2 DEF LogInv, LogStateOK, HistoryInv, Forgotten, Lengths, New, Joined, Unset
<1>9. SelectionInv => SelectionInv'
  BY <1>1, <1>2 DEF LogInv, LogStateOK, SelectionInv, Lengths
<1> QED BY <1>3, <1>4, <1>5, <1>6, <1>7, <1>8, <1>9 DEF LogInv

(* kzalloc's block is in no list, and zeroed. *)
LEMMA AllocInv ==
  ASSUME LogInv, alloc
  PROVE  LogInv' /\ (SelectionInv => SelectionInv')
<1> USE TracelogAssumption
<1>1. /\ lpc = "alloc" /\ avail # {}
      /\ entry' = Min(avail) /\ avail' = avail \ {entry'}
      /\ next' = [next EXCEPT ![entry'] = NULL] /\ prev' = [prev EXCEPT ![entry'] = NULL]
      /\ seq' = [seq EXCEPT ![entry'] = 0] /\ opcode' = [opcode EXCEPT ![entry'] = 0]
      /\ lpc' = IF log_head = NULL THEN "set_head" ELSE "link_next"
      /\ UNCHANGED <<log, log_head, log_tail, current_length,
                     cur_selected_entry, cur_selected_index, current_operand,
                     trace, evicted, refused>>
  BY DEF alloc, listVars, selVars, dataVars
<1>2. entry' \in avail /\ entry' \in Addr
  BY <1>1, MinIsLeast DEF LogInv, LogStateOK
<1>3. \A i \in 1..Len(log) : log[i] # entry' /\ log[i] \in Addr
  BY <1>2 DEF LogInv, LogStateOK, Links
<1>4. log_head = NULL <=> Len(log) = 0
  BY DEF LogInv, LogStateOK, Ends, NULL
<1>5. LogStateOK'
  BY <1>1, <1>2, <1>3, <1>4 DEF LogInv, LogStateOK, Steps, New, Joined, Unset, Pointers
<1>6. Ends'
  BY <1>1, <1>2, <1>3, <1>4 DEF LogInv, LogStateOK, Ends, Lengths
<1>7. Lengths'
  BY <1>1, <1>2, <1>3, <1>4 DEF LogInv, LogStateOK, Lengths
<1>8. Links'
  BY <1>1, <1>2, <1>3, <1>4 DEF LogInv, LogStateOK, Links, Lengths
<1>9. EntryInv'
  BY <1>1, <1>2, <1>3, <1>4 DEF LogInv, LogStateOK, EntryInv, Lengths, New, Joined, Unset
<1>10. HistoryInv'
  BY <1>1, <1>2, <1>3, <1>4 DEF LogInv, LogStateOK, HistoryInv, Forgotten, Lengths, New, Joined, Unset
<1>11. SelectionInv => SelectionInv'
  BY <1>1, <1>2, <1>3, <1>4 DEF LogInv, LogStateOK, SelectionInv, Lengths
<1> QED BY <1>5, <1>6, <1>7, <1>8, <1>9, <1>10, <1>11 DEF LogInv

(* A refused kzalloc leaves the log as it is. *)
LEMMA NoMemoryInv ==
  ASSUME LogInv, no_memory
  PROVE  LogInv' /\ (SelectionInv => SelectionInv')
<1> USE TracelogAssumption
<1>1. /\ lpc = "alloc" /\ lpc' = "added" /\ entry' = NULL /\ refused' = TRUE
      /\ UNCHANGED <<log, log_head, log_tail, current_length, next, prev, avail,
                     cur_selected_entry, cur_selected_index, seq, opcode,
                     current_operand, trace, evicted>>
  BY DEF no_memory, listVars, selVars, dataVars
<1>2. LogStateOK'
  BY <1>1 DEF LogInv, LogStateOK, Steps, New, Joined, Unset, Pointers
<1>3. Ends'
  BY <1>1 DEF LogInv, LogStateOK, Ends, Lengths
<1>4. Lengths'
  BY <1>1 DEF LogInv, LogStateOK, Lengths
<1>5. Links'
  BY <1>1 DEF LogInv, LogStateOK, Links, Lengths
<1>6. EntryInv'
  BY <1>1 DEF LogInv, LogStateOK, EntryInv, Lengths, New, Joined, Unset
<1>7. HistoryInv'
  BY <1>1 DEF LogInv, LogStateOK, HistoryInv, Forgotten, Lengths, New, Joined, Unset
<1>8. SelectionInv => SelectionInv'
  BY <1>1 DEF LogInv, LogStateOK, SelectionInv, Lengths
<1> QED BY <1>2, <1>3, <1>4, <1>5, <1>6, <1>7, <1>8 DEF LogInv

(* The first entry is the list, for the keys not yet. *)
LEMMA SetHeadInv ==
  ASSUME LogInv, set_head
  PROVE  LogInv' /\ (SelectionInv => SelectionInv')
<1> USE TracelogAssumption
<1>1. /\ lpc = "set_head" /\ lpc' = "select_head"
      /\ log_head' = entry /\ log' = <<entry>>
      /\ UNCHANGED <<log_tail, current_length, next, prev, avail,
                     cur_selected_entry, cur_selected_index, seq, opcode,
                     current_operand, trace, entry, evicted, refused>>
  BY DEF set_head, listVars, selVars, dataVars
<1>2. entry \in Addr /\ Len(log) = 0
  BY <1>1 DEF LogInv, LogStateOK, EntryInv, Lengths, New
<1>3. log' \in Seq(Addr) /\ Len(log') = 1 /\ log'[1] = entry
  BY <1>1, <1>2
<1>4. LogStateOK'
  BY <1>1, <1>2, <1>3 DEF LogInv, LogStateOK, Steps, New, Joined, Unset
<1>5. Ends'
  BY <1>1, <1>2, <1>3 DEF LogInv, LogStateOK, Ends, Lengths
<1>6. Lengths'
  BY <1>1, <1>2, <1>3 DEF LogInv, LogStateOK, Lengths
<1>7. Links'
  BY <1>1, <1>2, <1>3 DEF LogInv, LogStateOK, Links, Lengths, EntryInv, New
<1>8. EntryInv'
  BY <1>1, <1>2, <1>3 DEF LogInv, LogStateOK, EntryInv, Lengths, New, Joined, Unset
<1>9. HistoryInv'
  BY <1>1, <1>2, <1>3 DEF LogInv, LogStateOK, HistoryInv, Forgotten, Lengths, New, Joined, Unset
<1>10. SelectionInv => SelectionInv'
  BY <1>1, <1>2, <1>3 DEF LogInv, LogStateOK, SelectionInv, Lengths
<1> QED BY <1>4, <1>5, <1>6, <1>7, <1>8, <1>9, <1>10 DEF LogInv

(* The selection is the first entry, whatever W keys came before. *)
LEMMA SelectHeadInv ==
  ASSUME LogInv, select_head
  PROVE  LogInv' /\ (SelectionInv => SelectionInv')
<1> USE TracelogAssumption
<1>1. /\ lpc = "select_head" /\ lpc' = "first_tail"
      /\ cur_selected_entry' = log_head
      /\ UNCHANGED <<log, log_head, log_tail, current_length, next, prev, avail,
                     cur_selected_index, seq, opcode, current_operand, trace,
                     entry, evicted, refused>>
  BY DEF select_head, listVars, selVars, dataVars
<1>2. Len(log) = 1 /\ log_head = log[1] /\ log[1] \in Addr
  BY <1>1, LogBlocks DEF LogInv, Lengths, Ends
<1>3. LogStateOK'
  BY <1>1, <1>2 DEF LogInv, LogStateOK, Steps, New, Joined, Unset, Pointers
<1>4. Ends'
  BY <1>1, <1>2 DEF LogInv, LogStateOK, Ends, Lengths
<1>5. Lengths'
  BY <1>1, <1>2 DEF LogInv, LogStateOK, Lengths
<1>6. Links'
  BY <1>1, <1>2 DEF LogInv, LogStateOK, Links, Lengths
<1>7. EntryInv'
  BY <1>1, <1>2 DEF LogInv, LogStateOK, EntryInv, Lengths, New, Joined, Unset
<1>8. HistoryInv'
  BY <1>1, <1>2 DEF LogInv, LogStateOK, HistoryInv, Forgotten, Lengths, New, Joined, Unset
<1>9. SelectionInv => SelectionInv'
  BY <1>1, <1>2 DEF LogInv, LogStateOK, SelectionInv, Lengths
<1> QED BY <1>3, <1>4, <1>5, <1>6, <1>7, <1>8, <1>9 DEF LogInv

(* The new entry is the last of the list; the tail is the last but one. *)
LEMMA LinkNextInv ==
  ASSUME LogInv, link_next
  PROVE  LogInv' /\ (SelectionInv => SelectionInv')
<1> USE TracelogAssumption
<1>1. /\ lpc = "link_next" /\ lpc' = "link_prev"
      /\ next' = Assign(next, log_tail, entry) /\ log' = Append(log, entry)
      /\ UNCHANGED <<log_head, log_tail, current_length, prev, avail,
                     cur_selected_entry, cur_selected_index, seq, opcode,
                     current_operand, trace, entry, evicted, refused>>
  BY DEF link_next, listVars, selVars, dataVars
<1>2. entry \in Addr /\ Len(log) >= 1
  BY <1>1 DEF LogInv, LogStateOK, EntryInv, Lengths, New
<1>3. /\ log' \in Seq(Addr) /\ Len(log') = Len(log) + 1
      /\ \A i \in 1..Len(log) : log'[i] = log[i]
      /\ log'[Len(log) + 1] = entry
  BY <1>1, <1>2, AppendLog DEF LogInv, LogStateOK
<1>4. /\ log_tail = log[Len(log)] /\ log_tail \in Addr
      /\ next' = [next EXCEPT ![log_tail] = entry]
  BY <1>1, <1>2 DEF LogInv, LogStateOK, Ends, Assign
<1>5. LogStateOK'
  BY <1>1, <1>2, <1>3, <1>4 DEF LogInv, LogStateOK, Steps, New, Joined, Unset, Pointers
<1>6. Ends'
  BY SMTT(30), <1>1, <1>2, <1>3, <1>4 DEF LogInv, LogStateOK, Ends, Lengths
<1>7. Lengths'
  BY <1>1, <1>2, <1>3, <1>4 DEF LogInv, LogStateOK, Lengths
<1>8. Links'
  <2>1. /\ next[entry] = NULL /\ prev[entry] = NULL /\ entry \notin avail
        /\ \A i \in 1..Len(log) : log[i] # entry
    BY <1>1 DEF LogInv, EntryInv, New
  <2>2. \A i \in 1..(Len(log) - 1) : log[i] # log_tail
    BY <1>2, <1>4, LogBlocks DEF LogInv, Links
  <2>3. \A i \in 1..Len(log) :
          /\ next[log[i]] = IF i = Len(log) THEN NULL ELSE log[i + 1]
          /\ i = 1 => prev[log[i]] = NULL
          /\ i > 1 => prev[log[i]] = log[i - 1]
          /\ log[i] \notin avail
    BY <1>1 DEF LogInv, Links
  <2>4. ASSUME NEW i \in 1..Len(log')
        PROVE  /\ next'[log'[i]] = IF i = Len(log') THEN NULL ELSE log'[i + 1]
               /\ i = 1 => prev[log'[i]] = NULL
               /\ i > 1 /\ i < Len(log') => prev[log'[i]] = log'[i - 1]
               /\ log'[i] \notin avail
    <3>1. CASE i = Len(log')
      BY SMTT(30), <1>2, <1>3, <1>4, <2>1, <3>1, LogBlocks DEF LogInv, LogStateOK
    <3>2. CASE i = Len(log)
      <4>1. log'[i] = log_tail /\ next'[log_tail] = entry /\ log'[i + 1] = entry
        BY <1>2, <1>3, <1>4, <3>2, LogBlocks DEF LogInv, LogStateOK
      <4>2. i > 1 => log'[i - 1] = log[i - 1]
        BY <1>2, <1>3, <3>2, LogBlocks
      <4>3. i \in 1..Len(log) /\ i # Len(log') /\ log[i] = log_tail
        BY <1>2, <1>3, <1>4, <3>2, LogBlocks
      <4> QED BY <1>1, <4>1, <4>2, <4>3, <2>3
    <3>3. CASE i \in 1..(Len(log) - 1)
      <4>1. /\ log'[i] = log[i] /\ log'[i + 1] = log[i + 1]
            /\ i \in 1..Len(log) /\ i # Len(log) /\ i # Len(log')
        BY <1>3, <3>3, LogBlocks
      <4>2. i > 1 => log'[i - 1] = log[i - 1]
        BY <1>3, <3>3, LogBlocks
      <4>3. next'[log[i]] = next[log[i]]
        BY <1>4, <2>2, <3>3, LogBlocks DEF LogInv, LogStateOK
      <4> QED BY <4>1, <4>2, <4>3, <2>3
    <3> QED BY <1>2, <1>3, <3>1, <3>2, <3>3, LogBlocks
  <2>5. ASSUME NEW i \in 1..Len(log'), NEW j \in 1..Len(log'), log'[i] = log'[j]
        PROVE  i = j
    BY SMTT(30), <1>2, <1>3, <2>1, <2>5, LogBlocks DEF LogInv, Links
  <2> QED BY <1>1, <2>4, <2>5 DEF Links
<1>9. EntryInv'
  BY <1>1, <1>2, <1>3, <1>4 DEF LogInv, LogStateOK, EntryInv, Lengths, New, Joined, Unset
<1>10. HistoryInv'
  <2> SUFFICES ASSUME ~refused PROVE HistoryInv'
    BY <1>1 DEF HistoryInv
  <2>1. Forgotten' = Forgotten /\ Forgotten \in Nat
    BY <1>1, <1>2, <1>3, LogBlocks DEF LogInv, LogStateOK, HistoryInv, Forgotten, Joined, Unset
  <2>2. ASSUME NEW i \in 1..Len(log'), i # Len(log')
        PROVE  seq[log'[i]] = Forgotten + i /\ opcode[log'[i]] = trace[Forgotten + i]
    <3>1. i \in 1..Len(log) /\ log'[i] = log[i]
      BY <1>2, <1>3, <2>2, LogBlocks
    <3> QED BY <1>1, <3>1 DEF LogInv, HistoryInv, Joined, Unset
  <2> QED BY <1>1, <2>1, <2>2 DEF LogInv, HistoryInv, Joined, Unset
<1>11. SelectionInv => SelectionInv'
  BY SMTT(30), <1>1, <1>2, <1>3, <1>4 DEF LogInv, LogStateOK, SelectionInv, Lengths
<1> QED BY <1>5, <1>6, <1>7, <1>8, <1>9, <1>10, <1>11 DEF LogInv

(* The new entry points back. *)
LEMMA LinkPrevInv ==
  ASSUME LogInv, link_prev
  PROVE  LogInv' /\ (SelectionInv => SelectionInv')
<1> USE TracelogAssumption
<1>1. /\ lpc = "link_prev" /\ lpc' = "set_tail"
      /\ prev' = [prev EXCEPT ![entry] = log_tail]
      /\ UNCHANGED <<log, log_head, log_tail, current_length, next, avail,
                     cur_selected_entry, cur_selected_index, seq, opcode,
                     current_operand, trace, entry, evicted, refused>>
  BY DEF link_prev, listVars, selVars, dataVars
<1>2. entry = log[Len(log)] /\ Len(log) >= 2
  BY <1>1 DEF LogInv, LogStateOK, EntryInv, Lengths, Joined, Unset
<1>3. log_tail = log[Len(log) - 1] /\ log_tail \in Addr /\ entry \in Addr
  BY <1>1, <1>2 DEF LogInv, LogStateOK, Ends
<1>4. LogStateOK'
  BY <1>1, <1>2, <1>3 DEF LogInv, LogStateOK, Steps, New, Joined, Unset, Pointers
<1>5. Ends'
  BY <1>1, <1>2, <1>3 DEF LogInv, LogStateOK, Ends, Lengths
<1>6. Lengths'
  BY <1>1, <1>2, <1>3 DEF LogInv, LogStateOK, Lengths
<1>7. Links'
  <2>1. \A i \in 1..Len(log) : i # Len(log) => log[i] # entry
    BY <1>2, LogBlocks DEF LogInv, Links
  <2>2. /\ prev'[entry] = log_tail
        /\ \A i \in 1..Len(log) : i # Len(log) => prev'[log[i]] = prev[log[i]]
    BY <1>1, <1>3, <2>1, LogBlocks DEF LogInv, LogStateOK
  <2>3. UNCHANGED <<log, next, avail>>
    BY <1>1
  <2>4. \A i \in 1..Len(log) :
          /\ next[log[i]] = IF i = Len(log) THEN NULL ELSE log[i + 1]
          /\ i = 1 => prev[log[i]] = NULL
          /\ i > 1 /\ i # Len(log) => prev[log[i]] = log[i - 1]
          /\ log[i] \notin avail
    BY <1>1, LogBlocks DEF LogInv, Links
  <2>5. \A i, j \in 1..Len(log) : log[i] = log[j] => i = j
    BY DEF LogInv, Links
  <2> QED BY <1>1, <1>2, <1>3, <2>2, <2>3, <2>4, <2>5, LogBlocks DEF Links
<1>8. EntryInv'
  BY <1>1, <1>2, <1>3 DEF LogInv, LogStateOK, EntryInv, Lengths, New, Joined, Unset
<1>9. HistoryInv'
  BY <1>1, <1>2, <1>3 DEF LogInv, LogStateOK, HistoryInv, Forgotten, Lengths, New, Joined, Unset
<1>10. SelectionInv => SelectionInv'
  BY <1>1, <1>2, <1>3 DEF LogInv, LogStateOK, SelectionInv, Lengths
<1> QED BY <1>4, <1>5, <1>6, <1>7, <1>8, <1>9, <1>10 DEF LogInv

(* The tail is the new entry. *)
LEMMA SetTailInv ==
  ASSUME LogInv, set_tail
  PROVE  LogInv' /\ (SelectionInv => SelectionInv')
<1> USE TracelogAssumption
<1>1. /\ lpc \in {"first_tail", "set_tail"}
      /\ lpc' = IF lpc = "first_tail" THEN "init_first" ELSE "init"
      /\ log_tail' = entry
      /\ UNCHANGED <<log, log_head, current_length, next, prev, avail,
                     cur_selected_entry, cur_selected_index, seq, opcode,
                     current_operand, trace, entry, evicted, refused>>
  BY DEF set_tail, listVars, selVars, dataVars
<1>2. entry = log[Len(log)] /\ Len(log) >= 1
  BY <1>1, JoinedEntry DEF Joined, Unset
<1>3. LogStateOK'
  BY <1>1, <1>2 DEF LogInv, LogStateOK, Steps, New, Joined, Unset
<1>4. Ends'
  BY <1>1, <1>2 DEF LogInv, LogStateOK, Ends, Lengths
<1>5. Lengths'
  BY <1>1, <1>2 DEF LogInv, LogStateOK, Lengths
<1>6. Links'
  BY <1>1, <1>2 DEF LogInv, LogStateOK, Links, Lengths
<1>7. EntryInv'
  BY <1>1, <1>2 DEF LogInv, LogStateOK, EntryInv, Lengths, New, Joined, Unset
<1>8. HistoryInv'
  BY <1>1, <1>2 DEF LogInv, LogStateOK, HistoryInv, Forgotten, Lengths, New, Joined, Unset
<1>9. SelectionInv => SelectionInv'
  BY <1>1, <1>2 DEF LogInv, LogStateOK, SelectionInv, Lengths
<1> QED BY <1>3, <1>4, <1>5, <1>6, <1>7, <1>8, <1>9 DEF LogInv

(* The entry holds its own instruction, and its operands are counted from 0. *)
LEMMA InitLogEntryInv ==
  ASSUME LogInv, init_log_entry
  PROVE  LogInv' /\ (SelectionInv => SelectionInv')
<1> USE TracelogAssumption
<1>1. /\ lpc \in {"init_first", "init"}
      /\ lpc' = IF lpc = "init_first" THEN "added" ELSE "lengthen"
      /\ seq' = [seq EXCEPT ![entry] = Len(trace)] /\ current_operand' = 0
      /\ UNCHANGED <<log, log_head, log_tail, current_length, next, prev, avail,
                     cur_selected_entry, cur_selected_index, opcode, trace,
                     entry, evicted, refused>>
  BY DEF init_log_entry, listVars, selVars, dataVars
<1>2. entry = log[Len(log)] /\ Len(log) >= 1 /\ entry \in Addr
  BY <1>1, JoinedEntry DEF Joined, Unset
<1>3. LogStateOK'
  <2>1. Len(trace) \in Nat /\ seq' \in [Addr -> Nat]
    BY <1>1, <1>2 DEF LogInv, LogStateOK
  <2> QED BY <1>1, <2>1 DEF LogInv, LogStateOK, Steps, New, Joined, Unset
<1>4. Ends'
  BY <1>1, <1>2 DEF LogInv, LogStateOK, Ends, Lengths
<1>5. Lengths'
  BY <1>1, <1>2 DEF LogInv, LogStateOK, Lengths
<1>6. Links'
  BY <1>1, <1>2 DEF LogInv, LogStateOK, Links, Lengths
<1>7. EntryInv'
  BY <1>1, <1>2 DEF LogInv, LogStateOK, EntryInv, Lengths, New, Joined, Unset
<1>8. HistoryInv'
  <2> SUFFICES ASSUME ~refused PROVE HistoryInv'
    BY <1>1 DEF HistoryInv
  <2>1. /\ Forgotten' = Forgotten /\ Forgotten >= 0 /\ Forgotten + Len(log) = Len(trace)
        /\ opcode[entry] = 0
    BY SMTT(30), <1>1, JoinedEntry, LogBlocks DEF LogInv, LogStateOK, HistoryInv, Forgotten, Joined, Unset
  <2>2. ASSUME NEW i \in 1..Len(log)
        PROVE  seq'[log[i]] = Forgotten + i
    <3>1. CASE i = Len(log)
      BY <1>1, <1>2, <2>1, <3>1 DEF LogInv, LogStateOK
    <3>2. CASE i # Len(log)
      <4>1. log[i] # entry /\ log[i] \in Addr
        BY <1>2, <3>2, LogBlocks DEF LogInv, Links
      <4> QED BY <1>1, <3>2, <4>1 DEF LogInv, LogStateOK, HistoryInv
    <3> QED BY <3>1, <3>2
  <2>3. ASSUME NEW i \in 1..Len(log), i # Len(log)
        PROVE  opcode[log[i]] = trace[Forgotten + i]
    BY <2>3 DEF LogInv, HistoryInv
  <2> QED BY <1>1, <1>2, <2>1, <2>2, <2>3 DEF HistoryInv, Joined, Unset
<1>9. SelectionInv => SelectionInv'
  BY <1>1, <1>2 DEF LogInv, LogStateOK, SelectionInv, Lengths
<1> QED BY <1>3, <1>4, <1>5, <1>6, <1>7, <1>8, <1>9 DEF LogInv

(* The length counts the new entry. *)
LEMMA LengthenInv ==
  ASSUME LogInv, lengthen
  PROVE  LogInv' /\ (SelectionInv => SelectionInv')
<1> USE TracelogAssumption
<1>1. /\ lpc = "lengthen" /\ lpc' = "added"
      /\ current_length' = current_length + 1
      /\ UNCHANGED <<log, log_head, log_tail, next, prev, avail,
                     cur_selected_entry, cur_selected_index, seq, opcode,
                     current_operand, trace, entry, evicted, refused>>
  BY DEF lengthen, listVars, selVars, dataVars
<1>2. LogStateOK'
  BY <1>1 DEF LogInv, LogStateOK, Steps, New, Joined, Unset
<1>3. Ends'
  BY <1>1 DEF LogInv, LogStateOK, Ends, Lengths
<1>4. Lengths'
  BY <1>1 DEF LogInv, LogStateOK, Lengths
<1>5. Links'
  BY <1>1 DEF LogInv, LogStateOK, Links, Lengths
<1>6. EntryInv'
  BY <1>1 DEF LogInv, LogStateOK, EntryInv, Lengths, New, Joined, Unset
<1>7. HistoryInv'
  BY <1>1 DEF LogInv, LogStateOK, HistoryInv, Forgotten, Lengths, New, Joined, Unset, EntryInv
<1>8. SelectionInv => SelectionInv'
  BY <1>1 DEF LogInv, LogStateOK, SelectionInv, Lengths
<1> QED BY <1>2, <1>3, <1>4, <1>5, <1>6, <1>7, <1>8 DEF LogInv

(* The instruction fills the entry of its own. *)
LEMMA TailLogSetInv ==
  ASSUME LogInv, NEW k \in 0..2, tail_log_set(k)
  PROVE  LogInv' /\ (SelectionInv => SelectionInv')
<1> USE TracelogAssumption
<1> DEFINE op == trace[Len(trace)]
<1>1. /\ lpc = "added" /\ lpc' = "idle" /\ entry' = NULL
      /\ opcode' = IF Deref(opcode, log_tail) = 0 THEN Assign(opcode, log_tail, op) ELSE opcode
      /\ current_operand' = current_operand + k + (IF Deref(opcode, log_tail) = 0 THEN 0 ELSE 1)
      /\ UNCHANGED <<log, log_head, log_tail, current_length, next, prev, avail,
                     cur_selected_entry, cur_selected_index, seq, trace, evicted, refused>>
  BY DEF tail_log_set, listVars, selVars
<1>2. op \in Nat /\ current_operand' \in Nat
  BY <1>1 DEF LogInv, LogStateOK
<1>3. opcode' \in [Addr -> Nat]
  BY <1>1, <1>2 DEF LogInv, LogStateOK, Assign
<1>4. LogStateOK'
  BY <1>1, <1>2, <1>3 DEF LogInv, LogStateOK, Steps, Pointers
<1>5. Ends'
  BY <1>1 DEF LogInv, Ends
<1>6. Lengths'
  BY <1>1 DEF LogInv, Lengths
<1>7. Links'
  BY <1>1 DEF LogInv, Links
<1>8. EntryInv'
  BY <1>1 DEF EntryInv, New, Joined, Unset
<1>9. HistoryInv'
  <2> SUFFICES ASSUME ~refused PROVE HistoryInv'
    BY <1>1 DEF HistoryInv
  <2>1. Len(log) >= 1 /\ opcode[log[Len(log)]] = 0 /\ current_operand = 0
    BY <1>1, LogBlocks DEF LogInv, HistoryInv
  <2>2. log_tail = log[Len(log)] /\ log_tail \in Addr
    BY <1>1, <2>1, LogBlocks DEF LogInv, Ends
  <2>3. opcode' = [opcode EXCEPT ![log_tail] = op] /\ current_operand' = k
    BY <1>1, <2>1, <2>2 DEF Deref, Assign
  <2>4. /\ Forgotten' = Forgotten /\ Forgotten >= 0 /\ Forgotten + Len(log) = Len(trace)
    BY <1>1, LogBlocks DEF LogInv, LogStateOK, HistoryInv, Forgotten
  <2>5. \A i \in 1..Len(log) : seq[log[i]] = Forgotten + i
    BY <1>1 DEF LogInv, HistoryInv, Unset
  <2>6. ASSUME NEW i \in 1..Len(log)
        PROVE  opcode'[log[i]] = trace[Forgotten + i]
    <3>1. CASE i = Len(log)
      BY <2>2, <2>3, <2>4, <3>1 DEF LogInv, LogStateOK
    <3>2. CASE i # Len(log)
      <4>1. log[i] # log_tail /\ log[i] \in Addr
        BY <2>1, <2>2, <3>2, LogBlocks DEF LogInv, Links
      <4>2. opcode[log[i]] = trace[Forgotten + i]
        BY <3>2 DEF LogInv, HistoryInv
      <4> QED BY <2>3, <4>1, <4>2 DEF LogInv, LogStateOK
    <3> QED BY <3>1, <3>2
  <2> QED BY <1>1, <2>3, <2>4, <2>5, <2>6 DEF HistoryInv, Joined, Unset
<1>10. SelectionInv => SelectionInv'
  BY <1>1 DEF SelectionInv
<1> QED BY <1>4, <1>5, <1>6, <1>7, <1>8, <1>9, <1>10 DEF LogInv

(* Every statement of add_tracelog_entry. *)
LEMMA AddStepInv ==
  ASSUME LogInv, AddStep
  PROVE  LogInv' /\ (SelectionInv => SelectionInv')
  BY UnlinkInv, ClearPrevInv, FreeOldInv, ShortenInv, AllocInv, NoMemoryInv, SetHeadInv,
     SelectHeadInv, LinkNextInv, LinkPrevInv, SetTailInv, InitLogEntryInv, LengthenInv
  DEF AddStep

(* The keys move only the selection; where they come between two statements *)
(* of add_tracelog_entry, the list stays as that statement left it.         *)
LEMMA SelectionOnly ==
  ASSUME LogInv, cur_selected_entry' \in Pointers, cur_selected_index' \in Int,
         UNCHANGED <<listVars, dataVars, lpc, entry, evicted, refused>>
  PROVE  LogInv'
<1>1. UNCHANGED <<log, log_head, log_tail, current_length, next, prev, avail, seq, opcode,
                  current_operand, trace, lpc, entry, evicted, refused>>
  BY DEF listVars, dataVars
<1>2. LogStateOK'
  BY <1>1 DEF LogInv, LogStateOK
<1>3. Ends' /\ Lengths' /\ Links' /\ EntryInv' /\ HistoryInv'
  BY <1>1 DEF LogInv, Ends, Lengths, Links, EntryInv, HistoryInv, Forgotten
<1> QED BY <1>2, <1>3 DEF LogInv

(* S.  The index stays a page before the end, so that the selection, ahead  *)
(* of it by a page at most, stays in the list.                              *)
LEMMA ScrollDownInv ==
  ASSUME LogInv, scroll_down
  PROVE  LogInv' /\ (DriftWithinPage /\ SelectionInv => SelectionInv')
<1> USE TracelogAssumption
<1>1. /\ UNCHANGED <<listVars, dataVars, lpc, entry, evicted, refused>>
      /\ UNCHANGED <<log, current_length, lpc, evicted>>
  BY DEF scroll_down, listVars
<1>2. CASE UNCHANGED selVars
  <2>1. UNCHANGED <<cur_selected_entry, cur_selected_index>>
    BY <1>2 DEF selVars
  <2>2. LogInv'
    BY <1>1, <2>1, SelectionOnly DEF LogInv, LogStateOK
  <2> QED BY <1>1, <2>1, <2>2 DEF SelectionInv
<1>3. CASE /\ cur_selected_index + NumPrint < current_length
           /\ cur_selected_entry' = Deref(next, cur_selected_entry)
           /\ cur_selected_index' = cur_selected_index + 1
  <2>1. cur_selected_entry' \in Pointers /\ cur_selected_index' \in Int
    BY <1>3 DEF LogInv, LogStateOK, Deref, Pointers
  <2>2. LogInv'
    BY <1>1, <2>1, SelectionOnly
  <2>3. ASSUME DriftWithinPage, SelectionInv, ~evicted
        PROVE  SelectionInv'
    <3>1. Len(log) > 0
      BY <1>3, <2>3, LogBlocks DEF LogInv, Lengths, LogStateOK, SelectionInv, Steps, New, Joined, Unset
    <3>2. lpc # "select_head"
      BY <1>3, <2>3 DEF LogInv, LogStateOK, Lengths, SelectionInv, DriftWithinPage
    <3>3. PICK i \in 1..(current_length + 1) :
            /\ cur_selected_entry = log[i]
            /\ i - 1 - cur_selected_index \in 0..MaxDrift
      BY <2>3, <3>1, <3>2 DEF SelectionInv
    <3>4. i + 1 \in 1..(current_length + 1)
      BY <1>3, <2>3, <3>3 DEF DriftWithinPage, LogInv, LogStateOK
    <3>5. current_length + 1 <= Len(log)
      BY <2>3, <3>1 DEF LogInv, LogStateOK, Lengths, SelectionInv, Steps, New, Joined, Unset
    <3>6. log[i] \in Addr /\ next[log[i]] = log[i + 1]
      <4>1. i \in 1..Len(log) /\ i # Len(log)
        BY <3>4, <3>5, LogBlocks DEF LogInv, LogStateOK
      <4> QED BY <4>1, LogBlocks DEF LogInv, Links
    <3>7. cur_selected_entry' = log[i + 1]
      BY <1>3, <3>3, <3>6 DEF Deref
    <3>8. (i + 1) - 1 - cur_selected_index' \in 0..MaxDrift
      BY <1>3, <3>3 DEF LogInv, LogStateOK
    <3> QED BY <1>1, <2>3, <3>1, <3>2, <3>4, <3>7, <3>8 DEF SelectionInv
  <2> QED BY <1>1, <2>2, <2>3 DEF SelectionInv
<1> QED BY <1>2, <1>3 DEF scroll_down

(* W.  The selection moves back with its index. *)
LEMMA ScrollUpInv ==
  ASSUME LogInv, scroll_up
  PROVE  LogInv' /\ (SelectionInv => SelectionInv')
<1> USE TracelogAssumption
<1>1. /\ UNCHANGED <<listVars, dataVars, lpc, entry, evicted, refused>>
      /\ UNCHANGED <<log, current_length, lpc, evicted>>
  BY DEF scroll_up, listVars
<1>2. CASE UNCHANGED selVars
  <2>1. UNCHANGED <<cur_selected_entry, cur_selected_index>>
    BY <1>2 DEF selVars
  <2>2. LogInv'
    BY <1>1, <2>1, SelectionOnly DEF LogInv, LogStateOK
  <2> QED BY <1>1, <2>1, <2>2 DEF SelectionInv
<1>3. CASE /\ cur_selected_entry # log_head /\ cur_selected_index > -MaxDrift
           /\ cur_selected_entry' = Deref(prev, cur_selected_entry)
           /\ cur_selected_index' = cur_selected_index - 1
  <2>1. cur_selected_entry' \in Pointers /\ cur_selected_index' \in Int
    BY <1>3 DEF LogInv, LogStateOK, Deref, Pointers
  <2>2. LogInv'
    BY <1>1, <2>1, SelectionOnly
  <2>3. ASSUME SelectionInv, ~evicted
        PROVE  SelectionInv'
    <3>1. Len(log) > 0
      BY <1>3, <2>3, LogBlocks DEF LogInv, Ends, SelectionInv
    <3>2. CASE lpc = "select_head"
      <4>1. cur_selected_index' \in -MaxDrift..0
        BY <1>3, <2>3, <3>2 DEF LogInv, LogStateOK, SelectionInv
      <4> QED BY <1>1, <3>1, <3>2, <4>1 DEF SelectionInv
    <3>3. CASE lpc # "select_head"
      <4>1. PICK i \in 1..(current_length + 1) :
              /\ cur_selected_entry = log[i]
              /\ i - 1 - cur_selected_index \in 0..MaxDrift
        BY <2>3, <3>1, <3>3 DEF SelectionInv
      <4>2. i # 1
        BY <1>3, <3>1, <4>1 DEF LogInv, Ends
      <4>3. /\ current_length + 1 <= Len(log)
            /\ lpc = "link_prev" => current_length + 1 < Len(log)
        BY <2>3, <3>1 DEF LogInv, LogStateOK, Lengths, SelectionInv, Steps, New, Joined, Unset
      <4>4. log[i] \in Addr /\ prev[log[i]] = log[i - 1]
        <5>1. i \in 1..Len(log) /\ i > 1 /\ (lpc = "link_prev" => i < Len(log))
          BY <4>1, <4>2, <4>3, LogBlocks DEF LogInv, LogStateOK
        <5> QED BY <5>1, LogBlocks DEF LogInv, Links
      <4>5. cur_selected_entry' = log[i - 1]
        BY <1>3, <4>1, <4>4 DEF Deref
      <4>6. i - 1 \in 1..(current_length + 1) /\ (i - 1) - 1 - cur_selected_index' \in 0..MaxDrift
        BY <1>3, <4>1, <4>2 DEF LogInv, LogStateOK
      <4> QED BY <1>1, <2>3, <3>1, <3>3, <4>5, <4>6 DEF SelectionInv
    <3> QED BY <3>2, <3>3
  <2> QED BY <1>1, <2>2, <2>3 DEF SelectionInv
<1> QED BY <1>2, <1>3 DEF scroll_up

-----------------------------------------------------------------------------
(* What the trace log promises. *)

(* The list as it is between two instructions. *)
LEMMA ListFromInv == LogInv => ListWellFormed
<1> SUFFICES ASSUME LogInv, lpc = "idle" PROVE ListWellFormed
  BY DEF ListWellFormed
<1>1. log = <<>> <=> Len(log) = 0
  BY DEF LogInv, LogStateOK
<1>2. log_head = IF log = <<>> THEN NULL ELSE log[1]
  BY <1>1 DEF LogInv, Ends
<1>3. log # <<>> => /\ log_tail = log[Len(log)]
                    /\ Len(log) = current_length + 1 /\ Len(log) <= MaxLength + 1
  BY <1>1, LogBlocks DEF LogInv, LogStateOK, Ends, Lengths
<1>4. ASSUME NEW i \in 1..Len(log)
      PROVE  /\ next[log[i]] = IF i = Len(log) THEN NULL ELSE log[i + 1]
             /\ prev[log[i]] = IF i = 1 THEN NULL ELSE log[i - 1]
             /\ log[i] \notin avail
             /\ \A j \in 1..(i - 1) : log[j] # log[i]
  BY LogBlocks DEF LogInv, Links
<1> QED BY <1>2, <1>3, <1>4 DEF ListWellFormed

LEMMA HistoryFromInv == LogInv => LogIsHistory /\ OperandsInBounds
<1> SUFFICES ASSUME LogInv PROVE LogIsHistory /\ OperandsInBounds
  OBVIOUS
<1>1. ASSUME lpc = "idle", ~refused, NEW i \in 1..Len(log)
      PROVE  LET n == Len(trace) - Len(log) + i
             IN n \in 1..Len(trace) /\ seq[log[i]] = n /\ opcode[log[i]] = trace[n]
  <2>1. Len(trace) \in Nat /\ Forgotten = Len(trace) - Len(log) /\ Forgotten >= 0
    BY <1>1 DEF LogInv, LogStateOK, HistoryInv, Forgotten
  <2>2. seq[log[i]] = Forgotten + i /\ opcode[log[i]] = trace[Forgotten + i]
    BY <1>1 DEF LogInv, HistoryInv, Unset, Joined
  <2> QED BY <2>1, <2>2, LogBlocks
<1>2. LogIsHistory
  BY <1>1 DEF LogIsHistory
<1>3. OperandsInBounds
  BY DEF LogInv, HistoryInv, OperandsInBounds
<1> QED BY <1>2, <1>3

(* tracelog_print_entries starts in the list and stops at the tail. *)
LEMMA PrintsFromInv == LogInv /\ SelectionInv => PrintsLogUntilEviction
<1> SUFFICES ASSUME LogInv, SelectionInv, log_tail # NULL, ~evicted
             PROVE  tracelog_print_entries \subseteq Linked
  BY DEF PrintsLogUntilEviction
<1> USE TracelogAssumption
<1>1. /\ Len(log) \in Nat /\ Len(log) > 0 /\ lpc \notin {"select_head", "first_tail"}
      /\ current_length \in Nat
  BY LogBlocks DEF LogInv, LogStateOK, Ends
<1>2. PICK t \in 1..Len(log) : log_tail = log[t] /\ current_length + 1 <= t
  <2> DEFINE t == IF lpc \in {"link_prev", "set_tail"} THEN Len(log) - 1 ELSE Len(log)
  <2>1. log_tail = log[t]
    BY <1>1 DEF LogInv, Ends
  <2>2. t \in 1..Len(log) /\ current_length + 1 <= t
    BY <1>1 DEF LogInv, LogStateOK, Lengths, SelectionInv, Steps, New, Joined, Unset
  <2> QED BY <2>1, <2>2
<1>3. PICK p \in 1..t : cur_selected_entry = log[p]
  BY <1>1, <1>2 DEF SelectionInv
<1>4. LastLine \in Nat
  <2>1. {NumPrint, current_length} \in SUBSET Nat /\ {NumPrint, current_length} # {}
    BY <1>1
  <2> QED BY <2>1, MinIsLeast DEF LastLine
<1> DEFINE Step(f) == [i \in 0..LastLine |->
                         IF i = 0 THEN cur_selected_entry
                         ELSE IF f[i - 1] # log_tail THEN Deref(next, f[i - 1])
                         ELSE f[i - 1]]
           F == CHOOSE f : f = Step(f)
<1>5. tracelog_print_entries = {F[i] : i \in 0..LastLine}
  BY DEF tracelog_print_entries
<1>6. ASSUME NEW j \in 1..t
      PROVE  /\ log[j] \in Addr
             /\ log[j] # log_tail <=> j # t
             /\ j # t => Deref(next, log[j]) = log[j + 1] /\ j + 1 \in 1..t
  <2>1. j \in 1..Len(log) /\ (j # t => j # Len(log) /\ j + 1 \in 1..t)
    BY <1>1, <1>2
  <2> QED BY <1>2, <2>1, LogBlocks DEF LogInv, Links, Deref
<1>7. \E f : f = Step(f)
  <2> DEFINE at(i) == IF p + i <= t THEN p + i ELSE t
             g == [i \in 0..LastLine |-> log[at(i)]]
  <2>1. ASSUME NEW i \in 0..LastLine
        PROVE  g[i] = IF i = 0 THEN cur_selected_entry
                      ELSE IF g[i - 1] # log_tail THEN Deref(next, g[i - 1])
                      ELSE g[i - 1]
    <3>1. CASE i = 0
      BY <1>2, <1>3, <1>4, <3>1
    <3>2. CASE i # 0
      <4>1. i - 1 \in 0..LastLine /\ g[i - 1] = log[at(i - 1)] /\ g[i] = log[at(i)]
        BY <1>4, <3>2
      <4>2. /\ at(i - 1) \in 1..t
            /\ at(i - 1) # t => at(i) = at(i - 1) + 1
            /\ at(i - 1) = t => at(i) = t
        BY <1>2, <1>3, <1>4, <3>2
      <4> HIDE DEF at, g
      <4> QED BY <1>2, <1>6, <3>2, <4>1, <4>2
    <3> QED BY <3>1, <3>2
  <2>2. g = Step(g)
    BY <2>1
  <2> QED BY <2>2
<1>8. F = Step(F)
  <2> HIDE DEF Step
  <2> QED BY <1>7
<1> DEFINE inLog == {i \in 0..LastLine : \E j \in 1..t : F[i] = log[j]}
<1>9. F[0] = cur_selected_entry /\
      \A i \in 1..LastLine : F[i] = IF F[i - 1] # log_tail THEN Deref(next, F[i - 1]) ELSE F[i - 1]
  <2> HIDE DEF F
  <2> QED BY <1>4, <1>8
<1> HIDE DEF F
<1>10. 0 \in inLog
  BY <1>3, <1>4, <1>9
<1>11. ASSUME NEW n \in 0..(LastLine - 1), n \in inLog
       PROVE  n + 1 \in inLog
  <2>1. PICK j \in 1..t : F[n] = log[j]
    BY <1>11
  <2>2. F[n + 1] = IF F[n] # log_tail THEN Deref(next, F[n]) ELSE F[n]
    BY <1>4, <1>9
  <2>3. \E k \in 1..t : F[n + 1] = log[k]
    BY <1>6, <2>1, <2>2
  <2> QED BY <1>4, <2>3
<1>12. 0..LastLine \subseteq inLog
  <2> HIDE DEF inLog
  <2> QED BY <1>4, <1>10, <1>11, InductionUpTo
<1>13. \A i \in 0..LastLine : F[i] \in Linked
  <2>1. \A j \in 1..t : log[j] \in Linked
    BY <1>1, <1>2 DEF Linked, Range, LogInv, LogStateOK
  <2> QED BY <1>12, <2>1
<1> QED BY <1>5, <1>13

-----------------------------------------------------------------------------
(* The main thread and the keyboard interrupt. *)


(* The log changes only with its variables. *)
LEMMA LogStutter ==
  ASSUME LogInv, UNCHANGED logVars
  PROVE  LogInv' /\ (SelectionInv => SelectionInv')
<1>1. /\ UNCHANGED <<listVars, dataVars, lpc, entry, evicted, refused>>
      /\ UNCHANGED <<log, current_length, lpc, evicted, cur_selected_entry, cur_selected_index>>
  BY DEF logVars, listVars, selVars
<1>2. LogInv'
  BY <1>1, SelectionOnly DEF LogInv, LogStateOK
<1> QED BY <1>1, <1>2 DEF SelectionInv

(* Every step of the kernel keeps the log's invariant. *)
LEMMA NextLogInv ==
  ASSUME LogInv, [Next]_vars
  PROVE  LogInv' /\ (DriftWithinPage /\ SelectionInv => SelectionInv')
<1>1. CASE UNCHANGED logVars
  BY <1>1, LogStutter
<1>2. ASSUME NEW op \in Opcodes, emulate_CPU(op)
      PROVE  LogInv' /\ (SelectionInv => SelectionInv')
  BY <1>2, AddBeginInv, KernelAssumption DEF emulate_CPU
<1>3. CASE log_step
  BY <1>3, AddStepInv DEF log_step
<1>4. ASSUME NEW k \in 0..2, NEW cost \in Costs, instruction(k, cost)
      PROVE  LogInv' /\ (SelectionInv => SelectionInv')
  BY <1>4, TailLogSetInv DEF instruction
<1>5. CASE scroll(scroll_up)
  BY <1>5, ScrollUpInv DEF scroll
<1>6. CASE scroll(scroll_down)
  BY <1>6, ScrollDownInv DEF scroll
<1>7. CASE set_initialized \/ set_rom \/ draw_reset \/ draw_load \/ draw_store
           \/ newline_load \/ newline_store \/ emu_init \/ emu_run_end
  BY <1>1, <1>7 DEF set_initialized, set_rom, draw_reset, draw_load, draw_store,
                    newline_load, newline_store, emu_init, emu_run_end
<1>8. CASE decrement_cursor \/ increment_cursor \/ key_Enter
  BY <1>1, <1>8 DEF decrement_cursor, increment_cursor, move_cursor, key_Enter
<1>9. CASE UNCHANGED vars
  BY <1>1, <1>9 DEF vars
<1> QED BY <1>2, <1>3, <1>4, <1>5, <1>6, <1>7, <1>8, <1>9
        DEF Next, Main, Interrupt, key_W, key_S

-----------------------------------------------------------------------------
LEMMA InitKernelInv == Init => KernelInv
<1> SUFFICES ASSUME Init PROVE KernelInv
  OBVIOUS
<1>1. Roms \in Nat \ {0, 1} /\ NumPrint \in Nat
  BY KernelAssumption, TracelogAssumption
<1>2. /\ pc = "interrupts_on" /\ rom_selected = FALSE /\ cursor_index = 0 /\ test_roms = 0
      /\ terminal_row = 0 /\ marks = {} /\ item = 0 /\ booted = -1
      /\ lpc = "idle" /\ current_length = 0
  BY DEF Init, LogInit
<1>3. LogEmpty /\ Rows
  BY <1>1, <1>2 DEF LogEmpty, Rows, LastRow, Before, Drawing, Running
<1>4. Choice
  BY <1>1, <1>2 DEF Choice
<1> QED BY <1>2, <1>3, <1>4 DEF KernelInv, Before

(* The main thread: the menu's rows are counted by item, the log is empty   *)
(* until the emulator runs.                                                 *)
LEMMA MenuInv ==
  ASSUME KernelInv,
         set_initialized \/ set_rom \/ draw_reset \/ draw_load \/ draw_store
         \/ newline_load \/ newline_store
  PROVE  KernelInv'
<1>1. Roms \in Nat \ {0, 1} /\ NumPrint \in Nat
  BY KernelAssumption, TracelogAssumption
<1>2. UNCHANGED <<lpc, current_length, rom_selected, cursor_index, booted, chosen>>
  BY DEF set_initialized, set_rom, draw_reset, draw_load, draw_store, newline_load,
         newline_store, logVars, listVars, menuVars
<1> USE <1>1, <1>2 DEF KernelInv, LogEmpty, Rows, Choice, Before, Drawing, Running, LastRow
<1>3. CASE set_initialized
  BY <1>3 DEF set_initialized, menuVars
<1>4. CASE set_rom
  BY <1>4 DEF set_rom
<1>5. CASE draw_reset
  BY <1>5 DEF draw_reset
<1>6. CASE draw_load
  BY <1>6 DEF draw_load
<1>7. CASE draw_store
  <2>1. marks' \subseteq marks \cup {pos.row} /\ pos.row \in 0..LastRow
    BY <1>7 DEF draw_store
  <2> QED BY <1>7, <2>1 DEF draw_store
<1>8. CASE newline_load
  BY <1>8 DEF newline_load, NoPos
<1>9. CASE newline_store
  BY <1>9 DEF newline_store
<1> QED BY <1>3, <1>4, <1>5, <1>6, <1>7, <1>8, <1>9

(* The emulator runs the ROM under the cursor. *)
LEMMA EmulatorInv ==
  ASSUME KernelInv,
         emu_init \/ log_step \/ emu_run_end
         \/ (\E op \in Opcodes : emulate_CPU(op))
         \/ (\E k \in 0..2, cost \in Costs : instruction(k, cost))
  PROVE  KernelInv'
<1>1. Roms \in Nat \ {0, 1} /\ NumPrint \in Nat
  BY KernelAssumption, TracelogAssumption
<1> USE <1>1 DEF KernelInv, LogEmpty, Rows, Choice, Before, Drawing, Running, LastRow
<1>2. CASE emu_init
  BY <1>2 DEF emu_init
<1>3. CASE pc = "emu_run" /\ pc' \in Running
           /\ UNCHANGED <<rom_selected, menuVars, booted, chosen>>
  BY <1>3 DEF menuVars
<1> QED BY <1>2, <1>3 DEF log_step, emu_run_end, emulate_CPU, instruction

(* The keys: a cursor moves only before the choice, and a page of the empty *)
(* log is one line.                                                         *)
LEMMA KeysInv ==
  ASSUME LogInv, KernelInv, Interrupt
  PROVE  KernelInv'
<1>1. Roms \in Nat \ {0, 1} /\ NumPrint \in Nat
  BY KernelAssumption, TracelogAssumption
<1> USE <1>1
<1>2. CASE key_Enter
  BY <1>2 DEF key_Enter, KernelInv, LogEmpty, Rows, Choice, menuVars, logVars, listVars,
              Before, Drawing, Running, LastRow
<1>3. ASSUME NEW c \in 0..(Roms - 1), ~rom_selected, move_cursor(c)
      PROVE  KernelInv'
  BY <1>3 DEF move_cursor, KernelInv, LogEmpty, Rows, Choice, logVars, listVars,
              Before, Drawing, Running, LastRow
<1>4. LastLine \in Nat /\ LastLine <= NumPrint /\ LastLine <= current_length
  <2>1. {NumPrint, current_length} \in SUBSET Nat /\ {NumPrint, current_length} # {}
    BY DEF LogInv, LogStateOK
  <2> QED BY <2>1, MinIsLeast DEF LastLine
<1>5. ASSUME NEW step, scroll(step), UNCHANGED <<lpc, current_length>>
      PROVE  KernelInv'
  BY <1>4, <1>5 DEF scroll, KernelInv, LogEmpty, Rows, Choice, Before, Drawing, Running, LastRow
<1>6. CASE key_W
  <2>1. CASE rom_selected
    <3>1. scroll(scroll_up) /\ UNCHANGED <<lpc, current_length>>
      BY <1>6, <2>1 DEF key_W, scroll, scroll_up, listVars
    <3> QED BY <1>5, <3>1
  <2>2. CASE ~rom_selected
    BY <1>3, <1>6, <2>2 DEF key_W, decrement_cursor, KernelInv, Choice
  <2> QED BY <2>1, <2>2
<1>7. CASE key_S
  <2>1. CASE rom_selected
    <3>1. scroll(scroll_down) /\ UNCHANGED <<lpc, current_length>>
      BY <1>7, <2>1 DEF key_S, scroll, scroll_down, listVars
    <3> QED BY <1>5, <3>1
  <2>2. CASE ~rom_selected
    BY <1>3, <1>7, <2>2 DEF key_S, increment_cursor, KernelInv, Choice
  <2> QED BY <2>1, <2>2
<1> QED BY <1>2, <1>6, <1>7 DEF Interrupt

LEMMA NextKernelInv ==
  ASSUME LogInv, KernelInv, [Next]_vars
  PROVE  KernelInv'
<1>1. CASE UNCHANGED vars
  BY <1>1 DEF vars, KernelInv, LogEmpty, Rows, Choice, menuVars, logVars, listVars
<1>2. CASE Main
  BY <1>2, MenuInv, EmulatorInv DEF Main
<1>3. CASE Interrupt
  BY <1>3, KeysInv
<1> QED BY <1>1, <1>2, <1>3 DEF Next

(* Both invariants together give the shape of the state. *)
LEMMA TypeFromInv == LogInv /\ KernelInv => TypeOK
<1> SUFFICES ASSUME LogInv, KernelInv PROVE TypeOK
  OBVIOUS
<1>1. log_head \in Pointers /\ log_tail \in Pointers
  BY LogBlocks DEF LogInv, LogStateOK, Ends, Lengths, Pointers
<1>2. terminal_row \in 0..LastRow
  BY KernelAssumption, TracelogAssumption
     DEF KernelInv, Rows, Before, Drawing, Running, LastRow
<1> QED BY <1>1, <1>2
        DEF TypeOK, LogTypeOK, LogInv, LogStateOK, KernelInv, Rows, Choice

-----------------------------------------------------------------------------
(* The two invariants hold whatever the keys, the ROM and the heap do. *)
THEOREM KernelInvariant == Spec => [](LogInv /\ KernelInv)
<1>1. Init => LogInv /\ KernelInv
  BY InitLogInv, InitKernelInv DEF Init
<1>2. LogInv /\ KernelInv /\ [Next]_vars => LogInv' /\ KernelInv'
  BY NextLogInv, NextKernelInv
<1> QED BY <1>1, <1>2, PTL DEF Spec

(* Cursor, rows, marks and pointers stay in their ranges. *)
THEOREM KernelTypeOK == Spec => []TypeOK
  BY KernelInvariant, TypeFromInv, PTL

(* The emulator runs the ROM that was under the cursor when Enter was       *)
(* accepted, and its path is set, for any interleaving of the keys with the *)
(* statements of kernel_main.                                               *)
THEOREM RunsChosenRom == Spec => []BootsChosenRom
<1>1. KernelInv => BootsChosenRom
  BY DEF KernelInv, Choice, BootsChosenRom
<1> QED BY <1>1, KernelInvariant, PTL

(* add_tracelog_entry keeps a doubly linked list without cycles, of blocks  *)
(* that are not free, for any TRACELOG_MAX_LENGTH and any heap, also after  *)
(* evictions and refused allocations.                                       *)
THEOREM LogListWellFormed == Spec => []ListWellFormed
  BY KernelInvariant, ListFromInv, PTL

(* The list holds the last instructions in order, each with its own opcode, *)
(* as long as no allocation was refused.                                    *)
THEOREM LogHoldsHistory == Spec => []LogIsHistory
  BY KernelInvariant, HistoryFromInv, PTL

(* tail_log_set_operand stays in operands[2]. *)
THEOREM OperandIndexBounded == Spec => []OperandsInBounds
  BY KernelInvariant, HistoryFromInv, PTL

(* Until an entry is evicted, a key that comes between any two statements   *)
(* prints only entries of the log, if no more W keys than a page has lines  *)
(* come between the two statements that set the first entry.                *)
THEOREM PrintsOnlyLog ==
  ASSUME DriftWithinPage
  PROVE  Spec => []PrintsLogUntilEviction
<1>1. Init => LogInv /\ SelectionInv
  BY InitLogInv DEF Init
<1>2. LogInv /\ SelectionInv /\ [Next]_vars => LogInv' /\ SelectionInv'
  BY NextLogInv
<1> QED BY <1>1, <1>2, PrintsFromInv, PTL DEF Spec
=============================================================================
