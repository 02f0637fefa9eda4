------------------------------- MODULE Kernel -------------------------------
(***************************************************************************)
(* The running kernel: kernel_main and the emulator's loop on one side,    *)
(* the keyboard interrupt (int21h, handle_scancode) on the other.  An      *)
(* interrupt runs to its end before the main thread goes on (interrupt     *)
(* gates, cli at entry), and may come between any two of its statements    *)
(* once enable_interrupts has run.                                         *)
(*                                                                         *)
(* Of the screen only the selection marks " > " of the menu are kept.      *)
(***************************************************************************)
EXTENDS Tracelog

CONSTANTS Roms,        \* NUM_ROMS - 1: entries of test_roms
          MaxCycles,   \* 1000: emu_run stops at this count
          Costs,       \* cycles of an instruction in opcode_table
          MaxFree,     \* bound: instructions of 0 cycles in a row
          Opcodes      \* opcodes, 0 is BRK, HLT is 2

ASSUME KernelAssumption == /\ Roms \in Nat \ {0, 1}
                           /\ Costs \subseteq Nat /\ MaxFree \in Nat
                           /\ Opcodes \subseteq Nat

VARIABLES pc,          \* position of the main thread
          kernel_initialized, rom_selected, cursor_index,
          test_roms,   \* how many of the paths are set
          terminal_row,
          marks,       \* rows of the screen that show the mark
          item,        \* draw_menu's line: 0 the header, i the i-th ROM
          pos,         \* coordinates and mark loaded, not yet stored
          redrawn,     \* did an interrupt print since they were loaded?
          total_CPU_cycles, CPU_halted, freeRun,
          booted,      \* history: the ROM given to emu_init, -1 before
          chosen       \* history: cursor_index when Enter was accepted, -1 before

menuVars == <<cursor_index, test_roms, terminal_row, marks, item, pos, redrawn>>
cpuVars == <<total_CPU_cycles, CPU_halted, freeRun>>
vars == <<logVars, pc, kernel_initialized, rom_selected, menuVars, cpuVars, booted, chosen>>

NoPos == [row |-> -1, mark |-> FALSE]

(* From enable_interrupts on; before it nothing can interfere. *)
Init == /\ LogInit
        /\ pc = "interrupts_on"
        /\ kernel_initialized = FALSE /\ rom_selected = FALSE
        /\ cursor_index = 0 /\ test_roms = 0
        /\ terminal_row = 0 /\ marks = {} /\ item = 0 /\ pos = NoPos /\ redrawn = FALSE
        /\ total_CPU_cycles = 0 /\ CPU_halted = FALSE /\ freeRun = 0
        /\ booted = -1 /\ chosen = -1

-----------------------------------------------------------------------------
(* kernel_main up to the menu. *)
set_initialized ==
  /\ pc = "interrupts_on" /\ pc' = "set_roms"
  /\ kernel_initialized' = TRUE
  /\ UNCHANGED <<logVars, rom_selected, menuVars, cpuVars, booted, chosen>>

set_rom ==
  /\ pc = "set_roms"
  /\ test_roms' = test_roms + 1
  /\ pc' = IF test_roms' = Roms THEN "draw" ELSE "set_roms"
  /\ UNCHANGED <<logVars, kernel_initialized, rom_selected, cursor_index, terminal_row,
                 marks, item, pos, redrawn, cpuVars, booted, chosen>>

(* draw_menu in the main thread.  The lines above the ROMs are one line.   *)
draw_reset ==
  /\ pc = "draw" /\ pc' = "load"
  /\ terminal_row' = 0
  /\ item' = 0
  /\ UNCHANGED <<logVars, kernel_initialized, rom_selected, cursor_index, test_roms,
                 marks, pos, redrawn, cpuVars, booted, chosen>>

(* The mark is decided and the row loaded, as the arguments of             *)
(* terminal_putchar are ...                                                *)
draw_load ==
  /\ pc = "load" /\ pc' = "store"
  /\ pos' = [row |-> terminal_row, mark |-> cursor_index = item - 1]
  /\ redrawn' = FALSE
  /\ UNCHANGED <<logVars, kernel_initialized, rom_selected, cursor_index, test_roms,
                 terminal_row, marks, item, cpuVars, booted, chosen>>

(* ... and the line is stored there.  After an interrupt has printed,      *)
(* only the one character whose coordinates were loaded lands in that *)
(* row, on the place of the mark or on another.                            *)
draw_store ==
  /\ pc = "store" /\ pc' = "newline"
  /\ marks' \in (IF redrawn THEN {marks} ELSE {}) \cup
                {IF pos.mark THEN marks \cup {pos.row} ELSE marks \ {pos.row}}
  /\ pos' = NoPos
  /\ UNCHANGED <<logVars, kernel_initialized, rom_selected, cursor_index, test_roms,
                 terminal_row, item, redrawn, cpuVars, booted, chosen>>

(* terminal_row += 1 is a load and a store. *)
newline_load ==
  /\ pc = "newline" /\ pc' = "newline_store"
  /\ pos' = [NoPos EXCEPT !.row = terminal_row]
  /\ UNCHANGED <<logVars, kernel_initialized, rom_selected, cursor_index, test_roms,
                 terminal_row, marks, item, redrawn, cpuVars, booted, chosen>>

newline_store ==
  /\ pc = "newline_store"
  /\ terminal_row' = pos.row + 1
  /\ pos' = NoPos
  /\ item' = item + 1
  /\ pc' = IF item < Roms THEN "load" ELSE "wait"
  /\ UNCHANGED <<logVars, kernel_initialized, rom_selected, cursor_index, test_roms,
                 marks, redrawn, cpuVars, booted, chosen>>

-----------------------------------------------------------------------------
(* The loop on rom_selected ends; terminal_initialize clears the screen,   *)
(* emu_init takes the ROM under the cursor, emu_reset enters emu_run.      *)
emu_init ==
  /\ pc = "wait" /\ rom_selected
  /\ pc' = "emu_run"
  /\ terminal_row' = 0
  /\ marks' = {}
  /\ booted' = cursor_index
  /\ total_CPU_cycles' = 8
  /\ CPU_halted' = FALSE
  /\ UNCHANGED <<logVars, kernel_initialized, rom_selected, cursor_index, test_roms, item,
                 pos, redrawn, freeRun, chosen>>

(* emulate_CPU: add_tracelog_entry, then the instruction.  An instruction  *)
(* of 0 cycles only moves the program counter on, and the unmapped range   *)
(* below the ROM reads as BRK, so a run of them is finite.                 *)
emulate_CPU(op) ==
  /\ pc = "emu_run" /\ ~CPU_halted /\ total_CPU_cycles < MaxCycles
  /\ add_begin(op)
  /\ UNCHANGED <<pc, kernel_initialized, rom_selected, menuVars, cpuVars, booted, chosen>>

log_step ==
  /\ pc = "emu_run" /\ AddStep
  /\ UNCHANGED <<pc, kernel_initialized, rom_selected, menuVars, cpuVars, booted, chosen>>

(* Operands follow every opcode but BRK and HLT. *)
instruction(k, cost) ==
  /\ pc = "emu_run"
  /\ tail_log_set(k)
  /\ trace[Len(trace)] \in {0, 2} => k = 0 /\ cost # 0
  /\ cost = 0 => k = 0 /\ freeRun < MaxFree
  /\ freeRun' = IF cost = 0 THEN freeRun + 1 ELSE 0
  /\ CPU_halted' = (trace[Len(trace)] = 2)
  /\ total_CPU_cycles' = total_CPU_cycles + cost
  /\ UNCHANGED <<pc, kernel_initialized, rom_selected, menuVars, booted, chosen>>

(* Mutant: the loop goes on until both conditions end it. *)
bug_emu_run_end ==
  /\ pc = "emu_run" /\ lpc = "idle"
  /\ CPU_halted /\ total_CPU_cycles >= MaxCycles
  /\ pc' = "done"
  /\ UNCHANGED <<logVars, kernel_initialized, rom_selected, menuVars, cpuVars, booted, chosen>>

(* The loop of emu_run ends: the log is printed and kernel_main returns to *)
(* the endless jump of kernel.asm.                                         *)
emu_run_end ==
  /\ pc = "emu_run" /\ lpc = "idle"
  /\ CPU_halted \/ total_CPU_cycles >= MaxCycles
  /\ pc' = "done"
  /\ UNCHANGED <<logVars, kernel_initialized, rom_selected, menuVars, cpuVars, booted, chosen>>

Main == \/ set_initialized \/ set_rom
        \/ draw_reset \/ draw_load \/ draw_store \/ newline_load \/ newline_store
        \/ emu_init
        \/ \E op \in Opcodes : emulate_CPU(op)
        \/ log_step
        \/ \E k \in 0..2, cost \in Costs : instruction(k, cost)
        \/ emu_run_end

-----------------------------------------------------------------------------
(* handle_scancode, in the interrupt. *)

(* increment_cursor and decrement_cursor, then draw_menu in one piece. *)
move_cursor(c) ==
  /\ cursor_index' = c
  /\ marks' = (marks \ (1..Roms)) \cup {c + 1}
  /\ terminal_row' = Roms + 1
  /\ redrawn' = TRUE
  /\ UNCHANGED <<logVars, pc, kernel_initialized, rom_selected, test_roms, item, pos,
                 cpuVars, booted, chosen>>

decrement_cursor == move_cursor(IF cursor_index > 0 THEN cursor_index - 1 ELSE cursor_index)

(* Mutant: the bound is one too high. *)
bug_increment_cursor == move_cursor(IF cursor_index < Roms THEN cursor_index + 1 ELSE cursor_index)
increment_cursor == move_cursor(IF cursor_index < Roms - 1 THEN cursor_index + 1 ELSE cursor_index)

(* scroll_up or scroll_down, then the lines of the log from row 0 on. *)
scroll(step) ==
  /\ step
  /\ terminal_row' = LastLine + 1
  /\ marks' = marks \ (0..LastLine)
  /\ redrawn' = TRUE
  /\ UNCHANGED <<pc, kernel_initialized, rom_selected, cursor_index, test_roms, item, pos,
                 cpuVars, booted, chosen>>

(* Mutant: the cursor still moves after a ROM was selected. *)
bug_key_W == decrement_cursor

key_W == IF rom_selected THEN scroll(scroll_up) ELSE decrement_cursor
key_S == IF rom_selected THEN scroll(scroll_down) ELSE increment_cursor

key_Enter ==
  /\ kernel_initialized
  /\ rom_selected' = TRUE
  /\ chosen' = IF rom_selected THEN chosen ELSE cursor_index
  /\ UNCHANGED <<logVars, pc, kernel_initialized, menuVars, cpuVars, booted>>

Interrupt == key_W \/ key_S \/ key_Enter

Next == Main \/ Interrupt

(* The main thread is never blocked for good: an interrupt returns to it. *)
Spec == Init /\ [][Next]_vars /\ WF_vars(Main)

-----------------------------------------------------------------------------
(* The lowest line that is printed: of a menu drawn by main after an        *)
(* interrupt has drawn it already, or of a page of the log.                 *)
LastRow == IF 2 * Roms + 2 > NumPrint + 1 THEN 2 * Roms + 2 ELSE NumPrint + 1

(* The shape of the state. *)
TypeOK == /\ LogTypeOK
          /\ cursor_index \in 0..(Roms - 1)
          /\ test_roms \in 0..Roms
          /\ marks \subseteq 0..LastRow
          /\ terminal_row \in 0..LastRow

(* The ROM emu_init is given is the one the cursor was on when Enter was    *)
(* accepted, however the keys come before main leaves its loop, and its     *)
(* path is set, although Enter is accepted before the paths are.            *)
BootsChosenRom == booted # -1 => booted = chosen /\ test_roms = Roms

(* "Press the W and S keys to select an NES rom, then press Enter to run    *)
(* it": when the menu is complete and Enter was pressed, the ROM that runs  *)
(* is the one marked in the menu's rows.                                    *)
EnterRunsMarkedRom ==
  pc = "wait" /\ rom_selected => marks \cap (1..Roms) = {cursor_index + 1}

(* After Enter the emulator runs to its cycle limit or a HLT, whatever is   *)
(* pressed meanwhile, and its log is printed.                               *)
LogEventuallyPrinted == rom_selected ~> pc = "done"
=============================================================================
