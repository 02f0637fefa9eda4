------------------------------- MODULE MCCPU --------------------------------
(* CPU for TLC: families of programs, each explored to its own depth.       *)
EXTENDS CPU

(* Calls, interrupts and the stack, from any place of the stack's page. *)
StackProgram == [ops |-> {\h20, \h60, \h48, \h68, \h08, \h28, \h00, \h40, \hA2, \h9A, \h38},
                 bytes |-> {0, 128}, limit |-> 22]

(* Arithmetic on the edges of the signed and the unsigned range. *)
ArithmeticProgram == [ops |-> {\hA9, \h69, \hE9, \hC9, \h18, \h38, \h0A, \h4A, \h2A},
                      bytes |-> {0, 1, 127, 128, 255}, limit |-> 14]

(* Stores and instructions that change memory. *)
MemoryProgram == [ops |-> {\hA9, \hA2, \h85, \h95, \h8D, \h9D, \h91, \h81, \h06, \h26, \h46, \h66, \hE6, \hC6},
                  bytes |-> {1, 255}, limit |-> 16]

(* Every opcode of the switch and one it does not know. *)
AnyProgram == [ops |-> Implemented \cup {\h04}, bytes |-> {0, 129}, limit |-> 11]

MCPrograms == {StackProgram, ArithmeticProgram, MemoryProgram, AnyProgram}
=============================================================================
