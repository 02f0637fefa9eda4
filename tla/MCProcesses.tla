----------------------------- MODULE MCProcesses ----------------------------
(* Processes for TLC: a program of two pages, a missing file, one that      *)
(* cannot be read, and an empty one.                                        *)
EXTENDS Processes

Program(found, blocks, readable) == [found |-> found, blocks |-> blocks, readable |-> readable]

MCPrograms == {Program(TRUE, 2, TRUE), Program(FALSE, 1, TRUE),
               Program(TRUE, 4, FALSE), Program(TRUE, 0, FALSE)}
=============================================================================
