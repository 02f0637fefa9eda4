------------------------------ MODULE MCFiles -------------------------------
(* Files for TLC: a disk whose file is contiguous, and one where it lies    *)
(* backwards, a deleted entry comes first in the root directory, and chains *)
(* end with a mark that the code takes for a cluster's number.              *)
EXTENDS Files

File(name, first, size) == [name |-> name, dir |-> FALSE, first |-> first, size |-> size]
Dir(name, first) == [name |-> name, dir |-> TRUE, first |-> first, size |-> 0]
Deleted == File(DELETED, 0, 0)

DirCluster == 5
OtherMark == 9       \* 0xFFF9 to 0xFFFE

(* Clusters a and b hold the file, b being its second. *)
Volume(a, b, mark, root) ==
  [fat |-> [c \in 0..DirCluster |-> IF c = a THEN b ELSE IF c \in {b, DirCluster} THEN mark ELSE 0],
   root |-> root,
   dirs |-> [c \in {DirCluster} |-> <<Dir("up", DirCluster), File("rom", a, 6)>>]]

Roots(a) == << <<File("rom", a, 6), Dir("sub", DirCluster)>>,
              <<Deleted, Dir("sub", DirCluster), File("rom", a, 6)>> >>

MCVolumes ==
  {Volume(2, 3, EOC, Roots(2)[1]), Volume(4, 2, OtherMark, Roots(4)[2])}

Args(drive, parts, mode) == [path |-> [drive |-> drive, parts |-> parts], mode |-> mode]

MCOpens ==
  {Args(0, parts, "r") : parts \in {<<"rom">>, <<"sub", "rom">>, <<"rom", "rom">>, <<"sub", "", "rom">>, <<"">>}}
  \cup {Args(1, <<"rom">>, "r"), Args(0, <<"rom">>, "w")}

Request(size, nmemb) == [size |-> size, nmemb |-> nmemb]
MCReads == {Request(0, 1), Request(3, 0), Request(3, 2), Request(5, 1)}
=============================================================================
