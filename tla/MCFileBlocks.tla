---------------------------- MODULE MCFileBlocks ----------------------------
(* FileBlocks for TLC: a disk whose root has a file and a directory of the  *)
(* same name, and a file that paths may also take for a directory; and one  *)
(* whose directory has no entries.                                          *)
EXTENDS FileBlocks

File(name, first) == [name |-> name, dir |-> FALSE, first |-> first, size |-> 1]
Dir(name, first) == [name |-> name, dir |-> TRUE, first |-> first, size |-> 0]

DirCluster == 3
BareCluster == 4
EndOfChain == -1                        \* EOC of Files

Volume(root) ==
  [fat |-> [c \in 0..BareCluster |-> EndOfChain],
   root |-> root,
   dirs |-> [c \in {DirCluster, BareCluster} |->
               IF c = DirCluster THEN <<Dir("up", DirCluster), File("rom", 2)>> ELSE <<>>]]

MCVolumes == {Volume(<<File("sub", 2), Dir("sub", DirCluster), File("rom", 2)>>),
              Volume(<<Dir("sub", BareCluster), File("rom", 2)>>)}

Args(drive, parts, mode) == [path |-> [drive |-> drive, parts |-> parts], mode |-> mode]

MCOpens ==
  {Args(0, parts, "r") : parts \in {<<"rom">>, <<"sub">>, <<"sub", "rom">>, <<"rom", "rom">>}}
  \cup {Args(1, <<"rom">>, "r"), Args(0, <<"rom">>, "w")}
=============================================================================
