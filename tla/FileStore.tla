----------------------------- MODULE FileStore ------------------------------
(***************************************************************************)
(* What the file system promises its callers: an open descriptor is the    *)
(* bytes of a file and a position of its own, a call concerns one          *)
(* descriptor, and a read within the file is one step that delivers its    *)
(* bytes.  There are no clusters, sectors or streams.  Files implements it. *)
(***************************************************************************)
EXTENDS Integers, Sequences

CONSTANT Fd

VARIABLES open,         \* fd -> Closed or [bytes, pos]
          request,      \* bytes asked for by the last call
          delivered     \* bytes the last call delivered

vars == <<open, request, delivered>>

Closed == [pos |-> -1]
IsOpen(fd) == open[fd] # Closed

Init == /\ open = [fd \in Fd |-> Closed]
        /\ delivered = <<>>

(* A call that opens, moves or reads nothing, failing ones included. *)
NoEffect == delivered' = <<>> /\ UNCHANGED open

Open(fd) == /\ ~IsOpen(fd) /\ open'[fd].pos = 0
            /\ open' = [open EXCEPT ![fd] = open'[fd]]
            /\ delivered' = <<>>

Close(fd) == /\ IsOpen(fd)
             /\ open' = [open EXCEPT ![fd] = Closed]
             /\ delivered' = <<>>

Seek(fd) == /\ IsOpen(fd) /\ open'[fd].pos \in Nat
            /\ open' = [open EXCEPT ![fd].pos = open'[fd].pos]
            /\ delivered' = <<>>

(* The bytes asked for are there. *)
Within(fd) == open[fd].pos + request' <= Len(open[fd].bytes)

Read(fd) == /\ IsOpen(fd) /\ Within(fd) /\ request' > 0
            /\ delivered' = SubSeq(open[fd].bytes, open[fd].pos + 1, open[fd].pos + request')
            /\ open' = [open EXCEPT ![fd].pos = @ + request']

(* Past a file's end a read delivers anything and may fail, but it moves   *)
(* its own position by what was asked for or not at all.                   *)
ReadBeyond(fd) == /\ IsOpen(fd) /\ ~Within(fd)
                  /\ open'[fd].pos \in {open[fd].pos, open[fd].pos + request'}
                  /\ open' = [open EXCEPT ![fd].pos = open'[fd].pos]

Next == \/ NoEffect
        \/ \E fd \in Fd : Open(fd) \/ Close(fd) \/ Seek(fd) \/ Read(fd) \/ ReadBeyond(fd)

Spec == Init /\ [][Next]_vars
=============================================================================
