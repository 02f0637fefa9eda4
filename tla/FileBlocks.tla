----------------------------- MODULE FileBlocks -----------------------------
(***************************************************************************)
(* The heap blocks of the file system: every kzalloc and kfree that        *)
(* mounting, fopen and fclose make, in their order (fs/file.c,             *)
(* fs/fat/fat16.c, fs/pparser.c, disk/streamer.c).  Files has the same     *)
(* calls as single steps and without memory; until a kzalloc returns no    *)
(* block this module implements them.                                      *)
(*                                                                         *)
(* A structure is one block, the entries of a directory too, and for such  *)
(* requests the heap hands out the lowest free block, cleared, and refuses *)
(* only when none is left.  The entries of a directory that has none are   *)
(* no block at all.  kfree leaves the contents.  A structure is kept as    *)
(* its kind, the pointer it begins with, and what is read of it later.  A  *)
(* store through NULL hits no structure; a directory at NULL or without    *)
(* entries matches no name.                                                *)
(***************************************************************************)
EXTENDS Integers, Sequences, FiniteSetsExt

CONSTANTS MaxFd, SectorSize, ClusterSectors, EntrySize, RootEnd,
          Volumes, Opens,            \* as in Files
          BlockSize,                 \* PEACHOS_HEAP_BLOCK_SIZE
          HeapSizes                  \* how many blocks the heap may have

(* Mounting needs six blocks; it runs at boot, with the heap empty. *)
MountBlocks == 6

ASSUME FileBlocksAssumption ==
  /\ MaxFd \in Nat
  /\ HeapSizes # {} /\ \A n \in HeapSizes : n \in Nat /\ n >= MountBlocks

VARIABLES vol,
          filesystem,       \* disk.filesystem # NULL
          heap_end,         \* the heap's last block
          avail,            \* blocks the heap can hand out; the others are held
          mem,              \* block -> structure, kept when the block is freed
          file_descriptors, \* fd -> block or NULL
          stream,           \* pos of fat_private->cluster_read_stream
          call,             \* the fopen being run: pc, arguments, locals
          ret, last,        \* as in Files
          no_block,         \* history: has a kzalloc returned NULL or, asked for no
                            \*   bytes, a block that stays free?
          bad_free          \* history: was a block freed that was not taken?

heapVars == <<heap_end, avail, mem, no_block, bad_free>>
vars == <<vol, filesystem, file_descriptors, stream, call, ret, last, heapVars>>

Block == UNION {1..n : n \in HeapSizes}
NULL == 0
WILD == -1                  \* bytes that are no pointer
Taken == Block \ avail

Struct(kind, ptr) == [kind |-> kind, ptr |-> ptr, private |-> WILD, entry |-> NULL]
Cleared == Struct("cleared", NULL)

Idle == [pc |-> "idle"]
Mounting == {"boot", "header", "root_directory", "resolved"}
Deref(p) == IF p \in Block THEN mem[p].ptr ELSE WILD
IsDirectory(item) == item \in Block /\ mem[item].kind = "fat_item" /\ mem[item].entry.dir

(* Files, as this module implements it: inside a call nothing has happened *)
(* yet, and a descriptor is what its blocks say.                           *)
F == INSTANCE Files WITH
       Reads <- {}, Offsets <- {}, MaxPos <- 0,
       file_descriptors <-
         [fd \in 1..MaxFd |->
            IF file_descriptors[fd] = NULL THEN [pos |-> -1]
            ELSE [item |-> mem[mem[mem[file_descriptors[fd]].private].ptr].entry, pos |-> 0]],
       stream <- IF call.pc \in Mounting \cup {"idle"} THEN stream ELSE call.stream,
       pc <- "idle", rd <- [fd |-> 0], out <- <<>>

(* The disks are those of Files, the entries of a directory fit a block,   *)
(* and a path is a sequence of names.                                      *)
ASSUME DisksAssumption ==
  /\ \A v \in Volumes : F!IsVolume(v)
  /\ \A v \in Volumes : \A c \in DOMAIN v.dirs :
       F!fat16_get_total_items_for_directory(v.dirs[c]) * EntrySize <= BlockSize
  /\ \A o \in Opens : o.path.parts \in Seq(STRING)

-----------------------------------------------------------------------------
(* kzalloc and kfree *)

(* What kzalloc returns, ... *)
New == IF avail = {} THEN NULL ELSE Min(avail)

(* ... and for no bytes: the start of the free run at the heap's end, of   *)
(* which nothing is taken.                                                 *)
NewEmpty == IF heap_end \notin avail THEN NULL ELSE Min({b \in avail : b..heap_end \subseteq avail})

kzalloc == /\ avail' = avail \ {New}
           /\ no_block' = (no_block \/ New = NULL)
           /\ UNCHANGED <<heap_end, bad_free>>

(* The memory once the new block is filled. *)
Filled(s) == IF New = NULL THEN mem ELSE [mem EXCEPT ![New] = s]

(* kfree of the pointers in turn.  One that is no taken block marks no     *)
(* block free that was not, or a byte outside the heap's table.            *)
kfree(ptrs) ==
  /\ avail' = avail \cup {ptrs[i] : i \in {j \in 1..Len(ptrs) : ptrs[j] \in Block}}
  /\ bad_free' = (\/ bad_free
                  \/ \E i \in 1..Len(ptrs) : \/ ptrs[i] \notin Taken
                                             \/ \E j \in 1..(i - 1) : ptrs[j] = ptrs[i])
  /\ UNCHANGED <<heap_end, mem, no_block>>

-----------------------------------------------------------------------------
(* Mounting *)

Init == /\ vol \in Volumes
        /\ filesystem = FALSE
        /\ heap_end \in HeapSizes /\ avail = 1..heap_end
        /\ mem = [b \in Block |-> Cleared]
        /\ file_descriptors = [fd \in 1..MaxFd |-> NULL]
        /\ stream = 0
        /\ call = [pc |-> "boot"]
        /\ ret = 0 /\ last = F!NoCall
        /\ no_block = FALSE /\ bad_free = FALSE

MountGoto(pc) == /\ call' = [pc |-> pc]
                 /\ UNCHANGED <<vol, filesystem, file_descriptors, stream, ret, last>>

(* The private data and its three streams, the first blocks of all. *)
fat16_init_private ==
  /\ call.pc = "boot"
  /\ avail' = avail \ {1, 2, 3, 4}
  /\ mem' = [b \in Block |-> IF b = 1 THEN Struct("fat_private", WILD)
                             ELSE IF b \in {2, 3, 4} THEN Struct("disk_stream", WILD) ELSE mem[b]]
  /\ MountGoto("header")
  /\ UNCHANGED <<heap_end, no_block, bad_free>>

(* A stream for the header, whose signature tells whether the disk is      *)
(* FAT16's.                                                                *)
diskstreamer_new(ours) ==
  /\ call.pc = "header"
  /\ kzalloc /\ mem' = Filled(Struct("disk_stream", WILD))
  /\ MountGoto(IF ours THEN "root_directory" ELSE "resolved")

fat16_get_root_directory ==
  /\ call.pc = "root_directory"
  /\ kzalloc /\ mem' = Filled(Struct("items", WILD))
  /\ MountGoto("resolved")

(* The stream is closed.  On another disk the private data is freed, its   *)
(* streams are not, and no filesystem is found.                            *)
fat16_resolve ==
  LET ours == mem[MountBlocks].kind = "items" IN
  /\ call.pc = "resolved"
  /\ kfree(IF ours THEN <<MountBlocks - 1>> ELSE <<MountBlocks - 1, 1>>)
  /\ filesystem' = ours
  /\ call' = Idle
  /\ UNCHANGED <<vol, file_descriptors, stream, ret, last>>

-----------------------------------------------------------------------------
(* fopen: the path *)

Return(r, l) == call' = Idle /\ ret' = r /\ last' = l
Fail == Return(0, [call |-> "fopen", fd |-> 0, path |-> call.path])
Goto(pc) == call' = [call EXCEPT !.pc = pc] /\ UNCHANGED <<ret, last>>
Keeps == UNCHANGED <<vol, filesystem, file_descriptors, stream>>

(* The blocks that hang from a descriptor. *)
Owned(fd) ==
  LET d == file_descriptors[fd]
      p == mem[d].private
      item == Deref(p)
  IN IF d = NULL THEN {}
     ELSE {d, p, item, Deref(item)}
            \cup (IF IsDirectory(item) THEN {Deref(Deref(item))} ELSE {})

Unowned == Taken \ UNION {Owned(fd) : fd \in 1..MaxFd}

fopen(path, mode) ==
  /\ call = Idle
  /\ call' = [pc |-> "root", path |-> path, mode |-> mode,
              parts |-> <<>>,                   \* the parts parsed
              descriptor |-> NULL,              \* of fat16_open
              depth |-> 1,                      \* the part being looked up,
              current_item |-> NULL,            \* in this directory
              i |-> 1, f_item |-> NULL,         \* of fat16_find_item_in_directory
              stream |-> stream,                \* history: as the call began
              kept |-> IF no_block THEN {} ELSE Unowned]
  /\ UNCHANGED <<ret, last, heapVars>> /\ Keeps

pathparser_create_root ==
  /\ call.pc = "root"
  /\ kzalloc /\ mem' = Filled(Struct("path", WILD))
  /\ IF New = NULL THEN Return(0, F!NoCall) ELSE Goto("string")
  /\ Keeps

PathPart == IF Len(call.parts) = Len(call.path.parts) THEN "" ELSE call.path.parts[Len(call.parts) + 1]

(* The buffer for the next part.  Without one the path ends here. *)
pathparser_get_path_part ==
  /\ call.pc = "string" /\ PathPart # ""
  /\ kzalloc /\ mem' = Filled(Struct("path", WILD))
  /\ Goto(IF New = NULL THEN "args" ELSE "part")
  /\ Keeps

(* An empty part: its buffer is freed at once, a NULL one too. *)
path_end ==
  /\ call.pc = "string" /\ PathPart = ""
  /\ mem' = Filled(Cleared)
  /\ no_block' = (no_block \/ New = NULL)
  /\ bad_free' = (bad_free \/ New = NULL)
  /\ Goto("args")
  /\ UNCHANGED <<heap_end, avail>> /\ Keeps

(* Without a structure for it the part is dropped, and the path ends. *)
pathparser_parse_path_part ==
  /\ call.pc = "part"
  /\ kzalloc /\ mem' = Filled(Struct("path", WILD))
  /\ call' = [call EXCEPT !.pc = IF New = NULL THEN "args" ELSE "string",
                          !.parts = IF New = NULL THEN @ ELSE Append(@, PathPart)]
  /\ UNCHANGED <<ret, last>> /\ Keeps

-----------------------------------------------------------------------------
(* fopen: fat16_open *)

Openable == call.parts # <<>> /\ call.path.drive = 0 /\ filesystem /\ call.mode = "r"

open_rejected ==
  /\ call.pc = "args" /\ ~Openable
  /\ Return(0, F!NoCall)
  /\ UNCHANGED heapVars /\ Keeps

fat16_open ==
  /\ call.pc = "args" /\ Openable
  /\ kzalloc /\ mem' = Filled(Struct("fat_file_descriptor", NULL))
  /\ IF New = NULL THEN Fail
     ELSE call' = [call EXCEPT !.pc = "search", !.descriptor = New] /\ UNCHANGED <<ret, last>>
  /\ Keeps

(* The directory searched, and the matches still ahead.  Through NULL, or  *)
(* a directory whose item array could not be had, nothing matches.         *)
Directory ==
  LET d == Deref(call.current_item)
  IN IF call.depth = 1 THEN vol.root
     ELSE IF Deref(d) \in Block THEN vol.dirs[mem[call.current_item].entry.first] ELSE <<>>

(* Mutant: the search ends with the first match. *)
BugHitsLeft == {j \in F!Hits(Directory, call.parts[call.depth]) : j >= call.i /\ call.f_item = NULL}

HitsLeft == {j \in F!Hits(Directory, call.parts[call.depth]) : j >= call.i}

(* Mutant: the search does not move on. *)
bug_fat16_new_fat_item_for_directory_item ==
  LET e == Directory[Min(HitsLeft)] IN
  /\ call.pc = "search" /\ HitsLeft # {}
  /\ kzalloc /\ mem' = Filled([Struct("fat_item", NULL) EXCEPT !.entry = e])
  /\ call' = [call EXCEPT !.f_item = New,
                          !.pc = IF New = NULL THEN "search" ELSE IF e.dir THEN "directory" ELSE "clone"]
  /\ UNCHANGED <<ret, last>> /\ Keeps

(* Each match makes a new item; the one before it is forgotten. *)
fat16_new_fat_item_for_directory_item ==
  LET e == Directory[Min(HitsLeft)] IN
  /\ call.pc = "search" /\ HitsLeft # {}
  /\ kzalloc /\ mem' = Filled([Struct("fat_item", NULL) EXCEPT !.entry = e])
  /\ call' = [call EXCEPT !.i = Min(HitsLeft) + 1, !.f_item = New,
                          !.pc = IF New = NULL THEN "search" ELSE IF e.dir THEN "directory" ELSE "clone"]
  /\ UNCHANGED <<ret, last>> /\ Keeps

fat16_clone_directory_item ==
  /\ call.pc = "clone"
  /\ kzalloc /\ mem' = [Filled(Struct("entry", WILD)) EXCEPT ![call.f_item].ptr = New]
  /\ Goto("search")
  /\ Keeps

load_directory ==
  /\ call.pc = "directory"
  /\ kzalloc /\ mem' = [Filled(Struct("fat_directory", NULL)) EXCEPT ![call.f_item].ptr = New]
  /\ Goto(IF New = NULL THEN "search" ELSE "items")
  /\ Keeps

(* The directory's entries, read through the cluster stream. *)
DirectoryTotal == F!fat16_get_total_items_for_directory(vol.dirs[mem[call.f_item].entry.first])

items_read ==
  /\ stream' = F!fat16_cluster_to_sector(mem[call.f_item].entry.first) * SectorSize
                 + DirectoryTotal * EntrySize
  /\ Goto("search")
  /\ UNCHANGED <<vol, filesystem, file_descriptors>>

load_items ==
  /\ call.pc = "items" /\ DirectoryTotal # 0 /\ New # NULL
  /\ kzalloc /\ mem' = [Filled(Struct("items", WILD)) EXCEPT ![mem[call.f_item].ptr].ptr = New]
  /\ items_read

(* Without entries kzalloc is asked for no bytes: the directory points to  *)
(* a block that stays free, for others to take and for                     *)
(* fat16_free_directory to free.                                           *)
load_no_items ==
  /\ call.pc = "items" /\ DirectoryTotal = 0 /\ NewEmpty # NULL
  /\ mem' = [mem EXCEPT ![mem[call.f_item].ptr].ptr = NewEmpty]
  /\ no_block' = TRUE
  /\ items_read
  /\ UNCHANGED <<heap_end, avail, bad_free>>

(* Without the array the directory is freed, but its pointer returned. *)
load_items_refused ==
  /\ call.pc = "items" /\ (IF DirectoryTotal = 0 THEN NewEmpty ELSE New) = NULL
  /\ avail' = avail \cup {mem[call.f_item].ptr} /\ no_block' = TRUE
  /\ Goto("search")
  /\ UNCHANGED <<heap_end, mem, bad_free>> /\ Keeps

(* Mutant: the item is freed, what it points to is not. *)
bug_fat16_fat_item_free(item) == <<item>>

(* The frees of fat16_fat_item_free and fat16_free_directory. *)
fat16_fat_item_free(item) ==
  LET p == Deref(item) IN
  CASE item \notin Block -> <<WILD>>
    [] item \in Block /\ IsDirectory(item) ->
         (IF p = NULL THEN <<>> ELSE IF Deref(p) = NULL THEN <<p>> ELSE <<Deref(p), p>>) \o <<item>>
    [] OTHER -> <<p, item>>

ItemSearched == IF call.depth = 1 THEN <<>> ELSE fat16_fat_item_free(call.current_item)
SearchOver == call.pc = "search" /\ HitsLeft = {}
LastPart == call.depth = Len(call.parts)

(* The walk of fat16_get_directory_entry: the directory searched is freed, *)
(* then the item found is the next directory, ...                          *)
next_part ==
  /\ SearchOver /\ ~LastPart /\ IsDirectory(call.f_item)
  /\ kfree(ItemSearched)
  /\ call' = [call EXCEPT !.depth = @ + 1, !.current_item = call.f_item, !.i = 1, !.f_item = NULL]
  /\ UNCHANGED <<ret, last>> /\ Keeps

(* Mutant: the step to the item found comes before the free. *)
bug_item_found ==
  /\ SearchOver /\ LastPart /\ call.f_item # NULL
  /\ kfree(IF call.depth = 1 THEN <<>> ELSE fat16_fat_item_free(call.f_item))
  /\ call' = [call EXCEPT !.pc = "descriptor", !.current_item = call.f_item]
  /\ UNCHANGED <<ret, last>> /\ Keeps

(* ... the one sought, ... *)
item_found ==
  /\ SearchOver /\ LastPart /\ call.f_item # NULL
  /\ kfree(ItemSearched)
  /\ call' = [call EXCEPT !.pc = "descriptor", !.current_item = call.f_item]
  /\ UNCHANGED <<ret, last>> /\ Keeps

(* Mutant: the descriptor is kept. *)
bug_not_found ==
  /\ SearchOver
  /\ call.f_item = NULL \/ (~LastPart /\ ~IsDirectory(call.f_item))
  /\ kfree(ItemSearched)
  /\ Fail
  /\ Keeps

(* ... or nothing: a file that stands for a directory is forgotten, and    *)
(* the descriptor of fat16_open is freed.                                  *)
not_found ==
  /\ SearchOver
  /\ call.f_item = NULL \/ (~LastPart /\ ~IsDirectory(call.f_item))
  /\ kfree(ItemSearched \o <<call.descriptor>>)
  /\ Fail
  /\ Keeps

(* Mutant: the slot after as many as are in use. *)
BugFreeFd == {1 + Cardinality({fd \in 1..MaxFd : file_descriptors[fd] # NULL})}

FreeFd == {fd \in 1..MaxFd : /\ file_descriptors[fd] = NULL
                             /\ \A g \in 1..(fd - 1) : file_descriptors[g] # NULL}

no_descriptor ==
  /\ call.pc = "descriptor" /\ FreeFd = {}
  /\ mem' = [mem EXCEPT ![call.descriptor].ptr = call.current_item]
  /\ Fail
  /\ UNCHANGED <<heap_end, avail, no_block, bad_free>> /\ Keeps

(* The structure is not tested: without it the slot stays empty, and the   *)
(* index stored and read through NULL is returned all the same.            *)
file_new_descriptor ==
  /\ call.pc = "descriptor" /\ FreeFd # {}
  /\ \E fd \in FreeFd :
       /\ file_descriptors' = [file_descriptors EXCEPT ![fd] = New]
       /\ Return(fd, [call |-> "fopen", fd |-> fd, path |-> call.path])
  /\ kzalloc
  /\ mem' = [Filled([Struct("file_descriptor", WILD) EXCEPT !.private = call.descriptor])
               EXCEPT ![call.descriptor].ptr = call.current_item]
  /\ UNCHANGED <<vol, filesystem, stream>>

Open == \/ pathparser_create_root \/ pathparser_get_path_part \/ path_end
        \/ pathparser_parse_path_part \/ open_rejected \/ fat16_open
        \/ fat16_new_fat_item_for_directory_item \/ fat16_clone_directory_item
        \/ load_directory \/ load_items \/ load_no_items \/ load_items_refused
        \/ next_part \/ item_found \/ not_found \/ no_descriptor \/ file_new_descriptor

-----------------------------------------------------------------------------
file_get_descriptor(fd) == IF fd <= 0 \/ fd >= MaxFd THEN NULL ELSE file_descriptors[fd]

fclose_fails(fd) ==
  /\ call = Idle /\ file_get_descriptor(fd) = NULL
  /\ ret' = F!EIO /\ last' = [F!NoCall EXCEPT !.fd = fd]
  /\ UNCHANGED <<vol, filesystem, file_descriptors, stream, call, heapVars>>

(* Does the slot lead to its own descriptor, and that to an item? *)
Closable(fd) ==
  LET d == file_descriptors[fd]
      item == Deref(mem[d].private)
  IN /\ mem[d].kind = "file_descriptor"
     /\ \A g \in 1..MaxFd : file_descriptors[g] = d => g = fd
     /\ item \in Block /\ mem[item].kind = "fat_item"

(* Mutant: the slot is not cleared. *)
bug_fclose(fd) ==
  LET d == file_get_descriptor(fd)
      private == mem[d].private
  IN
  /\ call = Idle /\ d # NULL
  /\ kfree(fat16_fat_item_free(Deref(private)) \o <<private, d>>)
  /\ ret' = 0 /\ last' = [F!NoCall EXCEPT !.fd = fd]
  /\ UNCHANGED <<vol, filesystem, file_descriptors, stream, call>>

(* fat16_close and file_free_descriptor.  Through structures that others   *)
(* have replaced the call goes anywhere, and nothing more is said.         *)
fclose(fd) ==
  LET d == file_get_descriptor(fd)
      private == mem[d].private
  IN
  /\ call = Idle /\ d # NULL
  /\ IF Closable(fd)
     THEN /\ kfree(fat16_fat_item_free(Deref(private)) \o <<private, d>>)
          /\ file_descriptors' = [file_descriptors EXCEPT ![fd] = NULL]
          /\ ret' = 0 /\ last' = [F!NoCall EXCEPT !.fd = fd]
          /\ UNCHANGED call
     ELSE call' = [pc |-> "wild"] /\ UNCHANGED <<file_descriptors, ret, last, heapVars>>
  /\ UNCHANGED <<vol, filesystem, stream>>

disk_search_and_init == \/ fat16_init_private \/ fat16_get_root_directory \/ fat16_resolve
                        \/ \E ours \in BOOLEAN : diskstreamer_new(ours)

Next == \/ disk_search_and_init
        \/ \E o \in Opens : fopen(o.path, o.mode)
        \/ Open
        \/ \E fd \in 0..MaxFd : fclose(fd) \/ fclose_fails(fd)

(* A call that has begun goes on. *)
Spec == Init /\ [][Next]_vars /\ WF_vars(Open)
-----------------------------------------------------------------------------
(* The shape of the state. *)
TypeOK == /\ avail \subseteq Block
          /\ \A b \in Block : /\ mem[b].ptr \in Block \cup {NULL, WILD}
                             /\ mem[b].private \in Block \cup {WILD}
          /\ file_descriptors \in [1..MaxFd -> Block \cup {NULL}]
          /\ call.pc \in Mounting \cup {"idle", "wild", "root", "string", "part", "args", "search",
                          "directory", "items", "clone", "descriptor"}
          /\ ret \in {F!EIO} \cup 0..MaxFd

(* Until a kzalloc returns no block, an open descriptor's structures are   *)
(* taken blocks of their kinds, each linked from the one before, and no    *)
(* two descriptors share one, however opens, failing opens and closes      *)
(* follow each other and whichever blocks they reuse (file_new_descriptor, *)
(* fat16_open, fat16_new_fat_item_for_directory_item).                     *)
DescriptorsOwnTheirBlocks ==
  ~no_block =>
    /\ \A fd \in 1..MaxFd : file_descriptors[fd] # NULL =>
         LET d == file_descriptors[fd]
             p == mem[d].private
             item == mem[p].ptr
             data == mem[item].ptr
         IN /\ Owned(fd) \subseteq Taken
            /\ mem[d].kind = "file_descriptor" /\ mem[p].kind = "fat_file_descriptor"
            /\ mem[item].kind = "fat_item"
            /\ IF IsDirectory(item)
               THEN mem[data].kind = "fat_directory" /\ mem[mem[data].ptr].kind = "items"
               ELSE mem[data].kind = "entry"
    /\ \A fd, g \in 1..MaxFd : fd # g => Owned(fd) \cap Owned(g) = {}

(* No block is freed twice, and nothing but a block, unless a kzalloc has  *)
(* returned no block before: then fat16_load_fat_directory returns a       *)
(* directory it has freed, a clone that could not be made is freed as      *)
(* NULL, and a directory without entries frees a block it never took       *)
(* (fat16_free_directory).                                                 *)
FreesOnlyTakenBlocks == bad_free => no_block

(* What an fopen of parts leaves taken beyond its descriptor: the path,    *)
(* which nothing frees; every match of a name but the last; a file that    *)
(* stood for a directory; and, without a free slot, all it had built.      *)
BlocksOf(e) == IF e.dir THEN 3 ELSE 2

LeftBehind(parts) ==
  LET dir[l \in 1..Len(parts)] ==
        IF l = 1 THEN vol.root
        ELSE LET hits == F!fat16_find_item_in_directory(dir[l - 1], parts[l - 1])
             IN IF \E e \in hits : e.dir THEN vol.dirs[(CHOOSE e \in hits : TRUE).first] ELSE <<>>
      hits(l) == F!Hits(dir[l], parts[l])
      lost(l) == IF hits(l) = {} THEN 0
                 ELSE LET e == dir[l][Max(hits(l))]
                      IN MapThenSumSet(LAMBDA j : BlocksOf(dir[l][j]), hits(l) \ {Max(hits(l))})
                         + (IF l < Len(parts) /\ ~e.dir THEN BlocksOf(e)
                            ELSE IF l = Len(parts) /\ FreeFd = {} THEN 1 + BlocksOf(e) ELSE 0)
  IN 1 + 2 * Len(parts) + MapThenSumSet(lost, 1..Len(parts))

(* Until a kzalloc returns no block, a finished fopen has left exactly     *)
(* that much taken that no descriptor owns; one that was rejected, its     *)
(* path alone (nothing frees what pathparser_parse makes).                 *)
OpenLeavesOnlyPath ==
  [][call.pc \notin Mounting \cup {"idle"} /\ call'.pc = "idle" /\ ~no_block' =>
       /\ call.kept \subseteq Unowned'
       /\ Cardinality(Unowned' \ call.kept) =
            IF last' = F!NoCall THEN 1 + 2 * Len(call.parts) ELSE LeftBehind(call.parts)]_vars

(* Until a kzalloc returns no block, an fclose of an open descriptor frees *)
(* exactly the blocks it owns and its slot (fat16_close,                   *)
(* file_free_descriptor).  The last descriptor alone is refused, because   *)
(* of file_get_descriptor's bound, and stays open.                         *)
CloseFreesOwned ==
  [][call = Idle /\ call' = Idle /\ ~no_block =>
       \A fd \in {last'.fd} \cap {g \in 1..MaxFd : file_descriptors[g] # NULL} :
         IF fd < MaxFd
         THEN ret' = 0 /\ avail' = avail \cup Owned(fd) /\ file_descriptors'[fd] = NULL
         ELSE ret' = F!EIO /\ UNCHANGED <<avail, file_descriptors>>]_vars

(* On a FAT16 disk and until a kzalloc returns no block, the calls with    *)
(* all their allocations do what the single steps of Files do: the same    *)
(* item is opened at the same number, or the same error returned.          *)
ImplementsFiles ==
  [][filesystem /\ ~no_block' =>
       \/ UNCHANGED F!vars
       \/ \E o \in Opens : F!fopen(o.path, o.mode) \/ F!fopen_rejected(o.path, o.mode)
       \/ \E fd \in 0..MaxFd : F!fclose(fd)]_vars

(* Every fopen returns, with memory or without (fopen, fat16_open). *)
EveryOpenReturns == call.pc \notin Mounting \cup {"idle", "wild"} ~> call.pc = "idle"
=============================================================================
