------------------------------- MODULE Files --------------------------------
(***************************************************************************)
(* Files: the descriptor table of the VFS (fs/file.c), path lookup and     *)
(* reading in FAT16 (fs/fat/fat16.c), and the sector stream below it       *)
(* (disk/streamer.c).  fopen, fseek and fclose are one action each; fread  *)
(* runs cluster by cluster and sector by sector, on the one stream all     *)
(* descriptors share.                                                      *)
(*                                                                         *)
(* Data on the disk is its position: position 0 is the first byte of       *)
(* cluster 2.  Names are model values; a directory is the sequence of its  *)
(* raw entries up to the end mark, and fits in a cluster.                  *)
(***************************************************************************)
EXTENDS Integers, Sequences, FiniteSetsExt

CONSTANTS MaxFd,        \* PEACHOS_MAX_FILE_DESCRIPTORS
          SectorSize, ClusterSectors,
          EntrySize,    \* sizeof(struct fat_directory_item)
          RootEnd,      \* root_directory.ending_sector_pos
          Volumes,      \* disks: [fat, root, dirs]
          Opens,        \* arguments of fopen: [path : [drive, parts], mode]
          Reads,        \* arguments of fread: [size, nmemb]
          Offsets,      \* arguments of fseek
          MaxPos        \* bound: no SEEK_CUR or fread beyond this position

EOC == -1                       \* the marks compared with: 0xFFF8, 0xFFFF, a bad sector
Entries == [name : STRING, dir : BOOLEAN, first : Nat, size : Nat]

(* A FAT of cluster numbers and marks, and directories of entries; an      *)
(* entry for a directory leads to one.                                     *)
IsVolume(v) ==
  /\ DOMAIN v.fat \subseteq Nat /\ \A c \in DOMAIN v.fat : v.fat[c] \in Nat \cup {EOC}
  /\ v.root \in Seq(Entries) /\ \A c \in DOMAIN v.dirs : v.dirs[c] \in Seq(Entries)
  /\ \A d \in {v.root} \cup {v.dirs[c] : c \in DOMAIN v.dirs} :
       \A i \in 1..Len(d) : d[i].dir => d[i].first \in DOMAIN v.dirs

ASSUME FilesAssumption ==
  /\ MaxFd \in Nat \ {0} /\ MaxPos \in Nat
  /\ SectorSize \in Nat \ {0} /\ ClusterSectors \in Nat \ {0}
  /\ EntrySize \in Nat \ {0} /\ RootEnd \in Nat /\ RootEnd >= 2 * ClusterSectors
  /\ \A v \in Volumes : IsVolume(v)
  /\ \A o \in Opens : o.path.parts \in Seq(STRING)
  /\ Reads \subseteq [size : Nat, nmemb : Nat] /\ Offsets \subseteq Nat

VARIABLES vol,              \* the disk; never written
          file_descriptors, \* fd -> NoFile or [item, pos]
          stream,           \* pos of fat_private->cluster_read_stream
          pc, rd,           \* the fread being run
          out,              \* disk positions of the bytes the last call delivered
          ret,              \* result of the last call
          last              \* history: the last call, with its arguments

vars == <<vol, file_descriptors, stream, pc, rd, out, ret, last>>

ClusterSize == SectorSize * ClusterSectors

NoFile == [pos |-> -1]
NoRead == [fd |-> 0]
NoCall == [call |-> "none", fd |-> 0]
DELETED == "deleted"            \* filename[0] == 0xE5
EIO == -1
EINVARG == -2
EUNIMP == -3

-----------------------------------------------------------------------------
(* Clusters and sectors. *)

(* Mutant: the last cluster is its own successor. *)
bug_fat16_get_fat_entry(cluster) ==
  IF cluster \in DOMAIN vol.fat /\ vol.fat[cluster] # EOC THEN vol.fat[cluster] ELSE cluster

(* Behind the table the disk of the model is blank. *)
fat16_get_fat_entry(cluster) == IF cluster \in DOMAIN vol.fat THEN vol.fat[cluster] ELSE 0

(* Mutant: one link too many is followed. *)
bug_fat16_get_cluster_for_offset(first, offset) ==
  LET cluster[i \in 0..((offset \div ClusterSize) + 1)] ==
        IF i = 0 THEN first
        ELSE IF cluster[i - 1] = EIO THEN EIO
        ELSE IF fat16_get_fat_entry(cluster[i - 1]) \in {EOC, 0} THEN EIO
        ELSE fat16_get_fat_entry(cluster[i - 1])
  IN cluster[(offset \div ClusterSize) + 1]

(* The links are followed from the first cluster on; a known end mark and  *)
(* a free entry are EIO, any other entry is the next cluster.              *)
fat16_get_cluster_for_offset(first, offset) ==
  LET cluster[i \in 0..(offset \div ClusterSize)] ==
        IF i = 0 THEN first
        ELSE IF cluster[i - 1] = EIO THEN EIO
        ELSE IF fat16_get_fat_entry(cluster[i - 1]) \in {EOC, 0} THEN EIO
        ELSE fat16_get_fat_entry(cluster[i - 1])
  IN cluster[offset \div ClusterSize]

fat16_cluster_to_sector(cluster) == RootEnd + (cluster - 2) * ClusterSectors

(* An open directory is read as if its struct fat_directory were an entry: *)
(* the field lies behind the bytes that kzalloc cleared, so it is anything. *)
fat16_get_first_cluster(item) == IF item.dir THEN DOMAIN vol.fat ELSE {item.first}

-----------------------------------------------------------------------------
(* Directories and paths. *)

fat16_get_total_items_for_directory(dir) == Cardinality({i \in 1..Len(dir) : dir[i].name # DELETED})

(* The entries in use are counted, but the first that many raw entries are *)
(* searched.                                                               *)
Hits(dir, name) == {i \in 1..fat16_get_total_items_for_directory(dir) : dir[i].name = name}

(* Mutant: the comparison ends at the first entry with another name. *)
bug_fat16_find_item_in_directory(dir, name) ==
  {dir[i] : i \in {j \in Hits(dir, name) : j = 1}}

(* The last hit wins; the empty set is NULL. *)
fat16_find_item_in_directory(dir, name) ==
  {dir[i] : i \in {j \in Hits(dir, name) : \A k \in Hits(dir, name) : k <= j}}

(* Every hit that is a directory is loaded through the cluster stream,     *)
(* which ends behind the last of them.                                     *)
fat16_load_fat_directory(dir, name, s) ==
  LET subs == {i \in Hits(dir, name) : dir[i].dir}
      e == dir[Max(subs)]
  IN IF subs = {} THEN s
     ELSE fat16_cluster_to_sector(e.first) * SectorSize
            + fat16_get_total_items_for_directory(vol.dirs[e.first]) * EntrySize

(* The parts up to the first empty one. *)
pathparser_parse(parts) ==
  SubSeq(parts, 1, Min({Len(parts)} \cup {i - 1 : i \in {j \in 1..Len(parts) : parts[j] = ""}}))

(* Part by part: the item reached, and the stream.  A file is no           *)
(* directory, and below nothing there is nothing (the code reads the type  *)
(* of a NULL item, an interrupt vector, which is not DIRECTORY).           *)
fat16_get_directory_entry(parts) ==
  LET walk[i \in 0..Len(parts)] ==
        IF i = 0 THEN [dir |-> {vol.root}, item |-> {}, stream |-> stream]
        ELSE LET found == UNION {fat16_find_item_in_directory(d, parts[i]) : d \in walk[i - 1].dir}
             IN [dir |-> {vol.dirs[e.first] : e \in {x \in found : x.dir}},
                 item |-> found,
                 stream |-> IF walk[i - 1].dir = {} THEN walk[i - 1].stream
                            ELSE fat16_load_fat_directory(CHOOSE d \in walk[i - 1].dir : TRUE,
                                                          parts[i], walk[i - 1].stream)]
  IN walk[Len(parts)]

-----------------------------------------------------------------------------
Init == /\ vol \in Volumes
        /\ file_descriptors = [fd \in 1..MaxFd |-> NoFile]
        /\ stream = 0
        /\ pc = "idle" /\ rd = NoRead
        /\ out = <<>> /\ ret = 0 /\ last = NoCall

file_get_descriptor(fd) == IF fd <= 0 \/ fd >= MaxFd THEN NoFile ELSE file_descriptors[fd]

(* The lowest free slot; the empty set is ENOMEM. *)
file_new_descriptor == {fd \in 1..MaxFd : /\ file_descriptors[fd] = NoFile
                                          /\ \A g \in 1..(fd - 1) : file_descriptors[g] # NoFile}

(* fopen without a path, on another drive, or not for reading. *)
Openable(path, mode) == pathparser_parse(path.parts) # <<>> /\ path.drive = 0 /\ mode = "r"

fopen_rejected(path, mode) ==
  /\ pc = "idle" /\ ~Openable(path, mode)
  /\ ret' = 0
  /\ last' = NoCall
  /\ out' = <<>>
  /\ UNCHANGED <<vol, file_descriptors, stream, pc, rd>>

(* The path is walked, then a descriptor is sought. *)
fopen(path, mode) ==
  LET walk == fat16_get_directory_entry(pathparser_parse(path.parts))
      ok == walk.item # {} /\ file_new_descriptor # {}
      fd == CHOOSE f \in file_new_descriptor : TRUE
      item == CHOOSE e \in walk.item : TRUE
  IN
  /\ pc = "idle" /\ Openable(path, mode)
  /\ stream' = walk.stream
  /\ ret' = IF ok THEN fd ELSE 0
  /\ file_descriptors' = IF ok THEN [file_descriptors EXCEPT ![fd] = [item |-> item, pos |-> 0]]
                         ELSE file_descriptors
  /\ last' = [call |-> "fopen", fd |-> ret', path |-> path]
  /\ out' = <<>>
  /\ UNCHANGED <<vol, pc, rd>>

(* fseek: fat16_seek tests the kind and the offset before whence. *)
SeekResult(d, offset, whence) ==
  CASE d = NoFile -> EIO
    [] d # NoFile /\ d.item.dir -> EINVARG
    [] d # NoFile /\ ~d.item.dir /\ offset >= d.item.size -> EIO
    [] OTHER -> IF whence = "SEEK_END" THEN EUNIMP ELSE 0

fseek(fd, offset, whence) ==
  LET d == file_get_descriptor(fd)
      ok == SeekResult(d, offset, whence) = 0
      to == IF whence = "SEEK_CUR" THEN d.pos + offset ELSE offset
  IN
  /\ pc = "idle"
  /\ ok => to <= MaxPos
  /\ ret' = SeekResult(d, offset, whence)
  /\ file_descriptors' = IF ok THEN [file_descriptors EXCEPT ![fd].pos = to] ELSE file_descriptors
  /\ last' = [NoCall EXCEPT !.fd = fd]
  /\ out' = <<>>
  /\ UNCHANGED <<vol, stream, pc, rd>>

(* fstat changes nothing but its result. *)
fstat(fd) ==
  LET d == file_get_descriptor(fd) IN
  /\ pc = "idle"
  /\ ret' = IF d = NoFile THEN EIO ELSE IF d.item.dir THEN EINVARG ELSE 0
  /\ last' = NoCall
  /\ out' = <<>>
  /\ UNCHANGED <<vol, file_descriptors, stream, pc, rd>>

fclose(fd) ==
  LET d == file_get_descriptor(fd) IN
  /\ pc = "idle"
  /\ ret' = IF d = NoFile THEN EIO ELSE 0
  /\ file_descriptors' = IF d = NoFile THEN file_descriptors
                         ELSE [file_descriptors EXCEPT ![fd] = NoFile]
  /\ last' = [NoCall EXCEPT !.fd = fd]
  /\ out' = <<>>
  /\ UNCHANGED <<vol, stream, pc, rd>>

-----------------------------------------------------------------------------
(* fread(ptr, size, nmemb, fd) *)

fread_fails(size, nmemb, fd) ==
  /\ pc = "idle"
  /\ size = 0 \/ nmemb = 0 \/ file_get_descriptor(fd) = NoFile
  /\ ret' = EINVARG
  /\ last' = NoCall
  /\ out' = <<>>
  /\ UNCHANGED <<vol, file_descriptors, stream, pc, rd>>

(* fat16_read enters its loop.  rd: the first cluster, the elements left,  *)
(* the offset in the file and the bytes left of the element, and the bytes *)
(* left of the stream's read.                                              *)
fread(size, nmemb, fd) ==
  LET d == file_get_descriptor(fd) IN
  /\ pc = "idle"
  /\ size > 0 /\ nmemb > 0 /\ d # NoFile
  /\ d.pos + size * nmemb <= MaxPos
  /\ pc' = "cluster"
  /\ \E first \in fat16_get_first_cluster(d.item) :
       rd' = [fd |-> fd, first |-> first, size |-> size, nmemb |-> nmemb, left |-> nmemb,
              offset |-> d.pos, total |-> size, chunk |-> 0]
  /\ out' = <<>>
  /\ last' = [call |-> "fread", fd |-> fd, item |-> d.item, pos |-> d.pos,
              size |-> size, nmemb |-> nmemb]
  /\ UNCHANGED <<vol, file_descriptors, stream, ret>>

ClusterOfRead == fat16_get_cluster_for_offset(rd.first, rd.offset)

(* Mutant: the stream is left where the last read ended. *)
bug_read_cluster ==
  /\ pc = "cluster" /\ ClusterOfRead # EIO
  /\ stream' = stream
  /\ rd' = [rd EXCEPT !.chunk = Min({rd.total, ClusterSize})]
  /\ pc' = "sector"
  /\ UNCHANGED <<vol, file_descriptors, out, ret, last>>

(* One call of fat16_read_internal_from_stream: find the cluster, seek the *)
(* stream, read at most a cluster.                                         *)
read_cluster ==
  /\ pc = "cluster" /\ ClusterOfRead # EIO
  /\ stream' = fat16_cluster_to_sector(ClusterOfRead) * SectorSize + (rd.offset % ClusterSize)
  /\ rd' = [rd EXCEPT !.chunk = Min({rd.total, ClusterSize})]
  /\ pc' = "sector"
  /\ UNCHANGED <<vol, file_descriptors, out, ret, last>>

(* The error leaves the descriptor's position alone. *)
read_error ==
  /\ pc = "cluster" /\ ClusterOfRead = EIO
  /\ ret' = EIO
  /\ pc' = "idle" /\ rd' = NoRead
  /\ UNCHANGED <<vol, file_descriptors, stream, out, last>>

(* Mutant: the rest of the sector is always copied. *)
BugInSector == SectorSize - (stream % SectorSize)

(* One call of diskstreamer_read: the rest of the sector, or less. *)
InSector == Min({rd.chunk, SectorSize - (stream % SectorSize)})

(* Mutant: the comparison also holds when nothing is left. *)
BugOverflow == (stream % SectorSize) + rd.chunk >= 0

Overflow == (stream % SectorSize) + rd.chunk >= SectorSize

diskstreamer_read ==
  /\ pc = "sector"
  /\ out' = out \o [i \in 1..InSector |-> stream + i - 1]
  /\ stream' = stream + InSector
  /\ rd' = [rd EXCEPT !.chunk = rd.chunk - InSector,
                      !.offset = rd.offset + InSector,
                      !.total = rd.total - InSector]
  /\ pc' = IF Overflow THEN "sector" ELSE "next"
  /\ UNCHANGED <<vol, file_descriptors, ret, last>>

(* The chunk is read: the next cluster, the next element, or the end. *)
next_cluster ==
  /\ pc = "next" /\ rd.total > 0
  /\ pc' = "cluster"
  /\ UNCHANGED <<vol, file_descriptors, stream, rd, out, ret, last>>

next_element ==
  /\ pc = "next" /\ rd.total = 0 /\ rd.left > 1
  /\ pc' = "cluster"
  /\ rd' = [rd EXCEPT !.left = rd.left - 1, !.total = rd.size]
  /\ UNCHANGED <<vol, file_descriptors, stream, out, ret, last>>

read_end ==
  /\ pc = "next" /\ rd.total = 0 /\ rd.left = 1
  /\ pc' = "idle"
  /\ file_descriptors' = [file_descriptors EXCEPT ![rd.fd].pos = rd.offset]
  /\ ret' = rd.nmemb
  /\ rd' = NoRead
  /\ UNCHANGED <<vol, stream, out, last>>

Read == \/ read_cluster \/ read_error \/ diskstreamer_read
        \/ next_cluster \/ next_element \/ read_end

Next == \/ \E o \in Opens : fopen(o.path, o.mode) \/ fopen_rejected(o.path, o.mode)
        \/ \E fd \in 0..MaxFd, offset \in Offsets, whence \in {"SEEK_SET", "SEEK_CUR", "SEEK_END"} :
             fseek(fd, offset, whence)
        \/ \E fd \in 0..MaxFd : fstat(fd) \/ fclose(fd)
        \/ \E r \in Reads, fd \in 0..MaxFd :
             fread(r.size, r.nmemb, fd) \/ fread_fails(r.size, r.nmemb, fd)
        \/ Read

(* A read that has begun goes on: the disk always becomes ready. *)
Spec == Init /\ [][Next]_vars /\ WF_vars(Read)

-----------------------------------------------------------------------------
(* The file as FAT16 lays it out, for reference: the clusters of its chain, *)
(* from 0 on, and byte k, which is byte k % ClusterSize of the              *)
(* (k \div ClusterSize)-th of them.                                         *)
ClusterAt(item, n) ==
  LET chain[i \in 0..n] ==
        IF i = 0 THEN item.first
        ELSE IF chain[i - 1] \in DOMAIN vol.fat THEN vol.fat[chain[i - 1]] ELSE 0
  IN chain[n]

ByteAt(item, k) ==
  (RootEnd * SectorSize) + (ClusterAt(item, k \div ClusterSize) - 2) * ClusterSize + (k % ClusterSize)

(* The chain has the clusters that the size asks for. *)
Linked(item) ==
  \A n \in 1..((item.size - 1) \div ClusterSize) : ClusterAt(item, n) \notin {EOC, 0}

(* Each is the one behind the one before. *)
Contiguous(item) ==
  \A c \in item.first..(item.first + ((item.size - 1) \div ClusterSize) - 1) :
    c \in DOMAIN vol.fat /\ vol.fat[c] = c + 1

ReadInside == /\ pc = "idle" /\ last.call = "fread"
              /\ ~last.item.dir /\ Linked(last.item)
              /\ last.pos + last.size * last.nmemb <= last.item.size

Delivered == /\ ret = last.nmemb
             /\ out = [i \in 1..(last.size * last.nmemb) |-> ByteAt(last.item, last.pos + i - 1)]
             /\ file_descriptors[last.fd].pos = last.pos + last.size * last.nmemb

(* The shape of the state; a read never counts below zero. *)
TypeOK == /\ \A fd \in 1..MaxFd : file_descriptors[fd].pos \in (-1)..MaxPos
          /\ pc \in {"idle", "cluster", "sector", "next"}
          /\ pc # "idle" => rd.chunk \in Nat /\ rd.total \in Nat /\ rd.left \in 1..rd.nmemb
          /\ ret \in {EIO, EINVARG, EUNIMP} \cup 0..MaxFd \cup {r.nmemb : r \in Reads}

(* The bytes a descriptor stands for: its file's, when they follow each     *)
(* other on the disk; of other files and of directories nothing is promised. *)
BytesOf(item) ==
  IF item.dir \/ ~Contiguous(item) THEN <<>>
  ELSE [k \in 1..item.size |-> RootEnd * SectorSize + (item.first - 2) * ClusterSize + (k - 1)]

Store == INSTANCE FileStore WITH
  Fd <- 1..MaxFd,
  open <- [fd \in 1..MaxFd |-> IF file_descriptors[fd] = NoFile THEN NoFile
                               ELSE [bytes |-> BytesOf(file_descriptors[fd].item), pos |-> file_descriptors[fd].pos]],
  request <- IF last.call = "fread" THEN last.size * last.nmemb ELSE 0,
  delivered <- IF pc = "idle" THEN out ELSE <<>>

(* The calls implement FileStore for files that lie contiguously: a read    *)
(* inside one is a single step that delivers its bytes from the             *)
(* descriptor's position on and moves the position behind them, and no call *)
(* disturbs another descriptor, although all share one stream and a read    *)
(* takes many pieces (fat16_read, fat16_read_internal_from_stream,          *)
(* diskstreamer_read).                                                      *)
ImplementsFileStore == Store!Spec

Aligned == \A i \in 0..(last.nmemb - 1) :
             LET p == (last.pos + i * last.size) % ClusterSize
             IN p = 0 \/ p + last.size <= ClusterSize

(* However the file is laid out, the same holds of a read each of whose     *)
(* elements starts at a cluster boundary or ends in the cluster where it    *)
(* starts: no piece read from the stream then crosses a cluster's end.      *)
ReadsAlignedElements == ReadInside /\ Aligned => Delivered

(* The comment on fat16_get_cluster_for_offset: it "Gets the correct        *)
(* cluster to use based on the starting cluster and the offset", so every   *)
(* byte an fread inside a file delivers is that file's.                     *)
ReadsFile == ReadInside => Delivered

(* The entries at a path, for reference. *)
EntriesAt(parts) ==
  LET found[i \in 1..Len(parts)] ==
        LET dirs == IF i = 1 THEN {vol.root} ELSE {vol.dirs[e.first] : e \in {x \in found[i - 1] : x.dir}}
        IN {e \in UNION {{d[j] : j \in 1..Len(d)} : d \in dirs} : e.name = parts[i]}
  IN found[Len(parts)]

(* A directory without deleted entries in which no name occurs twice. *)
Tidy(dir) == \A i \in 1..Len(dir) :
               dir[i].name # DELETED /\ \A j \in 1..(i - 1) : dir[j].name # dir[i].name

(* A successful fopen has opened an entry at the path given, at position 0, *)
(* and on a disk with tidy directories an openable path fails only when     *)
(* nothing is there or the table is full (fat16_get_directory_entry; with   *)
(* deleted entries fewer raw entries are searched than the directory has,   *)
(* and of two entries with one name only the last is tried).                *)
OpensNamedFile ==
  (last.call = "fopen" /\ pc = "idle") =>
    LET parts == pathparser_parse(last.path.parts) IN
    IF ret # 0
    THEN /\ file_descriptors[ret].item \in EntriesAt(parts)
         /\ file_descriptors[ret].pos = 0
    ELSE Tidy(vol.root) /\ (\A c \in DOMAIN vol.dirs : Tidy(vol.dirs[c])) =>
           \/ EntriesAt(parts) = {}
           \/ \A fd \in 1..MaxFd : file_descriptors[fd] # NoFile

(* Past its chain nothing of a file is read: an fread whose last element    *)
(* starts behind a mark the code knows, or behind a free cluster, fails and *)
(* leaves the position where it was (fat16_get_cluster_for_offset,          *)
(* fat16_read).                                                             *)
ReadsPastChainFail ==
  /\ pc = "idle" /\ last.call = "fread" /\ ~last.item.dir
  /\ \E n \in 1..((last.pos + last.size * (last.nmemb - 1)) \div ClusterSize) :
       ClusterAt(last.item, n) \in {EOC, 0}
  => ret = EIO /\ file_descriptors[last.fd].pos = last.pos

(* Every fread returns: the links followed and the sectors read are         *)
(* finitely many.                                                           *)
EveryReadReturns == pc # "idle" ~> pc = "idle"
=============================================================================
