---------------------------- MODULE FilesProofs -----------------------------
(***************************************************************************)
(* Opening, seeking, reading and closing, for any disk, any number of      *)
(* descriptors, any sector and cluster size and any arguments: fopen opens *)
(* what the path names, a read delivers the file's bytes where its pieces  *)
(* do not cross a cluster's end or the file is contiguous, and Files       *)
(* implements FileStore.                                                   *)
(***************************************************************************)
EXTENDS Files, NatLemmas, FiniteSetTheorems, SequenceTheorems

(* The inductive invariant. *)

Descriptors == {NoFile} \cup [item : Entries, pos : 0..MaxPos]

StateOK ==
  /\ vol \in Volumes
  /\ file_descriptors \in [1..MaxFd -> Descriptors]
  /\ pc \in {"idle", "cluster", "sector", "next"}
  /\ ret \in {EIO, EINVARG, EUNIMP} \cup 0..MaxFd \cup {r.nmemb : r \in Reads}

(* The read being run, what it was asked for, and where it stands: the     *)
(* bytes behind its offset, of this element and of those that follow it,   *)
(* make up what is missing of the request.                                 *)
Reading ==
  [fd : 1..(MaxFd - 1), first : Nat, size : Nat \ {0}, nmemb : Nat \ {0},
   left : Nat, offset : Nat, total : Nat, chunk : Nat]

Requested ==
  /\ rd \in Reading
  /\ \E r \in Reads : r.nmemb = rd.nmemb
  /\ last = [call |-> "fread", fd |-> rd.fd, item |-> last.item, pos |-> last.pos,
             size |-> rd.size, nmemb |-> rd.nmemb]
  /\ last.item \in Entries /\ last.pos \in 0..MaxPos
  /\ last.pos + rd.size * rd.nmemb <= MaxPos
  /\ file_descriptors[rd.fd] = [item |-> last.item, pos |-> last.pos]
  /\ ~last.item.dir => rd.first = last.item.first

Progress ==
  /\ rd.left \in 1..rd.nmemb /\ rd.total \in 0..rd.size /\ rd.chunk \in 0..rd.total
  /\ rd.offset + rd.total + rd.size * (rd.left - 1) = last.pos + rd.size * rd.nmemb
  /\ out \in Seq(Int) /\ Len(out) = rd.offset - last.pos
  /\ pc # "sector" => rd.chunk = 0
  /\ pc = "cluster" => rd.total > 0
  /\ pc = "sector" => stream \in Int

(* The last element's first cluster was found. *)
LastStarted ==
  (rd.left = 1 /\ (pc = "cluster" => rd.total < rd.size)) =>
    fat16_get_cluster_for_offset(rd.first, last.pos + rd.size * (rd.nmemb - 1)) # EIO

(* Behind the piece being read the element goes on as it began: at a       *)
(* cluster's start, or within a cluster to its end.                        *)
StaysAligned ==
  Aligned /\ rd.total > rd.chunk =>
    LET p == (rd.offset + rd.chunk) % ClusterSize
    IN p = 0 \/ p + (rd.total - rd.chunk) <= ClusterSize

(* What was read, and what the stream holds of the piece being read, is    *)
(* the file's.                                                             *)
Sound == /\ ~last.item.dir /\ Linked(last.item)
         /\ last.pos + rd.size * rd.nmemb <= last.item.size
         /\ Aligned \/ Contiguous(last.item)

BytesInv ==
  Sound =>
    /\ \A i \in 1..Len(out) : out[i] = ByteAt(last.item, last.pos + i - 1)
    /\ pc = "sector" => \A j \in 0..(rd.chunk - 1) : stream + j = ByteAt(last.item, rd.offset + j)

ReadInv == Requested /\ Progress /\ LastStarted /\ StaysAligned /\ BytesInv

FilesInv == StateOK /\ (pc # "idle" => ReadInv)

-----------------------------------------------------------------------------
(* Recursive functions: a function that is applied over and over.          *)

Iterates(g, a, n, f) == f = [i \in 0..n |-> IF i = 0 THEN a ELSE g[f[i - 1]]]

LEMMA IterationExists ==
  ASSUME NEW D, NEW g \in [D -> D], NEW a \in D, NEW n \in Nat
  PROVE  \E f \in [0..n -> D] : Iterates(g, a, n, f)
<1> DEFINE S == {m \in Nat : \E f \in [0..m -> D] : Iterates(g, a, m, f)}
<1>1. 0 \in S
  <2> DEFINE f == [i \in 0..0 |-> a]
  <2>1. f \in [0..0 -> D] /\ Iterates(g, a, 0, f)
    BY DEF Iterates
  <2> QED BY <2>1
<1>2. ASSUME NEW m \in 0..(n - 1), m \in S PROVE m + 1 \in S
  <2>1. PICK f \in [0..m -> D] : Iterates(g, a, m, f)
    BY <1>2
  <2> DEFINE h == [i \in 0..(m + 1) |-> IF i <= m THEN f[i] ELSE g[f[m]]]
  <2>2. h \in [0..(m + 1) -> D]
    BY <2>1
  <2>3. ASSUME NEW i \in 0..(m + 1) PROVE h[i] = IF i = 0 THEN a ELSE g[h[i - 1]]
    <3>1. CASE i <= m
      BY <2>1, <3>1 DEF Iterates
    <3>2. CASE i = m + 1
      BY <2>1, <3>2
    <3> QED BY <3>1, <3>2
  <2>4. Iterates(g, a, m + 1, h)
    BY <2>3 DEF Iterates
  <2> QED BY <2>2, <2>4
<1>3. 0..n \subseteq S
  <2> HIDE DEF S
  <2> QED BY <1>1, <1>2, InductionUpTo
<1> QED BY <1>3

LEMMA IterationUnique ==
  ASSUME NEW g, NEW a, NEW n \in Nat, NEW m \in Nat, n <= m, NEW f, NEW h,
         Iterates(g, a, n, f), Iterates(g, a, m, h)
  PROVE  \A i \in 0..n : f[i] = h[i]
<1> DEFINE S == {i \in Nat : i <= n => f[i] = h[i]}
<1>1. 0 \in S
  BY DEF Iterates
<1>2. ASSUME NEW i \in 0..(n - 1), i \in S PROVE i + 1 \in S
  BY <1>2 DEF Iterates
<1>3. 0..n \subseteq S
  <2> HIDE DEF S
  <2> QED BY <1>1, <1>2, InductionUpTo
<1> QED BY <1>3

-----------------------------------------------------------------------------
(* The chain of clusters. *)

(* The successor of a cluster, for reference and as the code follows it. *)
Link == [c \in Int |-> IF c \in DOMAIN vol.fat THEN vol.fat[c] ELSE 0]
Follow == [c \in Int |-> IF c = EIO \/ Link[c] \in {EOC, 0} THEN EIO ELSE Link[c]]

LEMMA LinkType ==
  ASSUME vol \in Volumes
  PROVE  Link \in [Int -> Int] /\ Follow \in [Int -> Int]
<1>1. IsVolume(vol)
  BY FilesAssumption
<1>2. Link \in [Int -> Int]
  BY <1>1 DEF IsVolume, Link, EOC
<1> QED BY <1>2 DEF Follow, EIO

(* The clusters of a chain follow each other. *)
LEMMA ChainFollows ==
  ASSUME vol \in Volumes, NEW item, item.first \in Nat, NEW n \in Nat
  PROVE  /\ ClusterAt(item, n) \in Int
         /\ ClusterAt(item, 0) = item.first
         /\ ClusterAt(item, n + 1) = Link[ClusterAt(item, n)]
<1> DEFINE Eq(m, f) == f = [i \in 0..m |-> IF i = 0 THEN item.first
                              ELSE IF f[i - 1] \in DOMAIN vol.fat THEN vol.fat[f[i - 1]] ELSE 0]
           C(m) == CHOOSE f : Eq(m, f)
<1>1. ASSUME NEW m \in Nat PROVE ClusterAt(item, m) = C(m)[m]
  BY DEF ClusterAt
<1>2. ASSUME NEW m \in Nat PROVE Iterates(Link, item.first, m, C(m)) /\ C(m) \in [0..m -> Int]
  <2>1. item.first \in Int
    OBVIOUS
  <2>2. PICK f \in [0..m -> Int] : Iterates(Link, item.first, m, f)
    BY <2>1, IterationExists, LinkType
  <2>3. Eq(m, f)
    <3>1. \A i \in 0..m : i # 0 => f[i - 1] \in Int
      BY <2>2
    <3> QED BY <2>2, <3>1 DEF Iterates, Link
  <2>5. Eq(m, C(m))
    <3> HIDE DEF Eq
    <3> QED BY <2>3
  <2> DEFINE S == {i \in Nat : i <= m => C(m)[i] = f[i]}
  <2>6. 0 \in S
    <3> HIDE DEF C
    <3>1. C(m)[0] = item.first
      BY <2>5
    <3>2. f[0] = item.first
      BY <2>2 DEF Iterates
    <3> QED BY <3>1, <3>2
  <2>7. ASSUME NEW i \in 0..(m - 1), i \in S PROVE i + 1 \in S
    <3>1. C(m)[i] = f[i] /\ f[i] \in Int /\ i + 1 \in 0..m /\ i + 1 # 0 /\ (i + 1) - 1 = i
      BY <2>2, <2>7
    <3> HIDE DEF C
    <3>2. C(m)[i + 1] = IF C(m)[i] \in DOMAIN vol.fat THEN vol.fat[C(m)[i]] ELSE 0
      BY <2>5, <3>1
    <3>3. f[i + 1] = Link[f[i]]
      BY <2>2, <3>1 DEF Iterates
    <3> QED BY <3>1, <3>2, <3>3 DEF Link
  <2>8. 0..m \subseteq S
    <3> HIDE DEF S
    <3> QED BY <2>6, <2>7, InductionUpTo
  <2>9. C(m) = f
    <3> HIDE DEF C
    <3>1. C(m) = [i \in 0..m |-> C(m)[i]]
      BY <2>5
    <3> QED BY <2>2, <2>8, <3>1
  <2> QED BY <2>2, <2>9
<1> HIDE DEF C
<1>3. C(0)[0] = item.first
  BY <1>2 DEF Iterates
<1>4. C(n + 1)[n] = C(n)[n]
  <2>1. Iterates(Link, item.first, n, C(n)) /\ Iterates(Link, item.first, n + 1, C(n + 1))
    BY <1>2
  <2> QED BY <2>1, IterationUnique
<1>5. C(n + 1)[n + 1] = Link[C(n + 1)[n]]
  <2>1. Iterates(Link, item.first, n + 1, C(n + 1))
    BY <1>2
  <2> QED BY <2>1 DEF Iterates
<1> QED BY <1>1, <1>2, <1>3, <1>4, <1>5

(* fat16_get_cluster_for_offset follows the chain until the first mark it  *)
(* knows.                                                                  *)
LEMMA OffsetFollowsChain ==
  ASSUME vol \in Volumes, NEW item, item.first \in Nat, NEW offset \in Nat, ClusterSize \in Nat \ {0}
  PROVE  fat16_get_cluster_for_offset(item.first, offset) =
           IF \E j \in 1..(offset \div ClusterSize) : ClusterAt(item, j) \in {EOC, 0} THEN EIO
           ELSE ClusterAt(item, offset \div ClusterSize)
<1>1. PICK n \in Nat : n = offset \div ClusterSize
  OBVIOUS
<1> DEFINE A(i) == ClusterAt(item, i)
           Ended(i) == \E j \in 1..i : A(j) \in {EOC, 0}
           Eq(f) == f = [i \in 0..n |->
                      IF i = 0 THEN item.first
                      ELSE IF f[i - 1] = EIO THEN EIO
                      ELSE IF fat16_get_fat_entry(f[i - 1]) \in {EOC, 0} THEN EIO
                      ELSE fat16_get_fat_entry(f[i - 1])]
           C == CHOOSE f : Eq(f)
           h == [i \in 0..n |-> IF Ended(i) THEN EIO ELSE A(i)]
<1>2. fat16_get_cluster_for_offset(item.first, offset) = C[n]
  BY <1>1 DEF fat16_get_cluster_for_offset
<1>3. /\ A(0) = item.first /\ item.first \in Nat
      /\ \A i \in Nat : A(i) \in Int /\ A(i + 1) = fat16_get_fat_entry(A(i))
  <2>1. \A i \in Nat : A(i) \in Int /\ A(0) = item.first /\ A(i + 1) = Link[A(i)]
    BY ChainFollows
  <2> QED BY <2>1 DEF Link, fat16_get_fat_entry
<1> HIDE DEF A
<1>4. ASSUME NEW i \in Nat
      PROVE  Ended(i + 1) <=> Ended(i) \/ A(i + 1) \in {EOC, 0}
  OBVIOUS
<1>5. ~Ended(0)
  OBVIOUS
<1> HIDE DEF Ended
<1>6. ASSUME NEW i \in Nat PROVE A(i) # EIO \/ Ended(i)
  <2>1. CASE i = 0
    BY <1>3, <2>1 DEF EIO
  <2>2. CASE i # 0
    <3>1. i - 1 \in Nat /\ (i - 1) + 1 = i
      BY <2>2
    <3> QED BY <1>4, <3>1 DEF EIO, EOC
  <2> QED BY <2>1, <2>2
<1>7. Eq(h)
  <2>1. ASSUME NEW i \in 0..n
        PROVE  h[i] = IF i = 0 THEN item.first
                      ELSE IF h[i - 1] = EIO THEN EIO
                      ELSE IF fat16_get_fat_entry(h[i - 1]) \in {EOC, 0} THEN EIO
                      ELSE fat16_get_fat_entry(h[i - 1])
    <3>1. CASE i = 0
      BY <1>3, <1>5, <3>1
    <3>2. CASE i # 0
      <4>1. i - 1 \in 0..n /\ i - 1 \in Nat /\ (i - 1) + 1 = i
        BY <3>2
      <4>2. /\ h[i - 1] = IF Ended(i - 1) THEN EIO ELSE A(i - 1)
            /\ h[i] = IF Ended(i) THEN EIO ELSE A(i)
        BY <4>1
      <4>3. A(i) = fat16_get_fat_entry(A(i - 1))
        BY <1>3, <4>1
      <4>4. Ended(i) <=> Ended(i - 1) \/ A(i) \in {EOC, 0}
        BY <1>4, <4>1
      <4>5. A(i - 1) # EIO \/ Ended(i - 1)
        BY <1>6, <4>1
      <4> HIDE DEF h
      <4> QED BY <3>2, <4>2, <4>3, <4>4, <4>5
    <3> QED BY <3>1, <3>2
  <2> QED BY <2>1
<1>8. Eq(C)
  <2> HIDE DEF Eq, h
  <2> QED BY <1>7
<1>9. ASSUME NEW i \in 0..n PROVE C[i] = h[i]
  <2> DEFINE S == {k \in Nat : k <= n => C[k] = h[k]}
  <2> HIDE DEF C, h
  <2>1. 0 \in S
    BY <1>7, <1>8
  <2>2. ASSUME NEW k \in 0..(n - 1), k \in S PROVE k + 1 \in S
    <3>1. C[k] = h[k] /\ k + 1 \in 0..n /\ k + 1 # 0 /\ (k + 1) - 1 = k
      BY <2>2
    <3> QED BY <1>7, <1>8, <3>1
  <2>3. 0..n \subseteq S
    <3> HIDE DEF S
    <3> QED BY <2>1, <2>2, InductionUpTo
  <2> QED BY <2>3
<1>10. C[n] = IF Ended(n) THEN EIO ELSE A(n)
  BY <1>9
<1> QED BY <1>1, <1>2, <1>10 DEF A, Ended

-----------------------------------------------------------------------------
(* Positions on the disk and in the file. *)

LEMMA Sizes == /\ SectorSize \in Nat \ {0} /\ ClusterSectors \in Nat \ {0} /\ ClusterSize \in Nat \ {0}
               /\ RootEnd \in Nat
<1>1. \A a, b \in Nat \ {0} : a * b \in Nat \ {0}
  OBVIOUS
<1> QED BY <1>1, FilesAssumption DEF ClusterSize

LEMMA DivMod ==
  ASSUME NEW d \in Nat \ {0}, NEW a \in Nat
  PROVE  /\ a \div d \in Nat
         /\ a % d \in 0..(d - 1)
         /\ a = d * (a \div d) + (a % d)
  OBVIOUS

LEMMA DivUnique ==
  ASSUME NEW d \in Nat \ {0}, NEW q \in Nat, NEW r \in 0..(d - 1)
  PROVE  /\ (d * q + r) \div d = q
         /\ (d * q + r) % d = r
  OBVIOUS

LEMMA DivMonotone ==
  ASSUME NEW d \in Nat \ {0}, NEW a \in Nat, NEW b \in Nat, a <= b
  PROVE  a \div d <= b \div d
<1>1. PICK q \in Nat, r \in 0..(d - 1) : q = a \div d /\ a = d * q + r
  BY DivMod
<1>2. PICK p \in Nat, s \in 0..(d - 1) : p = b \div d /\ b = d * p + s
  BY DivMod
<1>3. SUFFICES ASSUME q > p PROVE FALSE
  BY <1>1, <1>2
<1>4. q >= p + 1 /\ d * (p + 1) = d * p + d
  BY <1>3
<1>5. d * q >= d * (p + 1)
  BY <1>4
<1> QED BY <1>1, <1>2, <1>4, <1>5

(* Up to the end of its cluster the bytes behind one are in its cluster. *)
LEMMA SameCluster ==
  ASSUME NEW d \in Nat \ {0}, NEW a \in Nat, NEW j \in Nat, (a % d) + j < d
  PROVE  (a + j) \div d = a \div d /\ (a + j) % d = (a % d) + j
<1>1. PICK q \in Nat, r \in 0..(d - 1) : q = a \div d /\ r = a % d /\ a = d * q + r
  BY DivMod
<1>2. PICK s \in 0..(d - 1) : s = r + j
  BY <1>1
<1>3. (d * q + s) \div d = q /\ (d * q + s) % d = s
  BY DivUnique
<1>4. a + j = d * q + s
  BY <1>1, <1>2
<1> QED BY <1>1, <1>2, <1>3, <1>4

(* One cluster further. *)
LEMMA NextCluster ==
  ASSUME NEW d \in Nat \ {0}, NEW a \in Nat, a % d = 0
  PROVE  (a + d) % d = 0
<1>1. PICK q \in Nat : q = a \div d /\ a = d * q
  BY DivMod
<1>2. d * (q + 1) = d * q + d
  OBVIOUS
<1>3. PICK p \in Nat, z \in 0..(d - 1) : p = q + 1 /\ z = 0
  OBVIOUS
<1>4. (d * p + z) % d = z
  BY DivUnique
<1>5. a + d = d * p + z
  BY <1>1, <1>2, <1>3
<1> QED BY <1>3, <1>4, <1>5

(* Where fat16_cluster_to_sector puts a cluster. *)
LEMMA SectorOfCluster ==
  ASSUME NEW c \in Int
  PROVE  /\ fat16_cluster_to_sector(c) * SectorSize = (RootEnd * SectorSize) + (c - 2) * ClusterSize
         /\ RootEnd * SectorSize \in Int /\ (c - 2) * ClusterSize \in Int
<1>1. \A r, x, k, s \in Int : /\ (r + x * k) * s = r * s + x * (s * k)
                              /\ r * s \in Int
  OBVIOUS
<1> QED BY <1>1, Sizes DEF fat16_cluster_to_sector, ClusterSize

(* The clusters of a contiguous file, and its bytes. *)
LEMMA ContiguousChain ==
  ASSUME vol \in Volumes, NEW item \in Entries, Contiguous(item), item.size > 0
  PROVE  /\ \A n \in 0..((item.size - 1) \div ClusterSize) : ClusterAt(item, n) = item.first + n
         /\ Linked(item)
<1>1. PICK N \in Nat : N = (item.size - 1) \div ClusterSize
  BY Sizes, DivMod DEF Entries
<1>2. item.first \in Nat
  BY DEF Entries
<1>3. \A c \in item.first..(item.first + N - 1) : c \in DOMAIN vol.fat /\ vol.fat[c] = c + 1
  BY <1>1 DEF Contiguous
<1> DEFINE S == {n \in Nat : n <= N => ClusterAt(item, n) = item.first + n}
<1>4. 0 \in S
  BY <1>2, ChainFollows
<1>5. ASSUME NEW n \in 0..(N - 1), n \in S PROVE n + 1 \in S
  <2>1. ClusterAt(item, n) = item.first + n /\ item.first + n \in item.first..(item.first + N - 1)
    BY <1>2, <1>5
  <2>2. ClusterAt(item, n + 1) = Link[item.first + n]
    BY <1>2, <2>1, ChainFollows
  <2>3. Link[item.first + n] = item.first + n + 1
    BY <1>2, <1>3, <2>1 DEF Link
  <2> QED BY <1>2, <2>2, <2>3
<1>6. 0..N \subseteq S
  <2> HIDE DEF S
  <2> QED BY <1>4, <1>5, InductionUpTo
<1>7. \A n \in 0..N : ClusterAt(item, n) = item.first + n
  BY <1>6
<1>8. ASSUME NEW n \in 1..N PROVE ClusterAt(item, n) \notin {EOC, 0}
  BY <1>2, <1>7 DEF EOC
<1> QED BY <1>1, <1>7, <1>8 DEF Linked

LEMMA ContiguousBytes ==
  ASSUME vol \in Volumes, NEW item \in Entries, Contiguous(item), NEW k \in 0..(item.size - 1)
  PROVE  ByteAt(item, k) = RootEnd * SectorSize + (item.first - 2) * ClusterSize + k
<1>1. item.size \in Nat /\ item.first \in Nat /\ item.size > 0 /\ item.size - 1 \in Nat /\ k \in Nat
  BY DEF Entries
<1>2. PICK q \in Nat, r \in Nat : /\ q = k \div ClusterSize /\ r = k % ClusterSize
                                  /\ k = ClusterSize * q + r
  <2>1. PICK d \in Nat \ {0} : d = ClusterSize
    BY Sizes
  <2>2. k \div d \in Nat /\ k % d \in 0..(d - 1) /\ k = d * (k \div d) + (k % d)
    BY <1>1, DivMod
  <2>3. k % d \in Nat
    BY <2>2
  <2> QED BY <2>1, <2>2, <2>3
<1>3. q <= (item.size - 1) \div ClusterSize /\ (item.size - 1) \div ClusterSize \in Nat
  <2>1. PICK d \in Nat \ {0}, s \in Nat : d = ClusterSize /\ s = item.size - 1 /\ k <= s
    BY <1>1, Sizes
  <2>2. k \div d <= s \div d /\ s \div d \in Nat
    BY <1>1, <2>1, DivMonotone, DivMod
  <2> QED BY <1>2, <2>1, <2>2
<1>4. ClusterAt(item, q) = item.first + q
  BY <1>1, <1>3, ContiguousChain
<1>5. \A d \in Nat : ((item.first + q) - 2) * d + r = (item.first - 2) * d + (d * q + r)
  BY <1>1
<1>6. /\ RootEnd * SectorSize \in Int /\ (item.first - 2) * ClusterSize \in Int
      /\ ((item.first + q) - 2) * ClusterSize \in Int
  BY <1>1, Sizes, SectorOfCluster
<1>7. ((item.first + q) - 2) * ClusterSize + r = (item.first - 2) * ClusterSize + k
  BY <1>2, <1>5, Sizes
<1> QED BY <1>1, <1>2, <1>4, <1>6, <1>7 DEF ByteAt

(* Inside a file whose chain is long enough a cluster is always found. *)
LEMMA FoundInside ==
  ASSUME vol \in Volumes, NEW item \in Entries, Linked(item), NEW o \in Nat, o < item.size
  PROVE  /\ fat16_get_cluster_for_offset(item.first, o) = ClusterAt(item, o \div ClusterSize)
         /\ fat16_get_cluster_for_offset(item.first, o) # EIO
         /\ ClusterAt(item, o \div ClusterSize) \in Int
<1>1. item.size \in Nat /\ item.first \in Nat /\ item.size - 1 \in Nat /\ o <= item.size - 1
  BY DEF Entries
<1>2. PICK q \in Nat : q = o \div ClusterSize /\ q <= (item.size - 1) \div ClusterSize
  <2>1. PICK d \in Nat \ {0}, s \in Nat : d = ClusterSize /\ s = item.size - 1
    BY <1>1, Sizes
  <2>2. o \div d <= s \div d /\ o \div d \in Nat
    BY <1>1, <2>1, DivMonotone, DivMod
  <2> QED BY <2>1, <2>2
<1>3. (item.size - 1) \div ClusterSize \in Int
  BY <1>1, Sizes
<1>4. \A n \in 1..q : ClusterAt(item, n) \notin {EOC, 0}
  BY <1>2, <1>3 DEF Linked
<1>5. fat16_get_cluster_for_offset(item.first, o) = ClusterAt(item, q)
  BY <1>1, <1>2, <1>4, Sizes, OffsetFollowsChain
<1>6. ClusterAt(item, q) \in Int
  BY <1>1, ChainFollows
<1>7. ClusterAt(item, q) # EIO
  <2>1. CASE q = 0
    BY <1>1, <2>1, ChainFollows DEF EIO
  <2>2. CASE q # 0
    BY <1>4, <2>2 DEF EIO, EOC
  <2> QED BY <2>1, <2>2
<1> QED BY <1>2, <1>5, <1>6, <1>7

(* A piece that does not leave its cluster, or of a contiguous file, lies  *)
(* on the disk where the stream is sought to.                              *)
LEMMA PieceOfFile ==
  ASSUME vol \in Volumes, NEW item \in Entries, Linked(item),
         NEW o \in Nat, NEW c \in Nat, o + c <= item.size,
         Contiguous(item) \/ (o % ClusterSize) + c <= ClusterSize,
         NEW j \in 0..(c - 1)
  PROVE  ByteAt(item, o + j) =
           (fat16_cluster_to_sector(fat16_get_cluster_for_offset(item.first, o)) * SectorSize
              + (o % ClusterSize)) + j
<1>1. item.size \in Nat /\ item.first \in Nat /\ o < item.size /\ j \in Nat /\ o + j \in Nat
  BY DEF Entries
<1>2. PICK d \in Nat \ {0} : d = ClusterSize
  BY Sizes
<1>3. PICK q \in Nat, r \in 0..(d - 1) : q = o \div d /\ r = o % d /\ o = d * q + r
  BY DivMod
<1>4. PICK x \in Int : x = ClusterAt(item, q) /\ fat16_get_cluster_for_offset(item.first, o) = x
  BY <1>1, <1>2, <1>3, FoundInside
<1>5. PICK a \in Int, b \in Int : /\ a = RootEnd * SectorSize /\ b = (x - 2) * ClusterSize
                                  /\ fat16_cluster_to_sector(x) * SectorSize = a + b
  BY SectorOfCluster
<1>6. ByteAt(item, o) = a + b + r
  BY <1>2, <1>3, <1>4, <1>5 DEF ByteAt
<1>7. ByteAt(item, o + j) = ByteAt(item, o) + j
  <2>1. CASE Contiguous(item)
    <3>1. o \in 0..(item.size - 1) /\ o + j \in 0..(item.size - 1)
      BY <1>1
    <3>2. PICK k \in 0..(item.size - 1) : k = o + j
      BY <3>1
    <3>3. PICK e \in Int : e = RootEnd * SectorSize + (item.first - 2) * ClusterSize
      BY <1>1, SectorOfCluster
    <3>4. ByteAt(item, o) = e + o /\ ByteAt(item, k) = e + k
      BY <2>1, <3>1, <3>3, ContiguousBytes
    <3> QED BY <1>1, <3>2, <3>3, <3>4
  <2>2. CASE (o % ClusterSize) + c <= ClusterSize
    <3>1. (o % d) + j < d
      BY <1>2, <1>3, <2>2
    <3>2. (o + j) \div d = q /\ (o + j) % d = r + j
      BY <1>1, <1>3, <3>1, SameCluster
    <3>3. ByteAt(item, o + j) = a + b + (r + j)
      BY <1>2, <1>4, <1>5, <3>2 DEF ByteAt
    <3> QED BY <1>1, <1>3, <1>5, <1>6, <3>3
  <2> QED BY <2>1, <2>2
<1> QED BY <1>1, <1>2, <1>3, <1>4, <1>5, <1>6, <1>7

TidyDisk == Tidy(vol.root) /\ \A c \in DOMAIN vol.dirs : Tidy(vol.dirs[c])

(* The disk never changes, and with it what is said of its files. *)
LEMMA VolumeKept ==
  ASSUME vol' = vol
  PROVE  /\ \A a, b : fat16_get_cluster_for_offset(a, b)' = fat16_get_cluster_for_offset(a, b)
         /\ \A a, b : ByteAt(a, b)' = ByteAt(a, b)
         /\ \A a : Contiguous(a)' <=> Contiguous(a)
         /\ \A a : Linked(a)' <=> Linked(a)
         /\ \A a, b : ClusterAt(a, b)' = ClusterAt(a, b)
         /\ \A a : EntriesAt(a)' = EntriesAt(a)
         /\ TidyDisk' <=> TidyDisk
<1>1. \A a, b : fat16_get_cluster_for_offset(a, b)' = fat16_get_cluster_for_offset(a, b)
  BY DEF fat16_get_cluster_for_offset, fat16_get_fat_entry
<1>2. \A a, b : ByteAt(a, b)' = ByteAt(a, b)
  BY DEF ByteAt, ClusterAt
<1>3. \A a : Contiguous(a)' <=> Contiguous(a)
  BY DEF Contiguous
<1>4. \A a : Linked(a)' <=> Linked(a)
  BY DEF Linked, ClusterAt
<1>5. \A a, b : ClusterAt(a, b)' = ClusterAt(a, b)
  BY DEF ClusterAt
<1>6. \A a : EntriesAt(a)' = EntriesAt(a)
  BY DEF EntriesAt
<1>7. TidyDisk' <=> TidyDisk
  BY DEF TidyDisk
<1> QED BY <1>1, <1>2, <1>3, <1>4, <1>5, <1>6, <1>7

-----------------------------------------------------------------------------
(* The steps of fread. *)

LEMMA MinOfTwo ==
  ASSUME NEW a \in Nat, NEW b \in Nat
  PROVE  Min({a, b}) = IF a <= b THEN a ELSE b
<1>1. {a, b} \in SUBSET Nat /\ {a, b} # {}
  OBVIOUS
<1>2. Min({a, b}) \in {a, b} /\ \A k \in {a, b} : Min({a, b}) <= k
  BY <1>1, MinIsLeast
<1> QED BY <1>2

(* The request does not change with the counters. *)
LEMMA RequestKept ==
  ASSUME Requested, last' = last, file_descriptors' = file_descriptors, vol' = vol,
         rd' \in Reading, rd'.fd = rd.fd, rd'.first = rd.first,
         rd'.size = rd.size, rd'.nmemb = rd.nmemb
  PROVE  Requested' /\ (Sound' <=> Sound) /\ (Aligned' <=> Aligned)
<1>1. Requested'
  BY DEF Requested, Reading
<1>2. Aligned' <=> Aligned
  BY DEF Aligned
<1>3. Sound' <=> Sound
  BY <1>2, VolumeKept DEF Sound
<1> QED BY <1>1, <1>2, <1>3

(* The fields of the read, for the steps that change some. *)
LEMMA RequestTypes ==
  ASSUME Requested, Progress
  PROVE  /\ rd.size \in Nat \ {0} /\ rd.nmemb \in Nat \ {0} /\ rd.first \in Nat
         /\ rd.left \in Nat /\ rd.offset \in Nat /\ rd.total \in Nat /\ rd.chunk \in Nat
         /\ rd.fd \in 1..(MaxFd - 1) /\ rd.fd \in 1..MaxFd
         /\ last.pos \in Nat /\ last.item \in Entries /\ last.item.size \in Nat
         /\ last.size = rd.size /\ last.nmemb = rd.nmemb /\ last.fd = rd.fd /\ last.call = "fread"
         /\ rd.size * rd.nmemb \in Nat /\ rd.size * (rd.left - 1) \in Nat
         /\ rd.offset + rd.total <= last.pos + rd.size * rd.nmemb
         /\ last.pos <= rd.offset
<1>1. /\ rd.size \in Nat \ {0} /\ rd.nmemb \in Nat \ {0} /\ rd.first \in Nat
      /\ rd.left \in Nat /\ rd.offset \in Nat /\ rd.total \in Nat /\ rd.chunk \in Nat
      /\ rd.fd \in 1..(MaxFd - 1) /\ rd.fd \in 1..MaxFd
  <2>1. rd \in Reading /\ MaxFd \in Nat
    BY FilesAssumption DEF Requested
  <2> QED BY <2>1 DEF Reading
<1>2. /\ last.pos \in Nat /\ last.item \in Entries
      /\ last.size = rd.size /\ last.nmemb = rd.nmemb /\ last.fd = rd.fd /\ last.call = "fread"
  BY FilesAssumption DEF Requested
<1>3. last.item.size \in Nat
  BY <1>2 DEF Entries
<1>4. \A a, b \in Nat : a * b \in Nat
  OBVIOUS
<1>5. rd.left - 1 \in Nat
  BY <1>1, SMTT(20) DEF Progress
<1>6. rd.size * rd.nmemb \in Nat /\ rd.size * (rd.left - 1) \in Nat
  BY <1>1, <1>4, <1>5
<1>7. rd.offset + rd.total <= last.pos + rd.size * rd.nmemb
  <2>1. PICK x \in Nat, y \in Nat : x = rd.size * (rd.left - 1) /\ y = rd.size * rd.nmemb
    BY <1>6
  <2>2. rd.offset + rd.total + x = last.pos + y
    BY <2>1 DEF Progress
  <2>3. rd.offset + rd.total <= last.pos + y
    BY <1>1, <1>2, <2>2
  <2> QED BY <2>1, <2>3
<1>8. last.pos <= rd.offset
  <2>1. Len(out) \in Nat
    BY DEF Progress
  <2> QED BY <1>1, <1>2, <2>1 DEF Progress
<1> QED BY <1>1, <1>2, <1>3, <1>6, <1>7, <1>8

(* A cluster's number, or the error, whatever the descriptor's first cluster. *)
LEMMA ClusterType ==
  ASSUME vol \in Volumes, NEW first \in Nat, NEW offset \in Nat
  PROVE  fat16_get_cluster_for_offset(first, offset) \in Int
<1> DEFINE item == [first |-> first]
<1>1. item.first = first
  OBVIOUS
<1>2. offset \div ClusterSize \in Nat
  BY Sizes
<1>3. ClusterAt(item, offset \div ClusterSize) \in Int
  BY <1>1, <1>2, ChainFollows
<1> HIDE DEF item
<1> QED BY <1>1, <1>3, Sizes, OffsetFollowsChain DEF EIO

(* A cluster is found and the stream sought to the piece. *)
LEMMA ReadClusterInv ==
  ASSUME StateOK, ReadInv, read_cluster
  PROVE  StateOK' /\ ReadInv'
<1> DEFINE c == Min({rd.total, ClusterSize})
<1>1. /\ pc = "cluster" /\ pc' = "sector" /\ ClusterOfRead # EIO
      /\ stream' = fat16_cluster_to_sector(ClusterOfRead) * SectorSize + (rd.offset % ClusterSize)
      /\ rd' = [rd EXCEPT !.chunk = c]
      /\ UNCHANGED <<vol, file_descriptors, out, ret, last>>
  BY DEF read_cluster
<1>2. Requested /\ Progress /\ LastStarted /\ StaysAligned /\ BytesInv
  BY DEF ReadInv
<1>t. /\ rd.size \in Nat \ {0} /\ rd.nmemb \in Nat \ {0} /\ rd.first \in Nat
      /\ rd.left \in Nat /\ rd.offset \in Nat /\ rd.total \in Nat
      /\ last.pos \in Nat /\ last.item \in Entries /\ last.item.size \in Nat
      /\ rd.size * rd.nmemb \in Nat
      /\ rd.offset + rd.total <= last.pos + rd.size * rd.nmemb
  BY <1>2, RequestTypes
<1>3. /\ c = IF rd.total <= ClusterSize THEN rd.total ELSE ClusterSize
      /\ c \in Nat /\ c <= rd.total /\ c > 0 /\ rd.total > 0 /\ rd.chunk = 0
  <2>1. ClusterSize \in Nat /\ ClusterSize > 0
    BY Sizes
  <2>2. rd.total > 0 /\ rd.chunk = 0
    BY <1>1, <1>2 DEF Progress
  <2> QED BY <1>t, <2>1, <2>2, MinOfTwo
<1> HIDE DEF c
<1>4. /\ rd' \in Reading /\ rd'.chunk = c
      /\ rd'.fd = rd.fd /\ rd'.first = rd.first /\ rd'.size = rd.size /\ rd'.nmemb = rd.nmemb
      /\ rd'.left = rd.left /\ rd'.offset = rd.offset /\ rd'.total = rd.total
  BY <1>1, <1>2, <1>3 DEF Requested, Reading
<1>5. StateOK'
  BY <1>1 DEF StateOK
<1>6. Requested' /\ (Sound' <=> Sound) /\ (Aligned' <=> Aligned)
  BY <1>1, <1>2, <1>4, RequestKept
<1>7. Progress'
  <2>1. stream' \in Int
    <3>1. PICK x \in Int : x = ClusterOfRead
      BY <1>t, ClusterType DEF StateOK, ClusterOfRead
    <3>2. fat16_cluster_to_sector(x) * SectorSize \in Int /\ rd.offset % ClusterSize \in Int
      BY <1>t, SectorOfCluster, Sizes
    <3> QED BY <1>1, <3>1, <3>2
  <2> QED BY <1>1, <1>2, <1>3, <1>4, <2>1 DEF Progress
<1>8. LastStarted'
  <2> SUFFICES ASSUME rd.left = 1
               PROVE  fat16_get_cluster_for_offset(rd.first, last.pos + rd.size * (rd.nmemb - 1)) # EIO
    BY <1>1, <1>4, VolumeKept DEF LastStarted
  <2>1. CASE rd.total < rd.size
    BY <1>2, <2>1 DEF LastStarted
  <2>2. CASE ~(rd.total < rd.size)
    <3>1. rd.total = rd.size
      BY <1>2, <1>t, <2>2, SMTT(20) DEF Progress
    <3>2. /\ rd.size * (rd.left - 1) = 0
          /\ rd.size * (rd.nmemb - 1) = rd.size * rd.nmemb - rd.size
      BY <1>t
    <3>3. PICK x \in Nat : x = rd.size * rd.nmemb
      BY <1>t
    <3>4. rd.offset + rd.total + 0 = last.pos + x
      BY <1>2, <3>2, <3>3 DEF Progress
    <3>5. rd.offset = last.pos + (x - rd.size)
      BY <1>t, <3>1, <3>4
    <3>6. rd.offset = last.pos + rd.size * (rd.nmemb - 1)
      BY <3>2, <3>3, <3>5
    <3> QED BY <1>1, <3>6 DEF ClusterOfRead
  <2> QED BY <2>1, <2>2
<1>9. StaysAligned'
  <2> SUFFICES ASSUME Aligned, rd.total > c
               PROVE  (rd.offset + c) % ClusterSize = 0
    BY <1>4, <1>6 DEF StaysAligned
  <2>1. c = ClusterSize /\ ClusterSize \in Nat /\ ClusterSize > 0
    BY <1>3, <1>t, Sizes
  <2>2. rd.offset % ClusterSize = 0 \/ (rd.offset % ClusterSize) + rd.total <= ClusterSize
    BY <1>2, <1>3, <1>t DEF StaysAligned
  <2>3. rd.offset % ClusterSize \in Nat
    BY <1>t, Sizes
  <2>4. rd.offset % ClusterSize = 0
    BY <1>t, <2>1, <2>2, <2>3
  <2> QED BY <1>t, <2>1, <2>4, NextCluster
<1>10. BytesInv'
  <2> SUFFICES ASSUME Sound
               PROVE  /\ \A i \in 1..Len(out) : out[i] = ByteAt(last.item, last.pos + i - 1)
                      /\ \A j \in 0..(c - 1) : stream' + j = ByteAt(last.item, rd.offset + j)
    BY <1>1, <1>4, <1>6, VolumeKept DEF BytesInv
  <2>1. \A i \in 1..Len(out) : out[i] = ByteAt(last.item, last.pos + i - 1)
    BY <1>2 DEF BytesInv
  <2>2. ~last.item.dir /\ Linked(last.item) /\ rd.first = last.item.first
    BY <1>2 DEF Sound, Requested
  <2>3. rd.offset + c <= last.item.size
    <3>1. PICK x \in Nat : x = rd.size * rd.nmemb
      BY <1>t
    <3>2. last.pos + x <= last.item.size /\ rd.offset + rd.total <= last.pos + x
      BY <1>t, <3>1 DEF Sound
    <3> QED BY <1>3, <1>t, <3>2
  <2>4. Contiguous(last.item) \/ (rd.offset % ClusterSize) + c <= ClusterSize
    <3> SUFFICES ASSUME Aligned PROVE (rd.offset % ClusterSize) + c <= ClusterSize
      BY DEF Sound
    <3>1. rd.offset % ClusterSize = 0 \/ (rd.offset % ClusterSize) + rd.total <= ClusterSize
      BY <1>2, <1>3, <1>t DEF StaysAligned
    <3>2. rd.offset % ClusterSize \in Nat /\ ClusterSize \in Nat
      BY <1>t, Sizes
    <3> QED BY <1>3, <1>t, <3>1, <3>2
  <2>5. vol \in Volumes
    BY DEF StateOK
  <2>6. ASSUME NEW j \in 0..(c - 1) PROVE stream' + j = ByteAt(last.item, rd.offset + j)
    BY <1>1, <1>3, <1>t, <2>2, <2>3, <2>4, <2>5, PieceOfFile DEF ClusterOfRead
  <2> QED BY <2>1, <2>6
<1> QED BY <1>5, <1>6, <1>7, <1>8, <1>9, <1>10 DEF ReadInv

(* A sequence with a row of positions behind it, by index. *)
LEMMA RowBehind ==
  ASSUME NEW s \in Seq(Int), NEW k \in Nat, NEW x \in Int, NEW t,
         t = s \o [i \in 1..k |-> x + i - 1]
  PROVE  /\ t \in Seq(Int) /\ Len(t) = Len(s) + k
         /\ \A i \in 1..Len(s) : t[i] = s[i]
         /\ \A i \in 1..k : t[Len(s) + i] = x + i - 1
<1> DEFINE r == [i \in 1..k |-> x + i - 1]
<1>1. r \in Seq(Int) /\ Len(r) = k /\ \A i \in 1..k : r[i] = x + i - 1
  OBVIOUS
<1> HIDE DEF r
<1>2. t = s \o r
  BY DEF r
<1>3. t \in Seq(Int) /\ Len(t) = Len(s) + k
  BY <1>1, <1>2
<1>4. \A i \in 1..(Len(s) + k) : t[i] = IF i <= Len(s) THEN s[i] ELSE r[i - Len(s)]
  BY <1>1, <1>2
<1>5. ASSUME NEW i \in 1..k PROVE t[Len(s) + i] = x + i - 1
  <2>1. Len(s) \in Nat /\ Len(s) + i \in 1..(Len(s) + k) /\ ~(Len(s) + i <= Len(s))
        /\ (Len(s) + i) - Len(s) = i
    OBVIOUS
  <2> QED BY <1>1, <1>4, <2>1
<1>6. Len(s) \in Nat /\ \A i \in 1..Len(s) : i \in 1..(Len(s) + k)
  OBVIOUS
<1> QED BY <1>3, <1>4, <1>5, <1>6

(* The rest of a sector, or less, is copied. *)
LEMMA StreamerReadInv ==
  ASSUME StateOK, ReadInv, diskstreamer_read
  PROVE  StateOK' /\ ReadInv'
<1>1. /\ pc = "sector" /\ pc' = IF Overflow THEN "sector" ELSE "next"
      /\ out' = out \o [i \in 1..InSector |-> stream + i - 1]
      /\ stream' = stream + InSector
      /\ rd' = [rd EXCEPT !.chunk = rd.chunk - InSector,
                          !.offset = rd.offset + InSector,
                          !.total = rd.total - InSector]
      /\ UNCHANGED <<vol, file_descriptors, ret, last>>
  BY DEF diskstreamer_read
<1>2. Requested /\ Progress /\ LastStarted /\ StaysAligned /\ BytesInv
  BY DEF ReadInv
<1>t. /\ rd.size \in Nat \ {0} /\ rd.nmemb \in Nat \ {0}
      /\ rd.left \in Nat /\ rd.offset \in Nat /\ rd.total \in Nat /\ rd.chunk \in Nat
      /\ last.pos \in Nat /\ last.item \in Entries /\ last.pos <= rd.offset
  BY <1>2, RequestTypes
<1>3. /\ rd.chunk <= rd.total /\ rd.total <= rd.size /\ stream \in Int
      /\ out \in Seq(Int) /\ Len(out) = rd.offset - last.pos
  BY <1>1, <1>2 DEF Progress
<1>k. PICK k \in Nat : /\ k = InSector /\ k <= rd.chunk
                       /\ pc' = "next" => k = rd.chunk
  <2>1. SectorSize - (stream % SectorSize) \in Nat
    BY <1>3, Sizes
  <2>2. InSector = IF rd.chunk <= SectorSize - (stream % SectorSize) THEN rd.chunk
                   ELSE SectorSize - (stream % SectorSize)
    BY <1>t, <2>1, MinOfTwo DEF InSector
  <2>3. stream % SectorSize \in Int /\ SectorSize \in Int
    BY <1>3, Sizes
  <2>4. pc' = "next" => rd.chunk <= SectorSize - (stream % SectorSize)
    BY <1>1, <1>t, <2>3 DEF Overflow
  <2> QED BY <1>t, <2>1, <2>2, <2>4
<1>4. k \in Nat /\ k <= rd.chunk
  BY <1>k
<1>5. /\ out' \in Seq(Int) /\ Len(out') = Len(out) + k
      /\ \A i \in 1..Len(out) : out'[i] = out[i]
      /\ \A i \in 1..k : out'[Len(out) + i] = stream + i - 1
  <2>1. PICK t, s, x : t = out' /\ s = out /\ x = stream
    OBVIOUS
  <2>2. t = s \o [i \in 1..k |-> x + i - 1]
    BY <1>1, <1>k, <2>1
  <2>3. s \in Seq(Int) /\ x \in Int
    BY <1>3, <2>1
  <2>4. /\ t \in Seq(Int) /\ Len(t) = Len(s) + k
        /\ \A i \in 1..Len(s) : t[i] = s[i]
        /\ \A i \in 1..k : t[Len(s) + i] = x + i - 1
    BY ONLY <1>4, <2>2, <2>3, RowBehind
  <2> QED BY <2>1, <2>4
<1>6. /\ rd' \in Reading
      /\ rd'.fd = rd.fd /\ rd'.first = rd.first /\ rd'.size = rd.size /\ rd'.nmemb = rd.nmemb
      /\ rd'.left = rd.left /\ rd'.offset = rd.offset + k /\ rd'.total = rd.total - k
      /\ rd'.chunk = rd.chunk - k
  <2>1. rd.chunk - k \in Nat /\ rd.offset + k \in Nat /\ rd.total - k \in Nat
    BY <1>t, <1>3, <1>4, SMTT(20)
  <2> QED BY <1>1, <1>2, <1>k, <2>1 DEF Requested, Reading
<1>7. StateOK'
  BY <1>1 DEF StateOK
<1>8. Requested' /\ (Sound' <=> Sound) /\ (Aligned' <=> Aligned)
  BY <1>1, <1>2, <1>6, RequestKept
<1>9. Progress'
  <2>1. PICK x \in Nat, y \in Nat : x = rd.size * (rd.left - 1) /\ y = rd.size * rd.nmemb
    BY <1>2, RequestTypes
  <2>2. rd.offset + rd.total + x = last.pos + y
    BY <1>2, <2>1 DEF Progress
  <2>3. (rd.offset + k) + (rd.total - k) + x = last.pos + y
    BY <1>t, <2>2
  <2>4. rd.left \in 1..rd.nmemb /\ rd.total - k \in 0..rd.size /\ rd.chunk - k \in 0..(rd.total - k)
    <3>1. rd.left \in 1..rd.nmemb
      BY <1>2 DEF Progress
    <3>2. \A c, t, z \in Nat : k <= c /\ c <= t /\ t <= z => t - k \in 0..z /\ c - k \in 0..(t - k)
      OBVIOUS
    <3> QED BY <1>t, <1>3, <1>4, <3>1, <3>2
  <2>5. Len(out') = (rd.offset + k) - last.pos
    BY <1>t, <1>3, <1>5
  <2>6. pc' # "sector" => rd.chunk - k = 0
    BY <1>1, <1>k, <1>t
  <2>7. stream' \in Int /\ pc' # "cluster"
    BY <1>1, <1>3, <1>k
  <2> QED BY <1>1, <1>5, <1>6, <2>1, <2>3, <2>4, <2>5, <2>6, <2>7 DEF Progress
<1>10. LastStarted'
  BY <1>1, <1>2, <1>6, VolumeKept DEF LastStarted
<1>11. StaysAligned'
  <2>1. /\ (rd.offset + k) + (rd.chunk - k) = rd.offset + rd.chunk
        /\ (rd.total - k) - (rd.chunk - k) = rd.total - rd.chunk
        /\ rd.total - k > rd.chunk - k <=> rd.total > rd.chunk
    BY <1>t
  <2> QED BY <1>2, <1>6, <1>8, <2>1 DEF StaysAligned
<1>12. BytesInv'
  <2>0. last' = last /\ vol' = vol /\ (Sound' <=> Sound)
    BY <1>1, <1>8
  <2> SUFFICES ASSUME Sound
               PROVE  /\ \A i \in 1..Len(out') : out'[i] = ByteAt(last.item, last.pos + i - 1)
                      /\ \A j \in 0..(rd'.chunk - 1) :
                            stream' + j = ByteAt(last.item, rd'.offset + j)
    BY <2>0, VolumeKept DEF BytesInv
  <2>1. /\ \A i \in 1..Len(out) : out[i] = ByteAt(last.item, last.pos + i - 1)
        /\ \A j \in 0..(rd.chunk - 1) : stream + j = ByteAt(last.item, rd.offset + j)
    BY <1>1, <1>2 DEF BytesInv
  <2>2. ASSUME NEW i \in 1..Len(out') PROVE out'[i] = ByteAt(last.item, last.pos + i - 1)
    <3>1. CASE i <= Len(out)
      BY <1>3, <1>5, <2>1, <3>1
    <3>2. CASE ~(i <= Len(out))
      <4>1. PICK m \in 1..k : i = Len(out) + m
        <5>1. i - Len(out) \in 1..k /\ i = Len(out) + (i - Len(out))
          BY <1>3, <1>5, <3>2
        <5> QED BY <5>1
      <4>2. m - 1 \in 0..(rd.chunk - 1)
        BY <1>t, <1>4
      <4>4. stream + (m - 1) = stream + m - 1
        BY <1>3
      <4>5. last.pos + i - 1 = rd.offset + (m - 1)
        <5>1. PICK a \in Nat, o \in Nat : a = last.pos /\ o = rd.offset /\ Len(out) = o - a
          BY <1>t, <1>3
        <5>2. a + ((o - a) + m) - 1 = o + (m - 1)
          OBVIOUS
        <5> QED BY <4>1, <5>1, <5>2
      <4>3. out'[i] = stream + (m - 1)
        BY <1>5, <4>1, <4>4
      <4> QED BY <2>1, <4>2, <4>3, <4>5
    <3> QED BY <3>1, <3>2
  <2>3. ASSUME NEW j \in 0..((rd.chunk - k) - 1)
        PROVE  stream' + j = ByteAt(last.item, (rd.offset + k) + j)
    <3>1. stream' = stream + k
      BY <1>1, <1>k
    <3>2. k + j \in 0..(rd.chunk - 1) /\ stream' + j = stream + (k + j)
          /\ (rd.offset + k) + j = rd.offset + (k + j)
      BY <1>t, <1>3, <1>4, <3>1, SMTT(20)
    <3> QED BY <2>1, <3>2
  <2> QED BY <1>6, <2>2, <2>3
<1> QED BY <1>7, <1>8, <1>9, <1>10, <1>11, <1>12 DEF ReadInv

(* More of the element is to be read. *)
LEMMA NextClusterInv ==
  ASSUME StateOK, ReadInv, next_cluster
  PROVE  StateOK' /\ ReadInv'
<1>1. /\ pc = "next" /\ pc' = "cluster" /\ rd.total > 0
      /\ UNCHANGED <<vol, file_descriptors, stream, rd, out, ret, last>>
  BY DEF next_cluster
<1>2. Requested /\ Progress /\ LastStarted /\ StaysAligned /\ BytesInv
  BY DEF ReadInv
<1>3. StateOK'
  BY <1>1 DEF StateOK
<1>4. Requested' /\ (Sound' <=> Sound) /\ (Aligned' <=> Aligned)
  <2>1. rd' \in Reading
    BY <1>1, <1>2 DEF Requested, Reading
  <2> QED BY <1>1, <1>2, <2>1, RequestKept
<1>5. Progress'
  BY <1>1, <1>2 DEF Progress
<1>6. LastStarted'
  BY <1>1, <1>2, VolumeKept DEF LastStarted
<1>7. StaysAligned'
  BY <1>1, <1>2, <1>4 DEF StaysAligned
<1>8. BytesInv'
  <2>1. pc' # "sector" /\ last' = last /\ out' = out /\ vol' = vol
    BY <1>1
  <2> QED BY <1>2, <1>4, <2>1, VolumeKept DEF BytesInv
<1> QED BY <1>3, <1>4, <1>5, <1>6, <1>7, <1>8 DEF ReadInv

(* The next element begins where this one ended. *)
LEMMA NextElementInv ==
  ASSUME StateOK, ReadInv, next_element
  PROVE  StateOK' /\ ReadInv'
<1>1. /\ pc = "next" /\ pc' = "cluster" /\ rd.total = 0 /\ rd.left > 1
      /\ rd' = [rd EXCEPT !.left = rd.left - 1, !.total = rd.size]
      /\ UNCHANGED <<vol, file_descriptors, stream, out, ret, last>>
  BY DEF next_element
<1>2. Requested /\ Progress /\ LastStarted /\ StaysAligned /\ BytesInv
  BY DEF ReadInv
<1>t. /\ rd.size \in Nat \ {0} /\ rd.nmemb \in Nat \ {0} /\ rd.left \in Nat /\ rd.offset \in Nat
      /\ last.pos \in Nat /\ rd.chunk = 0 /\ rd.left <= rd.nmemb
      /\ last.size = rd.size /\ last.nmemb = rd.nmemb
  BY <1>1, <1>2, RequestTypes DEF Progress
<1>3. StateOK'
  BY <1>1 DEF StateOK
<1>4. /\ rd' \in Reading
      /\ rd'.fd = rd.fd /\ rd'.first = rd.first /\ rd'.size = rd.size /\ rd'.nmemb = rd.nmemb
      /\ rd'.left = rd.left - 1 /\ rd'.offset = rd.offset /\ rd'.total = rd.size /\ rd'.chunk = 0
  <2>1. rd \in Reading /\ rd.left - 1 \in Nat
    BY <1>1, <1>2, <1>t DEF Requested
  <2> QED BY <1>1, <1>t, <2>1 DEF Reading
<1>5. Requested' /\ (Sound' <=> Sound) /\ (Aligned' <=> Aligned)
  BY <1>1, <1>2, <1>4, RequestKept
<1>6. PICK x \in Int, y \in Int : /\ x = rd.size * (rd.left - 1) /\ y = rd.size * rd.nmemb
                                  /\ rd.offset + x = last.pos + y
  <2>1. rd.offset + 0 + rd.size * (rd.left - 1) = last.pos + rd.size * rd.nmemb
    BY <1>1, <1>2 DEF Progress
  <2>2. rd.size * (rd.left - 1) \in Int /\ rd.size * rd.nmemb \in Int
    BY <1>2, RequestTypes
  <2> QED BY <1>t, <2>1, <2>2
<1>7. Progress'
  <2>1. rd.size * ((rd.left - 1) - 1) = x - rd.size
    <3>1. PICK z \in Int, l \in Int : z = rd.size /\ l = rd.left
      BY <1>t
    <3>2. z * ((l - 1) - 1) = z * (l - 1) - z
      OBVIOUS
    <3> QED BY <1>6, <3>1, <3>2
  <2>2. rd.offset + rd.size + (x - rd.size) = last.pos + y
    BY <1>t, <1>6
  <2>3. rd.left - 1 \in 1..rd.nmemb /\ rd.size \in 0..rd.size /\ 0 \in 0..rd.size /\ rd.size > 0
    BY <1>1, <1>t
  <2>4. out' \in Seq(Int) /\ Len(out') = rd.offset - last.pos
    BY <1>1, <1>2 DEF Progress
  <2> QED BY <1>1, <1>4, <1>6, <2>1, <2>2, <2>3, <2>4 DEF Progress
<1>8. LastStarted'
  BY <1>1, <1>4, <1>t DEF LastStarted
<1>9. StaysAligned'
  <2> SUFFICES ASSUME Aligned
               PROVE  \/ rd.offset % ClusterSize = 0
                      \/ (rd.offset % ClusterSize) + rd.size <= ClusterSize
    BY <1>4, <1>5, <1>t DEF StaysAligned
  <2>1. PICK i \in 0..(rd.nmemb - 1) : i = rd.nmemb - (rd.left - 1)
    BY <1>1, <1>t
  <2>2. i * rd.size = y - x
    <3>1. PICK z \in Int, l \in Int, m \in Int : z = rd.size /\ l = rd.left /\ m = rd.nmemb
      BY <1>t
    <3>2. (m - (l - 1)) * z = z * m - z * (l - 1)
      OBVIOUS
    <3> QED BY <1>6, <2>1, <3>1, <3>2
  <2>3. rd.offset = last.pos + i * rd.size
    BY <1>t, <1>6, <2>2
  <2> QED BY <1>t, <2>1, <2>3 DEF Aligned
<1>10. BytesInv'
  <2>1. pc' # "sector" /\ last' = last /\ out' = out /\ vol' = vol
    BY <1>1
  <2> QED BY <1>2, <1>5, <2>1, VolumeKept DEF BytesInv
<1> QED BY <1>3, <1>5, <1>7, <1>8, <1>9, <1>10 DEF ReadInv

(* What the descriptor table gives fread, fseek, fstat and fclose. *)
LEMMA DescriptorFound ==
  ASSUME StateOK, NEW fd \in 0..MaxFd, file_get_descriptor(fd) # NoFile
  PROVE  /\ fd \in 1..(MaxFd - 1) /\ fd \in 1..MaxFd
         /\ file_get_descriptor(fd) = file_descriptors[fd]
         /\ file_descriptors[fd] \in [item : Entries, pos : 0..MaxPos]
<1>1. MaxFd \in Nat
  BY FilesAssumption
<1>2. fd \in 1..(MaxFd - 1) /\ fd \in 1..MaxFd /\ file_get_descriptor(fd) = file_descriptors[fd]
  BY <1>1 DEF file_get_descriptor
<1>3. file_descriptors[fd] \in Descriptors
  BY <1>2 DEF StateOK
<1> QED BY <1>2, <1>3 DEF Descriptors

(* fat16_read begins. *)
LEMMA FreadInv ==
  ASSUME StateOK, NEW r \in Reads, NEW fd \in 0..MaxFd, fread(r.size, r.nmemb, fd)
  PROVE  StateOK' /\ ReadInv'
<1>1. PICK d : d = file_get_descriptor(fd)
  OBVIOUS
<1>2. /\ pc = "idle" /\ pc' = "cluster" /\ r.size > 0 /\ r.nmemb > 0 /\ d # NoFile
      /\ d.pos + r.size * r.nmemb <= MaxPos /\ out' = <<>>
      /\ last' = [call |-> "fread", fd |-> fd, item |-> d.item, pos |-> d.pos,
                  size |-> r.size, nmemb |-> r.nmemb]
      /\ UNCHANGED <<vol, file_descriptors, stream, ret>>
  BY <1>1 DEF fread
<1>3. PICK first \in fat16_get_first_cluster(d.item) :
        rd' = [fd |-> fd, first |-> first, size |-> r.size, nmemb |-> r.nmemb, left |-> r.nmemb,
               offset |-> d.pos, total |-> r.size, chunk |-> 0]
  BY <1>1 DEF fread
<1>4. /\ fd \in 1..(MaxFd - 1) /\ d = file_descriptors[fd] /\ d \in [item : Entries, pos : 0..MaxPos]
  BY <1>1, <1>2, DescriptorFound
<1>5. /\ r.size \in Nat \ {0} /\ r.nmemb \in Nat \ {0} /\ MaxPos \in Nat
  BY <1>2, FilesAssumption
<1>6. d.item \in Entries /\ d.pos \in 0..MaxPos /\ d.pos \in Nat /\ d = [item |-> d.item, pos |-> d.pos]
  BY <1>4, <1>5
<1>7. first \in Nat /\ (~d.item.dir => first = d.item.first)
  <2>1. IsVolume(vol)
    BY FilesAssumption DEF StateOK
  <2> QED BY <1>3, <1>6, <2>1 DEF IsVolume, fat16_get_first_cluster, Entries
<1>8. StateOK'
  BY <1>2 DEF StateOK
<1>9. Requested'
  <2>1. rd' \in Reading
    BY <1>3, <1>4, <1>5, <1>6, <1>7 DEF Reading
  <2> QED BY <1>2, <1>3, <1>4, <1>6, <1>7, <2>1 DEF Requested
<1>10. Progress'
  <2>1. PICK y \in Int : y = r.size * r.nmemb /\ r.size * (r.nmemb - 1) = y - r.size
    BY <1>5
  <2>2. d.pos + r.size + (y - r.size) = d.pos + y
    BY <1>5, <1>6
  <2>3. out' \in Seq(Int) /\ Len(out') = d.pos - d.pos
    BY <1>2, <1>6
  <2>4. r.nmemb \in 1..r.nmemb /\ r.size \in 0..r.size /\ 0 \in 0..r.size
    BY <1>5
  <2> QED BY <1>2, <1>3, <2>1, <2>2, <2>3, <2>4 DEF Progress
<1>11. LastStarted'
  BY <1>2, <1>3, <1>5 DEF LastStarted
<1>12. StaysAligned'
  <2> SUFFICES ASSUME Aligned'
               PROVE  \/ d.pos % ClusterSize = 0
                      \/ (d.pos % ClusterSize) + r.size <= ClusterSize
    BY <1>3, <1>5, <1>6 DEF StaysAligned
  <2>1. 0 \in 0..(r.nmemb - 1) /\ d.pos + 0 * r.size = d.pos
    BY <1>5, <1>6
  <2> QED BY <1>2, <2>1 DEF Aligned
<1>13. BytesInv'
  <2>1. pc' # "sector" /\ Len(out') = 0
    BY <1>2
  <2> QED BY <2>1 DEF BytesInv
<1> QED BY <1>8, <1>9, <1>10, <1>11, <1>12, <1>13 DEF ReadInv

-----------------------------------------------------------------------------
(* Paths. *)

EntriesOf(d) == {d[j] : j \in 1..Len(d)}

(* The deleted entries are not counted. *)
LEMMA ItemsCounted ==
  ASSUME NEW d, Len(d) \in Nat
  PROVE  /\ fat16_get_total_items_for_directory(d) \in Nat
         /\ fat16_get_total_items_for_directory(d) <= Len(d)
         /\ Tidy(d) => fat16_get_total_items_for_directory(d) = Len(d)
<1> DEFINE S == 1..Len(d)
           T == {i \in S : d[i].name # DELETED}
<1>1. IsFiniteSet(S) /\ Cardinality(S) = Len(d)
  <2>1. IsFiniteSet(1..Len(d)) /\ Cardinality(1..Len(d)) = IF 1 > Len(d) THEN 0 ELSE Len(d) - 1 + 1
    BY FS_Interval, SMTT(20)
  <2> QED BY <2>1
<1>2. T \in SUBSET S
  OBVIOUS
<1>3. Tidy(d) => T = S
  BY DEF Tidy
<1> HIDE DEF S
<1>4. IsFiniteSet(T) /\ Cardinality(T) <= Cardinality(S)
  <2> HIDE DEF T
  <2> QED BY <1>1, <1>2, FS_Subset
<1>5. Cardinality(T) \in Nat
  <2> HIDE DEF T
  <2> QED BY <1>4, FS_CardinalityType
<1>6. fat16_get_total_items_for_directory(d) = Cardinality(T)
  BY DEF fat16_get_total_items_for_directory, S
<1> HIDE DEF T
<1> QED BY <1>1, <1>3, <1>4, <1>5, <1>6

(* What is found has the name sought; in a tidy directory all that has the *)
(* name is found.                                                          *)
LEMMA FindInDirectory ==
  ASSUME NEW d \in Seq(Entries), NEW name
  PROVE  /\ fat16_find_item_in_directory(d, name) \subseteq {e \in EntriesOf(d) : e.name = name}
         /\ Tidy(d) => fat16_find_item_in_directory(d, name) = {e \in EntriesOf(d) : e.name = name}
<1>1. PICK t \in Nat : /\ t = fat16_get_total_items_for_directory(d) /\ t <= Len(d)
                       /\ Tidy(d) => t = Len(d)
  BY ItemsCounted
<1>2. Hits(d, name) = {i \in 1..t : d[i].name = name} /\ Len(d) \in Nat
  BY <1>1 DEF Hits
<1>3. \A i \in Hits(d, name) : d[i] \in EntriesOf(d) /\ d[i].name = name
  BY <1>1, <1>2 DEF EntriesOf
<1>4. fat16_find_item_in_directory(d, name) \subseteq {e \in EntriesOf(d) : e.name = name}
  BY <1>3 DEF fat16_find_item_in_directory
<1>5. ASSUME Tidy(d), NEW e \in EntriesOf(d), e.name = name
      PROVE  e \in fat16_find_item_in_directory(d, name)
  <2>1. PICK j \in 1..Len(d) : e = d[j]
    BY DEF EntriesOf
  <2>2. j \in Hits(d, name)
    BY <1>1, <1>2, <1>5, <2>1
  <2>3. ASSUME NEW k \in Hits(d, name) PROVE k <= j
    <3>1. k \in 1..Len(d) /\ d[k].name = d[j].name
      BY <1>1, <1>2, <1>5, <2>1, <2>3
    <3> SUFFICES ASSUME k > j PROVE FALSE
      BY <3>1
    <3>2. j \in 1..(k - 1)
      BY <3>1
    <3> QED BY <1>5, <3>1, <3>2 DEF Tidy
  <2> QED BY <2>1, <2>2, <2>3 DEF fat16_find_item_in_directory
<1> QED BY <1>4, <1>5

(* One part of the walk, and of the reference. *)
WalkPart(part, w) ==
  LET found == UNION {fat16_find_item_in_directory(d, part) : d \in w.dir}
  IN [dir |-> {vol.dirs[e.first] : e \in {x \in found : x.dir}},
      item |-> found,
      stream |-> IF w.dir = {} THEN w.stream
                 ELSE fat16_load_fat_directory(CHOOSE d \in w.dir : TRUE, part, w.stream)]

IsWalk(parts, n, f) ==
  f = [i \in 0..n |-> IF i = 0 THEN [dir |-> {vol.root}, item |-> {}, stream |-> stream]
                      ELSE WalkPart(parts[i], f[i - 1])]

LEMMA WalkExists ==
  ASSUME NEW parts, NEW n \in Nat
  PROVE  \E f : IsWalk(parts, n, f)
<1> DEFINE S == {m \in Nat : \E f : IsWalk(parts, m, f)}
<1>1. 0 \in S
  <2> DEFINE f == [i \in 0..0 |-> [dir |-> {vol.root}, item |-> {}, stream |-> stream]]
  <2>1. IsWalk(parts, 0, f)
    BY DEF IsWalk
  <2> QED BY <2>1
<1>2. ASSUME NEW m \in 0..(n - 1), m \in S PROVE m + 1 \in S
  <2>1. PICK f : IsWalk(parts, m, f)
    BY <1>2
  <2> DEFINE h == [i \in 0..(m + 1) |-> IF i <= m THEN f[i] ELSE WalkPart(parts[m + 1], f[m])]
  <2>2. ASSUME NEW i \in 0..(m + 1)
        PROVE  h[i] = IF i = 0 THEN [dir |-> {vol.root}, item |-> {}, stream |-> stream]
                      ELSE WalkPart(parts[i], h[i - 1])
    <3>1. CASE i <= m
      <4>1. h[i] = f[i] /\ (i # 0 => h[i - 1] = f[i - 1]) /\ i \in 0..m
        BY <3>1
      <4> HIDE DEF h
      <4> QED BY <2>1, <4>1 DEF IsWalk
    <3>2. CASE i = m + 1
      BY <3>2
    <3> QED BY <3>1, <3>2
  <2>3. IsWalk(parts, m + 1, h)
    BY <2>2 DEF IsWalk
  <2> QED BY <2>3
<1>3. 0..n \subseteq S
  <2> HIDE DEF S
  <2> QED BY <1>1, <1>2, InductionUpTo
<1> QED BY <1>3

LEMMA WalkIsWalk ==
  ASSUME NEW parts, Len(parts) \in Nat
  PROVE  \E f : /\ IsWalk(parts, Len(parts), f)
                /\ fat16_get_directory_entry(parts) = f[Len(parts)]
<1> DEFINE C == CHOOSE f : IsWalk(parts, Len(parts), f)
<1>1. fat16_get_directory_entry(parts) = C[Len(parts)]
  BY DEF fat16_get_directory_entry, IsWalk, WalkPart
<1>2. IsWalk(parts, Len(parts), C)
  BY WalkExists
<1> QED BY <1>1, <1>2

Subdirectories(items) == {vol.dirs[e.first] : e \in {x \in items : x.dir}}
NamedIn(dirs, part) == {e \in UNION {EntriesOf(d) : d \in dirs} : e.name = part}

IsFound(parts, n, f) ==
  f = [i \in 1..n |-> NamedIn(IF i = 1 THEN {vol.root} ELSE Subdirectories(f[i - 1]), parts[i])]

LEMMA FoundExists ==
  ASSUME NEW parts, NEW n \in Nat
  PROVE  \E f : IsFound(parts, n, f)
<1> DEFINE S == {m \in Nat : \E f : IsFound(parts, m, f)}
           G(i, x) == NamedIn(IF i = 1 THEN {vol.root} ELSE Subdirectories(x), parts[i])
<1>1. 0 \in S
  <2> DEFINE f == [i \in 1..0 |-> {}]
  <2>1. IsFound(parts, 0, f)
    BY DEF IsFound
  <2> QED BY <2>1
<1>2. ASSUME NEW m \in 0..(n - 1), m \in S PROVE m + 1 \in S
  <2>1. PICK f : IsFound(parts, m, f)
    BY <1>2
  <2> DEFINE h == [i \in 1..(m + 1) |-> IF i <= m THEN f[i] ELSE G(m + 1, f[m])]
  <2>2. \A i \in 1..m : f[i] = G(i, f[i - 1])
    BY <2>1 DEF IsFound
  <2> HIDE DEF G
  <2>3. ASSUME NEW i \in 1..(m + 1) PROVE h[i] = G(i, h[i - 1])
    <3>1. CASE i = 1
      <4>1. \A x, y : G(1, x) = G(1, y)
        BY DEF G
      <4>2. h[1] = IF 1 <= m THEN f[1] ELSE G(m + 1, f[m])
        OBVIOUS
      <4>3. CASE 1 <= m
        <5>1. 1 \in 1..m
          BY <4>3
        <5> QED BY <2>2, <3>1, <4>1, <4>2, <4>3, <5>1
      <4>4. CASE ~(1 <= m)
        <5>1. m = 0 /\ m + 1 = 1
          BY <4>4
        <5> QED BY <3>1, <4>1, <4>2, <5>1
      <4> QED BY <4>3, <4>4
    <3>2. CASE i # 1
      <4>1. i - 1 \in 1..m /\ i - 1 \in 1..(m + 1)
        BY <3>2
      <4>2. h[i - 1] = f[i - 1]
        BY <4>1
      <4>3. CASE i <= m
        BY <2>2, <4>2, <4>3
      <4>4. CASE ~(i <= m)
        <5>1. i = m + 1 /\ i - 1 = m
          BY <4>4
        <5> QED BY <4>2, <5>1
      <4> QED BY <4>3, <4>4
    <3> QED BY <3>1, <3>2
  <2>4. IsFound(parts, m + 1, h)
    BY <2>3 DEF IsFound, G
  <2> QED BY <2>4
<1>3. 0..n \subseteq S
  <2> HIDE DEF S
  <2> QED BY <1>1, <1>2, InductionUpTo
<1> QED BY <1>3

LEMMA FoundIsFound ==
  ASSUME NEW parts, Len(parts) \in Nat
  PROVE  \E f : IsFound(parts, Len(parts), f) /\ EntriesAt(parts) = f[Len(parts)]
<1> DEFINE C == CHOOSE f : IsFound(parts, Len(parts), f)
<1>1. EntriesAt(parts) = C[Len(parts)]
  BY DEF EntriesAt, IsFound, NamedIn, Subdirectories, EntriesOf
<1>2. IsFound(parts, Len(parts), C)
  BY FoundExists
<1> QED BY <1>1, <1>2

(* The directories of the disk. *)
Directories == {vol.root} \cup {vol.dirs[c] : c \in DOMAIN vol.dirs}

LEMMA DirectoryEntries ==
  ASSUME vol \in Volumes, NEW d \in Directories
  PROVE  /\ d \in Seq(Entries)
         /\ EntriesOf(d) \subseteq Entries
         /\ \A e \in EntriesOf(d) : e.dir => vol.dirs[e.first] \in Directories
         /\ TidyDisk => Tidy(d)
<1>1. IsVolume(vol)
  BY FilesAssumption
<1>2. d \in Seq(Entries)
  BY <1>1 DEF IsVolume, Directories
<1>3. EntriesOf(d) \subseteq Entries
  BY <1>2 DEF EntriesOf
<1>4. \A i \in 1..Len(d) : d[i].dir => d[i].first \in DOMAIN vol.dirs
  BY <1>1 DEF IsVolume, Directories
<1>5. \A e \in EntriesOf(d) : e.dir => vol.dirs[e.first] \in Directories
  BY <1>4 DEF EntriesOf, Directories
<1>6. TidyDisk => Tidy(d)
  BY DEF TidyDisk, Directories
<1> QED BY <1>2, <1>3, <1>5, <1>6

(* What one part of the walk finds in directories of the disk. *)
LEMMA PartFinds ==
  ASSUME vol \in Volumes, NEW part, NEW w, w.dir \subseteq Directories
  PROVE  /\ WalkPart(part, w).item \subseteq NamedIn(w.dir, part)
         /\ TidyDisk => WalkPart(part, w).item = NamedIn(w.dir, part)
         /\ WalkPart(part, w).dir = Subdirectories(WalkPart(part, w).item)
         /\ WalkPart(part, w).dir \subseteq Directories
         /\ WalkPart(part, w).item \subseteq Entries
<1> DEFINE dirs == w.dir
<1>1. WalkPart(part, w).item = UNION {fat16_find_item_in_directory(d, part) : d \in dirs}
  BY DEF WalkPart
<1>2. WalkPart(part, w).dir = Subdirectories(WalkPart(part, w).item)
  BY DEF WalkPart, Subdirectories
<1>3. ASSUME NEW d \in dirs
      PROVE  /\ fat16_find_item_in_directory(d, part) \subseteq {e \in EntriesOf(d) : e.name = part}
             /\ TidyDisk => fat16_find_item_in_directory(d, part) = {e \in EntriesOf(d) : e.name = part}
  BY DirectoryEntries, FindInDirectory
<1> DEFINE found == WalkPart(part, w).item
<1>4. found \subseteq NamedIn(dirs, part)
  BY <1>1, <1>3 DEF NamedIn
<1>5. TidyDisk => NamedIn(dirs, part) \subseteq found
  BY <1>1, <1>3 DEF NamedIn
<1>6. \A e \in NamedIn(dirs, part) : e \in Entries /\ (e.dir => vol.dirs[e.first] \in Directories)
  BY DirectoryEntries DEF NamedIn
<1>7. found \subseteq Entries /\ Subdirectories(found) \subseteq Directories
  BY <1>4, <1>6 DEF Subdirectories
<1> QED BY <1>2, <1>4, <1>5, <1>7

(* fat16_get_directory_entry finds only entries at the path, and on a tidy *)
(* disk all of them.                                                       *)
LEMMA WalkFinds ==
  ASSUME vol \in Volumes, NEW parts, Len(parts) \in Nat \ {0}
  PROVE  /\ fat16_get_directory_entry(parts).item \subseteq EntriesAt(parts)
         /\ TidyDisk => fat16_get_directory_entry(parts).item = EntriesAt(parts)
         /\ fat16_get_directory_entry(parts).item \subseteq Entries
<1>1. PICK n \in Nat \ {0} : n = Len(parts)
  OBVIOUS
<1>2. PICK f : IsWalk(parts, n, f) /\ fat16_get_directory_entry(parts) = f[n]
  BY <1>1, WalkIsWalk
<1>3. PICK g : IsFound(parts, n, g) /\ EntriesAt(parts) = g[n]
  BY <1>1, FoundIsFound
<1>4. f[0].dir = {vol.root} /\ \A i \in 1..n : f[i] = WalkPart(parts[i], f[i - 1])
  <2>1. f[0] = [dir |-> {vol.root}, item |-> {}, stream |-> stream]
    BY <1>2 DEF IsWalk
  <2>2. ASSUME NEW i \in 1..n PROVE f[i] = WalkPart(parts[i], f[i - 1])
    <3>1. i \in 0..n /\ i # 0
      OBVIOUS
    <3> QED BY <1>2, <3>1 DEF IsWalk
  <2> QED BY <2>1, <2>2
<1>5. \A i \in 1..n : g[i] = NamedIn(IF i = 1 THEN {vol.root} ELSE Subdirectories(g[i - 1]), parts[i])
  BY <1>3 DEF IsFound
<1> DEFINE P(i) == /\ f[i].item \subseteq g[i]
                   /\ TidyDisk => f[i].item = g[i]
                   /\ f[i].dir = Subdirectories(f[i].item)
                   /\ f[i].dir \subseteq Directories
                   /\ f[i].item \subseteq Entries
           S == {i \in Nat : i >= 1 /\ i <= n => P(i)}
<1>6. \A a, b : a \subseteq b => Subdirectories(a) \subseteq Subdirectories(b)
  BY DEF Subdirectories
<1>7. 0 \in S
  OBVIOUS
<1>8. ASSUME NEW i \in 0..(n - 1), i \in S PROVE i + 1 \in S
  <2>1. i + 1 \in 1..n /\ (i + 1) - 1 = i /\ i + 1 \in Nat
    OBVIOUS
  <2>2. PICK dirs : dirs = f[i].dir
    OBVIOUS
  <2>3. PICK from : from = IF i + 1 = 1 THEN {vol.root} ELSE Subdirectories(g[i])
    OBVIOUS
  <2>4. dirs \in SUBSET Directories /\ dirs \subseteq from /\ (TidyDisk => dirs = from)
    <3>1. CASE i = 0
      <4>1. dirs = {vol.root} /\ from = {vol.root}
        BY <1>4, <2>2, <2>3, <3>1
      <4> QED BY <4>1 DEF Directories
    <3>2. CASE i # 0
      <4>1. P(i)
        BY <1>8, <3>2
      <4>2. from = Subdirectories(g[i])
        BY <2>3, <3>2
      <4> QED BY <1>6, <2>2, <4>1, <4>2
    <3> QED BY <3>1, <3>2
  <2>5. PICK w : w = f[i] /\ f[i + 1] = WalkPart(parts[i + 1], w) /\ w.dir = dirs
    BY <1>4, <2>1, <2>2
  <2>6. g[i + 1] = NamedIn(from, parts[i + 1])
    BY <1>5, <2>1, <2>3
  <2>7. /\ f[i + 1].item \subseteq NamedIn(dirs, parts[i + 1])
        /\ TidyDisk => f[i + 1].item = NamedIn(dirs, parts[i + 1])
        /\ f[i + 1].dir = Subdirectories(f[i + 1].item)
        /\ f[i + 1].dir \subseteq Directories
        /\ f[i + 1].item \subseteq Entries
    <3>1. PICK part : part = parts[i + 1]
      OBVIOUS
    <3>2. w.dir \subseteq Directories
      BY <2>4, <2>5
    <3>3. /\ WalkPart(part, w).item \subseteq NamedIn(w.dir, part)
          /\ TidyDisk => WalkPart(part, w).item = NamedIn(w.dir, part)
          /\ WalkPart(part, w).dir = Subdirectories(WalkPart(part, w).item)
          /\ WalkPart(part, w).dir \subseteq Directories
          /\ WalkPart(part, w).item \subseteq Entries
      BY <3>2, PartFinds
    <3> QED BY <2>5, <3>1, <3>3
  <2>8. f[i + 1].item \subseteq g[i + 1]
    <3>1. NamedIn(dirs, parts[i + 1]) \subseteq NamedIn(from, parts[i + 1])
      BY <2>4 DEF NamedIn
    <3> QED BY <2>6, <2>7, <3>1
  <2>9. TidyDisk => f[i + 1].item = g[i + 1]
    BY <2>4, <2>6, <2>7
  <2>10. P(i + 1)
    BY <2>7, <2>8, <2>9
  <2> QED BY <2>1, <2>10
<1>9. 0..n \subseteq S
  <2> HIDE DEF S
  <2> QED BY <1>7, <1>8, InductionUpTo
<1>10. P(n)
  BY <1>9
<1> QED BY <1>2, <1>3, <1>10

-----------------------------------------------------------------------------
(* Invariance. *)

LEMMA InitFilesInv == Init => FilesInv
<1> SUFFICES ASSUME Init PROVE FilesInv
  OBVIOUS
<1>1. NoFile \in Descriptors /\ MaxFd \in Nat
  BY FilesAssumption DEF Descriptors
<1> QED BY <1>1 DEF Init, FilesInv, StateOK

(* The parts kept of a path. *)
LEMMA PartsKept ==
  ASSUME NEW S, NEW parts \in Seq(S)
  PROVE  /\ Len(pathparser_parse(parts)) \in Nat
         /\ pathparser_parse(parts) # <<>> => Len(pathparser_parse(parts)) # 0
<1>0. PICK empty : pathparser_parse(parts) =
        SubSeq(parts, 1, Min({Len(parts)} \cup {i - 1 : i \in {j \in 1..Len(parts) : parts[j] = empty}}))
  BY Zenon DEF pathparser_parse
<1> DEFINE J == {j \in 1..Len(parts) : parts[j] = empty}
           M == {Len(parts)} \cup {i - 1 : i \in J}
<1>1. M \in SUBSET Nat /\ M # {} /\ Len(parts) \in M
  <2>1. J \subseteq 1..Len(parts) /\ Len(parts) \in Nat
    OBVIOUS
  <2> HIDE DEF J
  <2> QED BY <2>1
<1>2. PICK m \in Nat : m = Min(M) /\ m <= Len(parts)
  <2> HIDE DEF M
  <2> QED BY <1>1, MinIsLeast
<1>3. SubSeq(parts, 1, m) \in Seq(S)
  <2>1. \A i \in 1..m : parts[i] \in S
    BY <1>2
  <2> QED BY <1>2, <2>1, SubSeqProperties
<1>4. pathparser_parse(parts) = SubSeq(parts, 1, m)
  BY <1>0, <1>2
<1> QED BY <1>3, <1>4

(* What fopen opens, and where. *)
LEMMA FopenOpens ==
  ASSUME StateOK, NEW o \in Opens, fopen(o.path, o.mode)
  PROVE  LET parts == pathparser_parse(o.path.parts)
             found == fat16_get_directory_entry(parts).item
         IN
         /\ pc = "idle" /\ pc' = "idle" /\ vol' = vol /\ out' = <<>>
         /\ last'.call = "fopen" /\ last'.path = o.path
         /\ Len(parts) \in Nat \ {0} /\ found \subseteq Entries
         /\ \/ /\ ret' \in 1..MaxFd /\ file_descriptors[ret'] = NoFile
               /\ \E e \in found :
                    file_descriptors' = [file_descriptors EXCEPT ![ret'] = [item |-> e, pos |-> 0]]
            \/ /\ ret' = 0 /\ UNCHANGED file_descriptors
               /\ found = {} \/ \A fd \in 1..MaxFd : file_descriptors[fd] # NoFile
<1> DEFINE parts == pathparser_parse(o.path.parts)
           found == fat16_get_directory_entry(parts).item
           ok == found # {} /\ file_new_descriptor # {}
           fd == CHOOSE f \in file_new_descriptor : TRUE
           item == CHOOSE e \in found : TRUE
<1>1. /\ pc = "idle" /\ pc' = pc /\ vol' = vol /\ out' = <<>> /\ Openable(o.path, o.mode)
      /\ ret' = (IF ok THEN fd ELSE 0)
      /\ file_descriptors' = IF ok THEN [file_descriptors EXCEPT ![fd] = [item |-> item, pos |-> 0]]
                             ELSE file_descriptors
      /\ last' = [call |-> "fopen", fd |-> ret', path |-> o.path]
  BY DEF fopen
<1>2. Len(parts) \in Nat \ {0}
  <2>1. o.path.parts \in Seq(STRING)
    BY FilesAssumption
  <2> QED BY <1>1, <2>1, PartsKept DEF Openable
<1>3. found \subseteq Entries
  <2> HIDE DEF parts
  <2> QED BY <1>2, WalkFinds DEF StateOK
<1>4. last'.call = "fopen" /\ last'.path = o.path
  BY <1>1
<1>5. CASE ok
  <2>1. fd \in file_new_descriptor /\ item \in found
    BY <1>5
  <2>2. fd \in 1..MaxFd /\ file_descriptors[fd] = NoFile
    BY <2>1 DEF file_new_descriptor
  <2> HIDE DEF fd, item, found, parts
  <2> QED BY <1>1, <1>2, <1>3, <1>4, <1>5, <2>1, <2>2 DEF found, parts
<1>6. CASE ~ok
  <2>1. ASSUME file_new_descriptor = {}, NEW g \in 1..MaxFd, file_descriptors[g] = NoFile PROVE FALSE
    <3> DEFINE free == {f \in 1..MaxFd : file_descriptors[f] = NoFile}
    <3>1. free \in SUBSET Nat /\ free # {}
      BY <2>1
    <3>2. PICK f \in free : \A k \in free : f <= k
      <4> HIDE DEF free
      <4> QED BY <3>1, LeastElement
    <3>3. f \in file_new_descriptor
      <4>1. ASSUME NEW h \in 1..(f - 1) PROVE file_descriptors[h] # NoFile
        <5>1. MaxFd \in Nat
          BY FilesAssumption
        <5>2. h \in 1..MaxFd /\ ~(f <= h)
          BY <3>2, <5>1
        <5> QED BY <3>2, <5>2
      <4> QED BY <3>2, <4>1 DEF file_new_descriptor
    <3> QED BY <2>1, <3>3
  <2> HIDE DEF fd, item, found, parts
  <2> QED BY <1>1, <1>2, <1>3, <1>4, <1>6, <2>1 DEF found, parts
<1> QED BY <1>5, <1>6

LEMMA FopenInv ==
  ASSUME StateOK, NEW o \in Opens, fopen(o.path, o.mode)
  PROVE  StateOK' /\ pc' = "idle"
<1> DEFINE found == fat16_get_directory_entry(pathparser_parse(o.path.parts)).item
<1>1. /\ pc' = "idle" /\ vol' = vol /\ found \subseteq Entries
      /\ \/ /\ ret' \in 1..MaxFd
            /\ \E e \in found :
                 file_descriptors' = [file_descriptors EXCEPT ![ret'] = [item |-> e, pos |-> 0]]
         \/ ret' = 0 /\ UNCHANGED file_descriptors
  BY FopenOpens
<1> HIDE DEF found
<1>2. MaxFd \in Nat /\ 0 \in 0..MaxPos
  BY FilesAssumption
<1>3. ret' \in 0..MaxFd
  BY <1>1, <1>2
<1>4. file_descriptors' \in [1..MaxFd -> Descriptors]
  <2>1. file_descriptors \in [1..MaxFd -> Descriptors]
    BY DEF StateOK
  <2>2. \A e \in found : [item |-> e, pos |-> 0] \in Descriptors
    BY <1>1, <1>2 DEF Descriptors
  <2> QED BY <1>1, <2>1, <2>2
<1> QED BY <1>1, <1>3, <1>4 DEF StateOK

LEMMA FseekInv ==
  ASSUME StateOK, NEW fd \in 0..MaxFd, NEW offset \in Offsets, NEW whence,
         fseek(fd, offset, whence)
  PROVE  /\ StateOK' /\ pc = "idle" /\ pc' = "idle" /\ vol' = vol /\ out' = <<>>
         /\ last'.call = "none"
         /\ \/ UNCHANGED file_descriptors
            \/ /\ fd \in 1..MaxFd /\ file_descriptors[fd] # NoFile
               /\ \E to \in 0..MaxPos :
                    file_descriptors' = [file_descriptors EXCEPT
                                           ![fd] = [item |-> file_descriptors[fd].item, pos |-> to]]
<1> DEFINE d == file_get_descriptor(fd)
           ok == SeekResult(d, offset, whence) = 0
           to == IF whence = "SEEK_CUR" THEN d.pos + offset ELSE offset
<1>1. /\ pc = "idle" /\ pc' = pc /\ vol' = vol /\ out' = <<>>
      /\ ok => to <= MaxPos
      /\ ret' = SeekResult(d, offset, whence)
      /\ file_descriptors' = IF ok THEN [file_descriptors EXCEPT ![fd].pos = to] ELSE file_descriptors
      /\ last' = [NoCall EXCEPT !.fd = fd]
  BY DEF fseek
<1>2. last'.call = "none"
  BY <1>1 DEF NoCall
<1>3. ret' \in {EIO, EINVARG, EUNIMP} \cup 0..MaxFd
  <2>1. SeekResult(d, offset, whence) \in {EIO, EINVARG, EUNIMP, 0}
    BY DEF SeekResult
  <2>2. 0 \in 0..MaxFd
    BY FilesAssumption
  <2> QED BY <1>1, <2>1, <2>2
<1>4. CASE ~ok
  BY <1>1, <1>2, <1>3, <1>4 DEF StateOK
<1>5. CASE ok
  <2>1. d # NoFile
    BY <1>5 DEF SeekResult, EIO
  <2>2. /\ fd \in 1..MaxFd /\ d = file_descriptors[fd] /\ d \in [item : Entries, pos : 0..MaxPos]
    BY <2>1, DescriptorFound
  <2>3. offset \in Nat /\ MaxPos \in Nat
    BY FilesAssumption
  <2>4. PICK p \in 0..MaxPos : p = to
    BY <1>1, <1>5, <2>2, <2>3
  <2>5. PICK r : r = [item |-> d.item, pos |-> p]
    OBVIOUS
  <2>6. file_descriptors \in [1..MaxFd -> Descriptors]
    BY DEF StateOK
  <2>7. r \in Descriptors /\ [d EXCEPT !.pos = p] = r
    BY <2>2, <2>4, <2>5 DEF Descriptors
  <2>8. file_descriptors' = [file_descriptors EXCEPT ![fd] = r]
    BY <1>1, <1>5, <2>2, <2>4, <2>7
  <2>9. file_descriptors' \in [1..MaxFd -> Descriptors]
    BY <2>6, <2>7, <2>8
  <2>10. StateOK'
    BY <1>1, <1>3, <2>9 DEF StateOK
  <2> QED BY <1>1, <1>2, <2>1, <2>2, <2>4, <2>5, <2>8, <2>10
<1> QED BY <1>4, <1>5

LEMMA FcloseInv ==
  ASSUME StateOK, NEW fd \in 0..MaxFd, fclose(fd)
  PROVE  /\ StateOK' /\ pc = "idle" /\ pc' = "idle" /\ vol' = vol /\ out' = <<>>
         /\ last'.call = "none"
         /\ \/ UNCHANGED file_descriptors
            \/ /\ fd \in 1..MaxFd /\ file_descriptors[fd] # NoFile
               /\ file_descriptors' = [file_descriptors EXCEPT ![fd] = NoFile]
<1>1. /\ pc = "idle" /\ pc' = pc /\ vol' = vol /\ out' = <<>>
      /\ ret' \in {EIO, 0}
      /\ file_descriptors' = IF file_get_descriptor(fd) = NoFile THEN file_descriptors
                             ELSE [file_descriptors EXCEPT ![fd] = NoFile]
      /\ last' = [NoCall EXCEPT !.fd = fd]
  BY DEF fclose
<1>2. last'.call = "none"
  BY <1>1 DEF NoCall
<1>3. 0 \in 0..MaxFd /\ NoFile \in Descriptors
  BY FilesAssumption DEF Descriptors
<1>4. file_descriptors' \in [1..MaxFd -> Descriptors]
  BY <1>1, <1>3 DEF StateOK
<1>5. StateOK'
  BY <1>1, <1>3, <1>4 DEF StateOK
<1>6. file_get_descriptor(fd) # NoFile => fd \in 1..MaxFd /\ file_descriptors[fd] # NoFile
  BY DescriptorFound
<1> QED BY <1>1, <1>2, <1>5, <1>6

(* The calls that change no descriptor. *)
LEMMA OtherCallsInv ==
  ASSUME StateOK, NEW fd, NEW o, NEW r,
         fopen_rejected(o.path, o.mode) \/ fstat(fd) \/ fread_fails(r.size, r.nmemb, fd)
  PROVE  /\ StateOK' /\ pc = "idle" /\ pc' = "idle" /\ vol' = vol /\ out' = <<>>
         /\ last'.call = "none" /\ UNCHANGED file_descriptors
<1>1. /\ pc = "idle" /\ pc' = pc /\ vol' = vol /\ out' = <<>> /\ last' = NoCall
      /\ UNCHANGED file_descriptors /\ ret' \in {EIO, EINVARG, 0}
  BY DEF fopen_rejected, fstat, fread_fails
<1>2. 0 \in 0..MaxFd /\ last'.call = "none"
  BY <1>1, FilesAssumption DEF NoCall
<1> QED BY <1>1, <1>2 DEF StateOK

LEMMA ReadErrorInv ==
  ASSUME StateOK, ReadInv, read_error
  PROVE  StateOK' /\ pc' = "idle"
  BY DEF read_error, StateOK

(* At the end the position is behind the bytes asked for. *)
LEMMA ReadEndInv ==
  ASSUME StateOK, ReadInv, read_end
  PROVE  /\ StateOK' /\ pc' = "idle" /\ vol' = vol /\ out' = out /\ last' = last /\ ret' = rd.nmemb
         /\ rd.offset = last.pos + rd.size * rd.nmemb /\ rd.left = 1 /\ pc = "next"
         /\ file_descriptors' = [file_descriptors EXCEPT
                                   ![rd.fd] = [item |-> last.item, pos |-> rd.offset]]
<1>1. /\ pc = "next" /\ pc' = "idle" /\ rd.total = 0 /\ rd.left = 1
      /\ file_descriptors' = [file_descriptors EXCEPT ![rd.fd].pos = rd.offset]
      /\ ret' = rd.nmemb
      /\ UNCHANGED <<vol, stream, out, last>>
  BY DEF read_end
<1>2. Requested /\ Progress
  BY DEF ReadInv
<1>t. /\ rd.size \in Nat /\ rd.nmemb \in Nat /\ rd.offset \in Nat /\ rd.fd \in 1..MaxFd
      /\ last.pos \in Nat /\ last.item \in Entries
      /\ rd.size * rd.nmemb \in Nat
  BY <1>2, RequestTypes
<1>3. rd.offset = last.pos + rd.size * rd.nmemb
  <2>1. PICK y \in Nat : y = rd.size * rd.nmemb
    BY <1>t
  <2>2. rd.size * (rd.left - 1) = 0
    BY <1>1, <1>t
  <2>3. rd.offset + 0 + 0 = last.pos + y
    BY <1>1, <1>2, <2>1, <2>2 DEF Progress
  <2> QED BY <1>t, <2>1, <2>3
<1>4. rd.offset \in 0..MaxPos
  <2>1. rd.offset <= MaxPos /\ MaxPos \in Nat
    BY <1>2, <1>3, FilesAssumption DEF Requested
  <2> QED BY <1>t, <2>1
<1>5. PICK r : r = [item |-> last.item, pos |-> rd.offset]
  OBVIOUS
<1>6. file_descriptors \in [1..MaxFd -> Descriptors]
  BY DEF StateOK
<1>7. r \in Descriptors
  BY <1>t, <1>4, <1>5 DEF Descriptors
<1>8. [file_descriptors[rd.fd] EXCEPT !.pos = rd.offset] = r
  BY <1>2, <1>5 DEF Requested
<1>9. file_descriptors' = [file_descriptors EXCEPT ![rd.fd] = r]
  BY <1>1, <1>8
<1>10. file_descriptors' \in [1..MaxFd -> Descriptors]
  BY <1>6, <1>7, <1>9
<1>11. ret' \in {r1.nmemb : r1 \in Reads}
  BY <1>1, <1>2 DEF Requested
<1>12. StateOK'
  BY <1>1, <1>10, <1>11 DEF StateOK
<1> QED BY <1>1, <1>3, <1>5, <1>9, <1>12

(* Every step keeps the invariant. *)
LEMMA NextFilesInv == FilesInv /\ [Next]_vars => FilesInv'
<1> SUFFICES ASSUME FilesInv, [Next]_vars PROVE FilesInv'
  OBVIOUS
<1>0. StateOK /\ (pc # "idle" => ReadInv)
  BY DEF FilesInv
<1>1. ASSUME NEW o \in Opens, fopen(o.path, o.mode) PROVE FilesInv'
  BY <1>0, <1>1, FopenInv DEF FilesInv
<1>2. ASSUME NEW o \in Opens, fopen_rejected(o.path, o.mode) PROVE FilesInv'
  BY <1>0, <1>2, OtherCallsInv DEF FilesInv
<1>3. ASSUME NEW fd \in 0..MaxFd, NEW offset \in Offsets, NEW whence, fseek(fd, offset, whence)
      PROVE  FilesInv'
  BY <1>0, <1>3, FseekInv DEF FilesInv
<1>4. ASSUME NEW fd \in 0..MaxFd, fstat(fd) PROVE FilesInv'
  BY <1>0, <1>4, OtherCallsInv DEF FilesInv
<1>5. ASSUME NEW fd \in 0..MaxFd, fclose(fd) PROVE FilesInv'
  BY <1>0, <1>5, FcloseInv DEF FilesInv
<1>6. ASSUME NEW r \in Reads, NEW fd \in 0..MaxFd, fread(r.size, r.nmemb, fd) PROVE FilesInv'
  BY <1>0, <1>6, FreadInv DEF FilesInv
<1>7. ASSUME NEW r \in Reads, NEW fd \in 0..MaxFd, fread_fails(r.size, r.nmemb, fd) PROVE FilesInv'
  BY <1>0, <1>7, OtherCallsInv DEF FilesInv
<1>8. CASE Read
  <2>1. pc # "idle" /\ ReadInv
    BY <1>0, <1>8 DEF Read, read_cluster, read_error, diskstreamer_read, next_cluster, next_element, read_end
  <2> QED BY <1>0, <1>8, <2>1, ReadClusterInv, StreamerReadInv, NextClusterInv, NextElementInv,
             ReadErrorInv, ReadEndInv DEF FilesInv, Read
<1>9. CASE UNCHANGED vars
  <2>1. UNCHANGED <<vol, file_descriptors, stream, pc, rd, out, ret, last>>
    BY <1>9 DEF vars
  <2>2. StateOK'
    BY <1>0, <2>1 DEF StateOK
  <2>3. ASSUME ReadInv PROVE ReadInv'
    <3>1. Requested /\ Progress /\ LastStarted /\ StaysAligned /\ BytesInv
      BY <2>3 DEF ReadInv
    <3>2. rd' \in Reading
      BY <2>1, <3>1 DEF Requested, Reading
    <3>3. Requested' /\ (Sound' <=> Sound) /\ (Aligned' <=> Aligned)
      BY <2>1, <3>1, <3>2, RequestKept
    <3>4. Progress'
      BY <2>1, <3>1 DEF Progress
    <3>5. LastStarted'
      BY <2>1, <3>1, VolumeKept DEF LastStarted
    <3>6. StaysAligned'
      BY <2>1, <3>1, <3>3 DEF StaysAligned
    <3>7. BytesInv'
      BY <2>1, <3>1, <3>3, VolumeKept DEF BytesInv
    <3> QED BY <3>3, <3>4, <3>5, <3>6, <3>7 DEF ReadInv
  <2> QED BY <1>0, <2>1, <2>2, <2>3 DEF FilesInv
<1> QED BY <1>1, <1>2, <1>3, <1>4, <1>5, <1>6, <1>7, <1>8, <1>9 DEF Next

(* At every moment the read being run has copied the bytes of its file up  *)
(* to its offset, if its elements are aligned or the file is contiguous,   *)
(* and the stream stands at the file's next byte, for any disk and any     *)
(* sizes (fat16_read, fat16_read_internal_from_stream, diskstreamer_read). *)
THEOREM FilesInvariant == Spec => []FilesInv
<1>1. Init => FilesInv
  BY InitFilesInv
<1>2. FilesInv /\ [Next]_vars => FilesInv'
  BY NextFilesInv
<1> QED BY <1>1, <1>2, PTL DEF Spec

(* Positions stay within the bound, and a read's counters never fall below *)
(* zero.                                                                   *)
THEOREM FilesTypeOK == Spec => []TypeOK
<1>1. FilesInv => TypeOK
  <2> SUFFICES ASSUME FilesInv PROVE TypeOK
    OBVIOUS
  <2>1. \A fd \in 1..MaxFd : file_descriptors[fd].pos \in (-1)..MaxPos
    <3>1. MaxPos \in Nat /\ \A fd \in 1..MaxFd : file_descriptors[fd] \in Descriptors
      BY FilesAssumption DEF FilesInv, StateOK
    <3>2. \A d \in Descriptors : d.pos \in (-1)..MaxPos
      BY <3>1 DEF Descriptors, NoFile
    <3> QED BY <3>1, <3>2
  <2>2. pc # "idle" => rd.chunk \in Nat /\ rd.total \in Nat /\ rd.left \in 1..rd.nmemb
    BY RequestTypes DEF FilesInv, ReadInv, Progress
  <2> QED BY <2>1, <2>2 DEF FilesInv, StateOK, TypeOK
<1> QED BY <1>1, FilesInvariant, PTL

-----------------------------------------------------------------------------
(* The finished reads. *)

(* Where a state with a finished fread comes from. *)
LEMMA FinishedRead ==
  ASSUME FilesInv, [Next]_vars, pc' = "idle", last'.call = "fread"
  PROVE  UNCHANGED vars \/ (ReadInv /\ (read_error \/ read_end))
<1>0. StateOK /\ (pc # "idle" => ReadInv)
  BY DEF FilesInv
<1>1. ASSUME NEW o \in Opens, fopen(o.path, o.mode) PROVE FALSE
  BY <1>0, <1>1, FopenOpens
<1>2. ASSUME NEW o \in Opens, fopen_rejected(o.path, o.mode) PROVE FALSE
  BY <1>0, <1>2, OtherCallsInv
<1>3. ASSUME NEW fd \in 0..MaxFd, NEW offset \in Offsets, NEW whence, fseek(fd, offset, whence)
      PROVE  FALSE
  BY <1>0, <1>3, FseekInv
<1>4. ASSUME NEW fd \in 0..MaxFd, fstat(fd) PROVE FALSE
  BY <1>0, <1>4, OtherCallsInv
<1>5. ASSUME NEW fd \in 0..MaxFd, fclose(fd) PROVE FALSE
  BY <1>0, <1>5, FcloseInv
<1>6. ASSUME NEW r \in Reads, NEW fd \in 0..MaxFd, fread(r.size, r.nmemb, fd) PROVE FALSE
  BY <1>6 DEF fread
<1>7. ASSUME NEW r \in Reads, NEW fd \in 0..MaxFd, fread_fails(r.size, r.nmemb, fd) PROVE FALSE
  BY <1>0, <1>7, OtherCallsInv
<1>8. CASE Read
  <2>1. read_error \/ read_end
    BY <1>8 DEF Read, read_cluster, diskstreamer_read, next_cluster, next_element
  <2>2. pc # "idle"
    BY <2>1 DEF read_error, read_end
  <2> QED BY <1>0, <2>1, <2>2
<1> QED BY <1>1, <1>2, <1>3, <1>4, <1>5, <1>6, <1>7, <1>8 DEF Next

(* A sound read finds all its clusters. *)
LEMMA SoundFindsClusters ==
  ASSUME StateOK, ReadInv, pc = "cluster",
         ~last.item.dir, Linked(last.item), last.pos + rd.size * rd.nmemb <= last.item.size
  PROVE  ClusterOfRead # EIO
<1>1. Requested /\ Progress
  BY DEF ReadInv
<1>2. /\ rd.offset \in Nat /\ rd.total \in Nat /\ rd.total > 0 /\ last.pos \in Nat
      /\ last.item \in Entries /\ last.item.size \in Nat /\ rd.first = last.item.first
      /\ rd.size * rd.nmemb \in Nat /\ rd.offset + rd.total <= last.pos + rd.size * rd.nmemb
  BY <1>1, RequestTypes DEF Progress, Requested
<1>3. rd.offset < last.item.size
  <2>1. PICK y \in Nat : y = rd.size * rd.nmemb
    BY <1>2
  <2>2. rd.offset + rd.total <= last.pos + y /\ last.pos + y <= last.item.size
    BY <1>2, <2>1
  <2> QED BY <1>2, <2>2
<1> QED BY <1>2, <1>3, FoundInside DEF StateOK, ClusterOfRead

(* A sound read that ends has delivered the file's bytes. *)
LEMMA SoundDelivers ==
  ASSUME StateOK, ReadInv, read_end, Sound
  PROVE  Delivered'
<1>1. Requested /\ Progress /\ BytesInv
  BY DEF ReadInv
<1>2. /\ vol' = vol /\ out' = out /\ last' = last /\ ret' = rd.nmemb
      /\ rd.offset = last.pos + rd.size * rd.nmemb
      /\ file_descriptors' = [file_descriptors EXCEPT
                                ![rd.fd] = [item |-> last.item, pos |-> rd.offset]]
  BY ReadEndInv
<1>3. /\ last.size = rd.size /\ last.nmemb = rd.nmemb /\ last.fd = rd.fd /\ rd.fd \in 1..MaxFd
      /\ last.pos \in Nat /\ rd.size * rd.nmemb \in Nat
  BY <1>1, RequestTypes
<1>4. file_descriptors'[rd.fd] = [item |-> last.item, pos |-> rd.offset]
  BY <1>2, <1>3 DEF StateOK
<1>5. PICK y \in Nat : y = last.size * last.nmemb
  BY <1>3
<1>6. out \in Seq(Int) /\ Len(out) = y
  <2>1. rd.offset = last.pos + y
    BY <1>2, <1>3, <1>5
  <2>2. out \in Seq(Int) /\ Len(out) = rd.offset - last.pos
    BY <1>1 DEF Progress
  <2> QED BY <1>3, <2>1, <2>2
<1>7. out = [i \in 1..y |-> ByteAt(last.item, last.pos + i - 1)]
  <2>1. \A i \in 1..y : out[i] = ByteAt(last.item, last.pos + i - 1)
    BY <1>1, <1>6 DEF BytesInv
  <2>2. out = [i \in 1..y |-> out[i]]
    BY <1>6
  <2> QED BY <2>1, <2>2
<1>8. (out = [i \in 1..(last.size * last.nmemb) |-> ByteAt(last.item, last.pos + i - 1)])'
  <2>1. PICK it, p : it = last.item /\ p = last.pos /\ last'.item = it /\ last'.pos = p
    BY <1>2
  <2>2. (out = [i \in 1..y |-> ByteAt(it, p + i - 1)])'
    BY <1>2, <1>7, <2>1, VolumeKept
  <2> QED BY <1>2, <1>5, <2>1, <2>2
<1>9. ret' = last'.nmemb /\ file_descriptors'[last'.fd].pos = last'.pos + last'.size * last'.nmemb
  BY <1>2, <1>3, <1>4
<1> QED BY <1>8, <1>9 DEF Delivered

(* A read inside a file on any disk delivers the file's bytes, if each of  *)
(* its elements starts at a cluster's start or stays in a cluster.         *)
THEOREM AlignedReadsDeliver == Spec => []ReadsAlignedElements
<1>1. Init => ReadsAlignedElements
  BY DEF Init, NoCall, ReadsAlignedElements, ReadInside
<1>2. FilesInv /\ ReadsAlignedElements /\ [Next]_vars => ReadsAlignedElements'
  <2> SUFFICES ASSUME FilesInv, ReadsAlignedElements, [Next]_vars, ReadInside', Aligned'
               PROVE  Delivered'
    BY DEF ReadsAlignedElements
  <2>1. pc' = "idle" /\ last'.call = "fread"
    BY DEF ReadInside
  <2>2. CASE UNCHANGED vars
    <3>1. UNCHANGED <<vol, file_descriptors, pc, out, ret, last>>
      BY <2>2 DEF vars
    <3>2. ReadInside /\ Aligned
      BY <3>1, VolumeKept DEF ReadInside, Aligned
    <3>3. Delivered
      BY <3>2 DEF ReadsAlignedElements
    <3> QED BY <3>1, <3>3, VolumeKept DEF Delivered
  <2>3. CASE ReadInv /\ (read_error \/ read_end)
    <3>1. StateOK /\ ReadInv
      BY <2>3 DEF FilesInv
    <3>2. UNCHANGED <<vol, last>>
      BY <2>3 DEF read_error, read_end
    <3>3. last.size = rd.size /\ last.nmemb = rd.nmemb
      BY <3>1, RequestTypes DEF ReadInv
    <3>4. Sound
      BY <3>2, <3>3, VolumeKept DEF ReadInside, Aligned, Sound
    <3>5. ~read_error
      BY <3>1, <3>4, SoundFindsClusters DEF read_error, Sound
    <3> QED BY <2>3, <3>1, <3>4, <3>5, SoundDelivers
  <2> QED BY <2>1, <2>2, <2>3, FinishedRead
<1> QED BY <1>1, <1>2, FilesInvariant, PTL DEF Spec

(* A read whose last element starts behind the end of the chain fails and  *)
(* leaves the position alone, on any disk whose marks the code knows.      *)
THEOREM ReadsPastChainError == Spec => []ReadsPastChainFail
<1>1. Init => ReadsPastChainFail
  BY DEF Init, NoCall, ReadsPastChainFail
<1>2. FilesInv /\ ReadsPastChainFail /\ [Next]_vars => ReadsPastChainFail'
  <2> DEFINE k == (last.pos + last.size * (last.nmemb - 1)) \div ClusterSize
  <2> SUFFICES ASSUME FilesInv, ReadsPastChainFail, [Next]_vars,
                      pc' = "idle", last'.call = "fread", ~last'.item.dir,
                      NEW n \in 1..(k'), ClusterAt(last.item, n)' \in {EOC, 0}
               PROVE  ret' = EIO /\ file_descriptors'[last'.fd].pos = last'.pos
    BY DEF ReadsPastChainFail
  <2>1. CASE UNCHANGED vars
    <3>1. UNCHANGED <<vol, file_descriptors, pc, out, ret, last>>
      BY <2>1 DEF vars
    <3>2. n \in 1..k /\ ClusterAt(last.item, n) \in {EOC, 0}
      BY <3>1, VolumeKept
    <3> QED BY <3>1, <3>2 DEF ReadsPastChainFail
  <2>2. CASE ReadInv /\ read_error
    <3>1. UNCHANGED <<vol, file_descriptors, last>> /\ ret' = EIO
      BY <2>2 DEF read_error
    <3>2. file_descriptors[last.fd].pos = last.pos
      BY <2>2 DEF ReadInv, Requested
    <3> QED BY <3>1, <3>2
  <2>3. CASE ReadInv /\ read_end
    <3>1. UNCHANGED <<vol, last>> /\ rd.left = 1 /\ pc = "next"
      BY <2>3 DEF read_end
    <3>2. n \in 1..k /\ ClusterAt(last.item, n) \in {EOC, 0} /\ ~last.item.dir
      BY <3>1, VolumeKept
    <3>3. Requested /\ Progress /\ LastStarted
      BY <2>3 DEF ReadInv
    <3>4. /\ last.size = rd.size /\ last.nmemb = rd.nmemb /\ last.pos \in Nat
          /\ rd.size \in Nat /\ rd.nmemb - 1 \in Nat /\ last.item \in Entries
      BY <3>3, RequestTypes
    <3>5. PICK o \in Nat : o = last.pos + rd.size * (rd.nmemb - 1)
      BY <3>4
    <3>6. fat16_get_cluster_for_offset(last.item.first, o) # EIO
      BY <3>1, <3>2, <3>3, <3>5 DEF LastStarted, Requested
    <3>7. n \in 1..(o \div ClusterSize)
      BY <3>2, <3>4, <3>5
    <3>8. fat16_get_cluster_for_offset(last.item.first, o) = EIO
      <4>1. last.item.first \in Nat /\ vol \in Volumes
        BY <3>4 DEF Entries, FilesInv, StateOK
      <4> HIDE DEF k
      <4> QED BY <3>2, <3>7, <4>1, Sizes, OffsetFollowsChain
    <3> QED BY <3>6, <3>8
  <2> QED BY <2>1, <2>2, <2>3, FinishedRead
<1> QED BY <1>1, <1>2, FilesInvariant, PTL DEF Spec

(* A path opens an entry that is there, and on a tidy disk fails only when *)
(* none is or the table is full.                                           *)
THEOREM OpensWhatIsNamed == Spec => []OpensNamedFile
<1>1. Init => OpensNamedFile
  BY DEF Init, NoCall, OpensNamedFile
<1>2. FilesInv /\ OpensNamedFile /\ [Next]_vars => OpensNamedFile'
  <2> SUFFICES ASSUME FilesInv, OpensNamedFile, [Next]_vars, last'.call = "fopen", pc' = "idle"
               PROVE  OpensNamedFile'
    BY DEF OpensNamedFile
  <2>0. StateOK /\ (pc # "idle" => ReadInv)
    BY DEF FilesInv
  <2>1. CASE UNCHANGED vars
    <3>1. UNCHANGED <<vol, file_descriptors, pc, ret, last>>
      BY <2>1 DEF vars
    <3>2. TidyDisk' <=> TidyDisk
      BY <3>1, VolumeKept
    <3> QED BY <3>1, <3>2, VolumeKept DEF OpensNamedFile, TidyDisk
  <2>2. ASSUME NEW o \in Opens, fopen(o.path, o.mode) PROVE OpensNamedFile'
    <3> DEFINE parts == pathparser_parse(o.path.parts)
               found == fat16_get_directory_entry(parts).item
    <3>1. /\ vol' = vol /\ last'.path = o.path
          /\ Len(parts) \in Nat \ {0}
          /\ \/ /\ ret' \in 1..MaxFd
                /\ \E e \in found :
                     file_descriptors' = [file_descriptors EXCEPT ![ret'] = [item |-> e, pos |-> 0]]
             \/ /\ ret' = 0 /\ UNCHANGED file_descriptors
                /\ found = {} \/ \A fd \in 1..MaxFd : file_descriptors[fd] # NoFile
      BY <2>0, <2>2, FopenOpens
    <3>2. found \subseteq EntriesAt(parts) /\ (TidyDisk => found = EntriesAt(parts))
      <4> HIDE DEF parts
      <4> QED BY <2>0, <3>1, WalkFinds DEF StateOK
    <3> HIDE DEF found
    <3>3. PICK ps : ps = parts /\ ps = pathparser_parse(last'.path.parts)
      BY <3>1
    <3> HIDE DEF parts
    <3>4. EntriesAt(ps)' = EntriesAt(ps) /\ (TidyDisk' <=> TidyDisk)
      BY <3>1, VolumeKept
    <3>5. CASE ret' \in 1..MaxFd
      <4>1. ret' # 0
        BY <3>5
      <4>2. PICK e \in found :
              file_descriptors' = [file_descriptors EXCEPT ![ret'] = [item |-> e, pos |-> 0]]
        BY <3>1, <4>1
      <4>3. file_descriptors'[ret'] = [item |-> e, pos |-> 0]
        BY <2>0, <3>5, <4>2 DEF StateOK
      <4>4. file_descriptors'[ret'].item \in EntriesAt(ps)' /\ file_descriptors'[ret'].pos = 0
        BY <3>2, <3>3, <3>4, <4>2, <4>3
      <4> QED BY <3>3, <4>1, <4>4 DEF OpensNamedFile
    <3>6. CASE ~(ret' \in 1..MaxFd)
      <4>1. /\ ret' = 0 /\ UNCHANGED file_descriptors
            /\ found = {} \/ \A fd \in 1..MaxFd : file_descriptors[fd] # NoFile
        BY <3>1, <3>6
      <4>2. TidyDisk' => EntriesAt(ps)' = {} \/ \A fd \in 1..MaxFd : file_descriptors'[fd] # NoFile
        BY <3>2, <3>3, <3>4, <4>1
      <4> QED BY <3>3, <4>1, <4>2 DEF OpensNamedFile, TidyDisk
    <3> QED BY <3>5, <3>6
  <2>3. ASSUME NEW o \in Opens, fopen_rejected(o.path, o.mode) PROVE FALSE
    BY <2>0, <2>3, OtherCallsInv
  <2>4. ASSUME NEW fd \in 0..MaxFd, NEW offset \in Offsets, NEW whence, fseek(fd, offset, whence)
        PROVE  FALSE
    BY <2>0, <2>4, FseekInv
  <2>5. ASSUME NEW fd \in 0..MaxFd, fstat(fd) PROVE FALSE
    BY <2>0, <2>5, OtherCallsInv
  <2>6. ASSUME NEW fd \in 0..MaxFd, fclose(fd) PROVE FALSE
    BY <2>0, <2>6, FcloseInv
  <2>7. ASSUME NEW r \in Reads, NEW fd \in 0..MaxFd, fread(r.size, r.nmemb, fd) PROVE FALSE
    BY <2>7 DEF fread
  <2>8. ASSUME NEW r \in Reads, NEW fd \in 0..MaxFd, fread_fails(r.size, r.nmemb, fd) PROVE FALSE
    BY <2>0, <2>8, OtherCallsInv
  <2>9. CASE Read
    <3>1. pc # "idle" /\ last' = last
      BY <2>9 DEF Read, read_cluster, read_error, diskstreamer_read, next_cluster, next_element, read_end
    <3>2. last.call = "fread"
      BY <2>0, <3>1, RequestTypes DEF ReadInv
    <3> QED BY <3>1, <3>2
  <2> QED BY <2>1, <2>2, <2>3, <2>4, <2>5, <2>6, <2>7, <2>8, <2>9 DEF Next
<1> QED BY <1>1, <1>2, FilesInvariant, PTL DEF Spec

-----------------------------------------------------------------------------
(* Refinement: what the descriptors are to FileStore. *)

View(d) == IF d = NoFile THEN NoFile ELSE [bytes |-> BytesOf(d.item), pos |-> d.pos]
OpenFiles == [fd \in 1..MaxFd |-> View(file_descriptors[fd])]
Output == IF pc = "idle" THEN out ELSE <<>>
Asked == IF last.call = "fread" THEN last.size * last.nmemb ELSE 0

LEMMA ViewOpen ==
  ASSUME NEW d \in [item : Entries, pos : 0..MaxPos]
  PROVE  /\ d # NoFile /\ View(d) # NoFile
         /\ View(d) = [bytes |-> BytesOf(d.item), pos |-> d.pos]
<1>1. MaxPos \in Nat /\ d.pos \in 0..MaxPos
  BY FilesAssumption
<1>2. d.pos # -1
  BY <1>1
<1>3. d # NoFile
  BY <1>2 DEF NoFile
<1> QED BY <1>2, <1>3 DEF View, NoFile

LEMMA ViewKept ==
  ASSUME vol' = vol
  PROVE  \A d : View(d)' = View(d)
<1>1. \A item : BytesOf(item)' = BytesOf(item)
  BY VolumeKept DEF BytesOf
<1> QED BY <1>1 DEF View

(* One descriptor changes. *)
LEMMA OneChanges ==
  ASSUME StateOK, vol' = vol, NEW fd \in 1..MaxFd, NEW r,
         file_descriptors' = [file_descriptors EXCEPT ![fd] = r]
  PROVE  /\ OpenFiles' = [OpenFiles EXCEPT ![fd] = View(r)]
         /\ OpenFiles[fd] = View(file_descriptors[fd])
<1>1. file_descriptors' = [g \in 1..MaxFd |-> IF g = fd THEN r ELSE file_descriptors[g]]
  BY DEF StateOK
<1>2. \A g \in 1..MaxFd : View(file_descriptors[g])' = IF g = fd THEN View(r) ELSE View(file_descriptors[g])
  BY <1>1, ViewKept
<1> QED BY <1>2 DEF OpenFiles

LEMMA NoneChanges ==
  ASSUME vol' = vol, UNCHANGED file_descriptors
  PROVE  UNCHANGED OpenFiles
<1>1. \A g \in 1..MaxFd : View(file_descriptors[g])' = View(file_descriptors[g])
  BY ViewKept
<1> QED BY <1>1 DEF OpenFiles

(* FileStore's operators, of this view. *)
LEMMA StoreActions ==
  ASSUME NEW fd \in 1..MaxFd
  PROVE  /\ Store!NoEffect <=> Output' = <<>> /\ UNCHANGED OpenFiles
         /\ Store!IsOpen(fd) <=> OpenFiles[fd] # NoFile
         /\ Store!Open(fd) <=> /\ OpenFiles[fd] = NoFile /\ OpenFiles'[fd].pos = 0
                               /\ OpenFiles' = [OpenFiles EXCEPT ![fd] = OpenFiles'[fd]]
                               /\ Output' = <<>>
         /\ Store!Close(fd) <=> /\ OpenFiles[fd] # NoFile
                                /\ OpenFiles' = [OpenFiles EXCEPT ![fd] = NoFile]
                                /\ Output' = <<>>
         /\ Store!Seek(fd) <=> /\ OpenFiles[fd] # NoFile /\ OpenFiles'[fd].pos \in Nat
                               /\ OpenFiles' = [OpenFiles EXCEPT ![fd].pos = OpenFiles'[fd].pos]
                               /\ Output' = <<>>
         /\ Store!Within(fd) <=> OpenFiles[fd].pos + Asked' <= Len(OpenFiles[fd].bytes)
         /\ Store!Read(fd) <=>
              /\ OpenFiles[fd] # NoFile /\ Store!Within(fd) /\ Asked' > 0
              /\ Output' = SubSeq(OpenFiles[fd].bytes, OpenFiles[fd].pos + 1, OpenFiles[fd].pos + Asked')
              /\ OpenFiles' = [OpenFiles EXCEPT ![fd].pos = @ + Asked']
         /\ Store!ReadBeyond(fd) <=>
              /\ OpenFiles[fd] # NoFile /\ ~Store!Within(fd)
              /\ OpenFiles'[fd].pos \in {OpenFiles[fd].pos, OpenFiles[fd].pos + Asked'}
              /\ OpenFiles' = [OpenFiles EXCEPT ![fd].pos = OpenFiles'[fd].pos]
<1> USE DEF Store!Closed, NoFile, View
<1>1. Store!NoEffect <=> Output' = <<>> /\ UNCHANGED OpenFiles
  BY DEF Store!NoEffect, Output, OpenFiles
<1>2. Store!IsOpen(fd) <=> OpenFiles[fd] # NoFile
  BY DEF Store!IsOpen, OpenFiles
<1>3. Store!Open(fd) <=> /\ OpenFiles[fd] = NoFile /\ OpenFiles'[fd].pos = 0
                         /\ OpenFiles' = [OpenFiles EXCEPT ![fd] = OpenFiles'[fd]]
                         /\ Output' = <<>>
  BY <1>2 DEF Store!Open, OpenFiles, Output
<1>4. Store!Close(fd) <=> /\ OpenFiles[fd] # NoFile
                          /\ OpenFiles' = [OpenFiles EXCEPT ![fd] = NoFile]
                          /\ Output' = <<>>
  BY <1>2 DEF Store!Close, OpenFiles, Output
<1>5. Store!Seek(fd) <=> /\ OpenFiles[fd] # NoFile /\ OpenFiles'[fd].pos \in Nat
                         /\ OpenFiles' = [OpenFiles EXCEPT ![fd].pos = OpenFiles'[fd].pos]
                         /\ Output' = <<>>
  BY <1>2 DEF Store!Seek, OpenFiles, Output
<1>6. Store!Within(fd) <=> OpenFiles[fd].pos + Asked' <= Len(OpenFiles[fd].bytes)
  BY DEF Store!Within, OpenFiles, Asked
<1>7. Store!Read(fd) <=>
        /\ OpenFiles[fd] # NoFile /\ Store!Within(fd) /\ Asked' > 0
        /\ Output' = SubSeq(OpenFiles[fd].bytes, OpenFiles[fd].pos + 1, OpenFiles[fd].pos + Asked')
        /\ OpenFiles' = [OpenFiles EXCEPT ![fd].pos = @ + Asked']
  BY <1>2 DEF Store!Read, OpenFiles, Output, Asked
<1>8. Store!ReadBeyond(fd) <=>
        /\ OpenFiles[fd] # NoFile /\ ~Store!Within(fd)
        /\ OpenFiles'[fd].pos \in {OpenFiles[fd].pos, OpenFiles[fd].pos + Asked'}
        /\ OpenFiles' = [OpenFiles EXCEPT ![fd].pos = OpenFiles'[fd].pos]
  BY <1>2 DEF Store!ReadBeyond, OpenFiles, Asked
<1> QED BY <1>1, <1>2, <1>3, <1>4, <1>5, <1>6, <1>7, <1>8

(* A call with an empty result that leaves the descriptors alone. *)
LEMMA StoreNoEffect ==
  ASSUME vol' = vol, UNCHANGED file_descriptors, Output' = <<>>
  PROVE  Store!Next
<1>1. Store!NoEffect
  <2>1. UNCHANGED OpenFiles
    BY NoneChanges
  <2>2. 1 \in 1..MaxFd
    BY FilesAssumption
  <2> QED BY <2>1, <2>2, StoreActions
<1> QED BY <1>1 DEF Store!Next

LEMMA StoreOpen ==
  ASSUME StateOK, NEW o \in Opens, fopen(o.path, o.mode)
  PROVE  Store!Next
<1> DEFINE found == fat16_get_directory_entry(pathparser_parse(o.path.parts)).item
<1>1. /\ pc' = "idle" /\ vol' = vol /\ out' = <<>> /\ found \subseteq Entries
      /\ \/ /\ ret' \in 1..MaxFd /\ file_descriptors[ret'] = NoFile
            /\ \E e \in found :
                 file_descriptors' = [file_descriptors EXCEPT ![ret'] = [item |-> e, pos |-> 0]]
         \/ ret' = 0 /\ UNCHANGED file_descriptors
  BY FopenOpens
<1> HIDE DEF found
<1>2. Output' = <<>>
  BY <1>1 DEF Output
<1>3. CASE ret' = 0 /\ UNCHANGED file_descriptors
  BY <1>1, <1>2, <1>3, StoreNoEffect
<1>4. ASSUME NEW fd \in 1..MaxFd, file_descriptors[fd] = NoFile, NEW e \in found,
             file_descriptors' = [file_descriptors EXCEPT ![fd] = [item |-> e, pos |-> 0]]
      PROVE  Store!Next
  <2>1. PICK d \in [item : Entries, pos : 0..MaxPos] : d = [item |-> e, pos |-> 0]
    <3>1. e \in Entries
      BY <1>1
    <3>2. 0 \in 0..MaxPos
      BY FilesAssumption
    <3> QED BY <3>1, <3>2
  <2>2. /\ OpenFiles' = [OpenFiles EXCEPT ![fd] = View(d)]
        /\ OpenFiles[fd] = View(NoFile) /\ fd \in DOMAIN OpenFiles
    BY <1>1, <1>4, <2>1, OneChanges DEF OpenFiles
  <2>3. View(d).pos = 0 /\ View(NoFile) = NoFile
    BY <2>1, ViewOpen DEF View
  <2>4. OpenFiles'[fd] = View(d)
    BY <2>2
  <2>5. Store!Open(fd)
    BY <1>2, <2>2, <2>3, <2>4, StoreActions
  <2> QED BY <2>5 DEF Store!Next
<1> QED BY <1>1, <1>3, <1>4

LEMMA StoreClose ==
  ASSUME StateOK, NEW fd \in 0..MaxFd, fclose(fd)
  PROVE  Store!Next
<1>1. /\ pc' = "idle" /\ vol' = vol /\ out' = <<>>
      /\ \/ UNCHANGED file_descriptors
         \/ /\ fd \in 1..MaxFd /\ file_descriptors[fd] # NoFile
            /\ file_descriptors' = [file_descriptors EXCEPT ![fd] = NoFile]
  BY FcloseInv
<1>2. Output' = <<>>
  BY <1>1 DEF Output
<1>3. CASE UNCHANGED file_descriptors
  BY <1>1, <1>2, <1>3, StoreNoEffect
<1>4. CASE /\ fd \in 1..MaxFd /\ file_descriptors[fd] # NoFile
           /\ file_descriptors' = [file_descriptors EXCEPT ![fd] = NoFile]
  <2>1. file_descriptors[fd] \in [item : Entries, pos : 0..MaxPos]
    BY <1>4 DEF StateOK, Descriptors
  <2>2. /\ OpenFiles' = [OpenFiles EXCEPT ![fd] = View(NoFile)]
        /\ OpenFiles[fd] = View(file_descriptors[fd])
    BY <1>1, <1>4, OneChanges
  <2>3. View(NoFile) = NoFile /\ View(file_descriptors[fd]) # NoFile
    BY <2>1, ViewOpen DEF View
  <2>4. Store!Close(fd)
    BY <1>2, <1>4, <2>2, <2>3, StoreActions
  <2> QED BY <1>4, <2>4 DEF Store!Next
<1> QED BY <1>1, <1>3, <1>4

LEMMA StoreSeek ==
  ASSUME StateOK, NEW fd \in 0..MaxFd, NEW offset \in Offsets, NEW whence,
         fseek(fd, offset, whence)
  PROVE  Store!Next
<1>1. /\ pc' = "idle" /\ vol' = vol /\ out' = <<>>
      /\ \/ UNCHANGED file_descriptors
         \/ /\ fd \in 1..MaxFd /\ file_descriptors[fd] # NoFile
            /\ \E to \in 0..MaxPos :
                 file_descriptors' = [file_descriptors EXCEPT
                                        ![fd] = [item |-> file_descriptors[fd].item, pos |-> to]]
  BY FseekInv
<1>2. Output' = <<>>
  BY <1>1 DEF Output
<1>3. CASE UNCHANGED file_descriptors
  BY <1>1, <1>2, <1>3, StoreNoEffect
<1>4. ASSUME fd \in 1..MaxFd, file_descriptors[fd] # NoFile, NEW to \in 0..MaxPos,
             file_descriptors' = [file_descriptors EXCEPT
                                    ![fd] = [item |-> file_descriptors[fd].item, pos |-> to]]
      PROVE  Store!Next
  <2>1. PICK d \in [item : Entries, pos : 0..MaxPos] : d = file_descriptors[fd]
    BY <1>4 DEF StateOK, Descriptors
  <2>2. PICK r \in [item : Entries, pos : 0..MaxPos] : r = [item |-> d.item, pos |-> to]
    OBVIOUS
  <2>3. /\ OpenFiles' = [OpenFiles EXCEPT ![fd] = View(r)]
        /\ OpenFiles[fd] = View(d) /\ fd \in DOMAIN OpenFiles
    BY <1>1, <1>4, <2>1, <2>2, OneChanges DEF OpenFiles
  <2>4. PICK b : View(d) = [bytes |-> b, pos |-> d.pos] /\ View(r) = [bytes |-> b, pos |-> to]
    BY <2>2, ViewOpen
  <2>5. OpenFiles'[fd] = View(r) /\ View(r) = [View(d) EXCEPT !.pos = to] /\ View(r).pos = to
    BY <2>3, <2>4
  <2>6. OpenFiles' = [OpenFiles EXCEPT ![fd].pos = to]
    BY <2>3, <2>5
  <2>7. to \in Nat /\ View(d) # NoFile
    BY ViewOpen, FilesAssumption
  <2>8. Store!Seek(fd)
    BY <1>2, <1>4, <2>3, <2>5, <2>6, <2>7, StoreActions
  <2> QED BY <1>4, <2>8 DEF Store!Next
<1> QED BY <1>1, <1>3, <1>4

(* The bytes of a contiguous file, as FileStore sees them. *)
LEMMA BytesOfFile ==
  ASSUME vol \in Volumes, NEW item \in Entries
  PROVE  IF item.dir \/ ~Contiguous(item) THEN BytesOf(item) = <<>>
         ELSE /\ BytesOf(item) \in Seq(Int) /\ Len(BytesOf(item)) = item.size
              /\ \A k \in 1..item.size : BytesOf(item)[k] = ByteAt(item, k - 1)
<1> SUFFICES ASSUME ~item.dir, Contiguous(item)
             PROVE  /\ BytesOf(item) \in Seq(Int) /\ Len(BytesOf(item)) = item.size
                    /\ \A k \in 1..item.size : BytesOf(item)[k] = ByteAt(item, k - 1)
  BY DEF BytesOf
<1>1. item.size \in Nat /\ item.first \in Nat
  BY DEF Entries
<1>2. PICK b \in Int : b = RootEnd * SectorSize + (item.first - 2) * ClusterSize
  BY <1>1, SectorOfCluster
<1>3. BytesOf(item) = [k \in 1..item.size |-> b + (k - 1)]
  BY <1>2 DEF BytesOf
<1>4. BytesOf(item) \in Seq(Int) /\ Len(BytesOf(item)) = item.size
  BY <1>1, <1>3
<1>5. ASSUME NEW k \in 1..item.size PROVE BytesOf(item)[k] = ByteAt(item, k - 1)
  <2>1. PICK j \in 0..(item.size - 1) : j = k - 1
    BY <1>1
  <2>2. ByteAt(item, j) = b + j
    BY <1>2, ContiguousBytes
  <2> QED BY <1>3, <2>1, <2>2
<1> QED BY <1>4, <1>5

(* The last step of a read: all the bytes of a read within a contiguous    *)
(* file, or a read beyond.                                                 *)
LEMMA StoreReadEnds ==
  ASSUME StateOK, ReadInv, read_error \/ read_end
  PROVE  Store!Next
<1>1. Requested /\ Progress
  BY DEF ReadInv
<1>2. /\ rd.fd \in 1..MaxFd /\ last.pos \in Nat /\ last.item \in Entries /\ last.item.size \in Nat
      /\ last.size = rd.size /\ last.nmemb = rd.nmemb /\ last.call = "fread"
      /\ rd.size \in Nat \ {0} /\ rd.nmemb \in Nat \ {0}
  BY <1>1, RequestTypes
<1>3. PICK fd \in 1..MaxFd, it \in Entries, p \in Nat, y \in Nat :
        fd = rd.fd /\ it = last.item /\ p = last.pos /\ y = rd.size * rd.nmemb /\ y > 0
  <2>1. \A a, b \in Nat \ {0} : a * b \in Nat /\ a * b > 0
    OBVIOUS
  <2> QED BY <1>2, <2>1
<1>4. pc' = "idle" /\ vol' = vol /\ last' = last /\ out' = out /\ vol \in Volumes
  BY DEF read_error, read_end, StateOK
<1>5. Asked' = y /\ Output' = out
  BY <1>2, <1>3, <1>4 DEF Asked, Output
<1>6. PICK d \in [item : Entries, pos : 0..MaxPos] :
        /\ d = file_descriptors[fd] /\ d = [item |-> it, pos |-> p]
  BY <1>1, <1>3 DEF Requested
<1>7. PICK b : b = BytesOf(it) /\ View(d) = [bytes |-> b, pos |-> p] /\ View(d) # NoFile
  BY <1>6, ViewOpen
<1>8. OpenFiles[fd] = [bytes |-> b, pos |-> p] /\ fd \in DOMAIN OpenFiles /\ OpenFiles[fd] # NoFile
  BY <1>6, <1>7 DEF OpenFiles
<1>9. Store!Within(fd) <=> p + y <= Len(b)
  BY <1>5, <1>8, StoreActions
<1>10. ASSUME p + y <= Len(b)
       PROVE  /\ ~it.dir /\ Contiguous(it) /\ Len(b) = it.size /\ b \in Seq(Int)
              /\ \A k \in 1..it.size : b[k] = ByteAt(it, k - 1)
              /\ Sound
  <2>1. b # <<>>
    BY <1>3, <1>10
  <2>2. ~it.dir /\ Contiguous(it)
    BY <1>4, <1>7, <2>1, BytesOfFile
  <2>3. /\ b \in Seq(Int) /\ Len(b) = it.size
        /\ \A k \in 1..it.size : b[k] = ByteAt(it, k - 1)
    BY <1>4, <1>7, <2>2, BytesOfFile
  <2>4. Linked(it)
    BY <1>2, <1>3, <1>4, <1>10, <2>2, <2>3, ContiguousChain
  <2>5. Sound
    BY <1>3, <1>10, <2>2, <2>3, <2>4 DEF Sound
  <2> QED BY <2>2, <2>3, <2>5
<1>11. CASE read_error
  <2>1. ~Store!Within(fd)
    <3> SUFFICES ASSUME p + y <= Len(b) PROVE FALSE
      BY <1>9
    <3>1. Sound
      BY <1>10
    <3> QED BY <1>11, <3>1, SoundFindsClusters DEF read_error, Sound
  <2>2. UNCHANGED OpenFiles
    BY <1>4, <1>11, NoneChanges DEF read_error
  <2>3. OpenFiles' = [OpenFiles EXCEPT ![fd].pos = OpenFiles'[fd].pos]
    <3>1. [OpenFiles[fd] EXCEPT !.pos = OpenFiles[fd].pos] = OpenFiles[fd]
      BY <1>8
    <3>2. OpenFiles = [g \in 1..MaxFd |-> OpenFiles[g]]
      BY DEF OpenFiles
    <3> HIDE DEF OpenFiles
    <3> QED BY <2>2, <3>1, <3>2
  <2>4. OpenFiles'[fd].pos \in {OpenFiles[fd].pos, OpenFiles[fd].pos + Asked'}
    BY <2>2
  <2>5. Store!ReadBeyond(fd)
    BY <1>8, <2>1, <2>3, <2>4, StoreActions
  <2> QED BY <2>5 DEF Store!Next
<1>12. CASE read_end
  <2>1. /\ rd.offset = p + y
        /\ file_descriptors' = [file_descriptors EXCEPT ![fd] = [item |-> it, pos |-> rd.offset]]
    BY <1>3, <1>12, ReadEndInv
  <2>2. PICK r \in [item : Entries, pos : 0..MaxPos] : r = [item |-> it, pos |-> p + y]
    <3>1. p + y \in 0..MaxPos
      BY <1>1, <1>3 DEF Requested
    <3> QED BY <3>1
  <2>3. OpenFiles' = [OpenFiles EXCEPT ![fd] = View(r)]
    BY <1>4, <2>1, <2>2, OneChanges
  <2>4. View(r) = [bytes |-> b, pos |-> p + y] /\ View(r) = [OpenFiles[fd] EXCEPT !.pos = p + y]
    BY <1>7, <1>8, <2>2, ViewOpen
  <2>5. /\ OpenFiles' = [OpenFiles EXCEPT ![fd].pos = p + y]
        /\ OpenFiles'[fd].pos = p + y /\ OpenFiles[fd].pos = p
    <3>1. OpenFiles'[fd] = View(r)
      BY <1>8, <2>3
    <3>2. OpenFiles'[fd].pos = p + y
      BY <2>4, <3>1
    <3>3. OpenFiles[fd].pos = p
      BY <1>8
    <3>4. OpenFiles' = [OpenFiles EXCEPT ![fd].pos = p + y]
      BY <2>3, <2>4
    <3> QED BY <3>2, <3>3, <3>4
  <2>6. CASE ~(p + y <= Len(b))
    <3>1. Store!ReadBeyond(fd)
      BY <1>5, <1>8, <1>9, <2>5, <2>6, StoreActions
    <3> QED BY <3>1 DEF Store!Next
  <2>7. CASE p + y <= Len(b)
    <3>1. Delivered'
      BY <1>10, <1>12, <2>7, SoundDelivers
    <3>2. out = [i \in 1..y |-> ByteAt(it, p + i - 1)]
      BY <1>2, <1>3, <1>4, <3>1, VolumeKept DEF Delivered
    <3>3. out = SubSeq(b, p + 1, p + y)
      <4>1. \A k \in (p + 1)..(p + y) : b[k] \in Int
        BY <1>10, <2>7
      <4>2. /\ SubSeq(b, p + 1, p + y) \in Seq(Int)
            /\ Len(SubSeq(b, p + 1, p + y)) = y
            /\ \A i \in 1..y : SubSeq(b, p + 1, p + y)[i] = b[p + i]
        <5>1. PICK m \in Int, n \in Int : m = p + 1 /\ n = p + y
          OBVIOUS
        <5>2. /\ SubSeq(b, m, n) \in Seq(Int)
              /\ Len(SubSeq(b, m, n)) = IF m <= n THEN n - m + 1 ELSE 0
              /\ \A i \in 1..(n - m + 1) : SubSeq(b, m, n)[i] = b[m + i - 1]
          BY <4>1, <5>1, SubSeqProperties
        <5>3. m <= n /\ n - m + 1 = y /\ \A i \in 1..y : m + i - 1 = p + i
          BY <1>3, <5>1
        <5> QED BY <5>1, <5>2, <5>3
      <4>3. \A i \in 1..y : b[p + i] = ByteAt(it, p + i - 1)
        <5>1. \A i \in 1..y : p + i \in 1..it.size
          BY <1>10, <2>7
        <5> QED BY <1>10, <2>7, <5>1
      <4>4. PICK s \in Seq(Int) : s = SubSeq(b, p + 1, p + y)
        BY <4>2
      <4>5. s = [i \in 1..y |-> s[i]]
        <5>1. Len(s) = y
          BY <4>2, <4>4
        <5>2. s \in [1..Len(s) -> Int]
          BY LenProperties
        <5>3. \A n : s \in [1..n -> Int] => s = [i \in 1..n |-> s[i]]
          BY ONLY Zenon
        <5> QED BY ONLY <5>1, <5>2, <5>3
      <4>6. \A i \in 1..y : s[i] = ByteAt(it, p + i - 1)
        BY <4>2, <4>3, <4>4
      <4>7. s = out
        BY <3>2, <4>5, <4>6
      <4> QED BY <4>4, <4>7
    <3>4. Store!Read(fd)
      <4>1. OpenFiles[fd].pos + Asked' = p + y
        BY <1>5, <2>5
      <4>2. OpenFiles' = [OpenFiles EXCEPT ![fd].pos = @ + Asked']
        BY <2>5, <4>1
      <4>3. Output' = SubSeq(OpenFiles[fd].bytes, OpenFiles[fd].pos + 1, OpenFiles[fd].pos + Asked')
        <5>1. OpenFiles[fd].bytes = b /\ OpenFiles[fd].pos = p
          BY <1>8
        <5> QED BY <1>5, <3>3, <5>1
      <4>4. Store!Within(fd) /\ Asked' > 0
        BY <1>3, <1>5, <1>9, <2>7
      <4> QED BY <1>8, <4>2, <4>3, <4>4, StoreActions
    <3> QED BY <3>4 DEF Store!Next
  <2> QED BY <2>6, <2>7
<1> QED BY <1>11, <1>12

LEMMA StoreStep == FilesInv /\ [Next]_vars => [Store!Next]_(Store!vars)
<1> SUFFICES ASSUME FilesInv, [Next]_vars PROVE Store!Next \/ UNCHANGED Store!vars
  OBVIOUS
<1>0. StateOK /\ (pc # "idle" => ReadInv)
  BY DEF FilesInv
<1>1. ASSUME NEW o \in Opens, fopen(o.path, o.mode) PROVE Store!Next
  BY <1>0, <1>1, StoreOpen
<1>2. ASSUME NEW o, NEW r, NEW fd,
             fopen_rejected(o.path, o.mode) \/ fstat(fd) \/ fread_fails(r.size, r.nmemb, fd)
      PROVE  Store!Next
  <2>1. pc' = "idle" /\ vol' = vol /\ out' = <<>> /\ UNCHANGED file_descriptors
    BY <1>0, <1>2, OtherCallsInv
  <2>2. Output' = <<>>
    BY <2>1 DEF Output
  <2> QED BY <2>1, <2>2, StoreNoEffect
<1>3. ASSUME NEW fd \in 0..MaxFd, NEW offset \in Offsets, NEW whence, fseek(fd, offset, whence)
      PROVE  Store!Next
  BY <1>0, <1>3, StoreSeek
<1>4. ASSUME NEW fd \in 0..MaxFd, fclose(fd) PROVE Store!Next
  BY <1>0, <1>4, StoreClose
<1>5. ASSUME \/ \E r \in Reads, fd \in 0..MaxFd : fread(r.size, r.nmemb, fd)
             \/ read_cluster \/ diskstreamer_read \/ next_cluster \/ next_element
      PROVE  Store!Next
  <2>1. pc' # "idle" /\ vol' = vol /\ UNCHANGED file_descriptors
    BY <1>5 DEF fread, read_cluster, diskstreamer_read, next_cluster, next_element
  <2>2. Output' = <<>>
    BY <2>1 DEF Output
  <2> QED BY <2>1, <2>2, StoreNoEffect
<1>6. ASSUME read_error \/ read_end PROVE Store!Next
  <2>1. pc # "idle"
    BY <1>6 DEF read_error, read_end
  <2> QED BY <1>0, <1>6, <2>1, StoreReadEnds
<1>7. CASE UNCHANGED vars
  <2>1. UNCHANGED <<vol, file_descriptors, pc, out, last>>
    BY <1>7 DEF vars
  <2>2. UNCHANGED OpenFiles /\ UNCHANGED Output /\ UNCHANGED Asked
    BY <2>1, NoneChanges DEF Output, Asked
  <2> QED BY <2>2 DEF Store!vars, OpenFiles, View, Output, Asked
<1> QED BY <1>1, <1>2, <1>3, <1>4, <1>5, <1>6, <1>7 DEF Next, Read

(* For every disk, sector, cluster and table size the calls implement      *)
(* FileStore: a read inside a contiguous file is a single step that        *)
(* delivers its bytes from the descriptor's position on, and no call       *)
(* disturbs another descriptor, although all share one stream and a read   *)
(* takes many pieces (fs/file.c, fat16_read,                               *)
(* fat16_read_internal_from_stream, diskstreamer_read).                    *)
THEOREM FilesImplementStore == Spec => ImplementsFileStore
<1>1. Init => Store!Init
  <2> SUFFICES ASSUME Init PROVE Store!Init
    OBVIOUS
  <2>1. \A fd \in 1..MaxFd : file_descriptors[fd] = NoFile
    BY DEF Init
  <2>2. pc = "idle" /\ out = <<>>
    BY DEF Init
  <2> QED BY <2>1, <2>2 DEF Store!Init, Store!Closed, NoFile
<1>2. FilesInv /\ [Next]_vars => [Store!Next]_(Store!vars)
  BY StoreStep
<1> QED BY <1>1, <1>2, FilesInvariant, PTL DEF Spec, ImplementsFileStore, Store!Spec
=============================================================================
