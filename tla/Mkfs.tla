-------------------------------- MODULE Mkfs --------------------------------
(***************************************************************************)
(* mkfs/mkfs.c: how the file-system image that the kernel mounts is built, *)
(* from the sizes of the files that it is given.                           *)
(*                                                                         *)
(* A byte of file f is the number f, a byte of the directory entry of f    *)
(* too, and 0 is a byte that nothing was written to; a block number takes  *)
(* the place of one byte.                                                  *)
(***************************************************************************)
EXTENDS Naturals, Sequences, FiniteSetsExt

CONSTANTS
    FSSIZE,      \* the blocks of the image
    nmeta,       \* of these, the first ones: boot, super, log, inodes and bitmap
    MaxFiles,    \* the bound on the files given: mkfs.c counts neither files nor inodes
    BSIZE,
    NDIRECT,
    DIRENT,      \* the size of a directory entry
    BPB,         \* blocks per block of the bitmap
    FileSizes    \* the sizes of the files given

NINDIRECT == BSIZE
MAXFILE   == NDIRECT + NINDIRECT
ROOTINO   == 1
Inum      == 1..(MaxFiles + 1)     \* the root and the files, within NINODES

VARIABLES
    freeinode, freeblock,
    dinode,      \* the inodes of the image
    data,        \* its blocks
    bitmap,      \* the blocks marked in use
    queue,       \* the calls of iappend() to come: inode, byte, and how many
    sizes,       \* the sizes of the files given so far; not in the code
    status       \* "running", "done" after exit(0), "assert" or "die" without an image

vars == <<freeinode, freeblock, dinode, data, bitmap, queue, sizes, status>>

rinode(inum) == dinode[inum]
winode(inum, din) == dinode' = [dinode EXCEPT ![inum] = din]

\* ialloc(): the next inode, all zero, and what is to be appended.
ialloc(appends) ==
    /\ freeinode' = freeinode + 1
    /\ winode(freeinode, [addrs |-> [k \in 0..NDIRECT |-> 0], size |-> 0])
    /\ queue' = appends
    /\ UNCHANGED <<freeblock, data, bitmap, status>>

\* main(): the root with "." and "..", ...
root ==
    /\ status = "running" /\ queue = <<>>
    /\ freeinode = ROOTINO
    /\ ialloc(<< <<ROOTINO, ROOTINO, DIRENT>>, <<ROOTINO, ROOTINO, DIRENT>> >>)
    /\ UNCHANGED sizes

\* ... and a file of n bytes: its entry in the root, and then its content.
file(n) ==
    /\ status = "running" /\ queue = <<>>
    /\ freeinode > ROOTINO /\ Len(sizes) < MaxFiles
    /\ ialloc(<< <<ROOTINO, freeinode, DIRENT>>, <<freeinode, freeinode, n>> >>)
    /\ sizes' = Append(sizes, n)

\* One round of the loop of iappend(): the addresses that are missing, the indirect
\* block before the data block, and the bytes up to the end of the block.  Each block
\* is read before it is written, so one past the end of the image is the end of mkfs.
n1(n, off, fbn) == Min({n, (fbn + 1) * BSIZE - off})

rsect(sec) == sec < FSSIZE

Iappend(inum, byte, n) ==
    LET din == rinode(inum)
        off == din.size
        fbn == off \div BSIZE
        slot == IF fbn < NDIRECT THEN fbn ELSE NDIRECT
        a == IF din.addrs[slot] = 0 THEN freeblock ELSE din.addrs[slot]
        next == IF din.addrs[slot] = 0 THEN freeblock + 1 ELSE freeblock
        old == data[a][fbn - NDIRECT]
        x == IF fbn < NDIRECT THEN a ELSE IF old = 0 THEN next ELSE old
        c == n1(n, off, fbn) IN
    \/ /\ fbn < MAXFILE
       /\ rsect(a) /\ rsect(x)
       /\ freeblock' = IF fbn >= NDIRECT /\ old = 0 THEN next + 1 ELSE next
       /\ data' = [b \in DOMAIN data |-> [k \in 0..(BSIZE - 1) |->
                       IF b = x /\ k \in (off % BSIZE)..((off % BSIZE) + c - 1) THEN byte
                       ELSE IF b = a /\ fbn >= NDIRECT /\ k = fbn - NDIRECT THEN x
                       ELSE data[b][k]]]
       /\ winode(inum, [addrs |-> [din.addrs EXCEPT ![slot] = a], size |-> off + c])
       /\ queue' = [queue EXCEPT ![1][3] = @ - c]
       /\ UNCHANGED status
    \/ /\ fbn < MAXFILE
       /\ rsect(a) => ~rsect(x)
       /\ status' = "die"
       /\ UNCHANGED <<freeblock, data, dinode, queue>>
    \/ /\ fbn >= MAXFILE
       /\ status' = "assert"
       /\ UNCHANGED <<freeblock, data, dinode, queue>>

iappend ==
    /\ status = "running" /\ queue # <<>>
    /\ Head(queue)[3] > 0
    /\ Iappend(Head(queue)[1], Head(queue)[2], Head(queue)[3])
    /\ UNCHANGED <<freeinode, bitmap, sizes>>

appended ==
    /\ status = "running" /\ queue # <<>>
    /\ Head(queue)[3] = 0
    /\ queue' = Tail(queue)
    /\ UNCHANGED <<freeinode, freeblock, dinode, data, bitmap, sizes, status>>

\* The size of the root, the bitmap, and exit(0), unless assert(used < BPB) fails.
Rounded_down(off) == (off \div BSIZE) * BSIZE
Rounded(off) == ((off \div BSIZE) + 1) * BSIZE

balloc(used) == 0..(used - 1)

finish ==
    /\ status = "running" /\ queue = <<>>
    /\ freeinode > ROOTINO
    /\ winode(ROOTINO, [rinode(ROOTINO) EXCEPT !.size = Rounded(@)])
    /\ IF freeblock < BPB
       THEN bitmap' = balloc(freeblock) /\ status' = "done"
       ELSE status' = "assert" /\ UNCHANGED bitmap
    /\ UNCHANGED <<freeinode, freeblock, data, queue, sizes>>

----------------------------------------------------------------------------
Init ==
    /\ freeinode = 1
    /\ freeblock = nmeta
    /\ dinode = [i \in Inum |-> [addrs |-> [k \in 0..NDIRECT |-> 0], size |-> 0]]
    /\ data = [b \in nmeta..(FSSIZE - 1) |-> [k \in 0..(BSIZE - 1) |-> 0]]
    /\ bitmap = {}
    /\ queue = <<>>
    /\ sizes = <<>>
    /\ status = "running"

Next ==
    \/ root \/ iappend \/ appended \/ finish
    \/ \E n \in FileSizes : file(n)

Spec == Init /\ [][Next]_vars

----------------------------------------------------------------------------
(* Properties *)

Addr(i, bn) ==
    IF bn < NDIRECT THEN dinode[i].addrs[bn]
    ELSE IF dinode[i].addrs[NDIRECT] = 0 THEN 0
    ELSE data[dinode[i].addrs[NDIRECT]][bn - NDIRECT]

\* What the kernel finds at byte k of a file: a block without an address is a hole.
Byte(i, k) == IF Addr(i, k \div BSIZE) = 0 THEN 0 ELSE data[Addr(i, k \div BSIZE)][k % BSIZE]

\* mkfs.c:236-250: in the image the blocks marked in use are the metadata and exactly
\* the blocks that an address names, each named once: what fs.c's balloc() relies on.
Slots == Inum \X (0..MAXFILE)
AddrOf(s) == IF s[2] = NDIRECT THEN dinode[s[1]].addrs[NDIRECT]
             ELSE Addr(s[1], IF s[2] < NDIRECT THEN s[2] ELSE s[2] - 1)
ImageOwned ==
    status = "done" =>
        /\ bitmap = 0..(nmeta - 1) \cup ({AddrOf(s) : s \in Slots} \ {0})
        /\ \A s, t \in Slots : s # t /\ AddrOf(s) = AddrOf(t) => AddrOf(s) = 0
        /\ \A s \in Slots : AddrOf(s) = 0 \/ AddrOf(s) \in nmeta..(FSSIZE - 1)

\* mkfs.c:117-170, 254-296: in the image every file has the bytes it was given, no
\* more and no fewer; the root has an entry for each file, in order, within its size,
\* and only free entries after them.  Every block of the root exists, but for the last
\* one when the entries fill those before it exactly: the size is rounded up even then,
\* and the root ends in a hole.
Entries == 2 + Len(sizes)
Filled  == (Entries * DIRENT) % BSIZE = 0
ImageReads ==
    status = "done" =>
        /\ \A j \in 1..Len(sizes) :
             /\ dinode[ROOTINO + j].size = sizes[j]
             /\ \A k \in 0..(sizes[j] - 1) : Byte(ROOTINO + j, k) = ROOTINO + j
        /\ dinode[ROOTINO].size \in (Entries * DIRENT)..(Entries * DIRENT + BSIZE)
        /\ \A k \in 0..(dinode[ROOTINO].size - 1) :
             LET entry == k \div DIRENT IN
             /\ Byte(ROOTINO, k) = IF entry < 2 THEN ROOTINO
                                   ELSE IF entry < Entries THEN ROOTINO + entry - 1
                                   ELSE 0
             /\ Addr(ROOTINO, k \div BSIZE) = 0 <=> Filled /\ entry >= Entries

\* The image that mkfs.c leaves, when the files are no more than its inodes, is one the
\* kernel can use: its bitmap, addresses and sizes agree, its blocks are within FSSIZE,
\* and it reads back as what went in.
ImageSound == ImageOwned /\ ImageReads
=============================================================================
