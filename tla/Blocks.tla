------------------------------- MODULE Blocks -------------------------------
(***************************************************************************)
(* What files hold: the block bitmap, block addresses, direct and          *)
(* indirect, and the content of kernel/fs.c, with fileread(), filewrite()  *)
(* of kernel/file.c and open(O_TRUNC).  What a crash brings back is, as    *)
(* Log proves, the disk as it was when no call was active.                 *)
(*                                                                         *)
(* A byte of file f is f itself, or 0 if nothing was written to it; a      *)
(* block number takes the place of one byte.                               *)
(***************************************************************************)
EXTENDS Naturals, FiniteSets, FiniteSetsExt

CONSTANTS
    Proc,          \* the processes
    File,          \* the files
    NBLOCK,        \* the data blocks of the disk are 1..NBLOCK
    BPB,           \* blocks per block of the bitmap
    BSIZE,         \* the size of a block
    NDIRECT,       \* direct addresses of an inode
    MAXOPBLOCKS,   \* what a call may write to the log
    Count,         \* the sizes of reads and writes
    None           \* no process

ASSUME BlocksAssumption ==
    /\ {NBLOCK, BPB, BSIZE} \subseteq Nat \ {0}
    /\ NDIRECT \in Nat
    /\ MAXOPBLOCKS \in Nat /\ MAXOPBLOCKS >= 6
    /\ Count \subseteq Nat \ {0}
    /\ None \notin Proc

Block     == 1..NBLOCK
NINDIRECT == BSIZE
MAXFILE   == NDIRECT + NINDIRECT

\* The most that filewrite() writes in one transaction.
max_without_slop == ((MAXOPBLOCKS - 1 - 1) \div 2) * BSIZE
max == ((MAXOPBLOCKS - 1 - 1 - 2) \div 2) * BSIZE

VARIABLES
    bitmap,    \* the blocks in use
    data,      \* the content of each block
    dinode,    \* the inodes on the disk: their addrs and size
    inode,     \* the inodes in memory
    lock,      \* [File -> the holder of ip->lock]
    \* The processes: their open file and the local variables of their call.
    file, off,
    pc,
    left,      \* what filewrite() has still to write: n - i
    todo,      \* what writei() has still to write: n - tot
    pos,       \* where: off of writei(); the index j of itrunc()
    logged,    \* the blocks given to log_write() in this transaction
    active,    \* the calls between begin_op() and end_op()
    panic

disk  == <<bitmap, data, dinode>>
local == <<left, todo, pos>>
vars  == <<disk, inode, lock, file, off, pc, local, logged, active, panic>>

Goto(p, l) == pc' = [pc EXCEPT ![p] = l]
Logs(p, s) == logged' = [logged EXCEPT ![p] = @ \cup s]

----------------------------------------------------------------------------
(* Blocks *)

BBLOCK(b) == [bitmap |-> (b - 1) \div BPB]

Zeroes == [k \in 0..(BSIZE - 1) |-> 0]
free   == Block \ bitmap

\* balloc() of the first free block, which is zeroed, where the block that is to
\* hold its address now has the content d, and s is logged with it.
balloc(p, d, s) ==
    LET b == Min(free) IN
    /\ bitmap' = bitmap \cup {b}
    /\ data' = [d EXCEPT ![b] = Zeroes]
    /\ Logs(p, {BBLOCK(b), [block |-> b]} \cup s)

bfree(p, b) ==
    /\ bitmap' = bitmap \ {b}
    /\ panic' = IF b \in bitmap THEN panic ELSE "freeing free block"
    /\ Logs(p, {BBLOCK(b)})

\* The block address of block bn of the inode ip, or 0.
Addr(ip, bn) ==
    IF bn < NDIRECT THEN ip.addrs[bn]
    ELSE IF ip.addrs[NDIRECT] = 0 THEN 0
    ELSE data[ip.addrs[NDIRECT]][bn - NDIRECT]

\* Byte k of the content of an inode.
Byte(ip, k) == data[Addr(ip, k \div BSIZE)][k % BSIZE]

----------------------------------------------------------------------------
(* writei(), of process p that has locked its file *)

bn(p) == pos[p] \div BSIZE

\* bmap(): an address is missing, in the inode or in its indirect block.
bmap_alloc(p) ==
    LET f == file[p]
        ip == inode[f]
        slot == IF bn(p) < NDIRECT THEN bn(p) ELSE NDIRECT IN
    /\ pc[p] = "bmap"
    /\ bn(p) < MAXFILE
    /\ Addr(ip, bn(p)) = 0
    /\ free # {}
    /\ \/ /\ ip.addrs[slot] = 0
          /\ balloc(p, data, {})
          /\ inode' = [inode EXCEPT ![f].addrs[slot] = Min(free)]
       \/ /\ ip.addrs[slot] # 0
          /\ balloc(p, [data EXCEPT ![ip.addrs[slot]][bn(p) - NDIRECT] = Min(free)],
                    {[block |-> ip.addrs[slot]]})
          /\ UNCHANGED inode
    /\ UNCHANGED <<dinode, lock, file, off, pc, local, active, panic>>

bmap_fails(p) ==
    /\ pc[p] = "bmap"
    /\ bn(p) >= MAXFILE \/ (Addr(inode[file[p]], bn(p)) = 0 /\ free = {})
    /\ panic' = IF bn(p) >= MAXFILE THEN "bmap: out of range" ELSE panic
    /\ Goto(p, "writei_end")
    /\ UNCHANGED <<disk, inode, lock, file, off, local, logged, active>>

\* bmap() finds the block, and either_copyin() copies to it: all that is asked, or
\* the first k bytes if the user memory ends there.
Copied(p, k) ==
    [data EXCEPT ![Addr(inode[file[p]], bn(p))] =
        [j \in 0..(BSIZE - 1) |->
            IF j \in (pos[p] % BSIZE)..((pos[p] % BSIZE) + k - 1) THEN file[p] ELSE @[j]]]

copy(p) ==
    LET m == Min({todo[p], BSIZE - (pos[p] % BSIZE)}) IN
    /\ pc[p] = "bmap"
    /\ bn(p) < MAXFILE
    /\ Addr(inode[file[p]], bn(p)) # 0
    /\ \/ /\ data' = Copied(p, m)
          /\ Logs(p, {[block |-> Addr(inode[file[p]], bn(p))]})
          /\ todo' = [todo EXCEPT ![p] = @ - m]
          /\ pos' = [pos EXCEPT ![p] = @ + m]
          /\ Goto(p, IF todo[p] = m THEN "writei_end" ELSE "bmap")
       \/ /\ \E k \in 0..(m - 1) : data' = Copied(p, k)
          /\ Goto(p, "writei_end")
          /\ UNCHANGED <<logged, todo, pos>>
    /\ UNCHANGED <<bitmap, dinode, inode, lock, file, off, left, active, panic>>

\* iupdate() of inode ip of file f, at the end of writei() that has written up to
\* k.  The size grows with what was written.
Grown_as_asked(ip, k, rest) == [ip EXCEPT !.size = IF k + rest > @ THEN k + rest ELSE @]
Grown(ip, k, rest) == [ip EXCEPT !.size = IF k > @ THEN k ELSE @]

iunlock(f) == lock' = [lock EXCEPT ![f] = None]

iupdate_if_grown(f, ip) ==
    dinode' = IF ip.size = dinode[f].size THEN dinode ELSE [dinode EXCEPT ![f] = ip]
iupdate(f, ip) == dinode' = [dinode EXCEPT ![f] = ip]

writei_end(p) ==
    LET f == file[p] IN
    /\ pc[p] = "writei_end"
    /\ inode' = [inode EXCEPT ![f] = Grown(@, pos[p], todo[p])]
    /\ iupdate(f, inode'[f])
    /\ Logs(p, {[inode |-> f]})
    /\ off' = [off EXCEPT ![p] = pos[p]]
    /\ left' = [left EXCEPT ![p] = IF todo[p] = 0 THEN @ - (pos[p] - off[p]) ELSE 0]
    /\ iunlock(f)
    /\ Goto(p, "end_op")
    /\ UNCHANGED <<bitmap, data, file, todo, pos, active, panic>>

----------------------------------------------------------------------------
(* filewrite(), fileread() and open() *)

filewrite(p, n) ==
    /\ pc[p] = "idle"
    /\ left' = [left EXCEPT ![p] = n]
    /\ Goto(p, "chunk")
    /\ UNCHANGED <<disk, inode, lock, file, off, todo, pos, logged, active, panic>>

\* One transaction of filewrite(): begin_op(), ilock(), and the tests of writei().
TooLong(k, n) == k + n > MAXFILE * BSIZE

chunk(p) ==
    LET f == file[p]
        n == Min({left[p], max}) IN
    /\ pc[p] = "chunk"
    /\ lock[f] = None
    /\ active' = active \cup {p}
    /\ \/ /\ off[p] > inode[f].size \/ TooLong(off[p], n)
          /\ left' = [left EXCEPT ![p] = 0]
          /\ Goto(p, "end_op")
          /\ UNCHANGED <<lock, todo, pos>>
       \/ /\ off[p] <= inode[f].size /\ ~TooLong(off[p], n)
          /\ lock' = [lock EXCEPT ![f] = p]
          /\ todo' = [todo EXCEPT ![p] = n]
          /\ pos' = [pos EXCEPT ![p] = off[p]]
          /\ Goto(p, "bmap")
          /\ UNCHANGED left
    /\ UNCHANGED <<disk, inode, file, off, logged, panic>>

\* The transaction ends; it is committed when no other is active.
end_op(p) ==
    /\ pc[p] = "end_op"
    /\ active' = active \ {p}
    /\ logged' = [logged EXCEPT ![p] = {}]
    /\ todo' = [todo EXCEPT ![p] = 0]
    /\ pos' = [pos EXCEPT ![p] = 0]
    /\ Goto(p, IF left[p] > 0 THEN "chunk" ELSE "idle")
    /\ UNCHANGED <<disk, inode, lock, file, off, left, panic>>

\* fileread() is outside any transaction: if readi() met a hole, bmap() would
\* allocate a block there, and log_write() panic.
fileread(p, n) ==
    LET ip == inode[file[p]]
        m == IF off[p] > ip.size THEN 0 ELSE Min({n, ip.size - off[p]}) IN
    /\ pc[p] = "idle"
    /\ lock[file[p]] = None
    /\ \E copied \in BOOLEAN : off' = [off EXCEPT ![p] = IF copied THEN @ + m ELSE @]
    /\ panic' = IF \E k \in off[p]..(off[p] + m - 1) : Addr(ip, k \div BSIZE) = 0
                THEN "log_write outside of trans" ELSE panic
    /\ UNCHANGED <<disk, inode, lock, file, pc, local, logged, active>>

open(p, f) ==
    /\ pc[p] = "idle"
    /\ lock[f] = None
    /\ file' = [file EXCEPT ![p] = f]
    /\ off' = [off EXCEPT ![p] = 0]
    /\ UNCHANGED <<disk, inode, lock, pc, local, logged, active, panic>>

----------------------------------------------------------------------------
(* itrunc(), for open(O_TRUNC) *)

open_trunc(p, f) ==
    /\ pc[p] = "idle"
    /\ lock[f] = None
    /\ file' = [file EXCEPT ![p] = f]
    /\ off' = [off EXCEPT ![p] = 0]
    /\ lock' = [lock EXCEPT ![f] = p]
    /\ active' = active \cup {p}
    /\ Goto(p, "itrunc")
    /\ UNCHANGED <<disk, inode, local, logged, panic>>

direct(p)   == {k \in 0..(NDIRECT - 1) : inode[file[p]].addrs[k] # 0}
indirect(p) == inode[file[p]].addrs[NDIRECT]
entries(p)  == {j \in pos[p]..(NINDIRECT - 1) : data[indirect(p)][j] # 0}

\* One bfree(), with the address set to 0 where it was in the inode.
Cleared(ip, k) == [ip EXCEPT !.addrs[k] = 0]

itrunc(p) ==
    LET f == file[p] IN
    /\ pc[p] = "itrunc"
    /\ \/ /\ direct(p) # {}
          /\ bfree(p, inode[f].addrs[Min(direct(p))])
          /\ inode' = [inode EXCEPT ![f] = Cleared(@, Min(direct(p)))]
          /\ UNCHANGED pos
       \/ /\ direct(p) = {} /\ indirect(p) # 0 /\ entries(p) # {}
          /\ bfree(p, data[indirect(p)][Min(entries(p))])
          /\ pos' = [pos EXCEPT ![p] = Min(entries(p)) + 1]
          /\ UNCHANGED inode
       \/ /\ direct(p) = {} /\ indirect(p) # 0 /\ entries(p) = {}
          /\ bfree(p, indirect(p))
          /\ inode' = [inode EXCEPT ![f] = Cleared(@, NDIRECT)]
          /\ UNCHANGED pos
    /\ UNCHANGED <<data, dinode, lock, file, off, pc, left, todo, active>>

\* ip->size = 0 and iupdate(); iunlock() of open().
itrunc_end(p) ==
    LET f == file[p] IN
    /\ pc[p] = "itrunc"
    /\ direct(p) = {} /\ indirect(p) = 0
    /\ inode' = [inode EXCEPT ![f].size = 0]
    /\ iupdate(f, inode'[f])
    /\ Logs(p, {[inode |-> f]})
    /\ iunlock(f)
    /\ Goto(p, "end_op")
    /\ UNCHANGED <<bitmap, data, file, off, local, active, panic>>

----------------------------------------------------------------------------
Init ==
    /\ bitmap = {}
    /\ data = [b \in Block |-> Zeroes]
    /\ dinode = [f \in File |-> [addrs |-> [k \in 0..NDIRECT |-> 0], size |-> 0]]
    /\ inode = dinode
    /\ lock = [f \in File |-> None]
    /\ file \in [Proc -> File]
    /\ off = [p \in Proc |-> 0]
    /\ pc = [p \in Proc |-> "idle"]
    /\ left = [p \in Proc |-> 0]
    /\ todo = [p \in Proc |-> 0]
    /\ pos = [p \in Proc |-> 0]
    /\ logged = [p \in Proc |-> {}]
    /\ active = {}
    /\ panic = ""

Next ==
    /\ panic = ""
    /\ \E p \in Proc :
        \/ bmap_alloc(p) \/ bmap_fails(p) \/ copy(p) \/ writei_end(p)
        \/ chunk(p) \/ end_op(p) \/ itrunc(p) \/ itrunc_end(p)
        \/ \E n \in Count : filewrite(p, n) \/ fileread(p, n)
        \/ \E f \in File : open(p, f) \/ open_trunc(p, f)

Spec == Init /\ [][Next]_vars

----------------------------------------------------------------------------
(* Properties *)

Inodes == [addrs : [0..NDIRECT -> Block \cup {0}], size : 0..(MAXFILE * BSIZE)]
Bytes  == [0..(BSIZE - 1) -> File \cup Block \cup {0}]

\* The types, and that who holds the lock of a file is in a call on this file.
TypeOK ==
    /\ bitmap \subseteq Block /\ data \in [Block -> Bytes]
    /\ dinode \in [File -> Inodes] /\ inode \in [File -> Inodes]
    /\ lock \in [File -> Proc \cup {None}]
    /\ \A f \in File : lock[f] # None =>
          file[lock[f]] = f /\ pc[lock[f]] \in {"bmap", "writei_end", "itrunc"}

\* No block is freed twice, no address is out of range, and no read allocates.
NoPanic == panic = ""

\* fs.c:66-106, 405-476: in every state that the log commits, and so a crash can
\* bring back, a block is marked in use exactly if one address names it: none is
\* lost, whatever failed, and none is in two files or twice in one.  On the way
\* there no block is freed twice (bfree() would panic).
Slots == File \X (0..MAXFILE)
AddrOf(s) == IF s[2] = NDIRECT THEN dinode[s[1]].addrs[NDIRECT]
             ELSE Addr(dinode[s[1]], IF s[2] < NDIRECT THEN s[2] ELSE s[2] - 1)
BlocksOwned ==
    /\ TypeOK /\ NoPanic
    /\ active = {} =>
        /\ bitmap = {AddrOf(s) : s \in Slots} \ {0}
        /\ \A s, t \in Slots : s # t /\ AddrOf(s) = AddrOf(t) => AddrOf(s) = 0

\* fs.c:494-562: a file that nobody has locked holds, up to its size, what was
\* written to it: no hole, no zero, nothing of another file, and nothing that was
\* in the block before.
ReadsOwn ==
    \A f \in File : lock[f] = None =>
        \A k \in 0..(inode[f].size - 1) :
            Addr(inode[f], k \div BSIZE) # 0 /\ Byte(inode[f], k) = f

\* file.c:148-152: a chunk of filewrite() logs at most MAXOPBLOCKS blocks, also
\* where it starts in the middle of a block, allocates the indirect block, and finds
\* each free block in another block of the bitmap.  This is what begin_op()
\* reserves for it.
WriteFits == \A p \in Proc : Cardinality(logged[p]) <= MAXOPBLOCKS
=============================================================================
