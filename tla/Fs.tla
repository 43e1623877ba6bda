--------------------------------- MODULE Fs ---------------------------------
(***************************************************************************)
(* kernel/fs.c and kernel/sysfile.c: inodes, the in-memory inode table,    *)
(* directories, path lookup and the system calls that change them.  The    *)
(* write-ahead log is what Log proves it to be: a crash brings back the    *)
(* disk as it was when no call was active.  What files hold, and the       *)
(* blocks that hold it, are left out.                                      *)
(*                                                                         *)
(* One action is one section under the sleep-lock of an inode, or under    *)
(* itable.lock; between two actions the process holds what the code holds. *)
(***************************************************************************)
EXTENDS Naturals, Sequences, FiniteSets, FiniteSetsExt

CONSTANTS
    Proc,      \* the processes
    NINODES,   \* sb.ninodes - 1: the inodes of the disk are 1..NINODES
    NINODE,    \* the number of entries of the inode table
    Name,      \* the names of files and directories
    Calls,     \* the system calls the processes make
    DirFull,   \* a subset of BOOLEAN: whether a directory may fail to grow
    None,      \* no process
    MaxCrash   \* the bound on the number of crashes

Inum  == 1..NINODES
Root  == 1
Entry == Name \cup {".", ".."}
Type  == {"free", "dir", "file", "dev", "baddev"}   \* baddev: major >= NDEV

\* The sizes of the tables.
FsSizes ==
    /\ NINODES \in Nat \ {0} /\ NINODE \in Nat /\ MaxCrash \in Nat
    /\ None \notin Proc /\ DirFull \subseteq BOOLEAN

VARIABLES
    disk,      \* [Inum -> dinode]: what the calls see of the disk
    stable,    \* [Inum -> dinode]: what a crash brings back
    \* The inode table: the entry of each inode, in use if ref > 0.
    ref, valid,
    mem,       \* [Inum -> the in-memory copy of type and nlink]
    lock,      \* [Inum -> the holder of ip->lock]
    \* The processes: their state and the local variables of their call.
    cwd,
    fd,        \* [Proc -> Inum \cup {0}]: the inode of its open file
    pc, call,
    path,      \* what namex() has still to walk
    ip, dp,    \* the inodes at hand: dp is also where namex() is
    todo,      \* the sequence of iput()s and iunlockput()s to do now
    then,      \* where the call goes on after them
    active,    \* the calls between begin_op() and end_op()
    up,        \* FALSE while booting
    panic,     \* the message of a panic, or ""
    crashes

fsdisk == <<disk, stable>>
itable == <<ref, valid, mem, lock>>
proc   == <<cwd, fd>>
vars   == <<fsdisk, itable, proc, pc, call, path, ip, dp, todo, then, active, up, panic, crashes>>

----------------------------------------------------------------------------
(* The disk and the inode table. *)

NoEntries == [n \in Entry |-> 0]
NoCall    == [op |-> "none"]
FreeInode == [type |-> "free", nlink |-> 0, ents |-> NoEntries]

\* The type and nlink of an inode once ilock() has returned.
Inode(i) == IF valid[i] THEN mem[i] ELSE [type |-> disk[i].type, nlink |-> disk[i].nlink]

NoType(i) == ~valid[i] /\ disk[i].type = "free"

\* The disk d with the in-memory inode m of i copied to it.
iupdate(d, i, m) == [d EXCEPT ![i].type = m.type, ![i].nlink = m.nlink]

\* iget() of inode i, or of 0 for none, after v has become the valid bits.
TableFull(i) == i # 0 /\ ref[i] = 0 /\ Cardinality({j \in Inum : ref[j] > 0}) >= NINODE

iget(i, v) ==
    /\ ref' = [j \in Inum |-> IF j = i THEN ref[j] + 1 ELSE ref[j]]
    /\ valid' = [j \in Inum |-> v[j] /\ (j = i => ref[j] > 0)]

\* The section of the code under ilock(i), for an inode nobody has locked: its
\* in-memory copy is read from the disk if it has to be.  The section leaves the
\* in-memory copies m, and calls iget() of inode got.
ReadIn(i) == [mem EXCEPT ![i] = Inode(i)]
Section(i, m, got) ==
    /\ lock[i] = None
    /\ mem' = m
    /\ iget(got, [valid EXCEPT ![i] = TRUE])
    /\ panic' = IF NoType(i) THEN "ilock: no type"
                ELSE IF TableFull(got) THEN "iget: no inodes" ELSE panic

\* The process goes on to do the iput()s s, then to label l.
iput_(i) == [ino |-> i, unlock |-> FALSE]
iunlockput(i) == [ino |-> i, unlock |-> TRUE]

Goto(p, l) == pc' = [pc EXCEPT ![p] = l] /\ UNCHANGED <<todo, then>>
Puts(p, s, l) ==
    /\ pc' = [pc EXCEPT ![p] = "iput"]
    /\ todo' = [todo EXCEPT ![p] = s]
    /\ then' = [then EXCEPT ![p] = l]
Set(f, p, v) == f' = [f EXCEPT ![p] = v]

----------------------------------------------------------------------------
(* iput(): the next of the iput()s of process p. *)

Put(p)  == Head(todo[p])
LastRef_ignores_ref(i) == valid[i] /\ mem[i].nlink = 0
LastRef(i) == ref[i] = 1 /\ valid[i] /\ mem[i].nlink = 0

PutDone(p) ==
    /\ ref' = [ref EXCEPT ![Put(p).ino] = @ - 1]
    /\ todo' = [todo EXCEPT ![p] = Tail(@)]
    /\ pc' = [pc EXCEPT ![p] = IF Len(todo[p]) = 1 THEN then[p] ELSE "iput"]
    /\ then' = [then EXCEPT ![p] = IF Len(todo[p]) = 1 THEN "" ELSE @]

\* The test, under itable.lock.  An acquiresleep() that has to wait would call
\* sched() with a spin-lock held, which panics.
iput(p) ==
    LET i == Put(p).ino
        held == IF Put(p).unlock THEN None ELSE lock[i] IN
    /\ pc[p] = "iput"
    /\ \/ /\ LastRef(i)
          /\ panic' = IF held # None THEN "sched locks" ELSE panic
          /\ lock' = [lock EXCEPT ![i] = p]
          /\ Set(pc, p, "itrunc")
          /\ UNCHANGED <<ref, todo, then>>
       \/ /\ ~LastRef(i)
          /\ lock' = [lock EXCEPT ![i] = held]
          /\ PutDone(p)
          /\ UNCHANGED panic
    /\ UNCHANGED <<fsdisk, valid, mem, proc, call, path, ip, dp, active, up, crashes>>

\* itrunc(ip); ip->type = 0; iupdate(ip); ip->valid = 0; releasesleep().
itrunc(p) ==
    LET i == Put(p).ino IN
    /\ pc[p] = "itrunc"
    /\ mem' = [mem EXCEPT ![i].type = "free"]
    /\ disk' = iupdate([disk EXCEPT ![i].ents = NoEntries], i, mem'[i])
    /\ valid' = [valid EXCEPT ![i] = FALSE]
    /\ lock' = [lock EXCEPT ![i] = None]
    /\ Set(pc, p, "drop")
    /\ UNCHANGED <<stable, ref, proc, call, path, ip, dp, todo, then, active, up, panic, crashes>>

drop(p) ==
    /\ pc[p] = "drop"
    /\ PutDone(p)
    /\ UNCHANGED <<fsdisk, valid, mem, lock, proc, call, path, ip, dp, active, up, panic, crashes>>

----------------------------------------------------------------------------
(* A call begins, with begin_op() and the first inode of its path; it ends  *)
(* with end_op(), which commits if no other call is active.                 *)

\* namei() or nameiparent() of path q.
Lookup(p, q, l) ==
    LET i == IF q.abs THEN Root ELSE cwd[p] IN
    /\ iget(i, valid)
    /\ panic' = IF TableFull(i) THEN "iget: no inodes" ELSE panic
    /\ Set(dp, p, i)
    /\ Set(path, p, q.elems)
    /\ Goto(p, l)

begin(p, c) ==
    /\ up /\ pc[p] = "idle"
    /\ c.op # "close"
    /\ Set(call, p, c)
    /\ Lookup(p, c.path, IF c.op \in {"open", "link", "chdir"} THEN "namei" ELSE "nameiparent")
    /\ active' = active \cup {p}
    /\ UNCHANGED <<fsdisk, mem, lock, proc, ip, up, crashes>>

\* sys_close() of an inode's last descriptor.
close(p, c) ==
    /\ up /\ pc[p] = "idle"
    /\ c.op = "close" /\ fd[p] # 0
    /\ Set(call, p, c)
    /\ Set(fd, p, 0)
    /\ Puts(p, <<iput_(fd[p])>>, "end_op")
    /\ active' = active \cup {p}
    /\ UNCHANGED <<fsdisk, itable, cwd, path, ip, dp, up, panic, crashes>>

\* chdir() sets p->cwd after end_op(): nobody else reads it.
end_op(p) ==
    /\ pc[p] = "end_op"
    /\ active' = active \ {p}
    /\ stable' = IF active = {p} THEN disk ELSE stable
    /\ cwd' = [cwd EXCEPT ![p] = IF call[p].op = "chdir" /\ ip[p] # 0 THEN ip[p] ELSE @]
    /\ Set(ip, p, 0)
    /\ Set(dp, p, 0)
    /\ Set(path, p, <<>>)
    /\ Set(call, p, NoCall)
    /\ Goto(p, "idle")
    /\ UNCHANGED <<disk, itable, fd, up, panic, crashes>>

----------------------------------------------------------------------------
(* namex() *)

\* Where the call goes on when the lookup has found its inode, or has not.
Found(p) == CASE call[p].op \in {"create", "mkdir", "mknod"} -> "create"
              [] call[p].op = "link" /\ pc[p] = "nameiparent" -> "dirlink"
              [] OTHER -> call[p].op
NotFound(p) == IF call[p].op = "link" /\ pc[p] = "nameiparent" THEN "bad" ELSE "end_op"

\* One round of the loop, with dp[p] locked.
namex(p) ==
    LET d == dp[p]
        isdir == Inode(d).type = "dir"
        stop == isdir /\ pc[p] = "nameiparent" /\ Len(path[p]) = 1
        next == IF isdir /\ ~stop THEN disk[d].ents[Head(path[p])] ELSE 0 IN
    /\ pc[p] \in {"namei", "nameiparent"} /\ path[p] # <<>>
    /\ Section(d, ReadIn(d), next)
    /\ \/ /\ stop
          /\ Goto(p, Found(p))
          /\ UNCHANGED <<path, dp>>
       \/ /\ ~stop /\ next = 0
          /\ Puts(p, <<iput_(d)>>, NotFound(p))
          /\ Set(dp, p, 0)
          /\ UNCHANGED path
       \/ /\ next # 0
          /\ Puts(p, <<iput_(d)>>, pc[p])
          /\ Set(dp, p, next)
          /\ Set(path, p, Tail(path[p]))
    /\ UNCHANGED <<fsdisk, lock, proc, call, ip, active, up, crashes>>

\* The path is at its end: an inode for namei(), none for nameiparent().
namex_end(p) ==
    /\ pc[p] \in {"namei", "nameiparent"} /\ path[p] = <<>>
    /\ Set(dp, p, 0)
    /\ \/ /\ pc[p] = "namei"
          /\ Set(ip, p, dp[p])
          /\ Goto(p, Found(p))
       \/ /\ pc[p] = "nameiparent"
          /\ Puts(p, <<iput_(dp[p])>>, NotFound(p))
          /\ UNCHANGED ip
    /\ UNCHANGED <<fsdisk, itable, proc, call, path, active, up, panic, crashes>>

name(p) == Head(path[p])

----------------------------------------------------------------------------
(* sys_open(), and the end of create() *)

\* With the inode i locked, of type t: keep a reference to it in a new open
\* file, or drop it.
OpenOrPut_leaks(p, i, t) ==
    LET kept == call[p].op \in {"open", "create"} /\ fd[p] = 0 /\ t # "baddev" IN
    /\ Goto(p, "end_op")
    /\ IF kept THEN Set(fd, p, i) ELSE UNCHANGED fd
OpenOrPut(p, i, t) ==
    LET kept == /\ call[p].op \in {"open", "create"} /\ fd[p] = 0
                /\ t # "baddev"
                /\ ~(call[p].op = "open" /\ t = "dir" /\ call[p].write) IN
    \/ kept /\ Set(fd, p, i) /\ Goto(p, "end_op")
    \/ ~kept /\ Puts(p, <<iput_(i)>>, "end_op") /\ UNCHANGED fd

open(p) ==
    LET i == ip[p] IN
    /\ pc[p] = "open"
    /\ Section(i, ReadIn(i), 0)
    /\ OpenOrPut(p, i, Inode(i).type)
    /\ UNCHANGED <<fsdisk, lock, cwd, call, path, ip, dp, active, up, crashes>>

----------------------------------------------------------------------------
(* create(), for open(O_CREATE), mkdir and mknod *)

NewType(p) == CASE call[p].op = "create" -> "file"
                [] call[p].op = "mkdir" -> "dir"
                [] OTHER -> call[p].type

\* The parent is locked: the name exists, or ialloc() finds a free inode, or
\* there is none.
create(p) ==
    LET d == dp[p]
        old == disk[d].ents[name(p)]
        free == {i \in Inum : disk[i].type = "free"}
        new == IF old = 0 /\ free # {} THEN Min(free) ELSE 0 IN
    /\ pc[p] = "create"
    /\ Section(d, ReadIn(d), IF old # 0 THEN old ELSE new)
    /\ \/ /\ old # 0
          /\ Set(ip, p, old)
          /\ Puts(p, <<iput_(d)>>, "create_old")
          /\ UNCHANGED <<disk, lock>>
       \/ /\ old = 0 /\ new = 0
          /\ Puts(p, <<iput_(d)>>, "end_op")
          /\ UNCHANGED <<disk, lock, ip>>
       \/ /\ new # 0
          /\ disk' = [disk EXCEPT ![new] = [FreeInode EXCEPT !.type = NewType(p)]]
          /\ lock' = [lock EXCEPT ![d] = p]
          /\ Set(ip, p, new)
          /\ Goto(p, "create_new")
    /\ UNCHANGED <<stable, proc, call, path, dp, active, up, crashes>>

\* The name exists: open(O_CREATE) takes a file or a device.
create_old(p) ==
    LET i == ip[p]
        t == Inode(i).type IN
    /\ pc[p] = "create_old"
    /\ Section(i, ReadIn(i), 0)
    /\ \/ call[p].op = "create" /\ t # "dir" /\ OpenOrPut(p, i, t)
       \/ /\ call[p].op # "create" \/ t = "dir"
          /\ Puts(p, <<iput_(i)>>, "end_op")
          /\ UNCHANGED fd
    /\ UNCHANGED <<fsdisk, lock, cwd, call, path, ip, dp, active, up, crashes>>

\* The new inode gets its link count and its entries, then its parent gets an
\* entry for it, unless a directory cannot grow.  Both are locked; the new inode
\* stays so.
create_new(p) ==
    LET i == ip[p]
        d == dp[p]
        isdir == NewType(p) = "dir"
        dots == [NoEntries EXCEPT !["."] = i, ![".."] = d]
        one == [ReadIn(i) EXCEPT ![i].nlink = 1]
        both == [one EXCEPT ![d].nlink = IF isdir THEN @ + 1 ELSE @]
        zero == [ReadIn(i) EXCEPT ![i].nlink = 0] IN
    /\ pc[p] = "create_new"
    /\ \E fail \in DirFull :
         \/ /\ ~fail
            /\ Section(i, both, 0)
            /\ LET e == [disk EXCEPT ![i].ents = IF isdir THEN dots ELSE @,
                                     ![d].ents[name(p)] = i]
               IN  disk' = iupdate(iupdate(e, i, both[i]), d, both[d])
            /\ lock' = [lock EXCEPT ![d] = None, ![i] = p]
            /\ Puts(p, <<iput_(d)>>, "create_end")
         \/ /\ fail
            /\ Section(i, zero, 0)
            /\ disk' = iupdate(disk, i, zero[i])
            /\ Puts(p, <<iput_(i), iunlockput(d)>>, "end_op")
            /\ UNCHANGED lock
    /\ UNCHANGED <<stable, proc, call, path, ip, dp, active, up, crashes>>

\* create() has returned the new inode, locked.
create_end(p) ==
    LET i == ip[p] IN
    /\ pc[p] = "create_end"
    /\ lock' = [lock EXCEPT ![i] = None]
    /\ OpenOrPut(p, i, mem[i].type)
    /\ UNCHANGED <<fsdisk, ref, valid, mem, cwd, call, path, ip, dp, active, up, panic, crashes>>

----------------------------------------------------------------------------
(* sys_link() *)

link(p) ==
    LET i == ip[p]
        more == [ReadIn(i) EXCEPT ![i].nlink = @ + 1] IN
    /\ pc[p] = "link"
    /\ \/ /\ Inode(i).type = "dir"
          /\ Section(i, ReadIn(i), 0)
          /\ Puts(p, <<iput_(i)>>, "end_op")
          /\ UNCHANGED disk
       \/ /\ Inode(i).type # "dir"
          /\ Section(i, more, 0)
          /\ disk' = iupdate(disk, i, more[i])
          /\ Goto(p, "link_new")
    /\ UNCHANGED <<stable, lock, proc, call, path, ip, dp, active, up, crashes>>

\* nameiparent(new, name)
link_new(p) ==
    /\ pc[p] = "link_new"
    /\ Lookup(p, call[p].new, "nameiparent")
    /\ UNCHANGED <<fsdisk, mem, lock, proc, call, ip, active, up, crashes>>

dirlink(p) ==
    LET d == dp[p]
        old == disk[d].ents[name(p)] IN
    /\ pc[p] = "dirlink"
    /\ Section(d, ReadIn(d), old)
    /\ \/ /\ old # 0
          /\ Puts(p, <<iput_(old), iunlockput(d)>>, "bad")
          /\ lock' = [lock EXCEPT ![d] = p]
          /\ UNCHANGED disk
       \/ /\ old = 0
          /\ \E fail \in DirFull :
               /\ disk' = IF fail THEN disk ELSE [disk EXCEPT ![d].ents[name(p)] = ip[p]]
               /\ IF fail THEN Puts(p, <<iput_(d)>>, "bad")
                  ELSE Puts(p, <<iput_(d), iput_(ip[p])>>, "end_op")
          /\ UNCHANGED lock
    /\ UNCHANGED <<stable, proc, call, path, ip, dp, active, up, crashes>>

bad(p) ==
    LET i == ip[p]
        less == [ReadIn(i) EXCEPT ![i].nlink = @ - 1] IN
    /\ pc[p] = "bad"
    /\ Section(i, less, 0)
    /\ disk' = iupdate(disk, i, less[i])
    /\ Puts(p, <<iput_(i)>>, "end_op")
    /\ UNCHANGED <<stable, lock, proc, call, path, ip, dp, active, up, crashes>>

----------------------------------------------------------------------------
(* sys_unlink() *)

unlink(p) ==
    LET d == dp[p]
        found == IF name(p) \in {".", ".."} THEN 0 ELSE disk[d].ents[name(p)] IN
    /\ pc[p] = "unlink"
    /\ Section(d, ReadIn(d), found)
    /\ Set(ip, p, found)
    /\ \/ /\ found = 0
          /\ Puts(p, <<iput_(d)>>, "end_op")
          /\ UNCHANGED lock
       \/ /\ found # 0
          /\ lock' = [lock EXCEPT ![d] = p]
          /\ Goto(p, "unlink_ip")
    /\ UNCHANGED <<fsdisk, proc, call, path, dp, active, up, crashes>>

isdirempty_always(i) == TRUE
isdirempty(i) == \A n \in Name : disk[i].ents[n] = 0

\* Both are locked: the entry goes, and the link ".." of a directory.
unlink_ip(p) ==
    LET i == ip[p]
        d == dp[p]
        isdir == Inode(i).type = "dir"
        less == [ReadIn(i) EXCEPT ![d].nlink = IF isdir THEN @ - 1 ELSE @] IN
    /\ pc[p] = "unlink_ip"
    /\ lock[i] = None
    /\ valid' = [valid EXCEPT ![i] = TRUE]
    /\ panic' = IF NoType(i) THEN "ilock: no type"
                ELSE IF Inode(i).nlink < 1 THEN "unlink: nlink < 1" ELSE panic
    /\ \/ /\ isdir /\ ~isdirempty(i)
          /\ mem' = ReadIn(i)
          /\ Puts(p, <<iput_(i), iunlockput(d)>>, "end_op")
          /\ UNCHANGED <<disk, lock>>
       \/ /\ isdir => isdirempty(i)
          /\ mem' = less
          /\ disk' = iupdate([disk EXCEPT ![d].ents[name(p)] = 0], d, less[d])
          /\ lock' = [lock EXCEPT ![d] = None, ![i] = p]
          /\ Puts(p, <<iput_(d)>>, "unlink_end")
    /\ UNCHANGED <<stable, ref, proc, call, path, ip, dp, active, up, crashes>>

\* ip->nlink--, with only ip locked.
unlink_end(p) ==
    LET i == ip[p] IN
    /\ pc[p] = "unlink_end"
    /\ mem' = [mem EXCEPT ![i].nlink = @ - 1]
    /\ disk' = iupdate(disk, i, mem'[i])
    /\ lock' = [lock EXCEPT ![i] = None]
    /\ Puts(p, <<iput_(i)>>, "end_op")
    /\ UNCHANGED <<stable, ref, valid, proc, call, path, ip, dp, active, up, panic, crashes>>

----------------------------------------------------------------------------
(* sys_chdir() *)

chdir(p) ==
    LET i == ip[p]
        isdir == Inode(i).type = "dir" IN
    /\ pc[p] = "chdir"
    /\ Section(i, ReadIn(i), 0)
    /\ Puts(p, <<iput_(IF isdir THEN cwd[p] ELSE i)>>, "end_op")
    /\ Set(ip, p, IF isdir THEN i ELSE 0)
    /\ UNCHANGED <<fsdisk, lock, proc, call, path, dp, active, up, crashes>>

----------------------------------------------------------------------------
(* A crash, and the boot after it. *)

Crash ==
    /\ crashes < MaxCrash
    /\ crashes' = crashes + 1
    /\ disk' = stable
    /\ ref' = [i \in Inum |-> 0]
    /\ valid' = [i \in Inum |-> FALSE]
    /\ mem' = [i \in Inum |-> [type |-> "free", nlink |-> 0]]
    /\ lock' = [i \in Inum |-> None]
    /\ cwd' = [p \in Proc |-> Root]
    /\ fd' = [p \in Proc |-> 0]
    /\ pc' = [p \in Proc |-> "idle"]
    /\ call' = [p \in Proc |-> NoCall]
    /\ path' = [p \in Proc |-> <<>>]
    /\ ip' = [p \in Proc |-> 0]
    /\ dp' = [p \in Proc |-> 0]
    /\ todo' = [p \in Proc |-> <<>>]
    /\ then' = [p \in Proc |-> ""]
    /\ active' = {}
    /\ up' = FALSE
    /\ UNCHANGED <<stable, panic>>

\* ireclaim() frees the inodes that were in use and had no link at the crash,
\* each in a transaction of its own.
Orphans_missed == {}
Orphans == {i \in Inum : disk[i].type # "free" /\ disk[i].nlink = 0}

ireclaim ==
    /\ ~up /\ Orphans # {}
    /\ disk' = [disk EXCEPT ![Min(Orphans)] = FreeInode]
    /\ stable' = disk'
    /\ UNCHANGED <<itable, proc, pc, call, path, ip, dp, todo, then, active, up, panic, crashes>>

\* The first process starts in "/", and the others with it.
boot ==
    /\ ~up /\ Orphans = {}
    /\ up' = TRUE
    /\ ref' = [ref EXCEPT ![Root] = Cardinality(Proc)]
    /\ UNCHANGED <<fsdisk, valid, mem, lock, proc, pc, call, path, ip, dp, todo, then,
                   active, panic, crashes>>

----------------------------------------------------------------------------
\* The disk that mkfs makes.
Init ==
    /\ disk = [i \in Inum |->
                 IF i = Root
                 THEN [type |-> "dir", nlink |-> 1,
                       ents |-> [NoEntries EXCEPT !["."] = Root, ![".."] = Root]]
                 ELSE FreeInode]
    /\ stable = disk
    /\ ref = [i \in Inum |-> 0]
    /\ valid = [i \in Inum |-> FALSE]
    /\ mem = [i \in Inum |-> [type |-> "free", nlink |-> 0]]
    /\ lock = [i \in Inum |-> None]
    /\ cwd = [p \in Proc |-> Root]
    /\ fd = [p \in Proc |-> 0]
    /\ pc = [p \in Proc |-> "idle"]
    /\ call = [p \in Proc |-> NoCall]
    /\ path = [p \in Proc |-> <<>>]
    /\ ip = [p \in Proc |-> 0]
    /\ dp = [p \in Proc |-> 0]
    /\ todo = [p \in Proc |-> <<>>]
    /\ then = [p \in Proc |-> ""]
    /\ active = {}
    /\ up = FALSE
    /\ panic = ""
    /\ crashes = 0

Step(p) ==
    \/ iput(p) \/ itrunc(p) \/ drop(p) \/ end_op(p) \/ namex(p) \/ namex_end(p)
    \/ open(p) \/ create(p) \/ create_old(p) \/ create_new(p) \/ create_end(p)
    \/ link(p) \/ link_new(p) \/ dirlink(p) \/ bad(p)
    \/ unlink(p) \/ unlink_ip(p) \/ unlink_end(p) \/ chdir(p)

Next ==
    /\ panic = ""
    /\ \/ \E p \in Proc : Step(p)
       \/ \E p \in Proc, c \in Calls : begin(p, c) \/ close(p, c)
       \/ ireclaim \/ boot \/ Crash

Spec == Init /\ [][Next]_vars

----------------------------------------------------------------------------
(* Properties *)

Dinode == [type : Type, nlink : Nat, ents : [Entry -> Inum \cup {0}]]

TypeOK ==
    /\ disk \in [Inum -> Dinode] /\ stable \in [Inum -> Dinode]
    /\ ref \in [Inum -> Nat] /\ valid \in [Inum -> BOOLEAN]
    /\ mem \in [Inum -> [type : Type, nlink : Nat]]
    /\ lock \in [Inum -> Proc \cup {None}]
    /\ cwd \in [Proc -> Inum] /\ fd \in [Proc -> Inum \cup {0}]
    /\ call \in [Proc -> Calls \cup {NoCall}]
    /\ path \in [Proc -> Seq(Entry)]
    /\ ip \in [Proc -> Inum \cup {0}] /\ dp \in [Proc -> Inum \cup {0}]
    /\ todo \in [Proc -> Seq([ino : Inum, unlock : BOOLEAN])]
    /\ active \subseteq Proc /\ up \in BOOLEAN

\* fs.c:110-113: "the number of links referring to it": in every state that the log
\* commits, and so a crash can bring back, and after any interleaving, nlink is the
\* number of the entries, other than ".", of the linked directories that name the
\* inode.  In particular no entry names a free inode, and none is lost.
Links(i) == {<<e, n>> \in Inum \X (Entry \ {"."}) :
                disk[e].type = "dir" /\ disk[e].nlink > 0 /\ disk[e].ents[n] = i}
LinkCounts == active = {} => \A i \in Inum : disk[i].nlink = Cardinality(Links(i))

\* iget(), iput(), and every error path of the calls: when no call is active the
\* references to an inode are the open files and the current directories.
RefsBalanced ==
    up /\ active = {} => \A i \in Inum :
        ref[i] = Cardinality({p \in Proc : cwd[p] = i}) + Cardinality({p \in Proc : fd[p] = i})

\* fs.c:129-131: "iput() frees if the reference and link counts have fallen to
\* zero": an inode without links does not outlive the last reference.
NoOrphans ==
    up /\ active = {} => \A i \in Inum : disk[i].type # "free" /\ disk[i].nlink = 0 => ref[i] > 0

\* A file that is open is neither freed nor given to another file, though it is
\* unlinked, and iput() and ialloc() run in other processes.
OpenKept ==
    \A p \in Proc : fd[p] # 0 /\ fd'[p] = fd[p] =>
        disk[fd[p]].type # "free" /\ disk'[fd[p]].type = disk[fd[p]].type
OpenFileStays == [][OpenKept]_vars

\* fs.c:140-144, 222-225: the in-memory copy of an inode that is valid and that nobody
\* has locked is that of the disk.
MemCurrent ==
    \A i \in Inum : ref[i] > 0 /\ valid[i] /\ lock[i] = None =>
        mem[i] = [type |-> disk[i].type, nlink |-> disk[i].nlink]

\* The inode table of fs.c agrees with who uses it and with the disk: references are
\* given back on every path, and what is cached is what was written.
TableSound == TypeOK /\ RefsBalanced /\ MemCurrent

\* No call panics: ilock() finds no free inode, unlink() no entry of an inode
\* without links, and the acquiresleep() of iput() "won't block (or deadlock)".
NoPanic == panic = ""

\* The one exception: a directory that was removed while it is in use still names its
\* parent by "..", but without counting as a link to it.  Once the parent is removed too,
\* ".." names a free inode, and ilock() of it panics.
ParentGone(d) == /\ ref[d] > 0 /\ disk[d].type = "dir" /\ disk[d].nlink = 0
                 /\ disk[d].ents[".."] \in {i \in Inum : disk[i].type = "free"}
LostParent == panic = "ilock: no type" /\ \E d \in Inum : ParentGone(d)

=============================================================================
