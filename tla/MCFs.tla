-------------------------------- MODULE MCFs --------------------------------
(***************************************************************************)
(* Instances of Files and Fs for TLC: the descriptors that processes       *)
(* share, and the inodes and directories under them.  The two share no     *)
(* state: the first state chooses a mix of calls, and with it the one that *)
(* runs.                                                                   *)
(***************************************************************************)
EXTENDS Files, TLC

CONSTANTS p1, p2, q1, q2, a, b,
    NINODES, NINODE, Name, DirFull, None, MaxCrash,
    Mixes   \* the mixes of calls to check

VARIABLES
    mix,
    disk, stable, ref, valid, mem, lock, cwd, fd, fs_pc, call, path, ip, dp, todo, then,
    active, up, fs_panic, crashes

inodes == <<disk, stable, ref, valid, mem, lock, cwd, fd, fs_pc, call, path, ip, dp, todo, then,
            active, up, fs_panic, crashes>>

TwoProcs == {q1, q2}
TwoPaths == {a, b}

\* The calls of Fs.
Abs(s) == [abs |-> TRUE, elems |-> s]
Rel(s) == [abs |-> FALSE, elems |-> s]

creat(q)   == [op |-> "create", path |-> q]
opn(q)     == [op |-> "open", path |-> q, write |-> FALSE]
openw(q)   == [op |-> "open", path |-> q, write |-> TRUE]
mkdir(q)   == [op |-> "mkdir", path |-> q]
mknod(q,t) == [op |-> "mknod", path |-> q, type |-> t]
lnk(q, r)  == [op |-> "link", path |-> q, new |-> r]
rm(q)      == [op |-> "unlink", path |-> q]
cd(q)      == [op |-> "chdir", path |-> q]
cls        == [op |-> "close"]

FileCalls == {creat(Abs(<<"a">>)), opn(Abs(<<"b">>)), lnk(Abs(<<"a">>), Abs(<<"b">>)),
              rm(Abs(<<"a">>)), rm(Abs(<<"b">>)), cls}
DirCalls == {mkdir(Abs(<<"a">>)), rm(Abs(<<"a">>)), cd(Abs(<<"a">>)), cd(Rel(<<"..">>)),
             creat(Abs(<<"a">>))}
TreeCalls == {mkdir(Abs(<<"a">>)), mkdir(Abs(<<"a", "b">>)), creat(Rel(<<"a", "b">>)),
              rm(Abs(<<"a", "b">>)), rm(Rel(<<"a">>)), rm(Abs(<<"a", ".">>)), rm(Abs(<<"b">>)),
              opn(Abs(<<"a">>)), openw(Abs(<<"b">>)), cls, cd(Abs(<<"b">>)),
              mknod(Abs(<<"b">>), "baddev"),
              lnk(Abs(<<"a", "b">>), Abs(<<"b">>)), lnk(Abs(<<"b">>), Abs(<<>>))}
RaceCalls == {mkdir(Abs(<<"a">>)), creat(Abs(<<"a", "b">>)), rm(Abs(<<"a">>))}
CwdCalls  == {mkdir(Abs(<<"a">>)), mkdir(Abs(<<"a", "b">>)), cd(Abs(<<"a", "b">>)),
              rm(Abs(<<"a", "b">>)), rm(Abs(<<"a">>)), cd(Rel(<<"..">>))}

Mix == [files |-> FileCalls, dirs |-> DirCalls, tree |-> TreeCalls,
        race |-> RaceCalls, cwd |-> CwdCalls]

MixCalls == UNION {Mix[k] : k \in Mixes \ {"descriptors"}}

FS == INSTANCE Fs WITH Proc <- {p1, p2}, Calls <- MixCalls, pc <- fs_pc, panic <- fs_panic

\* The theorems about Files assume this of its constants; and the sizes of Fs.
ASSUME SizesAssumption == Sizes /\ FS!FsSizes

\* interpose() is called once, by the first process before it does anything else, as
\* sandbox does before exec() of another program; what runs in the sandbox makes no
\* pipes, and what runs outside has one path open at a time.
Once == /\ Next
        /\ policy'[q1] # policy[q1] => policy[q1] = NoPolicy /\ free = File
        /\ policy'[q2] \in {policy'[q1], NoPolicy}
        /\ policy[q1] # NoPolicy => \A p \in Proc : pc'[p] # "pipealloc"
        /\ policy[q1] = NoPolicy => \A x, y \in Path : iref'[x] > 0 /\ iref'[y] > 0 => x = y

NoInodes ==
    /\ disk = None /\ stable = None /\ ref = None /\ valid = None /\ mem = None /\ lock = None
    /\ cwd = None /\ fd = None /\ fs_pc = None /\ call = None /\ path = None /\ ip = None
    /\ dp = None /\ todo = None /\ then = None /\ active = None /\ up = None
    /\ fs_panic = None /\ crashes = None

\* The calls of the mix "tree", with which the machine may crash, do not overlap, nor
\* do those of "cwd", which remove the directories that others are in.
CallsOf ==
    /\ FS!Next
    /\ \A p \in {p1, p2} : call'[p] \in Mix[mix] \cup {FS!NoCall}
    /\ mix \in {"tree", "cwd"} => Cardinality(active') <= 1
    /\ mix # "tree" => crashes' = 0

MixInit ==
    /\ mix \in Mixes
    /\ Init
    /\ IF mix = "descriptors" THEN NoInodes ELSE FS!Init

MixNext ==
    /\ UNCHANGED mix
    /\ \/ mix = "descriptors" /\ Once /\ UNCHANGED inodes
       \/ mix # "descriptors" /\ CallsOf /\ UNCHANGED vars
       \/ mix # "descriptors" /\ fs_panic # "" /\ UNCHANGED <<vars, inodes>>

MixSpec == MixInit /\ [][MixNext]_<<vars, mix, inodes>>

----------------------------------------------------------------------------
\* What a free file was is not read, unless its type says so.
LiveFile(x) == IF x.type = "FD_NONE" THEN <<x.ref>> ELSE x
LiveFiles == <<[f \in File |-> LiveFile(file[f])], pipe, iref, ofile, rules, pc, local, strayed, panic>>

\* What is left in an entry of the table that is not valid, or not in use, is
\* never read; nor is stable, after the last crash.
LiveInodes == <<disk, IF mix = "tree" /\ crashes < MaxCrash THEN stable ELSE <<>>, ref,
               [i \in FS!Inum |-> ref[i] > 0 /\ valid[i]],
               [i \in FS!Inum |-> IF ref[i] > 0 /\ valid[i] THEN mem[i] ELSE FS!FreeInode],
               lock, cwd, fd, fs_pc, call, path, ip, dp, todo, then, active, up, fs_panic, crashes>>
LiveState == IF mix = "descriptors" THEN <<mix, LiveFiles>> ELSE <<mix, LiveInodes>>

Symmetry == Permutations({p1, p2}) \cup Permutations(Path)

----------------------------------------------------------------------------
(* The properties of Fs *)

\* The inode table agrees with who uses it and with the disk (Fs!TableSound).
TableSound == mix # "descriptors" => FS!TableSound

\* nlink is the number of entries, in every state that the log commits (Fs!LinkCounts).
LinkCounts == mix # "descriptors" => FS!LinkCounts


\* fs.c:129-131: an inode without links goes with its last reference, for calls that do
\* not overlap (Fs!NoOrphans).
NoOrphansAlone == mix = "tree" => FS!NoOrphans

\* A file that is open is neither freed nor given to another file (Fs!OpenFileStays).
OpenFileStays == [][mix # "descriptors" => FS!OpenKept]_inodes
=============================================================================
