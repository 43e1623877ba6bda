------------------------------- MODULE Files -------------------------------
(***************************************************************************)
(* The table of open files and the descriptors of the processes            *)
(* (kernel/file.c, kernel/sysfile.c), shared by fork() and given back by   *)
(* close(), exit() and every call that fails half-way; and the test of     *)
(* syscall() by which interpose() confines a process and its children.     *)
(*                                                                         *)
(* ftable.lock makes filealloc(), filedup() and the count in fileclose()   *)
(* atomic; what else a call does to its own descriptors no one else sees.  *)
(***************************************************************************)
EXTENDS Naturals, FiniteSets, FiniteSetsExt

CONSTANTS
    Proc,       \* the slots of the process table
    initproc,   \* the first process, which does not exit
    NFILE,      \* open files of the system
    NOFILE,     \* descriptors of a process
    NPIPE,      \* the bound on the pages that kalloc() gives to pipes
    Path,       \* the files that can be opened
    Mask        \* the masks that interpose() is called with

File == 1..NFILE
Fd   == 1..NOFILE
PipeId == 1..NPIPE

\* The tables are finite, and the first process is in its table.
Sizes == /\ NFILE \in Nat /\ NOFILE \in Nat /\ NPIPE \in Nat
         /\ IsFiniteSet(Proc) /\ initproc \in Proc

\* The local variables of a call that name a file.
Pair == 1..2
NoPath == "no path"

VARIABLES
    file,       \* ftable.file
    pipe,       \* [PipeId -> the ends that are open]; {} if it is a free page
    iref,       \* [Path -> the references to its inode]
    ofile,      \* [Proc -> [Fd -> File \cup {0}]]
    mask,       \* [Proc -> the calls that p->mask forbids]
    allowed,    \* [Proc -> p->allowed_path, or NoPath]
    \* The call of each process, and its local variables.
    pc,
    hold,       \* [Proc -> [Pair -> File \cup {0}]]: the files, rf and wf in pipe() and f in
                \* the others, that the call made or took and has to pass on or to close
    ff,         \* the copy of the file that fileclose() works on
    using,      \* the file of read(), write() or fstat(), the path of open(), or 0
    child,      \* the process that fork() makes; p itself outside fork()
    \* The last interpose() of each process or, before fork(), of its ancestors, and
    \* whether a file was opened that it does not allow; not in the code.
    policy, strayed,
    panic       \* the message of a panic, or "none"

table == <<file, pipe, iref>>
rules == <<mask, allowed, policy>>
local == <<hold, ff, using, child>>
vars  == <<table, ofile, rules, pc, local, strayed, panic>>

NoFile == [ref |-> 0, type |-> "FD_NONE", obj |-> 0, end |-> "none"]
NoPolicy == [mask |-> {}, path |-> NoPath]
NoHold == [s \in Pair |-> 0]
NoFds == [fd \in Fd |-> 0]

Goto(p, l) == pc' = [pc EXCEPT ![p] = l]

----------------------------------------------------------------------------
(* syscall() *)

\* The test of syscall(): a call that the mask forbids still passes if it is an
\* open() of the allowed path (or an exec() of it, which opens no descriptor).
Passes(p, num, path) ==
    \/ num \notin mask[p]
    \/ num = "open" /\ allowed[p] # NoPath /\ path = allowed[p]

Call(p, num, path) == pc[p] = "user" /\ Passes(p, num, path)

\* interpose() itself is never forbidden.
interpose(p, m, path) ==
    /\ pc[p] = "user"
    /\ mask' = [mask EXCEPT ![p] = m]
    /\ allowed' = [allowed EXCEPT ![p] = path]
    /\ policy' = [policy EXCEPT ![p] = [mask |-> m, path |-> path]]
    /\ UNCHANGED <<table, ofile, pc, local, strayed, panic>>

----------------------------------------------------------------------------
(* file.c *)

free == {f \in File : file[f].ref = 0}

filealloc(p, s) ==
    /\ file' = [file EXCEPT ![Min(free)].ref = 1]
    /\ hold' = [hold EXCEPT ![p][s] = Min(free)]

freefds(p) == {fd \in Fd : ofile[p][fd] = 0}

fdalloc(p, f) == ofile' = [ofile EXCEPT ![p][Min(freefds(p))] = f]

filedup(f) ==
    /\ file' = [file EXCEPT ![f].ref = @ + 1]
    /\ panic' = IF file[f].ref < 1 THEN "filedup" ELSE panic

\* The calls that close the files they hold, one after the other, before they end.
Closing(p) == pc[p] \in {"fileclose", "open_bad", "kexit"}

\* The last reference takes a copy of the file and makes it free, FD_NONE.
Released_keeps_type(f) == [f EXCEPT !.ref = 0]
Released(f) == [f EXCEPT !.ref = 0, !.type = "FD_NONE"]

fileclose(p) ==
    LET s == IF hold[p][1] # 0 THEN 1 ELSE 2
        f == hold[p][s] IN
    /\ Closing(p)
    /\ f # 0 /\ ff[p] = NoFile
    /\ hold' = [hold EXCEPT ![p][s] = 0]
    /\ \/ /\ file[f].ref < 1
          /\ panic' = "fileclose"
          /\ UNCHANGED <<file, ff>>
       \/ /\ file[f].ref > 1
          /\ file' = [file EXCEPT ![f].ref = @ - 1]
          /\ UNCHANGED <<ff, panic>>
       \/ /\ file[f].ref = 1
          /\ ff' = [ff EXCEPT ![p] = file[f]]
          /\ file' = [file EXCEPT ![f] = Released(@)]
          /\ UNCHANGED panic
    /\ UNCHANGED <<pipe, iref, ofile, rules, pc, using, child, strayed>>

\* What the copy refers to is closed: pipeclose(), which frees the pipe with its
\* second end, or iput().
fileclose_ff(p) ==
    /\ Closing(p)
    /\ ff[p] # NoFile
    /\ ff' = [ff EXCEPT ![p] = NoFile]
    /\ \/ /\ ff[p].type = "FD_PIPE"
          /\ pipe' = [pipe EXCEPT ![ff[p].obj] = @ \ {ff[p].end}]
          /\ UNCHANGED iref
       \/ /\ ff[p].type = "FD_INODE"
          /\ iref' = [iref EXCEPT ![ff[p].obj] = @ - 1]
          /\ UNCHANGED pipe
       \/ /\ ff[p].type = "FD_NONE"
          /\ UNCHANGED <<pipe, iref>>
    /\ UNCHANGED <<file, ofile, rules, pc, hold, using, child, strayed, panic>>

Closed(p) == hold[p] = NoHold /\ ff[p] = NoFile

fileclose_end(p) ==
    /\ pc[p] = "fileclose" /\ Closed(p)
    /\ Goto(p, "user")
    /\ UNCHANGED <<table, ofile, rules, local, strayed, panic>>

----------------------------------------------------------------------------
(* sysfile.c *)

\* open() of a file that namei() finds: the reference of namei() becomes that of the
\* file.  Without a free file it is given back at once.
sys_open(p, path) ==
    /\ Call(p, "open", path)
    /\ free # {}
    /\ filealloc(p, 1)
    /\ iref' = [iref EXCEPT ![path] = @ + 1]
    /\ using' = [using EXCEPT ![p] = path]
    /\ strayed' = (strayed \/ ("open" \in policy[p].mask /\ path # policy[p].path))
    /\ Goto(p, "open")
    /\ UNCHANGED <<pipe, ofile, rules, ff, child, panic>>

\* The file gets its contents after its descriptor, which no one else sees.
Filled(x, type, obj, end) == [ref |-> x.ref, type |-> type, obj |-> obj, end |-> end]

open_fd(p) ==
    LET f == hold[p][1] IN
    /\ pc[p] = "open"
    /\ \/ /\ freefds(p) # {}
          /\ fdalloc(p, f)
          /\ file' = [file EXCEPT ![f] = Filled(@, "FD_INODE", using[p], "none")]
          /\ hold' = [hold EXCEPT ![p] = NoHold]
          /\ using' = [using EXCEPT ![p] = 0]
          /\ Goto(p, "user")
       \/ /\ freefds(p) = {}
          /\ Goto(p, "open_bad")
          /\ UNCHANGED <<file, ofile, hold, using>>
    /\ UNCHANGED <<pipe, iref, rules, ff, child, strayed, panic>>

\* iunlockput(), after fileclose().
open_bad(p) ==
    /\ pc[p] = "open_bad" /\ Closed(p)
    /\ iref' = [iref EXCEPT ![using[p]] = @ - 1]
    /\ using' = [using EXCEPT ![p] = 0]
    /\ Goto(p, "user")
    /\ UNCHANGED <<file, pipe, ofile, rules, hold, ff, child, strayed, panic>>

\* pipealloc(): two files, one after the other, then a page.
sys_pipe(p) ==
    /\ Call(p, "pipe", NoPath)
    /\ free # {}
    /\ filealloc(p, 1)
    /\ Goto(p, "pipealloc")
    /\ UNCHANGED <<pipe, iref, ofile, rules, ff, using, child, strayed, panic>>

pipealloc(p) ==
    /\ pc[p] = "pipealloc"
    /\ \/ /\ free # {}
          /\ filealloc(p, 2)
          /\ Goto(p, "pipe")
       \/ /\ free = {}
          /\ Goto(p, "fileclose")
          /\ UNCHANGED <<file, hold>>
    /\ UNCHANGED <<pipe, iref, ofile, rules, ff, using, child, strayed, panic>>

FreePipes == {k \in PipeId : pipe[k] = {}}

pipe_page(p) ==
    LET k == Min(FreePipes) IN
    /\ pc[p] = "pipe"
    /\ \/ /\ FreePipes # {}
          /\ pipe' = [pipe EXCEPT ![k] = {"read", "write"}]
          /\ file' = [file EXCEPT ![hold[p][1]] = Filled(@, "FD_PIPE", k, "read"),
                                  ![hold[p][2]] = Filled(@, "FD_PIPE", k, "write")]
          /\ Goto(p, "pipe_fds")
       \/ /\ FreePipes = {}
          /\ Goto(p, "fileclose")
          /\ UNCHANGED <<pipe, file>>
    /\ UNCHANGED <<iref, ofile, rules, hold, ff, using, child, strayed, panic>>

\* fdalloc() twice and copyout(): when one of them fails, the descriptors are taken
\* back and both files closed.
Undo_second_only(h) == [h EXCEPT ![1] = 0]
Undo(h) == h

pipe_fds(p) ==
    LET fd0 == Min(freefds(p))
        fd1 == Min(freefds(p) \ {fd0}) IN
    /\ pc[p] = "pipe_fds"
    /\ \/ /\ freefds(p) # {} /\ freefds(p) \ {fd0} # {}
          /\ ofile' = [ofile EXCEPT ![p][fd0] = hold[p][1], ![p][fd1] = hold[p][2]]
          /\ hold' = [hold EXCEPT ![p] = NoHold]
          /\ Goto(p, "user")
       \/ /\ hold' = [hold EXCEPT ![p] = Undo(@)]
          /\ Goto(p, "fileclose")
          /\ UNCHANGED ofile
    /\ UNCHANGED <<table, rules, ff, using, child, strayed, panic>>

\* fdalloc() and filedup().
sys_dup(p, fd) ==
    /\ Call(p, "dup", NoPath)
    /\ ofile[p][fd] # 0
    /\ freefds(p) # {}
    /\ fdalloc(p, ofile[p][fd])
    /\ filedup(ofile[p][fd])
    /\ UNCHANGED <<pipe, iref, rules, pc, local, strayed>>

\* The descriptor is free and its file the call's own.
Take(p, fd) ==
    /\ ofile' = [ofile EXCEPT ![p][fd] = 0]
    /\ hold' = [hold EXCEPT ![p][1] = ofile[p][fd]]

sys_close(p, fd) ==
    /\ Call(p, "close", NoPath)
    /\ ofile[p][fd] # 0
    /\ Take(p, fd)
    /\ Goto(p, "fileclose")
    /\ UNCHANGED <<table, rules, ff, using, child, strayed, panic>>

\* read(), write() or fstat() of the file of a descriptor, which may take long; the
\* tests of its type find one of those they know.
sys_read(p, fd) ==
    /\ Call(p, "read", NoPath)
    /\ ofile[p][fd] # 0
    /\ using' = [using EXCEPT ![p] = ofile[p][fd]]
    /\ panic' = IF file[ofile[p][fd]].type = "FD_NONE" THEN "fileread" ELSE panic
    /\ Goto(p, "fileread")
    /\ UNCHANGED <<table, ofile, rules, hold, ff, child, strayed>>

read_end(p) ==
    /\ pc[p] = "fileread"
    /\ using' = [using EXCEPT ![p] = 0]
    /\ Goto(p, "user")
    /\ UNCHANGED <<table, ofile, rules, hold, ff, child, strayed, panic>>

----------------------------------------------------------------------------
(* fork(), exit() and wait(), as far as they are about files *)

kfork(p, c) ==
    /\ Call(p, "fork", NoPath)
    /\ pc[c] = "unused"
    /\ pc' = [pc EXCEPT ![p] = "kfork", ![c] = "embryo"]
    /\ child' = [child EXCEPT ![p] = c]
    /\ policy' = [policy EXCEPT ![c] = policy[p]]
    /\ UNCHANGED <<table, ofile, mask, allowed, hold, ff, using, strayed, panic>>

\* The next descriptor of the parent that the child does not have yet.
ToDup(p) == {fd \in Fd : ofile[p][fd] # 0 /\ ofile[child[p]][fd] = 0}

fork_dup(p) ==
    LET fd == Min(ToDup(p)) IN
    /\ pc[p] = "kfork"
    /\ ToDup(p) # {}
    /\ ofile' = [ofile EXCEPT ![child[p]][fd] = ofile[p][fd]]
    /\ filedup(ofile[p][fd])
    /\ UNCHANGED <<pipe, iref, rules, pc, local, strayed>>

Inherit_path_only(p, c) ==
    /\ allowed' = [allowed EXCEPT ![c] = allowed[p]]
    /\ UNCHANGED mask

Inherit(p, c) ==
    /\ mask' = [mask EXCEPT ![c] = mask[p]]
    /\ allowed' = [allowed EXCEPT ![c] = allowed[p]]

fork_end(p) ==
    /\ pc[p] = "kfork"
    /\ ToDup(p) = {}
    /\ Inherit(p, child[p])
    /\ pc' = [pc EXCEPT ![p] = "user", ![child[p]] = "user"]
    /\ child' = [child EXCEPT ![p] = p]
    /\ UNCHANGED <<table, ofile, policy, hold, ff, using, strayed, panic>>

\* exit(), or kill(), which no mask forbids: the open files are closed in order, each
\* before its descriptor is cleared (no one else sees the descriptor).
kexit(p) ==
    /\ pc[p] = "user" /\ p # initproc
    /\ Goto(p, "kexit")
    /\ UNCHANGED <<table, ofile, rules, local, strayed, panic>>

exit_fd(p) ==
    /\ pc[p] = "kexit" /\ Closed(p)
    /\ freefds(p) # Fd
    /\ Take(p, Min(Fd \ freefds(p)))
    /\ UNCHANGED <<table, rules, pc, ff, using, child, strayed, panic>>

exit_end(p) ==
    /\ pc[p] = "kexit" /\ Closed(p)
    /\ freefds(p) = Fd
    /\ Goto(p, "zombie")
    /\ UNCHANGED <<table, ofile, rules, local, strayed, panic>>

\* wait() by the parent.
freeproc(p) ==
    /\ pc[p] = "zombie"
    /\ mask' = [mask EXCEPT ![p] = {}]
    /\ allowed' = [allowed EXCEPT ![p] = NoPath]
    /\ policy' = [policy EXCEPT ![p] = NoPolicy]
    /\ Goto(p, "unused")
    /\ UNCHANGED <<table, ofile, local, strayed, panic>>

----------------------------------------------------------------------------
Init ==
    /\ file = [f \in File |-> NoFile]
    /\ pipe = [k \in PipeId |-> {}]
    /\ iref = [x \in Path |-> 0]
    /\ ofile = [p \in Proc |-> NoFds]
    /\ mask = [p \in Proc |-> {}]
    /\ allowed = [p \in Proc |-> NoPath]
    /\ pc = [p \in Proc |-> IF p = initproc THEN "user" ELSE "unused"]
    /\ hold = [p \in Proc |-> NoHold]
    /\ ff = [p \in Proc |-> NoFile]
    /\ using = [p \in Proc |-> 0]
    /\ child = [p \in Proc |-> p]
    /\ policy = [p \in Proc |-> NoPolicy]
    /\ strayed = FALSE
    /\ panic = "none"

Next ==
    /\ panic = "none"
    /\ \E p \in Proc :
        \/ fileclose(p) \/ fileclose_ff(p) \/ fileclose_end(p)
        \/ open_fd(p) \/ open_bad(p) \/ sys_pipe(p) \/ pipealloc(p) \/ pipe_page(p) \/ pipe_fds(p)
        \/ read_end(p) \/ fork_dup(p) \/ fork_end(p) \/ kexit(p)
        \/ exit_fd(p) \/ exit_end(p) \/ freeproc(p)
        \/ \E path \in Path : sys_open(p, path)
        \/ \E m \in Mask, path \in Path \cup {NoPath} : interpose(p, m, path)
        \/ \E fd \in Fd : sys_dup(p, fd) \/ sys_close(p, fd) \/ sys_read(p, fd)
        \/ \E c \in Proc : kfork(p, c)

Spec == Init /\ [][Next]_vars

----------------------------------------------------------------------------
(* Properties *)

Types == {"FD_NONE", "FD_PIPE", "FD_INODE"}
FileRec == [ref : Nat, type : Types, obj : PipeId \cup Path \cup {0},
            end : {"none", "read", "write"}]

\* The types.
TypeOK ==
    /\ file \in [File -> FileRec]
    /\ pipe \in [PipeId -> SUBSET {"read", "write"}]
    /\ iref \in [Path -> Nat]
    /\ ofile \in [Proc -> [Fd -> File \cup {0}]]
    /\ mask \in [Proc -> Mask \cup {{}}] /\ allowed \in [Proc -> Path \cup {NoPath}]
    /\ hold \in [Proc -> [Pair -> File \cup {0}]]

\* file.c:29-83, sysfile.c:344-350, 477-505: at every step f->ref is the number of
\* descriptors that name f and of the calls that hold it: no file is lost when a call
\* fails half-way, and none is closed while someone has it.
Cells(g, J, f) == {x \in Proc \X J : g[x[1]][x[2]] = f}
Named(f) == Cells(ofile, Fd, f)
Held(f)  == Cells(hold, Pair, f)

RefsMatch == \A f \in File : file[f].ref = Cardinality(Named(f)) + Cardinality(Held(f))

\* pipe.c:58-74, file.c:71-82: an end of a pipe is open, and an inode referenced,
\* exactly as long as one file, or the fileclose() that is about to close it, refers to
\* it.  So a reader gets end-of-file when the last writer has gone and not before, and
\* no inode is given back twice.
PipeEnd(x, k, e) == x.type = "FD_PIPE" /\ x.obj = k /\ x.end = e
Opened(path) == {f \in File : file[f].type = "FD_INODE" /\ file[f].obj = path}
Users(path)  == {p \in Proc : \/ pc[p] \in {"open", "open_bad"} /\ using[p] = path
                              \/ ff[p].type = "FD_INODE" /\ ff[p].obj = path}
EndsMatch ==
    \A k \in PipeId, e \in {"read", "write"} :
        e \in pipe[k] <=> \/ \E f \in File : PipeEnd(file[f], k, e)
                          \/ \E p \in Proc : PipeEnd(ff[p], k, e)
InodesMatch ==
    \A path \in Path : iref[path] = Cardinality(Opened(path)) + Cardinality(Users(path))

ObjectsMatch == EndsMatch /\ InodesMatch

\* sysfile.c:22-35, file.c:107-179: a descriptor that a process can use names a file
\* that is ready, and the file stays open while a read() or write() works on it,
\* whoever else closes it.
DescriptorsReady ==
    \A p \in Proc :
        /\ pc[p] = "user" => \A fd \in Fd : ofile[p][fd] # 0 => file[ofile[p][fd]].type # "FD_NONE"
        /\ pc[p] = "fileread" => file[using[p]].ref > 0 /\ file[using[p]].type # "FD_NONE"

\* syscall.c:176-204, proc.c:301-302: no process opens a file but the allowed one once
\* it, or its parent before fork(), has called interpose() with a mask for open().
Confined == ~strayed

\* No file is closed or duplicated that nobody has.
NoPanic == panic = "none"

\* file.c, sysfile.c: a file is counted, complete and open as long as somebody can use
\* it, at every step of every call.
FilesCounted == TypeOK /\ RefsMatch /\ DescriptorsReady /\ NoPanic

----------------------------------------------------------------------------
(* The inductive invariant *)

Labels == {"unused", "embryo", "user", "kfork", "fileread", "open", "open_bad", "pipealloc",
           "pipe", "pipe_fds", "fileclose", "kexit", "zombie"}

LocalsOK ==
    /\ pc \in [Proc -> Labels]
    /\ ff \in [Proc -> FileRec]
    /\ using \in [Proc -> File \cup Path \cup {0}]
    /\ child \in [Proc -> Proc]
    /\ policy \in [Proc -> [mask : Mask \cup {{}}, path : Path \cup {NoPath}]]

\* What the call of a process holds, step by step.
Making == {"open", "open_bad", "pipealloc", "pipe"}
Holds(p) ==
    /\ pc[p] \notin Making \cup {"pipe_fds", "fileclose", "kexit"} => hold[p] = NoHold
    /\ pc[p] \in {"open", "pipealloc", "pipe", "pipe_fds"} => hold[p][1] # 0
    /\ pc[p] \in {"pipe", "pipe_fds"} => hold[p][2] # 0
    /\ pc[p] \in {"open", "open_bad", "pipealloc", "kexit"} => hold[p][2] = 0
    /\ pc[p] \in {"open", "open_bad"} => using[p] \in Path
    /\ ~Closing(p) => ff[p] = NoFile
    /\ pc[p] = "open_bad" => ff[p].type = "FD_NONE"
    /\ pc[p] \in {"unused", "zombie"} => ofile[p] = NoFds
    /\ pc[p] = "fileread" => \E fd \in Fd : ofile[p][fd] = using[p] /\ using[p] # 0

\* A file that is free or not complete has no descriptor, and one call at most.
Complete ==
    \A f \in File : /\ file[f].ref = 0 => file[f].type = "FD_NONE"
                    /\ file[f].type = "FD_NONE" => file[f].ref <= 1
FdsReady ==
    \A p \in Proc, fd \in Fd : ofile[p][fd] # 0 => file[ofile[p][fd]].type # "FD_NONE"
HeldReady ==
    \A p \in Proc, s \in Pair : hold[p][s] # 0 =>
        /\ pc[p] \in Making => file[hold[p][s]].type = "FD_NONE"
        /\ pc[p] = "pipe_fds" => file[hold[p][s]].type # "FD_NONE"

\* An end of a pipe and an inode are what they say, and an end has one file.
Whole(x) == /\ x.type = "FD_PIPE" => x.obj \in PipeId /\ x.end \in {"read", "write"}
            /\ x.type = "FD_INODE" => x.obj \in Path
OneEnd ==
    /\ \A f \in File : Whole(file[f])
    /\ \A p \in Proc : Whole(ff[p])
    /\ \A k \in PipeId, e \in {"read", "write"} :
          /\ \A f, g \in File : PipeEnd(file[f], k, e) /\ PipeEnd(file[g], k, e) => f = g
          /\ \A p, q \in Proc : PipeEnd(ff[p], k, e) /\ PipeEnd(ff[q], k, e) => p = q
          /\ \A f \in File, p \in Proc : ~(PipeEnd(file[f], k, e) /\ PipeEnd(ff[p], k, e))

\* A child has one parent until fork() ends, and what its parent's interpose() said.
Forking ==
    \A p \in Proc : pc[p] = "kfork" =>
        /\ pc[child[p]] = "embryo"
        /\ policy[child[p]] = policy[p]
        /\ \A q \in Proc : pc[q] = "kfork" /\ child[q] = child[p] => q = p

Ruled == \A p \in Proc : pc[p] \notin {"unused", "embryo"} =>
            mask[p] = policy[p].mask /\ allowed[p] = policy[p].path

IInv == /\ TypeOK /\ LocalsOK /\ RefsMatch /\ NoPanic
        /\ Complete /\ FdsReady /\ HeldReady
        /\ \A p \in Proc : Holds(p)
        /\ OneEnd /\ ObjectsMatch
        /\ Forking /\ Ruled /\ Confined
=============================================================================
