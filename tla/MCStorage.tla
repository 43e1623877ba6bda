----------------------------- MODULE MCStorage -----------------------------
(***************************************************************************)
(* Instances of Blocks, Mkfs, Mem, Umalloc, Shell and Parse for TLC: who   *)
(* owns the blocks of the disk, the pages of memory, the heap of a program *)
(* and the pipes and processes of a command.  They share no state: the     *)
(* first state chooses which of them runs.                                 *)
(***************************************************************************)
EXTENDS Blocks, TLC

CONSTANTS p0, p1, p2, f1, f2,
    FSSIZE, nmeta, MaxFiles, DIRENT, MKFS_BPB, FileSizes,
    NPAGE, PGSIZE, FANOUT, MaxSz, USERSTACK, Segment, Step,
    HEAP, MORE, Units,
    NPROC, SH_NPIPE, NOFILE, MaxTyped,
    Token, MAXARGS, MaxLine

VARIABLES
    which,
    freeinode, freeblock, img_dinode, img_data, img_bitmap, queue, sizes, status,
    freelist, trapframe, table, sz, mem_pc, parent, mem, work, a, goal, newsz, then, mem_panic,
    ptr, size, freep, brk, want, given, foreign,
    sh_pc, cmd, sh_parent, sh, fd, fd0, fd1, typed, loose,
    line

image == <<freeinode, freeblock, img_dinode, img_data, img_bitmap, queue, sizes, status>>
pages == <<freelist, trapframe, table, sz, mem_pc, parent, mem, work, a, goal, newsz, then, mem_panic>>
heap  == <<ptr, size, freep, brk, want, given, foreign>>
shell == <<sh_pc, cmd, sh_parent, sh, fd, fd0, fd1, typed, loose>>

TwoProcs == {p1, p2}
TwoFiles == {f1, f2}

Image == INSTANCE Mkfs WITH dinode <- img_dinode, data <- img_data, bitmap <- img_bitmap, BPB <- MKFS_BPB
Pages == INSTANCE Mem WITH Proc <- {p0, p1, p2}, initproc <- p0, pc <- mem_pc, panic <- mem_panic
Heap  == INSTANCE Umalloc

\* prog | (prog ; prog > file) | prog, and (prog & ; prog).
Prog        == [type |-> "EXEC"]
Pipe(l, q)  == [type |-> "PIPE", left |-> l, right |-> q]
List(l, q)  == [type |-> "LIST", left |-> l, right |-> q]
Redir(k, x) == [type |-> "REDIR", fd |-> k, cmd |-> x]
Back(x)     == [type |-> "BACK", cmd |-> x]
TwoCommands == {Pipe(Prog, Pipe(List(Prog, Redir(1, Prog)), Prog)), List(Back(Prog), Prog)}

Commands == INSTANCE Shell WITH pc <- sh_pc, parent <- sh_parent, p0 <- fd0, p1 <- fd1,
                NPIPE <- SH_NPIPE, Command <- TwoCommands

Lines == INSTANCE Parse

\* Each process works on one file, its own or the one the other works on too.
OneFileEach == Next /\ UNCHANGED file

\* The first process only makes others: it does not call exec() itself.
ForkOnly == Pages!Next /\ mem_pc'[p0] # "uvmcreate"

NoImage ==
    /\ freeinode = None /\ freeblock = None /\ img_dinode = None /\ img_data = None
    /\ img_bitmap = None /\ queue = None /\ sizes = None /\ status = None

NoPages ==
    /\ freelist = None /\ trapframe = None /\ table = None /\ sz = None
    /\ mem_pc = None /\ parent = None /\ mem = None /\ work = None /\ a = None
    /\ goal = None /\ newsz = None /\ then = None /\ mem_panic = None

NoHeap ==
    /\ ptr = None /\ size = None /\ freep = None /\ brk = None
    /\ want = None /\ given = None /\ foreign = None

NoShell ==
    /\ sh_pc = None /\ cmd = None /\ sh_parent = None /\ sh = None /\ fd = None
    /\ fd0 = None /\ fd1 = None /\ typed = None /\ loose = None

MixInit ==
    /\ Init
    /\ Lines!Init
    /\ \/ which = "blocks" /\ NoImage /\ NoPages /\ NoHeap /\ NoShell
       \/ which = "image" /\ Image!Init /\ NoPages /\ NoHeap /\ NoShell
       \/ which = "pages" /\ NoImage /\ Pages!Init /\ NoHeap /\ NoShell
       \/ which = "heap" /\ NoImage /\ NoPages /\ Heap!Init /\ NoShell
       \/ which = "shell" /\ NoImage /\ NoPages /\ NoHeap /\ Commands!Init
       \/ which = "line" /\ NoImage /\ NoPages /\ NoHeap /\ NoShell

MixNext ==
    /\ UNCHANGED which
    /\ \/ which = "blocks" /\ OneFileEach /\ UNCHANGED <<image, pages, heap, shell, line>>
       \/ which = "image" /\ Image!Next /\ UNCHANGED <<vars, pages, heap, shell, line>>
       \/ which = "pages" /\ ForkOnly /\ UNCHANGED <<vars, image, heap, shell, line>>
       \/ which = "heap" /\ Heap!Next /\ UNCHANGED <<vars, image, pages, shell, line>>
       \/ which = "shell" /\ Commands!Next /\ UNCHANGED <<vars, image, pages, heap, line>>
       \/ which = "line" /\ Lines!Next /\ UNCHANGED <<vars, image, pages, heap, shell>>
       \/ /\ \/ which = "image" /\ status \in {"done", "assert", "die"}
             \/ which = "shell" /\ sh_pc[1] = "panic"
          /\ UNCHANGED <<vars, image, pages, heap, shell, line>>

MixSpec == MixInit /\ [][MixNext]_<<which, vars, image, pages, heap, shell, line>>

----------------------------------------------------------------------------
\* The bytes of a free block are not read, nor what is left of a header in the middle of
\* a block of the heap.  Which page is where does not matter as
\* long as each has one owner: states are told apart by which places hold a page.  The
\* variables of which a view takes only a part are compared with themselves, because TLC
\* stores a state's values only once something has evaluated the whole of them.
LiveBlocks == <<data = data, bitmap, [b \in Block |-> IF b \in bitmap THEN data[b] ELSE Zeroes], dinode, inode,
                lock, file, off, pc, left, todo, pos, logged, active, panic>>
Shape(t)  == {x \in DOMAIN t : t[x] # 0}
LivePages == <<freelist = freelist, trapframe = trapframe, mem = mem, table = table, Pages!OneOwner,
               [p \in {p0, p1, p2} |-> <<trapframe[p] # 0, mem[p] # 0, Shape(table[p]["cur"]), Shape(table[p]["new"])>>],
               sz, mem_pc, parent, work, a, goal, newsz, then, mem_panic>>
LiveHeap == <<ptr = ptr, size = size, [p \in Heap!FreeBlocks |-> ptr[p]], [x \in Heap!FreeBlocks \cup given |-> size[x]],
              freep, brk, want, given, foreign>>
LiveState == CASE which = "blocks" -> <<which, LiveBlocks>>
               [] which = "image"  -> <<which, image>>
               [] which = "pages"  -> <<which, LivePages>>
               [] which = "heap"   -> <<which, LiveHeap>>
               [] which = "shell"  -> <<which, shell>>
               [] which = "line"   -> <<which, line>>

Symmetry == Permutations({p1, p2}) \cup Permutations({f1, f2})

----------------------------------------------------------------------------
(* The properties, each of the behaviours of its module *)

\* Each block of the disk is free or at one address, in every state that fs.c commits
\* (Blocks!BlocksOwned).
DiskOwned == which = "blocks" => BlocksOwned

\* What is read from a file of fs.c is what was written to it (Blocks!ReadsOwn).
DiskReads == which = "blocks" => ReadsOwn

\* A chunk of filewrite() in file.c fits what begin_op() reserves (Blocks!WriteFits).
ChunksFit == which = "blocks" => WriteFits

\* The image mkfs.c builds marks in use what it names, and reads back as the files it
\* was given (Mkfs!ImageSound).
ImageSound == which = "image" => Image!ImageSound

\* Every page of kalloc.c is free or has one owner, whichever kalloc() fails, while the
\* processes stay below TRAPFRAME (Mem!PagesOwned).
PagesOwned == which = "pages" => Pages!PagesOwned

\* The table of a process maps nothing at and above p->sz, and no call of vm.c
\* panics, while the processes stay below TRAPFRAME (Mem!TableMatchesSize).
TableMatchesSize == which = "pages" => Pages!TableMatchesSize

\* Every unit of the heap is in one block of umalloc.c, and the free list is in order
\* with its neighbours joined (Umalloc!HeapSound).
HeapSound == which = "heap" => Heap!HeapSound

\* A program that reads from a pipe of sh.c sees its end (Shell!EOFComes).
EOFComes == which = "shell" => Commands!EOFComes

\* The shell prompts when the last command is over (Shell!PromptClean).
PromptClean == which = "shell" => Commands!PromptClean

\* The parser of sh.c builds the tree that the operators of a line say, and ends each
\* of its words (Parse!LineParsed).
LineParsed == which = "line" => Lines!LineParsed
=============================================================================
