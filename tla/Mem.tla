-------------------------------- MODULE Mem --------------------------------
(***************************************************************************)
(* Physical pages and who owns them: kalloc() and kfree() of               *)
(* kernel/kalloc.c, the page tables of kernel/vm.c, and the calls that     *)
(* change them: sbrk(), page faults, fork(), exit() with wait(), and       *)
(* exec().  Every call of kalloc() is a step of its own and fails when the *)
(* list is empty; between two of them other processes take and give pages. *)
(*                                                                         *)
(* A process works on one table at a time: its own ("cur"), or the one     *)
(* exec() builds ("new").  A child that fork() makes is built by steps of  *)
(* its own, while its parent waits in fork().                              *)
(***************************************************************************)
EXTENDS Naturals, FiniteSets, FiniteSetsExt, Sequences, Functions

CONSTANTS
    Proc,        \* the slots of the process table
    initproc,    \* the first process, which only calls fork() and exec()
    NPAGE,       \* the pages of physical memory are 1..NPAGE
    PGSIZE,      \* the size of a page
    FANOUT,      \* entries of a page-table page
    MaxSz,       \* the bound on the size of a process: sys_sbrk() has none
    USERSTACK,   \* pages of the user stack
    Segment,     \* where the segments of a program can end
    Step         \* the arguments of sbrk(), up or down

Page == 1..NPAGE

\* Virtual page numbers: a table has pages at the levels 2 (the root), 1 and 0.
NVA        == FANOUT * FANOUT * FANOUT
TRAMPOLINE == NVA - 1
TRAPFRAME  == NVA - 2
VA   == 0..(NVA - 1)
User == 0..(TRAPFRAME - 1)
trampoline == NPAGE + 1    \* the page of kernel text, which is never freed

\* The places of a table that hold a page: page-table pages, and those they map.
root == <<"level2", 0>>
Node == {root} \cup ({"level1"} \X (0..(FANOUT - 1)))
        \cup ({"level0"} \X (0..(FANOUT * FANOUT - 1)))
leaf(va) == <<"leaf", va>>
Slot     == Node \cup {leaf(va) : va \in VA}

\* The page-table pages on the way to va, below the root.
Path(va) == {<<"level1", va \div (FANOUT * FANOUT)>>, <<"level0", va \div FANOUT>>}

PGROUNDUP(n) == (n + PGSIZE - 1) \div PGSIZE     \* as a page number

VARIABLES
    freelist,    \* kmem.freelist
    trapframe,   \* [Proc -> the page of p->trapframe, or 0]
    table,       \* [Proc -> ["cur", "new" -> [Slot -> a page, or 0]]]
    sz,          \* [Proc -> p->sz], in bytes
    \* The call of each process, and its local variables.
    pc, parent,
    mem,         \* a page it has from kalloc() and has not mapped yet, or 0
    work,        \* the table it works on
    a,           \* the next page
    goal,        \* the end: a size for uvmalloc(), a page for uvmunmap()
    newsz,       \* the size that the process or the new table will have
    then,        \* what follows
    panic

local == <<parent, mem, work, a, goal, newsz, then>>
vars  == <<freelist, trapframe, table, sz, pc, local, panic>>

Set(f, p, v) == [f EXCEPT ![p] = v]

----------------------------------------------------------------------------
(* kalloc.c *)

kalloc   == freelist # <<>> /\ freelist' = Tail(freelist)
kfree(g)  == freelist' = <<g>> \o freelist

----------------------------------------------------------------------------
(* vm.c *)

NoTable == [s \in Slot |-> 0]
Tab(p)  == table[p][work[p]]

\* The page-table pages that walk() has yet to allocate for va, level 1 first.
Missing(t, va) == {n \in Path(va) : t[n] = 0}
Next_node(t, va) == CHOOSE n \in Missing(t, va) : n[1] = "level1" \/ Cardinality(Missing(t, va)) = 1

\* The next page that uvmcopy() finds in the table of the parent.
ToCopy(c) == {va \in a[c]..(PGROUNDUP(sz[parent[c]]) - 1) : table[parent[c]]["cur"][leaf(va)] # 0}

\* The loops that allocate and map pages go on; one page is being mapped, and where.
Looping(p) == \/ pc[p] = "uvmalloc" /\ a[p] * PGSIZE < goal[p]
              \/ pc[p] = "uvmcopy" /\ ToCopy(p) # {}
              \/ pc[p] = "vmfault"
Mapping(p) == mem[p] # 0 \/ pc[p] \in {"trampoline", "trapframe"}
Va(p) == CASE pc[p] = "trampoline" -> TRAMPOLINE
           [] pc[p] = "trapframe"  -> TRAPFRAME
           [] pc[p] = "uvmcopy"    -> Min(ToCopy(p))
           [] OTHER                -> a[p]
Pa(p) == CASE pc[p] = "trampoline" -> trampoline
           [] pc[p] = "trapframe"  -> trapframe[p]
           [] OTHER                -> mem[p]

\* The kalloc() of uvmalloc(), uvmcopy() and vmfault().
kalloc_mem(p) ==
    /\ Looping(p) /\ mem[p] = 0
    /\ kalloc
    /\ mem' = Set(mem, p, Head(freelist))
    /\ UNCHANGED <<trapframe, table, sz, pc, parent, work, a, goal, newsz, then, panic>>

\* mappages(): walk() allocates what is missing, and then the entry is made.
walk(p) ==
    /\ Mapping(p) /\ Missing(Tab(p), Va(p)) # {}
    /\ kalloc
    /\ table' = [table EXCEPT ![p][work[p]][Next_node(Tab(p), Va(p))] = Head(freelist)]
    /\ UNCHANGED <<trapframe, sz, pc, local, panic>>

\* What follows the mapping of a page.
Mapped(p) ==
    CASE pc[p] = "trampoline" -> "trapframe"
      [] pc[p] = "trapframe"  -> IF work[p] = "new" THEN "segments" ELSE "uvmcopy"
      [] pc[p] = "vmfault"    -> "idle"
      [] OTHER                -> pc[p]

mappages(p) ==
    /\ Mapping(p) /\ Missing(Tab(p), Va(p)) = {}
    /\ table' = [table EXCEPT ![p][work[p]][leaf(Va(p))] = Pa(p)]
    /\ panic' = IF Tab(p)[leaf(Va(p))] = 0 THEN panic ELSE "mappages: remap"
    /\ mem' = Set(mem, p, 0)
    /\ a' = Set(a, p, IF pc[p] \in {"uvmalloc", "uvmcopy"} THEN Va(p) + 1 ELSE 0)
    /\ pc' = Set(pc, p, Mapped(p))
    /\ UNCHANGED <<freelist, trapframe, sz, parent, work, goal, newsz, then>>

\* A kalloc() of these fails.  The page that was to be mapped goes back, while the
\* nodes that walk() has made remain in the table.
NeedsPage(p) == (Looping(p) /\ mem[p] = 0) \/ (Mapping(p) /\ Missing(Tab(p), Va(p)) # {})

OutOfMemory_leaks(p) ==
    /\ freelist = <<>> /\ NeedsPage(p)
    /\ UNCHANGED freelist
    /\ mem' = Set(mem, p, 0)
OutOfMemory(p) ==
    /\ freelist = <<>> /\ NeedsPage(p)
    /\ IF mem[p] = 0 THEN UNCHANGED freelist ELSE kfree(mem[p])
    /\ mem' = Set(mem, p, 0)

\* uvmunmap() of the pages from..(to - 1), with do_free, and what follows it.
Unmap(p, from, to, next) ==
    /\ pc' = Set(pc, p, "uvmunmap")
    /\ a' = Set(a, p, from)
    /\ goal' = Set(goal, p, to)
    /\ then' = Set(then, p, next)

Follow(p) ==
    /\ pc' = Set(pc, p, then[p])
    /\ a' = Set(a, p, 0) /\ goal' = Set(goal, p, 0) /\ then' = Set(then, p, "")

InRange(p) == {va \in a[p]..(goal[p] - 1) : Tab(p)[leaf(va)] # 0}

uvmunmap(p) ==
    /\ pc[p] = "uvmunmap"
    /\ InRange(p) # {}
    /\ LET va == Min(InRange(p)) IN
       /\ kfree(Tab(p)[leaf(va)])
       /\ panic' = IF Tab(p)[leaf(va)] = trampoline THEN "kfree" ELSE panic
       /\ table' = [table EXCEPT ![p][work[p]][leaf(va)] = 0]
       /\ a' = Set(a, p, va + 1)
    /\ UNCHANGED <<trapframe, sz, pc, parent, mem, work, goal, newsz, then>>

uvmunmap_end(p) ==
    /\ pc[p] = "uvmunmap"
    /\ InRange(p) = {}
    /\ IF then[p] = "idle"
       THEN sz' = Set(sz, p, newsz[p]) /\ newsz' = Set(newsz, p, 0)
       ELSE UNCHANGED <<sz, newsz>>
    /\ Follow(p)
    /\ UNCHANGED <<freelist, trapframe, table, parent, mem, work, panic>>

\* uvmalloc() from newsz[p] to the size to, and what follows its success.
Grow(p, from, to, next) ==
    /\ pc' = Set(pc, p, "uvmalloc")
    /\ a' = Set(a, p, PGROUNDUP(from))
    /\ newsz' = Set(newsz, p, from)
    /\ goal' = Set(goal, p, to)
    /\ then' = Set(then, p, next)

\* uvmdealloc() of what uvmalloc() has mapped.
uvmalloc_fails(p) ==
    /\ pc[p] = "uvmalloc"
    /\ OutOfMemory(p)
    /\ Unmap(p, PGROUNDUP(newsz[p]), a[p], IF work[p] = "cur" THEN "idle" ELSE "bad")
    /\ UNCHANGED <<trapframe, table, sz, parent, work, newsz, panic>>

uvmalloc_end(p) ==
    /\ pc[p] = "uvmalloc"
    /\ a[p] * PGSIZE >= goal[p]
    /\ IF work[p] = "cur"
       THEN sz' = Set(sz, p, goal[p]) /\ newsz' = Set(newsz, p, 0)
       ELSE newsz' = Set(newsz, p, Max({newsz[p], goal[p]})) /\ UNCHANGED sz
    /\ Follow(p)
    /\ UNCHANGED <<freelist, trapframe, table, parent, mem, work, panic>>

\* proc_freepagetable(): TRAMPOLINE and TRAPFRAME are unmapped and not freed, then
\* uvmfree() frees the first size bytes and calls freewalk().
NoTop(t) == [t EXCEPT ![leaf(TRAMPOLINE)] = 0, ![leaf(TRAPFRAME)] = 0]

proc_freepagetable(p, w, t, size) ==
    /\ table' = [table EXCEPT ![p][w] = NoTop(t)]
    /\ work' = Set(work, p, w)
    /\ Unmap(p, 0, PGROUNDUP(size), "freewalk")

\* p->state = UNUSED, and its parent goes on in kwait() or kfork().
Freed(p) == [pc EXCEPT ![p] = "unused", ![parent[p]] = "idle"]

\* freewalk() frees one page of the table, children before their parents, and the
\* root at the end.  It is called by exec(), by freeproc(), which has freed the
\* trapframe, or by proc_pagetable() in allocproc(), which goes on to freeproc().
Nodes(p, level) == {n \in Node : n[1] = level /\ Tab(p)[n] # 0}
Lowest(p) == Nodes(p, CHOOSE l \in {"level0", "level1", "level2"} :
                 /\ Nodes(p, l) # {}
                 /\ l # "level0" => Nodes(p, "level0") = {}
                 /\ l = "level2" => Nodes(p, "level1") = {})

freewalk(p) ==
    LET n == CHOOSE m \in Lowest(p) : \A k \in Lowest(p) : m[2] <= k[2] IN
    /\ pc[p] = "freewalk"
    /\ kfree(Tab(p)[n])
    /\ table' = [table EXCEPT ![p][work[p]][n] = 0]
    /\ panic' = IF \E va \in VA : Tab(p)[leaf(va)] # 0 THEN "freewalk: leaf" ELSE panic
    /\ IF n[1] # "level2" THEN UNCHANGED <<pc, work>>
       ELSE /\ pc' = IF work[p] = "new" THEN Set(pc, p, "idle")
                     ELSE IF trapframe[p] # 0 THEN Set(pc, p, "freeproc")
                     ELSE Freed(p)
            /\ work' = Set(work, p, "cur")
    /\ UNCHANGED <<trapframe, sz, parent, mem, a, goal, newsz, then>>

----------------------------------------------------------------------------
(* sbrk() and page faults *)

sbrk_grow(p, n) ==
    /\ pc[p] = "idle" /\ p # initproc
    /\ sz[p] + n <= MaxSz
    /\ Grow(p, sz[p], sz[p] + n, "idle")
    /\ UNCHANGED <<freelist, trapframe, table, sz, parent, mem, work, panic>>

\* The code asks only that addr + n does not wrap around 64 bits.
sbrk_lazy(p, n) ==
    /\ pc[p] = "idle" /\ p # initproc
    /\ sz[p] + n <= MaxSz
    /\ sz' = Set(sz, p, sz[p] + n)
    /\ UNCHANGED <<freelist, trapframe, table, pc, local, panic>>

\* uvmdealloc(): the pages that lie wholly above the new size go.
Keeps_one_more(n) == PGROUNDUP(n) + 1
Keeps(n) == PGROUNDUP(n)

sbrk_shrink(p, n) ==
    /\ pc[p] = "idle" /\ p # initproc
    /\ n <= sz[p]
    /\ newsz' = Set(newsz, p, sz[p] - n)
    /\ Unmap(p, Keeps(sz[p] - n), PGROUNDUP(sz[p]), "idle")
    /\ UNCHANGED <<freelist, trapframe, table, sz, parent, mem, work, panic>>

\* vmfault(), from usertrap(), copyin() or copyout(), at a page below sz that is not
\* mapped.
vmfault(p, va) ==
    /\ pc[p] = "idle" /\ p # initproc
    /\ va * PGSIZE < sz[p]
    /\ Tab(p)[leaf(va)] = 0
    /\ pc' = Set(pc, p, "vmfault")
    /\ a' = Set(a, p, va)
    /\ UNCHANGED <<freelist, trapframe, table, sz, parent, mem, work, goal, newsz, then, panic>>

\* kexit(), as a call or because a fault failed: the children go to initproc.
Exit(p) ==
    /\ pc' = Set(pc, p, "zombie")
    /\ parent' = [c \in Proc |-> IF parent[c] = p THEN initproc ELSE parent[c]]

vmfault_fails(p) ==
    /\ pc[p] = "vmfault"
    /\ OutOfMemory(p)
    /\ a' = Set(a, p, 0)
    /\ \/ Exit(p)                           \* in usertrap()
       \/ /\ pc' = Set(pc, p, "idle")       \* in copyin() or copyout(), which return -1
          /\ UNCHANGED parent
    /\ UNCHANGED <<trapframe, table, sz, work, goal, newsz, then, panic>>

kexit(p) ==
    /\ pc[p] = "idle" /\ p # initproc
    /\ Exit(p)
    /\ UNCHANGED <<freelist, trapframe, table, sz, mem, work, a, goal, newsz, then, panic>>

\* kwait() of p finds its child c.
kwait(p, c) ==
    /\ pc[p] = "idle"
    /\ pc[c] = "zombie" /\ parent[c] = p
    /\ pc' = [pc EXCEPT ![p] = "kwait", ![c] = "freeproc"]
    /\ UNCHANGED <<freelist, trapframe, table, sz, local, panic>>

\* freeproc() of what there is: a child may have no table, or nothing at all.
freeproc(p) ==
    /\ pc[p] = "freeproc"
    /\ IF trapframe[p] # 0 THEN kfree(trapframe[p]) ELSE UNCHANGED freelist
    /\ trapframe' = Set(trapframe, p, 0)
    /\ sz' = Set(sz, p, 0)
    /\ \/ /\ table[p]["cur"][root] # 0
          /\ proc_freepagetable(p, "cur", table[p]["cur"], sz[p])
       \/ /\ table[p]["cur"][root] = 0
          /\ pc' = Freed(p)
          /\ UNCHANGED <<table, work, a, goal, then>>
    /\ UNCHANGED <<parent, mem, newsz, panic>>

----------------------------------------------------------------------------
(* fork() *)

kfork(p, c) ==
    /\ pc[p] = "idle"
    /\ pc[c] = "unused"
    /\ pc' = [pc EXCEPT ![p] = "kfork", ![c] = "allocproc"]
    /\ parent' = Set(parent, c, p)
    /\ UNCHANGED <<freelist, trapframe, table, sz, mem, work, a, goal, newsz, then, panic>>

\* allocproc(): the trapframe, or freeproc().
allocproc(c) ==
    /\ pc[c] = "allocproc"
    /\ \/ /\ kalloc
          /\ trapframe' = Set(trapframe, c, Head(freelist))
          /\ pc' = Set(pc, c, "uvmcreate")
       \/ /\ freelist = <<>>
          /\ pc' = Set(pc, c, "freeproc")
          /\ UNCHANGED <<freelist, trapframe>>
    /\ UNCHANGED <<table, sz, local, panic>>

\* proc_pagetable(), for allocproc() or exec(): uvmcreate(), and then mappages() of
\* the trampoline and of the trapframe.
uvmcreate(p) ==
    /\ pc[p] = "uvmcreate"
    /\ \/ /\ kalloc
          /\ table' = [table EXCEPT ![p][work[p]][root] = Head(freelist)]
          /\ pc' = Set(pc, p, "trampoline")
          /\ UNCHANGED work
       \/ /\ freelist = <<>>
          /\ pc' = Set(pc, p, IF work[p] = "new" THEN "idle" ELSE "freeproc")
          /\ work' = Set(work, p, "cur")
          /\ UNCHANGED <<freelist, table>>
    /\ UNCHANGED <<trapframe, sz, parent, mem, a, goal, newsz, then, panic>>

\* A mappages() fails: what is mapped is unmapped, and uvmfree() of no pages.
proc_pagetable_fails(p) ==
    /\ pc[p] \in {"trampoline", "trapframe"}
    /\ OutOfMemory(p)
    /\ proc_freepagetable(p, work[p], Tab(p), 0)
    /\ UNCHANGED <<trapframe, sz, parent, newsz, panic>>

\* The pages before the one that failed are unmapped; then kfork() calls freeproc().
uvmcopy_fails(c) ==
    /\ pc[c] = "uvmcopy"
    /\ OutOfMemory(c)
    /\ Unmap(c, 0, Va(c), "freeproc")
    /\ UNCHANGED <<trapframe, table, sz, parent, work, newsz, panic>>

uvmcopy_end(c) ==
    /\ pc[c] = "uvmcopy"
    /\ ToCopy(c) = {}
    /\ sz' = Set(sz, c, sz[parent[c]])
    /\ pc' = [pc EXCEPT ![c] = "idle", ![parent[c]] = "idle"]
    /\ a' = Set(a, c, 0)
    /\ UNCHANGED <<freelist, trapframe, table, parent, mem, work, goal, newsz, then, panic>>

----------------------------------------------------------------------------
(* exec() *)

kexec(p) ==
    /\ pc[p] = "idle"
    /\ pc' = Set(pc, p, "uvmcreate")
    /\ work' = Set(work, p, "new")
    /\ UNCHANGED <<freelist, trapframe, table, sz, parent, mem, a, goal, newsz, then, panic>>

\* A segment of the program that ends at e.
segment(p, e) ==
    /\ pc[p] = "segments"
    /\ Grow(p, newsz[p], e, "loadseg")
    /\ UNCHANGED <<freelist, trapframe, table, sz, parent, mem, work, panic>>

\* loadseg(): the pages of the segment are there.
loadseg(p) ==
    /\ pc[p] = "loadseg"
    /\ panic' = IF \E va \in 0..(PGROUNDUP(newsz[p]) - 1) : Tab(p)[leaf(va)] = 0
                THEN "loadseg: address should exist" ELSE panic
    /\ \/ pc' = Set(pc, p, "segments")
       \/ pc' = Set(pc, p, "bad")              \* readi() fails
    /\ UNCHANGED <<freelist, trapframe, table, sz, local>>

\* The stack, with its guard page.
stack(p) ==
    LET top == PGROUNDUP(newsz[p]) * PGSIZE IN
    /\ pc[p] = "segments"
    /\ Grow(p, top, top + (USERSTACK + 1) * PGSIZE, "uvmclear")
    /\ UNCHANGED <<freelist, trapframe, table, sz, parent, mem, work, panic>>

\* uvmclear() of the guard page.
uvmclear(p) ==
    LET guard == PGROUNDUP(newsz[p]) - (USERSTACK + 1) IN
    /\ pc[p] = "uvmclear"
    /\ pc' = Set(pc, p, "arguments")
    /\ panic' = IF Missing(Tab(p), guard) # {} THEN "uvmclear" ELSE panic
    /\ UNCHANGED <<freelist, trapframe, table, sz, local>>

\* The arguments do not fit, or the program header is bad.
goto_bad(p) ==
    /\ pc[p] \in {"segments", "arguments"}
    /\ pc' = Set(pc, p, "bad")
    /\ UNCHANGED <<freelist, trapframe, table, sz, local, panic>>

\* The new table takes the place of the old one, which is freed with the old size.
commit(p) ==
    /\ pc[p] = "arguments"
    /\ sz' = Set(sz, p, newsz[p])
    /\ newsz' = Set(newsz, p, 0)
    /\ table' = [table EXCEPT ![p] =
                    [cur |-> @["new"], new |-> NoTop(@["cur"])]]
    /\ Unmap(p, 0, PGROUNDUP(sz[p]), "freewalk")
    /\ UNCHANGED <<freelist, trapframe, parent, mem, work, panic>>

bad(p) ==
    /\ pc[p] = "bad"
    /\ proc_freepagetable(p, "new", Tab(p), newsz[p])
    /\ newsz' = Set(newsz, p, 0)
    /\ UNCHANGED <<freelist, trapframe, sz, parent, mem, panic>>

----------------------------------------------------------------------------
\* userinit(): the first process has no user memory yet.
Init ==
    LET first == [x \in Slot |-> CASE x = leaf(TRAMPOLINE)     -> trampoline
                                   [] x = leaf(TRAPFRAME)      -> 1
                                   [] x = root                 -> 2
                                   [] x \in Path(TRAMPOLINE)   -> IF x[1] = "level1" THEN 3 ELSE 4
                                   [] OTHER                    -> 0] IN
    /\ freelist = [k \in 1..(NPAGE - 4) |-> k + 4]
    /\ trapframe = [p \in Proc |-> IF p = initproc THEN 1 ELSE 0]
    /\ table = [p \in Proc |-> [cur |-> IF p = initproc THEN first ELSE NoTable,
                                new |-> NoTable]]
    /\ sz = [p \in Proc |-> 0]
    /\ pc = [p \in Proc |-> IF p = initproc THEN "idle" ELSE "unused"]
    /\ parent = [p \in Proc |-> initproc]
    /\ mem = [p \in Proc |-> 0]
    /\ work = [p \in Proc |-> "cur"]
    /\ a = [p \in Proc |-> 0]
    /\ goal = [p \in Proc |-> 0]
    /\ newsz = [p \in Proc |-> 0]
    /\ then = [p \in Proc |-> ""]
    /\ panic = ""

Next ==
    /\ panic = ""
    /\ \E p \in Proc :
        \/ kalloc_mem(p) \/ walk(p) \/ mappages(p)
        \/ uvmunmap(p) \/ uvmunmap_end(p)
        \/ uvmalloc_fails(p) \/ uvmalloc_end(p)
        \/ freewalk(p) \/ freeproc(p) \/ kexit(p) \/ vmfault_fails(p)
        \/ allocproc(p) \/ uvmcreate(p) \/ proc_pagetable_fails(p)
        \/ uvmcopy_fails(p) \/ uvmcopy_end(p)
        \/ kexec(p) \/ loadseg(p) \/ stack(p) \/ uvmclear(p) \/ goto_bad(p) \/ commit(p) \/ bad(p)
        \/ \E n \in Step : sbrk_grow(p, n) \/ sbrk_lazy(p, n) \/ sbrk_shrink(p, n)
        \/ \E va \in VA : vmfault(p, va)
        \/ \E e \in Segment : segment(p, e)
        \/ \E c \in Proc : kfork(p, c) \/ kwait(p, c)

Spec == Init /\ [][Next]_vars

----------------------------------------------------------------------------
(* Properties *)

\* The types, and that the parent of a process, whose table fork() reads and who
\* frees it in wait(), is still there.
TypeOK ==
    /\ freelist \in Seq(Page)
    /\ table \in [Proc -> [{"cur", "new"} -> [Slot -> 0..trampoline]]]
    /\ trapframe \in [Proc -> Page \cup {0}] /\ mem \in [Proc -> Page \cup {0}]
    /\ sz \in [Proc -> 0..MaxSz] /\ newsz \in [Proc -> 0..(NVA * PGSIZE)]
    /\ \A c \in Proc : pc[c] # "unused" => pc[parent[c]] \notin {"unused", "zombie"}

\* What a process holds: the pages of its tables but for the trampoline and the
\* trapframe, which are mapped there and not owned, and its trapframe.
Held(t)    == {x \in DOMAIN t : t[x] # 0 /\ x \notin {leaf(TRAMPOLINE), leaf(TRAPFRAME)}}
Places(p)  == Cardinality(Held(table[p]["cur"])) + Cardinality(Held(table[p]["new"]))
              + (IF trapframe[p] = 0 THEN 0 ELSE 1) + (IF mem[p] = 0 THEN 0 ELSE 1)
PagesOf(p) == {table[p]["cur"][x] : x \in Held(table[p]["cur"])}
              \cup {table[p]["new"][x] : x \in Held(table[p]["new"])} \cup {trapframe[p], mem[p]}

\* kalloc.c, vm.c: as many places hold a page as there are pages, and every page is
\* in one of them.
OneOwner ==
    /\ Len(freelist) + MapThenSumSet(Places, Proc) = NPAGE
    /\ Page \subseteq Range(freelist) \cup UNION {PagesOf(p) : p \in Proc}

\* kalloc.c, vm.c, proc.c: at every step, also when any kalloc() of these calls fails,
\* each page of memory is on the free list once, or has one owner: a trapframe, a
\* page-table page, one mapping of one process, or the call that has just got it.  None
\* is lost, shared or freed twice, for processes that stay below TRAPFRAME
\* (MaxSz <= TRAPFRAME * PGSIZE).
PagesOwned == TypeOK /\ OneOwner

\* vm.c: no table is freed with a page still in it, none is mapped where another is, and
\* exec() finds every page it loads a segment to.
NoVmPanic == panic = ""

\* vm.c, exec.c: when a process runs, nothing is mapped above its size, which is all
\* that freeproc() and exec() will unmap, its trapframe is where usertrap() looks for
\* it, and no other table is left; an unused slot has nothing.  So freewalk(),
\* mappages() and loadseg() never find what makes them panic.  This too is for processes
\* that stay below TRAPFRAME, which sys_sbrk() does not see to.
TableMatchesSize ==
    NoVmPanic /\ \A p \in Proc :
        /\ pc[p] = "idle" =>
              /\ \A va \in User : table[p]["cur"][leaf(va)] # 0 => va < PGROUNDUP(sz[p])
              /\ table[p]["cur"][leaf(TRAPFRAME)] = trapframe[p]
        /\ pc[p] \in {"idle", "unused"} => table[p]["new"] = NoTable
        /\ pc[p] = "unused" => trapframe[p] = 0 /\ table[p]["cur"] = NoTable
=============================================================================
