------------------------------ MODULE Umalloc ------------------------------
(***************************************************************************)
(* user/umalloc.c: malloc() and free() over a circular list of free        *)
(* blocks, which is kept in the headers of these blocks.  Addresses and    *)
(* sizes are in units of a header; 0 is the address of base.               *)
(***************************************************************************)
EXTENDS Naturals, FiniteSetsExt

CONSTANTS
    HEAP,     \* sbrk() fails beyond this address
    MORE,     \* the least that morecore() asks for: 4096
    Units     \* what malloc() is asked for, with the header

VARIABLES
    ptr, size,    \* the headers at each address
    freep,        \* freep, or NULL before the first malloc()
    brk,          \* the end of the heap
    want,         \* the nunits of a malloc() that has called morecore(), or 0
    given,        \* the blocks malloc() has returned; not in the code
    foreign       \* what sbrk() gave to others; not in the code

vars == <<ptr, size, freep, brk, want, given, foreign>>

Addr == 0..HEAP
NULL == HEAP + 1

\* The list from p: its k-th element.
Walk(p) == LET nth[k \in 0..HEAP] == IF k = 0 THEN p ELSE ptr[nth[k - 1]] IN nth

\* free(): the place p of bp, and the joining of neighbours.
Between(p, bp) == p < bp /\ bp < ptr[p]
AtEnd(p, bp)   == p >= ptr[p] /\ (bp > p \/ bp < ptr[p])
Place(bp) ==
    LET nth == Walk(freep) IN
    nth[Min({k \in 0..HEAP : Between(nth[k], bp) \/ AtEnd(nth[k], bp)})]

JoinUpper(bp, sz, p) == bp + sz = ptr[p]
JoinLower(bp, p)     == p + size[p] = bp

free(bp, sz) ==
    LET p == Place(bp)
        up == JoinUpper(bp, sz, p)
        bsize == IF up THEN sz + size[ptr[p]] ELSE sz
        bptr == IF up THEN ptr[ptr[p]] ELSE ptr[p] IN
    /\ IF JoinLower(bp, p)
       THEN /\ size' = [size EXCEPT ![bp] = bsize, ![p] = @ + bsize]
            /\ ptr' = [ptr EXCEPT ![bp] = bptr, ![p] = bptr]
       ELSE /\ size' = [size EXCEPT ![bp] = bsize]
            /\ ptr' = [ptr EXCEPT ![bp] = bptr, ![p] = bp]
    /\ freep' = p

\* The program frees a block that it has.
release(b) ==
    /\ want = 0
    /\ b \in given
    /\ free(b, size[b])
    /\ given' = given \ {b}
    /\ UNCHANGED <<brk, want, foreign>>

\* malloc(): the list is empty at first, with only base.
start(n) ==
    /\ want = 0 /\ freep = NULL
    /\ ptr' = [ptr EXCEPT ![0] = 0]
    /\ size' = [size EXCEPT ![0] = 0]
    /\ freep' = 0
    /\ want' = n
    /\ UNCHANGED <<brk, given, foreign>>

\* The list is searched from the element after freep to freep itself.
Round   == LET nth == Walk(freep) IN 1..Min({k \in 1..HEAP : nth[k] = freep})
Fitting(n) == {k \in Round : size[Walk(freep)[k]] >= n}

\* The first that fits is taken, or its upper part.
Taken_header_kept(p, n) == [size EXCEPT ![p + size[p] - n] = n]
Taken(p, n) == [size EXCEPT ![p] = @ - n, ![p + size[p] - n] = n]

malloc(n) ==
    LET nth == Walk(freep)
        k == Min(Fitting(n))
        p == nth[k]
        prevp == nth[k - 1] IN
    /\ freep # NULL
    /\ want \in {0, n}
    /\ Fitting(n) # {}
    /\ IF size[p] = n
       THEN ptr' = [ptr EXCEPT ![prevp] = ptr[p]] /\ UNCHANGED size
       ELSE size' = Taken(p, n) /\ UNCHANGED ptr
    /\ given' = given \cup {p + size[p] - n}
    /\ freep' = prevp
    /\ want' = 0
    /\ UNCHANGED <<brk, foreign>>

\* No block fits: sbrk(), and free() of what it gives; then the search goes on.
nu(n) == Max({n, MORE})

morecore(n) ==
    /\ freep # NULL
    /\ want \in {0, n}
    /\ Fitting(n) = {}
    /\ brk + nu(n) <= HEAP
    /\ free(brk, nu(n))
    /\ brk' = brk + nu(n)
    /\ want' = n
    /\ UNCHANGED <<given, foreign>>

morecore_fails(n) ==
    /\ freep # NULL
    /\ want \in {0, n}
    /\ Fitting(n) = {}
    /\ brk + nu(n) > HEAP
    /\ want' = 0
    /\ UNCHANGED <<ptr, size, freep, brk, given, foreign>>

\* The program calls sbrk() itself: the heap is not one piece.
sbrk ==
    /\ want = 0
    /\ brk < HEAP
    /\ brk' = brk + 1
    /\ foreign' = foreign \cup {brk}
    /\ UNCHANGED <<ptr, size, freep, want, given>>

----------------------------------------------------------------------------
Init ==
    /\ ptr = [a \in Addr |-> 0]
    /\ size = [a \in Addr |-> 0]
    /\ freep = NULL
    /\ brk = 1
    /\ want = 0
    /\ given = {}
    /\ foreign = {}

Next ==
    \/ sbrk
    \/ \E b \in Addr : release(b)
    \/ \E n \in Units : start(n) \/ malloc(n) \/ morecore(n) \/ morecore_fails(n)

Spec == Init /\ [][Next]_vars

----------------------------------------------------------------------------
(* Properties *)

FreeBlocks == IF freep = NULL THEN {} ELSE {Walk(freep)[k] : k \in Round}
Extent(b)  == b..(b + size[b] - 1)

\* umalloc.c:24-90: each unit that sbrk() gave to malloc() is in one block, free or
\* given to the program: no two blocks overlap, however they were split and joined,
\* and none is lost.
UnitsOwned ==
    LET blocks == (FreeBlocks \ {0}) \cup given IN
    /\ \A b, c \in blocks : b # c => Extent(b) \cap Extent(c) = {}
    /\ UNION {Extent(b) : b \in blocks} = 1..(brk - 1) \ foreign
    /\ FreeBlocks \cap given = {}

\* umalloc.c:30-43: the free list is in the order of addresses, so that the loop of
\* free() ends, and no two neighbours in it are left unjoined.
ListJoined ==
    freep # NULL =>
        /\ 0 \in FreeBlocks
        /\ \A p \in FreeBlocks :
             /\ ptr[p] = Min({q \in FreeBlocks : q > p} \cup
                             (IF p = Max(FreeBlocks) THEN FreeBlocks ELSE {}))
             /\ p # 0 => p + size[p] # ptr[p]

\* umalloc.c:24-90: malloc() and free() keep the heap whole and its free list in order.
HeapSound == UnitsOwned /\ ListJoined
=============================================================================
