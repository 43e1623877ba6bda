-------------------------------- MODULE Pipe --------------------------------
(***************************************************************************)
(* kernel/pipe.c: a pipe shared by any number of reading and writing       *)
(* processes, each with a descriptor of its own to one end.                *)
(*                                                                         *)
(* One action is one pass through a loop of pipewrite() or piperead(), or  *)
(* a section of code that ends by giving up pi->lock.  kill() needs no     *)
(* pi->lock, so it may fall between any two of them.                       *)
(***************************************************************************)
EXTENDS Naturals, Sequences

CONSTANTS
    Reader, Writer,  \* the processes with a descriptor of each end
    None,            \* nobody holds pi->lock
    Byte,            \* the bytes written
    PIPESIZE,
    UINT,            \* the number of values of a uint
    Count,           \* the byte counts n of the calls
    Killable         \* the processes that may be killed

Proc == Reader \cup Writer

ASSUME PipeAssumption ==
    /\ Reader # {} /\ Writer # {} /\ Reader \cap Writer = {}
    /\ None \notin Proc
    /\ PIPESIZE \in Nat \ {0}
    /\ UINT \in Nat /\ Count \subseteq Nat
    /\ \E k \in 2..UINT : UINT = k * PIPESIZE

VARIABLES
    lock,                 \* the holder of pi->lock
    data, nread, nwrite,  \* the ring and its counters
    readopen, writeopen,
    open,                 \* [Proc -> BOOLEAN]: the process has its descriptor
    killed,               \* [Proc -> BOOLEAN]
    pc,                   \* [Proc -> where the process is in this file]
    left                  \* [Proc -> Nat]: n - i, what the call has still to do

ring  == <<data, nread, nwrite>>
ends  == <<readopen, writeopen, open>>
vars  == <<lock, ring, ends, killed, pc, left>>

wakeup_nobody(S, p, l) == pc' = [pc EXCEPT ![p] = l]
\* wakeup() of the sleepers in S, by p on its way to l.
wakeup(S, p, l) ==
    pc' = [q \in Proc |-> IF q = p THEN l
                          ELSE IF q \in S /\ pc[q] = "asleep" THEN "acquire" ELSE pc[q]]

Goto(p, l) == pc' = [pc EXCEPT ![p] = l]
release == lock' = None

Empty == nread = nwrite
Full_overrun == nwrite = (nread + PIPESIZE + 1) % UINT
Full  == nwrite = (nread + PIPESIZE) % UINT

----------------------------------------------------------------------------
\* The call of write() or read() for c bytes.
call(p, c) ==
    /\ pc[p] = "idle" /\ open[p]
    /\ left' = [left EXCEPT ![p] = c]
    /\ Goto(p, "acquire")
    /\ UNCHANGED <<lock, ring, ends, killed>>

\* acquire(&pi->lock), at the start and at the end of sleep().
acquire(p) ==
    /\ pc[p] = "acquire" /\ lock = None
    /\ lock' = p
    /\ Goto(p, "loop")
    /\ UNCHANGED <<ring, ends, killed, left>>

----------------------------------------------------------------------------
(* pipewrite() *)

write_loop(w) ==
    /\ pc[w] = "loop"
    /\ \/ left[w] > 0 /\ readopen /\ ~killed[w] /\ Goto(w, "copy") /\ UNCHANGED lock
       \/ left[w] > 0 /\ (~readopen \/ killed[w]) /\ Goto(w, "idle") /\ release    \* -1
       \/ left[w] = 0 /\ wakeup(Reader, w, "idle") /\ release
    /\ UNCHANGED <<ring, ends, killed, left>>

write_sleep(w) ==
    /\ pc[w] = "copy" /\ Full
    /\ wakeup(Reader, w, "asleep")
    /\ release
    /\ UNCHANGED <<ring, ends, killed, left>>

write_byte(w, b) ==
    /\ pc[w] = "copy" /\ ~Full
    /\ data' = [data EXCEPT ![nwrite % PIPESIZE] = b]
    /\ nwrite' = (nwrite + 1) % UINT
    /\ left' = [left EXCEPT ![w] = @ - 1]
    /\ Goto(w, "loop")
    /\ UNCHANGED <<lock, nread, ends, killed>>

copyin_fails(w) ==
    /\ pc[w] = "copy" /\ ~Full
    /\ wakeup(Reader, w, "idle")
    /\ release
    /\ UNCHANGED <<ring, ends, killed, left>>

----------------------------------------------------------------------------
(* piperead() *)

read_loop(r) ==
    /\ pc[r] = "loop"
    /\ \/ Empty /\ writeopen /\ killed[r] /\ Goto(r, "idle") /\ release            \* -1
       \/ Empty /\ writeopen /\ ~killed[r] /\ Goto(r, "sleep") /\ UNCHANGED lock
       \/ (~Empty \/ ~writeopen) /\ Goto(r, "copy") /\ UNCHANGED lock
    /\ UNCHANGED <<ring, ends, killed, left>>

read_sleep(r) ==
    /\ pc[r] = "sleep"
    /\ Goto(r, "asleep")
    /\ release
    /\ UNCHANGED <<ring, ends, killed, left>>

\* copyout() of the byte may fail: the byte is gone all the same.
read_byte(r) ==
    /\ pc[r] = "copy" /\ left[r] > 0 /\ ~Empty
    /\ nread' = (nread + 1) % UINT
    /\ \/ left' = [left EXCEPT ![r] = @ - 1] /\ UNCHANGED <<lock, pc>>
       \/ wakeup(Writer, r, "idle") /\ release /\ UNCHANGED left
    /\ UNCHANGED <<data, nwrite, ends, killed>>

read_end(r) ==
    /\ pc[r] = "copy" /\ (left[r] = 0 \/ Empty)
    /\ wakeup(Writer, r, "idle")
    /\ release
    /\ UNCHANGED <<ring, ends, killed, left>>

----------------------------------------------------------------------------
(* pipeclose(), kkill() *)

\* fileclose(): f->ref drops to 0 with the last descriptor of an end.
Last(p, S) == p \in S /\ \A q \in S \ {p} : ~open[q]

\* fileclose(), with pipeclose() for the last descriptor of an end.
close(p) ==
    /\ pc[p] = "idle" /\ open[p] /\ lock = None
    /\ open' = [open EXCEPT ![p] = FALSE]
    /\ \/ Last(p, Writer) /\ writeopen' = FALSE /\ wakeup(Reader, p, "idle") /\ UNCHANGED readopen
       \/ Last(p, Reader) /\ readopen' = FALSE /\ wakeup(Writer, p, "idle") /\ UNCHANGED writeopen
       \/ ~Last(p, Reader) /\ ~Last(p, Writer) /\ UNCHANGED <<readopen, writeopen, pc>>
    /\ UNCHANGED <<lock, ring, killed, left>>

kkill(p) ==
    /\ p \in Killable /\ ~killed[p]
    /\ killed' = [killed EXCEPT ![p] = TRUE]
    /\ pc' = IF pc[p] = "asleep" THEN [pc EXCEPT ![p] = "acquire"] ELSE pc
    /\ UNCHANGED <<lock, ring, ends, left>>

----------------------------------------------------------------------------
\* pipealloc(): the page comes from kalloc() with any contents.
Init ==
    /\ lock = None
    /\ data \in [0..(PIPESIZE - 1) -> Byte]
    /\ nread = 0 /\ nwrite = 0
    /\ readopen = TRUE /\ writeopen = TRUE
    /\ open = [p \in Proc |-> TRUE]
    /\ killed = [p \in Proc |-> FALSE]
    /\ pc = [p \in Proc |-> "idle"]
    /\ left = [p \in Proc |-> 0]

Write(w) == write_loop(w) \/ write_sleep(w) \/ copyin_fails(w) \/ \E b \in Byte : write_byte(w, b)

Read(r) == read_loop(r) \/ read_sleep(r) \/ read_byte(r) \/ read_end(r)

Next ==
    \/ \E p \in Proc : (\E c \in Count : call(p, c)) \/ acquire(p) \/ close(p) \/ kkill(p)
    \/ \E w \in Writer : Write(w)
    \/ \E r \in Reader : Read(r)

Spec == Init /\ [][Next]_vars

----------------------------------------------------------------------------
(* Properties *)

TypeOK ==
    /\ lock \in Proc \cup {None}
    /\ data \in [0..(PIPESIZE - 1) -> Byte]
    /\ nread \in 0..(UINT - 1) /\ nwrite \in 0..(UINT - 1)
    /\ readopen \in BOOLEAN /\ writeopen \in BOOLEAN
    /\ open \in [Proc -> BOOLEAN] /\ killed \in [Proc -> BOOLEAN]
    /\ pc \in [Proc -> {"idle", "acquire", "loop", "copy", "sleep", "asleep"}]
    /\ left \in [Proc -> Nat]

\* The bytes in the pipe, from nread up to nwrite.
Used  == (nwrite + UINT - nread) % UINT
Bytes == [k \in 1..Used |-> data[((nread + k - 1) % UINT) % PIPESIZE]]

\* pi->lock is held from the loop on, and an end is open as long as somebody has it open.
Ends ==
    /\ \A p \in Proc : pc[p] \in {"loop", "copy", "sleep"} <=> lock = p
    /\ \A p \in Proc : pc[p] # "idle" => open[p]
    /\ readopen <=> \E r \in Reader : open[r]
    /\ writeopen <=> \E w \in Writer : open[w]

\* What a process sleeps for is not there, or whoever made it so still holds pi->lock
\* and will call wakeup().
Sleepers ==
    /\ \A w \in Writer : pc[w] # "sleep" /\ (pc[w] = "copy" => readopen /\ left[w] > 0)
    /\ \A r \in Reader : pc[r] = "sleep" => Empty /\ writeopen
    /\ \A w \in Writer : pc[w] = "asleep"
          => readopen /\ (Full \/ \E r \in Reader : pc[r] = "copy")
    /\ (\A w \in Writer : ~killed[w]) => \A r \in Reader : pc[r] = "asleep"
          => writeopen /\ (Empty \/ \E w \in Writer : pc[w] \in {"loop", "copy"})

\* The invariant behind both properties; the ring is never overrun.
IInv == TypeOK /\ Ends /\ Sleepers /\ Len(Bytes) <= PIPESIZE

Stream == INSTANCE PipeStream WITH q <- Bytes

\* pipewrite() and piperead(): whatever the interleaving, and across the wrap of
\* the two counters, the pipe is a bounded stream of bytes.
PipeFifo == Stream!Spec

\* pipe.c:88-90, 99, 113-118, 127, 64-67: no process sleeps for what is already
\* there: data or the end of the stream, room or the end of the readers.  (A
\* writer killed between two bytes leaves without a wakeup of the readers.)  The
\* ring and its two ends are consistent all the while.
NoLostWakeup ==
    /\ IInv
    /\ lock = None =>
        /\ \A w \in Writer : pc[w] = "asleep" => Full /\ readopen
        /\ (\A w \in Writer : ~killed[w]) =>
              \A r \in Reader : pc[r] = "asleep" => Empty /\ writeopen
=============================================================================
