----------------------------- MODULE PipeStream -----------------------------
(***************************************************************************)
(* What a pipe promises: a bounded stream of bytes.  Bytes come out in the *)
(* order they went in, none is lost, repeated or overwritten, and nothing  *)
(* goes in once the read end is closed.                                    *)
(***************************************************************************)
EXTENDS Naturals, Sequences

CONSTANTS Byte,     \* the bytes
          PIPESIZE  \* the capacity

VARIABLES q,          \* the bytes in the pipe
          readopen,   \* the read end is open
          writeopen   \* the write end is open

vars == <<q, readopen, writeopen>>

Init == q = <<>> /\ readopen = TRUE /\ writeopen = TRUE

Put(b) ==
    /\ readopen /\ writeopen
    /\ Len(q) < PIPESIZE
    /\ q' = Append(q, b)
    /\ UNCHANGED <<readopen, writeopen>>

Get ==
    /\ readopen
    /\ q # <<>>
    /\ q' = Tail(q)
    /\ UNCHANGED <<readopen, writeopen>>

CloseWrite == writeopen /\ writeopen' = FALSE /\ UNCHANGED <<q, readopen>>

CloseRead == readopen /\ readopen' = FALSE /\ UNCHANGED <<q, writeopen>>

Next == (\E b \in Byte : Put(b)) \/ Get \/ CloseWrite \/ CloseRead

Spec == Init /\ [][Next]_vars
=============================================================================
