------------------------------- MODULE Parse -------------------------------
(***************************************************************************)
(* The parser of user/sh.c.  A line is a sequence of tokens, as gettoken() *)
(* finds them: the symbols, with "+" for >>, and "a" for a word.  The      *)
(* pointer *ps is a place in the line; a word is named by its place.       *)
(***************************************************************************)
EXTENDS Naturals, Sequences, FiniteSets, FiniteSetsExt

CONSTANTS
    Token,       \* the tokens that are typed
    MAXARGS,
    MaxLine      \* bound: the length of buf, in tokens

VARIABLE line

Words   == {i \in 1..Len(line) : line[i] = "a"}
Redirs  == {"<", ">", "+"}

\* What a parsing function returns: a command and the place it got to.
Panic     == [type |-> "PANIC"]
At(c, i)  == [cmd |-> c, i |-> i]
Failed    == At(Panic, 0)

execcmd(argv)      == [type |-> "EXEC", argv |-> argv]
redircmd(c, t, q)  == [type |-> "REDIR", cmd |-> c, file |-> q, mode |-> t]
pipecmd(l, r)      == IF Panic \in {l, r} THEN Panic ELSE [type |-> "PIPE", left |-> l, right |-> r]
listcmd(l, r)      == IF Panic \in {l, r} THEN Panic ELSE [type |-> "LIST", left |-> l, right |-> r]
backcmd(c)         == IF c = Panic THEN Panic ELSE [type |-> "BACK", cmd |-> c]

\* gettoken() at i, 0 at the end of the line; peek() for one of the tokens.
gettoken(i)   == IF i <= Len(line) THEN line[i] ELSE "0"
peek(i, toks) == gettoken(i) \in toks

\* The redirections at i, as pairs of a symbol and a word around what is there already.
RECURSIVE parseredirs(_, _)
parseredirs(around, i) ==
    IF ~peek(i, Redirs) THEN [around |-> around, i |-> i]
    ELSE IF gettoken(i + 1) # "a" THEN [around |-> around, i |-> 0]
    ELSE parseredirs(Append(around, <<gettoken(i), i + 1>>), i + 2)

RECURSIVE Wrap(_, _)
Wrap(c, around) ==
    IF c = Panic \/ around = <<>> THEN c
    ELSE Wrap(redircmd(c, Head(around)[1], Head(around)[2]), Tail(around))

\* The loop of parseexec(): words and redirections in any order.
TooMany_late(argc) == argc > MAXARGS
TooMany(argc) == argc >= MAXARGS

RECURSIVE Args(_, _)
Args(argv, r) ==
    IF r.i = 0 THEN Failed
    ELSE IF peek(r.i, {"|", ")", "&", ";"}) \/ gettoken(r.i) = "0"
         THEN At(Wrap(execcmd(argv), r.around), r.i)
    ELSE IF gettoken(r.i) # "a" \/ TooMany(Len(argv) + 1) THEN Failed
    ELSE Args(Append(argv, r.i), parseredirs(r.around, r.i + 1))

RECURSIVE parseline(_)
RECURSIVE parsepipe(_)

parseblock(i) ==
    LET p == parseline(i + 1)
        r == parseredirs(<<>>, p.i + 1) IN
    IF p.cmd = Panic \/ ~peek(p.i, {")"}) \/ r.i = 0 THEN Failed
    ELSE At(Wrap(p.cmd, r.around), r.i)

parseexec(i) == IF peek(i, {"("}) THEN parseblock(i) ELSE Args(<<>>, parseredirs(<<>>, i))

parsepipe(i) ==
    LET p == parseexec(i)
        q == parsepipe(p.i + 1) IN
    IF p.cmd # Panic /\ peek(p.i, {"|"}) THEN At(pipecmd(p.cmd, q.cmd), q.i) ELSE p

RECURSIVE Backs(_)
Backs(p) == IF p.cmd # Panic /\ peek(p.i, {"&"}) THEN Backs(At(backcmd(p.cmd), p.i + 1)) ELSE p

parseline(i) ==
    LET p == Backs(parsepipe(i))
        q == parseline(p.i + 1) IN
    IF p.cmd # Panic /\ peek(p.i, {";"}) THEN At(listcmd(p.cmd, q.cmd), q.i) ELSE p

\* The words that nulterminate() ends.
RECURSIVE nulterminate(_)
nulterminate(c) ==
    CASE c.type = "EXEC"  -> {c.argv[k] : k \in DOMAIN c.argv}
      [] c.type = "REDIR" -> {c.file} \cup nulterminate(c.cmd)
      [] c.type = "BACK"  -> nulterminate(c.cmd)
      [] c.type \in {"PIPE", "LIST"} -> nulterminate(c.left) \cup nulterminate(c.right)

parsecmd == LET p == parseline(1) IN IF p.cmd # Panic /\ p.i <= Len(line) THEN Panic ELSE p.cmd

----------------------------------------------------------------------------
\* A line is typed token by token, and begun anew after it has been run.
gets(t) == Len(line) < MaxLine /\ line' = Append(line, t)
getcmd  == line # <<>> /\ line' = <<>>

Init == line = <<>>

Next == getcmd \/ \E t \in Token : gets(t)

Spec == Init /\ [][Next]_line

----------------------------------------------------------------------------
(* What a line means, by where its operators are *)

Depth(lo, i) == Cardinality({k \in lo..(i - 1) : line[k] = "("})
                - Cardinality({k \in lo..(i - 1) : line[k] = ")"})
Outermost(t, lo, hi) == {i \in lo..hi : line[i] = t /\ Depth(lo, i) = 0}

Redirections(lo, hi) == {i \in lo..hi : line[i] \in Redirs}
RECURSIVE InOrder(_)
InOrder(S) == IF S = {} THEN <<>> ELSE <<Min(S)>> \o InOrder(S \ {Min(S)})
Around(S) == [k \in 1..Cardinality(S) |-> <<line[InOrder(S)[k]], InOrder(S)[k] + 1>>]
Complete(lo, hi) == \A i \in Redirections(lo, hi) : i < hi /\ line[i + 1] = "a"

RECURSIVE Meaning(_, _)
Simple(lo, hi) ==
    LET reds == Redirections(lo, hi)
        args == {i \in lo..hi : line[i] = "a" /\ i - 1 \notin reds} IN
    IF /\ \A i \in lo..hi : line[i] = "a" \/ i \in reds
       /\ Complete(lo, hi)
       /\ Cardinality(args) < MAXARGS
    THEN Wrap(execcmd(InOrder(args)), Around(reds))
    ELSE Panic

Block(lo, hi) ==
    LET ends == {k \in lo..hi : Depth(lo, k + 1) = 0}
        k == Min(ends)
        reds == Redirections(k + 1, hi) IN
    IF /\ ends # {}
       /\ \A i \in (k + 1)..hi : i \in reds \/ (line[i] = "a" /\ i - 1 \in reds)
       /\ Complete(k + 1, hi)
    THEN Wrap(Meaning(lo + 1, k - 1), Around(reds))
    ELSE Panic

Meaning(lo, hi) ==
    LET lists == Outermost(";", lo, hi)
        backs == Outermost("&", lo, hi)
        pipes == Outermost("|", lo, hi) IN
    IF lists # {} THEN listcmd(Meaning(lo, Min(lists) - 1), Meaning(Min(lists) + 1, hi))
    ELSE IF hi \in backs THEN backcmd(Meaning(lo, hi - 1))
    ELSE IF backs # {} THEN Panic
    ELSE IF pipes # {} THEN pipecmd(Meaning(lo, Min(pipes) - 1), Meaning(Min(pipes) + 1, hi))
    ELSE IF lo <= hi /\ line[lo] = "(" THEN Block(lo, hi)
    ELSE Simple(lo, hi)

(* Properties *)

\* sh.c:333-452: the functions that read a line from left to right, with one token of
\* foresight, build the tree that its operators say: ; binds least, then &, then |, and
\* parentheses most; every other line ends in panic().
ParsedRight == parsecmd = Meaning(1, Len(line))

\* sh.c:454-499: each word of a line that is run is ended, wherever it is in the tree:
\* an argument or a file name that is not would go on into the next token.
WordsEnded == parsecmd # Panic => nulterminate(parsecmd) = Words

\* sh.c:333-499: parsecmd() reads every line as its operators say, and ends its words.
LineParsed == ParsedRight /\ WordsEnded
=============================================================================
