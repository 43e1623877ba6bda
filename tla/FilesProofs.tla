---------------------------- MODULE FilesProofs ----------------------------
(***************************************************************************)
(* The open files with any number of processes, files, descriptors and     *)
(* pipes: one lemma for each step of file.c, sysfile.c and of the parts of *)
(* fork(), exit() and wait() that are about files, the inductive invariant *)
(* of Files, and the theorems that follow.                                 *)
(***************************************************************************)
EXTENDS Files, TLAPS

\* What the proofs use of finite sets and of Min(); the library's theorems, from which it
\* follows, come at the end.
CardFacts ==
    /\ \A n \in Nat : IsFiniteSet(1..n)
    /\ \A S, T : IsFiniteSet(S) /\ IsFiniteSet(T) => IsFiniteSet(S \X T)
    /\ \A S, T : IsFiniteSet(S) /\ T \subseteq S => IsFiniteSet(T)
    /\ \A S : IsFiniteSet(S) => Cardinality(S) \in Nat /\ (Cardinality(S) = 0 <=> S = {})
    /\ \A S, x : IsFiniteSet(S) /\ x \notin S => Cardinality(S \cup {x}) = Cardinality(S) + 1
    /\ \A S, x : IsFiniteSet(S) /\ x \in S => Cardinality(S \ {x}) = Cardinality(S) - 1
    /\ \A n \in Nat : \A S : S \subseteq 1..n /\ S # {} => Min(S) \in S

Setting == Sizes /\ CardFacts

\* A finite set with one or two members.
LEMMA Members ==
    ASSUME CardFacts, NEW C, IsFiniteSet(C), NEW x \in C
    PROVE  /\ Cardinality(C) \in Nat \ {0}
           /\ \A y \in C : x # y => Cardinality(C) >= 2
<1>1. Cardinality(C) \in Nat /\ Cardinality(C) # 0
  BY Zenon DEF CardFacts
<1>2. IsFiniteSet(C \ {x}) /\ Cardinality(C \ {x}) = Cardinality(C) - 1
  <2>1. C \ {x} \subseteq C
    BY Zenon
  <2> QED BY Zenon, <2>1 DEF CardFacts
<1>3. ASSUME NEW y \in C, x # y
      PROVE  Cardinality(C) >= 2
  <2>1. C \ {x} # {}
    BY Zenon, <1>3
  <2>2. Cardinality(C \ {x}) # 0
    BY Zenon, <1>2, <2>1 DEF CardFacts
  <2> QED BY ONLY <1>1, <1>2, <2>2
<1> QED BY ONLY Zenon, <1>1, <1>3

\* Two finite sets that differ in x at most.
LEMMA Differ ==
    ASSUME CardFacts, NEW C, NEW D, IsFiniteSet(C), IsFiniteSet(D), NEW x, C \ {x} = D \ {x}
    PROVE  /\ Cardinality(C) \in Nat /\ Cardinality(D) \in Nat
           /\ Cardinality(D) = Cardinality(C) + (IF x \in D THEN 1 ELSE 0)
                                              - (IF x \in C THEN 1 ELSE 0)
<1>1. Cardinality(C) \in Nat /\ Cardinality(D) \in Nat
  BY Zenon DEF CardFacts
<1>2. x \in C => Cardinality(C \ {x}) = Cardinality(C) - 1
  BY Zenon DEF CardFacts
<1>3. x \in D => Cardinality(D \ {x}) = Cardinality(D) - 1
  BY Zenon DEF CardFacts
<1>4. /\ x \notin C => C \ {x} = C
      /\ x \notin D => D \ {x} = D
  BY Zenon
<1> DEFINE c == Cardinality(C)
           d == Cardinality(D)
           r == Cardinality(C \ {x})
<1>5. /\ r = IF x \in C THEN c - 1 ELSE c
      /\ r = IF x \in D THEN d - 1 ELSE d
  BY Zenon, <1>2, <1>3, <1>4
<1>6. c \in Nat /\ d \in Nat
  BY Zenon, <1>1
<1> HIDE DEF c, d, r
<1>7. d = c + (IF x \in D THEN 1 ELSE 0) - (IF x \in C THEN 1 ELSE 0)
  BY ONLY <1>5, <1>6
<1> QED BY Zenon, <1>1, <1>7 DEF c, d

\* Finitely many places name a file.
LEMMA CellsFinite ==
    ASSUME CardFacts, IsFiniteSet(Proc), NEW J, IsFiniteSet(J), NEW g, NEW f
    PROVE  IsFiniteSet(Cells(g, J, f)) /\ Cardinality(Cells(g, J, f)) \in Nat
<1>1. IsFiniteSet(Proc \X J)
  BY Zenon DEF CardFacts
<1>2. Cells(g, J, f) \subseteq Proc \X J
  BY Zenon DEF Cells
<1> QED BY Zenon, <1>1, <1>2 DEF CardFacts

\* Two tables that differ in one cell, which gets the value v.
Off(g, h, J, p, j, v) ==
    \A q \in Proc, i \in J : h[q][i] = IF q = p /\ i = j THEN v ELSE g[q][i]

\* When one place changes, so does the number of places that name f, by one at most.
LEMMA OneCell ==
    ASSUME CardFacts, IsFiniteSet(Proc), NEW J, IsFiniteSet(J), NEW g, NEW h,
           NEW p \in Proc, NEW j \in J, NEW v, NEW f, Off(g, h, J, p, j, v)
    PROVE  Cardinality(Cells(h, J, f)) = Cardinality(Cells(g, J, f))
                + (IF v = f THEN 1 ELSE 0) - (IF g[p][j] = f THEN 1 ELSE 0)
<1> DEFINE C == Cells(g, J, f)
           D == Cells(h, J, f)
           x == <<p, j>>
<1>1. IsFiniteSet(C) /\ IsFiniteSet(D)
  BY Zenon, CellsFinite
<1>2. x \in C <=> g[p][j] = f
  BY Zenon DEF Cells
<1>3. x \in D <=> v = f
  BY Zenon DEF Cells, Off
<1>4. C \ {x} = D \ {x}
  <2> SUFFICES ASSUME NEW y \in Proc \X J, y # x
               PROVE  y \in C <=> y \in D
    BY Zenon DEF Cells
  <2>1. y = <<y[1], y[2]>> /\ y[1] \in Proc /\ y[2] \in J
    OBVIOUS
  <2>2. h[y[1]][y[2]] = g[y[1]][y[2]]
    BY Zenon, <2>1 DEF Off
  <2> QED BY Zenon, <2>2 DEF Cells
<1> HIDE DEF C, D, x
<1>5. Cardinality(D) = Cardinality(C) + (IF x \in D THEN 1 ELSE 0) - (IF x \in C THEN 1 ELSE 0)
  BY Zenon, <1>1, <1>4, Differ
<1> QED BY ONLY Zenon, <1>2, <1>3, <1>5 DEF C, D

\* What the sizes of the tables give.
LEMMA Finites ==
    ASSUME Setting
    PROVE  /\ IsFiniteSet(Proc) /\ IsFiniteSet(Fd) /\ IsFiniteSet(Pair) /\ IsFiniteSet(File)
           /\ 0 \notin File /\ CardFacts
<1>1. 2 \in Nat /\ 0 \notin File
  BY DEF Setting, Sizes, File
<1>2. IsFiniteSet(1..2) /\ IsFiniteSet(1..NOFILE) /\ IsFiniteSet(1..NFILE)
  BY Zenon, <1>1 DEF Setting, Sizes, CardFacts
<1> QED BY Zenon, <1>1, <1>2 DEF Setting, Sizes, Fd, Pair, File

\* What the counts say of a file that someone has.
LEMMA Uses ==
    ASSUME Setting, IInv
    PROVE  /\ \A p \in Proc, fd \in Fd : ofile[p][fd] # 0 =>
                 ofile[p][fd] \in File /\ file[ofile[p][fd]].ref >= 1
           /\ \A p \in Proc, s \in Pair : hold[p][s] # 0 =>
                 hold[p][s] \in File /\ file[hold[p][s]].ref >= 1
           /\ \A f \in File, p, q \in Proc, s, t \in Pair :
                 hold[p][s] = f /\ hold[q][t] = f /\ file[f].ref <= 1 => p = q /\ s = t
           /\ \A f \in File, p, q \in Proc, s \in Pair, fd \in Fd :
                 hold[p][s] = f /\ ofile[q][fd] = f => file[f].ref >= 2
<1>1. \A f \in File : file[f].ref \in Nat
  BY Zenon DEF IInv, TypeOK, FileRec
<1>2. \A f \in File : file[f].ref = Cardinality(Named(f)) + Cardinality(Held(f))
  BY Zenon DEF IInv, RefsMatch
<1>3. \A f : /\ IsFiniteSet(Named(f)) /\ IsFiniteSet(Held(f))
             /\ Cardinality(Named(f)) \in Nat /\ Cardinality(Held(f)) \in Nat
  BY Zenon, Finites, CellsFinite DEF Named, Held
<1>4. ASSUME NEW p \in Proc, NEW fd \in Fd, ofile[p][fd] # 0
      PROVE  ofile[p][fd] \in File /\ Cardinality(Named(ofile[p][fd])) \in Nat \ {0}
  <2>1. ofile[p][fd] \in File
    BY <1>4 DEF IInv, TypeOK
  <2>2. <<p, fd>> \in Named(ofile[p][fd])
    BY Zenon DEF Named, Cells
  <2> QED BY Zenon, <1>3, <2>1, <2>2, Finites, Members
<1>5. ASSUME NEW p \in Proc, NEW s \in Pair, hold[p][s] # 0
      PROVE  hold[p][s] \in File /\ Cardinality(Held(hold[p][s])) \in Nat \ {0}
  <2>1. hold[p][s] \in File
    BY <1>5 DEF IInv, TypeOK
  <2>2. <<p, s>> \in Held(hold[p][s])
    BY Zenon DEF Held, Cells
  <2> QED BY Zenon, <1>3, <2>1, <2>2, Finites, Members
<1>6. ASSUME NEW p \in Proc, NEW fd \in Fd, ofile[p][fd] # 0
      PROVE  ofile[p][fd] \in File /\ file[ofile[p][fd]].ref >= 1
  BY ONLY <1>2, <1>3, <1>4, <1>6
<1>7. ASSUME NEW p \in Proc, NEW s \in Pair, hold[p][s] # 0
      PROVE  hold[p][s] \in File /\ file[hold[p][s]].ref >= 1
  BY ONLY <1>2, <1>3, <1>5, <1>7
<1>8. ASSUME NEW f \in File, NEW p \in Proc, NEW q \in Proc, NEW s \in Pair, NEW t \in Pair,
             hold[p][s] = f, hold[q][t] = f, file[f].ref <= 1
      PROVE  p = q /\ s = t
  <2>1. <<p, s>> \in Held(f) /\ <<q, t>> \in Held(f)
    BY Zenon, <1>8 DEF Held, Cells
  <2>2. <<p, s>> # <<q, t>> => Cardinality(Held(f)) >= 2
    <3> DEFINE C == Held(f)
    <3>1. IsFiniteSet(C) /\ <<p, s>> \in C /\ <<q, t>> \in C
      BY ONLY Zenon, <1>3, <2>1
    <3> HIDE DEF C
    <3> QED BY Zenon, <3>1, Finites, Members DEF C
  <2>3. ~(Cardinality(Held(f)) >= 2)
    BY ONLY <1>1, <1>2, <1>3, <1>8
  <2> QED BY Zenon, <2>2, <2>3
<1>9. ASSUME NEW f \in File, NEW p \in Proc, NEW q \in Proc, NEW s \in Pair, NEW fd \in Fd,
             hold[p][s] = f, ofile[q][fd] = f
      PROVE  file[f].ref >= 2
  <2>1. <<p, s>> \in Held(f) /\ <<q, fd>> \in Named(f)
    BY Zenon, <1>9 DEF Held, Named, Cells
  <2>2. Cardinality(Held(f)) \in Nat \ {0} /\ Cardinality(Named(f)) \in Nat \ {0}
    BY Zenon, <1>3, <2>1, Finites, Members
  <2> QED BY ONLY <1>2, <2>2, f \in File
<1> QED BY ONLY <1>6, <1>7, <1>8, <1>9

\* The values that stand for nothing.
LEMMA Defaults ==
    /\ NoHold[1] = 0 /\ NoHold[2] = 0 /\ 1 \in Pair /\ 2 \in Pair
    /\ NoFile.type = "FD_NONE" /\ NoFile.ref = 0
    /\ NoPolicy \in [mask : Mask \cup {{}}, path : Path \cup {NoPath}]
BY DEF NoHold, Pair, NoFile, NoPolicy

----------------------------------------------------------------------------
(* The first state, and the steps that leave every file as it is *)

LEMMA InitInv == ASSUME Setting, Init PROVE IInv
<1>0. 0 \notin File /\ initproc \in Proc /\ NoFile \in FileRec
  <2>1. 0 \notin File
    BY DEF File, Setting, Sizes
  <2>2. NoFile \in FileRec
    <3>1. /\ 0 \in Nat /\ "FD_NONE" \in Types /\ 0 \in PipeId \cup Path \cup {0}
          /\ "none" \in {"none", "read", "write"}
      BY Zenon DEF Types
    <3> QED BY ONLY Zenon, <3>1 DEF NoFile, FileRec
  <2> QED BY Zenon, <2>1, <2>2 DEF Setting, Sizes
<1>1. TypeOK
  BY Zenon, <1>0 DEF Init, TypeOK, NoHold, NoFds
<1>2. LocalsOK
  <2>1. NoPolicy \in [mask : Mask \cup {{}}, path : Path \cup {NoPath}]
    BY Zenon DEF NoPolicy
  <2>2. pc \in [Proc -> Labels]
    BY Zenon, <1>0 DEF Init, Labels
  <2> QED BY Zenon, <1>0, <2>1, <2>2 DEF Init, LocalsOK
<1>3. RefsMatch
  <2> SUFFICES ASSUME NEW f \in File
               PROVE  file[f].ref = Cardinality(Named(f)) + Cardinality(Held(f))
    BY Zenon DEF RefsMatch
  <2>1. Named(f) = {} /\ Held(f) = {}
    BY Zenon, <1>0 DEF Init, Named, Held, Cells, NoHold, NoFds
  <2>2. file[f].ref = 0
    BY Zenon DEF Init, NoFile
  <2>3. Cardinality({}) = 0
    BY Zenon, Finites DEF CardFacts
  <2> QED BY <2>1, <2>2, <2>3
<1>4. Complete /\ FdsReady /\ HeldReady
  BY <1>0 DEF Init, Complete, FdsReady, HeldReady, Making, NoFile, NoHold, NoFds
<1>5. \A p \in Proc : Holds(p)
  BY Zenon DEF Init, Holds, Making, Closing, NoFile, NoHold
<1>6. OneEnd
  BY ZenonT(60) DEF Init, OneEnd, Whole, PipeEnd, NoFile
<1>7. ObjectsMatch
  <2>1. \A path \in Path : Opened(path) = {} /\ Users(path) = {}
    BY Zenon DEF Init, Opened, Users, NoFile
  <2>2. \A path \in Path : iref[path] = 0
    BY Zenon DEF Init
  <2>3. \A path \in Path : iref[path] = Cardinality(Opened(path)) + Cardinality(Users(path))
    <3>1. Cardinality({}) = 0
      BY Zenon, Finites DEF CardFacts
    <3> QED BY ONLY <2>1, <2>2, <3>1
  <2>4. \A k \in PipeId, e \in {"read", "write"} :
          /\ e \notin pipe[k]
          /\ \A f \in File : ~PipeEnd(file[f], k, e)
          /\ \A p \in Proc : ~PipeEnd(ff[p], k, e)
    BY Zenon DEF Init, PipeEnd, NoFile
  <2> QED BY ONLY Zenon, <2>3, <2>4 DEF ObjectsMatch, EndsMatch, InodesMatch
<1>8. Forking /\ Ruled /\ Confined /\ NoPanic
  BY Zenon DEF Init, Forking, Ruled, Confined, NoPolicy, NoPanic
<1> QED BY Zenon, <1>1, <1>2, <1>3, <1>4, <1>5, <1>6, <1>7, <1>8 DEF IInv

\* A step that changes no file, no descriptor and no call that opens.
LEMMA SameFiles ==
    ASSUME IInv, UNCHANGED <<table, ofile, hold, ff>>,
           \A path \in Path, q \in Proc :
              pc'[q] \in {"open", "open_bad"} /\ using'[q] = path
                <=> pc[q] \in {"open", "open_bad"} /\ using[q] = path
    PROVE  (RefsMatch /\ OneEnd /\ ObjectsMatch)'
<1>1. file' = file /\ pipe' = pipe /\ iref' = iref /\ ofile' = ofile /\ hold' = hold /\ ff' = ff
  BY Zenon DEF table
<1>2. RefsMatch'
  BY Zenon, <1>1 DEF IInv, RefsMatch, Named, Held
<1>3. OneEnd'
  BY Zenon, <1>1 DEF IInv, OneEnd
<1>4. \A path \in Path : Opened(path)' = Opened(path) /\ Users(path)' = Users(path)
  BY Zenon, <1>1 DEF Opened, Users
<1>5. ObjectsMatch'
  BY Zenon, <1>1, <1>4 DEF IInv, ObjectsMatch, EndsMatch, InodesMatch
<1> QED BY Zenon, <1>2, <1>3, <1>5

\* A step of p that leaves the other processes and what they hold.
LEMMA Others ==
    ASSUME IInv, NEW p \in Proc,
           \A q \in Proc \ {p} : /\ pc'[q] = pc[q] /\ hold'[q] = hold[q] /\ ff'[q] = ff[q]
                                 /\ ofile'[q] = ofile[q] /\ using'[q] = using[q]
    PROVE  /\ Holds(p)' => (\A q \in Proc : Holds(q))'
           /\ (/\ \A q \in Proc \ {p}, s \in Pair :
                     hold[q][s] # 0 /\ pc[q] \in Making \cup {"pipe_fds"}
                       => file'[hold[q][s]].type = file[hold[q][s]].type
               /\ \A s \in Pair : hold'[p][s] # 0 =>
                     /\ pc'[p] \in Making => file'[hold'[p][s]].type = "FD_NONE"
                     /\ pc'[p] = "pipe_fds" => file'[hold'[p][s]].type # "FD_NONE") => HeldReady'
<1>1. ASSUME Holds(p)'
      PROVE  (\A q \in Proc : Holds(q))'
  <2> SUFFICES ASSUME NEW q \in Proc, q # p PROVE Holds(q)'
    BY Zenon, <1>1
  <2>1. Holds(q)
    BY Zenon DEF IInv
  <2>2. /\ pc'[q] = pc[q] /\ hold'[q] = hold[q] /\ ff'[q] = ff[q]
        /\ ofile'[q] = ofile[q] /\ using'[q] = using[q]
    BY Zenon
  <2> QED BY ONLY Zenon, <2>1, <2>2 DEF Holds, Closing
<1>2. ASSUME \A q \in Proc \ {p}, s \in Pair :
                 hold[q][s] # 0 /\ pc[q] \in Making \cup {"pipe_fds"}
                   => file'[hold[q][s]].type = file[hold[q][s]].type,
             \A s \in Pair : hold'[p][s] # 0 =>
                 /\ pc'[p] \in Making => file'[hold'[p][s]].type = "FD_NONE"
                 /\ pc'[p] = "pipe_fds" => file'[hold'[p][s]].type # "FD_NONE"
      PROVE  HeldReady'
  <2> SUFFICES ASSUME NEW q \in Proc, NEW s \in Pair, q # p, hold'[q][s] # 0
               PROVE  /\ pc'[q] \in Making => file'[hold'[q][s]].type = "FD_NONE"
                      /\ pc'[q] = "pipe_fds" => file'[hold'[q][s]].type # "FD_NONE"
    BY Zenon, <1>2 DEF HeldReady
  <2>1. pc'[q] = pc[q] /\ hold'[q] = hold[q] /\ hold[q][s] # 0
    BY Zenon
  <2>2. /\ pc[q] \in Making => file[hold[q][s]].type = "FD_NONE"
        /\ pc[q] = "pipe_fds" => file[hold[q][s]].type # "FD_NONE"
    BY Zenon, <2>1 DEF IInv, HeldReady
  <2>3. pc[q] \in Making \cup {"pipe_fds"} => file'[hold[q][s]].type = file[hold[q][s]].type
    BY Zenon, <1>2, <2>1
  <2> QED BY ONLY Zenon, <2>1, <2>2, <2>3
<1> QED BY ONLY Zenon, <1>1, <1>2

\* A step that only takes the call of p to the label l.
LEMMA LabelInv ==
    ASSUME Setting, IInv, NEW p \in Proc, NEW l \in Labels \ {"unused", "embryo", "kfork", "pipe_fds"},
           pc[p] \notin {"unused", "embryo", "kfork"},
           l \in Making => pc[p] \in Making,
           l \in {"open", "open_bad"} <=> pc[p] \in {"open", "open_bad"},
           Goto(p, l), Holds(p)', UNCHANGED <<table, ofile, rules, local, strayed, panic>>
    PROVE  IInv'
<1>1. /\ file' = file /\ pipe' = pipe /\ iref' = iref /\ ofile' = ofile /\ mask' = mask
      /\ allowed' = allowed /\ policy' = policy /\ hold' = hold /\ ff' = ff /\ using' = using
      /\ child' = child /\ strayed' = strayed /\ panic' = panic
  BY Zenon DEF table, rules, local
<1>2. pc' \in [Proc -> Labels] /\ pc'[p] = l /\ \A q \in Proc \ {p} : pc'[q] = pc[q]
  BY Zenon DEF Goto, IInv, LocalsOK
<1>3. (TypeOK /\ LocalsOK)' /\ (Complete /\ FdsReady)'
  <2>1. (TypeOK /\ LocalsOK)'
    BY Zenon, <1>1, <1>2 DEF IInv, TypeOK, LocalsOK
  <2>2. (Complete /\ FdsReady)'
    BY Zenon, <1>1 DEF IInv, Complete, FdsReady
  <2> QED BY ONLY Zenon, <2>1, <2>2
<1>4. (Forking /\ Ruled /\ Confined /\ NoPanic)'
  BY <1>1, <1>2 DEF IInv, LocalsOK, Forking, Ruled, Confined, NoPanic
<1>5. (RefsMatch /\ OneEnd /\ ObjectsMatch)'
  <2>1. \A x \in Path, q \in Proc :
          pc'[q] \in {"open", "open_bad"} /\ using'[q] = x
            <=> pc[q] \in {"open", "open_bad"} /\ using[q] = x
    BY Zenon, <1>1, <1>2
  <2> QED BY Zenon, <1>1, <2>1, SameFiles DEF table
<1>6. HeldReady'
  BY Zenon, <1>1, <1>2, Others DEF IInv, HeldReady
<1>7. (\A q \in Proc : Holds(q))'
  BY Zenon, <1>1, <1>2, Others
<1> QED BY Zenon, <1>3, <1>4, <1>5, <1>6, <1>7 DEF IInv

LEMMA FilecloseEndInv ==
    ASSUME Setting, IInv, NEW p \in Proc, fileclose_end(p)
    PROVE  IInv'
<1>1. Goto(p, "user") /\ UNCHANGED <<table, ofile, rules, local, strayed, panic>>
  BY Zenon DEF fileclose_end
<1>2. pc[p] = "fileclose" /\ "user" \in Labels /\ "user" \notin Making
  BY Zenon DEF fileclose_end, Labels, Making
<1>3. Holds(p)'
  BY Zenon DEF fileclose_end, Goto, Closed, local, IInv, LocalsOK, Holds, Making
<1> QED BY ONLY Zenon, Setting, IInv, p \in Proc, <1>1, <1>2, <1>3, LabelInv

LEMMA KexitInv ==
    ASSUME Setting, IInv, NEW p \in Proc, kexit(p)
    PROVE  IInv'
<1>1. Goto(p, "kexit") /\ UNCHANGED <<table, ofile, rules, local, strayed, panic>>
  BY Zenon DEF kexit
<1>2. pc[p] = "user" /\ "kexit" \in Labels /\ "kexit" \notin Making
  BY Zenon DEF kexit, Labels, Making
<1>3. Holds(p)'
  <2>1. Holds(p) /\ pc'[p] = "kexit" /\ hold' = hold
    BY Zenon, <1>1 DEF Goto, local, IInv, LocalsOK
  <2> QED BY ONLY Zenon, <1>2, <2>1, Defaults DEF Holds, Making, Closing
<1> QED BY ONLY Zenon, Setting, IInv, p \in Proc, <1>1, <1>2, <1>3, LabelInv

LEMMA ExitEndInv ==
    ASSUME Setting, IInv, NEW p \in Proc, exit_end(p)
    PROVE  IInv'
<1>1. Goto(p, "zombie") /\ UNCHANGED <<table, ofile, rules, local, strayed, panic>>
  BY Zenon DEF exit_end
<1>2. pc[p] = "kexit" /\ "zombie" \in Labels /\ "zombie" \notin Making
  BY Zenon DEF exit_end, Labels, Making
<1>3. ofile[p] = NoFds
  BY Zenon DEF exit_end, freefds, NoFds, IInv, TypeOK
<1>4. Holds(p)'
  BY Zenon, <1>3 DEF exit_end, Goto, Closed, local, IInv, LocalsOK, Holds, Making
<1> QED BY ONLY Zenon, Setting, IInv, p \in Proc, <1>1, <1>2, <1>4, LabelInv

\* The calls that fail: what they hold is left to fileclose().
LEMMA GiveUpInv ==
    ASSUME Setting, IInv, NEW p \in Proc, pc[p] \in {"pipealloc", "pipe", "pipe_fds"},
           Goto(p, "fileclose"), UNCHANGED <<table, ofile, rules, local, strayed, panic>>
    PROVE  IInv'
<1>1. "fileclose" \in Labels /\ "fileclose" \notin Making
  BY Zenon DEF Labels, Making
<1>2. Holds(p)'
  BY Zenon DEF Goto, IInv, LocalsOK, Holds, Making, Closing
<1> QED BY ONLY Zenon, Setting, IInv, p \in Proc, <1>1, <1>2, LabelInv, Goto(p, "fileclose"),
           pc[p] \in {"pipealloc", "pipe", "pipe_fds"},
           UNCHANGED <<table, ofile, rules, local, strayed, panic>>

\* open() that finds no descriptor.
LEMMA OpenFailsInv ==
    ASSUME Setting, IInv, NEW p \in Proc, pc[p] = "open", Goto(p, "open_bad"),
           UNCHANGED <<table, ofile, rules, local, strayed, panic>>
    PROVE  IInv'
<1>1. "open_bad" \in Labels /\ "open" \in Making
  BY Zenon DEF Labels, Making
<1>2. Holds(p)'
  BY Zenon, Defaults DEF Goto, IInv, LocalsOK, Holds, Making, Closing, local
<1> QED BY ONLY Zenon, Setting, IInv, p \in Proc, <1>1, <1>2, LabelInv, Goto(p, "open_bad"),
           pc[p] = "open", UNCHANGED <<table, ofile, rules, local, strayed, panic>>

LEMMA ReadEndInv ==
    ASSUME Setting, IInv, NEW p \in Proc, read_end(p)
    PROVE  IInv'
<1> USE DEF read_end, Goto, table, rules
<1>1. TypeOK'
  BY Zenon DEF IInv, TypeOK
<1>2. LocalsOK'
  BY Zenon DEF IInv, TypeOK, LocalsOK, Labels
<1>3. (RefsMatch /\ OneEnd /\ ObjectsMatch)'
  <2>1. UNCHANGED <<table, ofile, hold, ff>>
    BY Zenon
  <2>2. \A path1 \in Path, q \in Proc :
          pc'[q] \in {"open", "open_bad"} /\ using'[q] = path1
            <=> pc[q] \in {"open", "open_bad"} /\ using[q] = path1
    BY Zenon DEF IInv, LocalsOK
  <2> QED BY ONLY Zenon, IInv, <2>1, <2>2, SameFiles
<1>4. Complete' /\ FdsReady'
  BY Zenon DEF IInv, Complete, FdsReady
<1>9. HeldReady'
  BY ZenonT(60) DEF IInv, TypeOK, LocalsOK, HeldReady, Holds, NoHold, Making
<1>5. (\A q \in Proc : Holds(q))'
  BY Zenon DEF IInv, TypeOK, LocalsOK, Holds, Making, Closing
<1>6. Forking'
  BY Zenon DEF IInv, LocalsOK, Forking
<1>7. Ruled'
  BY Zenon DEF IInv, TypeOK, LocalsOK, Ruled, Forking
<1>8. (Confined /\ NoPanic)'
  BY Zenon DEF IInv, Confined, NoPanic
<1> QED BY Zenon, <1>1, <1>2, <1>3, <1>4, <1>5, <1>6, <1>7, <1>8, <1>9 DEF IInv

LEMMA InterposeInv ==
    ASSUME Setting, IInv, NEW p \in Proc, NEW m \in Mask, NEW path \in Path \cup {NoPath}, interpose(p, m, path)
    PROVE  IInv'
<1> USE DEF interpose, table, local
<1>1. TypeOK'
  BY Zenon DEF IInv, TypeOK
<1>2. LocalsOK'
  BY Zenon DEF IInv, TypeOK, LocalsOK, Labels
<1>3. (RefsMatch /\ OneEnd /\ ObjectsMatch)'
  <2>1. UNCHANGED <<table, ofile, hold, ff>>
    BY Zenon
  <2>2. \A path1 \in Path, q \in Proc :
          pc'[q] \in {"open", "open_bad"} /\ using'[q] = path1
            <=> pc[q] \in {"open", "open_bad"} /\ using[q] = path1
    BY Zenon DEF IInv, LocalsOK
  <2> QED BY ONLY Zenon, IInv, <2>1, <2>2, SameFiles
<1>4. Complete' /\ FdsReady'
  BY Zenon DEF IInv, Complete, FdsReady
<1>9. HeldReady'
  BY ZenonT(60) DEF IInv, TypeOK, LocalsOK, HeldReady, Holds, NoHold, Making
<1>5. (\A q \in Proc : Holds(q))'
  BY Zenon DEF IInv, TypeOK, LocalsOK, Holds, Making, Closing
<1>6. Forking'
  BY Zenon DEF IInv, LocalsOK, Forking
<1>7. Ruled'
  BY Zenon DEF IInv, TypeOK, LocalsOK, Ruled, Forking
<1>8. (Confined /\ NoPanic)'
  BY Zenon DEF IInv, Confined, NoPanic
<1> QED BY Zenon, <1>1, <1>2, <1>3, <1>4, <1>5, <1>6, <1>7, <1>8, <1>9 DEF IInv

LEMMA SysReadInv ==
    ASSUME Setting, IInv, NEW p \in Proc, NEW fd \in Fd, sys_read(p, fd)
    PROVE  IInv'
<1> USE DEF sys_read, Goto, table, rules, Call
<1>1. TypeOK'
  BY Zenon DEF IInv, TypeOK
<1>2. LocalsOK'
  BY DEF IInv, TypeOK, LocalsOK, Labels
<1>3. (RefsMatch /\ OneEnd /\ ObjectsMatch)'
  <2>1. UNCHANGED <<table, ofile, hold, ff>>
    BY Zenon
  <2>2. \A path1 \in Path, q \in Proc :
          pc'[q] \in {"open", "open_bad"} /\ using'[q] = path1
            <=> pc[q] \in {"open", "open_bad"} /\ using[q] = path1
    BY Zenon DEF IInv, LocalsOK
  <2> QED BY ONLY Zenon, IInv, <2>1, <2>2, SameFiles
<1>4. Complete' /\ FdsReady'
  BY Zenon DEF IInv, Complete, FdsReady
<1>9. HeldReady'
  BY ZenonT(60) DEF IInv, TypeOK, LocalsOK, HeldReady, Holds, NoHold, Making
<1>5. (\A q \in Proc : Holds(q))'
  BY ZenonT(60) DEF IInv, TypeOK, LocalsOK, Holds, Making, Closing
<1>6. Forking'
  BY Zenon DEF IInv, LocalsOK, Forking
<1>7. Ruled'
  BY Zenon DEF IInv, TypeOK, LocalsOK, Ruled, Forking
<1>8. (Confined /\ NoPanic)'
  BY Zenon DEF IInv, FdsReady, Confined, NoPanic
<1> QED BY Zenon, <1>1, <1>2, <1>3, <1>4, <1>5, <1>6, <1>7, <1>8, <1>9 DEF IInv

LEMMA KforkInv ==
    ASSUME Setting, IInv, NEW p \in Proc, NEW c \in Proc, kfork(p, c)
    PROVE  IInv'
<1> USE DEF kfork, Goto, table, rules, Call
<1>1. TypeOK'
  BY Zenon DEF IInv, TypeOK
<1>2. LocalsOK'
  BY Zenon DEF IInv, TypeOK, LocalsOK, Labels
<1>3. (RefsMatch /\ OneEnd /\ ObjectsMatch)'
  <2>1. UNCHANGED <<table, ofile, hold, ff>>
    BY Zenon
  <2>2. \A path1 \in Path, q \in Proc :
          pc'[q] \in {"open", "open_bad"} /\ using'[q] = path1
            <=> pc[q] \in {"open", "open_bad"} /\ using[q] = path1
    BY Zenon DEF IInv, LocalsOK
  <2> QED BY ONLY Zenon, IInv, <2>1, <2>2, SameFiles
<1>4. Complete' /\ FdsReady'
  BY Zenon DEF IInv, Complete, FdsReady
<1>9. HeldReady'
  BY ZenonT(60) DEF IInv, TypeOK, LocalsOK, HeldReady, Holds, NoHold, Making
<1>5. (\A q \in Proc : Holds(q))'
  BY ZenonT(60) DEF IInv, TypeOK, LocalsOK, Holds, Making, Closing
<1>6. Forking'
  BY Zenon DEF IInv, LocalsOK, Forking
<1>7. Ruled'
  BY Zenon DEF IInv, TypeOK, LocalsOK, Ruled, Forking
<1>8. (Confined /\ NoPanic)'
  BY Zenon DEF IInv, Confined, NoPanic
<1> QED BY Zenon, <1>1, <1>2, <1>3, <1>4, <1>5, <1>6, <1>7, <1>8, <1>9 DEF IInv

LEMMA ForkEndInv ==
    ASSUME Setting, IInv, NEW p \in Proc, fork_end(p)
    PROVE  IInv'
<1> USE DEF fork_end, table, Inherit
<1>1. TypeOK'
  BY Zenon DEF IInv, TypeOK
<1>2. LocalsOK'
  BY Zenon DEF IInv, TypeOK, LocalsOK, Labels
<1>3. (RefsMatch /\ OneEnd /\ ObjectsMatch)'
  <2>1. UNCHANGED <<table, ofile, hold, ff>>
    BY Zenon
  <2>2. \A path1 \in Path, q \in Proc :
          pc'[q] \in {"open", "open_bad"} /\ using'[q] = path1
            <=> pc[q] \in {"open", "open_bad"} /\ using[q] = path1
    BY Zenon DEF IInv, LocalsOK, Forking
  <2> QED BY ONLY Zenon, IInv, <2>1, <2>2, SameFiles
<1>4. Complete' /\ FdsReady'
  BY Zenon DEF IInv, Complete, FdsReady
<1>9. HeldReady'
  BY ZenonT(60) DEF IInv, TypeOK, LocalsOK, HeldReady, Holds, NoHold, Making
<1>5. (\A q \in Proc : Holds(q))'
  BY DEF IInv, TypeOK, LocalsOK, Holds, Making, Closing, Forking
<1>6. Forking'
  BY Zenon DEF IInv, LocalsOK, Forking
<1>7. Ruled'
  BY DEF IInv, TypeOK, LocalsOK, Ruled, Forking
<1>8. (Confined /\ NoPanic)'
  BY Zenon DEF IInv, Confined, NoPanic
<1> QED BY Zenon, <1>1, <1>2, <1>3, <1>4, <1>5, <1>6, <1>7, <1>8, <1>9 DEF IInv

LEMMA FreeprocInv ==
    ASSUME Setting, IInv, NEW p \in Proc, freeproc(p)
    PROVE  IInv'
<1> USE DEF freeproc, Goto, table, local
<1>1. TypeOK'
  BY Zenon DEF IInv, TypeOK
<1>2. LocalsOK'
  BY Zenon, Defaults DEF IInv, TypeOK, LocalsOK, Labels
<1>3. (RefsMatch /\ OneEnd /\ ObjectsMatch)'
  <2>1. UNCHANGED <<table, ofile, hold, ff>>
    BY Zenon
  <2>2. \A path1 \in Path, q \in Proc :
          pc'[q] \in {"open", "open_bad"} /\ using'[q] = path1
            <=> pc[q] \in {"open", "open_bad"} /\ using[q] = path1
    BY Zenon DEF IInv, LocalsOK
  <2> QED BY ONLY Zenon, IInv, <2>1, <2>2, SameFiles
<1>4. Complete' /\ FdsReady'
  BY Zenon DEF IInv, Complete, FdsReady
<1>9. HeldReady'
  BY ZenonT(60) DEF IInv, TypeOK, LocalsOK, HeldReady, Holds, NoHold, Making
<1>5. (\A q \in Proc : Holds(q))'
  BY Zenon DEF IInv, TypeOK, LocalsOK, Holds, Making, Closing
<1>6. Forking'
  BY Zenon DEF IInv, LocalsOK, Forking
<1>7. Ruled'
  BY Zenon DEF IInv, TypeOK, LocalsOK, Ruled, Forking
<1>8. (Confined /\ NoPanic)'
  BY Zenon DEF IInv, Confined, NoPanic
<1> QED BY Zenon, <1>1, <1>2, <1>3, <1>4, <1>5, <1>6, <1>7, <1>8, <1>9 DEF IInv

----------------------------------------------------------------------------
(* Counting *)

\* How the counts change with one cell.
SetFd(p, fd, v) == ofile' = [ofile EXCEPT ![p][fd] = v]

\* The number of descriptors of a file after a change of one descriptor.
LEMMA NamedStep ==
    ASSUME Setting, IInv, NEW p \in Proc, NEW fd \in Fd, NEW v, SetFd(p, fd, v)
    PROVE  \A f : Cardinality(Named(f))' = Cardinality(Named(f)) + (IF v = f THEN 1 ELSE 0)
                                              - (IF ofile[p][fd] = f THEN 1 ELSE 0)
<1> DEFINE g == ofile
           h == ofile'
<1>1. Off(g, h, Fd, p, fd, v)
  BY Zenon DEF IInv, TypeOK, Off, SetFd
<1>2. \A f : Named(f) = Cells(g, Fd, f) /\ Named(f)' = Cells(h, Fd, f)
  BY Zenon DEF Named, Cells
<1>3. CardFacts /\ IsFiniteSet(Proc) /\ IsFiniteSet(Fd)
  BY Zenon, Finites
<1> HIDE DEF g, h
<1>4. \A f : Cardinality(Cells(h, Fd, f)) = Cardinality(Cells(g, Fd, f))
                + (IF v = f THEN 1 ELSE 0) - (IF g[p][fd] = f THEN 1 ELSE 0)
  BY ONLY SMT, <1>1, <1>3, OneCell, p \in Proc, fd \in Fd
<1> QED BY ONLY Zenon, <1>2, <1>4 DEF g

SetHold(p, s, v) == hold' = [hold EXCEPT ![p][s] = v]

\* The number of calls that hold a file after a change of one local variable.
LEMMA HeldStep ==
    ASSUME Setting, IInv, NEW p \in Proc, NEW s \in Pair, NEW v, SetHold(p, s, v)
    PROVE  \A f : Cardinality(Held(f))' = Cardinality(Held(f)) + (IF v = f THEN 1 ELSE 0)
                                              - (IF hold[p][s] = f THEN 1 ELSE 0)
<1> DEFINE g == hold
           h == hold'
<1>1. Off(g, h, Pair, p, s, v)
  BY Zenon DEF IInv, TypeOK, Off, SetHold
<1>2. \A f : Held(f) = Cells(g, Pair, f) /\ Held(f)' = Cells(h, Pair, f)
  BY Zenon DEF Held, Cells
<1>3. CardFacts /\ IsFiniteSet(Proc) /\ IsFiniteSet(Pair)
  BY Zenon, Finites
<1> HIDE DEF g, h
<1>4. \A f : Cardinality(Cells(h, Pair, f)) = Cardinality(Cells(g, Pair, f))
                + (IF v = f THEN 1 ELSE 0) - (IF g[p][s] = f THEN 1 ELSE 0)
  BY ONLY SMT, <1>1, <1>3, OneCell, p \in Proc, s \in Pair
<1> QED BY ONLY Zenon, <1>2, <1>4 DEF g

LEMMA SameNamed == ASSUME UNCHANGED ofile PROVE \A f : Named(f)' = Named(f)
BY Zenon DEF Named

LEMMA SameHeld == ASSUME UNCHANGED hold PROVE \A f : Held(f)' = Held(f)
BY Zenon DEF Held

\* The counts of IInv, for the provers of arithmetic.
LEMMA Counted ==
    ASSUME Setting, IInv
    PROVE  /\ \A f \in File : /\ Cardinality(Named(f)) \in Nat /\ Cardinality(Held(f)) \in Nat
                              /\ file[f].ref \in Nat
                              /\ file[f].ref = Cardinality(Named(f)) + Cardinality(Held(f))
           /\ 0 \notin File
<1>2. \A f : Cardinality(Named(f)) \in Nat /\ Cardinality(Held(f)) \in Nat
  BY Zenon, Finites, CellsFinite DEF Named, Held
<1>3. \A f \in File : file[f].ref \in Nat
  BY Zenon DEF IInv, TypeOK, FileRec
<1>4. 0 \notin File
  BY Zenon, Finites
<1> QED BY Zenon, <1>2, <1>3, <1>4 DEF IInv, RefsMatch

----------------------------------------------------------------------------
(* filealloc() *)

\* file' differs from file in one count.
RefUpdated(m, n) ==
    /\ file' \in [File -> FileRec]
    /\ \A f \in File : /\ file'[f].type = file[f].type /\ file'[f].obj = file[f].obj
                       /\ file'[f].end = file[f].end
                       /\ file'[f].ref = IF f = m THEN n ELSE file[f].ref

\* A new count leaves what the file is.
LEMMA RefUpdate ==
    ASSUME IInv, NEW m \in File, NEW n \in Nat, file' = [file EXCEPT ![m].ref = n]
    PROVE  RefUpdated(m, n)
<1> DEFINE r == [file[m] EXCEPT !.ref = n]
<1>1. file' = [file EXCEPT ![m] = r]
  BY Zenon
<1>2. file \in [File -> FileRec]
  BY Zenon DEF IInv, TypeOK
<1>3. r \in FileRec /\ r.ref = n /\ r.type = file[m].type /\ r.obj = file[m].obj /\ r.end = file[m].end
  <2>1. file[m] \in FileRec
    BY Zenon, <1>2
  <2> QED BY ONLY Zenon, <2>1, n \in Nat DEF FileRec
<1> HIDE DEF r
<1>4. file' \in [File -> FileRec] /\ \A f \in File : file'[f] = IF f = m THEN r ELSE file[f]
  BY ONLY Zenon, <1>1, <1>2, <1>3, m \in File
<1> QED BY ONLY Zenon, <1>3, <1>4 DEF RefUpdated

\* filealloc() takes a free file, which nobody has, and counts the caller.
LEMMA Alloc ==
    ASSUME Setting, IInv, NEW p \in Proc, NEW s \in Pair, hold[p][s] = 0,
           free # {}, filealloc(p, s), UNCHANGED ofile
    PROVE  /\ Min(free) \in File
           /\ file[Min(free)].ref = 0 /\ file[Min(free)].type = "FD_NONE"
           /\ RefUpdated(Min(free), 1)
           /\ hold' = [hold EXCEPT ![p][s] = Min(free)] /\ hold' \in [Proc -> [Pair -> File \cup {0}]]
           /\ RefsMatch'
<1> DEFINE m == Min(free)
<1>1. m \in free
  <2>1. NFILE \in Nat /\ free \subseteq 1..NFILE
    BY Zenon DEF Setting, Sizes, free, File
  <2> QED BY Zenon, <2>1, Finites DEF CardFacts
<1> HIDE DEF m
<1>2. m \in File /\ file[m].ref = 0
  BY Zenon, <1>1 DEF free
<1>3. file[m].type = "FD_NONE"
  BY Zenon, <1>2 DEF IInv, Complete
<1>4. file' = [file EXCEPT ![m].ref = 1] /\ hold' = [hold EXCEPT ![p][s] = m]
  BY Zenon DEF filealloc, m
<1>5. RefUpdated(m, 1)
  BY Zenon, <1>2, <1>4, RefUpdate
<1>6. RefsMatch'
  <2>1. \A f \in File : file'[f].ref = IF f = m THEN 1 ELSE file[f].ref
    BY Zenon, <1>5 DEF RefUpdated
  <2>2. \A f \in File : Cardinality(Held(f))' = Cardinality(Held(f)) + (IF m = f THEN 1 ELSE 0)
                                                       - (IF hold[p][s] = f THEN 1 ELSE 0)
    <3>1. SetHold(p, s, m)
      BY Zenon, <1>4 DEF SetHold
    <3> QED BY ONLY SMT, <3>1, Setting, IInv, HeldStep, p \in Proc, s \in Pair
  <2>3. \A f \in File : Cardinality(Named(f))' = Cardinality(Named(f))
    BY Zenon, SameNamed
  <2>4. \A f \in File : file'[f].ref = Cardinality(Named(f))' + Cardinality(Held(f))'
    BY ONLY <1>2, <2>1, <2>2, <2>3, Counted, Setting, IInv, hold[p][s] = 0
  <2> QED BY Zenon, <2>4 DEF RefsMatch
<1>7. hold' \in [Proc -> [Pair -> File \cup {0}]]
  BY Zenon, <1>2, <1>4 DEF IInv, TypeOK
<1> QED BY Zenon, <1>2, <1>3, <1>4, <1>5, <1>6, <1>7 DEF m

\* Finitely many files and calls have an inode.
LEMMA PathSets ==
    ASSUME Setting, NEW path
    PROVE  /\ IsFiniteSet(Opened(path)) /\ Cardinality(Opened(path)) \in Nat
           /\ IsFiniteSet(Users(path)) /\ Cardinality(Users(path)) \in Nat
<1>1. Opened(path) \subseteq File /\ Users(path) \subseteq Proc
  BY Zenon DEF Opened, Users
<1>2. IsFiniteSet(Opened(path)) /\ IsFiniteSet(Users(path))
  BY Zenon, <1>1, Finites DEF CardFacts
<1> QED BY Zenon, <1>2, Finites DEF CardFacts

\* A step that leaves the files and copies that refer to an end of a pipe.
EndsKept ==
    /\ \A f \in File : Whole(file'[f]) /\ \A k, e : PipeEnd(file'[f], k, e) <=> PipeEnd(file[f], k, e)
    /\ \A q \in Proc : Whole(ff'[q]) /\ \A k, e : PipeEnd(ff'[q], k, e) <=> PipeEnd(ff[q], k, e)

\* The ends of the pipes stay what they are when the files that have them do.
LEMMA EndsFrame ==
    ASSUME IInv, UNCHANGED pipe, EndsKept
    PROVE  OneEnd' /\ EndsMatch'
<1>1. /\ \A f \in File : \A k, e : PipeEnd(file'[f], k, e) <=> PipeEnd(file[f], k, e)
      /\ \A q \in Proc : \A k, e : PipeEnd(ff'[q], k, e) <=> PipeEnd(ff[q], k, e)
      /\ \A f \in File : Whole(file'[f])
      /\ \A q \in Proc : Whole(ff'[q])
  BY Zenon DEF EndsKept
<1>2. OneEnd'
  <2>1. OneEnd
    BY Zenon DEF IInv
  <2>3. ASSUME NEW k \in PipeId, NEW e \in {"read", "write"}
        PROVE  /\ \A f, g \in File : PipeEnd(file'[f], k, e) /\ PipeEnd(file'[g], k, e) => f = g
               /\ \A q, r \in Proc : PipeEnd(ff'[q], k, e) /\ PipeEnd(ff'[r], k, e) => q = r
               /\ \A f \in File, q \in Proc : ~(PipeEnd(file'[f], k, e) /\ PipeEnd(ff'[q], k, e))
    <3>1. /\ \A f, g \in File : PipeEnd(file[f], k, e) /\ PipeEnd(file[g], k, e) => f = g
          /\ \A q, r \in Proc : PipeEnd(ff[q], k, e) /\ PipeEnd(ff[r], k, e) => q = r
          /\ \A f \in File, q \in Proc : ~(PipeEnd(file[f], k, e) /\ PipeEnd(ff[q], k, e))
      BY ONLY Zenon, <2>1, k \in PipeId, e \in {"read", "write"} DEF OneEnd
    <3> QED BY ONLY Zenon, <1>1, <3>1
  <2> QED BY ONLY Zenon, <1>1, <2>3 DEF OneEnd
<1>3. EndsMatch'
  BY Zenon, <1>1 DEF IInv, ObjectsMatch, EndsMatch
<1> QED BY Zenon, <1>2, <1>3

\* A step that leaves what the files and the copies refer to.
LEMMA SameEnds ==
    ASSUME IInv, UNCHANGED <<ff, pipe>>,
           \A f \in File : /\ file'[f].type = file[f].type /\ file'[f].obj = file[f].obj
                           /\ file'[f].end = file[f].end
    PROVE  OneEnd' /\ EndsMatch' /\ \A path : Opened(path)' = Opened(path)
<1>1. EndsKept
  <2>1. /\ \A f \in File : Whole(file'[f]) <=> Whole(file[f])
        /\ \A f \in File : \A k, e : PipeEnd(file'[f], k, e) <=> PipeEnd(file[f], k, e)
    BY Zenon DEF PipeEnd, Whole
  <2> QED BY Zenon, <2>1 DEF IInv, OneEnd, EndsKept
<1>2. \A path : Opened(path)' = Opened(path)
  BY Zenon DEF Opened
<1> QED BY Zenon, <1>1, <1>2, EndsFrame

LEMMA SysOpenInv ==
    ASSUME Setting, IInv, NEW p \in Proc, NEW path \in Path, sys_open(p, path)
    PROVE  IInv'
<1> DEFINE m == Min(free)
<1>1. /\ pc[p] = "user" /\ free # {} /\ filealloc(p, 1)
      /\ "open" \notin mask[p] \/ path = allowed[p]
      /\ iref' = [iref EXCEPT ![path] = @ + 1]
      /\ using' = [using EXCEPT ![p] = path]
      /\ strayed' = (strayed \/ ("open" \in policy[p].mask /\ path # policy[p].path))
      /\ pc' = [pc EXCEPT ![p] = "open"]
      /\ UNCHANGED <<pipe, ofile, mask, allowed, policy, ff, child, panic>>
  BY Zenon DEF sys_open, Call, Passes, Goto, rules
<1>2. hold[p] = NoHold /\ hold[p][1] = 0 /\ hold[p][2] = 0 /\ ff[p] = NoFile
  BY Zenon, <1>1, Defaults DEF IInv, Holds, Making, Closing
<1>3. /\ m \in File /\ file[m].ref = 0 /\ file[m].type = "FD_NONE" /\ RefUpdated(m, 1)
      /\ hold' = [hold EXCEPT ![p][1] = m] /\ hold' \in [Proc -> [Pair -> File \cup {0}]]
      /\ RefsMatch'
  BY ONLY Zenon, <1>1, <1>2, Alloc, Defaults, Setting, IInv, p \in Proc
<1> HIDE DEF m
<1>4. /\ file' \in [File -> FileRec]
      /\ \A f \in File : /\ file'[f].type = file[f].type /\ file'[f].obj = file[f].obj
                         /\ file'[f].end = file[f].end
                         /\ file'[f].ref = IF f = m THEN 1 ELSE file[f].ref
  BY Zenon, <1>3 DEF RefUpdated
<1>5. TypeOK'
  BY <1>1, <1>3, <1>4 DEF IInv, TypeOK
<1>6. LocalsOK'
  BY Zenon, <1>1 DEF IInv, LocalsOK, Labels
<1>7. Complete'
  BY <1>3, <1>4, Counted DEF IInv, Complete
<1>13. FdsReady'
  BY <1>1, <1>4 DEF IInv, TypeOK, FdsReady
<1>16. \A q \in Proc \ {p} : /\ pc'[q] = pc[q] /\ hold'[q] = hold[q] /\ ff'[q] = ff[q]
                             /\ ofile'[q] = ofile[q] /\ using'[q] = using[q]
  BY Zenon, <1>1, <1>2, <1>3 DEF IInv, TypeOK, LocalsOK
<1>17. \A q \in Proc, s \in Pair : hold[q][s] # 0 => file'[hold[q][s]].type = file[hold[q][s]].type
  BY Zenon, <1>4, Uses
<1>18. hold'[p][1] = m /\ hold'[p][2] = hold[p][2] /\ Pair = {1, 2}
  BY <1>3, Defaults DEF IInv, TypeOK, Pair
<1>14. HeldReady'
  <2>1. \A s \in Pair : hold'[p][s] # 0 =>
          file'[hold'[p][s]].type = "FD_NONE" /\ pc'[p] # "pipe_fds"
    BY <1>1, <1>2, <1>3, <1>4, <1>18 DEF IInv, HeldReady, LocalsOK, Making
  <2> QED BY Zenon, <1>16, <1>17, <2>1, Others
<1>8. (\A q \in Proc : Holds(q))'
  <2>1. Holds(p)'
    BY Zenon, <1>1, <1>2, <1>3, <1>18, Defaults, Counted DEF IInv, LocalsOK, Holds, Making, Closing
  <2> QED BY Zenon, <1>16, <2>1, Others
<1>9. OneEnd' /\ EndsMatch' /\ \A x : Opened(x)' = Opened(x)
  BY ONLY Zenon, IInv, <1>1, <1>4, SameEnds
<1>10. InodesMatch'
  <2>1. \A x \in Path : Users(x)' = IF x = path THEN Users(x) \cup {p} ELSE Users(x)
    BY Zenon, <1>1, <1>2, Defaults DEF IInv, LocalsOK, Users
  <2>2. p \notin Users(path)
    BY Zenon, <1>1, <1>2, Defaults DEF Users
  <2>3. Cardinality(Users(path) \cup {p}) = Cardinality(Users(path)) + 1
    BY Zenon, <2>2, PathSets, Finites DEF CardFacts
  <2>4. \A x \in Path : iref[x] = Cardinality(Opened(x)) + Cardinality(Users(x))
    BY Zenon DEF IInv, ObjectsMatch, InodesMatch
  <2>5. \A x \in Path : iref'[x] = IF x = path THEN iref[x] + 1 ELSE iref[x]
    BY Zenon, <1>1 DEF IInv, TypeOK
  <2>6. \A x \in Path : Opened(x)' = Opened(x)
    BY Zenon, <1>9
  <2>7. \A x \in Path : Cardinality(Opened(x)) \in Nat /\ Cardinality(Users(x)) \in Nat
    BY Zenon, PathSets
  <2>8. \A x \in Path : /\ Cardinality(Opened(x)') = Cardinality(Opened(x))
                        /\ Cardinality(Users(x)')
                             = IF x = path THEN Cardinality(Users(x)) + 1 ELSE Cardinality(Users(x))
    BY ONLY Zenon, <2>1, <2>3, <2>6
  <2>9. \A x \in Path : iref'[x] = Cardinality(Opened(x)') + Cardinality(Users(x)')
    BY ONLY <2>4, <2>5, <2>7, <2>8
  <2> QED BY Zenon, <2>9 DEF InodesMatch
<1>11. Forking'
  BY Zenon, <1>1 DEF IInv, LocalsOK, Forking
<1>12. Ruled'
  BY Zenon, <1>1 DEF IInv, LocalsOK, Ruled
<1>15. (Confined /\ NoPanic)'
  BY Zenon, <1>1 DEF IInv, Confined, NoPanic, Ruled
<1> QED BY Zenon, <1>3, <1>5, <1>6, <1>7, <1>8, <1>9, <1>10, <1>11, <1>12, <1>13, <1>14, <1>15
       DEF IInv, ObjectsMatch

LEMMA SysPipeInv ==
    ASSUME Setting, IInv, NEW p \in Proc, sys_pipe(p)
    PROVE  IInv'
<1> DEFINE m == Min(free)
<1>1. /\ pc[p] = "user" /\ free # {} /\ filealloc(p, 1)
      /\ pc' = [pc EXCEPT ![p] = "pipealloc"]
      /\ UNCHANGED <<pipe, iref, ofile, mask, allowed, policy, ff, using, child, strayed, panic>>
  BY Zenon DEF sys_pipe, Call, Goto, rules
<1>2. hold[p] = NoHold /\ hold[p][1] = 0 /\ hold[p][2] = 0 /\ ff[p] = NoFile
  BY Zenon, <1>1, Defaults DEF IInv, Holds, Making, Closing
<1>3. /\ m \in File /\ file[m].ref = 0 /\ file[m].type = "FD_NONE" /\ RefUpdated(m, 1)
      /\ hold' = [hold EXCEPT ![p][1] = m] /\ hold' \in [Proc -> [Pair -> File \cup {0}]]
      /\ RefsMatch'
  BY ONLY Zenon, <1>1, <1>2, Alloc, Defaults, Setting, IInv, p \in Proc
<1> HIDE DEF m
<1>4. /\ file' \in [File -> FileRec]
      /\ \A f \in File : /\ file'[f].type = file[f].type /\ file'[f].obj = file[f].obj
                         /\ file'[f].end = file[f].end
                         /\ file'[f].ref = IF f = m THEN 1 ELSE file[f].ref
  BY Zenon, <1>3 DEF RefUpdated
<1>5. TypeOK'
  BY Zenon, <1>1, <1>3, <1>4 DEF IInv, TypeOK
<1>6. LocalsOK'
  BY Zenon, <1>1 DEF IInv, LocalsOK, Labels
<1>7. Complete'
  BY <1>3, <1>4, Counted DEF IInv, Complete
<1>13. FdsReady'
  BY <1>1, <1>4 DEF IInv, TypeOK, FdsReady
<1>16. \A q \in Proc \ {p} : /\ pc'[q] = pc[q] /\ hold'[q] = hold[q] /\ ff'[q] = ff[q]
                             /\ ofile'[q] = ofile[q] /\ using'[q] = using[q]
  BY Zenon, <1>1, <1>2, <1>3 DEF IInv, TypeOK, LocalsOK
<1>17. \A q \in Proc, s \in Pair : hold[q][s] # 0 => file'[hold[q][s]].type = file[hold[q][s]].type
  BY Zenon, <1>4, Uses
<1>18. hold'[p][1] = m /\ hold'[p][2] = hold[p][2] /\ Pair = {1, 2}
  BY <1>3, Defaults DEF IInv, TypeOK, Pair
<1>14. HeldReady'
  <2>1. \A s \in Pair : hold'[p][s] # 0 =>
          file'[hold'[p][s]].type = "FD_NONE" /\ pc'[p] # "pipe_fds"
    BY <1>1, <1>2, <1>3, <1>4, <1>18 DEF IInv, HeldReady, LocalsOK, Making
  <2> QED BY Zenon, <1>16, <1>17, <2>1, Others
<1>8. (\A q \in Proc : Holds(q))'
  <2>1. Holds(p)'
    BY Zenon, <1>1, <1>2, <1>3, <1>18, Defaults, Counted DEF IInv, LocalsOK, Holds, Making, Closing
  <2> QED BY Zenon, <1>16, <2>1, Others
<1>9. OneEnd' /\ EndsMatch' /\ \A x : Opened(x)' = Opened(x)
  BY ONLY Zenon, IInv, <1>1, <1>4, SameEnds
<1>10. InodesMatch'
  <2>1. \A x \in Path : Users(x)' = Users(x)
    BY Zenon, <1>1, <1>2, Defaults DEF IInv, LocalsOK, Users
  <2> QED BY Zenon, <1>1, <1>9, <2>1 DEF IInv, ObjectsMatch, InodesMatch
<1>11. Forking'
  BY Zenon, <1>1 DEF IInv, LocalsOK, Forking
<1>12. (Ruled /\ Confined /\ NoPanic)'
  BY Zenon, <1>1 DEF IInv, LocalsOK, Ruled, Confined, NoPanic
<1> QED BY Zenon, <1>3, <1>5, <1>6, <1>7, <1>8, <1>9, <1>10, <1>11, <1>12, <1>13, <1>14 DEF IInv, ObjectsMatch

LEMMA PipeallocInv ==
    ASSUME Setting, IInv, NEW p \in Proc, pipealloc(p)
    PROVE  IInv'
<1> DEFINE m == Min(free)
<1>1. /\ pc[p] = "pipealloc"
      /\ UNCHANGED <<pipe, iref, ofile, mask, allowed, policy, ff, using, child, strayed, panic>>
  BY Zenon DEF pipealloc, rules
<1>2. hold[p][1] # 0 /\ hold[p][2] = 0 /\ ff[p] = NoFile
  BY Zenon, <1>1, Defaults DEF IInv, Holds, Making, Closing
<1>3. CASE free # {} /\ filealloc(p, 2) /\ pc' = [pc EXCEPT ![p] = "pipe"]
  <2>3. /\ m \in File /\ file[m].ref = 0 /\ file[m].type = "FD_NONE" /\ RefUpdated(m, 1)
        /\ hold' = [hold EXCEPT ![p][2] = m] /\ hold' \in [Proc -> [Pair -> File \cup {0}]]
        /\ RefsMatch'
    BY ONLY Zenon, <1>1, <1>2, <1>3, Alloc, Defaults, Setting, IInv, p \in Proc
  <2> HIDE DEF m
  <2>4. /\ file' \in [File -> FileRec]
        /\ \A f \in File : /\ file'[f].type = file[f].type /\ file'[f].obj = file[f].obj
                           /\ file'[f].end = file[f].end
                           /\ file'[f].ref = IF f = m THEN 1 ELSE file[f].ref
    BY Zenon, <2>3 DEF RefUpdated
  <2>5. TypeOK'
    BY Zenon, <1>1, <2>3, <2>4 DEF IInv, TypeOK
  <2>6. LocalsOK'
    BY Zenon, <1>1, <1>3 DEF IInv, LocalsOK, Labels
  <2>7. Complete'
    BY <2>3, <2>4, Counted DEF IInv, Complete
  <2>13. FdsReady'
    <3>1. /\ FdsReady /\ ofile' = ofile
          /\ \A q \in Proc, i \in Fd : ofile[q][i] # 0 => ofile[q][i] \in File
      BY Zenon, <1>1, Uses DEF IInv
    <3> QED BY ONLY SMT, <2>4, <3>1 DEF FdsReady
  <2>16. \A q \in Proc \ {p} : /\ pc'[q] = pc[q] /\ hold'[q] = hold[q] /\ ff'[q] = ff[q]
                               /\ ofile'[q] = ofile[q] /\ using'[q] = using[q]
    BY Zenon, <1>1, <1>2, <1>3, <2>3 DEF IInv, TypeOK, LocalsOK
  <2>17. \A q \in Proc, s \in Pair : hold[q][s] # 0 => file'[hold[q][s]].type = file[hold[q][s]].type
    BY Zenon, <2>4, Uses
  <2>18. hold'[p][2] = m /\ hold'[p][1] = hold[p][1] /\ Pair = {1, 2}
    BY <2>3, Defaults DEF IInv, TypeOK, Pair
  <2>14. HeldReady'
    <3>1. \A s \in Pair : hold'[p][s] # 0 =>
            file'[hold'[p][s]].type = "FD_NONE" /\ pc'[p] # "pipe_fds"
      BY <1>1, <1>2, <1>3, <2>3, <2>4, <2>18 DEF IInv, HeldReady, LocalsOK, Making
    <3> QED BY Zenon, <2>16, <2>17, <3>1, Others
  <2>8. (\A q \in Proc : Holds(q))'
    <3>1. Holds(p)'
      BY Zenon, <1>1, <1>2, <1>3, <2>3, <2>18, Defaults, Counted DEF IInv, LocalsOK, Holds, Making, Closing
    <3> QED BY Zenon, <2>16, <3>1, Others
  <2>9. OneEnd' /\ EndsMatch' /\ \A x : Opened(x)' = Opened(x)
    BY ONLY Zenon, IInv, <1>1, <2>4, SameEnds
  <2>10. InodesMatch'
    <3>1. \A x \in Path : Users(x)' = Users(x)
      BY Zenon, <1>1, <1>2, <1>3, Defaults DEF IInv, LocalsOK, Users
    <3> QED BY Zenon, <1>1, <2>9, <3>1 DEF IInv, ObjectsMatch, InodesMatch
  <2>11. Forking'
    BY Zenon, <1>1, <1>3 DEF IInv, LocalsOK, Forking
  <2>12. (Ruled /\ Confined /\ NoPanic)'
    BY Zenon, <1>1, <1>3 DEF IInv, LocalsOK, Ruled, Confined, NoPanic
  <2> QED BY Zenon, <2>3, <2>5, <2>6, <2>7, <2>8, <2>9, <2>10, <2>11, <2>12, <2>13, <2>14 DEF IInv, ObjectsMatch
<1>4. CASE pc' = [pc EXCEPT ![p] = "fileclose"] /\ UNCHANGED <<file, hold>>
  <2>1. Goto(p, "fileclose") /\ UNCHANGED <<table, ofile, rules, local, strayed, panic>>
    BY Zenon, <1>1, <1>4 DEF Goto, table, rules, local
  <2> QED BY ONLY Zenon, Setting, IInv, p \in Proc, <1>1, <2>1, GiveUpInv
<1> QED BY Zenon, <1>3, <1>4 DEF pipealloc, Goto

\* A step in which f and the call of p may begin or cease to refer to the inode of x.
InodesMove(p, f, x) ==
    /\ \A y \in Path \ {x} : Opened(y)' = Opened(y) /\ Users(y)' = Users(y) /\ iref'[y] = iref[y]
    /\ Opened(x) \ {f} = Opened(x)' \ {f} /\ Users(x) \ {p} = Users(x)' \ {p}
    /\ iref'[x] = iref[x] + (IF p \in Users(x)' THEN 1 ELSE 0) - (IF p \in Users(x) THEN 1 ELSE 0)
                          + (IF f \in Opened(x)' THEN 1 ELSE 0) - (IF f \in Opened(x) THEN 1 ELSE 0)

\* The references of an inode follow the one file and the one call that change.
LEMMA InodesStep ==
    ASSUME Setting, IInv, NEW p, NEW f, NEW x \in Path, InodesMove(p, f, x)
    PROVE  InodesMatch'
<1>1. \A y \in Path : iref[y] = Cardinality(Opened(y)) + Cardinality(Users(y))
  BY Zenon DEF IInv, ObjectsMatch, InodesMatch
<1>2. /\ \A y : IsFiniteSet(Opened(y)) /\ IsFiniteSet(Users(y))
      /\ \A y : IsFiniteSet(Opened(y)') /\ IsFiniteSet(Users(y)')
  <2>1. \A y : /\ Opened(y) \subseteq File /\ Users(y) \subseteq Proc
               /\ Opened(y)' \subseteq File /\ Users(y)' \subseteq Proc
    BY Zenon DEF Opened, Users
  <2> QED BY Zenon, <2>1, Finites DEF CardFacts
<1> DEFINE A == Opened(x)
           B == Opened(x)'
           C == Users(x)
           D == Users(x)'
<1>3. CardFacts /\ IsFiniteSet(A) /\ IsFiniteSet(B) /\ IsFiniteSet(C) /\ IsFiniteSet(D)
  BY Zenon, <1>2, Finites
<1>4. A \ {f} = B \ {f} /\ C \ {p} = D \ {p}
  BY Zenon DEF InodesMove
<1>5. iref'[x] = iref[x] + (IF p \in D THEN 1 ELSE 0) - (IF p \in C THEN 1 ELSE 0)
                         + (IF f \in B THEN 1 ELSE 0) - (IF f \in A THEN 1 ELSE 0)
  BY Zenon DEF InodesMove
<1>6. iref[x] = Cardinality(A) + Cardinality(C)
  BY Zenon, <1>1
<1>7. \A y \in Path \ {x} : iref'[y] = Cardinality(Opened(y)') + Cardinality(Users(y)')
  BY Zenon, <1>1 DEF InodesMove
<1> HIDE DEF A, B, C, D
<1>8. /\ Cardinality(A) \in Nat /\ Cardinality(B) \in Nat
      /\ Cardinality(B) = Cardinality(A) + (IF f \in B THEN 1 ELSE 0) - (IF f \in A THEN 1 ELSE 0)
  BY ONLY Zenon, <1>3, <1>4, Differ
<1>9. /\ Cardinality(C) \in Nat /\ Cardinality(D) \in Nat
      /\ Cardinality(D) = Cardinality(C) + (IF p \in D THEN 1 ELSE 0) - (IF p \in C THEN 1 ELSE 0)
  BY ONLY Zenon, <1>3, <1>4, Differ
<1>10. iref'[x] = Cardinality(B) + Cardinality(D)
  BY ONLY <1>5, <1>6, <1>8, <1>9
<1>11. \A y \in Path : iref'[y] = Cardinality(Opened(y)') + Cardinality(Users(y)')
  BY ONLY Zenon, <1>7, <1>10 DEF B, D
<1> QED BY ONLY Zenon, <1>11 DEF InodesMatch

----------------------------------------------------------------------------
(* dup(), fork(), close() and exit() *)

\* filedup() for a descriptor that was free: dup(), and fork() for the child.
LEMMA DupInv ==
    ASSUME Setting, IInv, NEW p \in Proc, NEW fd \in Fd, NEW q \in Proc, NEW i \in Fd,
           ofile[q][i] # 0, ofile[p][fd] = 0, pc[p] \notin {"unused", "zombie"},
           SetFd(p, fd, ofile[q][i]), filedup(ofile[q][i]),
           UNCHANGED <<pipe, iref, rules, pc, local, strayed>>
    PROVE  IInv'
<1> DEFINE f == ofile[q][i]
           n == file[f].ref + 1
<1>1. f \in File /\ file[f].ref >= 1 /\ file[f].ref \in Nat /\ file[f].type # "FD_NONE" /\ n \in Nat
  <2>1. f \in File /\ file[f].ref >= 1 /\ file[f].type # "FD_NONE"
    BY Zenon, Uses DEF IInv, FdsReady
  <2> QED BY <2>1, Counted
<1>2. file' = [file EXCEPT ![f].ref = n] /\ panic' = panic
  BY <1>1 DEF filedup
<1>3. ofile' = [ofile EXCEPT ![p][fd] = f]
  BY Zenon DEF SetFd
<1>4. SetFd(p, fd, f)
  BY Zenon DEF SetFd
<1>20. /\ pipe' = pipe /\ iref' = iref /\ mask' = mask /\ allowed' = allowed /\ policy' = policy
      /\ pc' = pc /\ hold' = hold /\ ff' = ff /\ using' = using /\ child' = child /\ strayed' = strayed
  BY Zenon DEF rules, local
<1>21. n = file[f].ref + 1
  BY Zenon
<1> HIDE DEF f, n
<1>5. RefUpdated(f, n)
  BY ONLY Zenon, IInv, <1>1, <1>2, RefUpdate
<1>6. /\ file' \in [File -> FileRec]
      /\ \A g \in File : /\ file'[g].type = file[g].type /\ file'[g].obj = file[g].obj
                         /\ file'[g].end = file[g].end
                         /\ file'[g].ref = IF g = f THEN n ELSE file[g].ref
  BY Zenon, <1>5 DEF RefUpdated
<1>7. RefsMatch'
  <2>1. \A g \in File : Cardinality(Named(g))' = Cardinality(Named(g)) + (IF f = g THEN 1 ELSE 0)
                                                       - (IF ofile[p][fd] = g THEN 1 ELSE 0)
    BY ONLY SMT, <1>4, Setting, IInv, NamedStep, p \in Proc, fd \in Fd
  <2>2. \A g \in File : Cardinality(Held(g))' = Cardinality(Held(g))
    BY Zenon, <1>20, SameHeld
  <2>4. \A g \in File : file'[g].ref = Cardinality(Named(g))' + Cardinality(Held(g))'
    BY ONLY <1>1, <1>6, <1>21, <2>1, <2>2, Counted, Setting, IInv, ofile[p][fd] = 0
  <2> QED BY Zenon, <2>4 DEF RefsMatch
<1>8. TypeOK'
  BY ONLY Zenon, IInv, <1>1, <1>3, <1>6, <1>20, p \in Proc, fd \in Fd DEF IInv, TypeOK
<1>9. (LocalsOK /\ Forking /\ Ruled /\ Confined /\ NoPanic)'
  BY ONLY Zenon, IInv, <1>2, <1>20 DEF IInv, LocalsOK, Forking, Ruled, Confined, NoPanic
<1>10. Complete'
  BY ONLY IInv, Setting, <1>1, <1>6, <1>21, Counted DEF IInv, Complete
<1>11. FdsReady'
  <2>1. \A r \in Proc, j \in Fd : ofile'[r][j] = ofile[r][j] \/ ofile'[r][j] = f
    BY Zenon, <1>3 DEF IInv, TypeOK
  <2>2. \A r \in Proc, j \in Fd : ofile[r][j] # 0 =>
           ofile[r][j] \in File /\ file[ofile[r][j]].type # "FD_NONE"
    BY Zenon, Uses DEF IInv, FdsReady
  <2>3. f # 0 /\ file'[f].type # "FD_NONE"
    BY Zenon, <1>1, <1>6, Finites
  <2>4. \A r \in Proc, j \in Fd : ofile'[r][j] # 0 => file'[ofile'[r][j]].type # "FD_NONE"
    BY ONLY SMT, <1>6, <2>1, <2>2, <2>3
  <2> QED BY ONLY Zenon, <2>4 DEF FdsReady
<1>12. HeldReady'
  <2>1. \A r \in Proc, s \in Pair : hold[r][s] # 0 => file'[hold[r][s]].type = file[hold[r][s]].type
    BY Zenon, <1>6, Uses
  <2>2. HeldReady
    BY Zenon DEF IInv
  <2> QED BY ONLY ZenonT(60), <1>20, <2>1, <2>2 DEF HeldReady
<1>13. (\A r \in Proc : Holds(r))'
  <2> SUFFICES ASSUME NEW r \in Proc PROVE Holds(r)'
    BY Zenon
  <2>1. Holds(r)
    BY Zenon DEF IInv
  <2>2. /\ \A j \in Fd : ofile[r][j] # 0 => ofile'[r][j] = ofile[r][j]
        /\ r # p => ofile'[r] = ofile[r]
    BY Zenon, <1>3 DEF IInv, TypeOK
  <2>3. pc[r] \in {"unused", "zombie"} => ofile'[r] = NoFds
    BY Zenon, <2>1, <2>2 DEF Holds
  <2>4. pc[r] = "fileread" => \E j \in Fd : ofile'[r][j] = using[r] /\ using[r] # 0
    BY Zenon, <2>1, <2>2 DEF Holds
  <2> QED BY ONLY Zenon, <1>20, <2>1, <2>3, <2>4 DEF Holds, Closing
<1>14. OneEnd' /\ EndsMatch' /\ \A x : Opened(x)' = Opened(x)
  BY ONLY Zenon, IInv, <1>20, <1>6, SameEnds
<1>15. InodesMatch'
  <2>1. \A x \in Path : Users(x)' = Users(x)
    BY Zenon, <1>20 DEF Users
  <2> QED BY ONLY Zenon, IInv, <1>20, <1>14, <2>1 DEF IInv, ObjectsMatch, InodesMatch
<1> QED BY Zenon, <1>7, <1>8, <1>9, <1>10, <1>11, <1>12, <1>13, <1>14, <1>15 DEF IInv, ObjectsMatch

LEMMA SysDupInv ==
    ASSUME Setting, IInv, NEW p \in Proc, NEW fd \in Fd, sys_dup(p, fd)
    PROVE  IInv'
<1> DEFINE m == Min(freefds(p))
<1>1. m \in Fd /\ ofile[p][m] = 0
  <2>1. NOFILE \in Nat /\ freefds(p) \subseteq 1..NOFILE /\ freefds(p) # {}
    BY Zenon DEF Setting, Sizes, freefds, Fd, sys_dup
  <2>2. m \in freefds(p)
    BY Zenon, <2>1, Finites DEF CardFacts
  <2> QED BY Zenon, <2>2 DEF freefds
<1>2. /\ SetFd(p, m, ofile[p][fd]) /\ filedup(ofile[p][fd]) /\ ofile[p][fd] # 0
      /\ pc[p] \notin {"unused", "zombie"}
      /\ UNCHANGED <<pipe, iref, rules, pc, local, strayed>>
  BY Zenon DEF sys_dup, Call, fdalloc, SetFd
<1> HIDE DEF m
<1> QED BY ONLY Zenon, Setting, IInv, <1>1, <1>2, DupInv, p \in Proc, fd \in Fd

LEMMA ForkDupInv ==
    ASSUME Setting, IInv, NEW p \in Proc, fork_dup(p)
    PROVE  IInv'
<1> DEFINE c == child[p]
           fd == Min(ToDup(p))
<1>1. fd \in Fd /\ ofile[p][fd] # 0 /\ ofile[c][fd] = 0
  <2>1. NOFILE \in Nat /\ ToDup(p) \subseteq 1..NOFILE /\ ToDup(p) # {}
    BY Zenon DEF Setting, Sizes, ToDup, Fd, fork_dup
  <2>2. fd \in ToDup(p)
    BY Zenon, <2>1, Finites DEF CardFacts
  <2> QED BY Zenon, <2>2 DEF ToDup
<1>2. c \in Proc /\ pc[c] = "embryo"
  BY Zenon DEF fork_dup, IInv, LocalsOK, Forking
<1>3. /\ SetFd(c, fd, ofile[p][fd]) /\ filedup(ofile[p][fd])
      /\ UNCHANGED <<pipe, iref, rules, pc, local, strayed>>
  BY Zenon DEF fork_dup, SetFd
<1>4. pc[c] \notin {"unused", "zombie"}
  BY Zenon, <1>2
<1> HIDE DEF c, fd
<1> QED BY ONLY Zenon, Setting, IInv, <1>1, <1>2, <1>3, <1>4, DupInv, p \in Proc

\* The descriptor becomes the call's own file.
LEMMA TakeInv ==
    ASSUME Setting, IInv, NEW p \in Proc, NEW fd \in Fd, NEW l \in {"fileclose", "kexit"},
           pc[p] \in {"user", "kexit"}, hold[p] = NoHold, ff[p] = NoFile, ofile[p][fd] # 0,
           Take(p, fd), Goto(p, l),
           UNCHANGED <<table, rules, ff, using, child, strayed, panic>>
    PROVE  IInv'
<1> DEFINE f == ofile[p][fd]
<1>1. f \in File /\ hold[p][1] = 0 /\ hold[p][2] = 0
  BY Zenon, Uses, Defaults
<1>2. SetFd(p, fd, 0) /\ SetHold(p, 1, f) /\ f = ofile[p][fd]
  BY Zenon DEF Take, SetFd, SetHold
<1>3. /\ file' = file /\ pipe' = pipe /\ iref' = iref /\ mask' = mask /\ allowed' = allowed
      /\ policy' = policy /\ ff' = ff /\ using' = using /\ child' = child /\ strayed' = strayed
      /\ panic' = panic /\ pc' = [pc EXCEPT ![p] = l]
  BY Zenon DEF table, rules, Goto
<1> HIDE DEF f
<1>4. RefsMatch'
  <2>1. \A g \in File : Cardinality(Named(g))' = Cardinality(Named(g)) + (IF 0 = g THEN 1 ELSE 0)
                                                       - (IF ofile[p][fd] = g THEN 1 ELSE 0)
    BY ONLY SMT, <1>2, Setting, IInv, NamedStep, p \in Proc, fd \in Fd
  <2>2. \A g \in File : Cardinality(Held(g))' = Cardinality(Held(g)) + (IF f = g THEN 1 ELSE 0)
                                                     - (IF hold[p][1] = g THEN 1 ELSE 0)
    BY ONLY SMT, <1>2, Setting, IInv, HeldStep, p \in Proc, Defaults
  <2>3. \A g \in File : g # 0
    BY Zenon, Finites
  <2>4. \A g \in File : file'[g].ref = Cardinality(Named(g))' + Cardinality(Held(g))'
    BY ONLY <1>1, <1>2, <1>3, <2>1, <2>2, <2>3, Counted, Setting, IInv
  <2> QED BY Zenon, <2>4 DEF RefsMatch
<1>5. TypeOK'
  BY ONLY Zenon, IInv, <1>1, <1>2, <1>3, Defaults, p \in Proc, fd \in Fd
     DEF IInv, TypeOK, SetFd, SetHold
<1>6. (LocalsOK /\ Forking /\ Ruled)'
  BY <1>3 DEF IInv, LocalsOK, Labels, Forking, Ruled
<1>7. (Complete /\ Confined /\ NoPanic)'
  BY <1>3 DEF IInv, Complete, Confined, NoPanic
<1>8. FdsReady'
  <2>1. \A r \in Proc, j \in Fd : ofile'[r][j] = ofile[r][j] \/ ofile'[r][j] = 0
    BY Zenon, <1>2 DEF IInv, TypeOK, SetFd
  <2>2. FdsReady
    BY Zenon DEF IInv
  <2> QED BY ONLY ZenonT(60), <1>3, <2>1, <2>2 DEF FdsReady
<1>9. \A q \in Proc \ {p} : /\ pc'[q] = pc[q] /\ hold'[q] = hold[q] /\ ff'[q] = ff[q]
                            /\ ofile'[q] = ofile[q] /\ using'[q] = using[q]
  BY Zenon, <1>2, <1>3 DEF IInv, TypeOK, LocalsOK, SetFd, SetHold
<1>10. pc'[p] = l /\ hold'[p][2] = 0
  BY <1>1, <1>2, <1>3, Defaults DEF IInv, TypeOK, LocalsOK, SetHold
<1>11. HeldReady'
  <2>1. pc'[p] \notin Making /\ pc'[p] # "pipe_fds"
    BY Zenon, <1>10 DEF Making
  <2> QED BY Zenon, <1>3, <1>9, <2>1, Others
<1>12. (\A q \in Proc : Holds(q))'
  <2>1. Holds(p)'
    BY ONLY Zenon, <1>10, l \in {"fileclose", "kexit"} DEF Holds, Making, Closing
  <2> QED BY Zenon, <1>9, <2>1, Others
<1>13. OneEnd' /\ EndsMatch' /\ \A x : Opened(x)' = Opened(x)
  BY ONLY Zenon, IInv, <1>3, SameEnds
<1>14. InodesMatch'
  <2>1. \A x \in Path : Users(x)' = Users(x)
    BY Zenon, <1>3, <1>9, <1>10 DEF Users
  <2> QED BY ONLY Zenon, IInv, <1>3, <1>13, <2>1 DEF IInv, ObjectsMatch, InodesMatch
<1> QED BY Zenon, <1>4, <1>5, <1>6, <1>7, <1>8, <1>11, <1>12, <1>13, <1>14 DEF IInv, ObjectsMatch

LEMMA SysCloseInv ==
    ASSUME Setting, IInv, NEW p \in Proc, NEW fd \in Fd, sys_close(p, fd)
    PROVE  IInv'
<1>1. pc[p] = "user" /\ hold[p] = NoHold /\ ff[p] = NoFile
  BY Zenon DEF sys_close, Call, IInv, Holds, Making, Closing
<1>2. /\ ofile[p][fd] # 0 /\ Take(p, fd) /\ Goto(p, "fileclose")
      /\ UNCHANGED <<table, rules, ff, using, child, strayed, panic>>
  BY Zenon DEF sys_close
<1> QED BY ONLY Zenon, Setting, IInv, <1>1, <1>2, TakeInv, p \in Proc, fd \in Fd

LEMMA ExitFdInv ==
    ASSUME Setting, IInv, NEW p \in Proc, exit_fd(p)
    PROVE  IInv'
<1> DEFINE fd == Min(Fd \ freefds(p))
<1>1. fd \in Fd /\ ofile[p][fd] # 0
  <2>1. NOFILE \in Nat /\ Fd \ freefds(p) \subseteq 1..NOFILE /\ Fd \ freefds(p) # {}
    BY Zenon DEF Setting, Sizes, freefds, Fd, exit_fd
  <2>2. fd \in Fd \ freefds(p)
    BY Zenon, <2>1, Finites DEF CardFacts
  <2> QED BY Zenon, <2>2 DEF freefds
<1>2. /\ pc[p] = "kexit" /\ hold[p] = NoHold /\ ff[p] = NoFile /\ Take(p, fd)
      /\ UNCHANGED <<table, rules, ff, using, child, strayed, panic>>
  BY Zenon DEF exit_fd, Closed
<1>3. Goto(p, "kexit")
  BY Zenon, <1>2 DEF exit_fd, IInv, LocalsOK, Goto
<1> HIDE DEF fd
<1> QED BY ONLY Zenon, Setting, IInv, <1>1, <1>2, <1>3, TakeInv, p \in Proc

----------------------------------------------------------------------------
(* fileclose() and the calls that fail *)

\* The file that fileclose() works on.
LEMMA CloseSlot ==
    ASSUME Setting, IInv, NEW p \in Proc, fileclose(p)
    PROVE  \E s \in Pair :
              /\ hold[p][s] # 0 /\ SetHold(p, s, 0) /\ ff[p] = NoFile
              /\ pc[p] \in {"fileclose", "open_bad", "kexit"}
              /\ UNCHANGED <<pipe, iref, ofile, rules, pc, using, child, strayed>>
              /\ \/ /\ file[hold[p][s]].ref > 1 
                    /\ file' = [file EXCEPT ![hold[p][s]].ref = @ - 1]
                    /\ UNCHANGED <<ff, panic>>
                 \/ /\ file[hold[p][s]].ref = 1
                    /\ ff' = [ff EXCEPT ![p] = file[hold[p][s]]]
                    /\ file' = [file EXCEPT ![hold[p][s]] = Released(@)]
                    /\ UNCHANGED panic
<1> DEFINE s == IF hold[p][1] # 0 THEN 1 ELSE 2
<1>1. s \in Pair /\ hold[p][s] # 0
  <2>1. s \in Pair
    BY Zenon, Defaults
  <2> QED BY Zenon, <2>1 DEF fileclose
<1>2. hold[p][s] \in File /\ file[hold[p][s]].ref >= 1 /\ file[hold[p][s]].ref \in Nat
  BY Zenon, <1>1, Uses, Counted
<1>3. ~(file[hold[p][s]].ref < 1)
  BY ONLY <1>2
<1> QED BY Zenon, <1>1, <1>3 DEF fileclose, SetHold, Closing

LEMMA FilecloseInv ==
    ASSUME Setting, IInv, NEW p \in Proc, fileclose(p)
    PROVE  IInv'
<1>0. PICK s \in Pair :
              /\ hold[p][s] # 0 /\ SetHold(p, s, 0) /\ ff[p] = NoFile
              /\ pc[p] \in {"fileclose", "open_bad", "kexit"}
              /\ UNCHANGED <<pipe, iref, ofile, rules, pc, using, child, strayed>>
              /\ \/ /\ file[hold[p][s]].ref > 1
                    /\ file' = [file EXCEPT ![hold[p][s]].ref = @ - 1]
                    /\ UNCHANGED <<ff, panic>>
                 \/ /\ file[hold[p][s]].ref = 1
                    /\ ff' = [ff EXCEPT ![p] = file[hold[p][s]]]
                    /\ file' = [file EXCEPT ![hold[p][s]] = Released(@)]
                    /\ UNCHANGED panic
  BY Zenon, CloseSlot
<1> DEFINE f == hold[p][s]
<1>1. /\ f \in File /\ file[f].ref >= 1 /\ file[f].ref \in Nat /\ file[f] \in FileRec
      /\ f = hold[p][s]
  BY Zenon, <1>0, Uses, Counted DEF IInv, TypeOK
<1>2. /\ pipe' = pipe /\ iref' = iref /\ mask' = mask /\ allowed' = allowed /\ ofile' = ofile
      /\ policy' = policy /\ using' = using /\ child' = child /\ strayed' = strayed
      /\ panic' = panic /\ pc' = pc
  BY Zenon, <1>0 DEF rules
<1>3. hold' = [hold EXCEPT ![p][s] = 0] /\ hold' \in [Proc -> [Pair -> File \cup {0}]]
  BY Zenon, <1>0 DEF SetHold, IInv, TypeOK
<1>4. \A q \in Proc, t \in Pair : hold'[q][t] = IF q = p /\ t = s THEN 0 ELSE hold[q][t]
  BY Zenon, <1>3 DEF IInv, TypeOK
<1> HIDE DEF f
<1>5. \A g \in File : /\ Cardinality(Named(g))' = Cardinality(Named(g))
                      /\ Cardinality(Held(g))' = Cardinality(Held(g)) + (IF 0 = g THEN 1 ELSE 0)
                                                     - (IF hold[p][s] = g THEN 1 ELSE 0)
  <2>1. SetHold(p, s, 0)
    BY Zenon, <1>0
  <2>2. \A g \in File : Cardinality(Held(g))' = Cardinality(Held(g)) + (IF 0 = g THEN 1 ELSE 0)
                                                     - (IF hold[p][s] = g THEN 1 ELSE 0)
    BY ONLY SMT, <2>1, Setting, IInv, HeldStep, p \in Proc, s \in Pair
  <2> QED BY Zenon, <1>2, <2>2, SameNamed
<1>6. (Forking /\ Ruled /\ Confined /\ NoPanic)'
  BY Zenon, <1>2 DEF IInv, Forking, Ruled, Confined, NoPanic
<1>7. \A q \in Proc \ {p} : hold'[q] = hold[q]
  BY Zenon, <1>3 DEF IInv, TypeOK
<1>8. Holds(p) /\ pc[p] \in {"fileclose", "open_bad", "kexit"}
  BY Zenon, <1>0 DEF IInv
<1>9. ASSUME file[f].ref > 1, file' = [file EXCEPT ![f].ref = @ - 1], ff' = ff
      PROVE  IInv'
  <2> DEFINE n == file[f].ref - 1
  <2>1. n \in Nat /\ n >= 1 /\ n = file[f].ref - 1 /\ file[f].type # "FD_NONE"
    BY <1>1, <1>9 DEF IInv, Complete
  <2>2. file' = [file EXCEPT ![f].ref = n]
    BY Zenon, <1>9
  <2> HIDE DEF n
  <2>3. RefUpdated(f, n)
    BY ONLY Zenon, IInv, <1>1, <2>1, <2>2, RefUpdate
  <2>4. /\ file' \in [File -> FileRec]
        /\ \A g \in File : /\ file'[g].type = file[g].type /\ file'[g].obj = file[g].obj
                           /\ file'[g].end = file[g].end
                           /\ file'[g].ref = IF g = f THEN n ELSE file[g].ref
    BY Zenon, <2>3 DEF RefUpdated
  <2>5. RefsMatch'
    <3>1. \A g \in File : g # 0
      BY Zenon, Finites
    <3>2. \A g \in File : file'[g].ref = Cardinality(Named(g))' + Cardinality(Held(g))'
      BY ONLY <1>1, <1>5, <2>1, <2>4, <3>1, Counted, Setting, IInv
    <3> QED BY Zenon, <3>2 DEF RefsMatch
  <2>6. TypeOK' /\ LocalsOK'
    BY Zenon, <1>2, <1>3, <1>9, <2>4 DEF IInv, TypeOK, LocalsOK
  <2>7. Complete'
    <3>1. Complete
      BY Zenon DEF IInv
    <3> QED BY ONLY <1>1, <2>1, <2>4, <3>1 DEF Complete
  <2>8. FdsReady'
    <3>1. FdsReady /\ \A q \in Proc, fd \in Fd : ofile[q][fd] # 0 => ofile[q][fd] \in File
      BY Zenon, Uses DEF IInv
    <3> QED BY ONLY SMT, <1>2, <2>4, <3>1 DEF FdsReady
  <2>9. \A q \in Proc, t \in Pair : hold[q][t] # 0 => file'[hold[q][t]].type = file[hold[q][t]].type
    BY Zenon, <2>4, Uses
  <2>10. HeldReady'
    <3>1. HeldReady
      BY Zenon DEF IInv
    <3> QED BY ONLY SMT, <1>2, <1>4, <2>9, <3>1 DEF HeldReady
  <2>11. (\A q \in Proc : Holds(q))'
    <3>1. Holds(p)'
      BY ONLY Zenon, <1>2, <1>4, <1>8, <1>9, p \in Proc, s \in Pair, Defaults DEF Holds, Closing, Making
    <3> QED BY Zenon, <1>2, <1>7, <1>9, <3>1, Others
  <2>12. OneEnd' /\ EndsMatch' /\ \A x : Opened(x)' = Opened(x)
    BY ONLY Zenon, IInv, <1>2, <1>9, <2>4, SameEnds
  <2>13. InodesMatch'
    <3>1. \A x \in Path : Users(x)' = Users(x)
      BY Zenon, <1>2, <1>9 DEF Users
    <3> QED BY ONLY Zenon, IInv, <1>2, <2>12, <3>1 DEF IInv, ObjectsMatch, InodesMatch
  <2> QED BY Zenon, <1>6, <2>5, <2>6, <2>7, <2>8, <2>10, <2>11, <2>12, <2>13 DEF IInv, ObjectsMatch
<1>10. ASSUME file[f].ref = 1, ff' = [ff EXCEPT ![p] = file[f]],
              file' = [file EXCEPT ![f] = Released(@)]
       PROVE  IInv'
  <2> DEFINE r == Released(file[f])
  <2>1. /\ r \in FileRec /\ r.ref = 0 /\ r.type = "FD_NONE" /\ r.obj = file[f].obj /\ r.end = file[f].end
    BY ONLY Zenon, <1>1 DEF Released, FileRec, Types
  <2>2. file' = [file EXCEPT ![f] = r]
    BY Zenon, <1>10
  <2> HIDE DEF r
  <2>3. file' \in [File -> FileRec] /\ \A g \in File : file'[g] = IF g = f THEN r ELSE file[g]
    BY Zenon, <1>1, <2>1, <2>2 DEF IInv, TypeOK
  <2>4. ff' \in [Proc -> FileRec] /\ \A q \in Proc : ff'[q] = IF q = p THEN file[f] ELSE ff[q]
    BY Zenon, <1>1, <1>10 DEF IInv, LocalsOK
  <2>5. RefsMatch'
    <3>1. \A g \in File : g # 0
      BY Zenon, Finites
    <3>2. \A g \in File : file'[g].ref = Cardinality(Named(g))' + Cardinality(Held(g))'
      BY ONLY <1>1, <1>5, <1>10, <2>1, <2>3, <3>1, Counted, Setting, IInv
    <3> QED BY Zenon, <3>2 DEF RefsMatch
  <2>6. TypeOK' /\ LocalsOK'
    BY Zenon, <1>2, <1>3, <2>3, <2>4 DEF IInv, TypeOK, LocalsOK
  <2>7. Complete'
    <3>1. Complete
      BY Zenon DEF IInv
    <3> QED BY ONLY <1>1, <2>1, <2>3, <3>1 DEF Complete
  <2>8. FdsReady'
    <3>1. \A q \in Proc, fd \in Fd : ofile[q][fd] # f
      <4>1. ~(file[f].ref >= 2)
        BY <1>10
      <4> QED BY Zenon, <1>1, <4>1, Uses
    <3>2. FdsReady /\ \A q \in Proc, fd \in Fd : ofile[q][fd] # 0 => ofile[q][fd] \in File
      BY Zenon, Uses DEF IInv
    <3> QED BY ONLY Zenon, <1>2, <2>3, <3>1, <3>2 DEF FdsReady
  <2>9. \A q \in Proc, t \in Pair : hold'[q][t] # 0 =>
           /\ hold'[q][t] = hold[q][t]
           /\ file'[hold[q][t]].type = file[hold[q][t]].type
    <3>1. \A q \in Proc, t \in Pair : hold[q][t] = f => q = p /\ t = s
      <4>1. file[f].ref <= 1
        BY <1>10
      <4> QED BY Zenon, <1>1, <4>1, Uses
    <3>2. \A q \in Proc, t \in Pair : hold[q][t] # 0 => hold[q][t] \in File
      BY Zenon, Uses
    <3> QED BY ONLY Zenon, <1>4, <2>3, <3>1, <3>2
  <2>10. HeldReady'
    <3>1. HeldReady
      BY Zenon DEF IInv
    <3> QED BY ONLY SMT, <1>2, <2>9, <3>1 DEF HeldReady
  <2>14. pc[p] = "open_bad" => file[f].type = "FD_NONE"
    BY Zenon, <1>0, <1>1 DEF IInv, HeldReady, Making
  <2>11. (\A q \in Proc : Holds(q))'
    <3>1. Holds(p)'
      <4>1. ff'[p] = file[f]
        BY Zenon, <2>4
      <4> QED BY ONLY Zenon, <1>2, <1>4, <1>8, <2>14, <4>1, p \in Proc, s \in Pair, Defaults
              DEF Holds, Closing, Making
    <3>2. \A q \in Proc \ {p} : ff'[q] = ff[q]
      BY Zenon, <2>4
    <3> QED BY Zenon, <1>2, <1>7, <3>1, <3>2, Others
  <2>12. OneEnd' /\ EndsMatch'
    <3>1. OneEnd /\ EndsMatch /\ ff[p] = NoFile /\ NoFile.type = "FD_NONE"
      BY Zenon, <1>0, Defaults DEF IInv, ObjectsMatch
    <3>2. (\A g \in File : Whole(file'[g])) /\ (\A q \in Proc : Whole(ff'[q]))
      BY ONLY ZenonT(60), <1>1, <2>1, <2>3, <2>4, <3>1 DEF OneEnd, Whole
    <3>3. ASSUME NEW k \in PipeId, NEW e \in {"read", "write"}
          PROVE  /\ \A g, h \in File : PipeEnd(file'[g], k, e) /\ PipeEnd(file'[h], k, e) => g = h
                 /\ \A q, u \in Proc : PipeEnd(ff'[q], k, e) /\ PipeEnd(ff'[u], k, e) => q = u
                 /\ \A g \in File, q \in Proc : ~(PipeEnd(file'[g], k, e) /\ PipeEnd(ff'[q], k, e))
                 /\ e \in pipe'[k] <=> \/ \E g \in File : PipeEnd(file'[g], k, e)
                                       \/ \E q \in Proc : PipeEnd(ff'[q], k, e)
      <4>1. /\ \A g, h \in File : PipeEnd(file[g], k, e) /\ PipeEnd(file[h], k, e) => g = h
            /\ \A q, u \in Proc : PipeEnd(ff[q], k, e) /\ PipeEnd(ff[u], k, e) => q = u
            /\ \A g \in File, q \in Proc : ~(PipeEnd(file[g], k, e) /\ PipeEnd(ff[q], k, e))
            /\ e \in pipe[k] <=> \/ \E g \in File : PipeEnd(file[g], k, e)
                                 \/ \E q \in Proc : PipeEnd(ff[q], k, e)
        BY ONLY ZenonT(60), <3>1, k \in PipeId, e \in {"read", "write"} DEF OneEnd, EndsMatch
      <4>2. /\ \A g \in File : PipeEnd(file'[g], k, e) <=> g # f /\ PipeEnd(file[g], k, e)
            /\ \A q \in Proc : PipeEnd(ff'[q], k, e)
                 <=> (q = p /\ PipeEnd(file[f], k, e)) \/ (q # p /\ PipeEnd(ff[q], k, e))
            /\ ~PipeEnd(ff[p], k, e)
        BY ONLY Zenon, <2>1, <2>3, <2>4, <3>1 DEF PipeEnd
      <4> QED BY ONLY Zenon, <1>1, <1>2, <4>1, <4>2, p \in Proc
    <3> QED BY ONLY ZenonT(60), <3>2, <3>3 DEF OneEnd, EndsMatch
  <2>13. InodesMatch'
    <3>1. ff'[p] = file[f] /\ ff[p].type = "FD_NONE" /\ \A q \in Proc \ {p} : ff'[q] = ff[q]
      BY Zenon, <1>0, <2>4, Defaults
    <3>2. /\ \A x, g : g \in Opened(x)' <=> g # f /\ g \in Opened(x)
          /\ \A x : f \in Opened(x) <=> file[f].type = "FD_INODE" /\ file[f].obj = x
      BY ONLY Zenon, <1>1, <2>1, <2>3 DEF Opened
    <3>3. \A x, q : q # p => (q \in Users(x)' <=> q \in Users(x))
      BY ONLY Zenon, <1>2, <3>1 DEF Users
    <3>4. CASE file[f].type = "FD_INODE"
      <4>5. PICK y : y = file[f].obj
        BY Zenon
      <4>0. y \in Path
        BY Zenon, <1>1, <3>4, <4>5 DEF IInv, OneEnd, Whole
      <4>1. \A x : /\ p \in Users(x)' <=> x = y
                   /\ p \notin Users(x)
        BY ONLY Zenon, <1>2, <1>8, <2>14, <3>1, <3>4, <4>5, p \in Proc DEF Users
      <4>2. InodesMove(p, f, y)
        <5>1. \A x \in Path \ {y} : Opened(x)' = Opened(x) /\ Users(x)' = Users(x)
          BY ONLY SMT, <3>2, <3>3, <4>1, <4>5 
        <5>2. Opened(y) \ {f} = Opened(y)' \ {f} /\ Users(y) \ {p} = Users(y)' \ {p}
          BY ONLY Zenon, <3>2, <3>3
        <5>3. p \in Users(y)' /\ p \notin Users(y) /\ f \notin Opened(y)' /\ f \in Opened(y)
          BY ONLY Zenon, <3>2, <3>4, <4>1, <4>5
        <5>4. iref[y] \in Nat
          BY Zenon, <4>0 DEF IInv, TypeOK
        <5>5. iref'[y] = iref[y] + (IF p \in Users(y)' THEN 1 ELSE 0) - (IF p \in Users(y) THEN 1 ELSE 0)
                          + (IF f \in Opened(y)' THEN 1 ELSE 0) - (IF f \in Opened(y) THEN 1 ELSE 0)
          BY ONLY SMT, <1>2, <5>3, <5>4
        <5> QED BY Zenon, <1>2, <5>1, <5>2, <5>5 DEF InodesMove
      <4> QED BY ONLY Zenon, Setting, IInv, <4>0, <4>2, InodesStep
    <3>5. CASE file[f].type # "FD_INODE"
      <4>1. \A x : Opened(x)' = Opened(x)
        BY ONLY SMT, <3>2, <3>5
      <4>2. \A x : p \in Users(x)' <=> p \in Users(x)
        BY ONLY Zenon, <1>2, <3>1, <3>5 DEF Users
      <4>3. \A x : Users(x)' = Users(x)
        BY ONLY SMT, <3>3, <4>2
      <4> QED BY ONLY Zenon, IInv, <1>2, <4>1, <4>3 DEF IInv, ObjectsMatch, InodesMatch
    <3> QED BY Zenon, <3>4, <3>5
  <2> QED BY Zenon, <1>6, <2>5, <2>6, <2>7, <2>8, <2>10, <2>11, <2>12, <2>13 DEF IInv, ObjectsMatch
<1> QED BY Zenon, <1>0, <1>9, <1>10 DEF f

LEMMA FilecloseFfInv ==
    ASSUME Setting, IInv, NEW p \in Proc, fileclose_ff(p)
    PROVE  IInv'
<1>1. /\ pc[p] \in {"fileclose", "open_bad", "kexit"} /\ ff' = [ff EXCEPT ![p] = NoFile]
      /\ file' = file /\ ofile' = ofile /\ mask' = mask /\ allowed' = allowed /\ policy' = policy
      /\ pc' = pc /\ hold' = hold /\ using' = using /\ child' = child /\ strayed' = strayed
      /\ panic' = panic
  BY Zenon DEF fileclose_ff, rules, Closing
<1>2. PICK x : x = ff[p]
  BY Zenon
<1>3. x \in FileRec /\ Whole(x) /\ NoFile \in FileRec
  <2>1. NoFile \in FileRec
    <3>1. /\ 0 \in Nat /\ "FD_NONE" \in Types /\ 0 \in PipeId \cup Path \cup {0}
          /\ "none" \in {"none", "read", "write"}
      BY Zenon DEF Types
    <3> QED BY ONLY Zenon, <3>1 DEF NoFile, FileRec
  <2> QED BY Zenon, <1>2, <2>1 DEF IInv, LocalsOK, OneEnd
<1>4. ff' \in [Proc -> FileRec] /\ \A q \in Proc : ff'[q] = IF q = p THEN NoFile ELSE ff[q]
  BY Zenon, <1>1, <1>3 DEF IInv, LocalsOK
<1>5. \/ /\ x.type = "FD_PIPE" /\ pipe' = [pipe EXCEPT ![x.obj] = @ \ {x.end}] /\ iref' = iref
      \/ /\ x.type = "FD_INODE" /\ iref' = [iref EXCEPT ![x.obj] = @ - 1] /\ pipe' = pipe
      \/ /\ x.type = "FD_NONE" /\ iref' = iref /\ pipe' = pipe
  BY Zenon, <1>2 DEF fileclose_ff
<1>6. pc[p] = "open_bad" => x.type = "FD_NONE"
  BY Zenon, <1>2 DEF IInv, Holds
<1>7. (RefsMatch /\ Complete /\ FdsReady /\ HeldReady /\ Forking /\ Ruled /\ Confined /\ NoPanic)'
  <2>1. (Forking /\ Ruled /\ Confined /\ NoPanic)'
    BY Zenon, <1>1 DEF IInv, Forking, Ruled, Confined, NoPanic
  <2> QED BY Zenon, <1>1, <2>1 DEF IInv, RefsMatch, Named, Held, Complete, FdsReady, HeldReady
<1>8. (\A q \in Proc : Holds(q))'
  <2>1. Holds(p) /\ ff'[p] = NoFile
    BY Zenon, <1>4 DEF IInv
  <2>2. Holds(p)'
    BY ONLY Zenon, <1>1, <2>1, Defaults DEF Holds, Closing
  <2> QED BY Zenon, <1>1, <1>4, <2>2, Others
<1>9. LocalsOK'
  BY Zenon, <1>1, <1>4 DEF IInv, LocalsOK
<1>10. /\ \A y : Opened(y)' = Opened(y)
       /\ \A y, q : q # p => (q \in Users(y)' <=> q \in Users(y))
       /\ \A y : p \in Users(y)' <=> pc[p] = "open_bad" /\ using[p] = y
       /\ \A y : p \in Users(y) <=> \/ pc[p] = "open_bad" /\ using[p] = y
                                    \/ x.type = "FD_INODE" /\ x.obj = y
  <2>1. \A y : Opened(y)' = Opened(y)
    BY Zenon, <1>1 DEF Opened
  <2>2. NoFile.type = "FD_NONE"
    BY Zenon, Defaults
  <2> QED BY ONLY Zenon, <1>1, <1>2, <1>4, <2>1, <2>2, p \in Proc DEF Users
<1>11. CASE x.type = "FD_PIPE"
  <2> DEFINE j == x.obj
             d == x.end
  <2>1. j \in PipeId /\ d \in {"read", "write"} /\ PipeEnd(ff[p], j, d)
    BY Zenon, <1>2, <1>3, <1>11 DEF Whole, PipeEnd
  <2>2. pipe' = [pipe EXCEPT ![j] = @ \ {d}] /\ iref' = iref
    BY Zenon, <1>5, <1>11
  <2>3. \A k, e : PipeEnd(ff[p], k, e) <=> k = j /\ e = d
    BY Zenon, <1>2, <1>11 DEF PipeEnd
  <2> HIDE DEF j, d
  <2>4. TypeOK'
    BY Zenon, <1>1, <2>1, <2>2 DEF IInv, TypeOK
  <2>5. /\ \A g \in File : \A k, e : PipeEnd(file'[g], k, e) <=> PipeEnd(file[g], k, e)
        /\ \A q \in Proc : \A k, e : PipeEnd(ff'[q], k, e) <=> q # p /\ PipeEnd(ff[q], k, e)
        /\ \A g \in File : Whole(file'[g])
        /\ \A q \in Proc : Whole(ff'[q])
    <3>1. OneEnd /\ NoFile.type = "FD_NONE"
      BY Zenon, Defaults DEF IInv
    <3> QED BY ONLY Zenon, <1>1, <1>4, <3>1 DEF OneEnd, PipeEnd, Whole
  <2>6. ASSUME NEW k \in PipeId, NEW e \in {"read", "write"}
        PROVE  /\ \A g, h \in File : PipeEnd(file'[g], k, e) /\ PipeEnd(file'[h], k, e) => g = h
               /\ \A q, u \in Proc : PipeEnd(ff'[q], k, e) /\ PipeEnd(ff'[u], k, e) => q = u
               /\ \A g \in File, q \in Proc : ~(PipeEnd(file'[g], k, e) /\ PipeEnd(ff'[q], k, e))
               /\ e \in pipe'[k] <=> \/ \E g \in File : PipeEnd(file'[g], k, e)
                                     \/ \E q \in Proc : PipeEnd(ff'[q], k, e)
    <3>1. /\ \A g, h \in File : PipeEnd(file[g], k, e) /\ PipeEnd(file[h], k, e) => g = h
          /\ \A q, u \in Proc : PipeEnd(ff[q], k, e) /\ PipeEnd(ff[u], k, e) => q = u
          /\ \A g \in File, q \in Proc : ~(PipeEnd(file[g], k, e) /\ PipeEnd(ff[q], k, e))
          /\ e \in pipe[k] <=> \/ \E g \in File : PipeEnd(file[g], k, e)
                               \/ \E q \in Proc : PipeEnd(ff[q], k, e)
      <4>1. OneEnd /\ EndsMatch
        BY Zenon DEF IInv, ObjectsMatch
      <4> QED BY ONLY SMT, <4>1, k \in PipeId, e \in {"read", "write"} DEF OneEnd, EndsMatch
    <3>2. e \in pipe'[k] <=> e \in pipe[k] /\ ~(k = j /\ e = d)
      BY Zenon, <2>2 DEF IInv, TypeOK
    <3>3. /\ \A g \in File : PipeEnd(file'[g], k, e) <=> PipeEnd(file[g], k, e)
          /\ \A q \in Proc : PipeEnd(ff'[q], k, e) <=> q # p /\ PipeEnd(ff[q], k, e)
      BY ONLY Zenon, <2>5
    <3>4. /\ \A g, h \in File : PipeEnd(file'[g], k, e) /\ PipeEnd(file'[h], k, e) => g = h
          /\ \A q, u \in Proc : PipeEnd(ff'[q], k, e) /\ PipeEnd(ff'[u], k, e) => q = u
          /\ \A g \in File, q \in Proc : ~(PipeEnd(file'[g], k, e) /\ PipeEnd(ff'[q], k, e))
      BY ONLY SMT, <3>1, <3>3
    <3>5. PipeEnd(ff[p], k, e) <=> k = j /\ e = d
      BY ONLY Zenon, <2>3
    <3>6. e \in pipe'[k] <=> \/ \E g \in File : PipeEnd(file'[g], k, e)
                             \/ \E q \in Proc : PipeEnd(ff'[q], k, e)
      <4>1. CASE PipeEnd(ff[p], k, e)
        BY ONLY Zenon, <3>1, <3>2, <3>3, <3>5, <4>1, p \in Proc
      <4>2. CASE ~PipeEnd(ff[p], k, e)
        BY ONLY Zenon, <3>1, <3>2, <3>3, <3>5, <4>2, p \in Proc
      <4> QED BY ONLY Zenon, <4>1, <4>2
    <3> QED BY ONLY Zenon, <3>4, <3>6
  <2>7. OneEnd' /\ EndsMatch'
    <3>1. (\A g \in File : Whole(file'[g])) /\ (\A q \in Proc : Whole(ff'[q]))
      BY ONLY Zenon, <2>5
    <3> QED BY ONLY ZenonT(60), <2>6, <3>1 DEF OneEnd, EndsMatch
  <2>8. InodesMatch'
    <3>1. \A y : Users(y)' = Users(y)
      BY ONLY SMT, <1>10, <1>11
    <3> QED BY ONLY Zenon, IInv, <1>10, <2>2, <3>1 DEF IInv, ObjectsMatch, InodesMatch
  <2> QED BY Zenon, <1>7, <1>8, <1>9, <2>4, <2>7, <2>8 DEF IInv, ObjectsMatch
<1>12. CASE x.type # "FD_PIPE"
  <2>1. pipe' = pipe
    BY Zenon, <1>5, <1>12
  <2>2. EndsKept
    <3>1. OneEnd /\ NoFile.type = "FD_NONE"
      BY Zenon, Defaults DEF IInv
    <3> QED BY ONLY Zenon, <1>1, <1>2, <1>4, <1>12, <3>1 DEF EndsKept, OneEnd, PipeEnd, Whole
  <2>3. OneEnd' /\ EndsMatch'
    BY ONLY Zenon, IInv, <2>1, <2>2, EndsFrame
  <2>4. TypeOK' /\ InodesMatch'
    <3>1. CASE x.type = "FD_NONE"
      <4>1. \A y : Users(y)' = Users(y)
        BY ONLY SMT, <1>10, <3>1
      <4>2. iref' = iref
        BY Zenon, <1>5, <3>1
      <4>3. InodesMatch'
        BY ONLY Zenon, IInv, <1>10, <4>1, <4>2 DEF IInv, ObjectsMatch, InodesMatch
      <4> QED BY Zenon, <1>1, <2>1, <4>2, <4>3 DEF IInv, TypeOK
    <3>2. CASE x.type = "FD_INODE"
      <4>9. PICK y : y = x.obj
        BY Zenon
      <4>1. y \in Path
        BY Zenon, <1>3, <3>2, <4>9 DEF Whole
      <4>2. iref' = [iref EXCEPT ![y] = @ - 1]
        BY Zenon, <1>5, <3>2, <4>9
      <4>3. /\ p \in Users(y) /\ p \notin Users(y)'
            /\ \A z \in Path \ {y} : Users(z)' = Users(z)
            /\ Users(y) \ {p} = Users(y)' \ {p}
        <5>1. /\ \A z, q : q # p => (q \in Users(z)' <=> q \in Users(z))
              /\ \A z : p \notin Users(z)'
              /\ \A z : p \in Users(z) <=> z = y
          BY ONLY Zenon, <1>6, <1>10, <3>2, <4>9
        <5>2. \A z : z # y => Users(z)' = Users(z)
          BY ONLY SMT, <5>1
        <5>3. Users(y) \ {p} = Users(y)' \ {p}
          BY ONLY Zenon, <5>1
        <5> QED BY ONLY Zenon, <5>1, <5>2, <5>3
      <4>4. iref[y] \in Nat \ {0}
        <5>1. iref[y] = Cardinality(Opened(y)) + Cardinality(Users(y))
          BY Zenon, <4>1 DEF IInv, ObjectsMatch, InodesMatch
        <5>2. Cardinality(Users(y)) \in Nat \ {0} /\ Cardinality(Opened(y)) \in Nat
          BY Zenon, <4>3, PathSets, Finites, Members
        <5> QED BY ONLY <5>1, <5>2
      <4>5. iref' \in [Path -> Nat] /\ \A z \in Path : iref'[z] = IF z = y THEN iref[y] - 1 ELSE iref[z]
        <5>1. iref \in [Path -> Nat] /\ iref[y] - 1 \in Nat
          BY <4>4 DEF IInv, TypeOK
        <5> QED BY ONLY Zenon, <4>1, <4>2, <5>1
      <4>6. InodesMove(p, p, y)
        <5>1. iref'[y] = iref[y] + (IF p \in Users(y)' THEN 1 ELSE 0) - (IF p \in Users(y) THEN 1 ELSE 0)
                          + (IF p \in Opened(y)' THEN 1 ELSE 0) - (IF p \in Opened(y) THEN 1 ELSE 0)
          <6>1. Opened(y)' = Opened(y)
            BY Zenon, <1>10
          <6> QED BY ONLY SMT, <4>1, <4>3, <4>4, <4>5, <6>1
        <5> QED BY Zenon, <1>10, <4>3, <4>5, <5>1 DEF InodesMove
      <4>7. InodesMatch'
        BY ONLY Zenon, Setting, IInv, <4>1, <4>6, InodesStep
      <4> QED BY Zenon, <1>1, <2>1, <4>5, <4>7 DEF IInv, TypeOK
    <3> QED BY Zenon, <1>5, <1>12, <3>1, <3>2
  <2> QED BY Zenon, <1>7, <1>8, <1>9, <2>3, <2>4 DEF IInv, ObjectsMatch
<1> QED BY Zenon, <1>11, <1>12

LEMMA OpenBadInv ==
    ASSUME Setting, IInv, NEW p \in Proc, open_bad(p)
    PROVE  IInv'
<1>1. /\ pc[p] = "open_bad" /\ hold[p] = NoHold /\ ff[p] = NoFile
      /\ file' = file /\ pipe' = pipe /\ ofile' = ofile /\ mask' = mask /\ allowed' = allowed
      /\ policy' = policy /\ hold' = hold /\ ff' = ff /\ child' = child /\ strayed' = strayed
      /\ panic' = panic
      /\ pc' = [pc EXCEPT ![p] = "user"] /\ using' = [using EXCEPT ![p] = 0]
  BY Zenon DEF open_bad, rules, Closed, Goto
<1>2. PICK y : y = using[p]
  BY Zenon
<1>3. y \in Path /\ iref' = [iref EXCEPT ![y] = @ - 1]
  BY Zenon, <1>1, <1>2 DEF open_bad, IInv, Holds
<1>4. /\ pc'[p] = "user" /\ using'[p] = 0 /\ pc' \in [Proc -> Labels]
      /\ using' \in [Proc -> File \cup Path \cup {0}]
      /\ \A q \in Proc \ {p} : pc'[q] = pc[q] /\ using'[q] = using[q]
  BY Zenon, <1>1 DEF IInv, LocalsOK, Labels
<1>5. \A z : Opened(z)' = Opened(z)
  BY Zenon, <1>1 DEF Opened
<1>6. /\ p \in Users(y) /\ p \notin Users(y)'
      /\ \A z \in Path \ {y} : Users(z)' = Users(z)
      /\ Users(y) \ {p} = Users(y)' \ {p}
  <2>1. /\ \A z, q : q # p => (q \in Users(z)' <=> q \in Users(z))
        /\ \A z : p \notin Users(z)'
        /\ \A z : p \in Users(z) <=> z = y
    <3>1. NoFile.type = "FD_NONE"
      BY Zenon, Defaults
    <3> QED BY ONLY Zenon, <1>1, <1>2, <1>4, <3>1, p \in Proc DEF Users
  <2>2. \A z : z # y => Users(z)' = Users(z)
    BY ONLY SMT, <2>1
  <2>3. Users(y) \ {p} = Users(y)' \ {p}
    BY ONLY Zenon, <2>1
  <2> QED BY ONLY Zenon, <2>1, <2>2, <2>3
<1>7. iref[y] \in Nat \ {0}
  <2>1. iref[y] = Cardinality(Opened(y)) + Cardinality(Users(y))
    BY Zenon, <1>3 DEF IInv, ObjectsMatch, InodesMatch
  <2>2. Cardinality(Users(y)) \in Nat \ {0} /\ Cardinality(Opened(y)) \in Nat
    BY Zenon, <1>6, PathSets, Finites, Members
  <2> QED BY ONLY <2>1, <2>2
<1>8. iref' \in [Path -> Nat] /\ \A z \in Path : iref'[z] = IF z = y THEN iref[y] - 1 ELSE iref[z]
  <2>1. iref \in [Path -> Nat] /\ iref[y] - 1 \in Nat
    BY <1>7 DEF IInv, TypeOK
  <2> QED BY ONLY Zenon, <1>3, <2>1
<1>9. InodesMove(p, p, y)
  <2>1. iref'[y] = iref[y] + (IF p \in Users(y)' THEN 1 ELSE 0) - (IF p \in Users(y) THEN 1 ELSE 0)
                    + (IF p \in Opened(y)' THEN 1 ELSE 0) - (IF p \in Opened(y) THEN 1 ELSE 0)
    <3>1. Opened(y)' = Opened(y)
      BY Zenon, <1>5
    <3> QED BY ONLY SMT, <1>3, <1>6, <1>7, <1>8, <3>1
  <2> QED BY Zenon, <1>5, <1>6, <1>8, <2>1 DEF InodesMove
<1>10. InodesMatch'
  BY ONLY Zenon, Setting, IInv, <1>3, <1>9, InodesStep
<1>11. OneEnd' /\ EndsMatch'
  BY ONLY Zenon, IInv, <1>1, SameEnds
<1>12. (TypeOK /\ LocalsOK)'
  BY Zenon, <1>1, <1>4, <1>8 DEF IInv, TypeOK, LocalsOK
<1>13. (RefsMatch /\ Complete /\ FdsReady)'
  BY Zenon, <1>1 DEF IInv, RefsMatch, Named, Held, Complete, FdsReady
<1>14. HeldReady'
  <2>1. pc'[p] \notin Making /\ pc'[p] # "pipe_fds"
    BY Zenon, <1>4 DEF Making
  <2> QED BY Zenon, <1>1, <1>4, <2>1, Others
<1>15. (\A q \in Proc : Holds(q))'
  <2>1. Holds(p)'
    BY ONLY Zenon, <1>1, <1>4 DEF Holds, Making
  <2> QED BY Zenon, <1>1, <1>4, <2>1, Others
<1>16. (Forking /\ Ruled /\ Confined /\ NoPanic)'
  BY <1>1, <1>4 DEF IInv, LocalsOK, Forking, Ruled, Confined, NoPanic
<1> QED BY Zenon, <1>10, <1>11, <1>12, <1>13, <1>14, <1>15, <1>16 DEF IInv, ObjectsMatch

----------------------------------------------------------------------------
(* The descriptors of open() and pipe() *)

\* The first free descriptor.
LEMMA FreeFd ==
    ASSUME Setting, NEW p \in Proc, NEW S, S \subseteq freefds(p), S # {}
    PROVE  Min(S) \in S /\ Min(S) \in Fd /\ ofile[p][Min(S)] = 0
<1>1. NOFILE \in Nat /\ S \subseteq 1..NOFILE
  BY Zenon DEF Setting, Sizes, freefds, Fd
<1>2. Min(S) \in S
  BY Zenon, <1>1, Finites DEF CardFacts
<1> QED BY Zenon, <1>2 DEF freefds

\* Only one call has a file that is not complete, in one place.
LEMMA OwnFile ==
    ASSUME Setting, IInv, NEW p \in Proc, NEW s \in Pair, hold[p][s] # 0, pc[p] \in Making
    PROVE  /\ hold[p][s] \in File /\ file[hold[p][s]].type = "FD_NONE"
           /\ file[hold[p][s]].ref = 1 /\ file[hold[p][s]] \in FileRec
           /\ \A q \in Proc, t \in Pair : hold[q][t] = hold[p][s] => q = p /\ t = s
           /\ \A q \in Proc, fd \in Fd : ofile[q][fd] # hold[p][s]
<1> DEFINE f == hold[p][s]
<1>1. f \in File /\ file[f].ref >= 1 /\ file[f].type = "FD_NONE" /\ file[f].ref \in Nat
  BY Zenon, Uses, Counted DEF IInv, HeldReady
<1>2. file[f].ref <= 1
  BY Zenon, <1>1 DEF IInv, Complete
<1>3. file[f].ref = 1 /\ ~(file[f].ref >= 2)
  BY ONLY <1>1, <1>2
<1> HIDE DEF f
<1>4. file[f] \in FileRec
  BY Zenon, <1>1 DEF IInv, TypeOK
<1>5. \A q \in Proc, t \in Pair : hold[q][t] = f => q = p /\ t = s
  BY Zenon, <1>1, <1>2, Uses DEF f
<1>6. \A q \in Proc, fd \in Fd : ofile[q][fd] # f
  BY Zenon, <1>1, <1>3, Uses DEF f
<1> QED BY Zenon, <1>1, <1>3, <1>4, <1>5, <1>6 DEF f

LEMMA OpenFdInv ==
    ASSUME Setting, IInv, NEW p \in Proc, open_fd(p)
    PROVE  IInv'
<1>1. /\ pc[p] = "open" /\ pipe' = pipe /\ iref' = iref /\ mask' = mask /\ allowed' = allowed
      /\ policy' = policy /\ ff' = ff /\ child' = child /\ strayed' = strayed /\ panic' = panic
  BY Zenon DEF open_fd, rules
<1>2. hold[p][1] # 0 /\ hold[p][2] = 0 /\ using[p] \in Path /\ ff[p] = NoFile
  BY Zenon, <1>1 DEF IInv, Holds, Making, Closing
<1>3. CASE /\ freefds(p) # {} /\ fdalloc(p, hold[p][1])
           /\ file' = [file EXCEPT ![hold[p][1]] = Filled(@, "FD_INODE", using[p], "none")]
           /\ hold' = [hold EXCEPT ![p] = NoHold] /\ using' = [using EXCEPT ![p] = 0]
           /\ Goto(p, "user")
  <2>1. PICK f, y, fd : f = hold[p][1] /\ y = using[p] /\ fd = Min(freefds(p))
    BY Zenon
  <2>2. /\ f \in File /\ file[f].type = "FD_NONE" /\ file[f].ref = 1 /\ file[f] \in FileRec
        /\ \A q \in Proc, t \in Pair : hold[q][t] = f => q = p /\ t = 1
        /\ y \in Path
    <3>1. 1 \in Pair /\ pc[p] \in Making
      BY Zenon, <1>1, Defaults DEF Making
    <3> QED BY ONLY SMT, Setting, IInv, p \in Proc, <1>2, <2>1, <3>1, OwnFile
  <2>3. fd \in Fd /\ ofile[p][fd] = 0 /\ SetFd(p, fd, f)
    BY Zenon, <1>3, <2>1, FreeFd DEF fdalloc, SetFd
  <2>4. SetHold(p, 1, 0)
    <3>1. hold \in [Proc -> [Pair -> File \cup {0}]]
      BY Zenon DEF IInv, TypeOK
    <3>2. NoHold = [hold[p] EXCEPT ![1] = 0]
      BY <1>2, <3>1 DEF NoHold, Pair
    <3> QED BY Zenon, <1>3, <3>1, <3>2 DEF SetHold
  <2>5. PICK r : r = Filled(file[f], "FD_INODE", y, "none")
    BY Zenon
  <2>6. /\ r \in FileRec /\ r.ref = 1 /\ r.type = "FD_INODE" /\ r.obj = y
    BY Zenon, <2>2, <2>5 DEF Filled, FileRec, Types
  <2>7. file' \in [File -> FileRec] /\ \A g \in File : file'[g] = IF g = f THEN r ELSE file[g]
    BY Zenon, <1>3, <2>1, <2>2, <2>5, <2>6 DEF IInv, TypeOK
  <2>8. /\ hold'[p] = NoHold /\ \A q \in Proc \ {p} : hold'[q] = hold[q]
        /\ hold' \in [Proc -> [Pair -> File \cup {0}]]
    BY Zenon, <1>3 DEF IInv, TypeOK, NoHold
  <2>9. /\ pc'[p] = "user" /\ using'[p] = 0 /\ pc' \in [Proc -> Labels]
        /\ using' \in [Proc -> File \cup Path \cup {0}]
        /\ \A q \in Proc \ {p} : pc'[q] = pc[q] /\ using'[q] = using[q]
    BY Zenon, <1>3 DEF IInv, LocalsOK, Labels, Goto
  <2>10. /\ ofile' \in [Proc -> [Fd -> File \cup {0}]] /\ \A q \in Proc \ {p} : ofile'[q] = ofile[q]
         /\ \A q \in Proc, i \in Fd : ofile'[q][i] = ofile[q][i] \/ ofile'[q][i] = f
    BY Zenon, <2>2, <2>3 DEF IInv, TypeOK, SetFd
  <2>11. TypeOK' /\ LocalsOK'
    BY Zenon, <1>1, <2>7, <2>8, <2>9, <2>10 DEF IInv, TypeOK, LocalsOK
  <2>12. RefsMatch'
    <3>1. \A g \in File : Cardinality(Named(g))' = Cardinality(Named(g)) + (IF f = g THEN 1 ELSE 0)
                                                       - (IF ofile[p][fd] = g THEN 1 ELSE 0)
      BY ONLY SMT, <2>3, Setting, IInv, NamedStep, p \in Proc
    <3>2. \A g \in File : Cardinality(Held(g))' = Cardinality(Held(g)) + (IF 0 = g THEN 1 ELSE 0)
                                                     - (IF hold[p][1] = g THEN 1 ELSE 0)
      BY ONLY SMT, <2>4, Setting, IInv, HeldStep, p \in Proc, Defaults
    <3>3. \A g \in File : g # 0
      BY Zenon, Finites
    <3>4. \A g \in File : file'[g].ref = file[g].ref
      BY ONLY Zenon, <2>2, <2>6, <2>7
    <3>5. \A g \in File : file'[g].ref = Cardinality(Named(g))' + Cardinality(Held(g))'
      BY ONLY <2>1, <2>3, <3>1, <3>2, <3>3, <3>4, Counted, Setting, IInv
    <3> QED BY Zenon, <3>5 DEF RefsMatch
  <2>13. Complete'
    <3>1. Complete
      BY Zenon DEF IInv
    <3> QED BY ONLY SMT, <2>2, <2>6, <2>7, <3>1 DEF Complete
  <2>14. FdsReady'
    <3>1. FdsReady /\ \A q \in Proc, i \in Fd : ofile[q][i] # 0 => ofile[q][i] \in File
      BY Zenon, Uses DEF IInv
    <3> QED BY ONLY SMT, <2>2, <2>6, <2>7, <2>10, <3>1 DEF FdsReady
  <2>15. HeldReady'
    <3>1. \A q \in Proc \ {p}, t \in Pair : hold[q][t] # 0 =>
            file'[hold[q][t]].type = file[hold[q][t]].type
      <4>1. \A q \in Proc, t \in Pair : hold[q][t] # 0 => hold[q][t] \in File
        BY Zenon, Uses
      <4> QED BY ONLY Zenon, <2>2, <2>7, <4>1
    <3>2. pc'[p] \notin Making /\ pc'[p] # "pipe_fds"
      BY Zenon, <2>9 DEF Making
    <3> QED BY Zenon, <1>1, <2>8, <2>9, <2>10, <3>1, <3>2, Others
  <2>16. (\A q \in Proc : Holds(q))'
    <3>1. Holds(p)'
      BY ONLY Zenon, <1>1, <1>2, <2>8, <2>9 DEF Holds, Making
    <3> QED BY Zenon, <1>1, <2>8, <2>9, <2>10, <3>1, Others
  <2>17. OneEnd' /\ EndsMatch'
    <3>1. OneEnd
      BY Zenon DEF IInv
    <3>2. EndsKept
      BY ONLY Zenon, <1>1, <2>2, <2>6, <2>7, <3>1 DEF EndsKept, OneEnd, PipeEnd, Whole
    <3> QED BY ONLY Zenon, IInv, <1>1, <3>2, EndsFrame
  <2>18. InodesMatch'
    <3>1. /\ \A z, g : g # f => (g \in Opened(z)' <=> g \in Opened(z))
          /\ \A z : f \in Opened(z)' <=> z = y
          /\ \A z : f \notin Opened(z)
      BY ONLY Zenon, <2>2, <2>6, <2>7 DEF Opened
    <3>2. /\ \A z, q : q # p => (q \in Users(z)' <=> q \in Users(z))
          /\ \A z : p \notin Users(z)'
          /\ \A z : p \in Users(z) <=> z = y
      <4>1. NoFile.type = "FD_NONE"
        BY Zenon, Defaults
      <4> QED BY ONLY Zenon, <1>1, <1>2, <2>1, <2>9, <4>1, p \in Proc DEF Users
    <3>3. \A z : z # y => Users(z)' = Users(z) /\ Opened(z)' = Opened(z)
      BY ONLY SMT, <3>1, <3>2
    <3>4. Users(y) \ {p} = Users(y)' \ {p} /\ Opened(y) \ {f} = Opened(y)' \ {f}
      BY ONLY Zenon, <3>1, <3>2
    <3>5. p \in Users(y) /\ p \notin Users(y)' /\ f \in Opened(y)' /\ f \notin Opened(y)
      BY ONLY Zenon, <3>1, <3>2
    <3>6. iref[y] \in Nat
      BY Zenon, <2>2 DEF IInv, TypeOK
    <3>7. iref'[y] = iref[y] + (IF p \in Users(y)' THEN 1 ELSE 0) - (IF p \in Users(y) THEN 1 ELSE 0)
                      + (IF f \in Opened(y)' THEN 1 ELSE 0) - (IF f \in Opened(y) THEN 1 ELSE 0)
      BY ONLY SMT, <1>1, <3>5, <3>6
    <3>8. InodesMove(p, f, y)
      BY Zenon, <1>1, <3>3, <3>4, <3>7 DEF InodesMove
    <3> QED BY ONLY Zenon, Setting, IInv, <2>2, <3>8, InodesStep
  <2>19. (Forking /\ Ruled /\ Confined /\ NoPanic)'
    BY <1>1, <2>9 DEF IInv, LocalsOK, Forking, Ruled, Confined, NoPanic
  <2> QED BY Zenon, <2>11, <2>12, <2>13, <2>14, <2>15, <2>16, <2>17, <2>18, <2>19
          DEF IInv, ObjectsMatch
<1>4. CASE Goto(p, "open_bad") /\ UNCHANGED <<file, ofile, hold, using>>
  <2>1. UNCHANGED <<table, ofile, rules, local, strayed, panic>>
    BY Zenon, <1>1, <1>4 DEF table, rules, local
  <2> QED BY ONLY Zenon, Setting, IInv, p \in Proc, <1>1, <1>4, <2>1, OpenFailsInv
<1> QED BY Zenon, <1>3, <1>4 DEF open_fd

LEMMA PipePageInv ==
    ASSUME Setting, IInv, NEW p \in Proc, pipe_page(p)
    PROVE  IInv'
<1>1. /\ pc[p] = "pipe" /\ iref' = iref /\ ofile' = ofile /\ mask' = mask /\ allowed' = allowed
      /\ policy' = policy /\ hold' = hold /\ ff' = ff /\ using' = using /\ child' = child
      /\ strayed' = strayed /\ panic' = panic
  BY Zenon DEF pipe_page, rules
<1>2. hold[p][1] # 0 /\ hold[p][2] # 0 /\ ff[p] = NoFile
  BY Zenon, <1>1 DEF IInv, Holds, Making, Closing
<1>3. CASE /\ FreePipes # {}
           /\ pipe' = [pipe EXCEPT ![Min(FreePipes)] = {"read", "write"}]
           /\ file' = [file EXCEPT ![hold[p][1]] = Filled(@, "FD_PIPE", Min(FreePipes), "read"),
                                   ![hold[p][2]] = Filled(@, "FD_PIPE", Min(FreePipes), "write")]
           /\ Goto(p, "pipe_fds")
  <2>1. PICK f, g, j : f = hold[p][1] /\ g = hold[p][2] /\ j = Min(FreePipes)
    BY Zenon
  <2>2. /\ f \in File /\ file[f].type = "FD_NONE" /\ file[f].ref = 1 /\ file[f] \in FileRec
        /\ g \in File /\ file[g].type = "FD_NONE" /\ file[g].ref = 1 /\ file[g] \in FileRec
        /\ \A q \in Proc, t \in Pair : hold[q][t] = f => q = p /\ t = 1
        /\ \A q \in Proc, t \in Pair : hold[q][t] = g => q = p /\ t = 2
    <3>1. 1 \in Pair /\ 2 \in Pair /\ pc[p] \in Making
      BY Zenon, <1>1, Defaults DEF Making
    <3> QED BY ONLY SMT, Setting, IInv, p \in Proc, <1>2, <2>1, <3>1, OwnFile
  <2>3. f # g
    BY ONLY SMT, <2>1, <2>2, p \in Proc, Defaults
  <2>4. j \in PipeId /\ pipe[j] = {}
    <3>1. NPIPE \in Nat /\ FreePipes \subseteq 1..NPIPE /\ FreePipes # {}
      BY Zenon, <1>3 DEF Setting, Sizes, FreePipes, PipeId
    <3>2. j \in FreePipes
      BY Zenon, <2>1, <3>1, Finites DEF CardFacts
    <3> QED BY Zenon, <3>2 DEF FreePipes
  <2>5. PICK r, w : /\ r = Filled(file[f], "FD_PIPE", j, "read")
                    /\ w = Filled(file[g], "FD_PIPE", j, "write")
    BY Zenon
  <2>6. /\ r \in FileRec /\ r.ref = 1 /\ r.type = "FD_PIPE" /\ r.obj = j /\ r.end = "read"
        /\ w \in FileRec /\ w.ref = 1 /\ w.type = "FD_PIPE" /\ w.obj = j /\ w.end = "write"
    BY Zenon, <2>2, <2>4, <2>5 DEF Filled, FileRec, Types
  <2>7. /\ file' \in [File -> FileRec]
        /\ \A h \in File : file'[h] = IF h = f THEN r ELSE IF h = g THEN w ELSE file[h]
    <3>1. file \in [File -> FileRec]
      BY Zenon DEF IInv, TypeOK
    <3>2. file' = [[file EXCEPT ![f] = r] EXCEPT ![g] = w]
      BY Zenon, <1>3, <2>1, <2>2, <2>3, <2>5, <3>1
    <3> QED BY ONLY Zenon, <2>2, <2>3, <2>6, <3>1, <3>2
  <2>8. /\ pipe' \in [PipeId -> SUBSET {"read", "write"}]
        /\ \A k \in PipeId : pipe'[k] = IF k = j THEN {"read", "write"} ELSE pipe[k]
    BY Zenon, <1>3, <2>1, <2>4 DEF IInv, TypeOK
  <2>9. /\ pc'[p] = "pipe_fds" /\ pc' \in [Proc -> Labels]
        /\ \A q \in Proc \ {p} : pc'[q] = pc[q]
    BY Zenon, <1>3 DEF IInv, LocalsOK, Labels, Goto
  <2>11. TypeOK' /\ LocalsOK'
    BY Zenon, <1>1, <2>7, <2>8, <2>9 DEF IInv, TypeOK, LocalsOK
  <2>12. RefsMatch'
    <3>1. \A h \in File : file'[h].ref = file[h].ref
      BY ONLY Zenon, <2>2, <2>6, <2>7
    <3> QED BY Zenon, <1>1, <3>1 DEF IInv, RefsMatch, Named, Held
  <2>13. Complete'
    <3>1. Complete
      BY Zenon DEF IInv
    <3> QED BY ONLY SMT, <2>2, <2>6, <2>7, <3>1 DEF Complete
  <2>14. FdsReady'
    <3>1. FdsReady /\ \A q \in Proc, i \in Fd : ofile[q][i] # 0 => ofile[q][i] \in File
      BY Zenon, Uses DEF IInv
    <3> QED BY ONLY Zenon, <1>1, <2>2, <2>6, <2>7, <3>1 DEF FdsReady
  <2>15. HeldReady'
    <3>1. \A q \in Proc \ {p}, t \in Pair : hold[q][t] # 0 =>
            file'[hold[q][t]].type = file[hold[q][t]].type
      <4>1. \A q \in Proc, t \in Pair : hold[q][t] # 0 => hold[q][t] \in File
        BY Zenon, Uses
      <4> QED BY ONLY Zenon, <2>2, <2>7, <4>1
    <3>2. pc'[p] \notin Making
      BY Zenon, <2>9 DEF Making
    <3>3. \A t \in Pair : file'[hold'[p][t]].type # "FD_NONE"
      BY ONLY SMT, <1>1, <2>1, <2>2, <2>6, <2>7 DEF Pair
    <3> QED BY Zenon, <1>1, <2>9, <3>1, <3>2, <3>3, Others
  <2>16. (\A q \in Proc : Holds(q))'
    <3>1. Holds(p)'
      BY ONLY Zenon, <1>1, <1>2, <2>9 DEF Holds, Making
    <3> QED BY Zenon, <1>1, <2>9, <3>1, Others
  <2>17. OneEnd' /\ EndsMatch'
    <3>1. OneEnd /\ EndsMatch
      BY Zenon DEF IInv, ObjectsMatch
    <3>2. (\A h \in File : Whole(file'[h])) /\ (\A q \in Proc : Whole(ff'[q]))
      BY ONLY Zenon, <1>1, <2>4, <2>6, <2>7, <3>1 DEF OneEnd, Whole
    <3>3. ASSUME NEW k \in PipeId, NEW e \in {"read", "write"}
          PROVE  /\ \A h, i \in File : PipeEnd(file'[h], k, e) /\ PipeEnd(file'[i], k, e) => h = i
                 /\ \A q, u \in Proc : PipeEnd(ff'[q], k, e) /\ PipeEnd(ff'[u], k, e) => q = u
                 /\ \A h \in File, q \in Proc : ~(PipeEnd(file'[h], k, e) /\ PipeEnd(ff'[q], k, e))
                 /\ e \in pipe'[k] <=> \/ \E h \in File : PipeEnd(file'[h], k, e)
                                       \/ \E q \in Proc : PipeEnd(ff'[q], k, e)
      <4>1. /\ \A h, i \in File : PipeEnd(file[h], k, e) /\ PipeEnd(file[i], k, e) => h = i
            /\ \A q, u \in Proc : PipeEnd(ff[q], k, e) /\ PipeEnd(ff[u], k, e) => q = u
            /\ \A h \in File, q \in Proc : ~(PipeEnd(file[h], k, e) /\ PipeEnd(ff[q], k, e))
            /\ e \in pipe[k] <=> \/ \E h \in File : PipeEnd(file[h], k, e)
                                 \/ \E q \in Proc : PipeEnd(ff[q], k, e)
        BY ONLY SMT, <3>1, k \in PipeId, e \in {"read", "write"} DEF OneEnd, EndsMatch
      <4>2. /\ \A h \in File : PipeEnd(file'[h], k, e)
                 <=> \/ h = f /\ k = j /\ e = "read"
                     \/ h = g /\ k = j /\ e = "write"
                     \/ h # f /\ h # g /\ PipeEnd(file[h], k, e)
            /\ ~PipeEnd(file[f], k, e) /\ ~PipeEnd(file[g], k, e)
            /\ ff' = ff
        BY ONLY Zenon, <1>1, <2>2, <2>3, <2>6, <2>7 DEF PipeEnd
      <4>3. e \in pipe'[k] <=> k = j \/ e \in pipe[k]
        BY Zenon, <2>4, <2>8
      <4>4. k = j => e \notin pipe[k]
        BY Zenon, <2>4
      <4>5. CASE k # j
        <5>1. \A h \in File : PipeEnd(file'[h], k, e) <=> PipeEnd(file[h], k, e)
          BY ONLY Zenon, <4>2, <4>5
        <5>2. ff' = ff /\ (e \in pipe'[k] <=> e \in pipe[k])
          BY ONLY Zenon, <4>2, <4>3, <4>5
        <5> QED BY ONLY SMT, <4>1, <5>1, <5>2
      <4>6. CASE k = j
        <5> DEFINE own == IF e = "read" THEN f ELSE g
        <5>1. own \in File /\ \A h \in File : PipeEnd(file'[h], k, e) <=> h = own
          <6>1. \A h \in File : ~PipeEnd(file[h], k, e)
            BY ONLY Zenon, <4>1, <4>4, <4>6
          <6> QED BY ONLY SMT, <2>2, <2>3, <4>2, <4>6, <6>1, e \in {"read", "write"}
        <5>2. ff' = ff /\ e \in pipe'[k] /\ \A q \in Proc : ~PipeEnd(ff[q], k, e)
          <6>1. \A q \in Proc : ~PipeEnd(ff[q], k, e)
            BY ONLY Zenon, <4>1, <4>4, <4>6
          <6> QED BY ONLY Zenon, <4>2, <4>3, <4>6, <6>1
        <5> HIDE DEF own
        <5> QED BY ONLY SMT, <5>1, <5>2
      <4> QED BY ONLY Zenon, <4>5, <4>6
    <3> QED BY ONLY SMT, <3>2, <3>3 DEF OneEnd, EndsMatch
  <2>18. InodesMatch'
    <3>1. \A z : Opened(z)' = Opened(z)
      <4>1. \A z, h : h \in Opened(z)' <=> h \in Opened(z)
        BY ONLY Zenon, <2>2, <2>6, <2>7 DEF Opened
      <4> QED BY ONLY SMT, <4>1
    <3>2. \A z : Users(z)' = Users(z)
      <4>1. \A z, q : q \in Users(z)' <=> q \in Users(z)
        BY ONLY Zenon, <1>1, <2>9, p \in Proc DEF Users
      <4> QED BY ONLY SMT, <4>1
    <3> QED BY ONLY Zenon, IInv, <1>1, <3>1, <3>2 DEF IInv, ObjectsMatch, InodesMatch
  <2>19. (Forking /\ Ruled /\ Confined /\ NoPanic)'
    BY <1>1, <2>9 DEF IInv, LocalsOK, Forking, Ruled, Confined, NoPanic
  <2> QED BY Zenon, <2>11, <2>12, <2>13, <2>14, <2>15, <2>16, <2>17, <2>18, <2>19
          DEF IInv, ObjectsMatch
<1>4. CASE Goto(p, "fileclose") /\ UNCHANGED <<pipe, file>>
  <2>1. UNCHANGED <<table, ofile, rules, local, strayed, panic>>
    BY Zenon, <1>1, <1>4 DEF table, rules, local
  <2> QED BY ONLY Zenon, Setting, IInv, p \in Proc, <1>1, <1>4, <2>1, GiveUpInv
<1> QED BY Zenon, <1>3, <1>4 DEF pipe_page

LEMMA PipeFdsInv ==
    ASSUME Setting, IInv, NEW p \in Proc, pipe_fds(p)
    PROVE  IInv'
<1>1. /\ pc[p] = "pipe_fds" /\ file' = file /\ pipe' = pipe /\ iref' = iref /\ mask' = mask
      /\ allowed' = allowed /\ policy' = policy /\ ff' = ff /\ using' = using /\ child' = child
      /\ strayed' = strayed /\ panic' = panic
  BY Zenon DEF pipe_fds, rules, table
<1>2. hold[p][1] # 0 /\ hold[p][2] # 0 /\ ff[p] = NoFile
  BY Zenon, <1>1 DEF IInv, Holds, Making, Closing
<1>3. ASSUME NEW a, NEW b, a = Min(freefds(p)), b = Min(freefds(p) \ {a}),
             freefds(p) # {}, freefds(p) \ {a} # {},
             ofile' = [ofile EXCEPT ![p][a] = hold[p][1], ![p][b] = hold[p][2]],
             hold' = [hold EXCEPT ![p] = NoHold], Goto(p, "user")
      PROVE  IInv'
  <2>1. PICK f, g : f = hold[p][1] /\ g = hold[p][2]
    BY Zenon
  <2>2. /\ f \in File /\ file[f].type # "FD_NONE" /\ g \in File /\ file[g].type # "FD_NONE"
    BY Zenon, <1>1, <1>2, <2>1, Uses, Defaults DEF IInv, HeldReady
  <2>3. a \in Fd /\ ofile[p][a] = 0 /\ b \in Fd /\ ofile[p][b] = 0 /\ a # b
    <3>1. freefds(p) \ {a} \subseteq freefds(p)
      BY Zenon
    <3>2. a \in Fd /\ ofile[p][a] = 0
      BY Zenon, <1>3, FreeFd
    <3>3. b \in freefds(p) \ {a} /\ b \in Fd /\ ofile[p][b] = 0
      BY Zenon, <1>3, <3>1, FreeFd
    <3> QED BY Zenon, <3>2, <3>3
  <2>4. ofile \in [Proc -> [Fd -> File \cup {0}]] /\ hold \in [Proc -> [Pair -> File \cup {0}]]
    BY Zenon DEF IInv, TypeOK
  <2>5. PICK o : o = [ofile EXCEPT ![p][a] = f]
    BY Zenon
  <2>6. PICK h : h = [hold EXCEPT ![p][1] = 0]
    BY Zenon
  <2>7. Off(ofile, o, Fd, p, a, f) /\ Off(o, ofile', Fd, p, b, g)
    <3>1. \A q \in Proc, i \in Fd : o[q][i] = IF q = p /\ i = a THEN f ELSE ofile[q][i]
      BY ONLY Zenon, <2>3, <2>4, <2>5, p \in Proc
    <3>2. \A q \in Proc, i \in Fd : ofile'[q][i] =
             IF q = p /\ i = b THEN g ELSE IF q = p /\ i = a THEN f ELSE ofile[q][i]
      BY ONLY Zenon, <1>3, <2>1, <2>3, <2>4, p \in Proc
    <3> QED BY ONLY ZenonT(60), <3>1, <3>2 DEF Off
  <2>8. Off(hold, h, Pair, p, 1, 0) /\ Off(h, hold', Pair, p, 2, 0)
    BY ONLY <1>3, <2>4, <2>6, p \in Proc DEF Off, NoHold, Pair
  <2>9. /\ hold'[p] = NoHold /\ \A q \in Proc \ {p} : hold'[q] = hold[q]
        /\ hold' \in [Proc -> [Pair -> File \cup {0}]]
    BY Zenon, <1>3 DEF IInv, TypeOK, NoHold
  <2>10. /\ pc'[p] = "user" /\ pc' \in [Proc -> Labels] /\ \A q \in Proc \ {p} : pc'[q] = pc[q]
    BY Zenon, <1>3 DEF IInv, LocalsOK, Labels, Goto
  <2>11. /\ ofile' \in [Proc -> [Fd -> File \cup {0}]] /\ \A q \in Proc \ {p} : ofile'[q] = ofile[q]
         /\ \A q \in Proc, i \in Fd : ofile'[q][i] \in {ofile[q][i], f, g}
    BY ONLY Zenon, <1>3, <2>1, <2>2, <2>3, <2>4, p \in Proc
  <2>12. TypeOK' /\ LocalsOK'
    BY Zenon, <1>1, <2>9, <2>10, <2>11 DEF IInv, TypeOK, LocalsOK
  <2>13. RefsMatch'
    <3>0. CardFacts /\ IsFiniteSet(Proc) /\ IsFiniteSet(Fd) /\ IsFiniteSet(Pair) /\ 1 \in Pair /\ 2 \in Pair
      BY Zenon, Finites, Defaults
    <3>1. \A x : /\ Cardinality(Cells(o, Fd, x)) = Cardinality(Cells(ofile, Fd, x))
                       + (IF f = x THEN 1 ELSE 0) - (IF ofile[p][a] = x THEN 1 ELSE 0)
                 /\ Cardinality(Cells(ofile', Fd, x)) = Cardinality(Cells(o, Fd, x))
                       + (IF g = x THEN 1 ELSE 0) - (IF o[p][b] = x THEN 1 ELSE 0)
      BY ONLY SMT, <2>3, <2>7, <3>0, OneCell, p \in Proc
    <3>2. \A x : /\ Cardinality(Cells(h, Pair, x)) = Cardinality(Cells(hold, Pair, x))
                       + (IF 0 = x THEN 1 ELSE 0) - (IF hold[p][1] = x THEN 1 ELSE 0)
                 /\ Cardinality(Cells(hold', Pair, x)) = Cardinality(Cells(h, Pair, x))
                       + (IF 0 = x THEN 1 ELSE 0) - (IF h[p][2] = x THEN 1 ELSE 0)
      BY ONLY SMT, <2>8, <3>0, OneCell, p \in Proc
    <3>3. o[p][b] = 0 /\ h[p][2] = g
      BY ONLY <2>1, <2>3, <2>4, <2>5, <2>6, <3>0, p \in Proc
    <3>4. /\ \A x : Named(x) = Cells(ofile, Fd, x) /\ Named(x)' = Cells(ofile', Fd, x)
          /\ \A x : Held(x) = Cells(hold, Pair, x) /\ Held(x)' = Cells(hold', Pair, x)
      BY Zenon DEF Named, Held, Cells
    <3>5. \A x \in File : x # 0
      BY Zenon, Finites
    <3>6. \A x \in File : Cardinality(Named(x)') + Cardinality(Held(x)')
                            = Cardinality(Named(x)) + Cardinality(Held(x))
      <4>1. \A x \in File : Cardinality(Cells(ofile, Fd, x)) \in Nat /\ Cardinality(Cells(hold, Pair, x)) \in Nat
        BY Zenon, <3>0, CellsFinite
      <4>2. \A x \in File : Cardinality(Cells(ofile', Fd, x)) + Cardinality(Cells(hold', Pair, x))
                    = Cardinality(Cells(ofile, Fd, x)) + Cardinality(Cells(hold, Pair, x))
        BY ONLY <2>1, <2>3, <3>1, <3>2, <3>3, <3>5, <4>1
      <4> QED BY ONLY Zenon, <3>4, <4>2
    <3> QED BY Zenon, <1>1, <3>6 DEF IInv, RefsMatch
  <2>14. FdsReady'
    <3>1. FdsReady
      BY Zenon DEF IInv
    <3> QED BY ONLY Zenon, <1>1, <2>2, <2>11, <3>1 DEF FdsReady
  <2>15. HeldReady'
    <3>2. pc'[p] \notin Making /\ pc'[p] # "pipe_fds"
      BY Zenon, <2>10 DEF Making
    <3> QED BY Zenon, <1>1, <2>9, <2>10, <2>11, <3>2, Others
  <2>16. (\A q \in Proc : Holds(q))'
    <3>1. Holds(p)'
      BY ONLY Zenon, <1>1, <1>2, <2>9, <2>10 DEF Holds, Making
    <3> QED BY Zenon, <1>1, <2>9, <2>10, <2>11, <3>1, Others
  <2>17. OneEnd' /\ EndsMatch' /\ \A x : Opened(x)' = Opened(x)
    BY ONLY Zenon, IInv, <1>1, SameEnds
  <2>18. InodesMatch'
    <3>2. \A z : Users(z)' = Users(z)
      <4>1. \A z, q : q \in Users(z)' <=> q \in Users(z)
        BY ONLY Zenon, <1>1, <2>10, p \in Proc DEF Users
      <4> QED BY ONLY SMT, <4>1
    <3> QED BY ONLY Zenon, IInv, <1>1, <2>17, <3>2 DEF IInv, ObjectsMatch, InodesMatch
  <2>19. (Complete /\ Forking /\ Ruled /\ Confined /\ NoPanic)'
    BY <1>1, <2>10 DEF IInv, LocalsOK, Complete, Forking, Ruled, Confined, NoPanic
  <2> QED BY Zenon, <2>12, <2>13, <2>14, <2>15, <2>16, <2>17, <2>18, <2>19
          DEF IInv, ObjectsMatch
<1>4. CASE hold' = [hold EXCEPT ![p] = Undo(@)] /\ Goto(p, "fileclose") /\ UNCHANGED ofile
  <2>1. hold' = hold
    BY Zenon, <1>4 DEF Undo, IInv, TypeOK
  <2>2. UNCHANGED <<table, ofile, rules, local, strayed, panic>>
    BY Zenon, <1>1, <1>4, <2>1 DEF table, rules, local
  <2> QED BY ONLY Zenon, Setting, IInv, p \in Proc, <1>1, <1>4, <2>2, GiveUpInv
<1> QED BY Zenon, <1>3, <1>4 DEF pipe_fds

----------------------------------------------------------------------------
(* The invariant is kept *)

\* Every step keeps the invariant.
LEMMA NextInv == ASSUME Setting, IInv, [Next]_vars PROVE IInv'
<1>1. CASE Next
  <2>1. PICK p \in Proc :
        \/ fileclose(p) \/ fileclose_ff(p) \/ fileclose_end(p)
        \/ open_fd(p) \/ open_bad(p) \/ sys_pipe(p) \/ pipealloc(p) \/ pipe_page(p) \/ pipe_fds(p)
        \/ read_end(p) \/ fork_dup(p) \/ fork_end(p) \/ kexit(p)
        \/ exit_fd(p) \/ exit_end(p) \/ freeproc(p)
        \/ \E path \in Path : sys_open(p, path)
        \/ \E m \in Mask, path \in Path \cup {NoPath} : interpose(p, m, path)
        \/ \E fd \in Fd : sys_dup(p, fd) \/ sys_close(p, fd) \/ sys_read(p, fd)
        \/ \E c \in Proc : kfork(p, c)
    BY Zenon, <1>1 DEF Next
  <2>2. CASE fileclose(p) \/ fileclose_ff(p) \/ fileclose_end(p)
    BY ONLY Zenon, Setting, IInv, <2>2, p \in Proc, FilecloseInv, FilecloseFfInv, FilecloseEndInv
  <2>3. CASE open_fd(p) \/ open_bad(p) \/ \E path \in Path : sys_open(p, path)
    BY ONLY Zenon, Setting, IInv, <2>3, p \in Proc, OpenFdInv, OpenBadInv, SysOpenInv
  <2>4. CASE sys_pipe(p) \/ pipealloc(p) \/ pipe_page(p) \/ pipe_fds(p)
    BY ONLY Zenon, Setting, IInv, <2>4, p \in Proc, SysPipeInv, PipeallocInv, PipePageInv, PipeFdsInv
  <2>5. CASE read_end(p) \/ \E fd \in Fd : sys_dup(p, fd) \/ sys_close(p, fd) \/ sys_read(p, fd)
    BY ONLY Zenon, Setting, IInv, <2>5, p \in Proc, ReadEndInv, SysDupInv, SysCloseInv, SysReadInv
  <2>6. CASE fork_dup(p) \/ fork_end(p) \/ \E c \in Proc : kfork(p, c)
    BY ONLY Zenon, Setting, IInv, <2>6, p \in Proc, ForkDupInv, ForkEndInv, KforkInv
  <2>7. CASE kexit(p) \/ exit_fd(p) \/ exit_end(p) \/ freeproc(p)
    BY ONLY Zenon, Setting, IInv, <2>7, p \in Proc, KexitInv, ExitFdInv, ExitEndInv, FreeprocInv
  <2>8. CASE \E m \in Mask, path \in Path \cup {NoPath} : interpose(p, m, path)
    BY ONLY Zenon, Setting, IInv, <2>8, p \in Proc, InterposeInv
  <2> QED BY ONLY Zenon, <2>1, <2>2, <2>3, <2>4, <2>5, <2>6, <2>7, <2>8
<1>2. CASE UNCHANGED vars
  <2>1. /\ file' = file /\ pipe' = pipe /\ iref' = iref /\ ofile' = ofile /\ mask' = mask
        /\ allowed' = allowed /\ policy' = policy /\ pc' = pc /\ hold' = hold /\ ff' = ff
        /\ using' = using /\ child' = child /\ strayed' = strayed /\ panic' = panic
    BY Zenon, <1>2 DEF vars, table, rules, local
  <2>2. \A x : Opened(x)' = Opened(x) /\ Users(x)' = Users(x)
    BY Zenon, <2>1 DEF Opened, Users
  <2>3. (RefsMatch /\ Complete /\ FdsReady /\ HeldReady /\ TypeOK /\ LocalsOK)'
    BY Zenon, <2>1 DEF IInv, RefsMatch, Named, Held, Complete, FdsReady, HeldReady, TypeOK, LocalsOK
  <2>4. (\A p \in Proc : Holds(p))'
    BY Zenon, <2>1 DEF IInv, Holds, Closing
  <2>5. (OneEnd /\ ObjectsMatch)'
    BY ZenonT(60), <2>1, <2>2 DEF IInv, OneEnd, ObjectsMatch, EndsMatch, InodesMatch
  <2>6. (Forking /\ Ruled /\ Confined /\ NoPanic)'
    BY Zenon, <2>1 DEF IInv, Forking, Ruled, Confined, NoPanic
  <2> QED BY ONLY Zenon, <2>3, <2>4, <2>5, <2>6 DEF IInv
<1> QED BY Zenon, <1>1, <1>2

\* What a process can use is ready and open.
LEMMA Ready == ASSUME Setting, IInv PROVE DescriptorsReady
<1> SUFFICES ASSUME NEW p \in Proc
             PROVE  /\ pc[p] = "user" => \A fd \in Fd : ofile[p][fd] # 0 =>
                                             file[ofile[p][fd]].type # "FD_NONE"
                    /\ pc[p] = "fileread" => /\ file[using[p]].ref > 0
                                             /\ file[using[p]].type # "FD_NONE"
  BY Zenon DEF DescriptorsReady
<1>1. ASSUME pc[p] = "fileread"
      PROVE  file[using[p]].ref > 0 /\ file[using[p]].type # "FD_NONE"
  <2>1. PICK fd \in Fd : ofile[p][fd] = using[p] /\ using[p] # 0
    BY Zenon, <1>1 DEF IInv, Holds
  <2>2. /\ using[p] \in File /\ file[using[p]].ref >= 1
        /\ file[using[p]].ref \in Nat /\ file[using[p]].type # "FD_NONE"
    BY Zenon, <2>1, Uses, Counted DEF IInv, FdsReady
  <2> QED BY ONLY <2>2
<1> QED BY Zenon, <1>1 DEF IInv, FdsReady

----------------------------------------------------------------------------
(* The theorems *)

INSTANCE FiniteSetTheorems

\* The facts about cardinalities are those of the library.
LEMMA Cards == CardFacts
<1>1. \A n \in Nat : IsFiniteSet(1..n)
  <2>1. \A n \in Nat : 1 \in Int /\ n \in Int
    OBVIOUS
  <2> QED BY Zenon, <2>1, FS_Interval
<1>2. \A S, T : IsFiniteSet(S) /\ IsFiniteSet(T) => IsFiniteSet(S \X T)
  BY Zenon, FS_Product
<1>3. \A S, T : IsFiniteSet(S) /\ T \subseteq S => IsFiniteSet(T)
  BY Zenon, FS_Subset
<1>4. \A S : IsFiniteSet(S) => Cardinality(S) \in Nat /\ (Cardinality(S) = 0 <=> S = {})
  BY Zenon, FS_CardinalityType, FS_EmptySet
<1>5. \A S, x : IsFiniteSet(S) /\ x \notin S => Cardinality(S \cup {x}) = Cardinality(S) + 1
  BY Zenon, FS_AddElement
<1>6. \A S, x : IsFiniteSet(S) /\ x \in S => Cardinality(S \ {x}) = Cardinality(S) - 1
  BY Zenon, FS_RemoveElement
<1>7. ASSUME NEW n \in Nat, NEW S, S \subseteq 1..n, S # {}
      PROVE  Min(S) \in S
  <2>1. S \subseteq Nat
    BY <1>7
  <2>2. PICK x \in S : \A y \in S : ~(<<y, x>> \in OpToRel(<, Nat))
    BY <1>7, <2>1, NatLessThanWellFounded, WFMin, Zenon
  <2>3. ASSUME NEW y \in S PROVE ~(y < x)
    BY <2>1, <2>2, Zenon DEF OpToRel
  <2>4. \A y \in S : x <= y
    BY <2>1, <2>3
  <2> QED BY Zenon, <2>4 DEF Min
<1> QED BY Zenon, <1>1, <1>2, <1>3, <1>4, <1>5, <1>6, <1>7 DEF CardFacts

\* file.c, sysfile.c: the invariant of the open files holds at every step of every call.
THEOREM FilesInvariance == ASSUME Sizes PROVE Spec => []IInv
<1>1. Setting
  BY Zenon, Cards DEF Setting
<1>2. Init => IInv
  BY Zenon, <1>1, InitInv
<1>3. IInv /\ [Next]_vars => IInv'
  BY Zenon, <1>1, NextInv
<1> QED BY <1>2, <1>3, PTL DEF Spec

\* file.c:29-83, sysfile.c:344-350, 477-505: f->ref is the number of descriptors and
\* calls that have f, filedup() and fileclose() never panic, every descriptor names a
\* complete file, and a file stays open while a read() or write() works on it, whoever
\* closes it and wherever a call fails.
THEOREM FilesAlwaysCounted == ASSUME Sizes PROVE Spec => []FilesCounted
<1>1. Setting
  BY Zenon, Cards DEF Setting
<1>2. IInv => FilesCounted
  BY Zenon, <1>1, Ready DEF IInv, FilesCounted
<1> QED BY <1>2, FilesInvariance, PTL

\* pipe.c:58-74, file.c:71-82: an end of a pipe is open, and an inode has a reference,
\* exactly as long as a file or an unfinished fileclose() or open() has it, although
\* fileclose() frees the file before it closes what the file was.
THEOREM FilesObjectsMatch == ASSUME Sizes PROVE Spec => []ObjectsMatch
<1>1. IInv => ObjectsMatch
  BY Zenon DEF IInv
<1> QED BY <1>1, FilesInvariance, PTL

\* syscall.c:176-204, proc.c:301-302: no process opens a file but the allowed one once
\* it, or an ancestor before fork(), called interpose() with a mask for open().
THEOREM FilesConfined == ASSUME Sizes PROVE Spec => []Confined
<1>1. IInv => Confined
  BY Zenon DEF IInv
<1> QED BY <1>1, FilesInvariance, PTL
=============================================================================
