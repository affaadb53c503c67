------------------------------ MODULE FsProofs -----------------------------
(***************************************************************************)
(* Proofs about descriptor tables and inode counts: through fork, execve,  *)
(* exit and every call on a file, ref_count and open_count of each inode   *)
(* are the number of its users, for any number of processes, descriptors,  *)
(* inodes and open flags.  And about the device stdin: for a buffer of any *)
(* size and any number of readers, no key, wakeup or queue entry is lost.  *)
(* And about the blocks of regular files: none is lost, shared or counted  *)
(* wrong, whatever allocation fails.                                       *)
(***************************************************************************)
EXTENDS Files, Stdin, SfsBlocks, FiniteSetTheorems, WellFoundedInduction, TLAPS

Entry == [status : {"NONE", "INIT", "OPENED"}, node : Node \cup {NoNode}, cnt : Int, acc : {"r", "w", "rw"}]
Call == [name : Node \cup Missing \cup {NoNode}, from : Node \cup {NoNode}, fd : Fd,
         flags : OpenFlags \cup {RdOnly}, exec : BOOLEAN]

TypeOK ==
    /\ st \in [Proc -> {"none", "kernel", "user", "zombie", "lookup", "trunc", "load", "io"}]
    /\ mm \in SUBSET Proc /\ tabs \in SUBSET Proc
    /\ pwd \in [Proc -> Dir \cup {NoNode}]
    /\ fd \in [Proc -> [Fd -> Entry]]
    /\ call \in [Proc -> Call]
    /\ ref \in [Node -> Int] /\ opn \in [Node -> Int] /\ lost \in [Node -> Int]

(* Who has a table: a process from its creation to its do_exit, and those  *)
(* that exit without an mm for ever.  A table has a working directory.     *)
Owners == \A p \in Proc :
    /\ p \in mm => p \in tabs
    /\ st[p] = "none" => p \notin tabs
    /\ st[p] \notin {"none", "zombie"} => p \in tabs
    /\ p \in tabs => pwd[p] # NoNode

(* A process that truncates or loads has found the inode.                  *)
Found == \A p \in Proc : st[p] \in {"trunc", "load"} => call[p].name \in Node

FilesIInv == TypeOK /\ Owners /\ Found /\ EntriesLegal /\ CountsExact

---------------------------------------------------------------------------
(* The share of process p in the counts of inode n: the entries of its     *)
(* table, its working directory, its lookup and its truncation.            *)
Has(p, n) == IF p \in tabs THEN On(p, Fd, n) ELSE 0
Stands(p, n) == One(p \in tabs /\ pwd[p] = n)
Looks(p, n) == One(st[p] = "lookup" /\ call[p].from = n)
Truncs(p, n) == One(st[p] = "trunc" /\ call[p].name = n)

(* The rest of the counts.                                                 *)
Entries(T, f, n) == {x \in T \X Fd : f[x[1]][x[2]].node = n}
Row(g, is, n) == {i \in is : g[i].node = n}

(* There are finitely many descriptors.                                    *)
LEMMA FdFinite == ASSUME FilesAssumption PROVE IsFiniteSet(Fd) /\ 0 \in Fd /\ Fd \subseteq Nat
<1>1. 0 \in Int /\ NFd \in Int /\ NFd - 1 \in Int /\ NFd >= 3
  BY DEF FilesAssumption
<1>2. IsFiniteSet(0 .. NFd - 1)
  BY <1>1, FS_Interval
<1>3. 0 \in 0 .. NFd - 1 /\ 0 .. NFd - 1 \subseteq Nat
  BY <1>1
<1> QED
  BY <1>2, <1>3 DEF Fd

(* Sets without a common member.                                           *)
LEMMA DisjointUnion ==
    ASSUME NEW S, NEW T, IsFiniteSet(S), IsFiniteSet(T), S \cap T = {}
    PROVE  /\ Cardinality(S) \in Nat /\ Cardinality(T) \in Nat
           /\ Cardinality(S \cup T) = Cardinality(S) + Cardinality(T)
<1>1. Cardinality(S \cap T) = 0
  BY FS_EmptySet
<1>2. Cardinality(S) \in Nat /\ Cardinality(T) \in Nat
  BY FS_CardinalityType
<1>3. Cardinality(S \cup T) = Cardinality(S) + Cardinality(T) - Cardinality(S \cap T)
  BY FS_Union
<1> QED
  BY <1>1, <1>2, <1>3

(* The entries of a row, in two parts.                                     *)
LEMMA RowSplit ==
    ASSUME FilesAssumption, NEW g, NEW is \in SUBSET Fd, NEW n
    PROVE  /\ Cardinality(Row(g, is, n)) \in Nat
           /\ Cardinality(Row(g, Fd \ is, n)) \in Nat
           /\ Cardinality(Row(g, Fd, n)) = Cardinality(Row(g, is, n)) + Cardinality(Row(g, Fd \ is, n))
<1>1. IsFiniteSet(Row(g, Fd, n)) /\ IsFiniteSet(Row(g, is, n)) /\ IsFiniteSet(Row(g, Fd \ is, n))
  BY FdFinite, FS_Subset DEF Row
<1>2. Row(g, Fd, n) = Row(g, is, n) \cup Row(g, Fd \ is, n)
  BY DEF Row
<1>3. Row(g, is, n) \cap Row(g, Fd \ is, n) = {}
  BY DEF Row
<1> QED
  BY <1>1, <1>2, <1>3, DisjointUnion

(* Entries without the inode do not count for it.                          *)
LEMMA RowEmpty ==
    ASSUME NEW g, NEW is, NEW n, \A i \in is : g[i].node # n
    PROVE  Cardinality(Row(g, is, n)) = 0
<1>1. Row(g, is, n) = {}
  BY DEF Row
<1> QED
  BY <1>1, FS_EmptySet

(* A row that changes in the entries is only.                              *)
LEMMA RowChange ==
    ASSUME FilesAssumption, NEW g, NEW h, NEW is \in SUBSET Fd, NEW n,
           \A i \in Fd \ is : h[i].node = g[i].node
    PROVE  Cardinality(Row(h, Fd, n))
             = Cardinality(Row(g, Fd, n)) - Cardinality(Row(g, is, n)) + Cardinality(Row(h, is, n))
<1>1. Row(h, Fd \ is, n) = Row(g, Fd \ is, n)
  BY DEF Row
<1>2. /\ Cardinality(Row(g, is, n)) \in Nat /\ Cardinality(Row(g, Fd \ is, n)) \in Nat
      /\ Cardinality(Row(g, Fd, n)) = Cardinality(Row(g, is, n)) + Cardinality(Row(g, Fd \ is, n))
  BY RowSplit
<1>3. /\ Cardinality(Row(h, is, n)) \in Nat
      /\ Cardinality(Row(h, Fd, n)) = Cardinality(Row(h, is, n)) + Cardinality(Row(g, Fd \ is, n))
  BY <1>1, RowSplit
<1> QED
  BY <1>2, <1>3

(* All tables are the row of p and the other tables.                       *)
LEMMA EntriesSplit ==
    ASSUME FilesAssumption, NEW T \in SUBSET Proc, NEW f, NEW p \in Proc, NEW n
    PROVE  /\ Cardinality(Entries(T \ {p}, f, n)) \in Nat
           /\ Cardinality(Entries(T, f, n)) =
                Cardinality(Entries(T \ {p}, f, n)) + (IF p \in T THEN Cardinality(Row(f[p], Fd, n)) ELSE 0)
<1>1. IsFiniteSet(Proc \X Fd)
  BY FdFinite, FS_Product DEF FilesAssumption
<1>2. \A S \in SUBSET (Proc \X Fd) : IsFiniteSet(S) /\ Cardinality(S) \in Nat
  BY <1>1, FS_Subset, FS_CardinalityType
<1>3. Entries(T, f, n) \subseteq Proc \X Fd /\ Entries(T \ {p}, f, n) \subseteq Proc \X Fd
  BY DEF Entries
<1>4. IsFiniteSet(Entries(T \ {p}, f, n)) /\ Cardinality(Entries(T \ {p}, f, n)) \in Nat
  BY <1>2, <1>3
<1>5. CASE p \notin T
  <2>1. T \ {p} = T
    BY <1>5
  <2>2. Cardinality(Entries(T, f, n)) = Cardinality(Entries(T \ {p}, f, n)) + 0
    BY <1>4, <2>1
  <2> QED
    BY <1>4, <1>5, <2>2
<1>6. CASE p \in T
  <2> DEFINE R == {x \in {p} \X Fd : f[p][x[2]].node = n}
  <2>1. R \subseteq Proc \X Fd
    OBVIOUS
  <2>2. IsFiniteSet(R) /\ Cardinality(R) \in Nat
    BY <1>2, <2>1
  <2>3. Cardinality(R) = Cardinality(Row(f[p], Fd, n))
    <3> DEFINE b == [i \in Row(f[p], Fd, n) |-> <<p, i>>]
    <3>1. b \in Bijection(Row(f[p], Fd, n), R)
      <4>1. b \in [Row(f[p], Fd, n) -> R]
        BY DEF Row
      <4>2. \A i, j \in Row(f[p], Fd, n) : b[i] = b[j] => i = j
        OBVIOUS
      <4>3. \A x \in R : \E i \in Row(f[p], Fd, n) : b[i] = x
        <5> SUFFICES ASSUME NEW x \in R PROVE \E i \in Row(f[p], Fd, n) : b[i] = x
          OBVIOUS
        <5>1. PICK i \in Fd : x = <<p, i>>
          OBVIOUS
        <5>2. i \in Row(f[p], Fd, n)
          BY <5>1 DEF Row
        <5> QED
          BY <5>1, <5>2
      <4> QED
        BY <4>1, <4>2, <4>3 DEF Bijection, Injection, Surjection, IsInjective
    <3>2. IsFiniteSet(Row(f[p], Fd, n))
      BY FdFinite, FS_Subset DEF Row
    <3> QED
      BY <3>1, <3>2, FS_Bijection DEF ExistsBijection
  <2>4. Entries(T, f, n) = Entries(T \ {p}, f, n) \cup R
    <3>1. ASSUME NEW x \in T \X Fd
          PROVE  x \in Entries(T, f, n) <=> x \in Entries(T \ {p}, f, n) \/ x \in R
      <4>1. PICK q \in T, i \in Fd : x = <<q, i>>
        OBVIOUS
      <4>2. x[1] = q /\ x[2] = i
        BY <4>1
      <4>3. CASE q = p
        BY <4>1, <4>2, <4>3 DEF Entries
      <4>4. CASE q # p
        BY <4>1, <4>2, <4>4 DEF Entries
      <4> QED
        BY <4>3, <4>4
    <3>2. Entries(T, f, n) \subseteq T \X Fd /\ Entries(T \ {p}, f, n) \subseteq T \X Fd /\ R \subseteq T \X Fd
      BY <1>6 DEF Entries
    <3> HIDE DEF R
    <3> QED
      BY <3>1, <3>2
  <2>5. Entries(T \ {p}, f, n) \cap R = {}
    <3> SUFFICES ASSUME NEW x \in R, x \in Entries(T \ {p}, f, n) PROVE FALSE
      OBVIOUS
    <3>1. x[1] = p /\ x \in (T \ {p}) \X Fd
      BY DEF Entries
    <3> QED
      BY <3>1
  <2> HIDE DEF R
  <2>6. Cardinality(Entries(T, f, n)) = Cardinality(Entries(T \ {p}, f, n)) + Cardinality(R)
    BY <1>4, <2>2, <2>4, <2>5, DisjointUnion
  <2> QED
    BY <1>4, <1>6, <2>3, <2>6
<1> QED
  BY <1>4, <1>5, <1>6

(* Counting the processes in a state before and after a step of p.         *)
LEMMA ProcChange ==
    ASSUME FilesAssumption, NEW S \in SUBSET Proc, NEW U \in SUBSET Proc, NEW p \in Proc,
           U \ {p} = S \ {p}
    PROVE  /\ Cardinality(S) \in Nat /\ Cardinality(U) \in Nat
           /\ Cardinality(U) = Cardinality(S) - (IF p \in S THEN 1 ELSE 0) + (IF p \in U THEN 1 ELSE 0)
<1>1. IsFiniteSet(S) /\ IsFiniteSet(U)
  BY FS_Subset DEF FilesAssumption
<1>2. Cardinality(S) \in Nat /\ Cardinality(U) \in Nat
  BY <1>1, FS_CardinalityType
<1>3. Cardinality(S \ {p}) = IF p \in S THEN Cardinality(S) - 1 ELSE Cardinality(S)
  BY <1>1, FS_RemoveElement
<1>4. Cardinality(U \ {p}) = IF p \in U THEN Cardinality(U) - 1 ELSE Cardinality(U)
  BY <1>1, FS_RemoveElement
<1>5. Cardinality(S \ {p}) = Cardinality(U \ {p})
  OBVIOUS
<1> QED
  BY <1>2, <1>3, <1>4, <1>5

(* A step of p touches the table and the call of p only.                   *)
Alone(p) == \A q \in Proc \ {p} :
    /\ q \in tabs' <=> q \in tabs
    /\ q \in mm' <=> q \in mm
    /\ fd'[q] = fd[q] /\ pwd'[q] = pwd[q] /\ st'[q] = st[q] /\ call'[q] = call[q]

(* The counts stay exact if they change by the share of p.                 *)
LEMMA CountsStep ==
    ASSUME FilesAssumption, TypeOK, TypeOK', CountsExact, NEW p \in Proc, Alone(p),
           \A n \in Node :
             /\ opn'[n] = opn[n] + (Has(p, n)' - Has(p, n)) + (Truncs(p, n)' - Truncs(p, n))
             /\ ref'[n] = ref[n] + (Has(p, n)' - Has(p, n)) + (Truncs(p, n)' - Truncs(p, n))
                            + (Stands(p, n)' - Stands(p, n)) + (Looks(p, n)' - Looks(p, n))
                            + (lost'[n] - lost[n])
    PROVE  CountsExact'
<1> SUFFICES ASSUME NEW n \in Node
             PROVE  /\ opn'[n] = Cardinality(OpenEntries(n)') + Cardinality(InCall("trunc", n)')
                    /\ ref'[n] = Mounted(n) + Cardinality(OpenEntries(n)') + lost'[n]
                                  + Cardinality({q \in tabs' : pwd'[q] = n})
                                  + Cardinality(InCall("trunc", n)') + Cardinality(InCall("lookup", n)')
  BY DEF CountsExact
<1> DEFINE E == Cardinality(Entries(tabs \ {p}, fd, n))
           D == {q \in tabs : pwd[q] = n}
           E1 == {q \in tabs' : pwd'[q] = n}
           C == InCall("trunc", n)
           L == InCall("lookup", n)
<1>1. Entries(tabs' \ {p}, fd', n) = Entries(tabs \ {p}, fd, n)
  <2>1. tabs' \ {p} = tabs \ {p}
    BY DEF Alone, TypeOK
  <2>2. \A x \in (tabs \ {p}) \X Fd : fd'[x[1]] = fd[x[1]]
    BY DEF Alone, TypeOK
  <2> QED
    BY <2>1, <2>2 DEF Entries
<1>2. {q \in tabs' : pwd'[q] = n} \ {p} = {q \in tabs : pwd[q] = n} \ {p}
  BY DEF Alone, TypeOK
<1>3. /\ InCall("trunc", n)' \ {p} = InCall("trunc", n) \ {p}
      /\ InCall("lookup", n)' \ {p} = InCall("lookup", n) \ {p}
  BY DEF Alone, InCall
<1>4. E \in Nat /\ Cardinality(OpenEntries(n)) = E + Has(p, n)
  <2>1. OpenEntries(n) = Entries(tabs, fd, n)
    BY DEF OpenEntries, Entries
  <2>2. Has(p, n) = IF p \in tabs THEN Cardinality(Row(fd[p], Fd, n)) ELSE 0
    BY DEF Has, On, Row
  <2>3. tabs \in SUBSET Proc
    BY DEF TypeOK
  <2> QED
    BY <2>1, <2>2, <2>3, EntriesSplit
<1>5. Cardinality(OpenEntries(n)') = E + Has(p, n)'
  <2>1. OpenEntries(n)' = Entries(tabs', fd', n)
    BY DEF OpenEntries, Entries
  <2>2. Has(p, n)' = IF p \in tabs' THEN Cardinality(Row(fd'[p], Fd, n)) ELSE 0
    BY DEF Has, On, Row
  <2>3. tabs' \in SUBSET Proc
    BY DEF TypeOK
  <2> QED
    BY <1>1, <2>1, <2>2, <2>3, EntriesSplit
<1>6. D \in SUBSET Proc /\ E1 \in SUBSET Proc /\ E1 \ {p} = D \ {p}
  BY <1>2 DEF TypeOK
<1>7. Stands(p, n) = (IF p \in D THEN 1 ELSE 0) /\ Stands(p, n)' = (IF p \in E1 THEN 1 ELSE 0)
  BY DEF Stands, One
<1>8. /\ C \in SUBSET Proc /\ C' \in SUBSET Proc /\ L \in SUBSET Proc /\ L' \in SUBSET Proc
      /\ C' \ {p} = C \ {p} /\ L' \ {p} = L \ {p}
  BY <1>3 DEF InCall
<1>9. /\ Truncs(p, n) = (IF p \in C THEN 1 ELSE 0) /\ Truncs(p, n)' = (IF p \in C' THEN 1 ELSE 0)
      /\ Looks(p, n) = (IF p \in L THEN 1 ELSE 0) /\ Looks(p, n)' = (IF p \in L' THEN 1 ELSE 0)
  BY DEF Truncs, Looks, InCall, One
<1>10. /\ Cardinality(D) \in Nat /\ Cardinality(E1) = Cardinality(D) - Stands(p, n) + Stands(p, n)'
  <2> HIDE DEF D, E1
  <2> QED
    BY <1>6, <1>7, ProcChange
<1>11. /\ Cardinality(C) \in Nat /\ Cardinality(C') = Cardinality(C) - Truncs(p, n) + Truncs(p, n)'
       /\ Cardinality(L) \in Nat /\ Cardinality(L') = Cardinality(L) - Looks(p, n) + Looks(p, n)'
  BY <1>8, <1>9, ProcChange
<1>12. /\ Stands(p, n) \in 0 .. 1 /\ Stands(p, n)' \in 0 .. 1 /\ Truncs(p, n) \in 0 .. 1
       /\ Truncs(p, n)' \in 0 .. 1 /\ Looks(p, n) \in 0 .. 1 /\ Looks(p, n)' \in 0 .. 1
       /\ Mounted(n) \in 0 .. 2
  BY DEF Stands, Truncs, Looks, Mounted, One
<1>13. Has(p, n) \in Nat /\ Has(p, n)' \in Nat
  <2>1. \A g : Cardinality(Row(g, Fd, n)) \in Nat
    BY FdFinite, FS_Subset, FS_CardinalityType DEF Row
  <2> QED
    BY <2>1 DEF Has, On, Row
<1>14. ref[n] \in Int /\ opn[n] \in Int /\ lost[n] \in Int /\ lost'[n] \in Int
  BY DEF TypeOK
<1>15. /\ opn[n] = Cardinality(OpenEntries(n)) + Cardinality(InCall("trunc", n))
       /\ ref[n] = Mounted(n) + Cardinality(OpenEntries(n)) + lost[n]
                     + Cardinality({q \in tabs : pwd[q] = n})
                     + Cardinality(InCall("trunc", n)) + Cardinality(InCall("lookup", n))
  BY DEF CountsExact
<1>16. /\ opn'[n] = opn[n] + (Has(p, n)' - Has(p, n)) + (Truncs(p, n)' - Truncs(p, n))
       /\ ref'[n] = ref[n] + (Has(p, n)' - Has(p, n)) + (Truncs(p, n)' - Truncs(p, n))
                      + (Stands(p, n)' - Stands(p, n)) + (Looks(p, n)' - Looks(p, n))
                      + (lost'[n] - lost[n])
  OBVIOUS
<1> HIDE DEF E
<1> QED
  BY <1>4, <1>5, <1>10, <1>11, <1>12, <1>13, <1>14, <1>15, <1>16

(* What the invariant says of the table and the call of p.                 *)
Legal(p) ==
    /\ p \in mm => p \in tabs
    /\ st[p] = "none" => p \notin tabs
    /\ st[p] \notin {"none", "zombie"} => p \in tabs
    /\ p \in tabs => pwd[p] # NoNode
    /\ st[p] \in {"trunc", "load"} => call[p].name \in Node
    /\ \A i \in Fd :
         /\ (fd[p][i].status = "INIT") <=> (st[p] \in {"lookup", "trunc"} /\ call[p].fd = i)
         /\ fd[p][i].status = "OPENED" <=> fd[p][i].node # NoNode
         /\ fd[p][i].cnt = One(fd[p][i].status = "OPENED") + One(st[p] = "io" /\ call[p].fd = i)
         /\ fd[p][i].status # "NONE" => p \in tabs

(* How much the counts of n may change in a step of p.                     *)
Settles(p, n) ==
    /\ opn'[n] = opn[n] + (Has(p, n)' - Has(p, n)) + (Truncs(p, n)' - Truncs(p, n))
    /\ ref'[n] = ref[n] + (Has(p, n)' - Has(p, n)) + (Truncs(p, n)' - Truncs(p, n))
                   + (Stands(p, n)' - Stands(p, n)) + (Looks(p, n)' - Looks(p, n))
                   + (lost'[n] - lost[n])

(* The invariant is Legal for each process, and the counts.                *)
LEMMA LegalAll == Owners /\ Found /\ EntriesLegal <=> \A p \in Proc : Legal(p)
  BY DEF Owners, Found, EntriesLegal, Legal

(* A step of p keeps the invariant if p stays legal and the counts settle. *)
LEMMA RowStep ==
    ASSUME FilesAssumption, FilesIInv, TypeOK', NEW p \in Proc, Alone(p), Legal(p)',
           \A n \in Node : Settles(p, n)
    PROVE  FilesIInv'
<1>1. CountsExact'
  BY CountsStep DEF FilesIInv, Settles
<1>2. ASSUME NEW q \in Proc PROVE Legal(q)'
  <2>1. Legal(q)
    BY LegalAll DEF FilesIInv
  <2>2. CASE q # p
    BY <2>1, <2>2 DEF Alone, Legal
  <2> QED
    BY <2>2
<1>3. (Owners /\ Found /\ EntriesLegal)'
  BY <1>2 DEF Owners, Found, EntriesLegal, Legal
<1> QED
  BY <1>1, <1>3 DEF FilesIInv

---------------------------------------------------------------------------
(* A free entry is a well-formed one.                                      *)
LEMMA ClosedEntry == Closed \in Entry /\ Closed.node = NoNode /\ Closed.status = "NONE" /\ Closed.cnt = 0
  BY DEF Closed, Entry

(* Counting the entries of a row gives a number.                           *)
LEMMA OnNat == ASSUME FilesAssumption, NEW p, NEW is \in SUBSET Fd, NEW n PROVE On(p, is, n) \in Nat
<1>1. On(p, is, n) = Cardinality(Row(fd[p], is, n))
  BY DEF On, Row
<1>2. Cardinality(Row(fd[p], is, n)) \in Nat
  BY RowSplit
<1> QED
  BY <1>1, <1>2

(* What closing entries does: the table loses them and the counts of their *)
(* inodes go down with them.                                               *)
Closes(p, is, r) ==
    /\ fd' \in [Proc -> [Fd -> Entry]]
    /\ \A q \in Proc \ {p} : fd'[q] = fd[q]
    /\ \A i \in Fd : fd'[p][i] = IF i \in is THEN Closed ELSE fd[p][i]
    /\ opn' \in [Node -> Int] /\ ref' \in [Node -> Int]
    /\ \A n \in Node : /\ On(p, is, n) \in Nat /\ On(p, Fd, n) \in Nat
                       /\ opn'[n] = opn[n] - On(p, is, n)
                       /\ ref'[n] = r[n] - On(p, is, n)
                       /\ On(p, Fd, n)' = On(p, Fd, n) - On(p, is, n)

(* That is what CloseFds does.                                             *)
LEMMA CloseEffect ==
    ASSUME FilesAssumption, TypeOK, NEW p \in Proc, NEW is \in SUBSET Fd, NEW r \in [Node -> Int],
           CloseFds(p, is, r)
    PROVE  Closes(p, is, r)
<1>1. fd' = [fd EXCEPT ![p] = [i \in Fd |-> IF i \in is THEN Closed ELSE fd[p][i]]]
  BY DEF CloseFds, TypeOK
<1>2. /\ fd' \in [Proc -> [Fd -> Entry]]
      /\ \A q \in Proc \ {p} : fd'[q] = fd[q]
      /\ \A i \in Fd : fd'[p][i] = IF i \in is THEN Closed ELSE fd[p][i]
  BY <1>1, ClosedEntry DEF TypeOK
<1>3. \A n \in Node : On(p, is, n) \in Nat /\ On(p, Fd, n) \in Nat
  BY OnNat
<1>4. /\ opn' \in [Node -> Int] /\ ref' \in [Node -> Int]
      /\ \A n \in Node : opn'[n] = opn[n] - On(p, is, n) /\ ref'[n] = r[n] - On(p, is, n)
  BY <1>3 DEF CloseFds, TypeOK
<1>5. ASSUME NEW n \in Node PROVE On(p, Fd, n)' = On(p, Fd, n) - On(p, is, n)
  <2>1. \A i \in Fd \ is : fd'[p][i].node = fd[p][i].node
    BY <1>2
  <2>2. \A i \in is : fd'[p][i].node # n
    BY <1>2, ClosedEntry DEF FilesAssumption
  <2>3. Cardinality(Row(fd'[p], is, n)) = 0
    BY <2>2, RowEmpty
  <2>4. Cardinality(Row(fd'[p], Fd, n))
          = Cardinality(Row(fd[p], Fd, n)) - Cardinality(Row(fd[p], is, n)) + Cardinality(Row(fd'[p], is, n))
    BY <2>1, RowChange
  <2>5. /\ On(p, Fd, n)' = Cardinality(Row(fd'[p], Fd, n))
        /\ On(p, Fd, n) = Cardinality(Row(fd[p], Fd, n)) /\ On(p, is, n) = Cardinality(Row(fd[p], is, n))
    BY DEF On, Row
  <2> QED
    BY <1>3, <2>3, <2>4, <2>5
<1> QED
  BY <1>2, <1>3, <1>4, <1>5 DEF Closes

(* r: the references once the lookup of p is over, with those it lost.     *)
AfterLookup(p, r) ==
    /\ r \in [Node -> Int] /\ lost' \in [Node -> Int]
    /\ \A n \in Node : r[n] = ref[n] - Looks(p, n) + (lost'[n] - lost[n])

(* p goes back to user mode.                                               *)
Returns(p) ==
    /\ st' = [st EXCEPT ![p] = "user"]
    /\ call' = [call EXCEPT ![p] = NoCall] \/ call' = call
    /\ mm' \in {mm, mm \cup {p}, mm \ {p}} /\ UNCHANGED <<tabs, pwd>>

(* close, an open that fails and a load that is done: entry i of p is      *)
(* closed, with the reference of the lookup if there was one, and p goes   *)
(* back to user mode.                                                      *)
LEMMA CloseStep ==
    ASSUME FilesAssumption, FilesIInv, NEW p \in Proc, NEW i \in Fd, NEW r,
           st[p] = "user" \/ (st[p] \in {"lookup", "load"} /\ i = call[p].fd),
           AfterLookup(p, r), CloseFds(p, {i}, r), Returns(p)
    PROVE  FilesIInv'
<1> USE DEF AfterLookup, Returns
<1>1. TypeOK /\ Legal(p) /\ p \in tabs
  BY LegalAll DEF FilesIInv, Legal
<1>2. Closes(p, {i}, r)
  BY <1>1, CloseEffect, {i} \in SUBSET Fd
<1>3. NoCall \in Call
  BY FdFinite DEF NoCall, Call
<1>4. TypeOK'
  BY <1>1, <1>2, <1>3 DEF TypeOK, Closes
<1>5. Alone(p)
  BY <1>1, <1>2 DEF Alone, TypeOK, Closes
<1>6. st'[p] = "user"
  BY <1>1 DEF TypeOK
<1>7. Legal(p)'
  <2>1. ASSUME NEW j \in Fd
        PROVE  /\ fd'[p][j].status # "INIT"
               /\ fd'[p][j].status = "OPENED" <=> fd'[p][j].node # NoNode
               /\ fd'[p][j].cnt = One(fd'[p][j].status = "OPENED")
    <3>1. CASE j = i
      BY <1>2, <3>1, ClosedEntry DEF Closes, One
    <3>2. CASE j # i
      BY <1>1, <1>2, <3>2 DEF Closes, Legal, One
    <3> QED
      BY <3>1, <3>2
  <2> QED
    BY <1>1, <1>6, <2>1 DEF Legal, One
<1>8. ASSUME NEW n \in Node PROVE Settles(p, n)
  <2>1. Has(p, n) = On(p, Fd, n) /\ Has(p, n)' = On(p, Fd, n)'
    BY <1>1 DEF Has
  <2>2. Truncs(p, n) = 0 /\ Truncs(p, n)' = 0 /\ Looks(p, n)' = 0
    BY <1>6 DEF Truncs, Looks, One
  <2>3. Stands(p, n)' = Stands(p, n) /\ Stands(p, n) \in 0 .. 1 /\ Looks(p, n) \in 0 .. 1
    BY DEF Stands, Looks, One
  <2>4. ref[n] \in Int /\ opn[n] \in Int /\ lost[n] \in Int /\ lost'[n] \in Int
    BY <1>1 DEF TypeOK
  <2>5. /\ On(p, {i}, n) \in Nat /\ On(p, Fd, n) \in Nat
        /\ opn'[n] = opn[n] - On(p, {i}, n) /\ ref'[n] = r[n] - On(p, {i}, n)
        /\ On(p, Fd, n)' = On(p, Fd, n) - On(p, {i}, n)
    BY <1>2 DEF Closes
  <2> QED
    BY <2>1, <2>2, <2>3, <2>4, <2>5 DEF Settles
<1> QED
  BY <1>4, <1>5, <1>7, <1>8, RowStep

(* do_exit: with an mm the whole table goes, without one the table stays   *)
(* as it is, for ever, and so do its shares of the counts.                 *)
LEMMA ExitStep ==
    ASSUME FilesAssumption, FilesIInv, NEW p \in Proc, NEW hasMm \in BOOLEAN, NEW r,
           st[p] \in {"user", "lookup", "load"}, AfterLookup(p, r), DoExit(p, hasMm, r)
    PROVE  FilesIInv'
<1> USE DEF AfterLookup
<1>1. TypeOK /\ Legal(p) /\ p \in tabs
  BY LegalAll DEF FilesIInv, Legal
<1>2. /\ st' = [st EXCEPT ![p] = "zombie"] /\ mm' = mm \ {p} /\ call' = [call EXCEPT ![p] = NoCall]
  BY DEF DoExit
<1>3. NoCall \in Call
  BY FdFinite DEF NoCall, Call
<1>4. st'[p] = "zombie" /\ p \notin mm'
  BY <1>1, <1>2 DEF TypeOK
<1>5. call[p].fd \in Fd
  BY <1>1 DEF TypeOK, Call
<1>6. ASSUME NEW n \in Node
      PROVE  /\ Truncs(p, n) = 0 /\ Truncs(p, n)' = 0 /\ Looks(p, n)' = 0
             /\ Has(p, n) = On(p, Fd, n) /\ Looks(p, n) \in 0 .. 1 /\ Stands(p, n) = One(pwd[p] = n)
             /\ ref[n] \in Int /\ opn[n] \in Int /\ lost[n] \in Int /\ lost'[n] \in Int
  BY <1>1, <1>4 DEF Truncs, Looks, Has, Stands, One, TypeOK
<1>7. CASE hasMm
  <2> DEFINE is == Opened(p) \cup {call[p].fd}
             r1 == [r EXCEPT ![pwd[p]] = @ - 1]
  <2>0. pwd[p] \in Node
    BY <1>1 DEF TypeOK, Legal, Node
  <2>1. is \in SUBSET Fd /\ r1 \in [Node -> Int]
    BY <1>5, <2>0 DEF Opened
  <2>2. CloseFds(p, is, r1) /\ tabs' = tabs \ {p} /\ pwd' = [pwd EXCEPT ![p] = NoNode]
    BY <1>7 DEF DoExit
  <2>3. Closes(p, is, r1)
    <3> HIDE DEF is, r1
    <3> QED
      BY <1>1, <2>1, <2>2, CloseEffect
  <2>4. TypeOK'
    BY <1>1, <1>2, <1>3, <2>2, <2>3 DEF TypeOK, Closes
  <2>5. Alone(p)
    BY <1>1, <1>2, <2>2, <2>3 DEF Alone, TypeOK, Closes
  <2>6. \A j \in Fd : fd'[p][j].status = "NONE" /\ fd'[p][j].node = NoNode /\ fd'[p][j].cnt = 0
    <3> SUFFICES ASSUME NEW j \in Fd
                 PROVE  fd'[p][j].status = "NONE" /\ fd'[p][j].node = NoNode /\ fd'[p][j].cnt = 0
      OBVIOUS
    <3>1. CASE j \in is
      BY <2>3, <3>1, ClosedEntry DEF Closes
    <3>2. CASE j \notin is
      <4>1. fd[p][j] \in Entry
        BY <1>1 DEF TypeOK
      <4>2. fd[p][j].status = "NONE"
        BY <1>1, <3>2, <4>1 DEF Legal, Opened, Entry
      <4> QED
        BY <1>1, <2>3, <3>2, <4>2 DEF Legal, One, Closes
    <3> QED
      BY <3>1, <3>2
  <2>7. p \notin tabs'
    BY <2>2
  <2>8. Legal(p)'
    BY <1>4, <2>6, <2>7 DEF Legal, One
  <2>9. ASSUME NEW n \in Node PROVE Settles(p, n)
    <3>1. On(p, is, n) = On(p, Fd, n)
      <4>1. \A j \in Fd : fd'[p][j].node # n
        BY <2>6 DEF FilesAssumption
      <4>2. On(p, Fd, n)' = Cardinality(Row(fd'[p], Fd, n))
        BY DEF On, Row
      <4>3. On(p, Fd, n)' = 0
        BY <4>1, <4>2, RowEmpty
      <4> HIDE DEF is, r1
      <4>4. /\ On(p, is, n) \in Nat /\ On(p, Fd, n) \in Nat
            /\ On(p, Fd, n)' = On(p, Fd, n) - On(p, is, n)
        BY <2>3 DEF Closes
      <4> QED
        BY <4>3, <4>4
    <3>2. Has(p, n)' = 0 /\ Stands(p, n)' = 0
      BY <2>7 DEF Has, Stands, One
    <3>3. r1[n] = r[n] - Stands(p, n)
      BY <1>6, <2>0 DEF One
    <3> HIDE DEF is, r1
    <3>4. Stands(p, n) \in 0 .. 1
      BY DEF Stands, One
    <3>5. /\ On(p, is, n) \in Nat
          /\ opn'[n] = opn[n] - On(p, is, n) /\ ref'[n] = r1[n] - On(p, is, n)
      BY <2>3 DEF Closes
    <3>6. /\ Truncs(p, n) = 0 /\ Truncs(p, n)' = 0 /\ Looks(p, n)' = 0
          /\ Has(p, n) = On(p, Fd, n) /\ Looks(p, n) \in 0 .. 1
          /\ ref[n] \in Int /\ opn[n] \in Int /\ lost[n] \in Int /\ lost'[n] \in Int
      BY <1>6
    <3>7. r[n] = ref[n] - Looks(p, n) + (lost'[n] - lost[n])
      OBVIOUS
    <3> QED
      BY <3>1, <3>2, <3>3, <3>4, <3>5, <3>6, <3>7 DEF Settles
  <2> QED
    BY <2>4, <2>5, <2>8, <2>9, RowStep
<1>8. CASE ~hasMm
  <2> DEFINE i == call[p].fd
  <2>1. CloseFds(p, {i}, r) /\ tabs' = tabs /\ pwd' = pwd
    BY <1>8 DEF DoExit
  <2>2. Closes(p, {i}, r)
    BY <1>1, <1>5, <2>1, CloseEffect, {i} \in SUBSET Fd
  <2>3. TypeOK'
    BY <1>1, <1>2, <1>3, <2>1, <2>2 DEF TypeOK, Closes
  <2>4. Alone(p)
    BY <1>1, <1>2, <2>1, <2>2 DEF Alone, TypeOK, Closes
  <2>5. Legal(p)'
    BY <1>1, <1>4, <2>1, <2>2, ClosedEntry DEF Legal, One, Closes
  <2>6. ASSUME NEW n \in Node PROVE Settles(p, n)
    <3>1. Has(p, n)' = On(p, Fd, n)' /\ Stands(p, n)' = Stands(p, n) /\ Stands(p, n) \in 0 .. 1
      BY <1>1, <2>1 DEF Has, Stands, One
    <3>2. /\ On(p, {i}, n) \in Nat /\ On(p, Fd, n) \in Nat
          /\ opn'[n] = opn[n] - On(p, {i}, n) /\ ref'[n] = r[n] - On(p, {i}, n)
          /\ On(p, Fd, n)' = On(p, Fd, n) - On(p, {i}, n)
      BY <2>2 DEF Closes
    <3>3. /\ Truncs(p, n) = 0 /\ Truncs(p, n)' = 0 /\ Looks(p, n)' = 0
          /\ Has(p, n) = On(p, Fd, n) /\ Looks(p, n) \in 0 .. 1
          /\ ref[n] \in Int /\ opn[n] \in Int /\ lost[n] \in Int /\ lost'[n] \in Int
      BY <1>6
    <3>4. r[n] = ref[n] - Looks(p, n) + (lost'[n] - lost[n])
      OBVIOUS
    <3> QED
      BY <3>1, <3>2, <3>3, <3>4 DEF Settles
  <2> QED
    BY <2>3, <2>4, <2>5, <2>6, RowStep
<1> QED
  BY <1>7, <1>8

---------------------------------------------------------------------------
(* The steps, one lemma for each operation.                                *)

(* A panic changes nothing the invariant is about.                         *)
LEMMA PanicStep == ASSUME FilesIInv, NEW why, Panic(why) PROVE FilesIInv'
<1>1. UNCHANGED <<st, mm, tabs, pwd, fd, call, ref, opn, lost>>
  BY DEF Panic
<1>2. TypeOK' /\ Owners' /\ Found' /\ EntriesLegal'
  BY <1>1 DEF FilesIInv, TypeOK, Owners, Found, EntriesLegal
<1>3. \A n : OpenEntries(n)' = OpenEntries(n) /\ \A s : InCall(s, n)' = InCall(s, n)
  BY <1>1 DEF OpenEntries, InCall
<1>4. CountsExact'
  BY <1>1, <1>3 DEF FilesIInv, CountsExact
<1> QED
  BY <1>2, <1>4 DEF FilesIInv

(* A process in user mode is legal, and is in no call.                     *)
LEMMA UserFacts ==
    ASSUME FilesIInv, NEW p \in Proc, st[p] = "user"
    PROVE  /\ TypeOK /\ Legal(p) /\ p \in tabs
           /\ \A n \in Node : Truncs(p, n) = 0 /\ Looks(p, n) = 0 /\ Has(p, n) = On(p, Fd, n)
           /\ \A i \in Fd : fd[p][i].status = "OPENED" => fd[p][i].cnt = 1 /\ fd[p][i].node \in Node
<1>1. TypeOK /\ Legal(p) /\ p \in tabs
  BY LegalAll DEF FilesIInv, Legal
<1>2. \A n \in Node : Truncs(p, n) = 0 /\ Looks(p, n) = 0 /\ Has(p, n) = On(p, Fd, n)
  BY <1>1 DEF Truncs, Looks, One, Has
<1>3. ASSUME NEW i \in Fd, fd[p][i].status = "OPENED" PROVE fd[p][i].cnt = 1 /\ fd[p][i].node \in Node
  <2>1. fd[p][i] \in Entry
    BY <1>1 DEF TypeOK
  <2> QED
    BY <1>1, <1>3, <2>1 DEF Legal, One, Entry
<1> QED
  BY <1>1, <1>2, <1>3

(* sys_exit.                                                               *)
LEMMA SysExitStep == ASSUME FilesAssumption, FilesIInv, NEW p \in Proc, SysExit(p) PROVE FilesIInv'
<1>1. st[p] = "user" /\ DoExit(p, TRUE, ref) /\ lost' = lost
  BY DEF SysExit, User
<1>2. TypeOK /\ \A n \in Node : Looks(p, n) = 0
  BY <1>1, UserFacts
<1>3. PICK r : r = ref
  OBVIOUS
<1>4. PICK hasMm \in BOOLEAN : hasMm
  OBVIOUS
<1>5. AfterLookup(p, r)
  BY <1>1, <1>2, <1>3 DEF TypeOK, AfterLookup
<1>6. DoExit(p, hasMm, r)
  BY <1>1, <1>3, <1>4 DEF DoExit, CloseFds
<1> QED
  BY <1>1, <1>5, <1>6, ExitStep

(* sys_close.                                                              *)
LEMMA SysCloseStep ==
    ASSUME FilesAssumption, FilesIInv, NEW p \in Proc, NEW i \in Fd, SysClose(p, i) PROVE FilesIInv'
<1>1. st[p] = "user" /\ CloseFds(p, {i}, ref) /\ UNCHANGED <<st, mm, tabs, pwd, call, lost>>
  BY DEF SysClose, User
<1>2. TypeOK /\ \A n \in Node : Looks(p, n) = 0
  BY <1>1, UserFacts
<1>3. PICK r : r = ref
  OBVIOUS
<1>4. AfterLookup(p, r) /\ Returns(p)
  BY <1>1, <1>2, <1>3 DEF TypeOK, AfterLookup, Returns
<1>5. CloseFds(p, {i}, r)
  BY <1>1, <1>3 DEF CloseFds
<1> QED
  BY <1>1, <1>4, <1>5, CloseStep

(* sys_fork: the child's table has the open entries of its parent and its  *)
(* working directory.                                                      *)
LEMMA SysForkStep ==
    ASSUME FilesAssumption, FilesIInv, NEW p \in Proc, NEW c \in Proc, SysFork(p, c) PROVE FilesIInv'
<1> DEFINE row == [i \in Fd |-> IF i \in Opened(p) THEN fd[p][i] ELSE Closed]
<1>1. /\ st[p] = "user" /\ st[c] = "none" /\ UNCHANGED <<call, lost>>
      /\ st' = [st EXCEPT ![c] = "user"] /\ mm' = mm \cup {c} /\ tabs' = tabs \cup {c}
      /\ pwd' = [pwd EXCEPT ![c] = pwd[p]] /\ fd' = [fd EXCEPT ![c] = row]
      /\ opn' = [n \in Node |-> opn[n] + On(p, Opened(p), n)]
      /\ ref' = [n \in Node |-> ref[n] + On(p, Opened(p), n) + One(n = pwd[p])]
  BY DEF SysFork, User
<1>2. /\ TypeOK /\ Legal(p) /\ p \in tabs
      /\ \A i \in Fd : fd[p][i].status = "OPENED" => fd[p][i].cnt = 1 /\ fd[p][i].node \in Node
  BY <1>1, UserFacts
<1>3. Legal(c) /\ c \notin tabs /\ c # p
  BY <1>1, LegalAll DEF FilesIInv, Legal
<1>4. Opened(p) \in SUBSET Fd /\ \A n \in Node : On(p, Opened(p), n) \in Nat
  BY OnNat DEF Opened
<1>5. /\ fd' \in [Proc -> [Fd -> Entry]] /\ fd'[c] = row
      /\ \A q \in Proc \ {c} : fd'[q] = fd[q]
  BY <1>1, <1>2, ClosedEntry DEF TypeOK
<1>6. pwd[p] \in Dir /\ pwd'[c] = pwd[p] /\ st'[c] = "user" /\ c \in tabs' /\ pwd[p] # NoNode
  BY <1>1, <1>2 DEF TypeOK, Legal
<1>7. TypeOK'
  BY <1>1, <1>2, <1>4, <1>5, <1>6 DEF TypeOK, One
<1>8. Alone(c)
  BY <1>1, <1>2, <1>5 DEF Alone, TypeOK
<1>9. Legal(c)'
  <2>1. ASSUME NEW i \in Fd
        PROVE  /\ fd'[c][i].status # "INIT"
               /\ fd'[c][i].status = "OPENED" <=> fd'[c][i].node # NoNode
               /\ fd'[c][i].cnt = One(fd'[c][i].status = "OPENED")
    <3>1. CASE i \in Opened(p)
      BY <1>2, <1>5, <3>1 DEF Opened, Legal, One
    <3>2. CASE i \notin Opened(p)
      BY <1>5, <3>2, ClosedEntry DEF One
    <3> QED
      BY <3>1, <3>2
  <2> QED
    BY <1>6, <2>1 DEF Legal, One
<1>10. ASSUME NEW n \in Node PROVE Settles(c, n)
  <2>1. Has(c, n)' = On(p, Opened(p), n)
    <3>1. Row(row, Fd, n) = Row(fd[p], Opened(p), n)
      BY <1>4, ClosedEntry DEF Row, FilesAssumption
    <3>2. Has(c, n)' = Cardinality(Row(row, Fd, n))
      BY <1>5, <1>6 DEF Has, On, Row
    <3> QED
      BY <3>1, <3>2 DEF On, Row
  <2>2. /\ Has(c, n) = 0 /\ Stands(c, n) = 0 /\ Stands(c, n)' = One(n = pwd[p])
        /\ Truncs(c, n) = 0 /\ Truncs(c, n)' = 0 /\ Looks(c, n) = 0 /\ Looks(c, n)' = 0
    BY <1>1, <1>3, <1>6 DEF Has, Stands, Truncs, Looks, One
  <2>3. /\ opn'[n] = opn[n] + On(p, Opened(p), n) /\ On(p, Opened(p), n) \in Nat
        /\ ref'[n] = ref[n] + On(p, Opened(p), n) + One(n = pwd[p]) /\ lost'[n] = lost[n]
    BY <1>1, <1>4
  <2>4. ref[n] \in Int /\ opn[n] \in Int /\ lost[n] \in Int /\ One(n = pwd[p]) \in 0 .. 1
    BY <1>2 DEF TypeOK, One
  <2> QED
    BY <2>1, <2>2, <2>3, <2>4 DEF Settles
<1> QED
  BY <1>7, <1>8, <1>9, <1>10, RowStep

(* A free entry of p becomes one of inode m.                               *)
LEMMA EntryAdded ==
    ASSUME FilesAssumption, NEW p \in Proc, NEW i \in Fd, NEW m \in Node, NEW n \in Node,
           fd[p][i].node = NoNode, fd'[p][i].node = m,
           \A j \in Fd \ {i} : fd'[p][j].node = fd[p][j].node
    PROVE  On(p, Fd, n) \in Nat /\ On(p, Fd, n)' = On(p, Fd, n) + One(m = n)
<1>1. Cardinality(Row(fd[p], {i}, n)) = 0
  <2>1. \A j \in {i} : fd[p][j].node # n
    BY DEF FilesAssumption
  <2> QED
    BY <2>1, RowEmpty
<1>2. Cardinality(Row(fd'[p], {i}, n)) = One(m = n)
  <2>1. CASE m = n
    <3>1. Row(fd'[p], {i}, n) = {i}
      BY <2>1 DEF Row
    <3> QED
      BY <2>1, <3>1, FS_Singleton DEF One
  <2>2. CASE m # n
    <3>1. Row(fd'[p], {i}, n) = {}
      BY <2>2 DEF Row
    <3> QED
      BY <2>2, <3>1, FS_EmptySet DEF One
  <2> QED
    BY <2>1, <2>2
<1>3. Cardinality(Row(fd'[p], Fd, n))
        = Cardinality(Row(fd[p], Fd, n)) - Cardinality(Row(fd[p], {i}, n)) + Cardinality(Row(fd'[p], {i}, n))
  BY RowChange, {i} \in SUBSET Fd
<1>4. /\ On(p, Fd, n) = Cardinality(Row(fd[p], Fd, n)) /\ On(p, Fd, n)' = Cardinality(Row(fd'[p], Fd, n))
      /\ On(p, Fd, n) \in Nat
  <2>1. On(p, Fd, n) = Cardinality(Row(fd[p], Fd, n)) /\ On(p, Fd, n)' = Cardinality(Row(fd'[p], Fd, n))
    BY DEF On, Row
  <2>2. On(p, Fd, n) \in Nat
    BY OnNat, Fd \in SUBSET Fd
  <2> QED
    BY <2>1, <2>2
<1>5. One(m = n) \in 0 .. 1
  BY DEF One
<1> QED
  BY <1>1, <1>2, <1>3, <1>4, <1>5

(* sys_dup.                                                                *)
LEMMA SysDupStep ==
    ASSUME FilesAssumption, FilesIInv, NEW p \in Proc, NEW i \in Fd, NEW j \in Fd, SysDup(p, i, j)
    PROVE  FilesIInv'
<1> DEFINE m == fd[p][i].node
<1>1. /\ st[p] = "user" /\ fd[p][i].status = "OPENED" /\ fd[p][j].status = "NONE"
      /\ fd' = [fd EXCEPT ![p][j] = fd[p][i]]
      /\ ref' = [ref EXCEPT ![m] = @ + 1] /\ opn' = [opn EXCEPT ![m] = @ + 1]
      /\ UNCHANGED <<st, mm, tabs, pwd, call, lost>>
  BY DEF SysDup, User, Opened, Free
<1>2. /\ TypeOK /\ Legal(p) /\ p \in tabs /\ m \in Node /\ fd[p][i].cnt = 1
      /\ \A n \in Node : Truncs(p, n) = 0 /\ Looks(p, n) = 0 /\ Has(p, n) = On(p, Fd, n)
  BY <1>1, UserFacts
<1>3. /\ fd' \in [Proc -> [Fd -> Entry]] /\ fd'[p][j] = fd[p][i]
      /\ \A q \in Proc \ {p} : fd'[q] = fd[q]
      /\ \A k \in Fd \ {j} : fd'[p][k] = fd[p][k]
  BY <1>1, <1>2 DEF TypeOK
<1>4. TypeOK' /\ Alone(p)
  BY <1>1, <1>2, <1>3 DEF TypeOK, Alone
<1>5. Legal(p)'
  <2>1. ASSUME NEW k \in Fd
        PROVE  /\ fd'[p][k].status # "INIT"
               /\ fd'[p][k].status = "OPENED" <=> fd'[p][k].node # NoNode
               /\ fd'[p][k].cnt = One(fd'[p][k].status = "OPENED")
    <3>1. CASE k = j
      BY <1>1, <1>2, <1>3, <3>1 DEF Legal, One
    <3>2. CASE k # j
      BY <1>1, <1>2, <1>3, <3>2 DEF Legal, One
    <3> QED
      BY <3>1, <3>2
  <2> QED
    BY <1>1, <1>2, <2>1 DEF Legal, One
<1>6. ASSUME NEW n \in Node PROVE Settles(p, n)
  <2>1. On(p, Fd, n) \in Nat /\ On(p, Fd, n)' = On(p, Fd, n) + One(m = n)
    <3>1. fd[p][j].node = NoNode
      BY <1>1, <1>2 DEF Legal
    <3> QED
      BY <1>2, <1>3, <3>1, EntryAdded
  <2>2. /\ Has(p, n)' = On(p, Fd, n)' /\ Has(p, n) = On(p, Fd, n)
        /\ Truncs(p, n) = 0 /\ Looks(p, n) = 0 /\ Truncs(p, n)' = 0 /\ Looks(p, n)' = 0
        /\ Stands(p, n)' = Stands(p, n) /\ Stands(p, n) \in 0 .. 1
    BY <1>1, <1>2 DEF Has, Truncs, Looks, Stands, One
  <2>3. /\ ref'[n] = ref[n] + One(m = n) /\ opn'[n] = opn[n] + One(m = n) /\ lost'[n] = lost[n]
        /\ ref[n] \in Int /\ opn[n] \in Int /\ lost[n] \in Int /\ One(m = n) \in 0 .. 1
    BY <1>1, <1>2 DEF TypeOK, One
  <2> HIDE DEF m
  <2> QED
    BY <2>1, <2>2, <2>3 DEF Settles
<1> QED
  BY <1>4, <1>5, <1>6, RowStep

(* sys_chdir.                                                              *)
LEMMA SysChdirStep ==
    ASSUME FilesAssumption, FilesIInv, NEW p \in Proc, NEW d \in Dir, SysChdir(p, d) PROVE FilesIInv'
<1>1. /\ st[p] = "user" /\ d # pwd[p] /\ pwd' = [pwd EXCEPT ![p] = d]
      /\ ref' = [ref EXCEPT ![d] = @ + 1, ![pwd[p]] = @ - 1]
      /\ UNCHANGED <<st, mm, tabs, fd, call, opn, lost>>
  BY DEF SysChdir, User
<1>2. TypeOK /\ Legal(p) /\ p \in tabs
  BY <1>1, UserFacts
<1>3. pwd[p] \in Node /\ d \in Node /\ pwd'[p] = d /\ d # NoNode
  BY <1>1, <1>2 DEF TypeOK, Legal, Node, FilesAssumption
<1>4. ASSUME NEW n \in Node PROVE ref'[n] = ref[n] + One(d = n) - One(pwd[p] = n)
  <2>1. ref[n] \in Int /\ ref \in [Node -> Int]
    BY <1>2 DEF TypeOK
  <2>2. CASE n = d
    BY <1>1, <1>3, <2>1, <2>2 DEF One
  <2>3. CASE n = pwd[p]
    BY <1>1, <1>3, <2>1, <2>3 DEF One
  <2>4. CASE n # d /\ n # pwd[p]
    BY <1>1, <1>3, <2>1, <2>4 DEF One
  <2> QED
    BY <2>2, <2>3, <2>4
<1>5. TypeOK' /\ Alone(p)
  BY <1>1, <1>2, <1>3 DEF TypeOK, Alone
<1>6. Legal(p)'
  BY <1>1, <1>2, <1>3 DEF Legal
<1>7. ASSUME NEW n \in Node PROVE Settles(p, n)
  <2>1. /\ Has(p, n)' = Has(p, n) /\ Truncs(p, n)' = Truncs(p, n) /\ Looks(p, n)' = Looks(p, n)
        /\ Stands(p, n) = One(pwd[p] = n) /\ Stands(p, n)' = One(d = n)
    BY <1>1, <1>2, <1>3 DEF Has, Truncs, Looks, Stands, On
  <2>2. Truncs(p, n) \in 0 .. 1 /\ Looks(p, n) \in 0 .. 1 /\ One(pwd[p] = n) \in 0 .. 1 /\ One(d = n) \in 0 .. 1
    BY DEF Truncs, Looks, One
  <2>3. Has(p, n) \in Nat
    BY OnNat DEF Has
  <2>4. ref[n] \in Int /\ opn[n] \in Int /\ lost[n] \in Int /\ lost'[n] = lost[n] /\ opn'[n] = opn[n]
    BY <1>1, <1>2 DEF TypeOK
  <2> QED
    BY <1>4, <2>1, <2>2, <2>3, <2>4 DEF Settles
<1> QED
  BY <1>5, <1>6, <1>7, RowStep

(* The shares of p when only the count of an entry changes.                *)
LEMMA SameShares ==
    ASSUME FilesAssumption, TypeOK, NEW p \in Proc, NEW n \in Node,
           \A j \in Fd : fd'[p][j].node = fd[p][j].node, UNCHANGED <<tabs, pwd, ref, opn, lost>>,
           st[p] \notin {"lookup", "trunc"}, st'[p] \notin {"lookup", "trunc"}
    PROVE  Settles(p, n)
<1>1. Has(p, n)' = Has(p, n)
  <2>1. Row(fd'[p], Fd, n) = Row(fd[p], Fd, n)
    BY DEF Row
  <2> QED
    BY <2>1 DEF Has, On, Row
<1>2. /\ Truncs(p, n) = 0 /\ Looks(p, n) = 0 /\ Truncs(p, n)' = 0 /\ Looks(p, n)' = 0
      /\ Stands(p, n)' = Stands(p, n) /\ Stands(p, n) \in 0 .. 1
  BY DEF Truncs, Looks, Stands, One
<1>3. Has(p, n) \in Nat /\ ref[n] \in Int /\ opn[n] \in Int /\ lost[n] \in Int
  BY OnNat DEF Has, TypeOK
<1> QED
  BY <1>1, <1>2, <1>3 DEF Settles

(* The start of a call on an open file: fd_array_acquire.                  *)
LEMMA IoStartStep ==
    ASSUME FilesAssumption, FilesIInv, NEW p \in Proc, NEW i \in Fd, NEW vop, IoStart(p, i, vop)
    PROVE  FilesIInv'
<1>1. CASE HasOp(fd[p][i].node, vop)
  <2>1. /\ st[p] = "user" /\ fd[p][i].status = "OPENED" /\ fd' = [fd EXCEPT ![p][i].cnt = @ + 1]
        /\ st' = [st EXCEPT ![p] = "io"] /\ call' = [call EXCEPT ![p].fd = i]
        /\ UNCHANGED <<mm, tabs, pwd, ref, opn, lost>>
    BY <1>1 DEF IoStart, User, Opened
  <2>2. TypeOK /\ Legal(p) /\ p \in tabs /\ fd[p][i].cnt = 1
    BY <2>1, UserFacts
  <2>3. fd[p][i] \in Entry /\ call[p] \in Call
    BY <2>2 DEF TypeOK
  <2>4. /\ fd' = [fd EXCEPT ![p] = [fd[p] EXCEPT ![i] = [fd[p][i] EXCEPT !.cnt = 2]]]
        /\ call' = [call EXCEPT ![p] = [call[p] EXCEPT !.fd = i]]
    BY <2>1, <2>2, <2>3 DEF TypeOK
  <2>5. /\ [fd[p][i] EXCEPT !.cnt = 2] \in Entry /\ [call[p] EXCEPT !.fd = i] \in Call
    BY <2>3 DEF Entry, Call
  <2>6. /\ fd' \in [Proc -> [Fd -> Entry]] /\ fd'[p][i] = [fd[p][i] EXCEPT !.cnt = 2]
        /\ \A q \in Proc \ {p} : fd'[q] = fd[q]
        /\ \A k \in Fd \ {i} : fd'[p][k] = fd[p][k]
    BY <2>2, <2>4, <2>5 DEF TypeOK
  <2>7. call' \in [Proc -> Call] /\ call'[p].fd = i /\ \A q \in Proc \ {p} : call'[q] = call[q]
    BY <2>2, <2>3, <2>4, <2>5 DEF TypeOK, Call
  <2>8. st' \in [Proc -> {"none", "kernel", "user", "zombie", "lookup", "trunc", "load", "io"}]
        /\ st'[p] = "io" /\ \A q \in Proc \ {p} : st'[q] = st[q]
    BY <2>1, <2>2 DEF TypeOK
  <2>9. TypeOK' /\ Alone(p)
    BY <2>1, <2>2, <2>6, <2>7, <2>8 DEF TypeOK, Alone
  <2>10. fd'[p][i].status = "OPENED" /\ fd'[p][i].cnt = 2 /\ fd'[p][i].node = fd[p][i].node
    BY <2>1, <2>3, <2>6 DEF Entry
  <2>11. Legal(p)'
    <3>1. ASSUME NEW k \in Fd
          PROVE  /\ fd'[p][k].status # "INIT"
                 /\ fd'[p][k].status = "OPENED" <=> fd'[p][k].node # NoNode
                 /\ fd'[p][k].cnt = One(fd'[p][k].status = "OPENED") + One(i = k)
      <4>1. CASE k = i
        BY <2>1, <2>2, <2>10, <4>1 DEF Legal, One
      <4>2. CASE k # i
        BY <2>1, <2>2, <2>6, <4>2 DEF Legal, One
      <4> QED
        BY <4>1, <4>2
    <3> QED
      BY <2>1, <2>2, <2>7, <2>8, <3>1 DEF Legal, One
  <2>12. \A n \in Node : Settles(p, n)
    BY <2>1, <2>2, <2>6, <2>8, <2>10, SameShares
  <2> QED
    BY <2>9, <2>11, <2>12, RowStep
<1>2. CASE ~HasOp(fd[p][i].node, vop)
  BY <1>2, PanicStep DEF IoStart
<1> QED
  BY <1>1, <1>2

(* Its end: fd_array_release.                                              *)
LEMMA IoEndStep == ASSUME FilesAssumption, FilesIInv, NEW p \in Proc, IoEnd(p) PROVE FilesIInv'
<1> DEFINE i == call[p].fd
<1>1. /\ st[p] = "io" /\ fd' = [fd EXCEPT ![p][i].cnt = @ - 1]
      /\ st' = [st EXCEPT ![p] = "user"] /\ call' = [call EXCEPT ![p] = NoCall]
      /\ UNCHANGED <<mm, tabs, pwd, ref, opn, lost>>
  BY DEF IoEnd
<1>2. TypeOK /\ Legal(p) /\ p \in tabs
  BY <1>1, LegalAll DEF FilesIInv, Legal
<1>3. i \in Fd /\ fd[p][i] \in Entry /\ NoCall \in Call
  BY <1>2, FdFinite DEF TypeOK, Call, NoCall
<1>4. fd' = [fd EXCEPT ![p] = [fd[p] EXCEPT ![i] = [fd[p][i] EXCEPT !.cnt = fd[p][i].cnt - 1]]]
  BY <1>1, <1>2, <1>3 DEF TypeOK
<1>5. [fd[p][i] EXCEPT !.cnt = fd[p][i].cnt - 1] \in Entry
  BY <1>3 DEF Entry
<1>6. /\ fd' \in [Proc -> [Fd -> Entry]] /\ fd'[p][i] = [fd[p][i] EXCEPT !.cnt = fd[p][i].cnt - 1]
      /\ \A q \in Proc \ {p} : fd'[q] = fd[q]
      /\ \A k \in Fd \ {i} : fd'[p][k] = fd[p][k]
  <2> HIDE DEF i
  <2> QED
    BY <1>2, <1>3, <1>4, <1>5 DEF TypeOK
<1>7. /\ st' \in [Proc -> {"none", "kernel", "user", "zombie", "lookup", "trunc", "load", "io"}]
      /\ st'[p] = "user" /\ \A q \in Proc \ {p} : st'[q] = st[q]
      /\ call' \in [Proc -> Call] /\ \A q \in Proc \ {p} : call'[q] = call[q]
  BY <1>1, <1>2, <1>3 DEF TypeOK
<1>8. TypeOK' /\ Alone(p)
  BY <1>1, <1>2, <1>6, <1>7 DEF TypeOK, Alone
<1>9. /\ fd'[p][i].status = fd[p][i].status /\ fd'[p][i].node = fd[p][i].node
      /\ fd'[p][i].cnt = fd[p][i].cnt - 1
  BY <1>3, <1>6 DEF Entry
<1>10. Legal(p)'
  <2>1. ASSUME NEW k \in Fd
        PROVE  /\ fd'[p][k].status # "INIT"
               /\ fd'[p][k].status = "OPENED" <=> fd'[p][k].node # NoNode
               /\ fd'[p][k].cnt = One(fd'[p][k].status = "OPENED")
    <3>1. CASE k = i
      BY <1>1, <1>2, <1>9, <3>1 DEF Legal, One
    <3>2. CASE k # i
      BY <1>1, <1>2, <1>6, <3>2 DEF Legal, One
    <3> QED
      BY <3>1, <3>2
  <2> QED
    BY <1>1, <1>2, <1>7, <2>1 DEF Legal, One
<1>11. \A n \in Node : Settles(p, n)
  <2>1. \A j \in Fd : fd'[p][j].node = fd[p][j].node
    BY <1>6, <1>9
  <2> QED
    BY <1>1, <1>2, <1>7, <2>1, SameShares
<1> QED
  BY <1>8, <1>10, <1>11, RowStep

---------------------------------------------------------------------------
(* fd_array_alloc finds a free entry if there is one: a set of descriptors *)
(* has a least one.                                                        *)
LEMMA LeastFd ==
    ASSUME FilesAssumption, NEW is \in SUBSET Fd, is # {}
    PROVE  (CHOOSE i \in is : \A j \in is : i <= j) \in is
<1>1. is \subseteq Nat
  BY FdFinite
<1>2. IsWellFoundedOn({x \in Nat \X Nat : x[1] < x[2]}, Nat)
  BY NatLessThanWellFounded, Zenon DEF OpToRel
<1>3. PICK i \in is : \A j \in is : <<j, i>> \notin {x \in Nat \X Nat : x[1] < x[2]}
  BY <1>1, <1>2, WFMin
<1>4. ASSUME NEW j \in is PROVE i <= j
  <2>1. i \in Nat /\ j \in Nat /\ <<j, i>> \in Nat \X Nat
    BY <1>1
  <2>2. ~(<<j, i>>[1] < <<j, i>>[2])
    BY <1>3, <2>1
  <2> QED
    BY <2>1, <2>2
<1> QED
  BY <1>4

(* What file_open does before its lookup: p gets entry i, after closing    *)
(* the entries shut, and holds the inode from during the call c.           *)
Opens(p, from, shut, i, c) ==
    /\ c \in Call /\ c.from = from /\ c.fd = i
    /\ st' = [st EXCEPT ![p] = "lookup"]
    /\ fd' = [fd EXCEPT ![p] = [j \in Fd |->
                IF j = i THEN [Closed EXCEPT !.status = "INIT"] ELSE IF j \in shut THEN Closed ELSE fd[p][j]]]
    /\ opn' = [n \in Node |-> opn[n] - On(p, shut, n)]
    /\ ref' = [n \in Node |-> ref[n] - On(p, shut, n) + One(n = from)]
    /\ call' = [call EXCEPT ![p] = c]
    /\ UNCHANGED <<mm, tabs, pwd, lost>>

(* The start of an open.                                                   *)
LEMMA OpensStep ==
    ASSUME FilesAssumption, FilesIInv, NEW p \in Proc, NEW from, NEW shut \in SUBSET Fd,
           NEW i \in Free(p) \cup shut, NEW c, st[p] \in {"user", "kernel"}, Opens(p, from, shut, i, c)
    PROVE  FilesIInv'
<1> DEFINE new == [Closed EXCEPT !.status = "INIT"]
<1>1. TypeOK /\ Legal(p) /\ p \in tabs
  BY LegalAll DEF FilesIInv, Legal
<1>2. i \in Fd /\ (i \in shut \/ fd[p][i].status = "NONE")
  BY DEF Free
<1>3. new \in Entry /\ new.status = "INIT" /\ new.node = NoNode /\ new.cnt = 0
  BY DEF Closed, Entry
<1> HIDE DEF new
<1>4. fd' = [fd EXCEPT ![p] = [j \in Fd |-> IF j = i THEN new ELSE IF j \in shut THEN Closed ELSE fd[p][j]]]
  BY DEF Opens, new
<1>5. /\ fd' \in [Proc -> [Fd -> Entry]]
      /\ \A q \in Proc \ {p} : fd'[q] = fd[q]
      /\ \A j \in Fd : fd'[p][j] = IF j = i THEN new ELSE IF j \in shut THEN Closed ELSE fd[p][j]
  BY <1>1, <1>3, <1>4, ClosedEntry DEF TypeOK
<1>6. /\ st' \in [Proc -> {"none", "kernel", "user", "zombie", "lookup", "trunc", "load", "io"}]
      /\ st'[p] = "lookup" /\ \A q \in Proc \ {p} : st'[q] = st[q]
      /\ call' \in [Proc -> Call] /\ \A q \in Proc \ {p} : call'[q] = call[q]
      /\ call'[p].from = from /\ call'[p].fd = i /\ UNCHANGED <<mm, tabs, pwd, lost>>
  BY <1>1 DEF Opens, TypeOK
<1>7. \A n \in Node : On(p, shut, n) \in Nat /\ On(p, Fd, n) \in Nat
  BY OnNat, Fd \in SUBSET Fd
<1>8. /\ opn' \in [Node -> Int] /\ ref' \in [Node -> Int]
      /\ \A n \in Node : /\ opn'[n] = opn[n] - On(p, shut, n)
                         /\ ref'[n] = ref[n] - On(p, shut, n) + One(n = from)
  BY <1>1, <1>7 DEF Opens, TypeOK, One
<1>9. TypeOK' /\ Alone(p)
  BY <1>1, <1>5, <1>6, <1>8 DEF TypeOK, Alone
<1>10. Legal(p)'
  <2>1. ASSUME NEW j \in Fd
        PROVE  /\ fd'[p][j].status = "INIT" <=> i = j
               /\ fd'[p][j].status = "OPENED" <=> fd'[p][j].node # NoNode
               /\ fd'[p][j].cnt = One(fd'[p][j].status = "OPENED")
    <3>1. CASE j = i
      BY <1>3, <1>5, <3>1 DEF One
    <3>2. CASE j # i /\ j \in shut
      BY <1>5, <3>2, ClosedEntry DEF One
    <3>3. CASE j # i /\ j \notin shut
      BY <1>1, <1>5, <3>3 DEF Legal, One
    <3> QED
      BY <3>1, <3>2, <3>3
  <2> QED
    BY <1>1, <1>6, <2>1 DEF Legal, One
<1>11. ASSUME NEW n \in Node PROVE Settles(p, n)
  <2> DEFINE is == shut \cup {i}
  <2>1. is \in SUBSET Fd /\ \A j \in Fd \ is : fd'[p][j].node = fd[p][j].node
    BY <1>2, <1>5
  <2>2. \A j \in is : fd'[p][j].node # n
    BY <1>2, <1>3, <1>5, ClosedEntry DEF FilesAssumption
  <2>3. Row(fd[p], is, n) = Row(fd[p], shut, n)
    <3>1. i \in shut \/ fd[p][i].node # n
      BY <1>1, <1>2 DEF Legal, FilesAssumption
    <3> QED
      BY <3>1 DEF Row
  <2> HIDE DEF is
  <2>4. Cardinality(Row(fd'[p], is, n)) = 0
    BY <2>2, RowEmpty
  <2>5. Cardinality(Row(fd'[p], Fd, n))
          = Cardinality(Row(fd[p], Fd, n)) - Cardinality(Row(fd[p], is, n)) + Cardinality(Row(fd'[p], is, n))
    BY <2>1, RowChange
  <2>6. /\ On(p, Fd, n)' = Cardinality(Row(fd'[p], Fd, n))
        /\ On(p, Fd, n) = Cardinality(Row(fd[p], Fd, n)) /\ On(p, shut, n) = Cardinality(Row(fd[p], shut, n))
    BY DEF On, Row
  <2>7. On(p, Fd, n)' = On(p, Fd, n) - On(p, shut, n)
    BY <1>7, <2>3, <2>4, <2>5, <2>6
  <2>8. /\ Has(p, n) = On(p, Fd, n) /\ Has(p, n)' = On(p, Fd, n)'
        /\ Truncs(p, n) = 0 /\ Truncs(p, n)' = 0 /\ Looks(p, n) = 0 /\ Looks(p, n)' = One(n = from)
        /\ Stands(p, n)' = Stands(p, n) /\ Stands(p, n) \in 0 .. 1 /\ One(n = from) \in 0 .. 1
    BY <1>1, <1>6 DEF Has, Truncs, Looks, Stands, One
  <2>9. /\ On(p, shut, n) \in Nat /\ On(p, Fd, n) \in Nat /\ opn'[n] = opn[n] - On(p, shut, n)
        /\ ref'[n] = ref[n] - On(p, shut, n) + One(n = from) /\ lost'[n] = lost[n]
        /\ ref[n] \in Int /\ opn[n] \in Int /\ lost[n] \in Int
    BY <1>1, <1>6, <1>7, <1>8 DEF TypeOK
  <2> QED
    BY <2>7, <2>8, <2>9 DEF Settles
<1> QED
  BY <1>9, <1>10, <1>11, RowStep

(* sys_open, up to the lookup.                                             *)
LEMMA SysOpenStep ==
    ASSUME FilesAssumption, FilesIInv, NEW p \in Proc, NEW name \in Node \cup Missing,
           NEW from \in Node \cup {NoNode}, NEW fl \in OpenFlags, SysOpen(p, name, from, fl)
    PROVE  FilesIInv'
<1> DEFINE i == CHOOSE i \in Free(p) \cup {} : \A j \in Free(p) \cup {} : i <= j
           c == [name |-> name, from |-> from, fd |-> i, flags |-> fl, exec |-> FALSE]
<1>1. st[p] = "user" /\ StartOpen(p, name, from, fl, FALSE) /\ TypeOK
  BY DEF SysOpen, User, FilesIInv
<1>2. Free(p) \cup {} # {}
  BY <1>1 DEF StartOpen
<1>3. i \in Free(p) \cup {}
  BY <1>2, LeastFd, Free(p) \cup {} \in SUBSET Fd DEF Free
<1>4. i \in Fd
  BY <1>3 DEF Free
<1>5. c \in Call /\ c.from = from /\ c.fd = i
  BY <1>4 DEF Call
<1>6. Opens(p, from, {}, i, c)
  <2>1. fd' = [fd EXCEPT ![p] = [j \in Fd |->
                IF j = i THEN [Closed EXCEPT !.status = "INIT"] ELSE IF j \in {} THEN Closed ELSE fd[p][j]]]
    BY <1>1 DEF StartOpen, TypeOK
  <2> QED
    BY <1>1, <1>5, <2>1 DEF StartOpen, Opens
<1> HIDE DEF i, c
<1> QED
  BY <1>1, <1>3, <1>6, OpensStep, {} \in SUBSET Fd

(* sys_exec, up to the lookup.                                             *)
LEMMA SysExecStep ==
    ASSUME FilesAssumption, FilesIInv, NEW p \in Proc, NEW name \in Node \cup Missing,
           NEW from \in Node \cup {NoNode}, SysExec(p, name, from)
    PROVE  FilesIInv'
<1> DEFINE shut == Opened(p) \ {0, 1}
           i == CHOOSE i \in Free(p) \cup shut : \A j \in Free(p) \cup shut : i <= j
           c == [name |-> name, from |-> from, fd |-> i, flags |-> RdOnly, exec |-> TRUE]
<1>1. st[p] \in {"user", "kernel"} /\ StartOpen(p, name, from, RdOnly, TRUE) /\ TypeOK
  BY DEF SysExec, User, FilesIInv
<1>2. Free(p) \cup shut # {}
  BY <1>1 DEF StartOpen
<1>3. Free(p) \cup shut \in SUBSET Fd /\ shut \in SUBSET Fd
  BY DEF Free, Opened
<1>4. i \in Free(p) \cup shut
  <2> HIDE DEF shut
  <2> QED
    BY <1>2, <1>3, LeastFd
<1>5. i \in Fd
  BY <1>3, <1>4
<1>6. c \in Call /\ c.from = from /\ c.fd = i
  BY <1>5 DEF Call
<1>7. Opens(p, from, shut, i, c)
  <2>1. fd' = [fd EXCEPT ![p] = [j \in Fd |->
                IF j = i THEN [Closed EXCEPT !.status = "INIT"] ELSE IF j \in shut THEN Closed ELSE fd[p][j]]]
    BY <1>1 DEF StartOpen, TypeOK
  <2> QED
    BY <1>1, <1>6, <2>1 DEF StartOpen, Opens
<1> HIDE DEF shut, i, c
<1> QED
  BY <1>1, <1>3, <1>4, <1>7, OpensStep

(* An open that fails: the entry is free again; an exec exits.             *)
LEMMA OpenFailsStep ==
    ASSUME FilesAssumption, FilesIInv, NEW p \in Proc, NEW r, st[p] = "lookup", AfterLookup(p, r),
           OpenFails(p, r)
    PROVE  FilesIInv'
<1>1. CASE call[p].exec
  <2>1. DoExit(p, p \in mm, r)
    BY <1>1 DEF OpenFails
  <2>2. PICK hasMm \in BOOLEAN : hasMm <=> p \in mm
    OBVIOUS
  <2>3. DoExit(p, hasMm, r)
    BY <2>1, <2>2 DEF DoExit
  <2> QED
    BY <2>3, ExitStep
<1>2. CASE ~call[p].exec
  <2>1. CloseFds(p, {call[p].fd}, r) /\ Returns(p)
    BY <1>2 DEF OpenFails, Returns
  <2>2. call[p].fd \in Fd
    BY DEF FilesIInv, TypeOK, Call
  <2> QED
    BY <2>1, <2>2, CloseStep
<1> QED
  BY <1>1, <1>2

(* An open that is done: the entry is open, and takes over the share of    *)
(* the call.                                                               *)
LEMMA OpenDoneStep ==
    ASSUME FilesAssumption, FilesIInv, NEW p \in Proc, NEW m \in Node, m = call[p].name,
           st[p] \in {"lookup", "trunc"}, OpenDone(p), UNCHANGED <<mm, tabs, pwd, lost>>,
           opn' \in [Node -> Int], ref' \in [Node -> Int],
           \A n \in Node : /\ opn'[n] = opn[n] + One(m = n) - Truncs(p, n)
                           /\ ref'[n] = ref[n] + One(m = n) - Truncs(p, n) - Looks(p, n)
    PROVE  FilesIInv'
<1> DEFINE i == call[p].fd
           f == [status |-> "OPENED", node |-> m, cnt |-> 1, acc |-> call[p].flags.acc]
<1>1. TypeOK /\ Legal(p) /\ p \in tabs
  BY LegalAll DEF FilesIInv, Legal
<1>2. call[p] \in Call /\ i \in Fd /\ NoCall \in Call
  BY <1>1, FdFinite DEF TypeOK, Call, NoCall
<1>3. f \in Entry /\ f.status = "OPENED" /\ f.node = m /\ f.cnt = 1
  <2>1. call[p].flags.acc \in {"r", "w", "rw"}
    BY <1>2 DEF Call, RdOnly, FilesAssumption
  <2> QED
    BY <2>1 DEF Entry
<1>4. fd' = [fd EXCEPT ![p] = [fd[p] EXCEPT ![i] = f]]
  BY <1>1 DEF OpenDone, TypeOK
<1>5. /\ st' = [st EXCEPT ![p] = IF call[p].exec THEN "load" ELSE "user"]
      /\ call' = IF call[p].exec THEN call ELSE [call EXCEPT ![p] = NoCall]
  BY DEF OpenDone
<1> HIDE DEF f, i
<1>6. /\ fd' \in [Proc -> [Fd -> Entry]] /\ fd'[p][i] = f
      /\ \A q \in Proc \ {p} : fd'[q] = fd[q]
      /\ \A j \in Fd \ {i} : fd'[p][j] = fd[p][j]
  BY <1>1, <1>2, <1>3, <1>4 DEF TypeOK
<1>7. /\ st' \in [Proc -> {"none", "kernel", "user", "zombie", "lookup", "trunc", "load", "io"}]
      /\ st'[p] \in {"load", "user"} /\ \A q \in Proc \ {p} : st'[q] = st[q]
      /\ call' \in [Proc -> Call] /\ \A q \in Proc \ {p} : call'[q] = call[q]
      /\ st'[p] = "load" => call'[p] = call[p]
  BY <1>1, <1>2, <1>5 DEF TypeOK
<1>8. TypeOK' /\ Alone(p)
  BY <1>1, <1>6, <1>7 DEF TypeOK, Alone
<1>9. Legal(p)'
  <2>1. ASSUME NEW j \in Fd
        PROVE  /\ fd'[p][j].status # "INIT"
               /\ fd'[p][j].status = "OPENED" <=> fd'[p][j].node # NoNode
               /\ fd'[p][j].cnt = One(fd'[p][j].status = "OPENED")
    <3>1. CASE j = i
      BY <1>3, <1>6, <3>1 DEF One, FilesAssumption
    <3>2. CASE j # i
      BY <1>1, <1>6, <3>2 DEF Legal, One, i
    <3> QED
      BY <3>1, <3>2
  <2> QED
    BY <1>1, <1>7, <2>1 DEF Legal, One
<1>10. ASSUME NEW n \in Node PROVE Settles(p, n)
  <2>1. On(p, Fd, n) \in Nat /\ On(p, Fd, n)' = On(p, Fd, n) + One(m = n)
    <3>1. fd[p][i].status = "INIT"
      BY <1>1, <1>2 DEF Legal, i
    <3>2. fd[p][i].node = NoNode
      BY <1>1, <1>2, <3>1 DEF Legal
    <3>3. fd'[p][i].node = m /\ \A j \in Fd \ {i} : fd'[p][j].node = fd[p][j].node
      BY <1>3, <1>6
    <3> QED
      BY <1>2, <3>2, <3>3, EntryAdded
  <2>2. /\ Has(p, n) = On(p, Fd, n) /\ Has(p, n)' = On(p, Fd, n)'
        /\ Truncs(p, n)' = 0 /\ Looks(p, n)' = 0 /\ Truncs(p, n) \in 0 .. 1 /\ Looks(p, n) \in 0 .. 1
        /\ Stands(p, n)' = Stands(p, n) /\ Stands(p, n) \in 0 .. 1 /\ One(m = n) \in 0 .. 1
    BY <1>1, <1>7 DEF Has, Truncs, Looks, Stands, One
  <2>3. /\ opn'[n] = opn[n] + One(m = n) - Truncs(p, n)
        /\ ref'[n] = ref[n] + One(m = n) - Truncs(p, n) - Looks(p, n) /\ lost'[n] = lost[n]
        /\ ref[n] \in Int /\ opn[n] \in Int /\ lost[n] \in Int
    BY <1>1 DEF TypeOK
  <2> QED
    BY <2>1, <2>2, <2>3 DEF Settles
<1> QED
  BY <1>8, <1>9, <1>10, RowStep

(* The references when the lookup of p is over, whether it found inode n.  *)
Back(p) == [n \in Node |-> ref[n] - One(n = call[p].from)]
Gets(p) == [n \in Node |-> Back(p)[n] + One(n = call[p].name)]

(* vop_lookup returns, and the open fails, goes on to truncate, or is      *)
(* done.                                                                   *)
LEMMA LookupStep == ASSUME FilesAssumption, FilesIInv, NEW p \in Proc, Lookup(p) PROVE FilesIInv'
<1> DEFINE m == call[p].name
           create == "CREAT" \in call[p].flags.opt
<1>1. st[p] = "lookup" /\ TypeOK /\ Legal(p) /\ p \in tabs
  BY LegalAll DEF Lookup, FilesIInv, Legal
<1>2. ASSUME NEW n \in Node
      PROVE  /\ Looks(p, n) = One(n = call[p].from) /\ Truncs(p, n) = 0
             /\ Back(p)[n] = ref[n] - Looks(p, n) /\ Gets(p)[n] = ref[n] - Looks(p, n) + One(m = n)
             /\ ref[n] \in Int /\ opn[n] \in Int /\ lost[n] \in Int
             /\ Looks(p, n) \in 0 .. 1 /\ One(m = n) \in 0 .. 1
  BY <1>1 DEF Looks, Truncs, Back, Gets, One, TypeOK
<1>3. Back(p) \in [Node -> Int] /\ Gets(p) \in [Node -> Int]
  BY <1>1 DEF Back, Gets, One, TypeOK
<1>4. CASE Panic("create")
  BY <1>4, PanicStep
<1>5. CASE OpenFails(p, Back(p)) /\ lost' = lost
  <2>1. PICK r : r = Back(p)
    OBVIOUS
  <2>2. AfterLookup(p, r)
    BY <1>1, <1>2, <1>3, <1>5, <2>1 DEF AfterLookup, TypeOK
  <2>3. OpenFails(p, r)
    BY <1>5, <2>1
  <2> QED
    BY <1>1, <2>2, <2>3, OpenFailsStep
<1>6. CASE m \in Node /\ OpenFails(p, Gets(p)) /\ lost' = [lost EXCEPT ![m] = @ + 1]
  <2>1. PICK r : r = Gets(p)
    OBVIOUS
  <2>2. lost' \in [Node -> Int] /\ \A n \in Node : lost'[n] = lost[n] + One(m = n)
    BY <1>1, <1>6 DEF TypeOK, One
  <2>3. AfterLookup(p, r)
    <3>1. r \in [Node -> Int]
      BY <1>3, <2>1
    <3>2. ASSUME NEW n \in Node PROVE r[n] = ref[n] - Looks(p, n) + (lost'[n] - lost[n])
      <4> HIDE DEF m
      <4> QED
        BY <1>2, <2>1, <2>2
    <3> QED
      BY <2>2, <3>1, <3>2 DEF AfterLookup
  <2>4. OpenFails(p, r)
    BY <1>6, <2>1
  <2> QED
    BY <1>1, <2>3, <2>4, OpenFailsStep
<1>7. CASE /\ m \in Node /\ ref' = Gets(p) /\ opn' = [opn EXCEPT ![m] = @ + 1]
           /\ UNCHANGED <<mm, tabs, pwd, lost>>
           /\ \/ st' = [st EXCEPT ![p] = "trunc"] /\ UNCHANGED <<fd, call>>
              \/ OpenDone(p)
  <2>1. /\ opn' \in [Node -> Int] /\ ref' \in [Node -> Int]
        /\ \A n \in Node : opn'[n] = opn[n] + One(m = n) /\ ref'[n] = ref[n] - Looks(p, n) + One(m = n)
    BY <1>1, <1>2, <1>3, <1>7 DEF TypeOK, One
  <2>2. CASE OpenDone(p)
    <3>1. PICK k \in Node : k = m
      BY <1>7
    <3>2. ASSUME NEW n \in Node
          PROVE  /\ opn'[n] = opn[n] + One(k = n) - Truncs(p, n)
                 /\ ref'[n] = ref[n] + One(k = n) - Truncs(p, n) - Looks(p, n)
      <4>1. One(k = n) = One(m = n) /\ opn'[n] = opn[n] + One(m = n) /\ ref'[n] = ref[n] - Looks(p, n) + One(m = n)
        BY <2>1, <3>1
      <4> HIDE DEF m
      <4> QED
        BY <1>2, <4>1
    <3> QED
      BY <1>1, <1>7, <2>1, <2>2, <3>1, <3>2, OpenDoneStep
  <2>3. CASE st' = [st EXCEPT ![p] = "trunc"] /\ UNCHANGED <<fd, call>>
    <3>1. /\ st' \in [Proc -> {"none", "kernel", "user", "zombie", "lookup", "trunc", "load", "io"}]
          /\ st'[p] = "trunc" /\ \A q \in Proc \ {p} : st'[q] = st[q]
      BY <1>1, <2>3 DEF TypeOK
    <3>2. TypeOK' /\ Alone(p)
      BY <1>1, <1>7, <2>1, <2>3, <3>1 DEF TypeOK, Alone
    <3>3. Legal(p)'
      BY <1>1, <1>7, <2>3, <3>1 DEF Legal, One
    <3>4. ASSUME NEW n \in Node PROVE Settles(p, n)
      <4>1. /\ Has(p, n)' = Has(p, n) /\ Stands(p, n)' = Stands(p, n) /\ Stands(p, n) \in 0 .. 1
            /\ Truncs(p, n)' = One(m = n) /\ Looks(p, n)' = 0
        BY <1>7, <2>3, <3>1 DEF Has, On, Stands, Truncs, Looks, One
      <4>2. Has(p, n) \in Nat
        BY OnNat, Fd \in SUBSET Fd DEF Has
      <4>3. opn'[n] = opn[n] + One(m = n) /\ ref'[n] = ref[n] - Looks(p, n) + One(m = n) /\ lost'[n] = lost[n]
        BY <1>7, <2>1
      <4> HIDE DEF m
      <4> QED
        BY <1>2, <4>1, <4>2, <4>3 DEF Settles
    <3> QED
      BY <3>2, <3>3, <3>4, RowStep
  <2> QED
    BY <1>7, <2>2, <2>3
<1> QED
  BY <1>4, <1>5, <1>6, <1>7 DEF Lookup, Back, Gets

(* vop_truncate returns.                                                   *)
LEMMA TruncateStep == ASSUME FilesAssumption, FilesIInv, NEW p \in Proc, Truncate(p) PROVE FilesIInv'
<1>1. CASE HasOp(call[p].name, "truncate")
  <2>1. st[p] = "trunc" /\ OpenDone(p) /\ UNCHANGED <<mm, tabs, pwd, ref, opn, lost>>
    BY <1>1 DEF Truncate
  <2>2. TypeOK /\ Legal(p)
    BY LegalAll DEF FilesIInv
  <2>3. PICK m \in Node : m = call[p].name
    BY <2>1, <2>2 DEF Legal
  <2>4. ASSUME NEW n \in Node
        PROVE  /\ opn'[n] = opn[n] + One(m = n) - Truncs(p, n)
               /\ ref'[n] = ref[n] + One(m = n) - Truncs(p, n) - Looks(p, n)
    BY <2>1, <2>2, <2>3 DEF Truncs, Looks, One, TypeOK
  <2>5. opn' \in [Node -> Int] /\ ref' \in [Node -> Int]
    BY <2>1, <2>2 DEF TypeOK
  <2> QED
    BY <2>1, <2>3, <2>4, <2>5, OpenDoneStep
<1>2. CASE ~HasOp(call[p].name, "truncate")
  BY <1>2, PanicStep DEF Truncate
<1> QED
  BY <1>1, <1>2

(* load_icode.                                                             *)
LEMMA LoadStep == ASSUME FilesAssumption, FilesIInv, NEW p \in Proc, Load(p) PROVE FilesIInv'
<1>1. st[p] = "load" /\ TypeOK
  BY DEF Load, FilesIInv
<1>2. PICK r : r = ref
  OBVIOUS
<1>3. CASE Panic("seek")
  BY <1>3, PanicStep
<1>4. ASSUME lost' = lost PROVE AfterLookup(p, r)
  <2>1. \A n \in Node : Looks(p, n) = 0
    BY <1>1 DEF Looks, One
  <2> QED
    BY <1>1, <1>2, <1>4, <2>1 DEF AfterLookup, TypeOK
<1>5. CASE DoExit(p, FALSE, ref) /\ lost' = lost
  <2>1. PICK hasMm \in BOOLEAN : ~hasMm
    OBVIOUS
  <2>2. DoExit(p, hasMm, r)
    BY <1>2, <1>5, <2>1 DEF DoExit, CloseFds
  <2> QED
    BY <1>1, <1>4, <1>5, <2>2, ExitStep
<1>6. CASE /\ CloseFds(p, {call[p].fd}, ref) /\ st' = [st EXCEPT ![p] = "user"]
           /\ mm' \in {mm \cup {p}, mm \ {p}} /\ call' = [call EXCEPT ![p] = NoCall]
           /\ UNCHANGED <<tabs, pwd, lost>>
  <2>1. CloseFds(p, {call[p].fd}, r)
    BY <1>2, <1>6 DEF CloseFds
  <2>2. Returns(p)
    BY <1>6 DEF Returns
  <2>3. call[p].fd \in Fd
    BY <1>1 DEF TypeOK, Call
  <2> QED
    BY <1>1, <1>4, <1>6, <2>1, <2>2, <2>3, CloseStep
<1> QED
  BY <1>3, <1>5, <1>6 DEF Load

---------------------------------------------------------------------------
(* The first state: user_main has a table with the root as its working     *)
(* directory and nothing open.                                             *)
LEMMA FilesInit == ASSUME FilesAssumption, Init PROVE FilesIInv
<1>1. Closed \in Entry /\ NoCall \in Call
  BY ClosedEntry, FdFinite DEF NoCall, Call
<1>2. First \in Proc /\ Root \in Dir
  BY DEF FilesAssumption
<1>3. TypeOK
  BY <1>1, <1>2 DEF Init, TypeOK, Mounted, One
<1>4. \A p \in Proc, i \in Fd : fd[p][i] = Closed
  BY DEF Init
<1>5. Owners /\ Found
  BY <1>2 DEF Init, Owners, Found, FilesAssumption, Node
<1>6. EntriesLegal
  BY <1>4, <1>5, ClosedEntry DEF Init, EntriesLegal, One
<1>7. ASSUME NEW n \in Node
      PROVE  /\ opn[n] = Cardinality(OpenEntries(n)) + Cardinality(InCall("trunc", n))
             /\ ref[n] = Mounted(n) + Cardinality(OpenEntries(n)) + lost[n]
                          + Cardinality({p \in tabs : pwd[p] = n})
                          + Cardinality(InCall("trunc", n)) + Cardinality(InCall("lookup", n))
  <2>1. OpenEntries(n) = {}
    <3>1. \A x \in tabs \X Fd : fd[x[1]][x[2]].node = NoNode
      BY <1>3, <1>4, ClosedEntry DEF TypeOK
    <3> QED
      BY <3>1 DEF OpenEntries, FilesAssumption
  <2>2. InCall("trunc", n) = {} /\ InCall("lookup", n) = {}
    BY DEF InCall, Init
  <2>3. Cardinality({p \in tabs : pwd[p] = n}) = One(n = Root)
    <3>1. CASE n = Root
      <4>1. {p \in tabs : pwd[p] = n} = {First}
        BY <1>2, <3>1 DEF Init
      <4> QED
        BY <3>1, <4>1, FS_Singleton DEF One
    <3>2. CASE n # Root
      <4>1. {p \in tabs : pwd[p] = n} = {}
        BY <1>2, <3>2 DEF Init
      <4> QED
        BY <3>2, <4>1, FS_EmptySet DEF One
    <3> QED
      BY <3>1, <3>2
  <2>4. Cardinality({}) = 0
    BY FS_EmptySet
  <2>5. opn[n] = 0 /\ lost[n] = 0 /\ ref[n] = Mounted(n) + One(n = Root)
    BY DEF Init
  <2>6. Mounted(n) \in Int /\ One(n = Root) \in Int
    BY DEF Mounted, One
  <2>7. /\ Cardinality(OpenEntries(n)) = 0
        /\ Cardinality(InCall("trunc", n)) = 0 /\ Cardinality(InCall("lookup", n)) = 0
    BY <2>1, <2>2, <2>4
  <2> DEFINE D == Cardinality({p \in tabs : pwd[p] = n})
  <2>8. D = One(n = Root)
    BY <2>3
  <2> HIDE DEF D
  <2>9. ref[n] = Mounted(n) + 0 + lost[n] + D + 0 + 0 /\ opn[n] = 0 + 0
    BY <2>5, <2>6, <2>8
  <2> USE DEF D
  <2> QED
    BY <2>7, <2>9
<1> QED
  BY <1>3, <1>5, <1>6, <1>7 DEF FilesIInv, CountsExact

(* Every step keeps the invariant.                                         *)
LEMMA FilesStep == ASSUME FilesAssumption, FilesIInv, [Next]_vars PROVE FilesIInv'
<1>1. CASE UNCHANGED vars
  <2>1. UNCHANGED <<st, mm, tabs, pwd, fd, call, ref, opn, lost>>
    BY <1>1 DEF vars
  <2>2. PICK why : why = panic'
    OBVIOUS
  <2> QED
    BY <2>1, <2>2, PanicStep DEF Panic
<1>2. ASSUME NEW p \in Proc, NEW name \in Node \cup Missing, NEW from \in Node \cup {NoNode},
             SysExec(p, name, from) \/ \E fl \in OpenFlags : SysOpen(p, name, from, fl)
      PROVE  FilesIInv'
  BY <1>2, SysExecStep, SysOpenStep
<1>3. ASSUME NEW p \in Proc, FaultWithoutMm(p) PROVE FilesIInv'
  BY <1>3, PanicStep DEF FaultWithoutMm
<1>4. CASE Next
  <2>1. PICK p \in Proc :
        \/ SysExit(p) \/ Lookup(p) \/ Truncate(p) \/ Load(p) \/ FaultWithoutMm(p) \/ IoEnd(p)
        \/ \E c \in Proc : SysFork(p, c)
        \/ \E i \in Fd : SysClose(p, i)
        \/ \E i, j \in Fd : SysDup(p, i, j)
        \/ \E n \in Dir : SysChdir(p, n)
        \/ \E name \in Node \cup Missing, from \in Node \cup {NoNode} :
              SysExec(p, name, from) \/ \E fl \in OpenFlags : SysOpen(p, name, from, fl)
        \/ \E i \in Fd, vop \in {"read", "write", "tryseek", "fstat", "fsync", "getdirentry"} :
              IoStart(p, i, vop)
    BY <1>4 DEF Next
  <2> QED
    BY <1>2, <1>3, <2>1, SysExitStep, LookupStep, TruncateStep, LoadStep, IoEndStep, SysForkStep,
       SysCloseStep, SysDupStep, SysChdirStep, IoStartStep
<1> QED
  BY <1>1, <1>4

(* Descriptor tables and inode counts agree in every reachable state: an   *)
(* inode's open_count is the number of descriptors and calls that have it  *)
(* open and its ref_count is what refers to it, those lost by an exclusive *)
(* open included, whatever forks, exits, failed execs and blocked calls    *)
(* interleave (file.c, fs.c, inode.c, vfsfile.c).                          *)
THEOREM FilesCorrect == ASSUME FilesAssumption PROVE Spec => []FilesInv
<1>1. Init => FilesIInv
  BY FilesInit
<1>2. FilesIInv /\ [Next]_vars => FilesIInv'
  BY FilesStep
<1>3. FilesIInv => FilesInv
  BY DEF FilesIInv, FilesInv
<1> QED
  BY <1>1, <1>2, <1>3, PTL DEF Spec

---------------------------------------------------------------------------
(* The device stdin: the inductive invariant.                              *)
StdinTypeOK ==
    /\ stdin_buffer \in [0..STDIN_BUFSIZE - 1 -> Nat]
    /\ p_rpos \in Nat /\ p_wpos \in Nat /\ keys \in Nat
    /\ wait_queue \in Seq(Readers)
    /\ asleep \in [Readers -> BOOLEAN]
    /\ wakeup_flags \in [Readers -> {"WT_INTERRUPTED", "WT_KBD"}]
    /\ exiting \in [Readers -> BOOLEAN]
    /\ pc \in [Readers -> {"out", "wait"}]
    /\ len \in [Readers -> Nat]
    /\ ret \in [Readers -> Nat]
    /\ taken \in Seq(Nat)

(* The positions: the reader does not overtake the writer, who stays in    *)
(* the buffer, and no key counts twice.                                    *)
Positions ==
    /\ p_rpos <= p_wpos /\ p_wpos - p_rpos <= STDIN_BUFSIZE /\ p_wpos <= keys
    /\ Len(taken) = p_rpos

(* As long as the buffer has not been full, the keys are where they        *)
(* belong.                                                                 *)
Lossless == p_wpos = keys =>
    /\ \A i \in 1..p_rpos : taken[i] = i
    /\ \A k \in p_rpos..p_wpos - 1 : stdin_buffer[k % STDIN_BUFSIZE] = k + 1

(* A reader that waits wants more, and one that is awake without a key has *)
(* been killed.                                                            *)
Waiting == \A p \in Readers : pc[p] = "wait" =>
    /\ ret[p] < len[p]
    /\ wakeup_flags[p] = "WT_INTERRUPTED" /\ ~asleep[p] => exiting[p]

StdinIInv == StdinTypeOK /\ Positions /\ Lossless /\ Waiting /\ NoSleepWithInput /\ QueueExact

---------------------------------------------------------------------------
(* Arithmetic of the ring: positions less than a buffer apart have places  *)
(* of their own.                                                           *)
LEMMA ModRange == ASSUME NEW a \in Nat, NEW B \in Nat \ {0} PROVE a % B \in 0..B - 1
OBVIOUS

LEMMA DivMod == ASSUME NEW a \in Nat, NEW B \in Nat \ {0} PROVE a = B * (a \div B) + (a % B) /\ a \div B \in Nat
OBVIOUS

LEMMA Multiple == ASSUME NEW d \in Int, NEW B \in Nat \ {0} PROVE (d >= 1 => B * d >= B) /\ (d <= 0 => B * d <= 0)
<1>1. ASSUME d >= 1 PROVE B * d >= B
  BY <1>1
<1>2. ASSUME d <= 0 PROVE B * d <= 0
  BY <1>2
<1> QED
  BY <1>1, <1>2

LEMMA ModDiffers == ASSUME NEW a \in Nat, NEW b \in Nat, NEW B \in Nat \ {0}, a < b, b - a < B PROVE a % B # b % B
<1> SUFFICES ASSUME a % B = b % B PROVE FALSE
  OBVIOUS
<1> DEFINE d == (b \div B) - (a \div B)
<1>1. a = B * (a \div B) + (a % B) /\ a \div B \in Nat /\ a % B \in 0..B - 1
  BY DivMod, ModRange
<1>2. b = B * (b \div B) + (b % B) /\ b \div B \in Nat /\ b % B \in 0..B - 1
  BY DivMod, ModRange
<1>3. b - a = B * (b \div B) - B * (a \div B)
  BY <1>1, <1>2
<1>4. B * (b \div B) - B * (a \div B) = B * d
  BY <1>1, <1>2
<1>5. d \in Int
  BY <1>1, <1>2
<1> HIDE DEF d
<1>6. b - a = B * d
  BY <1>3, <1>4
<1>7. (d >= 1 => B * d >= B) /\ (d <= 0 => B * d <= 0)
  BY <1>5, Multiple
<1> QED
  BY <1>5, <1>6, <1>7

---------------------------------------------------------------------------
LEMMA StdinInvInit == StdinAssumption /\ StdinInit => StdinIInv
<1> SUFFICES ASSUME StdinAssumption, StdinInit PROVE StdinIInv
  OBVIOUS
<1>1. StdinTypeOK
  BY DEF StdinInit, StdinTypeOK, StdinAssumption
<1>2. Positions /\ Lossless
  BY DEF StdinInit, Positions, Lossless, StdinAssumption
<1>3. Waiting /\ NoSleepWithInput /\ QueueExact
  BY DEF StdinInit, Waiting, NoSleepWithInput, QueueExact, Member
<1> QED
  BY <1>1, <1>2, <1>3 DEF StdinIInv

(* A key comes.                                                            *)
LEMMA WriteInv == ASSUME StdinAssumption, StdinIInv, dev_stdin_write PROVE StdinIInv'
<1>1. StdinTypeOK /\ Positions /\ STDIN_BUFSIZE \in Nat \ {0}
  BY DEF StdinIInv, StdinAssumption
<1>2. /\ keys' = keys + 1 /\ stdin_buffer' = [stdin_buffer EXCEPT ![p_wpos % STDIN_BUFSIZE] = keys + 1]
      /\ p_wpos' = (IF p_wpos - p_rpos < STDIN_BUFSIZE THEN p_wpos + 1 ELSE p_wpos)
      /\ UNCHANGED <<p_rpos, exiting, pc, len, ret, taken>>
      /\ asleep' = [p \in Readers |-> asleep[p] /\ ~Member(wait_queue, p)]
      /\ wakeup_flags' = [p \in Readers |-> IF Member(wait_queue, p) THEN "WT_KBD" ELSE wakeup_flags[p]]
      /\ wait_queue' = <<>>
  BY DEF dev_stdin_write, wakeup_queue, advance
<1>3. \A p \in Readers : (asleep[p] /\ ~Member(wait_queue, p)) \in BOOLEAN
  OBVIOUS
<1>4. asleep' \in [Readers -> BOOLEAN]
  BY <1>2, <1>3
<1>5. p_wpos % STDIN_BUFSIZE \in 0..STDIN_BUFSIZE - 1
  BY <1>1, ModRange DEF StdinTypeOK
<1>6. StdinTypeOK'
  BY <1>1, <1>2, <1>4 DEF StdinTypeOK
<1>7. Positions'
  BY <1>1, <1>2 DEF StdinTypeOK, Positions
<1>8. Lossless'
  <2> SUFFICES ASSUME p_wpos' = keys'
               PROVE  /\ \A i \in 1..p_rpos : taken[i] = i
                      /\ \A k \in p_rpos..p_wpos' - 1 : stdin_buffer'[k % STDIN_BUFSIZE] = k + 1
    BY <1>2 DEF Lossless
  <2>1. p_wpos = keys /\ p_wpos - p_rpos < STDIN_BUFSIZE /\ p_wpos' = p_wpos + 1
    BY <1>1, <1>2 DEF StdinTypeOK, Positions
  <2>2. /\ \A i \in 1..p_rpos : taken[i] = i
        /\ \A k \in p_rpos..p_wpos - 1 : stdin_buffer[k % STDIN_BUFSIZE] = k + 1
    BY <2>1 DEF StdinIInv, Lossless
  <2>3. stdin_buffer'[p_wpos % STDIN_BUFSIZE] = p_wpos + 1
    BY <1>1, <1>2, <1>5, <2>1 DEF StdinTypeOK
  <2>4. ASSUME NEW k \in p_rpos..p_wpos - 1 PROVE stdin_buffer'[k % STDIN_BUFSIZE] = k + 1
    <3>1. k \in Nat /\ p_wpos \in Nat /\ k < p_wpos /\ p_wpos - k < STDIN_BUFSIZE
      BY <1>1, <2>1 DEF StdinTypeOK
    <3>2. k % STDIN_BUFSIZE # p_wpos % STDIN_BUFSIZE /\ k % STDIN_BUFSIZE \in 0..STDIN_BUFSIZE - 1
      BY <3>1, <1>1, ModDiffers, ModRange
    <3>3. stdin_buffer'[k % STDIN_BUFSIZE] = stdin_buffer[k % STDIN_BUFSIZE]
      BY <3>2, <1>1, <1>2 DEF StdinTypeOK
    <3> QED
      BY <3>3, <2>2
  <2>5. \A k \in p_rpos..p_wpos' - 1 : k = p_wpos \/ k \in p_rpos..p_wpos - 1
    BY <1>1, <2>1 DEF StdinTypeOK
  <2> QED
    BY <2>2, <2>3, <2>4, <2>5
<1>9. ASSUME NEW p \in Readers PROVE ~asleep'[p]
  BY <1>2 DEF StdinIInv, QueueExact
<1>10. ASSUME NEW p \in Readers, pc'[p] = "wait" PROVE wakeup_flags'[p] = "WT_KBD"
  <2>1. Member(wait_queue, p) <=> wakeup_flags[p] = "WT_INTERRUPTED"
    BY <1>2, <1>10 DEF StdinIInv, QueueExact
  <2> QED
    BY <2>1, <1>1, <1>2 DEF StdinTypeOK
<1>11. Waiting'
  BY <1>2, <1>10 DEF StdinIInv, Waiting
<1>12. NoSleepWithInput'
  BY <1>9 DEF NoSleepWithInput
<1>13. QueueExact'
  BY <1>2, <1>9, <1>10 DEF QueueExact, Member
<1> QED
  BY <1>6, <1>7, <1>8, <1>11, <1>12, <1>13 DEF StdinIInv

LEMMA Joined ==
    ASSUME NEW s \in Seq(Nat), NEW t \in Seq(Nat)
    PROVE  /\ s \o t \in Seq(Nat) /\ Len(s \o t) = Len(s) + Len(t)
           /\ \A i \in 1..Len(s) : (s \o t)[i] = s[i]
           /\ \A i \in 1..Len(t) : (s \o t)[Len(s) + i] = t[i]
<1>1. Len(s) \in Nat /\ Len(t) \in Nat
  OBVIOUS
<1>2. s \o t \in Seq(Nat) /\ Len(s \o t) = Len(s) + Len(t)
  OBVIOUS
<1>3. \A i \in 1..Len(s) : (s \o t)[i] = s[i]
  BY <1>1
<1>4. ASSUME NEW i \in 1..Len(t) PROVE (s \o t)[Len(s) + i] = t[i]
  <2>1. Len(s) + i \in 1..Len(s) + Len(t) /\ ~ (Len(s) + i <= Len(s)) /\ Len(s) + i - Len(s) = i
    BY <1>1
  <2> QED
    BY <2>1, <1>1
<1> QED
  BY <1>2, <1>3, <1>4

(* A reader takes what is there, and returns or blocks.                    *)
LEMMA ReadInv ==
    ASSUME StdinAssumption, StdinIInv, NEW p \in Readers, NEW l \in Nat, NEW r \in Nat, r < l,
           read_loop(p, l, r, wait_queue), len' = [len EXCEPT ![p] = l],
           UNCHANGED <<stdin_buffer, p_wpos, exiting, keys>>,
           ~Member(wait_queue, p)
    PROVE  StdinIInv'
<1> DEFINE have == p_wpos - p_rpos
           n == IF l - r < have THEN l - r ELSE have
<1>1. StdinTypeOK /\ Positions /\ STDIN_BUFSIZE \in Nat \ {0}
  BY DEF StdinIInv, StdinAssumption
<1>2. n \in Nat /\ n <= have /\ r + n <= l /\ (r + n # l => n = have)
  BY <1>1 DEF StdinTypeOK, Positions
<1>3. taken' = taken \o Front(n) /\ p_rpos' = p_rpos + n /\ ret' = [ret EXCEPT ![p] = r + n]
  BY DEF read_loop
<1>4. \/ /\ r + n = l /\ pc' = [pc EXCEPT ![p] = "out"] /\ wait_queue' = wait_queue /\ UNCHANGED <<asleep, wakeup_flags>>
      \/ /\ r + n # l /\ pc' = [pc EXCEPT ![p] = "wait"] /\ wait_queue' = Append(wait_queue, p)
         /\ asleep' = [asleep EXCEPT ![p] = TRUE] /\ wakeup_flags' = [wakeup_flags EXCEPT ![p] = "WT_INTERRUPTED"]
  BY DEF read_loop
<1> HIDE DEF n
<1>5. Front(n) \in Seq(Nat) /\ Len(Front(n)) = n /\ \A i \in 1..n : Front(n)[i] = stdin_buffer[(p_rpos + i - 1) % STDIN_BUFSIZE]
  <2>1. ASSUME NEW i \in 1..n PROVE stdin_buffer[(p_rpos + i - 1) % STDIN_BUFSIZE] \in Nat
    <3>1. p_rpos + i - 1 \in Nat
      BY <1>1, <1>2 DEF StdinTypeOK
    <3>2. (p_rpos + i - 1) % STDIN_BUFSIZE \in 0..STDIN_BUFSIZE - 1
      BY <3>1, <1>1, ModRange
    <3> QED
      BY <3>2, <1>1 DEF StdinTypeOK
  <2>2. Front(n) = [i \in 1..n |-> stdin_buffer[(p_rpos + i - 1) % STDIN_BUFSIZE]]
    BY DEF Front
  <2>3. Front(n) \in [1..n -> Nat]
    BY <2>1, <2>2, Zenon
  <2>4. Front(n) \in Seq(Nat) /\ Len(Front(n)) = n
    BY <2>3, <1>2
  <2> QED
    BY <2>2, <2>4
<1>6. /\ taken' \in Seq(Nat) /\ Len(taken') = p_rpos + n
      /\ \A i \in 1..p_rpos : taken'[i] = taken[i]
      /\ \A i \in 1..n : taken'[p_rpos + i] = Front(n)[i]
  <2>1. taken \in Seq(Nat) /\ Len(taken) = p_rpos /\ p_rpos \in Nat
    BY <1>1 DEF StdinTypeOK, Positions
  <2>2. /\ taken \o Front(n) \in Seq(Nat) /\ Len(taken \o Front(n)) = Len(taken) + Len(Front(n))
        /\ \A i \in 1..Len(taken) : (taken \o Front(n))[i] = taken[i]
        /\ \A i \in 1..Len(Front(n)) : (taken \o Front(n))[Len(taken) + i] = Front(n)[i]
    BY <2>1, <1>5, Joined, Zenon
  <2>3. Len(taken) = p_rpos /\ Len(Front(n)) = n
    BY <2>1, <1>5
  <2> QED
    BY <2>2, <2>3, <1>3, Zenon
<1>7. StdinTypeOK'
  <2>1. ret' \in [Readers -> Nat] /\ len' \in [Readers -> Nat] /\ p_rpos' \in Nat
    BY <1>1, <1>2, <1>3 DEF StdinTypeOK
  <2>2. /\ pc' \in [Readers -> {"out", "wait"}] /\ wait_queue' \in Seq(Readers)
        /\ asleep' \in [Readers -> BOOLEAN] /\ wakeup_flags' \in [Readers -> {"WT_INTERRUPTED", "WT_KBD"}]
    <3>1. CASE /\ pc' = [pc EXCEPT ![p] = "out"] /\ wait_queue' = wait_queue /\ UNCHANGED <<asleep, wakeup_flags>>
      BY <3>1, <1>1 DEF StdinTypeOK
    <3>2. CASE /\ pc' = [pc EXCEPT ![p] = "wait"] /\ wait_queue' = Append(wait_queue, p)
               /\ asleep' = [asleep EXCEPT ![p] = TRUE] /\ wakeup_flags' = [wakeup_flags EXCEPT ![p] = "WT_INTERRUPTED"]
      BY <3>2, <1>1 DEF StdinTypeOK
    <3> QED
      BY <3>1, <3>2, <1>4
  <2> QED
    BY <2>1, <2>2, <1>1, <1>6 DEF StdinTypeOK
<1>8. Positions'
  BY <1>1, <1>2, <1>3, <1>6 DEF StdinTypeOK, Positions
<1>9. Lossless'
  <2> SUFFICES ASSUME p_wpos = keys
               PROVE  /\ \A i \in 1..p_rpos + n : taken'[i] = i
                      /\ \A k \in p_rpos + n..p_wpos - 1 : stdin_buffer[k % STDIN_BUFSIZE] = k + 1
    BY <1>3 DEF Lossless
  <2>1. /\ \A i \in 1..p_rpos : taken[i] = i
        /\ \A k \in p_rpos..p_wpos - 1 : stdin_buffer[k % STDIN_BUFSIZE] = k + 1
    BY DEF StdinIInv, Lossless
  <2>2. p_rpos \in Nat /\ p_wpos \in Nat
    BY <1>1 DEF StdinTypeOK
  <2>3. ASSUME NEW i \in 1..n PROVE taken'[p_rpos + i] = p_rpos + i
    <3>1. p_rpos + i - 1 \in p_rpos..p_wpos - 1 /\ (p_rpos + i - 1) + 1 = p_rpos + i
      BY <2>2, <1>2
    <3> QED
      BY <3>1, <2>1, <1>5, <1>6
  <2>4. ASSUME NEW j \in 1..p_rpos + n PROVE taken'[j] = j
    <3>1. CASE j \in 1..p_rpos
      BY <3>1, <2>1, <1>6
    <3>2. CASE j \notin 1..p_rpos
      <4>1. j - p_rpos \in 1..n /\ p_rpos + (j - p_rpos) = j
        BY <3>2, <2>2, <1>2
      <4> QED
        BY <4>1, <2>3
    <3> QED
      BY <3>1, <3>2
  <2> QED
    BY <2>1, <2>2, <2>4, <1>2
<1>10. Waiting'
  <2>1. \A q \in Readers : q # p => /\ pc'[q] = pc[q] /\ ret'[q] = ret[q] /\ len'[q] = len[q]
                                    /\ wakeup_flags'[q] = wakeup_flags[q] /\ asleep'[q] = asleep[q] /\ exiting'[q] = exiting[q]
    BY <1>1, <1>3, <1>4 DEF StdinTypeOK
  <2>2. ASSUME pc'[p] = "wait" PROVE ret'[p] < len'[p] /\ asleep'[p]
    BY <2>2, <1>1, <1>2, <1>3, <1>4 DEF StdinTypeOK
  <2> QED
    BY <2>1, <2>2 DEF StdinIInv, Waiting
<1>11. NoSleepWithInput'
  <2> SUFFICES ASSUME p_rpos' < p_wpos, NEW q \in Readers PROVE ~asleep'[q]
    BY DEF NoSleepWithInput
  <2>1. n # have /\ p_rpos < p_wpos
    BY <1>1, <1>2, <1>3 DEF StdinTypeOK
  <2>2. asleep' = asleep
    BY <2>1, <1>2, <1>4
  <2> QED
    BY <2>1, <2>2 DEF StdinIInv, NoSleepWithInput
<1>12. QueueExact'
  <2>1. QueueExact /\ wait_queue \in Seq(Readers)
    BY <1>1 DEF StdinIInv, StdinTypeOK
  <2>2. CASE /\ r + n = l /\ pc' = [pc EXCEPT ![p] = "out"] /\ wait_queue' = wait_queue /\ UNCHANGED <<asleep, wakeup_flags>>
    <3>1. \A q \in Readers : q # p => pc'[q] = pc[q]
      BY <2>2, <1>1 DEF StdinTypeOK
    <3>2. pc'[p] = "out" /\ ~asleep[p]
      BY <2>1, <2>2, <1>1 DEF StdinTypeOK, QueueExact
    <3>3. \A q \in Readers : Member(wait_queue', q) <=> Member(wait_queue, q)
      BY <2>2
    <3> QED
      BY <3>1, <3>2, <3>3, <2>1, <2>2 DEF QueueExact
  <2>3. CASE /\ r + n # l /\ pc' = [pc EXCEPT ![p] = "wait"] /\ wait_queue' = Append(wait_queue, p)
             /\ asleep' = [asleep EXCEPT ![p] = TRUE] /\ wakeup_flags' = [wakeup_flags EXCEPT ![p] = "WT_INTERRUPTED"]
    <3>1. \A q \in Readers : q # p => pc'[q] = pc[q] /\ asleep'[q] = asleep[q] /\ wakeup_flags'[q] = wakeup_flags[q]
      BY <2>3, <1>1 DEF StdinTypeOK
    <3>2. pc'[p] = "wait" /\ wakeup_flags'[p] = "WT_INTERRUPTED"
      BY <2>3, <1>1 DEF StdinTypeOK
    <3>3. /\ Len(wait_queue') = Len(wait_queue) + 1 /\ wait_queue'[Len(wait_queue) + 1] = p
          /\ \A i \in 1..Len(wait_queue) : wait_queue'[i] = wait_queue[i]
      BY <2>1, <2>3
    <3>4. Len(wait_queue) \in Nat
      BY <2>1
    <3>5. ASSUME NEW q \in Readers PROVE Member(wait_queue', q) <=> q = p \/ Member(wait_queue, q)
      <4>1. Member(wait_queue, q) => Member(wait_queue', q)
        BY <3>3, <3>4 DEF Member
      <4>2. Member(wait_queue', p)
        BY <3>3, <3>4 DEF Member
      <4>3. ASSUME Member(wait_queue', q), q # p PROVE Member(wait_queue, q)
        <5>1. PICK i \in 1..Len(wait_queue') : wait_queue'[i] = q
          BY <4>3 DEF Member
        <5>2. i \in 1..Len(wait_queue)
          BY <5>1, <4>3, <3>3, <3>4
        <5> QED
          BY <5>1, <5>2, <3>3 DEF Member
      <4> QED
        BY <4>1, <4>2, <4>3
    <3>6. \A i, j \in 1..Len(wait_queue') : wait_queue'[i] = wait_queue'[j] => i = j
      <4>1. \A i \in 1..Len(wait_queue) : wait_queue[i] # p
        BY DEF Member
      <4>2. \A i \in 1..Len(wait_queue') : i = Len(wait_queue) + 1 \/ i \in 1..Len(wait_queue)
        BY <3>3, <3>4
      <4> QED
        BY <4>1, <4>2, <3>3, <2>1 DEF QueueExact
    <3> QED
      BY <3>1, <3>2, <3>5, <3>6, <2>1 DEF QueueExact
  <2> QED
    BY <2>2, <2>3, <1>4
<1> QED
  BY <1>7, <1>8, <1>9, <1>10, <1>11, <1>12 DEF StdinIInv

(* A reader that was killed, and not woken by a key, leaves the queue.     *)
LEMMA InterruptedInv ==
    ASSUME StdinIInv, NEW p \in Readers, Interrupted(p), Member(wait_queue, p), ~asleep[p],
           UNCHANGED <<stdin_buffer, p_wpos, exiting, len, keys>>
    PROVE  StdinIInv'
<1>1. StdinTypeOK /\ QueueExact
  BY DEF StdinIInv
<1>2. /\ pc' = [pc EXCEPT ![p] = "out"] /\ wait_queue' = Without(wait_queue, p)
      /\ UNCHANGED <<p_rpos, asleep, wakeup_flags, ret, taken>>
  BY DEF Interrupted
<1>3. wait_queue \in Seq(Readers) /\ Len(wait_queue) \in Nat
  BY <1>1 DEF StdinTypeOK
<1> DEFINE N == Len(wait_queue)
           k == CHOOSE i \in 1..N : wait_queue[i] = p
<1>4. k \in 1..N /\ wait_queue[k] = p
  BY DEF Member
<1>5. wait_queue' = [i \in 1..N - 1 |-> IF i < k THEN wait_queue[i] ELSE wait_queue[i + 1]]
  BY <1>2 DEF Without
<1> HIDE DEF k
<1>6. /\ wait_queue' \in Seq(Readers) /\ Len(wait_queue') = N - 1
      /\ \A i \in 1..N - 1 : wait_queue'[i] = (IF i < k THEN wait_queue[i] ELSE wait_queue[i + 1])
  <2>1. ASSUME NEW i \in 1..N - 1 PROVE (IF i < k THEN wait_queue[i] ELSE wait_queue[i + 1]) \in Readers
    BY <1>3
  <2>2. N - 1 \in Nat
    BY <1>3, <1>4
  <2>3. wait_queue' \in [1..N - 1 -> Readers]
    BY <2>1, <1>5
  <2> QED
    BY <2>2, <2>3, <1>5
<1>7. \A i \in 1..N : wait_queue[i] = p => i = k
  BY <1>1, <1>4 DEF QueueExact
<1>8. ASSUME NEW q \in Readers PROVE Member(wait_queue', q) <=> Member(wait_queue, q) /\ q # p
  <2>1. ASSUME Member(wait_queue', q) PROVE Member(wait_queue, q) /\ q # p
    <3>1. PICK i \in 1..N - 1 : wait_queue'[i] = q
      BY <2>1, <1>6 DEF Member
    <3>2. CASE i < k
      <4>1. i \in 1..N /\ wait_queue[i] = q /\ i # k
        BY <3>1, <3>2, <1>3, <1>6
      <4> QED
        BY <4>1, <1>7 DEF Member
    <3>3. CASE ~ (i < k)
      <4>1. i + 1 \in 1..N /\ wait_queue[i + 1] = q /\ i + 1 # k
        BY <3>1, <3>3, <1>3, <1>4, <1>6
      <4> QED
        BY <4>1, <1>7 DEF Member
    <3> QED
      BY <3>2, <3>3
  <2>2. ASSUME Member(wait_queue, q), q # p PROVE Member(wait_queue', q)
    <3>1. PICK i \in 1..N : wait_queue[i] = q
      BY <2>2 DEF Member
    <3>2. i # k
      BY <3>1, <2>2, <1>4
    <3>3. CASE i < k
      <4>1. i \in 1..N - 1 /\ wait_queue'[i] = q
        BY <3>1, <3>3, <1>3, <1>4, <1>6
      <4> QED
        BY <4>1, <1>6 DEF Member
    <3>4. CASE i > k
      <4>1. i - 1 \in 1..N - 1 /\ ~ (i - 1 < k) /\ (i - 1) + 1 = i
        BY <3>1, <3>4, <1>3, <1>4
      <4>2. wait_queue'[i - 1] = q
        BY <4>1, <3>1, <1>6
      <4> QED
        BY <4>1, <4>2, <1>6 DEF Member
    <3> QED
      BY <3>2, <3>3, <3>4, <1>4
  <2> QED
    BY <2>1, <2>2
<1>9. \A i, j \in 1..Len(wait_queue') : wait_queue'[i] = wait_queue'[j] => i = j
  <2> SUFFICES ASSUME NEW i \in 1..N - 1, NEW j \in 1..N - 1, wait_queue'[i] = wait_queue'[j] PROVE i = j
    BY <1>6
  <2> DEFINE a == IF i < k THEN i ELSE i + 1
             b == IF j < k THEN j ELSE j + 1
  <2>1. a \in 1..N /\ b \in 1..N /\ wait_queue[a] = wait_queue[b]
    BY <1>3, <1>6
  <2>2. a = b
    BY <2>1, <1>1 DEF QueueExact
  <2> QED
    BY <2>2, <1>4
<1>10. pc'[p] = "out" /\ \A q \in Readers : q # p => pc'[q] = pc[q]
  BY <1>1, <1>2 DEF StdinTypeOK
<1>11. StdinTypeOK'
  BY <1>1, <1>2, <1>6 DEF StdinTypeOK
<1>12. Positions' /\ Lossless' /\ NoSleepWithInput'
  BY <1>2 DEF StdinIInv, Positions, Lossless, NoSleepWithInput
<1>13. Waiting'
  BY <1>2, <1>10 DEF StdinIInv, Waiting
<1>14. QueueExact'
  BY <1>1, <1>2, <1>8, <1>9, <1>10 DEF QueueExact
<1> QED
  BY <1>11, <1>12, <1>13, <1>14 DEF StdinIInv

LEMMA WokenInv == ASSUME StdinAssumption, StdinIInv, NEW p \in Readers, Woken(p) PROVE StdinIInv'
<1>1. StdinTypeOK /\ pc[p] = "wait" /\ ~asleep[p] /\ UNCHANGED <<stdin_buffer, p_wpos, exiting, len, keys>>
  BY DEF Woken, StdinIInv
<1>2. Member(wait_queue, p) <=> wakeup_flags[p] = "WT_INTERRUPTED"
  BY <1>1 DEF StdinIInv, QueueExact
<1>3. CASE wakeup_flags[p] = "WT_KBD"
  <2>1. ~Member(wait_queue, p)
    BY <1>2, <1>3
  <2>2. read_loop(p, len[p], ret[p], wait_queue)
    BY <2>1, <1>3 DEF Woken, Without
  <2>3. len[p] \in Nat /\ ret[p] \in Nat /\ ret[p] < len[p]
    BY <1>1 DEF StdinTypeOK, StdinIInv, Waiting
  <2>4. len' = [len EXCEPT ![p] = len[p]]
    BY <1>1 DEF StdinTypeOK
  <2> QED
    BY <2>1, <2>2, <2>3, <2>4, <1>1, ReadInv
<1>4. CASE wakeup_flags[p] # "WT_KBD"
  <2>1. Interrupted(p) /\ Member(wait_queue, p)
    BY <1>1, <1>2, <1>4 DEF Woken, StdinTypeOK
  <2> QED
    BY <2>1, <1>1, InterruptedInv
<1> QED
  BY <1>3, <1>4

LEMMA KillInv == ASSUME StdinIInv, NEW p \in Readers, Kill(p) PROVE StdinIInv'
<1>1. /\ exiting' = [exiting EXCEPT ![p] = TRUE] /\ asleep' = [asleep EXCEPT ![p] = FALSE]
      /\ UNCHANGED <<stdin_buffer, p_rpos, p_wpos, wait_queue, wakeup_flags, pc, len, ret, keys, taken>>
  BY DEF Kill, ring
<1>2. StdinTypeOK
  BY DEF StdinIInv
<1>3. /\ exiting'[p] /\ ~asleep'[p]
      /\ \A q \in Readers : q # p => exiting'[q] = exiting[q] /\ asleep'[q] = asleep[q]
  BY <1>1, <1>2 DEF StdinTypeOK
<1>4. StdinTypeOK'
  BY <1>1, <1>2 DEF StdinTypeOK
<1>5. Positions' /\ Lossless'
  BY <1>1 DEF StdinIInv, Positions, Lossless
<1>6. Waiting'
  BY <1>1, <1>3 DEF StdinIInv, Waiting
<1>7. NoSleepWithInput'
  BY <1>1, <1>3 DEF StdinIInv, NoSleepWithInput
<1>8. QueueExact'
  BY <1>1, <1>3 DEF StdinIInv, QueueExact, Member
<1> QED
  BY <1>4, <1>5, <1>6, <1>7, <1>8 DEF StdinIInv

LEMMA StdinInvStep == StdinAssumption /\ StdinIInv /\ [StdinNext]_stdin_vars => StdinIInv'
<1> SUFFICES ASSUME StdinAssumption, StdinIInv, [StdinNext]_stdin_vars PROVE StdinIInv'
  OBVIOUS
<1>1. CASE dev_stdin_write
  BY <1>1, WriteInv
<1>2. ASSUME NEW p \in Readers, Woken(p) PROVE StdinIInv'
  BY <1>2, WokenInv
<1>3. ASSUME NEW p \in Readers, Kill(p) PROVE StdinIInv'
  BY <1>3, KillInv
<1>4. ASSUME NEW p \in Readers, NEW l \in 1..MaxLen, dev_stdin_read(p, l) PROVE StdinIInv'
  <2>1. /\ pc[p] = "out" /\ len' = [len EXCEPT ![p] = l] /\ read_loop(p, l, 0, wait_queue)
        /\ UNCHANGED <<stdin_buffer, p_wpos, exiting, keys>>
    BY <1>4 DEF dev_stdin_read
  <2>2. ~Member(wait_queue, p)
    BY <2>1 DEF StdinIInv, QueueExact
  <2>3. l \in Nat /\ 0 \in Nat /\ 0 < l
    BY DEF StdinAssumption
  <2> QED
    BY <2>1, <2>2, <2>3, ReadInv
<1>5. CASE UNCHANGED stdin_vars
  BY <1>5 DEF stdin_vars, StdinIInv, StdinTypeOK, Positions, Lossless, Waiting, NoSleepWithInput, QueueExact, Member
<1> QED
  BY <1>1, <1>2, <1>3, <1>4, <1>5 DEF StdinNext

(* The keys taken and those in the buffer, one by one and as a sequence.   *)
LEMMA InOrder == StdinAssumption /\ StdinIInv => KeysInOrder
<1> SUFFICES ASSUME StdinAssumption, StdinIInv, p_wpos = keys PROVE taken \o Unread = [i \in 1..keys |-> i]
  BY DEF KeysInOrder
<1> DEFINE n == p_wpos - p_rpos
<1>1. /\ taken \in Seq(Nat) /\ Len(taken) = p_rpos /\ p_rpos \in Nat /\ p_wpos \in Nat /\ p_rpos <= p_wpos
      /\ \A i \in 1..p_rpos : taken[i] = i
      /\ \A k \in p_rpos..p_wpos - 1 : stdin_buffer[k % STDIN_BUFSIZE] = k + 1
  BY DEF StdinIInv, StdinTypeOK, Positions, Lossless
<1>2. Unread = [i \in 1..n |-> stdin_buffer[(p_rpos + i - 1) % STDIN_BUFSIZE]]
  BY DEF Unread, Front
<1>3. ASSUME NEW i \in 1..n PROVE stdin_buffer[(p_rpos + i - 1) % STDIN_BUFSIZE] = p_rpos + i
  <2>1. p_rpos + i - 1 \in p_rpos..p_wpos - 1 /\ (p_rpos + i - 1) + 1 = p_rpos + i
    BY <1>1
  <2> QED
    BY <2>1, <1>1
<1>4. Unread = [i \in 1..n |-> p_rpos + i]
  BY <1>2, <1>3
<1>5. Unread \in Seq(Nat) /\ Len(Unread) = n /\ \A i \in 1..n : Unread[i] = p_rpos + i
  <2>1. n \in Nat /\ \A i \in 1..n : p_rpos + i \in Nat
    BY <1>1
  <2> QED
    BY <2>1, <1>4
<1> DEFINE w == taken \o Unread
<1>6. /\ w \in Seq(Nat) /\ Len(w) = Len(taken) + Len(Unread)
      /\ \A i \in 1..Len(taken) : w[i] = taken[i]
      /\ \A i \in 1..Len(Unread) : w[Len(taken) + i] = Unread[i]
  BY <1>1, <1>5, Joined, Zenon
<1> HIDE DEF w
<1>7. Len(w) = p_wpos
  BY <1>1, <1>5, <1>6
<1>8. ASSUME NEW j \in 1..p_wpos PROVE w[j] = j
  <2>1. CASE j <= p_rpos
    BY <2>1, <1>1, <1>6
  <2>2. CASE ~ (j <= p_rpos)
    <3>1. PICK d \in 1..n : p_rpos + d = j
      <4>1. j - p_rpos \in 1..n /\ p_rpos + (j - p_rpos) = j
        BY <2>2, <1>1
      <4> QED
        BY <4>1
    <3>2. w[Len(taken) + d] = Unread[d]
      <4>1. d \in 1..Len(Unread)
        BY <1>5
      <4> QED
        BY <4>1, <1>6, Zenon
    <3>3. Unread[d] = p_rpos + d
      BY <3>1, <1>5
    <3> QED
      BY <3>1, <3>2, <3>3, <1>1
  <2> QED
    BY <2>1, <2>2
<1>9. w = [i \in 1..p_wpos |-> i]
  <2>1. w = [i \in 1..Len(w) |-> w[i]]
    BY <1>6
  <2> QED
    BY <2>1, <1>7, <1>8
<1> QED
  BY <1>9 DEF w

(* dev_stdin.c: keys reach the readers in the order of typing, each once,  *)
(* as long as the buffer has not overflowed; no reader sleeps while there  *)
(* is input; and the wait queue holds exactly the readers that wait, for a *)
(* buffer of any size, any number of readers and kills at any moment.      *)
THEOREM StdinCorrect == ASSUME StdinAssumption PROVE StdinSpec => []StdinInv
<1>1. StdinInit => StdinIInv
  BY StdinInvInit
<1>2. StdinIInv /\ [StdinNext]_stdin_vars => StdinIInv'
  BY StdinInvStep
<1>3. StdinIInv => StdinInv
  BY InOrder DEF StdinIInv, StdinInv
<1> QED
  BY <1>1, <1>2, <1>3, PTL DEF StdinSpec

(* dev_stdin_read: a read ends with fewer keys than it asked for only if   *)
(* do_kill has marked its process.                                         *)
THEOREM ShortReads == ASSUME StdinAssumption PROVE StdinSpec => ShortOnlyIfKilled
<1>1. StdinInit => StdinIInv
  BY StdinInvInit
<1>2. StdinIInv /\ [StdinNext]_stdin_vars => StdinIInv'
  BY StdinInvStep
<1>3. StdinIInv /\ [StdinNext]_stdin_vars => [ShortOnlyIfKilledStep]_stdin_vars
  <2> SUFFICES ASSUME StdinIInv, [StdinNext]_stdin_vars, NEW p \in Readers, pc[p] = "wait", pc'[p] = "out"
               PROVE  ret'[p] = len[p] \/ exiting[p]
    BY DEF ShortOnlyIfKilledStep
  <2>1. pc \in [Readers -> {"out", "wait"}] /\ wakeup_flags \in [Readers -> {"WT_INTERRUPTED", "WT_KBD"}] /\ ret \in [Readers -> Nat]
    BY DEF StdinIInv, StdinTypeOK
  <2>2. CASE dev_stdin_write
    BY <2>2 DEF dev_stdin_write
  <2>3. ASSUME NEW q \in Readers, Woken(q), q # p PROVE FALSE
    BY <2>1, <2>3 DEF Woken, read_loop, Interrupted
  <2>4. ASSUME NEW q \in Readers, NEW l \in 1..MaxLen, dev_stdin_read(q, l) PROVE FALSE
    BY <2>1, <2>4 DEF dev_stdin_read, read_loop
  <2>5. ASSUME NEW q \in Readers, Kill(q) PROVE FALSE
    BY <2>5 DEF Kill
  <2>6. CASE Woken(p)
    <3>1. CASE wakeup_flags[p] = "WT_KBD"
      <4>1. read_loop(p, len[p], ret[p], Without(wait_queue, p))
        BY <2>6, <3>1 DEF Woken
      <4> DEFINE have == p_wpos - p_rpos
                 n == IF len[p] - ret[p] < have THEN len[p] - ret[p] ELSE have
      <4>2. ret' = [ret EXCEPT ![p] = ret[p] + n] /\ (ret[p] + n # len[p] => pc' = [pc EXCEPT ![p] = "wait"])
        BY <4>1 DEF read_loop
      <4> HIDE DEF n
      <4>3. ret'[p] = len[p]
        BY <4>2, <2>1
      <4> QED
        BY <4>3
    <3>2. CASE wakeup_flags[p] # "WT_KBD"
      <4>1. wakeup_flags[p] = "WT_INTERRUPTED"
        BY <2>1, <3>2
      <4>2. ~asleep[p]
        BY <2>6 DEF Woken
      <4>3. Waiting
        BY DEF StdinIInv
      <4> QED
        BY <4>1, <4>2, <4>3 DEF Waiting
    <3> QED
      BY <3>1, <3>2
  <2>7. CASE UNCHANGED stdin_vars
    BY <2>7 DEF stdin_vars
  <2> QED
    BY <2>2, <2>3, <2>4, <2>5, <2>6, <2>7 DEF StdinNext
<1> QED
  BY <1>1, <1>2, <1>3, PTL DEF StdinSpec, ShortOnlyIfKilled

---------------------------------------------------------------------------
(* The blocks of files on disk.  First arithmetic: more blocks have more   *)
(* room, and RoundUp has room for all bytes.                               *)
LEMMA MoreRoom ==
    ASSUME NEW a \in Nat, NEW b \in Nat, NEW B \in Nat \ {0}, a <= b
    PROVE  a * B <= b * B
<1>1. B * (a - b) <= 0
  BY Multiple
<1>2. B * (a - b) = a * B - b * B
  OBVIOUS
<1>3. a * B \in Int /\ b * B \in Int
  OBVIOUS
<1> QED
  BY <1>1, <1>2, <1>3

LEMMA RoomFor ==
    ASSUME NEW n \in Nat, BLKSIZE \in Nat \ {0}
    PROVE  RoundUp(n) \in Nat /\ n <= RoundUp(n) * BLKSIZE
<1> DEFINE q == (n + BLKSIZE - 1) \div BLKSIZE
<1>1. n + BLKSIZE - 1 \in Nat
  OBVIOUS
<1>2. /\ n + BLKSIZE - 1 = BLKSIZE * q + ((n + BLKSIZE - 1) % BLKSIZE) /\ q \in Nat
      /\ (n + BLKSIZE - 1) % BLKSIZE \in 0 .. BLKSIZE - 1
  BY <1>1, DivMod, ModRange
<1> HIDE DEF q
<1>3. BLKSIZE * q = q * BLKSIZE /\ q * BLKSIZE \in Int
  BY <1>2
<1>4. n <= q * BLKSIZE
  BY <1>2, <1>3
<1> QED
  BY <1>2, <1>4 DEF RoundUp, q

(* Blocks i .. j - 1 of a range of bytes: at least one.                    *)
LEMMA SomeBlock ==
    ASSUME NEW p \in Nat, NEW n \in Nat, p < n, BLKSIZE \in Nat \ {0}
    PROVE  p \div BLKSIZE \in Nat /\ p \div BLKSIZE < RoundUp(n)
<1> DEFINE q == p \div BLKSIZE
           r == RoundUp(n)
<1>1. p = BLKSIZE * q + (p % BLKSIZE) /\ q \in Nat /\ p % BLKSIZE \in 0 .. BLKSIZE - 1
  BY DivMod, ModRange
<1>2. r \in Nat /\ n <= r * BLKSIZE
  BY RoomFor
<1> HIDE DEF q, r
<1>3. ASSUME r <= q PROVE FALSE
  <2>1. r * BLKSIZE <= q * BLKSIZE
    BY <1>1, <1>2, <1>3, MoreRoom
  <2>2. q * BLKSIZE = BLKSIZE * q /\ BLKSIZE * q \in Int /\ r * BLKSIZE \in Int
    BY <1>1, <1>2
  <2> QED
    BY <2>1, <2>2, <1>1, <1>2
<1>4. q < r
  BY <1>1, <1>2, <1>3
<1> QED
  BY <1>1, <1>4 DEF q, r

---------------------------------------------------------------------------
(* A file on disk: the map has no holes and no block twice.                *)
FileRec == [size : Nat, blocks : Nat, map : [Index -> Block \cup {0}], indirect : Block \cup {0}]
Dense(d) ==
    /\ d \in FileRec /\ d.blocks <= NDIRECT + NENTRY
    /\ \A i \in Index : d.map[i] # 0 <=> i < d.blocks
    /\ d.blocks > NDIRECT => d.indirect # 0
    /\ \A i, j \in Index : i # j /\ d.map[i] # 0 => d.map[i] # d.map[j]
    /\ \A i \in Index : d.map[i] # 0 => d.map[i] # d.indirect
Sized(d) == d.size <= d.blocks * BLKSIZE
Owns(d, b) == b # 0 /\ (b = d.indirect \/ \E i \in Index : b = d.map[i])

(* What a call works on, where X are the blocks of the other files.        *)
Endings == {"ok", "E_NO_MEM", "index", "truncate"}
Good(s, X) ==
    /\ s \in [din : FileRec, free : SUBSET Block, unused : Nat, ret : Endings]
    /\ Dense(s.din)
    /\ \A b : Owns(s.din, b) => b \in Block /\ b \notin s.free /\ b \notin X
    /\ \A b \in s.free : b \notin X
    /\ \A b \in Block : b \in s.free \/ b \in X \/ Owns(s.din, b)
    /\ s.unused = Cardinality(s.free)

LEMMA IndexFacts ==
    ASSUME SfsBlocksAssumption
    PROVE  /\ BLKSIZE \in Nat \ {0} /\ NDIRECT \in Nat \ {0} /\ NENTRY \in Nat \ {0} /\ MAX_FILE_SIZE \in Nat \ {0}
           /\ Index \subseteq Nat /\ \A i \in Nat : i \in Index <=> i < NDIRECT + NENTRY
           /\ 0 \notin Block /\ Block \subseteq Nat /\ IsFiniteSet(Block) /\ Cardinality(Block) < NDIRECT + NENTRY
BY DEF SfsBlocksAssumption, Index

(* A file cannot have as many blocks as its map has entries: there are not *)
(* that many.                                                              *)
LEMMA HasRoom ==
    ASSUME SfsBlocksAssumption, NEW d, Dense(d)
    PROVE  d.blocks \in Index
<1>0. d \in FileRec /\ d.blocks \in Nat /\ d.map \in [Index -> Block \cup {0}] /\ d.blocks <= NDIRECT + NENTRY
  BY DEF Dense, FileRec
<1> DEFINE D == 0 .. d.blocks - 1
           f == [i \in D |-> d.map[i]]
<1>1. \A i \in D : i \in Index /\ i < d.blocks
  BY <1>0, IndexFacts
<1>2. \A i \in D : d.map[i] # 0 /\ d.map[i] \in Block
  <2>1. \A i \in D : d.map[i] # 0
    BY <1>1 DEF Dense
  <2> QED
    BY <2>1, <1>0, <1>1
<1>3. \A i, j \in D : d.map[i] = d.map[j] => i = j
  BY <1>1, <1>2 DEF Dense
<1> HIDE DEF D
<1>4. f \in Injection(D, Block)
  BY <1>2, <1>3 DEF Injection, IsInjective
<1> HIDE DEF f
<1>5. Cardinality(D) <= Cardinality(Block)
  BY <1>4, IndexFacts, FS_Injection
<1>6. Cardinality(D) = d.blocks
  <2>1. d.blocks - 1 \in Int /\ 0 \in Int
    BY <1>0
  <2>2. Cardinality(0 .. d.blocks - 1) = IF 0 > d.blocks - 1 THEN 0 ELSE (d.blocks - 1) - 0 + 1
    BY <2>1, FS_Interval
  <2> QED
    BY <2>2, <1>0 DEF D
<1>7. Cardinality(Block) \in Nat
  BY IndexFacts, FS_CardinalityType
<1> QED
  BY <1>0, <1>5, <1>6, <1>7, IndexFacts

(* A set of naturals has a least element.                                  *)
LEMMA Least ==
    ASSUME NEW S \in SUBSET Nat, S # {}
    PROVE  \E i \in S : \A j \in S : i <= j
<1>1. IsWellFoundedOn({x \in Nat \X Nat : x[1] < x[2]}, Nat)
  BY NatLessThanWellFounded, Zenon DEF OpToRel
<1>2. PICK i \in S : \A j \in S : <<j, i>> \notin {x \in Nat \X Nat : x[1] < x[2]}
  BY <1>1, WFMin
<1>3. ASSUME NEW j \in S PROVE i <= j
  <2>1. i \in Nat /\ j \in Nat /\ <<j, i>> \in Nat \X Nat
    OBVIOUS
  <2>2. ~(<<j, i>>[1] < <<j, i>>[2])
    BY <1>2, <2>1
  <2> QED
    BY <2>1, <2>2
<1> QED
  BY <1>3

(* bitmap_alloc finds a block as long as one is free.                      *)
LEMMA FirstFree ==
    ASSUME SfsBlocksAssumption, NEW S \in SUBSET Block, S # {}
    PROVE  Min(S) \in S
<1>1. S \in SUBSET Nat
  BY IndexFacts
<1>2. \E i \in S : \A j \in S : i <= j
  BY <1>1, Least
<1> QED
  BY <1>2 DEF Min

(* The free map loses block b.                                             *)
LEMMA FreeLess ==
    ASSUME SfsBlocksAssumption, NEW F \in SUBSET Block, NEW b \in F
    PROVE  /\ Cardinality(F) \in Nat \ {0} /\ F \ {b} \in SUBSET Block
           /\ Cardinality(F \ {b}) = Cardinality(F) - 1
<1>1. IsFiniteSet(F) /\ Cardinality(F) \in Nat
  BY IndexFacts, FS_Subset, FS_CardinalityType
<1>2. Cardinality(F \ {b}) = Cardinality(F) - 1
  BY <1>1, FS_RemoveElement
<1>3. Cardinality(F) # 0
  BY <1>1, FS_EmptySet
<1> QED
  BY <1>1, <1>2, <1>3

(* A free block b becomes the next block of the file.                      *)
LEMMA TakesBlock ==
    ASSUME SfsBlocksAssumption, NEW s, NEW X, Good(s, X), NEW b \in s.free,
           s.din.blocks < NDIRECT \/ s.din.indirect # 0,
           NEW mp, mp = [s.din.map EXCEPT ![s.din.blocks] = b],
           NEW d, d = [size |-> s.din.size, blocks |-> s.din.blocks + 1, map |-> mp, indirect |-> s.din.indirect],
           NEW t, t = [din |-> d, free |-> s.free \ {b}, unused |-> s.unused - 1, ret |-> s.ret]
    PROVE  Good(t, X)
<1> DEFINE i == s.din.blocks
           e == s.din
<1>0. /\ e \in FileRec /\ e.size \in Nat /\ e.blocks \in Nat /\ e.map \in [Index -> Block \cup {0}]
      /\ e.indirect \in Block \cup {0} /\ s.free \in SUBSET Block /\ s.unused \in Nat /\ s.ret \in Endings
      /\ Dense(e) /\ s.unused = Cardinality(s.free)
      /\ \A c : Owns(e, c) => c \in Block /\ c \notin s.free /\ c \notin X
      /\ \A c \in s.free : c \notin X
      /\ \A c \in Block : c \in s.free \/ c \in X \/ Owns(e, c)
  BY DEF Good, FileRec
<1>1. i \in Index /\ b \in Block /\ b # 0 /\ i \in Nat /\ i < NDIRECT + NENTRY
  <2>1. i \in Index
    BY <1>0, HasRoom
  <2> QED
    BY <2>1, <1>0, IndexFacts
<1>2. /\ mp \in [Index -> Block \cup {0}] /\ \A j \in Index : mp[j] = IF j = i THEN b ELSE e.map[j]
  BY <1>0, <1>1
<1>3. e.map[i] = 0
  BY <1>0, <1>1 DEF Dense
<1> HIDE DEF i, e
<1>4. d = [size |-> e.size, blocks |-> i + 1, map |-> mp, indirect |-> e.indirect]
  BY DEF i, e
<1>5. d \in FileRec /\ d.blocks = i + 1 /\ d.map = mp /\ d.indirect = e.indirect
  BY <1>0, <1>1, <1>2, <1>4 DEF FileRec
<1>6. \A j \in Index : e.map[j] # b /\ e.indirect # b
  <2>1. ~ Owns(e, b)
    BY <1>0
  <2> QED
    BY <2>1, <1>1 DEF Owns
<1>7. e.blocks = i /\ \A j \in Index : e.map[j] # 0 <=> j < i
  BY <1>0 DEF Dense, i, e
<1>8. Dense(d)
  <2>1. d.blocks <= NDIRECT + NENTRY
    BY <1>1, <1>5, IndexFacts
  <2>2. \A j \in Index : d.map[j] # 0 <=> j < d.blocks
    <3> SUFFICES ASSUME NEW j \in Index PROVE d.map[j] # 0 <=> j < d.blocks
      OBVIOUS
    <3>1. j \in Nat
      BY IndexFacts
    <3> QED
      BY <3>1, <1>1, <1>2, <1>5, <1>7
  <2>3. d.blocks > NDIRECT => d.indirect # 0
    BY <1>1, <1>5, IndexFacts DEF i, e
  <2>4. \A j, k \in Index : j # k /\ d.map[j] # 0 => d.map[j] # d.map[k]
    <3> SUFFICES ASSUME NEW j \in Index, NEW k \in Index, j # k, d.map[j] # 0, d.map[j] = d.map[k] PROVE FALSE
      OBVIOUS
    <3>1. j # i /\ k # i
      BY <1>2, <1>5, <1>6
    <3>2. e.map[j] = e.map[k] /\ e.map[j] # 0
      BY <3>1, <1>2, <1>5
    <3> QED
      BY <3>2, <1>0 DEF Dense
  <2>5. \A j \in Index : d.map[j] # 0 => d.map[j] # d.indirect
    <3> SUFFICES ASSUME NEW j \in Index, d.map[j] # 0 PROVE d.map[j] # d.indirect
      OBVIOUS
    <3>1. CASE j = i
      BY <3>1, <1>2, <1>5, <1>6
    <3>2. CASE j # i
      <4>1. d.map[j] = e.map[j] /\ e.map[j] # 0
        BY <3>2, <1>2, <1>5
      <4> QED
        BY <4>1, <1>0, <1>5 DEF Dense
    <3> QED
      BY <3>1, <3>2
  <2> QED
    BY <2>1, <2>2, <2>3, <2>4, <2>5, <1>5 DEF Dense
<1>9. \A c : Owns(d, c) <=> c = b \/ Owns(e, c)
  BY <1>1, <1>2, <1>3, <1>5 DEF Owns
<1>10. /\ Cardinality(s.free) \in Nat \ {0} /\ s.free \ {b} \in SUBSET Block
       /\ Cardinality(s.free \ {b}) = Cardinality(s.free) - 1
  BY <1>0, FreeLess
<1>11. t \in [din : FileRec, free : SUBSET Block, unused : Nat, ret : Endings]
  <2>1. s.unused - 1 \in Nat
    BY <1>0, <1>10
  <2> QED
    BY <2>1, <1>0, <1>5, <1>10
<1>12. t.din = d /\ t.free = s.free \ {b} /\ t.unused = s.unused - 1
  OBVIOUS
<1>13. \A c : Owns(d, c) => c \in Block /\ c \notin s.free \ {b} /\ c \notin X
  BY <1>0, <1>1, <1>9
<1>14. \A c \in Block : c \in s.free \ {b} \/ c \in X \/ Owns(d, c)
  BY <1>0, <1>9
<1>15. s.unused - 1 = Cardinality(s.free \ {b})
  BY <1>0, <1>10
<1> QED
  BY <1>0, <1>8, <1>11, <1>12, <1>13, <1>14, <1>15 DEF Good

(* A free block b becomes the indirect block.                              *)
LEMMA TakesIndirect ==
    ASSUME SfsBlocksAssumption, NEW s, NEW X, Good(s, X), NEW b \in s.free, s.din.indirect = 0,
           NEW d, d = [size |-> s.din.size, blocks |-> s.din.blocks, map |-> s.din.map, indirect |-> b],
           NEW t, t = [din |-> d, free |-> s.free \ {b}, unused |-> s.unused - 1, ret |-> s.ret]
    PROVE  Good(t, X)
<1> DEFINE e == s.din
<1>0. /\ e \in FileRec /\ e.size \in Nat /\ e.blocks \in Nat /\ e.map \in [Index -> Block \cup {0}]
      /\ e.indirect \in Block \cup {0} /\ s.free \in SUBSET Block /\ s.unused \in Nat /\ s.ret \in Endings
      /\ Dense(e) /\ s.unused = Cardinality(s.free)
      /\ \A c : Owns(e, c) => c \in Block /\ c \notin s.free /\ c \notin X
      /\ \A c \in s.free : c \notin X
      /\ \A c \in Block : c \in s.free \/ c \in X \/ Owns(e, c)
  BY DEF Good, FileRec
<1>1. b \in Block /\ b # 0
  BY <1>0, IndexFacts
<1> HIDE DEF e
<1>2. d = [size |-> e.size, blocks |-> e.blocks, map |-> e.map, indirect |-> b] /\ e.indirect = 0
  BY DEF e
<1>3. d \in FileRec /\ d.blocks = e.blocks /\ d.map = e.map /\ d.indirect = b
  BY <1>0, <1>1, <1>2 DEF FileRec
<1>4. \A j \in Index : e.map[j] # b
  <2>1. ~ Owns(e, b)
    BY <1>0
  <2> QED
    BY <2>1, <1>1 DEF Owns
<1>5. Dense(d)
  BY <1>0, <1>1, <1>3, <1>4 DEF Dense
<1>6. \A c : Owns(d, c) <=> c = b \/ Owns(e, c)
  BY <1>1, <1>2, <1>3 DEF Owns
<1>10. /\ Cardinality(s.free) \in Nat \ {0} /\ s.free \ {b} \in SUBSET Block
       /\ Cardinality(s.free \ {b}) = Cardinality(s.free) - 1
  BY <1>0, FreeLess
<1>11. t \in [din : FileRec, free : SUBSET Block, unused : Nat, ret : Endings]
  <2>1. s.unused - 1 \in Nat
    BY <1>0, <1>10
  <2> QED
    BY <2>1, <1>0, <1>3, <1>10
<1>12. t.din = d /\ t.free = s.free \ {b} /\ t.unused = s.unused - 1
  OBVIOUS
<1>13. \A c : Owns(d, c) => c \in Block /\ c \notin s.free \ {b} /\ c \notin X
  BY <1>0, <1>1, <1>6
<1>14. \A c \in Block : c \in s.free \ {b} \/ c \in X \/ Owns(d, c)
  BY <1>0, <1>6
<1>15. s.unused - 1 = Cardinality(s.free \ {b})
  BY <1>0, <1>10
<1> QED
  BY <1>0, <1>5, <1>11, <1>12, <1>13, <1>14, <1>15 DEF Good

(* sfs_bmap_load_nolock keeps what it works on in order, however it ends:  *)
(* after success the file has the block.                                   *)
Loaded(s, t, X) ==
    Good(t, X) /\ t.din.size = s.din.size /\ s.din.blocks <= t.din.blocks /\ t.ret # "truncate"

LEMMA GoodFields ==
    ASSUME NEW s, NEW X, Good(s, X)
    PROVE  /\ s = [din |-> s.din, free |-> s.free, unused |-> s.unused, ret |-> s.ret]
           /\ s.din = [size |-> s.din.size, blocks |-> s.din.blocks, map |-> s.din.map, indirect |-> s.din.indirect]
           /\ s.din.blocks \in Nat /\ s.din.size \in Nat /\ s.free \in SUBSET Block
BY DEF Good, FileRec

(* How a call ends makes no difference to what it works on.                *)
LEMMA EndsGood ==
    ASSUME NEW s, NEW X, Good(s, X), NEW r \in Endings, NEW t, t = [s EXCEPT !.ret = r]
    PROVE  Good(t, X) /\ t.din = s.din /\ t.ret = r
<1>1. s = [din |-> s.din, free |-> s.free, unused |-> s.unused, ret |-> s.ret]
  BY GoodFields
<1>2. t = [din |-> s.din, free |-> s.free, unused |-> s.unused, ret |-> r]
  BY <1>1
<1>3. t.din = s.din /\ t.free = s.free /\ t.unused = s.unused /\ t.ret = r
  BY <1>2
<1>4. s.din \in FileRec /\ s.free \in SUBSET Block /\ s.unused \in Nat
  BY DEF Good
<1>5. t \in [din : FileRec, free : SUBSET Block, unused : Nat, ret : Endings]
  BY <1>2, <1>4
<1> QED
  BY <1>3, <1>5 DEF Good

LEMMA LoadGood ==
    ASSUME SfsBlocksAssumption, NEW s, NEW X, Good(s, X), s.ret # "truncate", NEW i \in Nat, NEW t, t = BmapLoad(s, i)
    PROVE  Loaded(s, t, X) /\ (t.ret = "ok" => s.ret = "ok" /\ i < t.din.blocks)
<1>0. /\ s = [din |-> s.din, free |-> s.free, unused |-> s.unused, ret |-> s.ret]
      /\ s.din = [size |-> s.din.size, blocks |-> s.din.blocks, map |-> s.din.map, indirect |-> s.din.indirect]
      /\ s.din.blocks \in Nat /\ s.din.size \in Nat /\ s.free \in SUBSET Block
  BY GoodFields
<1>1. CASE s.ret # "ok"
  <2>1. t = s
    BY <1>1 DEF BmapLoad
  <2> QED
    BY <2>1, <1>0, <1>1 DEF Loaded
<1>2. CASE s.ret = "ok" /\ i > s.din.blocks
  <2>1. t = [s EXCEPT !.ret = "index"]
    BY <1>2 DEF BmapLoad
  <2>2. Good(t, X) /\ t.din = s.din /\ t.ret = "index"
    BY <2>1, EndsGood DEF Endings
  <2> QED
    BY <2>2, <1>0 DEF Loaded
<1>3. CASE s.ret = "ok" /\ i < s.din.blocks
  <2>1. t = s
    BY <1>0, <1>3 DEF BmapLoad
  <2> QED
    BY <2>1, <1>0, <1>3 DEF Loaded
<1>4. CASE s.ret = "ok" /\ i = s.din.blocks
  <2>1. PICK u : u = BmapCreate(s, i)
    OBVIOUS
  <2>2. t = IF u.ret = "ok" THEN [u EXCEPT !.din.blocks = @ + 1] ELSE u
    BY <2>1, <1>0, <1>4 DEF BmapLoad
  <2> DEFINE needs == IF i >= NDIRECT /\ s.din.indirect = 0 THEN 2 ELSE 1
             b == Min(s.free)
  <2>3. u = IF Cardinality(s.free) < needs THEN [s EXCEPT !.ret = "E_NO_MEM"]
            ELSE IF needs = 1 THEN [BlockAlloc(s) EXCEPT !.din.map[i] = b]
            ELSE [BlockAlloc(BlockAlloc(s)) EXCEPT !.din.indirect = b, !.din.map[i] = Min(BlockAlloc(s).free)]
    BY <2>1 DEF BmapCreate
  <2>4. IsFiniteSet(s.free) /\ Cardinality(s.free) \in Nat
    BY <1>0, IndexFacts, FS_Subset, FS_CardinalityType
  <2>5. i \in Index /\ s.din.map \in [Index -> Block \cup {0}]
    BY <1>4, HasRoom DEF Good, FileRec
  <2>6. CASE Cardinality(s.free) < needs
    <3>1. u = [s EXCEPT !.ret = "E_NO_MEM"]
      BY <2>3, <2>6
    <3>2. Good(u, X) /\ u.din = s.din /\ u.ret = "E_NO_MEM"
      BY <3>1, EndsGood DEF Endings
    <3> QED
      BY <3>2, <2>2, <1>0 DEF Loaded
  <2>7. CASE ~(Cardinality(s.free) < needs)
    <3>1. s.free # {} /\ b \in s.free
      <4>1. Cardinality(s.free) # 0
        BY <2>4, <2>7
      <4>2. s.free # {}
        BY <4>1, FS_EmptySet
      <4> QED
        BY <4>2, <1>0, FirstFree
    <3> HIDE DEF b
    <3>2. BlockAlloc(s) = [din |-> s.din, free |-> s.free \ {b}, unused |-> s.unused - 1, ret |-> s.ret]
      <4>1. PICK v : v = BlockAlloc(s)
        OBVIOUS
      <4>2. v = [s EXCEPT !.free = @ \ {b}, !.unused = @ - 1]
        BY <4>1 DEF BlockAlloc, b
      <4> QED
        BY <4>1, <4>2, <1>0
    <3>3. CASE needs = 1
      <4> DEFINE mp == [s.din.map EXCEPT ![s.din.blocks] = b]
                 d == [size |-> s.din.size, blocks |-> s.din.blocks + 1, map |-> mp, indirect |-> s.din.indirect]
                 v == [din |-> d, free |-> s.free \ {b}, unused |-> s.unused - 1, ret |-> s.ret]
      <4>1. PICK a : a = BlockAlloc(s)
        OBVIOUS
      <4>2. u = [a EXCEPT !.din.map[i] = b]
        BY <2>3, <2>7, <3>3, <4>1
      <4>3. a = [din |-> s.din, free |-> s.free \ {b}, unused |-> s.unused - 1, ret |-> s.ret]
        BY <4>1, <3>2
      <4>4. u = [din |-> [s.din EXCEPT !.map[i] = b], free |-> s.free \ {b}, unused |-> s.unused - 1, ret |-> s.ret]
        BY <4>2, <4>3
      <4>5. [s.din EXCEPT !.map[i] = b] = [size |-> s.din.size, blocks |-> s.din.blocks, map |-> mp, indirect |-> s.din.indirect]
        <5>1. PICK e : e = s.din
          OBVIOUS
        <5>2. PICK g : g = [e EXCEPT !.map[i] = b]
          OBVIOUS
        <5>3. e = [size |-> e.size, blocks |-> e.blocks, map |-> e.map, indirect |-> e.indirect]
          BY <5>1, <1>0
        <5>4. g = [size |-> e.size, blocks |-> e.blocks, map |-> [e.map EXCEPT ![i] = b], indirect |-> e.indirect]
          BY <5>2, <5>3
        <5> QED
          BY <5>1, <5>2, <5>4, <1>4
      <4> HIDE DEF mp
      <4>6. t = v
        <5>1. u.ret = "ok"
          BY <4>4, <1>4
        <5>2. t = [u EXCEPT !.din.blocks = @ + 1]
          BY <5>1, <2>2
        <5>3. u = [din |-> [size |-> s.din.size, blocks |-> s.din.blocks, map |-> mp, indirect |-> s.din.indirect],
                   free |-> s.free \ {b}, unused |-> s.unused - 1, ret |-> s.ret]
          BY <4>4, <4>5
        <5> QED
          BY <5>2, <5>3
      <4>7. s.din.blocks < NDIRECT \/ s.din.indirect # 0
        BY <3>3, <1>4, <1>0, IndexFacts
      <4>8. Good(v, X)
        BY <4>7, <3>1, TakesBlock DEF mp
      <4>9. v.ret = "ok" /\ v.din.blocks = s.din.blocks + 1 /\ v.din.size = s.din.size
        BY <1>4
      <4> HIDE DEF v
      <4> QED
        BY <4>6, <4>8, <4>9, <1>0, <1>4 DEF Loaded
    <3>4. CASE needs = 2
      <4>0. s.din.indirect = 0
        BY <3>4
      <4> DEFINE w == [din |-> [size |-> s.din.size, blocks |-> s.din.blocks, map |-> s.din.map, indirect |-> b],
                       free |-> s.free \ {b}, unused |-> s.unused - 1, ret |-> s.ret]
      <4>1. Good(w, X)
        BY <4>0, <3>1, TakesIndirect
      <4>2. /\ w.din = [size |-> s.din.size, blocks |-> s.din.blocks, map |-> s.din.map, indirect |-> b]
            /\ w.din.size = s.din.size /\ w.din.blocks = s.din.blocks /\ w.din.map = s.din.map /\ w.din.indirect = b
            /\ w.free = s.free \ {b} /\ w.unused = s.unused - 1 /\ w.ret = s.ret
        OBVIOUS
      <4> HIDE DEF w
      <4> DEFINE c == Min(w.free)
      <4>3. w.free \in SUBSET Block /\ c \in w.free
        <5>1. w.free \in SUBSET Block /\ Cardinality(w.free) = Cardinality(s.free) - 1
          BY <4>2, <3>1, <1>0, FreeLess
        <5>2. Cardinality(w.free) # 0
          BY <5>1, <2>4, <2>7, <3>4
        <5>3. w.free # {}
          BY <5>2, FS_EmptySet
        <5> QED
          BY <5>1, <5>3, FirstFree
      <4>4. PICK a : a = BlockAlloc(s)
        OBVIOUS
      <4>5. a = [din |-> s.din, free |-> w.free, unused |-> w.unused, ret |-> s.ret]
        BY <4>2, <4>4, <3>2
      <4>6. a.free = w.free
        BY <4>5
      <4>7. PICK a2 : a2 = BlockAlloc(a)
        OBVIOUS
      <4>8. a2 = [din |-> s.din, free |-> w.free \ {c}, unused |-> w.unused - 1, ret |-> s.ret]
        <5>1. a2 = [a EXCEPT !.free = @ \ {c}, !.unused = @ - 1]
          BY <4>6, <4>7 DEF BlockAlloc
        <5> HIDE DEF c
        <5> QED
          BY <5>1, <4>5
      <4>9. u = [a2 EXCEPT !.din.indirect = b, !.din.map[i] = c]
        BY <2>3, <2>7, <3>4, <4>4, <4>6, <4>7
      <4> HIDE DEF c
      <4> DEFINE mp == [w.din.map EXCEPT ![w.din.blocks] = c]
                 d == [size |-> w.din.size, blocks |-> w.din.blocks + 1, map |-> mp, indirect |-> w.din.indirect]
                 v == [din |-> d, free |-> w.free \ {c}, unused |-> w.unused - 1, ret |-> w.ret]
      <4>10. u = [din |-> [size |-> s.din.size, blocks |-> s.din.blocks, map |-> mp, indirect |-> b],
                  free |-> w.free \ {c}, unused |-> w.unused - 1, ret |-> s.ret]
        <5>1. PICK e : e = s.din
          OBVIOUS
        <5>2. PICK g : g = [e EXCEPT !.indirect = b, !.map[i] = c]
          OBVIOUS
        <5>3. e = [size |-> e.size, blocks |-> e.blocks, map |-> e.map, indirect |-> e.indirect]
          BY <5>1, <1>0
        <5>4. g = [size |-> e.size, blocks |-> e.blocks, map |-> [e.map EXCEPT ![i] = c], indirect |-> b]
          BY <5>2, <5>3
        <5>5. u = [din |-> g, free |-> w.free \ {c}, unused |-> w.unused - 1, ret |-> s.ret]
          BY <4>8, <4>9, <5>1, <5>2
        <5>6. [e.map EXCEPT ![i] = c] = mp
          BY <5>1, <4>2, <1>4
        <5> HIDE DEF mp
        <5> QED
          BY <5>1, <5>4, <5>5, <5>6
      <4> HIDE DEF mp
      <4>11. t = [din |-> [size |-> s.din.size, blocks |-> s.din.blocks + 1, map |-> mp, indirect |-> b],
                  free |-> w.free \ {c}, unused |-> w.unused - 1, ret |-> s.ret]
        <5>1. u.ret = "ok"
          BY <4>10, <1>4
        <5>2. t = [u EXCEPT !.din.blocks = @ + 1]
          BY <5>1, <2>2
        <5> QED
          BY <5>2, <4>10
      <4>12. t = v
        BY <4>11, <4>2
      <4>13. b # 0
        BY <3>1, <1>0, IndexFacts
      <4>14. Good(v, X)
        BY <4>1, <4>2, <4>3, <4>13, TakesBlock DEF mp
      <4>15. v.ret = "ok" /\ v.din.blocks = s.din.blocks + 1 /\ v.din.size = s.din.size
        BY <1>4, <4>2
      <4> HIDE DEF v
      <4> QED
        BY <4>12, <4>14, <4>15, <1>0, <1>4 DEF Loaded
    <3> QED
      BY <3>3, <3>4
  <2> QED
    BY <2>6, <2>7
<1> QED
  BY <1>0, <1>1, <1>2, <1>3, <1>4

(* sfs_bmap_truncate_nolock gives back the last block of the file.         *)
Truncated(s, t, X) ==
    Good(t, X) /\ t.din.size = s.din.size /\ t.din.blocks = s.din.blocks - 1 /\ t.ret = s.ret

LEMMA FreeMore ==
    ASSUME SfsBlocksAssumption, NEW F \in SUBSET Block, NEW b \in Block, b \notin F
    PROVE  /\ Cardinality(F) \in Nat /\ F \cup {b} \in SUBSET Block
           /\ Cardinality(F \cup {b}) = Cardinality(F) + 1
<1>1. IsFiniteSet(F) /\ Cardinality(F) \in Nat
  BY IndexFacts, FS_Subset, FS_CardinalityType
<1> QED
  BY <1>1, FS_AddElement

LEMMA TruncateGood ==
    ASSUME SfsBlocksAssumption, NEW s, NEW X, Good(s, X), NEW i \in Nat, s.din.blocks = i + 1,
           NEW t, t = BmapTruncate(s, i)
    PROVE  Truncated(s, t, X)
<1> DEFINE e == s.din
           b == s.din.map[i]
           mp == [s.din.map EXCEPT ![i] = 0]
           d == [size |-> s.din.size, blocks |-> i, map |-> mp, indirect |-> s.din.indirect]
<1>0. /\ e \in FileRec /\ e.size \in Nat /\ e.blocks \in Nat /\ e.map \in [Index -> Block \cup {0}]
      /\ e.indirect \in Block \cup {0} /\ s.free \in SUBSET Block /\ s.unused \in Nat /\ s.ret \in Endings
      /\ Dense(e) /\ s.unused = Cardinality(s.free)
      /\ \A c : Owns(e, c) => c \in Block /\ c \notin s.free /\ c \notin X
      /\ \A c \in s.free : c \notin X
      /\ \A c \in Block : c \in s.free \/ c \in X \/ Owns(e, c)
      /\ e = [size |-> e.size, blocks |-> e.blocks, map |-> e.map, indirect |-> e.indirect]
      /\ s = [din |-> s.din, free |-> s.free, unused |-> s.unused, ret |-> s.ret]
  BY GoodFields DEF Good, FileRec
<1>1. i \in Index /\ i < NDIRECT + NENTRY
  <2>1. e.blocks <= NDIRECT + NENTRY
    BY <1>0 DEF Dense
  <2> QED
    BY <2>1, IndexFacts
<1>2. b # 0 /\ \A j \in Index : e.map[j] # 0 <=> j < i + 1
  BY <1>0, <1>1 DEF Dense
<1>3. /\ Owns(e, b) /\ b \in Block /\ b \notin s.free /\ b \notin X
      /\ mp \in [Index -> Block \cup {0}] /\ \A j \in Index : mp[j] = IF j = i THEN 0 ELSE e.map[j]
  <2>1. Owns(e, b)
    BY <1>1, <1>2 DEF Owns
  <2> QED
    BY <2>1, <1>0, <1>1
<1>4. t = [din |-> d, free |-> s.free \cup {b}, unused |-> s.unused + 1, ret |-> s.ret]
  <2>1. PICK a : a = BlockFree(s, b)
    OBVIOUS
  <2>2. a = [din |-> e, free |-> s.free \cup {b}, unused |-> s.unused + 1, ret |-> s.ret]
    <3>1. a = [s EXCEPT !.free = @ \cup {b}, !.unused = @ + 1]
      BY <2>1 DEF BlockFree
    <3> HIDE DEF b
    <3> QED
      BY <3>1, <1>0
  <2>3. t = [a EXCEPT !.din.map[i] = 0, !.din.blocks = @ - 1]
    BY <2>1 DEF BmapTruncate
  <2> HIDE DEF b
  <2>4. t = [din |-> [e EXCEPT !.map[i] = 0, !.blocks = @ - 1], free |-> s.free \cup {b}, unused |-> s.unused + 1, ret |-> s.ret]
    BY <2>2, <2>3
  <2>5. PICK h : h = e
    OBVIOUS
  <2>6. PICK g : g = [h EXCEPT !.map[i] = 0, !.blocks = @ - 1]
    OBVIOUS
  <2>7. h = [size |-> h.size, blocks |-> h.blocks, map |-> h.map, indirect |-> h.indirect]
    BY <2>5, <1>0
  <2>8. g = [size |-> h.size, blocks |-> h.blocks - 1, map |-> [h.map EXCEPT ![i] = 0], indirect |-> h.indirect]
    BY <2>6, <2>7
  <2>9. h.blocks - 1 = i
    BY <2>5
  <2>10. g = d
    BY <2>5, <2>8, <2>9
  <2> HIDE DEF d
  <2> QED
    BY <2>4, <2>5, <2>6, <2>10
<1> HIDE DEF mp, b, e
<1>5. /\ d = [size |-> e.size, blocks |-> i, map |-> mp, indirect |-> e.indirect]
      /\ d \in FileRec /\ d.blocks = i /\ d.map = mp /\ d.indirect = e.indirect /\ d.size = e.size
  <2>1. d = [size |-> e.size, blocks |-> i, map |-> mp, indirect |-> e.indirect]
    BY DEF e
  <2> HIDE DEF d
  <2> QED
    BY <2>1, <1>0, <1>3 DEF FileRec
<1> HIDE DEF d
<1>6. Dense(d)
  <2>1. d.blocks <= NDIRECT + NENTRY
    BY <1>1, <1>5, IndexFacts
  <2>2. \A j \in Index : d.map[j] # 0 <=> j < d.blocks
    <3> SUFFICES ASSUME NEW j \in Index PROVE d.map[j] # 0 <=> j < d.blocks
      OBVIOUS
    <3>1. j \in Nat
      BY IndexFacts
    <3> QED
      BY <3>1, <1>2, <1>3, <1>5
  <2>3. d.blocks > NDIRECT => d.indirect # 0
    <3>1. e.blocks = i + 1 /\ (e.blocks > NDIRECT => e.indirect # 0)
      BY <1>0 DEF Dense, e
    <3> QED
      BY <3>1, <1>5, IndexFacts
  <2>4. \A j, k \in Index : j # k /\ d.map[j] # 0 => d.map[j] # d.map[k]
    BY <1>0, <1>3, <1>5 DEF Dense
  <2>5. \A j \in Index : d.map[j] # 0 => d.map[j] # d.indirect
    BY <1>0, <1>3, <1>5 DEF Dense
  <2> QED
    BY <2>1, <2>2, <2>3, <2>4, <2>5, <1>5 DEF Dense
<1>7. \A c : Owns(d, c) <=> c # b /\ Owns(e, c)
  <2>1. e.map[i] = b
    BY DEF e, b
  <2>2. \A j \in Index : j # i => e.map[j] # b
    BY <2>1, <1>0, <1>1, <1>2 DEF Dense
  <2>3. e.indirect # b
    BY <2>1, <1>0, <1>1, <1>2 DEF Dense
  <2> QED
    BY <2>1, <2>2, <2>3, <1>1, <1>3, <1>5 DEF Owns
<1>8. /\ s.free \cup {b} \in SUBSET Block /\ s.unused + 1 = Cardinality(s.free \cup {b})
  BY <1>0, <1>3, FreeMore
<1>9. t \in [din : FileRec, free : SUBSET Block, unused : Nat, ret : Endings]
  BY <1>0, <1>4, <1>5, <1>8
<1>10. t.din = d /\ t.free = s.free \cup {b} /\ t.unused = s.unused + 1 /\ t.ret = s.ret
  BY <1>4
<1>11. \A c : Owns(d, c) => c \in Block /\ c \notin s.free \cup {b} /\ c \notin X
  BY <1>0, <1>7
<1>12. \A c \in Block : c \in s.free \cup {b} \/ c \in X \/ Owns(d, c)
  BY <1>0, <1>7
<1>13. Good(t, X)
  BY <1>0, <1>3, <1>6, <1>8, <1>9, <1>10, <1>11, <1>12 DEF Good
<1> QED
  BY <1>5, <1>10, <1>13 DEF Truncated, e

---------------------------------------------------------------------------
(* Loops over blocks: the functions that follow a loop exist, and what     *)
(* every turn keeps holds at the end.                                      *)
IsLoad(w, s, i, m) == w = [k \in i .. m |-> IF k = i THEN s ELSE BmapLoad(w[k - 1], k - 1)]

LEMMA LoadExists ==
    ASSUME NEW s, NEW i \in Nat, NEW j \in Nat, i <= j
    PROVE  \E w : IsLoad(w, s, i, j)
<1> DEFINE Bad == {m \in Nat : i <= m /\ ~ \E w : IsLoad(w, s, i, m)}
<1> SUFFICES ASSUME Bad # {} PROVE FALSE
  OBVIOUS
<1>1. PICK m \in Bad : \A n \in Bad : m <= n
  <2>1. Bad \in SUBSET Nat
    OBVIOUS
  <2> HIDE DEF Bad
  <2> QED
    BY <2>1, Least
<1>2. m \in Nat /\ i <= m /\ ~ \E w : IsLoad(w, s, i, m)
  OBVIOUS
<1>3. m # i
  <2> SUFFICES ASSUME m = i PROVE FALSE
    OBVIOUS
  <2>1. PICK w : w = [k \in i .. i |-> s]
    OBVIOUS
  <2>2. \A k \in i .. i : k = i
    OBVIOUS
  <2>3. w = [k \in i .. i |-> IF k = i THEN s ELSE BmapLoad(w[k - 1], k - 1)]
    BY <2>1, <2>2
  <2> QED
    BY <2>3, <1>2 DEF IsLoad
<1>4. m - 1 \in Nat /\ i <= m - 1
  BY <1>2, <1>3
<1>5. m - 1 \notin Bad
  BY <1>1, <1>2, <1>4
<1>6. PICK w : IsLoad(w, s, i, m - 1)
  BY <1>4, <1>5
<1>7. PICK v : v = [k \in i .. m |-> IF k = m THEN BmapLoad(w[m - 1], m - 1) ELSE w[k]]
  OBVIOUS
<1>8. ASSUME NEW k \in i .. m
      PROVE  v[k] = IF k = i THEN s ELSE BmapLoad(v[k - 1], k - 1)
  <2>1. CASE k = m
    <3>1. m - 1 \in i .. m /\ m - 1 # m /\ k # i
      BY <2>1, <1>2, <1>3, <1>4
    <3>2. v[m - 1] = w[m - 1]
      BY <3>1, <1>7
    <3> QED
      BY <2>1, <3>1, <3>2, <1>7
  <2>2. CASE k # m
    <3>1. k \in i .. m - 1
      BY <2>2, <1>2
    <3>2. v[k] = w[k]
      BY <2>2, <1>7
    <3>3. w[k] = IF k = i THEN s ELSE BmapLoad(w[k - 1], k - 1)
      BY <3>1, <1>6 DEF IsLoad
    <3>4. CASE k = i
      BY <3>2, <3>3, <3>4
    <3>5. CASE k # i
      <4>1. k - 1 \in i .. m /\ k - 1 # m
        BY <3>1, <3>5, <1>2
      <4>2. v[k - 1] = w[k - 1]
        BY <4>1, <1>7
      <4> QED
        BY <4>2, <3>2, <3>3, <3>5
    <3> QED
      BY <3>4, <3>5
  <2> QED
    BY <2>1, <2>2
<1>9. v = [k \in i .. m |-> v[k]]
  BY <1>7
<1>10. v = [k \in i .. m |-> IF k = i THEN s ELSE BmapLoad(v[k - 1], k - 1)]
  BY <1>8, <1>9
<1> QED
  BY <1>2, <1>10 DEF IsLoad

LEMMA LoadBlocksIs ==
    ASSUME NEW s, NEW i \in Nat, NEW j \in Nat, i <= j
    PROVE  \E w : IsLoad(w, s, i, j) /\ LoadBlocks(s, i, j) = w[j]
<1> DEFINE w == CHOOSE v : IsLoad(v, s, i, j)
<1>1. IsLoad(w, s, i, j)
  BY LoadExists
<1>2. LoadBlocks(s, i, j) = w[j]
  BY DEF LoadBlocks, IsLoad
<1> QED
  BY <1>1, <1>2

LEMMA LoadBlocksGood ==
    ASSUME SfsBlocksAssumption, NEW s, NEW X, Good(s, X), s.ret # "truncate", NEW i \in Nat, NEW j \in Nat, i <= j,
           NEW t, t = LoadBlocks(s, i, j)
    PROVE  Loaded(s, t, X) /\ (t.ret = "ok" => i = j \/ j <= t.din.blocks)
<1>1. PICK w : IsLoad(w, s, i, j) /\ t = w[j]
  BY LoadBlocksIs
<1> DEFINE P(k) == Loaded(s, w[k], X) /\ (w[k].ret = "ok" => i = k \/ k <= w[k].din.blocks)
           Bad == {k \in i .. j : ~ P(k)}
<1> SUFFICES ASSUME Bad # {} PROVE FALSE
  <2>1. j \in i .. j
    OBVIOUS
  <2> QED
    BY <2>1, <1>1
<1>2. PICK k \in Bad : \A n \in Bad : k <= n
  <2>1. Bad \in SUBSET Nat
    OBVIOUS
  <2> HIDE DEF Bad
  <2> QED
    BY <2>1, Least
<1>3. k \in i .. j /\ ~ P(k)
  OBVIOUS
<1>4. w[k] = IF k = i THEN s ELSE BmapLoad(w[k - 1], k - 1)
  BY <1>1, <1>3 DEF IsLoad
<1>5. CASE k = i
  <2>1. w[k] = s
    BY <1>4, <1>5
  <2>2. s.din.blocks \in Nat
    BY GoodFields
  <2>3. Loaded(s, s, X)
    BY <2>2 DEF Loaded
  <2> QED
    BY <2>1, <2>3, <1>3, <1>5
<1>6. CASE k # i
  <2>1. k - 1 \in i .. j /\ k - 1 \in Nat /\ ~(k <= k - 1)
    BY <1>3, <1>6
  <2>2. P(k - 1)
    BY <2>1, <1>2
  <2>3. PICK u : u = w[k - 1]
    OBVIOUS
  <2>4. PICK v : v = w[k]
    OBVIOUS
  <2>5. v = BmapLoad(u, k - 1)
    BY <2>3, <2>4, <1>4, <1>6
  <2>6. Good(u, X) /\ u.din.size = s.din.size /\ s.din.blocks <= u.din.blocks /\ u.ret # "truncate"
    BY <2>2, <2>3 DEF Loaded
  <2>7. Loaded(u, v, X) /\ (v.ret = "ok" => k - 1 < v.din.blocks)
    BY <2>1, <2>5, <2>6, LoadGood
  <2>8. Good(v, X) /\ v.din.size = u.din.size /\ u.din.blocks <= v.din.blocks /\ v.ret # "truncate"
    BY <2>7 DEF Loaded
  <2>9. s.din.blocks \in Nat /\ u.din.blocks \in Nat /\ v.din.blocks \in Nat
    BY <2>6, <2>8, GoodFields
  <2>10. Loaded(s, v, X)
    BY <2>6, <2>8, <2>9 DEF Loaded
  <2>11. v.ret = "ok" => k <= v.din.blocks
    BY <2>7, <2>9, <1>3
  <2> QED
    BY <2>4, <2>10, <2>11, <1>3
<1> QED
  BY <1>5, <1>6

IsTruncate(w, s, i, m) == w = [k \in m .. i |-> IF k = i THEN s ELSE BmapTruncate(w[k + 1], k)]

LEMMA TruncateExists ==
    ASSUME NEW s, NEW i \in Nat, NEW j \in Nat, j <= i
    PROVE  \E w : IsTruncate(w, s, i, j)
<1> DEFINE Bad == {n \in 0 .. i - j : ~ \E w : IsTruncate(w, s, i, i - n)}
<1> SUFFICES ASSUME Bad # {} PROVE FALSE
  <2>1. i - j \in 0 .. i - j /\ i - (i - j) = j
    OBVIOUS
  <2>2. \E w : IsTruncate(w, s, i, i - (i - j))
    BY <2>1
  <2> QED
    BY <2>1, <2>2
<1>1. PICK n \in Bad : \A l \in Bad : n <= l
  <2>1. Bad \in SUBSET Nat
    OBVIOUS
  <2> HIDE DEF Bad
  <2> QED
    BY <2>1, Least
<1>2. PICK m : m = i - n
  OBVIOUS
<1>3. n \in 0 .. i - j /\ m \in Nat /\ j <= m /\ m <= i /\ ~ \E w : IsTruncate(w, s, i, m)
  BY <1>2
<1>4. m # i
  <2> SUFFICES ASSUME m = i PROVE FALSE
    OBVIOUS
  <2>1. PICK w : w = [k \in i .. i |-> s]
    OBVIOUS
  <2>2. \A k \in i .. i : k = i
    OBVIOUS
  <2>3. w = [k \in i .. i |-> IF k = i THEN s ELSE BmapTruncate(w[k + 1], k)]
    BY <2>1, <2>2
  <2> QED
    BY <2>3, <1>3 DEF IsTruncate
<1>5. n - 1 \in 0 .. i - j /\ ~(n <= n - 1) /\ i - (n - 1) = m + 1 /\ m + 1 <= i
  BY <1>2, <1>3, <1>4
<1>6. n - 1 \notin Bad
  BY <1>1, <1>5
<1>7. PICK w : IsTruncate(w, s, i, m + 1)
  <2>1. \E w : IsTruncate(w, s, i, i - (n - 1))
    BY <1>5, <1>6
  <2> QED
    BY <2>1, <1>5
<1>8. PICK v : v = [k \in m .. i |-> IF k = m THEN BmapTruncate(w[m + 1], m) ELSE w[k]]
  OBVIOUS
<1>9. ASSUME NEW k \in m .. i
      PROVE  v[k] = IF k = i THEN s ELSE BmapTruncate(v[k + 1], k)
  <2>1. CASE k = m
    <3>1. m + 1 \in m .. i /\ m + 1 # m /\ k # i
      BY <2>1, <1>3, <1>4, <1>5
    <3>2. v[m + 1] = w[m + 1]
      BY <3>1, <1>8
    <3> QED
      BY <2>1, <3>1, <3>2, <1>8
  <2>2. CASE k # m
    <3>1. k \in m + 1 .. i
      BY <2>2, <1>3
    <3>2. v[k] = w[k]
      BY <2>2, <1>8
    <3>3. w[k] = IF k = i THEN s ELSE BmapTruncate(w[k + 1], k)
      BY <3>1, <1>7 DEF IsTruncate
    <3>4. CASE k = i
      BY <3>2, <3>3, <3>4
    <3>5. CASE k # i
      <4>1. k + 1 \in m .. i /\ k + 1 # m
        BY <3>1, <3>5, <1>3
      <4>2. v[k + 1] = w[k + 1]
        BY <4>1, <1>8
      <4> QED
        BY <4>2, <3>2, <3>3, <3>5
    <3> QED
      BY <3>4, <3>5
  <2> QED
    BY <2>1, <2>2
<1>10. v = [k \in m .. i |-> v[k]]
  BY <1>8
<1>11. v = [k \in m .. i |-> IF k = i THEN s ELSE BmapTruncate(v[k + 1], k)]
  BY <1>9, <1>10
<1> QED
  BY <1>3, <1>11 DEF IsTruncate

LEMMA TruncateBlocksIs ==
    ASSUME NEW s, NEW i \in Nat, NEW j \in Nat, j <= i
    PROVE  \E w : IsTruncate(w, s, i, j) /\ TruncateBlocks(s, i, j) = w[j]
<1> DEFINE w == CHOOSE v : IsTruncate(v, s, i, j)
<1>1. IsTruncate(w, s, i, j)
  BY TruncateExists
<1>2. TruncateBlocks(s, i, j) = w[j]
  BY DEF TruncateBlocks, IsTruncate
<1> QED
  BY <1>1, <1>2

LEMMA TruncateBlocksGood ==
    ASSUME SfsBlocksAssumption, NEW s, NEW X, Good(s, X), NEW i \in Nat, NEW j \in Nat, j <= i, s.din.blocks = i,
           NEW t, t = TruncateBlocks(s, i, j)
    PROVE  Good(t, X) /\ t.din.size = s.din.size /\ t.din.blocks = j /\ t.ret = s.ret
<1>1. PICK w : IsTruncate(w, s, i, j) /\ t = w[j]
  BY TruncateBlocksIs
<1> DEFINE P(k) == Good(w[k], X) /\ w[k].din.size = s.din.size /\ w[k].din.blocks = k /\ w[k].ret = s.ret
           Bad == {n \in 0 .. i - j : ~ P(i - n)}
<1> SUFFICES ASSUME Bad # {} PROVE FALSE
  <2>1. i - j \in 0 .. i - j /\ i - (i - j) = j
    OBVIOUS
  <2>2. P(i - (i - j))
    BY <2>1
  <2> QED
    BY <2>1, <2>2, <1>1
<1>2. PICK n \in Bad : \A l \in Bad : n <= l
  <2>1. Bad \in SUBSET Nat
    OBVIOUS
  <2> HIDE DEF Bad
  <2> QED
    BY <2>1, Least
<1>3. PICK k : k = i - n
  OBVIOUS
<1>4. n \in 0 .. i - j /\ k \in j .. i /\ k \in Nat /\ ~ P(k)
  BY <1>3
<1>5. w[k] = IF k = i THEN s ELSE BmapTruncate(w[k + 1], k)
  BY <1>1, <1>4 DEF IsTruncate
<1>6. CASE k = i
  BY <1>4, <1>5, <1>6
<1>7. CASE k # i
  <2>1. n - 1 \in 0 .. i - j /\ ~(n <= n - 1) /\ i - (n - 1) = k + 1
    BY <1>3, <1>4, <1>7
  <2>2. P(k + 1)
    <3>1. P(i - (n - 1))
      BY <2>1, <1>2
    <3> QED
      BY <3>1, <2>1
  <2>3. PICK u : u = w[k + 1]
    OBVIOUS
  <2>4. PICK v : v = w[k]
    OBVIOUS
  <2>5. v = BmapTruncate(u, k)
    BY <2>3, <2>4, <1>5, <1>7
  <2>6. Good(u, X) /\ u.din.size = s.din.size /\ u.din.blocks = k + 1 /\ u.ret = s.ret
    BY <2>2, <2>3
  <2>7. Truncated(u, v, X)
    BY <2>5, <2>6, <1>4, TruncateGood
  <2>8. Good(v, X) /\ v.din.size = s.din.size /\ v.din.blocks = k /\ v.ret = s.ret
    BY <2>6, <2>7, <1>4 DEF Truncated
  <2> QED
    BY <2>4, <2>8, <1>4
<1> QED
  BY <1>6, <1>7

---------------------------------------------------------------------------
LEMMA MinMaxOfTwo ==
    ASSUME NEW a \in Nat, NEW b \in Nat
    PROVE  /\ Min({a, b}) \in {a, b} /\ Min({a, b}) <= a /\ Min({a, b}) <= b
           /\ Max({a, b}) \in {a, b} /\ a <= Max({a, b}) /\ b <= Max({a, b})
<1>1. \E x \in {a, b} : \A y \in {a, b} : x <= y
  OBVIOUS
<1>2. \E x \in {a, b} : \A y \in {a, b} : x >= y
  OBVIOUS
<1>3. Min({a, b}) \in {a, b} /\ \A y \in {a, b} : Min({a, b}) <= y
  BY <1>1 DEF Min
<1>4. Max({a, b}) \in {a, b} /\ \A y \in {a, b} : Max({a, b}) >= y
  BY <1>2 DEF Max
<1>5. Max({a, b}) \in Nat
  BY <1>4
<1> QED
  BY <1>3, <1>4, <1>5

(* What a call leaves, unless an assertion stopped it: a good state whose  *)
(* blocks have room for the file's bytes.                                  *)
Result(t, X) == Good(t, X) /\ (t.ret \in {"ok", "E_NO_MEM"} => Sized(t.din))

LEMMA SizeGood ==
    ASSUME NEW s, NEW X, Good(s, X), NEW n \in Nat, NEW t, t = [s EXCEPT !.din.size = n]
    PROVE  Good(t, X) /\ t.din.size = n /\ t.din.blocks = s.din.blocks /\ t.ret = s.ret
<1>0. /\ s = [din |-> s.din, free |-> s.free, unused |-> s.unused, ret |-> s.ret]
      /\ s.din = [size |-> s.din.size, blocks |-> s.din.blocks, map |-> s.din.map, indirect |-> s.din.indirect]
  BY GoodFields
<1>1. PICK e : e = s.din
  OBVIOUS
<1>2. PICK d : d = [e EXCEPT !.size = n]
  OBVIOUS
<1>3. e = [size |-> e.size, blocks |-> e.blocks, map |-> e.map, indirect |-> e.indirect]
  BY <1>0, <1>1
<1>4. d = [size |-> n, blocks |-> e.blocks, map |-> e.map, indirect |-> e.indirect]
  BY <1>2, <1>3
<1>5. t = [din |-> d, free |-> s.free, unused |-> s.unused, ret |-> s.ret]
  BY <1>0, <1>1, <1>2
<1>6. t.din = d /\ t.free = s.free /\ t.unused = s.unused /\ t.ret = s.ret
  BY <1>5
<1>7. d.size = n /\ d.blocks = e.blocks /\ d.map = e.map /\ d.indirect = e.indirect
  BY <1>4
<1>8. e \in FileRec /\ s.free \in SUBSET Block /\ s.unused \in Nat /\ s.ret \in Endings /\ Dense(e)
  BY <1>1 DEF Good
<1>9. d \in FileRec
  BY <1>4, <1>8 DEF FileRec
<1>10. t \in [din : FileRec, free : SUBSET Block, unused : Nat, ret : Endings]
  <2>1. PICK v : v = [din |-> d, free |-> s.free, unused |-> s.unused, ret |-> s.ret]
    OBVIOUS
  <2>2. v \in [din : FileRec, free : SUBSET Block, unused : Nat, ret : Endings]
    BY <2>1, <1>8, <1>9
  <2>3. t = v
    BY <2>1, <1>5
  <2> QED
    BY <2>2, <2>3
<1>11. Dense(d)
  BY <1>7, <1>8, <1>9 DEF Dense
<1>12. \A c : Owns(d, c) <=> Owns(e, c)
  BY <1>7 DEF Owns
<1>13. Good(t, X)
  BY <1>1, <1>6, <1>10, <1>11, <1>12 DEF Good
<1> QED
  BY <1>1, <1>6, <1>7, <1>13

(* More blocks for as many bytes.                                          *)
LEMMA StaysSized ==
    ASSUME SfsBlocksAssumption, NEW s, NEW t, NEW X, Good(s, X), Loaded(s, t, X), Sized(s.din)
    PROVE  Sized(t.din)
<1>1. Good(t, X) /\ t.din.size = s.din.size /\ s.din.blocks <= t.din.blocks
  BY DEF Loaded
<1>2. s.din.blocks \in Nat /\ t.din.blocks \in Nat /\ s.din.size \in Nat
  BY <1>1, GoodFields
<1>3. s.din.blocks * BLKSIZE <= t.din.blocks * BLKSIZE
  BY <1>1, <1>2, MoreRoom, IndexFacts
<1>4. s.din.blocks * BLKSIZE \in Int /\ t.din.blocks * BLKSIZE \in Int
  BY <1>2, IndexFacts
<1> QED
  BY <1>1, <1>2, <1>3, <1>4 DEF Sized

(* sfs_truncfile.                                                          *)
LEMMA TruncFileResult ==
    ASSUME SfsBlocksAssumption, NEW s, NEW X, Good(s, X), Sized(s.din), s.ret = "ok", NEW bytes \in Nat,
           NEW r, r = TruncFile(s, bytes)
    PROVE  Result(r, X)
<1> DEFINE tblks == RoundUp(bytes)
           nblks == s.din.blocks
<1>0. tblks \in Nat /\ nblks \in Nat /\ BLKSIZE \in Nat \ {0}
  BY RoomFor, GoodFields, IndexFacts
<1>1. bytes <= tblks * BLKSIZE
  BY <1>0, RoomFor
<1>2. PICK t : t = IF nblks < tblks THEN LoadBlocks(s, nblks, tblks) ELSE TruncateBlocks(s, nblks, tblks)
  OBVIOUS
<1>3. r = IF s.din.size = bytes THEN IF tblks = nblks THEN s ELSE [s EXCEPT !.ret = "truncate"]
          ELSE IF t.ret = "ok" THEN [t EXCEPT !.din.size = bytes] ELSE t
  BY <1>2 DEF TruncFile
<1> HIDE DEF tblks
<1>4. CASE s.din.size = bytes
  <2>1. CASE r = s
    BY <2>1 DEF Result
  <2>2. CASE r = [s EXCEPT !.ret = "truncate"]
    <3>1. Good(r, X) /\ r.ret = "truncate"
      BY <2>2, EndsGood DEF Endings
    <3> QED
      BY <3>1 DEF Result
  <2> QED
    BY <2>1, <2>2, <1>3, <1>4
<1>5. CASE s.din.size # bytes
  <2>0. r = IF t.ret = "ok" THEN [t EXCEPT !.din.size = bytes] ELSE t
    BY <1>3, <1>5
  <2>1. Good(t, X) /\ (t.ret = "ok" => tblks <= t.din.blocks) /\ (t.ret = "E_NO_MEM" => Sized(t.din))
    <3>1. CASE nblks < tblks
      <4>1. t = LoadBlocks(s, nblks, tblks)
        BY <3>1, <1>2
      <4>2. Loaded(s, t, X) /\ (t.ret = "ok" => nblks = tblks \/ tblks <= t.din.blocks)
        BY <4>1, <3>1, <1>0, LoadBlocksGood
      <4>3. Good(t, X)
        BY <4>2 DEF Loaded
      <4>4. Sized(t.din)
        BY <4>2, StaysSized
      <4> QED
        BY <4>2, <4>3, <4>4, <3>1, <1>0
    <3>2. CASE ~(nblks < tblks)
      <4>1. t = TruncateBlocks(s, nblks, tblks) /\ tblks <= nblks
        BY <3>2, <1>0, <1>2
      <4>2. Good(t, X) /\ t.din.blocks = tblks /\ t.ret = s.ret
        BY <4>1, <1>0, TruncateBlocksGood
      <4> QED
        BY <4>2, <1>0
    <3> QED
      BY <3>1, <3>2
  <2>2. CASE t.ret = "ok"
    <3>1. r = [t EXCEPT !.din.size = bytes]
      BY <2>0, <2>2
    <3>2. Good(r, X) /\ r.din.size = bytes /\ r.din.blocks = t.din.blocks
      BY <3>1, <2>1, SizeGood
    <3>3. t.din.blocks \in Nat
      BY <2>1, GoodFields
    <3>4. tblks * BLKSIZE <= t.din.blocks * BLKSIZE
      BY <2>1, <2>2, <3>3, <1>0, MoreRoom
    <3>5. tblks * BLKSIZE \in Int /\ t.din.blocks * BLKSIZE \in Int
      BY <3>3, <1>0
    <3>6. Sized(r.din)
      BY <3>2, <3>4, <3>5, <1>1 DEF Sized
    <3> QED
      BY <3>2, <3>6 DEF Result
  <2>3. CASE t.ret # "ok"
    BY <2>0, <2>1, <2>3 DEF Result
  <2> QED
    BY <2>2, <2>3
<1> QED
  BY <1>4, <1>5

(* sfs_io_nolock, writing.                                                 *)
LEMMA WriteResult ==
    ASSUME SfsBlocksAssumption, NEW s, NEW X, Good(s, X), Sized(s.din), s.ret = "ok",
           NEW p \in Nat, p < MAX_FILE_SIZE, NEW n \in Nat \ {0}, NEW w, w = WriteEnd(s, p, n)
    PROVE  Result(w.s, X) /\ w.end \in Nat
<1> DEFINE end == Min({p + n, MAX_FILE_SIZE})
<1>0. BLKSIZE \in Nat \ {0} /\ MAX_FILE_SIZE \in Nat
  BY IndexFacts
<1>1. end \in Nat /\ p < end
  <2>1. end \in {p + n, MAX_FILE_SIZE}
    BY <1>0, MinMaxOfTwo
  <2> HIDE DEF end
  <2> QED
    BY <2>1, <1>0
<1> DEFINE i == p \div BLKSIZE
           j == RoundUp(end)
<1>2. PICK t : t = LoadBlocks(s, i, j)
  OBVIOUS
<1>3. PICK done : done = IF t.ret = "ok" THEN end ELSE Max({p, t.din.blocks * BLKSIZE})
  OBVIOUS
<1>4. PICK size : size = IF done > p /\ done > t.din.size THEN done ELSE t.din.size
  OBVIOUS
<1>5. w.s = [t EXCEPT !.din.size = size] /\ w.end = done
  <2>1. w = [s |-> [t EXCEPT !.din.size = IF done > p /\ done > @ THEN done ELSE @], end |-> done]
    BY <1>2, <1>3 DEF WriteEnd
  <2>2. w.s = [t EXCEPT !.din.size = IF done > p /\ done > @ THEN done ELSE @] /\ w.end = done
    BY <2>1
  <2> QED
    BY <2>2, <1>4
<1> HIDE DEF end
<1>6. i \in Nat /\ j \in Nat /\ i < j /\ end <= j * BLKSIZE
  BY <1>0, <1>1, SomeBlock, RoomFor
<1> HIDE DEF i, j
<1>7. Loaded(s, t, X) /\ (t.ret = "ok" => j <= t.din.blocks)
  <2>1. i <= j /\ i # j
    BY <1>6
  <2> QED
    BY <2>1, <1>2, <1>6, LoadBlocksGood
<1>8. Good(t, X) /\ Sized(t.din) /\ t.din.blocks \in Nat /\ t.din.size \in Nat
  <2>1. Good(t, X)
    BY <1>7 DEF Loaded
  <2> QED
    BY <2>1, <1>7, StaysSized, GoodFields
<1>9. PICK room : room = t.din.blocks * BLKSIZE
  OBVIOUS
<1>10. room \in Nat /\ t.din.size <= room
  BY <1>0, <1>8, <1>9 DEF Sized
<1>11. done \in Nat /\ (done > p => done <= room)
  <2>1. CASE t.ret = "ok"
    <3>1. j * BLKSIZE <= room /\ j * BLKSIZE \in Int
      BY <2>1, <1>0, <1>6, <1>7, <1>8, <1>9, MoreRoom
    <3> QED
      BY <2>1, <3>1, <1>1, <1>3, <1>6, <1>10
  <2>2. CASE t.ret # "ok"
    <3>1. done = Max({p, room})
      BY <2>2, <1>3, <1>9
    <3>2. done \in {p, room}
      BY <3>1, <1>10, MinMaxOfTwo
    <3> QED
      BY <3>2, <1>10
  <2> QED
    BY <2>1, <2>2
<1>12. size \in Nat /\ size <= room
  BY <1>4, <1>8, <1>10, <1>11
<1>13. PICK r : r = w.s
  OBVIOUS
<1>14. Good(r, X) /\ r.din.size = size /\ r.din.blocks = t.din.blocks
  BY <1>5, <1>8, <1>12, <1>13, SizeGood
<1>15. Sized(r.din)
  BY <1>9, <1>12, <1>14 DEF Sized
<1> QED
  BY <1>5, <1>11, <1>13, <1>14, <1>15 DEF Result

(* sfs_io_nolock, reading.                                                 *)
LEMMA ReadResult ==
    ASSUME SfsBlocksAssumption, NEW s, NEW X, Good(s, X), Sized(s.din), s.ret = "ok",
           NEW p \in Nat, p < s.din.size, NEW n \in Nat \ {0},
           NEW end, end = Min({p + n, s.din.size}), NEW t, t = LoadBlocks(s, p \div BLKSIZE, RoundUp(end))
    PROVE  Result(t, X) /\ end \in Nat
<1>a. BLKSIZE \in Nat \ {0}
  BY IndexFacts
<1>b. s.din.size \in Nat
  BY GoodFields
<1>0. BLKSIZE \in Nat \ {0} /\ s.din.size \in Nat /\ p + n \in Nat
  BY <1>a, <1>b
<1>1. end \in Nat /\ p < end
  <2>1. Min({p + n, s.din.size}) \in {p + n, s.din.size}
    <3> DEFINE a == p + n
               b == s.din.size
    <3>1. a \in Nat /\ b \in Nat
      BY <1>0
    <3> HIDE DEF a, b
    <3>2. Min({a, b}) \in {a, b}
      BY <3>1, MinMaxOfTwo
    <3> QED
      BY <3>2 DEF a, b
  <2>2. end \in {p + n, s.din.size}
    BY <2>1
  <2> QED
    BY <2>2, <1>0
<1> DEFINE i == p \div BLKSIZE
           j == RoundUp(end)
<1>2. i \in Nat /\ j \in Nat /\ i < j /\ t = LoadBlocks(s, i, j)
  BY <1>0, <1>1, SomeBlock, RoomFor
<1> HIDE DEF i, j
<1>3. i <= j
  BY <1>2
<1>4. Loaded(s, t, X)
  BY <1>2, <1>3, LoadBlocksGood
<1>5. Good(t, X) /\ Sized(t.din)
  <2>1. Good(t, X)
    BY <1>4 DEF Loaded
  <2> QED
    BY <2>1, <1>4, StaysSized
<1> QED
  BY <1>1, <1>5 DEF Result

---------------------------------------------------------------------------
(* The disk: every file is dense and has room for its bytes, a block is    *)
(* owned by one file or is free, and none is lost.                         *)
FilesOK == din \in [Regular -> FileRec] /\ \A f \in Regular : Dense(din[f]) /\ Sized(din[f])
FreeOK == free \in SUBSET Block /\ unused = Cardinality(free)
OwnersOK ==
    /\ \A f, g \in Regular : f # g => \A b : ~(Owns(din[f], b) /\ Owns(din[g], b))
    /\ \A f \in Regular : \A b : Owns(din[f], b) => b \notin free
    /\ \A b \in Block : b \in free \/ \E f \in Regular : Owns(din[f], b)
DescOK == open \in [Desc -> Regular \cup {NoFile}] /\ pos \in [Desc -> Nat]
SfsIInv == FilesOK /\ FreeOK /\ OwnersOK /\ DescOK

Others(f) == {b \in Block : \E g \in Regular : g # f /\ Owns(din[g], b)}

LEMMA OwnsBlock ==
    ASSUME NEW d \in FileRec, NEW b, Owns(d, b)
    PROVE  b \in Block
<1>1. d.map \in [Index -> Block \cup {0}] /\ d.indirect \in Block \cup {0}
  BY DEF FileRec
<1> QED
  BY <1>1 DEF Owns

(* What a call on file f starts with.                                      *)
LEMMA StateGood ==
    ASSUME SfsBlocksAssumption, SfsIInv, NEW f \in Regular, NEW s, s = State(f)
    PROVE  Good(s, Others(f)) /\ Sized(s.din) /\ s.ret = "ok" /\ s.din = din[f]
<1>1. s = [din |-> din[f], free |-> free, unused |-> unused, ret |-> "ok"]
  BY DEF State
<1>2. s.din = din[f] /\ s.free = free /\ s.unused = unused /\ s.ret = "ok"
  BY <1>1
<1>3. din[f] \in FileRec /\ Dense(din[f]) /\ Sized(din[f])
  BY DEF SfsIInv, FilesOK
<1>4. free \in SUBSET Block /\ unused = Cardinality(free) /\ unused \in Nat
  <2>1. free \in SUBSET Block /\ unused = Cardinality(free)
    BY DEF SfsIInv, FreeOK
  <2> QED
    BY <2>1, IndexFacts, FS_Subset, FS_CardinalityType
<1>5. s \in [din : FileRec, free : SUBSET Block, unused : Nat, ret : Endings]
  BY <1>1, <1>3, <1>4 DEF Endings
<1>6. \A b : Owns(din[f], b) => b \in Block /\ b \notin free /\ b \notin Others(f)
  <2> SUFFICES ASSUME NEW b, Owns(din[f], b) PROVE b \in Block /\ b \notin free /\ b \notin Others(f)
    OBVIOUS
  <2>1. b \in Block
    BY <1>3, OwnsBlock
  <2> QED
    BY <2>1 DEF SfsIInv, OwnersOK, Others
<1>7. \A b \in free : b \notin Others(f)
  BY DEF SfsIInv, OwnersOK, Others
<1>8. \A b \in Block : b \in free \/ b \in Others(f) \/ Owns(din[f], b)
  BY DEF SfsIInv, OwnersOK, Others
<1>9. Good(s, Others(f))
  BY <1>2, <1>3, <1>4, <1>5, <1>6, <1>7, <1>8 DEF Good
<1> QED
  BY <1>2, <1>3, <1>9

(* What a call leaves is a good disk.                                      *)
LEMMA FinishStep ==
    ASSUME SfsBlocksAssumption, SfsIInv, NEW f \in Regular, NEW s, Result(s, Others(f)), Finish(f, s)
    PROVE  FilesOK' /\ FreeOK' /\ OwnersOK'
<1>0. FilesOK /\ FreeOK /\ OwnersOK
  BY DEF SfsIInv
<1>1. CASE s.ret \in {"index", "truncate"}
  <2>1. din' = din /\ free' = free /\ unused' = unused
    BY <1>1 DEF Finish
  <2> QED
    BY <2>1, <1>0 DEF FilesOK, FreeOK, OwnersOK, Owns, Dense, Sized, FileRec, Index
<1>2. CASE s.ret \notin {"index", "truncate"}
  <2>1. din' = [din EXCEPT ![f] = s.din] /\ free' = s.free /\ unused' = s.unused
    BY <1>2 DEF Finish
  <2>2. Good(s, Others(f))
    BY DEF Result
  <2>3. /\ s.din \in FileRec /\ s.free \in SUBSET Block /\ s.ret \in Endings /\ Dense(s.din) /\ s.unused = Cardinality(s.free)
        /\ \A b : Owns(s.din, b) => b \in Block /\ b \notin s.free /\ b \notin Others(f)
        /\ \A b \in s.free : b \notin Others(f)
        /\ \A b \in Block : b \in s.free \/ b \in Others(f) \/ Owns(s.din, b)
    BY <2>2 DEF Good
  <2>4. Sized(s.din)
    BY <2>3, <1>2 DEF Result, Endings
  <2>5. din' \in [Regular -> FileRec] /\ \A g \in Regular : din'[g] = IF g = f THEN s.din ELSE din[g]
    BY <2>1, <2>3, <1>0 DEF FilesOK
  <2>6. \A g \in Regular : Dense(din'[g]) /\ Sized(din'[g])
    BY <2>3, <2>4, <2>5, <1>0 DEF FilesOK
  <2>7. \A g \in Regular : \A b : g # f /\ Owns(din[g], b) => b \in Others(f)
    <3> SUFFICES ASSUME NEW g \in Regular, NEW b, g # f, Owns(din[g], b) PROVE b \in Others(f)
      OBVIOUS
    <3>1. b \in Block
      BY <1>0, OwnsBlock DEF FilesOK
    <3> QED
      BY <3>1 DEF Others
  <2>8. \A g, h \in Regular : g # h => \A b : ~(Owns(din'[g], b) /\ Owns(din'[h], b))
    <3> SUFFICES ASSUME NEW g \in Regular, NEW h \in Regular, g # h, NEW b, Owns(din'[g], b), Owns(din'[h], b) PROVE FALSE
      OBVIOUS
    <3>1. CASE g = f
      BY <3>1, <2>3, <2>5, <2>7
    <3>2. CASE h = f
      BY <3>2, <2>3, <2>5, <2>7
    <3>3. CASE g # f /\ h # f
      BY <3>3, <2>5, <1>0 DEF OwnersOK
    <3> QED
      BY <3>1, <3>2, <3>3
  <2>9. \A g \in Regular : \A b : Owns(din'[g], b) => b \notin s.free
    BY <2>3, <2>5, <2>7
  <2>10. \A b \in Block : b \in s.free \/ \E g \in Regular : Owns(din'[g], b)
    <3> SUFFICES ASSUME NEW b \in Block, b \notin s.free PROVE \E g \in Regular : Owns(din'[g], b)
      OBVIOUS
    <3>1. CASE b \in Others(f)
      <4>1. PICK g \in Regular : g # f /\ Owns(din[g], b)
        BY <3>1 DEF Others
      <4> QED
        BY <4>1, <2>5
    <3>2. CASE Owns(s.din, b)
      BY <3>2, <2>5
    <3> QED
      BY <3>1, <3>2, <2>3
  <2>11. FilesOK'
    BY <2>5, <2>6 DEF FilesOK, FileRec, Index, Dense, Sized
  <2>12. FreeOK'
    BY <2>1, <2>3 DEF FreeOK
  <2>13. OwnersOK'
    BY <2>1, <2>8, <2>9, <2>10 DEF OwnersOK, Owns, Index
  <2> QED
    BY <2>11, <2>12, <2>13
<1> QED
  BY <1>1, <1>2

LEMMA SfsIInvInit ==
    ASSUME SfsBlocksAssumption, SfsInit
    PROVE  SfsIInv
<1>1. din = [f \in Regular |-> EmptyFile] /\ free = Block /\ unused = Cardinality(Block)
  BY DEF SfsInit
<1>2. PICK d : d = EmptyFile
  OBVIOUS
<1>3. d = [size |-> 0, blocks |-> 0, map |-> [i \in Index |-> 0], indirect |-> 0]
  BY <1>2 DEF EmptyFile
<1>4. d \in FileRec /\ d.size = 0 /\ d.blocks = 0 /\ d.indirect = 0 /\ \A i \in Index : d.map[i] = 0
  BY <1>3 DEF FileRec
<1>5. Dense(d) /\ Sized(d)
  <2>1. \A i \in Index : ~(i < 0)
    BY IndexFacts
  <2>2. ~(0 > NDIRECT) /\ 0 <= NDIRECT + NENTRY /\ 0 <= 0 * BLKSIZE
    BY IndexFacts
  <2> QED
    BY <2>1, <2>2, <1>4 DEF Dense, Sized
<1>6. \A b : ~ Owns(d, b)
  BY <1>4 DEF Owns
<1>7. \A f \in Regular : din[f] = d
  BY <1>1, <1>2
<1>8. FilesOK
  BY <1>1, <1>2, <1>4, <1>5 DEF FilesOK
<1>9. FreeOK
  BY <1>1 DEF FreeOK
<1>10. OwnersOK
  BY <1>1, <1>6, <1>7 DEF OwnersOK
<1>11. DescOK
  BY DEF SfsInit, DescOK
<1> QED
  BY <1>8, <1>9, <1>10, <1>11 DEF SfsIInv

LEMMA SfsIInvStep ==
    ASSUME SfsBlocksAssumption, SfsIInv, [SfsNext]_sfs_vars
    PROVE  SfsIInv'
<1>0. /\ MAX_FILE_SIZE \in Nat \ {0} /\ open \in [Desc -> Regular \cup {NoFile}] /\ pos \in [Desc -> Nat]
      /\ FilesOK /\ FreeOK /\ OwnersOK
  BY IndexFacts DEF SfsIInv, DescOK
<1>1. ASSUME NEW d \in Desc, NEW f \in Regular, NEW trunc \in BOOLEAN, Open(d, f, trunc) PROVE SfsIInv'
  <2>1. PICK b : b = State(f)
    OBVIOUS
  <2>2. PICK s : s = IF trunc THEN TruncFile(b, 0) ELSE b
    OBVIOUS
  <2>3. Finish(f, s) /\ open' \in {open, [open EXCEPT ![d] = f]} /\ pos' = pos
    BY <1>1, <2>1, <2>2 DEF Open
  <2>4. Good(b, Others(f)) /\ Sized(b.din) /\ b.ret = "ok"
    BY <2>1, StateGood
  <2>5. Result(s, Others(f))
    <3>1. CASE trunc
      BY <3>1, <2>2, <2>4, TruncFileResult
    <3>2. CASE ~ trunc
      BY <3>2, <2>2, <2>4 DEF Result
    <3> QED
      BY <3>1, <3>2
  <2>6. FilesOK' /\ FreeOK' /\ OwnersOK'
    BY <2>3, <2>5, FinishStep
  <2>7. DescOK'
    BY <2>3, <1>0 DEF DescOK
  <2> QED
    BY <2>6, <2>7 DEF SfsIInv
<1>2. ASSUME din' = din, free' = free, unused' = unused, DescOK' PROVE SfsIInv'
  BY <1>0, <1>2 DEF SfsIInv, FilesOK, FreeOK, OwnersOK, Owns, Dense, Sized, FileRec, Index
<1>3. ASSUME NEW d \in Desc, Close(d) PROVE SfsIInv'
  <2>1. DescOK'
    BY <1>0, <1>3 DEF Close, DescOK
  <2> QED
    BY <2>1, <1>2, <1>3 DEF Close
<1>4. ASSUME NEW d \in Desc, NEW e \in Desc, Dup(d, e) PROVE SfsIInv'
  <2>1. DescOK'
    BY <1>0, <1>4 DEF Dup, DescOK
  <2> QED
    BY <2>1, <1>2, <1>4 DEF Dup
<1>5. ASSUME NEW d \in Desc, NEW p \in 0 .. MAX_FILE_SIZE - 1, Seek(d, p) PROVE SfsIInv'
  <2>1. PICK f : f = open[d]
    OBVIOUS
  <2>2. PICK b : b = State(f)
    OBVIOUS
  <2>3. PICK s : s = IF p > din[f].size THEN TruncFile(b, p) ELSE b
    OBVIOUS
  <2>4. f # NoFile /\ Finish(f, s) /\ pos' \in {pos, [pos EXCEPT ![d] = p]} /\ open' = open
    BY <1>5, <2>1, <2>2, <2>3 DEF Seek
  <2>5. f \in Regular /\ p \in Nat
    BY <2>1, <2>4, <1>0
  <2>6. Good(b, Others(f)) /\ Sized(b.din) /\ b.ret = "ok"
    BY <2>2, <2>5, StateGood
  <2>7. Result(s, Others(f))
    <3>1. CASE s = TruncFile(b, p)
      BY <3>1, <2>5, <2>6, TruncFileResult
    <3>2. CASE s = b
      BY <3>2, <2>6 DEF Result
    <3> QED
      BY <3>1, <3>2, <2>3
  <2>8. FilesOK' /\ FreeOK' /\ OwnersOK'
    BY <2>4, <2>5, <2>7, FinishStep
  <2>9. DescOK'
    BY <2>4, <2>5, <1>0 DEF DescOK
  <2> QED
    BY <2>8, <2>9 DEF SfsIInv
<1>6. ASSUME NEW d \in Desc, NEW n \in 1 .. MAX_FILE_SIZE, Write(d, n) PROVE SfsIInv'
  <2>1. PICK f : f = open[d]
    OBVIOUS
  <2>2. PICK b : b = State(f)
    OBVIOUS
  <2>3. PICK p : p = pos[d]
    OBVIOUS
  <2>4. PICK w : w = WriteEnd(b, p, n)
    OBVIOUS
  <2>5. f # NoFile /\ p < MAX_FILE_SIZE /\ Finish(f, w.s) /\ pos' \in {pos, [pos EXCEPT ![d] = w.end]} /\ open' = open
    BY <1>6, <2>1, <2>2, <2>3, <2>4 DEF Write
  <2>6. f \in Regular /\ p \in Nat /\ n \in Nat \ {0}
    BY <2>1, <2>3, <2>5, <1>0
  <2>7. Good(b, Others(f)) /\ Sized(b.din) /\ b.ret = "ok"
    BY <2>2, <2>6, StateGood
  <2>8. Result(w.s, Others(f)) /\ w.end \in Nat
    BY <2>4, <2>5, <2>6, <2>7, WriteResult
  <2>9. FilesOK' /\ FreeOK' /\ OwnersOK'
    BY <2>5, <2>6, <2>8, FinishStep
  <2>10. DescOK'
    BY <2>5, <2>8, <1>0 DEF DescOK
  <2> QED
    BY <2>9, <2>10 DEF SfsIInv
<1>7. ASSUME NEW d \in Desc, NEW n \in 1 .. MAX_FILE_SIZE, Read(d, n) PROVE SfsIInv'
  <2>1. PICK f : f = open[d]
    OBVIOUS
  <2>2. PICK b : b = State(f)
    OBVIOUS
  <2>3. PICK p : p = pos[d]
    OBVIOUS
  <2>4. PICK end : end = Min({p + n, din[f].size})
    OBVIOUS
  <2>5. PICK s : s = LoadBlocks(b, p \div BLKSIZE, RoundUp(end))
    OBVIOUS
  <2>6. f # NoFile /\ p < din[f].size /\ Finish(f, s) /\ pos' = [pos EXCEPT ![d] = end] /\ open' = open
    BY <1>7, <2>1, <2>2, <2>3, <2>4, <2>5 DEF Read
  <2>7. f \in Regular /\ p \in Nat /\ n \in Nat \ {0}
    BY <2>1, <2>3, <2>6, <1>0
  <2>8. Good(b, Others(f)) /\ Sized(b.din) /\ b.ret = "ok" /\ b.din = din[f]
    BY <2>2, <2>7, StateGood
  <2>9. p < b.din.size /\ end = Min({p + n, b.din.size})
    BY <2>4, <2>6, <2>8
  <2>10. Result(s, Others(f)) /\ end \in Nat
    BY <2>5, <2>7, <2>8, <2>9, ReadResult
  <2>11. FilesOK' /\ FreeOK' /\ OwnersOK'
    BY <2>6, <2>7, <2>10, FinishStep
  <2>12. DescOK'
    BY <2>6, <2>10, <1>0 DEF DescOK
  <2> QED
    BY <2>11, <2>12 DEF SfsIInv
<1>8. CASE UNCHANGED sfs_vars
  <2>1. DescOK'
    BY <1>0, <1>8 DEF sfs_vars, DescOK
  <2> QED
    BY <2>1, <1>2, <1>8 DEF sfs_vars
<1> QED
  BY <1>1, <1>3, <1>4, <1>5, <1>6, <1>7, <1>8 DEF SfsNext

(* The places of BlocksOwned are the blocks a file owns.                   *)
LEMMA OwnedOwns ==
    ASSUME SfsBlocksAssumption, NEW f \in Regular, NEW b
    PROVE  /\ Indirect \notin Index
           /\ Owns(din[f], b) <=> b # 0 /\ \E i \in Index \cup {Indirect} : b = Owned(f, i)
<1>1. Indirect \notin Index
  BY IndexFacts DEF Indirect, Index
<1>2. \A i \in Index : Owned(f, i) = din[f].map[i]
  BY <1>1 DEF Owned
<1>3. Owned(f, Indirect) = din[f].indirect
  BY DEF Owned
<1> QED
  BY <1>1, <1>2, <1>3 DEF Owns

LEMMA SfsIInvImplies ==
    ASSUME SfsBlocksAssumption, SfsIInv
    PROVE  BlocksInv
<1>0. FilesOK /\ FreeOK /\ OwnersOK /\ Indirect \notin Index
  BY IndexFacts DEF SfsIInv, Indirect, Index
<1>1. \A f \in Regular : din[f] \in FileRec /\ Dense(din[f]) /\ Sized(din[f])
  BY <1>0 DEF FilesOK
<1>2. MapsDense
  BY <1>1 DEF MapsDense, Dense, Sized
<1>3. ASSUME NEW f \in Regular, NEW i \in Index \cup {Indirect}, NEW g \in Regular, NEW j \in Index \cup {Indirect},
             Owned(f, i) # 0, Owned(f, i) = Owned(g, j)
      PROVE  f = g /\ i = j
  <2>1. f = g
    <3>1. Owns(din[f], Owned(f, i)) /\ Owns(din[g], Owned(f, i))
      BY <1>3, OwnedOwns
    <3> QED
      BY <3>1, <1>0 DEF OwnersOK
  <2>2. Dense(din[f])
    BY <1>1
  <2>3. i = j
    BY <2>1, <2>2, <1>0, <1>3 DEF Dense, Owned
  <2> QED
    BY <2>1, <2>3
<1>4. \A x \in Slots : x = <<x[1], x[2]>> /\ x[1] \in Regular /\ x[2] \in Index \cup {Indirect} /\ Owned(x[1], x[2]) # 0
  BY DEF Slots
<1>5. \A x, y \in Slots : x # y => Owned(x[1], x[2]) # Owned(y[1], y[2])
  <2> SUFFICES ASSUME NEW x \in Slots, NEW y \in Slots, Owned(x[1], x[2]) = Owned(y[1], y[2]) PROVE x = y
    OBVIOUS
  <2>1. x[1] = y[1] /\ x[2] = y[2]
    BY <1>3, <1>4
  <2> QED
    BY <2>1, <1>4
<1>6. \A b : b \in {Owned(x[1], x[2]) : x \in Slots} <=> \E f \in Regular : Owns(din[f], b)
  <2> TAKE b
  <2>1. ASSUME NEW x \in Slots, b = Owned(x[1], x[2]) PROVE \E f \in Regular : Owns(din[f], b)
    BY <2>1, <1>4, OwnedOwns
  <2>2. ASSUME NEW f \in Regular, Owns(din[f], b) PROVE \E x \in Slots : b = Owned(x[1], x[2])
    <3>1. PICK i \in Index \cup {Indirect} : b = Owned(f, i) /\ b # 0
      BY <2>2, OwnedOwns
    <3>2. <<f, i>> \in Slots /\ <<f, i>>[1] = f /\ <<f, i>>[2] = i
      BY <3>1 DEF Slots
    <3> QED
      BY <3>1, <3>2
  <2> QED
    BY <2>1, <2>2
<1>7. \A f \in Regular : \A b : Owns(din[f], b) => b \in Block /\ b \notin free
  BY <1>0, <1>1, OwnsBlock DEF OwnersOK
<1>8. \A b \in Block : b \in free \/ \E f \in Regular : Owns(din[f], b)
  BY <1>0 DEF OwnersOK
<1> DEFINE O == {Owned(x[1], x[2]) : x \in Slots}
<1>9. \A b : b \in O <=> \E f \in Regular : Owns(din[f], b)
  BY <1>6
<1>10. free \in SUBSET Block /\ unused = Cardinality(free)
  BY <1>0 DEF FreeOK
<1>11. O \cap free = {} /\ O \cup free = Block
  <2> HIDE DEF O
  <2> QED
    BY <1>7, <1>8, <1>9, <1>10
<1>12. BlocksOwned
  BY <1>5, <1>10, <1>11 DEF BlocksOwned
<1> QED
  BY <1>2, <1>12 DEF BlocksInv

(* Whatever descriptors open, truncate, seek, read and write, and whatever *)
(* allocation failed, every block of the disk is free or in one place of   *)
(* one file, the super block counts the free ones, and maps have no holes  *)
(* (sfs_inode.c, bitmap.c).                                                *)
THEOREM BlocksCorrect ==
    ASSUME SfsBlocksAssumption
    PROVE  SfsSpec => []BlocksInv
<1>1. SfsInit => SfsIInv
  BY SfsIInvInit
<1>2. SfsIInv /\ [SfsNext]_sfs_vars => SfsIInv'
  BY SfsIInvStep
<1>3. SfsIInv => BlocksInv
  BY SfsIInvImplies
<1> QED
  BY <1>1, <1>2, <1>3, PTL DEF SfsSpec
============================================================================
