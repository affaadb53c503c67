---------------------------- MODULE MemoryProofs ----------------------------
(***************************************************************************)
(* Proofs about memory, for any number of processes and pages.  The pages  *)
(* of processes (Mm): no page has two uses, and what a process has mapped  *)
(* is complete, whatever call fails half-way.  Copy on write (Cow): the    *)
(* reference counts are right, no writable page is shared, and Cow         *)
(* implements private memories (MemSpec).                                  *)
(***************************************************************************)
EXTENDS Cow, Mm, FiniteSetTheorems, WellFoundedInduction, TLAPS

---------------------------------------------------------------------------
(* Copy on write.                                                          *)
TypeOK ==
    /\ live \subseteq Proc
    /\ page \in [Proc -> [V -> Page \cup {0}]]
    /\ pte_w \in [Proc -> [V -> BOOLEAN]]
    /\ ref \in [Page -> Nat]
    /\ data \in [Page -> Value]

(* exit_mmap leaves no entry behind, and all else maps every page.         *)
CowMapped == \A p \in Proc, v \in V : page[p][v] # 0 <=> p \in live

(* A process never maps a page twice.                                      *)
OwnPages == \A p \in live, u, v \in V : page[p][u] = page[p][v] => u = v

CowIInv == TypeOK /\ CowMapped /\ OwnPages /\ CowInv

---------------------------------------------------------------------------
(* Counting the entries that map a page, the entries of one process apart. *)
Entries(pg, g) == {e \in Proc \X V : pg[e[1]][e[2]] = g}
Others(pg, p, g) == {e \in Proc \X V : e[1] # p /\ pg[e[1]][e[2]] = g}
One(f, g) == IF \E v \in V : f[v] = g THEN 1 ELSE 0

(* There are finitely many entries.                                        *)
LEMMA EntriesFinite ==
    ASSUME CowAssumption, NEW S \in SUBSET (Proc \X V)
    PROVE  IsFiniteSet(S) /\ Cardinality(S) \in Nat
<1>1. IsFiniteSet(V)
  BY FS_Interval, 1 \in Int, NV \in Int DEF V, CowAssumption
<1>2. IsFiniteSet(Proc \X V)
  BY <1>1, FS_Product DEF CowAssumption
<1> QED
  BY <1>2, FS_Subset, FS_CardinalityType

(* The entries for a page are those of the other processes and the one, if *)
(* any, of process p.                                                      *)
LEMMA SplitRow ==
    ASSUME CowAssumption, NEW pg, NEW p \in Proc, NEW g,
           \A u, v \in V : pg[p][u] = g /\ pg[p][v] = g => u = v
    PROVE  Cardinality(Entries(pg, g)) = Cardinality(Others(pg, p, g)) + One(pg[p], g)
<1>1. IsFiniteSet(Others(pg, p, g)) /\ Cardinality(Others(pg, p, g)) \in Nat
  BY EntriesFinite DEF Others
<1>2. CASE \E v \in V : pg[p][v] = g
  <2>1. PICK v \in V : pg[p][v] = g
    BY <1>2
  <2>2. <<p, v>> \notin Others(pg, p, g)
    BY DEF Others
  <2>3. Entries(pg, g) = Others(pg, p, g) \cup {<<p, v>>}
    <3>1. ASSUME NEW e \in Proc \X V PROVE e \in Entries(pg, g) <=> e \in Others(pg, p, g) \/ e = <<p, v>>
      <4>1. PICK q \in Proc, u \in V : e = <<q, u>>
        BY <3>1
      <4>2. e[1] = q /\ e[2] = u
        BY <4>1
      <4> QED
        BY <4>1, <4>2, <2>1 DEF Entries, Others
    <3>2. Entries(pg, g) \subseteq Proc \X V /\ Others(pg, p, g) \subseteq Proc \X V /\ <<p, v>> \in Proc \X V
      BY DEF Entries, Others
    <3> QED
      BY <3>1, <3>2
  <2>4. One(pg[p], g) = 1
    BY <1>2 DEF One
  <2> QED
    BY <1>1, <2>2, <2>3, <2>4, FS_AddElement
<1>3. CASE ~ \E v \in V : pg[p][v] = g
  <2>1. Entries(pg, g) = Others(pg, p, g)
    <3>1. ASSUME NEW e \in Proc \X V PROVE e \in Entries(pg, g) <=> e \in Others(pg, p, g)
      <4>1. PICK q \in Proc, u \in V : e = <<q, u>>
        BY <3>1
      <4>2. e[1] = q /\ e[2] = u
        BY <4>1
      <4> QED
        BY <4>1, <4>2, <1>3 DEF Entries, Others
    <3> QED
      BY <3>1 DEF Entries, Others
  <2>2. One(pg[p], g) = 0
    BY <1>3 DEF One
  <2> QED
    BY <1>1, <2>1, <2>2
<1> QED
  BY <1>2, <1>3

(* What a new row for process p does to the number of entries of a page.   *)
LEMMA ReplaceRow ==
    ASSUME CowAssumption, NEW pg \in [Proc -> [V -> Page \cup {0}]], NEW p \in Proc,
           NEW f \in [V -> Page \cup {0}], NEW g,
           \A u, v \in V : pg[p][u] = g /\ pg[p][v] = g => u = v,
           \A u, v \in V : f[u] = g /\ f[v] = g => u = v
    PROVE  Cardinality(Entries([pg EXCEPT ![p] = f], g))
             = Cardinality(Entries(pg, g)) - One(pg[p], g) + One(f, g)
<1> DEFINE new == [pg EXCEPT ![p] = f]
<1>1. new[p] = f
  OBVIOUS
<1>2. Others(new, p, g) = Others(pg, p, g)
  <2>1. ASSUME NEW e \in Proc \X V, e[1] # p PROVE new[e[1]] = pg[e[1]]
    BY <2>1
  <2> QED
    BY <2>1 DEF Others
<1>3. Cardinality(Others(pg, p, g)) \in Nat
  BY EntriesFinite DEF Others
<1>4. Cardinality(Entries(new, g)) = Cardinality(Others(pg, p, g)) + One(f, g)
  <2> HIDE DEF new
  <2> QED
    BY <1>1, <1>2, SplitRow
<1>5. Cardinality(Entries(pg, g)) = Cardinality(Others(pg, p, g)) + One(pg[p], g)
  BY SplitRow
<1>6. One(f, g) \in 0 .. 1 /\ One(pg[p], g) \in 0 .. 1
  BY DEF One
<1> QED
  BY <1>3, <1>4, <1>5, <1>6

---------------------------------------------------------------------------
(* Two entries of a page of one reference are one entry.                   *)
LEMMA OnlyEntry ==
    ASSUME CowAssumption, CowIInv, NEW p \in Proc, NEW q \in Proc, NEW u \in V, NEW v \in V,
           page[p][u] = page[q][v], page[p][u] \in Page, ref[page[p][u]] = 1
    PROVE  p = q /\ u = v
<1> DEFINE g == page[p][u]
<1>1. ref[g] = Cardinality(Entries(page, g))
  BY DEF CowIInv, CowInv, Entries
<1>2. IsFiniteSet(Entries(page, g))
  BY EntriesFinite DEF Entries
<1>3. PICK e : Entries(page, g) = {e}
  <2> HIDE DEF g
  <2> QED
    BY <1>1, <1>2, FS_Singleton DEF g
<1>4. <<p, u>> \in Entries(page, g) /\ <<q, v>> \in Entries(page, g)
  BY DEF Entries
<1>5. <<p, u>> = <<q, v>>
  BY <1>3, <1>4
<1> QED
  BY <1>5

(* An entry counts, so a page of no reference is mapped nowhere.           *)
LEMMA MappedCounts ==
    ASSUME CowAssumption, CowIInv, NEW p \in Proc, NEW g \in Page
    PROVE  /\ \A u, v \in V : page[p][u] = g /\ page[p][v] = g => u = v
           /\ One(page[p], g) \in 0 .. 1
           /\ One(page[p], g) <= ref[g]
<1>1. ASSUME NEW u \in V, NEW v \in V, page[p][u] = g, page[p][v] = g PROVE u = v
  <2>1. page[p][u] # 0
    BY <1>1 DEF CowAssumption
  <2> QED
    BY <1>1, <2>1 DEF CowIInv, CowMapped, OwnPages
<1>2. Cardinality(Entries(page, g)) = Cardinality(Others(page, p, g)) + One(page[p], g)
  BY <1>1, SplitRow
<1>3. ref[g] = Cardinality(Entries(page, g))
  BY DEF CowIInv, CowInv, Entries
<1>4. Cardinality(Others(page, p, g)) \in Nat
  BY EntriesFinite DEF Others
<1>5. One(page[p], g) \in 0 .. 1
  BY DEF One
<1> QED
  BY <1>1, <1>2, <1>3, <1>4, <1>5

(* The pages of a process that gives its address space up lose one         *)
(* reference, those of the address space it gets win one.                  *)
LEMMA RowStep ==
    ASSUME CowAssumption, CowIInv, NEW p \in Proc, NEW f \in [V -> Page \cup {0}],
           \A u, v \in V : f[u] = f[v] /\ f[u] # 0 => u = v,
           page' = [page EXCEPT ![p] = f]
    PROVE  /\ page' \in [Proc -> [V -> Page \cup {0}]]
           /\ \A g \in Page : Cardinality({e \in Proc \X V : page'[e[1]][e[2]] = g})
                                = ref[g] - One(page[p], g) + One(f, g)
<1>1. page \in [Proc -> [V -> Page \cup {0}]]
  BY DEF CowIInv, TypeOK
<1>2. page' \in [Proc -> [V -> Page \cup {0}]]
  BY <1>1
<1>3. ASSUME NEW g \in Page
      PROVE  Cardinality({e \in Proc \X V : page'[e[1]][e[2]] = g}) = ref[g] - One(page[p], g) + One(f, g)
  <2>1. \A u, v \in V : f[u] = g /\ f[v] = g => u = v
    BY DEF CowAssumption
  <2>2. \A u, v \in V : page[p][u] = g /\ page[p][v] = g => u = v
    BY MappedCounts
  <2>3. ref[g] = Cardinality(Entries(page, g))
    BY DEF CowIInv, CowInv, Entries
  <2>4. Cardinality(Entries(page', g)) = Cardinality(Entries(page, g)) - One(page[p], g) + One(f, g)
    BY <1>1, <2>1, <2>2, ReplaceRow
  <2> QED
    BY <2>3, <2>4 DEF Entries
<1> QED
  BY <1>2, <1>3

(* What the pages hold after a program was loaded into pages of its own.   *)
LEMMA LoadedFacts ==
    ASSUME CowAssumption, NEW f \in [V -> Page], \A u, v \in V : f[u] = f[v] => u = v,
           NEW left \in [V -> Value], NEW old \in [Page -> Value]
    PROVE  /\ Loaded(f, left, old) \in [Page -> Value]
           /\ \A v \in V : Loaded(f, left, old)[f[v]] = IF v \in Cleared THEN Zero ELSE left[v]
           /\ \A g \in Page : (\A v \in V : f[v] # g) => Loaded(f, left, old)[g] = old[g]
<1>1. ASSUME NEW v \in V PROVE Loaded(f, left, old)[f[v]] = IF v \in Cleared THEN Zero ELSE left[v]
  <2>1. (CHOOSE u \in V : f[u] = f[v]) = v
    OBVIOUS
  <2>2. f[v] \in Page /\ \E u \in V : f[u] = f[v]
    OBVIOUS
  <2> QED
    BY <2>1, <2>2 DEF Loaded
<1>2. ASSUME NEW g \in Page, \A v \in V : f[v] # g PROVE Loaded(f, left, old)[g] = old[g]
  BY <1>2 DEF Loaded
<1>3. ASSUME NEW g \in Page PROVE Loaded(f, left, old)[g] \in Value
  <2>1. CASE \E v \in V : f[v] = g
    BY <2>1, <1>1 DEF CowAssumption
  <2>2. CASE \A v \in V : f[v] # g
    BY <2>2, <1>2
  <2> QED
    BY <2>1, <2>2
<1>4. Loaded(f, left, old) = [g \in Page |-> Loaded(f, left, old)[g]]
  BY DEF Loaded
<1> QED
  BY <1>1, <1>2, <1>3, <1>4

LEMMA CowInit == CowAssumption /\ Init => CowIInv
<1> SUFFICES ASSUME CowAssumption, Init PROVE CowIInv
  OBVIOUS
<1>1. PICK f \in [V -> Page], left \in [V -> Value] :
         /\ \A u, v \in V : f[u] = f[v] => u = v
         /\ page = [p \in Proc |-> IF p = Main THEN f ELSE [v \in V |-> 0]]
         /\ ref = [g \in Page |-> IF \E v \in V : f[v] = g THEN 1 ELSE 0]
         /\ data = Loaded(f, left, [g \in Page |-> Zero])
  BY DEF Init
<1>2. TypeOK
  <2>1. [g \in Page |-> Zero] \in [Page -> Value]
    BY DEF CowAssumption
  <2>2. data \in [Page -> Value]
    BY <1>1, <2>1, LoadedFacts
  <2> QED
    BY <1>1, <2>2 DEF Init, TypeOK, CowAssumption
<1>3. CowMapped
  BY <1>1 DEF Init, CowMapped, CowAssumption
<1>4. OwnPages
  BY <1>1 DEF Init, OwnPages, CowAssumption
<1>5. ASSUME NEW g \in Page PROVE ref[g] = Cardinality({e \in Proc \X V : page[e[1]][e[2]] = g})
  <2>1. page[Main] = f /\ g # 0 /\ Main \in Proc
    BY <1>1 DEF CowAssumption
  <2>2. Cardinality(Entries(page, g)) = Cardinality(Others(page, Main, g)) + One(f, g)
    BY <1>1, <2>1, SplitRow
  <2>3. Others(page, Main, g) = {}
    BY <1>1, <2>1 DEF Others
  <2>4. Cardinality(Entries(page, g)) = One(f, g)
    BY <2>2, <2>3, FS_EmptySet DEF One
  <2> QED
    BY <1>1, <2>4 DEF Entries, One
<1>6. \A p \in live, v \in V : page[p][v] \in Page
  BY <1>1 DEF Init, CowAssumption
<1>7. ASSUME NEW p \in Proc, NEW v \in V, pte_w[p][v]
      PROVE  p \in live /\ v \in Writable /\ ref[page[p][v]] = 1
  <2>1. p = Main /\ v \in Writable
    BY <1>7 DEF Init
  <2>2. page[p][v] = f[v] /\ f[v] \in Page
    BY <1>1, <2>1
  <2> QED
    BY <1>1, <2>1, <2>2 DEF Init
<1> QED
  BY <1>2, <1>3, <1>4, <1>5, <1>6, <1>7 DEF CowIInv, CowInv

---------------------------------------------------------------------------
(* What is left to show of a step that gives process p the row f.          *)
LEMMA RowInv ==
    ASSUME CowAssumption, CowIInv, NEW p \in Proc, NEW f \in [V -> Page \cup {0}],
           \A u, v \in V : f[u] = f[v] /\ f[u] # 0 => u = v,
           page' = [page EXCEPT ![p] = f],
           \/ live' = live \cup {p} /\ f \in [V -> Page]
           \/ live' = live \ {p} /\ f = [v \in V |-> 0],
           pte_w' \in [Proc -> [V -> BOOLEAN]], data' \in [Page -> Value],
           ref' = [g \in Page |-> ref[g] - One(page[p], g) + One(f, g)],
           \A q \in Proc, v \in V : pte_w'[q][v] => q \in live' /\ v \in Writable /\ ref'[page'[q][v]] = 1
    PROVE  CowIInv'
<1>1. page' \in [Proc -> [V -> Page \cup {0}]]
  BY RowStep
<1>2. ref' \in [Page -> Nat]
  <2>1. ASSUME NEW g \in Page PROVE ref[g] - One(page[p], g) + One(f, g) \in Nat
    <3>1. ref[g] \in Nat
      BY DEF CowIInv, TypeOK
    <3>2. One(f, g) \in 0 .. 1
      BY DEF One
    <3> QED
      BY <3>1, <3>2, MappedCounts
  <2> QED
    BY <2>1
<1>3. TypeOK'
  BY <1>1, <1>2 DEF TypeOK, CowIInv
<1>4. page \in [Proc -> [V -> Page \cup {0}]] /\ 0 \notin Page
  BY DEF CowIInv, TypeOK, CowAssumption
<1>5. \A q \in Proc : page'[q] = IF q = p THEN f ELSE page[q]
  BY <1>4
<1>6. CowMapped'
  BY <1>4, <1>5 DEF CowIInv, CowMapped
<1>7. OwnPages'
  <2> SUFFICES ASSUME NEW q \in live', NEW u \in V, NEW v \in V, page'[q][u] = page'[q][v] PROVE u = v
    BY DEF OwnPages
  <2>1. q \in Proc
    BY <1>3 DEF TypeOK
  <2>2. page'[q][u] # 0
    BY <2>1, <1>6 DEF CowMapped
  <2>3. CASE q = p
    BY <2>1, <2>2, <2>3, <1>5
  <2>4. CASE q # p
    BY <2>1, <2>4, <1>5 DEF CowIInv, OwnPages
  <2> QED
    BY <2>3, <2>4
<1>8. \A g \in Page : ref'[g] = Cardinality({e \in Proc \X V : page'[e[1]][e[2]] = g})
  <2>1. \A g \in Page : Cardinality({e \in Proc \X V : page'[e[1]][e[2]] = g}) = ref[g] - One(page[p], g) + One(f, g)
    BY RowStep
  <2> QED
    BY <2>1, Zenon
<1>9. \A q \in live', v \in V : page'[q][v] \in Page
  BY <1>1, <1>3, <1>6 DEF CowMapped, TypeOK
<1> QED
  BY <1>3, <1>6, <1>7, <1>8, <1>9 DEF CowIInv, CowInv

(* The page behind a writable entry belongs to that entry alone, so no     *)
(* other process shares it.                                                *)
LEMMA WritableOwn ==
    ASSUME CowAssumption, CowIInv, NEW q \in Proc, NEW v \in V, pte_w[q][v]
    PROVE  /\ page[q][v] \in Page /\ ref[page[q][v]] = 1 /\ q \in live /\ v \in Writable
           /\ \A p \in Proc : p # q => One(page[p], page[q][v]) = 0
<1>1. q \in live /\ v \in Writable /\ ref[page[q][v]] = 1
  BY DEF CowIInv, CowInv
<1>2. page[q][v] \in Page
  BY <1>1 DEF CowIInv, CowInv
<1>3. ASSUME NEW p \in Proc, p # q, NEW u \in V, page[p][u] = page[q][v] PROVE FALSE
  BY <1>1, <1>2, <1>3, OnlyEntry
<1> QED
  BY <1>1, <1>2, <1>3 DEF One

LEMMA ForkInv == ASSUME CowAssumption, CowIInv, NEW p \in Proc, NEW c \in Proc, NEW done \in V, Fork(p, c, done) PROVE CowIInv'
<1>1. p \in live /\ c \notin live /\ p # c
  BY DEF Fork
<1>2. pte_w \in [Proc -> [V -> BOOLEAN]] /\ page \in [Proc -> [V -> Page \cup {0}]] /\ data \in [Page -> Value] /\ ref \in [Page -> Nat]
  BY DEF CowIInv, TypeOK
<1>3. \A u \in V : (pte_w[p][u] /\ u > done) \in BOOLEAN
  OBVIOUS
<1>4. pte_w' \in [Proc -> [V -> BOOLEAN]] /\ data' = data
  BY <1>2, <1>3 DEF Fork
<1>5. \A q \in Proc, v \in V : pte_w'[q][v] => pte_w[q][v] /\ (q = p => v > done)
  BY <1>2 DEF Fork
<1>6. CASE done < NV
  <2>1. UNCHANGED <<live, page, ref, data>>
    BY <1>6 DEF Fork
  <2> QED
    BY <2>1, <1>4, <1>5 DEF CowIInv, CowInv, TypeOK, CowMapped, OwnPages
<1>7. CASE ~ (done < NV)
  <2>1. /\ live' = live \cup {c}
        /\ page' = [page EXCEPT ![c] = page[p]]
        /\ ref' = [g \in Page |-> ref[g] + One(page[p], g)]
    BY <1>7 DEF Fork, One
  <2>2. page[p] \in [V -> Page]
    BY <1>1, <1>2 DEF CowIInv, CowInv
  <2>3. \A u, v \in V : page[p][u] = page[p][v] /\ page[p][u] # 0 => u = v
    BY <1>1 DEF CowIInv, OwnPages
  <2>4. \A g \in Page : One(page[c], g) = 0
    BY <1>1 DEF CowIInv, CowMapped, CowAssumption, One
  <2>5. ref' = [g \in Page |-> ref[g] - One(page[c], g) + One(page[p], g)]
    BY <2>1, <2>4, <1>2
  <2>6. ASSUME NEW q \in Proc, NEW v \in V, pte_w'[q][v]
        PROVE  q \in live' /\ v \in Writable /\ ref'[page'[q][v]] = 1
    <3>1. pte_w[q][v] /\ (q = p => v > done)
      BY <2>6, <1>5
    <3>2. q # p
      BY <3>1, <1>7 DEF V, CowAssumption
    <3>3. page[q][v] \in Page /\ ref[page[q][v]] = 1 /\ q \in live /\ v \in Writable /\ One(page[p], page[q][v]) = 0
      BY <3>1, <3>2, WritableOwn
    <3>4. page'[q] = page[q]
      BY <3>3, <1>1, <1>2, <2>1
    <3> QED
      BY <3>3, <3>4, <2>1
  <2>7. page[p] \in [V -> Page \cup {0}]
    BY <1>2
  <2>8. data' \in [Page -> Value]
    BY <1>2, <1>4
  <2> QED
    BY <2>1, <2>2, <2>3, <2>5, <2>6, <2>7, <2>8, <1>4, RowInv
<1> QED
  BY <1>6, <1>7

(* exit_mmap, on its own and before a load that fails.                     *)
LEMMA ExitInv ==
    ASSUME CowAssumption, CowIInv, NEW p \in Proc,
           live' = live \ {p}, page' = [page EXCEPT ![p] = [v \in V |-> 0]],
           pte_w' = [pte_w EXCEPT ![p] = [v \in V |-> FALSE]], ref' = Dropped(p), data' = data
    PROVE  CowIInv'
<1> DEFINE f == [v \in V |-> 0]
<1>1. pte_w \in [Proc -> [V -> BOOLEAN]] /\ page \in [Proc -> [V -> Page \cup {0}]] /\ data \in [Page -> Value] /\ ref \in [Page -> Nat]
  BY DEF CowIInv, TypeOK
<1>2. f \in [V -> Page \cup {0}] /\ \A u, v \in V : f[u] = f[v] /\ f[u] # 0 => u = v
  OBVIOUS
<1>3. \A g \in Page : One(f, g) = 0
  BY DEF One, CowAssumption
<1>4. ref' = [g \in Page |-> ref[g] - One(page[p], g)]
  BY DEF Dropped, One
<1>5. ref' = [g \in Page |-> ref[g] - One(page[p], g) + One(f, g)]
  <2>1. \A g \in Page : One(page[p], g) \in 0 .. 1
    BY DEF One
  <2> HIDE DEF f
  <2> QED
    BY <1>1, <1>3, <1>4, <2>1
<1>6. ASSUME NEW q \in Proc, NEW v \in V, pte_w'[q][v]
      PROVE  q \in live' /\ v \in Writable /\ ref'[page'[q][v]] = 1
  <2>1. q # p /\ pte_w[q][v]
    BY <1>1, <1>6
  <2>2. page[q][v] \in Page /\ ref[page[q][v]] = 1 /\ q \in live /\ v \in Writable /\ One(page[p], page[q][v]) = 0
    BY <2>1, WritableOwn
  <2>3. page'[q] = page[q]
    BY <2>1, <1>1
  <2> QED
    BY <2>1, <2>2, <2>3, <1>4
<1>7. pte_w' \in [Proc -> [V -> BOOLEAN]]
  BY <1>1
<1> HIDE DEF f
<1> QED
  BY <1>1, <1>2, <1>5, <1>6, <1>7, RowInv DEF f

LEMMA ExecInv == ASSUME CowAssumption, CowIInv, NEW p \in Proc, Exec(p) PROVE CowIInv'
<1>1. pte_w \in [Proc -> [V -> BOOLEAN]] /\ page \in [Proc -> [V -> Page \cup {0}]] /\ data \in [Page -> Value] /\ ref \in [Page -> Nat]
  BY DEF CowIInv, TypeOK
<1>2. PICK f \in [V -> {g \in Page : Dropped(p)[g] = 0}], left \in [V -> Value] :
         /\ \A u, v \in V : f[u] = f[v] => u = v
         /\ page' = [page EXCEPT ![p] = f]
         /\ ref' = [g \in Page |-> IF \E v \in V : f[v] = g THEN 1 ELSE Dropped(p)[g]]
         /\ data' = Loaded(f, left, data)
  BY DEF Exec
<1>3. f \in [V -> Page] /\ f \in [V -> Page \cup {0}]
  BY <1>2
<1>4. \A g \in Page : Dropped(p)[g] = ref[g] - One(page[p], g)
  BY DEF Dropped, One
<1>5. \A v \in V : Dropped(p)[f[v]] = 0
  BY <1>2
<1>6. ref' = [g \in Page |-> ref[g] - One(page[p], g) + One(f, g)]
  <2>1. ASSUME NEW g \in Page
        PROVE  (IF \E v \in V : f[v] = g THEN 1 ELSE Dropped(p)[g]) = ref[g] - One(page[p], g) + One(f, g)
    <3>1. ref[g] - One(page[p], g) \in Nat
      <4>1. ref[g] \in Nat
        BY <1>1
      <4>2. One(page[p], g) \in 0 .. 1 /\ One(page[p], g) <= ref[g]
        BY MappedCounts
      <4> QED
        BY <4>1, <4>2
    <3>2. CASE \E v \in V : f[v] = g
      <4>1. Dropped(p)[g] = 0 /\ One(f, g) = 1
        BY <3>2, <1>5 DEF One
      <4> QED
        BY <4>1, <3>1, <3>2, <1>4
    <3>3. CASE ~ \E v \in V : f[v] = g
      <4>1. One(f, g) = 0
        BY <3>3 DEF One
      <4> QED
        BY <4>1, <3>1, <3>3, <1>4
    <3> QED
      BY <3>2, <3>3
  <2> QED
    BY <2>1, <1>2
<1>7. pte_w' \in [Proc -> [V -> BOOLEAN]] /\ live' = live \cup {p}
  BY <1>1 DEF Exec
<1>8. data' \in [Page -> Value]
  BY <1>1, <1>2, <1>3, LoadedFacts
<1>9. ASSUME NEW q \in Proc, NEW v \in V, pte_w'[q][v]
      PROVE  q \in live' /\ v \in Writable /\ ref'[page'[q][v]] = 1
  <2>1. CASE q = p
    <3>1. v \in Writable
      BY <1>1, <1>9, <2>1 DEF Exec
    <3>2. page'[q][v] = f[v] /\ f[v] \in Page
      BY <1>1, <1>2, <1>3, <2>1
    <3>3. ref'[f[v]] = 1
      BY <1>2, <3>2
    <3> QED
      BY <3>1, <3>2, <3>3, <2>1, <1>7
  <2>2. CASE q # p
    <3>1. pte_w[q][v]
      BY <1>1, <1>9, <2>2 DEF Exec
    <3>2. page[q][v] \in Page /\ ref[page[q][v]] = 1 /\ q \in live /\ v \in Writable /\ One(page[p], page[q][v]) = 0
      BY <3>1, <2>2, WritableOwn
    <3>3. Dropped(p)[page[q][v]] = 1
      BY <3>2, <1>4
    <3>4. \A u \in V : f[u] # page[q][v]
      BY <3>3, <1>5
    <3>5. ref'[page[q][v]] = 1
      BY <3>2, <3>3, <3>4, <1>2
    <3>6. page'[q] = page[q]
      BY <1>1, <1>2, <2>2
    <3> QED
      BY <3>2, <3>5, <3>6, <1>7
  <2> QED
    BY <2>1, <2>2
<1>10. \A u, v \in V : f[u] = f[v] /\ f[u] # 0 => u = v
  BY <1>2
<1>11. page' = [page EXCEPT ![p] = f]
  BY <1>2
<1> QED
  BY <1>3, <1>6, <1>7, <1>8, <1>9, <1>10, <1>11, RowInv

LEMMA CopyFaultInv == ASSUME CowAssumption, CowIInv, NEW p \in Proc, NEW v \in V, CopyFault(p, v) PROVE CowIInv'
<1> DEFINE old == page[p][v]
<1>1. pte_w \in [Proc -> [V -> BOOLEAN]] /\ page \in [Proc -> [V -> Page \cup {0}]] /\ data \in [Page -> Value] /\ ref \in [Page -> Nat]
  BY DEF CowIInv, TypeOK
<1>2. p \in live /\ v \in Writable /\ ref[old] > 1
  BY DEF CopyFault, Shared
<1>3. old \in Page
  BY <1>2 DEF CowIInv, CowInv
<1>4. PICK new \in Free :
         /\ page' = [page EXCEPT ![p][v] = new]
         /\ data' = [data EXCEPT ![new] = data[old]]
         /\ ref' = [ref EXCEPT ![new] = 1, ![old] = @ - 1]
  BY DEF CopyFault
<1>5. new \in Page /\ ref[new] = 0 /\ new # old
  BY <1>2, <1>4 DEF Free
<1>6. \A u \in V : page[p][u] \in Page /\ page[p][u] # new
  <2>1. One(page[p], new) = 0
    BY <1>1, <1>5, MappedCounts
  <2>2. \A u \in V : page[p][u] # new
    BY <2>1 DEF One
  <2> QED
    BY <2>2, <1>2 DEF CowIInv, CowInv
<1> DEFINE f == [page[p] EXCEPT ![v] = new]
<1>7. f \in [V -> Page] /\ f \in [V -> Page \cup {0}] /\ f[v] = new /\ \A u \in V : u # v => f[u] = page[p][u]
  BY <1>1, <1>5, <1>6
<1>8. page' = [page EXCEPT ![p] = f]
  BY <1>1, <1>4
<1>9. \A u, w \in V : page[p][u] = page[p][w] => u = w
  BY <1>2 DEF CowIInv, OwnPages
<1> HIDE DEF f, old
<1>10. \A u, w \in V : f[u] = f[w] /\ f[u] # 0 => u = w
  BY <1>6, <1>7, <1>9
<1>11. ASSUME NEW g \in Page
       PROVE  ref'[g] = ref[g] - One(page[p], g) + One(f, g)
  <2>1. CASE g = new
    <3>1. One(f, g) = 1 /\ One(page[p], g) = 0
      BY <2>1, <1>6, <1>7 DEF One
    <3>2. ref'[g] = 1
      BY <2>1, <1>1, <1>3, <1>4, <1>5
    <3> QED
      BY <3>1, <3>2, <2>1, <1>5
  <2>2. CASE g = old
    <3>1. One(f, g) = 0
      BY <2>2, <1>5, <1>7, <1>9 DEF One, old
    <3>2. One(page[p], g) = 1
      BY <2>2 DEF One, old
    <3>3. ref'[g] = ref[g] - 1
      BY <2>2, <1>1, <1>3, <1>4, <1>5
    <3> QED
      BY <3>1, <3>2, <3>3, <1>1
  <2>3. CASE g # new /\ g # old
    <3>1. ref'[g] = ref[g]
      BY <2>3, <1>1, <1>4
    <3>2. One(f, g) = One(page[p], g)
      <4>1. \A u \in V : f[u] = g <=> page[p][u] = g
        BY <2>3, <1>7 DEF old
      <4> QED
        BY <4>1 DEF One
    <3>3. One(f, g) \in 0 .. 1
      BY DEF One
    <3> QED
      BY <3>1, <3>2, <3>3, <1>1
  <2> QED
    BY <2>1, <2>2, <2>3
<1>12. ref' = [g \in Page |-> ref[g] - One(page[p], g) + One(f, g)]
  <2>1. ref' = [g \in Page |-> ref'[g]]
    BY <1>1, <1>4
  <2> QED
    BY <2>1, <1>11
<1>13. pte_w' \in [Proc -> [V -> BOOLEAN]] /\ live' = live \cup {p}
  BY <1>1, <1>2 DEF CopyFault
<1>14. data' \in [Page -> Value]
  BY <1>1, <1>3, <1>4
<1>15. ASSUME NEW q \in Proc, NEW u \in V, pte_w'[q][u]
       PROVE  q \in live' /\ u \in Writable /\ ref'[page'[q][u]] = 1
  <2>1. CASE q = p /\ u = v
    BY <2>1, <1>1, <1>2, <1>3, <1>4, <1>5, <1>13
  <2>2. CASE ~ (q = p /\ u = v)
    <3>1. pte_w[q][u]
      BY <2>2, <1>1, <1>15 DEF CopyFault
    <3>2. page[q][u] \in Page /\ ref[page[q][u]] = 1 /\ q \in live /\ u \in Writable
      BY <3>1, WritableOwn
    <3>3. page'[q][u] = page[q][u]
      BY <2>2, <1>1, <1>4
    <3>4. page[q][u] # new /\ page[q][u] # old
      BY <3>2, <1>2, <1>5
    <3>5. ref'[page[q][u]] = 1
      BY <3>2, <3>4, <1>1, <1>4
    <3> QED
      BY <3>2, <3>3, <3>5, <1>13
  <2> QED
    BY <2>1, <2>2
<1> QED
  BY <1>7, <1>8, <1>10, <1>12, <1>13, <1>14, <1>15, RowInv, ZenonT(60)

LEMMA PromoteFaultInv == ASSUME CowAssumption, CowIInv, NEW p \in Proc, NEW v \in V, PromoteFault(p, v) PROVE CowIInv'
<1>1. pte_w \in [Proc -> [V -> BOOLEAN]] /\ ref \in [Page -> Nat]
  BY DEF CowIInv, TypeOK
<1>2. p \in live /\ v \in Writable /\ ~ (ref[page[p][v]] > 1) /\ page[p][v] \in Page
  BY DEF PromoteFault, Shared, CowIInv, CowInv
<1>3. ref[page[p][v]] = 1
  <2>1. One(page[p], page[p][v]) = 1
    BY DEF One
  <2>2. One(page[p], page[p][v]) <= ref[page[p][v]]
    BY <1>2, MappedCounts
  <2>3. ref[page[p][v]] \in Nat
    BY <1>1, <1>2
  <2> QED
    BY <2>1, <2>2, <2>3, <1>2
<1>4. pte_w' \in [Proc -> [V -> BOOLEAN]] /\ UNCHANGED <<live, page, ref, data>>
  BY <1>1 DEF PromoteFault
<1>5. \A q \in Proc, u \in V : pte_w'[q][u] => pte_w[q][u] \/ (q = p /\ u = v)
  BY <1>1 DEF PromoteFault
<1>6. \A q \in Proc, u \in V : pte_w'[q][u] => q \in live /\ u \in Writable /\ ref[page[q][u]] = 1
  BY <1>2, <1>3, <1>5 DEF CowIInv, CowInv
<1> QED
  BY <1>4, <1>6 DEF CowIInv, CowInv, TypeOK, CowMapped, OwnPages

(* A store, of a program or of the kernel, goes through a writable entry.  *)
LEMMA StoreInv ==
    ASSUME CowIInv, UNCHANGED <<live, page, pte_w, ref>>, data' \in [Page -> Value]
    PROVE  CowIInv'
BY DEF CowIInv, CowInv, TypeOK, CowMapped, OwnPages

LEMMA StoreType == ASSUME CowIInv, NEW p \in Proc, NEW v \in V, NEW x \in Value PROVE [data EXCEPT ![page[p][v]] = x] \in [Page -> Value]
BY DEF CowIInv, TypeOK

LEMMA CowNext == CowAssumption /\ CowIInv /\ [Next]_vars => CowIInv'
<1> SUFFICES ASSUME CowAssumption, CowIInv, [Next]_vars PROVE CowIInv'
  OBVIOUS
<1>1. ASSUME NEW p \in Proc, NEW c \in Proc, NEW done \in V, Fork(p, c, done) PROVE CowIInv'
  BY <1>1, ForkInv
<1>2. ASSUME NEW p \in Proc, Exit(p) PROVE CowIInv'
  BY <1>2, ExitInv DEF Exit
<1>3. ASSUME NEW p \in Proc, Exec(p) PROVE CowIInv'
  BY <1>3, ExecInv
<1>4. ASSUME NEW p \in Proc, ExecNoMem(p) PROVE CowIInv'
  BY <1>4, ExitInv DEF ExecNoMem
<1>5. ASSUME NEW p \in Proc, NEW v \in V, CopyFault(p, v) PROVE CowIInv'
  BY <1>5, CopyFaultInv
<1>6. ASSUME NEW p \in Proc, NEW v \in V, PromoteFault(p, v) PROVE CowIInv'
  BY <1>6, PromoteFaultInv
<1>7. ASSUME NEW p \in Proc, NEW v \in V, NEW x \in Value, Store(p, v, x) PROVE CowIInv'
  BY <1>7, StoreInv, StoreType DEF Store
<1>8. ASSUME NEW p \in Proc, NEW v \in V, NEW x \in Value, KernelStore(p, v, x) PROVE CowIInv'
  <2>1. data' = data \/ data' = [data EXCEPT ![page[p][v]] = x]
    BY <1>8 DEF KernelStore
  <2>2. data' \in [Page -> Value]
    BY <2>1, StoreType DEF CowIInv, TypeOK
  <2> QED
    BY <1>8, <2>2, StoreInv DEF KernelStore
<1>9. CASE UNCHANGED vars
  BY <1>9 DEF vars, CowIInv, CowInv, TypeOK, CowMapped, OwnPages
<1> QED
  BY <1>1, <1>2, <1>3, <1>4, <1>5, <1>6, <1>7, <1>8, <1>9 DEF Next

(* lab5 pmm.c and vmm.c: whatever processes fork, exit, load a program,    *)
(* store or fault, and wherever memory runs out, the reference count of a  *)
(* page is the number of entries that map it, so it is freed with its last *)
(* mapping and not before, and an entry is writable only if no other one   *)
(* maps its page.                                                          *)
THEOREM CowCorrect == ASSUME CowAssumption PROVE Spec => []CowInv
<1>1. Init => CowIInv
  BY CowInit
<1>2. CowIInv /\ [Next]_vars => CowIInv'
  BY CowNext
<1>3. CowIInv => CowInv
  BY DEF CowIInv
<1> QED
  BY <1>1, <1>2, <1>3, PTL DEF Spec

---------------------------------------------------------------------------
(* The refinement.                                                         *)

Row(p) == [v \in V |-> data[page[p][v]]]

LEMMA MemoryRows ==
    ASSUME CowAssumption, CowIInv
    PROVE  /\ Memory = [p \in Proc |-> IF p \in live THEN Row(p) ELSE NoMem]
           /\ \A p \in Proc : Memory[p] # NoMem <=> p \in live
<1>1. ASSUME NEW p \in live PROVE Row(p) \in [V -> Value]
  BY DEF Row, CowIInv, CowInv, TypeOK
<1>2. Memory = [p \in Proc |-> IF p \in live THEN Row(p) ELSE NoMem]
  BY DEF Memory, Row
<1> QED
  BY <1>1, <1>2 DEF CowAssumption, V

(* A page that another process maps is not freed when p gives up its own.  *)
LEMMA StillMapped ==
    ASSUME CowAssumption, CowIInv, NEW p \in Proc, NEW q \in Proc, p # q, NEW u \in V, page[q][u] \in Page
    PROVE  Dropped(p)[page[q][u]] # 0
<1> DEFINE g == page[q][u]
<1>1. <<q, u>> \in Others(page, p, g)
  BY DEF Others
<1> HIDE DEF g
<1>2. g \in Page
  BY DEF g
<1>3. IsFiniteSet(Others(page, p, g)) /\ Cardinality(Others(page, p, g)) \in Nat
  BY EntriesFinite DEF Others
<1>4. Cardinality(Others(page, p, g)) # 0
  BY <1>1, <1>3, FS_EmptySet
<1>5. \A w, v \in V : page[p][w] = g /\ page[p][v] = g => w = v
  BY <1>2, MappedCounts
<1>6. Cardinality(Entries(page, g)) = Cardinality(Others(page, p, g)) + One(page[p], g)
  BY <1>5, SplitRow
<1>7. ref[g] = Cardinality(Entries(page, g))
  BY <1>2 DEF CowIInv, CowInv, Entries
<1>8. Dropped(p)[g] = ref[g] - One(page[p], g)
  BY <1>2 DEF Dropped, One
<1>9. One(page[p], g) \in 0 .. 1
  BY DEF One
<1> QED
  BY <1>3, <1>4, <1>6, <1>7, <1>8, <1>9 DEF g

LEMMA ForkPrivate ==
    ASSUME CowAssumption, CowIInv, NEW p \in Proc, NEW c \in Proc, NEW done \in V, Fork(p, c, done)
    PROVE  Private!Fork(p, c) \/ UNCHANGED Memory
<1>1. CASE done < NV
  BY <1>1 DEF Fork, Memory
<1>2. CASE ~ (done < NV)
  <2>1. p \in live /\ c \notin live /\ live' = live \cup {c} /\ page' = [page EXCEPT ![c] = page[p]] /\ data' = data
    BY <1>2 DEF Fork
  <2>2. page \in [Proc -> [V -> Page \cup {0}]]
    BY DEF CowIInv, TypeOK
  <2>3. Memory' = [q \in Proc |-> IF q \in live' THEN [v \in V |-> data'[page'[q][v]]] ELSE NoMem]
    BY DEF Memory
  <2>4. Memory' = [Memory EXCEPT ![c] = Memory[p]]
    BY <2>1, <2>2, <2>3 DEF Memory
  <2>5. Memory[p] # NoMem /\ Memory[c] = NoMem
    BY <2>1, MemoryRows
  <2> QED
    BY <2>4, <2>5 DEF Private!Fork
<1> QED
  BY <1>1, <1>2

LEMMA ExitPrivate ==
    ASSUME CowAssumption, CowIInv, NEW p \in live, live' = live \ {p}, page' = [page EXCEPT ![p] = [v \in V |-> 0]], data' = data
    PROVE  Private!Exit(p)
<1>1. page \in [Proc -> [V -> Page \cup {0}]] /\ p \in Proc
  BY DEF CowIInv, TypeOK
<1>2. Memory' = [q \in Proc |-> IF q \in live' THEN [v \in V |-> data'[page'[q][v]]] ELSE NoMem]
  BY DEF Memory
<1>3. Memory' = [Memory EXCEPT ![p] = NoMem]
  BY <1>1, <1>2 DEF Memory
<1>4. Memory[p] # NoMem
  BY <1>1, MemoryRows
<1> QED
  BY <1>3, <1>4 DEF Private!Exit

LEMMA ExecPrivate == ASSUME CowAssumption, CowIInv, NEW p \in Proc, Exec(p) PROVE Private!Exec(p)
<1>1. page \in [Proc -> [V -> Page \cup {0}]] /\ data \in [Page -> Value] /\ p \in live /\ live' = live /\ live \subseteq Proc
  BY DEF CowIInv, TypeOK, Exec
<1>2. PICK f \in [V -> {g \in Page : Dropped(p)[g] = 0}], left \in [V -> Value] :
         /\ \A u, v \in V : f[u] = f[v] => u = v
         /\ page' = [page EXCEPT ![p] = f]
         /\ data' = Loaded(f, left, data)
  BY DEF Exec
<1> DEFINE found == [v \in V |-> IF v \in Cleared THEN Zero ELSE left[v]]
<1>3. f \in [V -> Page]
  BY <1>2
<1>4. found \in Private!NewProgram
  <2>1. found \in [V -> Value]
    BY <1>2 DEF CowAssumption
  <2>2. \A v \in Cleared : found[v] = Zero
    BY DEF CowAssumption, V
  <2> QED
    BY <2>1, <2>2 DEF Private!NewProgram
<1>5. /\ \A v \in V : data'[f[v]] = found[v]
      /\ \A g \in Page : (\A v \in V : f[v] # g) => data'[g] = data[g]
  <2>1. \A v \in V : Loaded(f, left, data)[f[v]] = IF v \in Cleared THEN Zero ELSE left[v]
    BY <1>1, <1>2, <1>3, LoadedFacts
  <2>2. \A g \in Page : (\A v \in V : f[v] # g) => Loaded(f, left, data)[g] = data[g]
    BY <1>1, <1>2, <1>3, LoadedFacts
  <2> QED
    BY <1>2, <2>1, <2>2
<1> HIDE DEF found
<1>6. ASSUME NEW v \in V PROVE data'[page'[p][v]] = found[v]
  BY <1>1, <1>2, <1>5
<1>7. ASSUME NEW q \in live, q # p, NEW v \in V PROVE data'[page'[q][v]] = data[page[q][v]]
  <2>1. page[q][v] \in Page /\ page'[q][v] = page[q][v]
    BY <1>1, <1>2, <1>7 DEF CowIInv, CowInv
  <2>2. Dropped(p)[page[q][v]] # 0
    BY <2>1, <1>1, <1>7, StillMapped
  <2>3. \A u \in V : f[u] # page[q][v]
    BY <2>2
  <2> QED
    BY <2>1, <2>3, <1>5
<1>8. Memory' = [q \in Proc |-> IF q \in live THEN [v \in V |-> data'[page'[q][v]]] ELSE NoMem]
  BY <1>1 DEF Memory
<1>9. Memory' = [Memory EXCEPT ![p] = found]
  <2>1. [v \in V |-> data'[page'[p][v]]] = found
    BY <1>6 DEF found
  <2>2. ASSUME NEW q \in live, q # p PROVE [v \in V |-> data'[page'[q][v]]] = [v \in V |-> data[page[q][v]]]
    BY <1>7, <2>2
  <2> QED
    BY <1>1, <1>8, <2>1, <2>2 DEF Memory
<1>10. Memory[p] # NoMem
  BY <1>1, MemoryRows
<1> QED
  BY <1>4, <1>9, <1>10 DEF Private!Exec

LEMMA CopyFaultPrivate ==
    ASSUME CowAssumption, CowIInv, NEW p \in Proc, NEW v \in V, CopyFault(p, v)
    PROVE  UNCHANGED Memory
<1>1. page \in [Proc -> [V -> Page \cup {0}]] /\ data \in [Page -> Value] /\ ref \in [Page -> Nat] /\ live \subseteq Proc
  BY DEF CowIInv, TypeOK
<1>2. PICK new \in Free :
         /\ page' = [page EXCEPT ![p][v] = new]
         /\ data' = [data EXCEPT ![new] = data[page[p][v]]]
  BY DEF CopyFault
<1>3. new \in Page /\ ref[new] = 0
  BY <1>2 DEF Free
<1>4. ASSUME NEW q \in live, NEW u \in V PROVE data'[page'[q][u]] = data[page[q][u]]
  <2>1. One(page[q], new) = 0
    BY <1>1, <1>3, MappedCounts
  <2>2. page[q][u] # new
    BY <2>1 DEF One
  <2>3. page[q][u] \in Page
    BY DEF CowIInv, CowInv
  <2>4. CASE q = p /\ u = v
    BY <2>4, <1>1, <1>2, <1>3
  <2>5. CASE ~ (q = p /\ u = v)
    <3>1. page'[q][u] = page[q][u]
      BY <2>5, <1>1, <1>2
    <3> QED
      BY <3>1, <2>2, <2>3, <1>1, <1>2
  <2> QED
    BY <2>4, <2>5
<1>5. live' = live
  BY DEF CopyFault
<1> QED
  BY <1>4, <1>5 DEF Memory

LEMMA StorePrivate ==
    ASSUME CowAssumption, CowIInv, NEW p \in Proc, NEW v \in V, NEW x \in Value, pte_w[p][v],
           data' = [data EXCEPT ![page[p][v]] = x], live' = live, page' = page
    PROVE  Private!Write(p, v, x)
<1>1. data \in [Page -> Value] /\ live \subseteq Proc
  BY DEF CowIInv, TypeOK
<1>2. page[p][v] \in Page /\ ref[page[p][v]] = 1 /\ p \in live /\ v \in Writable
  BY WritableOwn
<1>3. ASSUME NEW q \in live, NEW u \in V
      PROVE  data'[page[q][u]] = IF q = p /\ u = v THEN x ELSE data[page[q][u]]
  <2>1. CASE q = p /\ u = v
    BY <2>1, <1>1, <1>2
  <2>2. CASE ~ (q = p /\ u = v)
    <3>1. page[q][u] # page[p][v]
      BY <2>2, <1>1, <1>2, OnlyEntry
    <3>2. page[q][u] \in Page
      BY DEF CowIInv, CowInv
    <3> QED
      BY <3>1, <3>2, <2>2, <1>1
  <2> QED
    BY <2>1, <2>2
<1>4. Memory' = [q \in Proc |-> IF q \in live THEN [u \in V |-> data'[page[q][u]]] ELSE NoMem]
  BY DEF Memory
<1>5. Memory' = [Memory EXCEPT ![p][v] = x]
  <2>1. ASSUME NEW q \in live, q # p PROVE [u \in V |-> data'[page[q][u]]] = [u \in V |-> data[page[q][u]]]
    BY <1>3, <2>1
  <2>2. [u \in V |-> data'[page[p][u]]] = [Memory[p] EXCEPT ![v] = x]
    <3>1. Memory[p] = [u \in V |-> data[page[p][u]]]
      BY <1>2 DEF Memory
    <3>2. \A u \in V : data'[page[p][u]] = IF u = v THEN x ELSE data[page[p][u]]
      BY <1>2, <1>3
    <3> QED
      BY <3>1, <3>2
  <2>3. [Memory EXCEPT ![p] = [Memory[p] EXCEPT ![v] = x]]
          = [q \in Proc |-> IF q = p THEN [Memory[p] EXCEPT ![v] = x] ELSE Memory[q]]
    BY DEF Memory
  <2>4. \A q \in Proc : q # p => Memory'[q] = Memory[q]
    BY <1>4, <2>1 DEF Memory
  <2>5. Memory'[p] = [Memory[p] EXCEPT ![v] = x]
    BY <1>2, <1>4, <2>2
  <2> QED
    BY <1>4, <2>3, <2>4, <2>5
<1>6. Memory[p] # NoMem
  BY <1>2, MemoryRows
<1> QED
  BY <1>2, <1>5, <1>6 DEF Private!Write

LEMMA PrivateStep == CowAssumption /\ CowIInv /\ [Next]_vars => [Private!Next]_Memory
<1> SUFFICES ASSUME CowAssumption, CowIInv, [Next]_vars PROVE Private!Next \/ UNCHANGED Memory
  OBVIOUS
<1>1. ASSUME NEW p \in Proc, NEW c \in Proc, NEW done \in V, Fork(p, c, done) PROVE Private!Next \/ UNCHANGED Memory
  BY <1>1, ForkPrivate DEF Private!Next
<1>2. ASSUME NEW p \in Proc, Exit(p) PROVE Private!Next \/ UNCHANGED Memory
  BY <1>2, ExitPrivate DEF Private!Next, Exit
<1>3. ASSUME NEW p \in Proc, Exec(p) PROVE Private!Next \/ UNCHANGED Memory
  BY <1>3, ExecPrivate DEF Private!Next
<1>4. ASSUME NEW p \in Proc, ExecNoMem(p) PROVE Private!Next \/ UNCHANGED Memory
  BY <1>4, ExitPrivate DEF Private!Next, ExecNoMem
<1>5. ASSUME NEW p \in Proc, NEW v \in V, CopyFault(p, v) PROVE Private!Next \/ UNCHANGED Memory
  BY <1>5, CopyFaultPrivate
<1>6. ASSUME NEW p \in Proc, NEW v \in V, PromoteFault(p, v) PROVE Private!Next \/ UNCHANGED Memory
  BY <1>6 DEF PromoteFault, Memory
<1>7. ASSUME NEW p \in Proc, NEW v \in V, NEW x \in Value, Store(p, v, x) PROVE Private!Next \/ UNCHANGED Memory
  BY <1>7, StorePrivate DEF Private!Next, Store
<1>8. ASSUME NEW p \in Proc, NEW v \in V, NEW x \in Value, KernelStore(p, v, x) PROVE Private!Next \/ UNCHANGED Memory
  <2>1. CASE pte_w[p][v]
    BY <1>8, <2>1, StorePrivate DEF Private!Next, KernelStore
  <2>2. CASE ~ pte_w[p][v]
    BY <1>8, <2>2 DEF KernelStore, Memory
  <2> QED
    BY <2>1, <2>2
<1>9. CASE UNCHANGED vars
  BY <1>9 DEF vars, Memory
<1> QED
  BY <1>1, <1>2, <1>3, <1>4, <1>5, <1>6, <1>7, <1>8, <1>9 DEF Next

LEMMA PrivateInit == CowAssumption /\ Init => Private!Init
<1> SUFFICES ASSUME CowAssumption, Init PROVE Private!Init
  OBVIOUS
<1>1. PICK f \in [V -> Page], left \in [V -> Value] :
         /\ \A u, v \in V : f[u] = f[v] => u = v
         /\ page = [p \in Proc |-> IF p = Main THEN f ELSE [v \in V |-> 0]]
         /\ data = Loaded(f, left, [g \in Page |-> Zero])
  BY DEF Init
<1> DEFINE found == [v \in V |-> IF v \in Cleared THEN Zero ELSE left[v]]
<1>2. ASSUME NEW v \in V PROVE data[page[Main][v]] = found[v]
  <2>1. page[Main][v] = f[v] /\ [g \in Page |-> Zero] \in [Page -> Value]
    BY <1>1 DEF CowAssumption
  <2> QED
    BY <1>1, <2>1, LoadedFacts
<1>3. Memory = [q \in Proc |-> IF q = Main THEN found ELSE NoMem]
  <2>1. [v \in V |-> data[page[Main][v]]] = found
    BY <1>2
  <2> QED
    BY <2>1 DEF Memory, Init, CowAssumption
<1>4. found \in Private!NewProgram
  <2>1. found \in [V -> Value]
    BY <1>1 DEF CowAssumption
  <2>2. \A v \in Cleared : found[v] = Zero
    BY DEF CowAssumption, V
  <2> QED
    BY <2>1, <2>2 DEF Private!NewProgram
<1> HIDE DEF found
<1> QED
  BY <1>3, <1>4 DEF Private!Init, CowAssumption

(* lab5 vmm.c dup_mmap and do_pgfault: no process can tell that pages are  *)
(* shared.  With the memory each process sees for mem, every behaviour is  *)
(* one of MemSpec, where fork copies at once and a store is seen by its    *)
(* process alone; faults, and a fork that runs out of memory, are          *)
(* invisible.                                                              *)
THEOREM CowImplementsMemSpec == ASSUME CowAssumption PROVE Spec => PrivateMemory
<1>1. Init => CowIInv
  BY CowInit
<1>2. CowIInv /\ [Next]_vars => CowIInv'
  BY CowNext
<1>3. Init => Private!Init
  BY PrivateInit
<1>4. CowIInv /\ [Next]_vars => [Private!Next]_Memory
  BY PrivateStep
<1> QED
  BY <1>1, <1>2, <1>3, <1>4, PTL DEF Spec, PrivateMemory, Private!Spec

---------------------------------------------------------------------------
(* Address spaces, and what a call on one works on.                        *)
Area == {a \in (0 .. NVirt) \X (0 .. NVirt) : a[1] < a[2]}
Entry == Frames \cup {0}
MmRec == [vmas : Seq(Area), pgdir : Entry, pd : [Pds -> Entry], pt : [Pts -> Entry], pte : [Virt -> Entry]]
Work == [m : MmRec, free : SUBSET Frames, ret : {"ok", "E_NO_MEM", "assert", "read"}]

(* The places of an address space that use a page, and the page of each.   *)
Places == {<<"pgdir", 0>>} \cup ({"pd"} \X Pds) \cup ({"pt"} \X Pts) \cup ({"page"} \X Virt)
At(m, x) ==
    IF x[1] = "pgdir" THEN m.pgdir
    ELSE IF x[1] = "pd" THEN m.pd[x[2]]
    ELSE IF x[1] = "pt" THEN m.pt[x[2]]
    ELSE m.pte[x[2]]
Use(m) == {At(m, x) : x \in Places} \ {0}

(* No page has two uses, or is free or another's (X) as well.              *)
Distinct(m) == \A x, y \in Places : x # y /\ At(m, x) # 0 => At(m, x) # At(m, y)
Good(s, X) ==
    /\ s \in Work
    /\ Distinct(s.m)
    /\ \A x \in Places : At(s.m, x) \notin s.free /\ At(s.m, x) \notin X
    /\ s.free \cap X = {}

(* The mapped pages are those of C, each with the tables above it.         *)
AreaPages(vmas) == UNION {Pages(vmas[i]) : i \in DOMAIN vmas}
Mapped(m) == {v \in Virt : m.pte[v] # 0}
Covers(m, C) == \A v \in Virt : m.pte[v] # 0 <=> v \in C
Tables(m) == \A v \in Virt : m.pte[v] # 0 => m.pt[Pt(v)] # 0 /\ m.pd[Pd(Pt(v))] # 0
Covered(m, C) == Covers(m, C) /\ Tables(m)

(* They lie in the areas, and none is missing that the page loop reaches.  *)
Filled(vmas, pte) == \A i \in DOMAIN vmas : \A v \in Pages(vmas[i]) : Required(v, vmas[i]) => pte[v] # 0
Fits(m) == Mapped(m) \subseteq AreaPages(m.vmas) /\ Filled(m.vmas, m.pte)
Full(m) == Fits(m) /\ Tables(m) /\ m.pgdir # 0

---------------------------------------------------------------------------
(* Induction from i to j, over a set.                                      *)
LEMMA LeastOf ==
    ASSUME NEW S \in SUBSET Nat, S # {}
    PROVE  \E i \in S : \A j \in S : i <= j
<1>1. IsWellFoundedOn({x \in Nat \X Nat : x[1] < x[2]}, Nat)
  BY NatLessThanWellFounded, Zenon DEF OpToRel
<1>2. PICK i \in S : \A j \in S : <<j, i>> \notin {x \in Nat \X Nat : x[1] < x[2]}
  BY <1>1, WFMin
<1>3. ASSUME NEW j \in S PROVE i <= j
  <2>1. i \in Nat /\ j \in Nat /\ <<j, i>> \in Nat \X Nat
    OBVIOUS
  <2>2. ~(<<j, i>>[1] < <<j, i>>[2])
    BY <1>2, <2>1
  <2> QED
    BY <2>1, <2>2
<1> QED
  BY <1>3

LEMMA UpTo ==
    ASSUME NEW i \in Nat, NEW j \in Nat, NEW B, i \in B, \A k \in i + 1 .. j : k - 1 \in B => k \in B
    PROVE  i .. j \subseteq B
<1> DEFINE Bad == {k \in i .. j : k \notin B}
<1> SUFFICES ASSUME Bad # {} PROVE FALSE
  OBVIOUS
<1>1. PICK k \in Bad : \A n \in Bad : k <= n
  <2>1. Bad \in SUBSET Nat
    OBVIOUS
  <2> HIDE DEF Bad
  <2> QED
    BY <2>1, LeastOf
<1>2. k \in i .. j /\ k \notin B
  OBVIOUS
<1>3. k # i
  BY <1>2
<1>4. k - 1 \in i .. j /\ ~(k <= k - 1) /\ k \in i + 1 .. j
  BY <1>2, <1>3
<1>5. k - 1 \notin Bad
  BY <1>1, <1>4
<1> QED
  BY <1>2, <1>4, <1>5

(* A loop that ran to m - 1 makes one more turn.                           *)
Extends(v, w, i, m, x) == v = [k \in i .. m |-> v[k]] /\ v[m] = x /\ \A k \in i .. m - 1 : v[k] = w[k]

LEMMA OneMore ==
    ASSUME NEW i \in Nat, NEW m \in Nat, i < m, NEW w, NEW x
    PROVE  \E v : Extends(v, w, i, m, x)
<1>1. PICK v : v = [k \in i .. m |-> IF k = m THEN x ELSE w[k]]
  OBVIOUS
<1>2. \A k \in i .. m : v[k] = IF k = m THEN x ELSE w[k]
  BY <1>1
<1>3. v = [k \in i .. m |-> v[k]]
  BY <1>1
<1>4. v[m] = x
  BY <1>2
<1>5. \A k \in i .. m - 1 : k \in i .. m /\ k # m
  OBVIOUS
<1> QED
  BY <1>2, <1>3, <1>4, <1>5 DEF Extends

LEMMA LowestFree ==
    ASSUME MmAssumption, NEW S \in SUBSET Frames, S # {}
    PROVE  Min(S) \in S /\ Min(S) \in Frames /\ Min(S) # 0
<1>1. S \in SUBSET Nat /\ 0 \notin Frames
  BY DEF Frames, MmAssumption
<1>2. \E i \in S : \A j \in S : i <= j
  BY <1>1, LeastOf
<1> QED
  BY <1>1, <1>2 DEF Min

---------------------------------------------------------------------------
LEMMA MmFacts ==
    ASSUME MmAssumption
    PROVE  /\ Frames \subseteq Nat /\ 0 \notin Frames /\ IsFiniteSet(Frames)
           /\ Virt \subseteq Nat /\ NVirt \in Nat
           /\ \A v \in Virt : Pt(v) \in Pts /\ Pd(Pt(v)) \in Pds
           /\ \A t \in Pts : Pd(t) \in Pds
           /\ \A a \in Area : a[1] \in Nat /\ a[2] \in Nat /\ a[1] <= a[2] /\ Pages(a) \subseteq Virt
<1>1. NPage \in Nat /\ NVirt \in Nat
  BY DEF MmAssumption
<1>2. Frames \subseteq Nat /\ 0 \notin Frames /\ IsFiniteSet(Frames)
  BY <1>1, FS_Interval DEF Frames
<1>3. Virt \subseteq Nat
  BY <1>1 DEF Virt
<1>4. \A v \in Virt : Pt(v) \in Pts
  BY DEF Pts
<1>5. \A t \in Pts : Pd(t) \in Pds
  BY DEF Pds
<1>6. ASSUME NEW a \in Area PROVE a[1] \in Nat /\ a[2] \in Nat /\ a[1] <= a[2] /\ Pages(a) \subseteq Virt
  <2>1. a[1] \in 0 .. NVirt /\ a[2] \in 0 .. NVirt /\ a[1] <= a[2]
    BY DEF Area
  <2> QED
    BY <2>1, <1>1 DEF Pages, Virt
<1> QED
  BY <1>1, <1>2, <1>3, <1>4, <1>5, <1>6

LEMMA WorkFields ==
    ASSUME NEW s \in Work
    PROVE  /\ s.m \in MmRec /\ s.free \in SUBSET Frames /\ s.ret \in {"ok", "E_NO_MEM", "assert", "read"}
           /\ s = [m |-> s.m, free |-> s.free, ret |-> s.ret]
           /\ s.m.vmas \in Seq(Area) /\ s.m.pgdir \in Entry /\ s.m.pd \in [Pds -> Entry]
           /\ s.m.pt \in [Pts -> Entry] /\ s.m.pte \in [Virt -> Entry]
           /\ s.m = [vmas |-> s.m.vmas, pgdir |-> s.m.pgdir, pd |-> s.m.pd, pt |-> s.m.pt, pte |-> s.m.pte]
BY DEF Work, MmRec

(* What At says of the fields.                                             *)
LEMMA AtFields ==
    ASSUME NEW m
    PROVE  /\ <<"pgdir", 0>> \in Places /\ At(m, <<"pgdir", 0>>) = m.pgdir
           /\ \A d \in Pds : <<"pd", d>> \in Places /\ At(m, <<"pd", d>>) = m.pd[d]
           /\ \A t \in Pts : <<"pt", t>> \in Places /\ At(m, <<"pt", t>>) = m.pt[t]
           /\ \A v \in Virt : <<"page", v>> \in Places /\ At(m, <<"page", v>>) = m.pte[v]
           /\ \A x \in Places : \/ x = <<"pgdir", 0>>
                                \/ \E d \in Pds : x = <<"pd", d>>
                                \/ \E t \in Pts : x = <<"pt", t>>
                                \/ \E v \in Virt : x = <<"page", v>>
BY DEF At, Places

(* A free page b gets a use at the place x, which had none, or one that is *)
(* forgotten.                                                              *)
LEMMA Takes ==
    ASSUME MmAssumption, NEW s, NEW X, Good(s, X), NEW b \in s.free, NEW x \in Places,
           NEW t \in Work, t.free = s.free \ {b}, At(t.m, x) = b,
           \A y \in Places : y # x => At(t.m, y) = At(s.m, y)
    PROVE  Good(t, X)
<1>1. /\ s \in Work /\ Distinct(s.m) /\ s.free \cap X = {}
      /\ \A y \in Places : At(s.m, y) \notin s.free /\ At(s.m, y) \notin X
  BY DEF Good
<1>2. ASSUME NEW y \in Places PROVE At(t.m, y) \notin t.free /\ At(t.m, y) \notin X
  BY <1>1
<1>3. ASSUME NEW y \in Places, NEW z \in Places, y # z, At(t.m, y) # 0 PROVE At(t.m, y) # At(t.m, z)
  <2>1. CASE y = x
    BY <2>1, <1>1, <1>3
  <2>2. CASE z = x
    BY <2>2, <1>1, <1>3
  <2>3. CASE y # x /\ z # x
    BY <2>3, <1>1, <1>3 DEF Distinct
  <2> QED
    BY <2>1, <2>2, <2>3
<1>4. Distinct(t.m)
  BY <1>3 DEF Distinct
<1>5. t.free \cap X = {}
  BY <1>1
<1> QED
  BY <1>2, <1>4, <1>5 DEF Good

(* The page goes to a field of the address space.                          *)
LEMMA EditPd ==
    ASSUME NEW s \in Work, NEW d \in Pds, NEW b, NEW F
    PROVE  [s EXCEPT !.m.pd[d] = b, !.free = F]
             = [m |-> [vmas |-> s.m.vmas, pgdir |-> s.m.pgdir, pd |-> [s.m.pd EXCEPT ![d] = b], pt |-> s.m.pt, pte |-> s.m.pte],
                free |-> F, ret |-> s.ret]
<1>1. PICK e : e = s.m
  OBVIOUS
<1>2. PICK G, r : G = s.free /\ r = s.ret
  OBVIOUS
<1>3. s = [m |-> e, free |-> G, ret |-> r]
  BY <1>1, <1>2, WorkFields
<1>4. PICK t : t = [s EXCEPT !.m.pd[d] = b, !.free = F]
  OBVIOUS
<1>5. t = [m |-> [e EXCEPT !.pd[d] = b], free |-> F, ret |-> r]
  BY <1>3, <1>4
<1>6. PICK g : g = [e EXCEPT !.pd[d] = b]
  OBVIOUS
<1>7. e = [vmas |-> e.vmas, pgdir |-> e.pgdir, pd |-> e.pd, pt |-> e.pt, pte |-> e.pte]
  BY <1>1, WorkFields
<1>8. g = [vmas |-> e.vmas, pgdir |-> e.pgdir, pd |-> [e.pd EXCEPT ![d] = b], pt |-> e.pt, pte |-> e.pte]
  BY <1>6, <1>7
<1> QED
  BY <1>1, <1>2, <1>4, <1>5, <1>6, <1>8

LEMMA EditPt ==
    ASSUME NEW s \in Work, NEW u \in Pts, NEW b, NEW F
    PROVE  [s EXCEPT !.m.pt[u] = b, !.free = F]
             = [m |-> [vmas |-> s.m.vmas, pgdir |-> s.m.pgdir, pd |-> s.m.pd, pt |-> [s.m.pt EXCEPT ![u] = b], pte |-> s.m.pte],
                free |-> F, ret |-> s.ret]
<1>1. PICK e : e = s.m
  OBVIOUS
<1>2. PICK G, r : G = s.free /\ r = s.ret
  OBVIOUS
<1>3. s = [m |-> e, free |-> G, ret |-> r]
  BY <1>1, <1>2, WorkFields
<1>4. PICK t : t = [s EXCEPT !.m.pt[u] = b, !.free = F]
  OBVIOUS
<1>5. t = [m |-> [e EXCEPT !.pt[u] = b], free |-> F, ret |-> r]
  BY <1>3, <1>4
<1>6. PICK g : g = [e EXCEPT !.pt[u] = b]
  OBVIOUS
<1>7. e = [vmas |-> e.vmas, pgdir |-> e.pgdir, pd |-> e.pd, pt |-> e.pt, pte |-> e.pte]
  BY <1>1, WorkFields
<1>8. g = [vmas |-> e.vmas, pgdir |-> e.pgdir, pd |-> e.pd, pt |-> [e.pt EXCEPT ![u] = b], pte |-> e.pte]
  BY <1>6, <1>7
<1> QED
  BY <1>1, <1>2, <1>4, <1>5, <1>6, <1>8

LEMMA EditPte ==
    ASSUME NEW s \in Work, NEW v \in Virt, NEW b, NEW F
    PROVE  [s EXCEPT !.m.pte[v] = b, !.free = F]
             = [m |-> [vmas |-> s.m.vmas, pgdir |-> s.m.pgdir, pd |-> s.m.pd, pt |-> s.m.pt, pte |-> [s.m.pte EXCEPT ![v] = b]],
                free |-> F, ret |-> s.ret]
<1>1. PICK e : e = s.m
  OBVIOUS
<1>2. PICK G, r : G = s.free /\ r = s.ret
  OBVIOUS
<1>3. s = [m |-> e, free |-> G, ret |-> r]
  BY <1>1, <1>2, WorkFields
<1>4. PICK t : t = [s EXCEPT !.m.pte[v] = b, !.free = F]
  OBVIOUS
<1>5. t = [m |-> [e EXCEPT !.pte[v] = b], free |-> F, ret |-> r]
  BY <1>3, <1>4
<1>6. PICK g : g = [e EXCEPT !.pte[v] = b]
  OBVIOUS
<1>7. e = [vmas |-> e.vmas, pgdir |-> e.pgdir, pd |-> e.pd, pt |-> e.pt, pte |-> e.pte]
  BY <1>1, WorkFields
<1>8. g = [vmas |-> e.vmas, pgdir |-> e.pgdir, pd |-> e.pd, pt |-> e.pt, pte |-> [e.pte EXCEPT ![v] = b]]
  BY <1>6, <1>7
<1> QED
  BY <1>1, <1>2, <1>4, <1>5, <1>6, <1>8

LEMMA TakesPd ==
    ASSUME MmAssumption, NEW s, NEW X, Good(s, X), NEW b \in s.free, NEW d \in Pds,
           NEW f, f = [s.m.pd EXCEPT ![d] = b],
           NEW t, t = [m |-> [vmas |-> s.m.vmas, pgdir |-> s.m.pgdir, pd |-> f, pt |-> s.m.pt, pte |-> s.m.pte],
                       free |-> s.free \ {b}, ret |-> s.ret]
    PROVE  Good(t, X)
<1>1. s \in Work /\ s.free \in SUBSET Frames
  BY WorkFields DEF Good
<1>2. PICK g : g = [vmas |-> s.m.vmas, pgdir |-> s.m.pgdir, pd |-> f, pt |-> s.m.pt, pte |-> s.m.pte]
  OBVIOUS
<1>3. f \in [Pds -> Entry] /\ f[d] = b /\ \A c \in Pds : c # d => f[c] = s.m.pd[c]
  BY <1>1, WorkFields DEF Entry
<1>4. /\ t.m = g /\ t.free = s.free \ {b} /\ t.ret = s.ret /\ g.pgdir = s.m.pgdir
      /\ g.pd = f /\ g.pt = s.m.pt /\ g.pte = s.m.pte
  BY <1>2
<1>5. t \in Work
  <2>1. g \in MmRec
    BY <1>1, <1>2, <1>3, WorkFields DEF MmRec
  <2> QED
    BY <2>1, <1>1, <1>2, WorkFields DEF Work
<1>6. PICK x : x = <<"pd", d>>
  OBVIOUS
<1>7. x \in Places /\ At(g, x) = b /\ \A y \in Places : y # x => At(g, y) = At(s.m, y)
  <2>1. x \in Places /\ At(g, x) = g.pd[d]
    BY <1>6, AtFields
  <2>2. \A c \in Pds : c # d => g.pd[c] = s.m.pd[c]
    BY <1>3, <1>4
  <2>3. ASSUME NEW y \in Places, y # x PROVE At(g, y) = At(s.m, y)
    <3>1. CASE y = <<"pgdir", 0>>
      BY <3>1, <1>4, AtFields
    <3>2. CASE \E c \in Pds : y = <<"pd", c>>
      <4>1. PICK c \in Pds : y = <<"pd", c>>
        BY <3>2
      <4>2. c # d
        BY <4>1, <2>3, <1>6
      <4>3. At(g, y) = g.pd[c] /\ At(s.m, y) = s.m.pd[c]
        BY <4>1, AtFields
      <4> QED
        BY <4>2, <4>3, <2>2
    <3>3. CASE \E c \in Pts : y = <<"pt", c>>
      BY <3>3, <1>4, AtFields
    <3>4. CASE \E c \in Virt : y = <<"page", c>>
      BY <3>4, <1>4, AtFields
    <3> QED
      BY <3>1, <3>2, <3>3, <3>4, AtFields
  <2> QED
    BY <2>1, <2>3, <1>3, <1>4
<1> QED
  BY <1>4, <1>5, <1>7, Takes

LEMMA TakesPt ==
    ASSUME MmAssumption, NEW s, NEW X, Good(s, X), NEW b \in s.free, NEW u \in Pts,
           NEW f, f = [s.m.pt EXCEPT ![u] = b],
           NEW t, t = [m |-> [vmas |-> s.m.vmas, pgdir |-> s.m.pgdir, pd |-> s.m.pd, pt |-> f, pte |-> s.m.pte],
                       free |-> s.free \ {b}, ret |-> s.ret]
    PROVE  Good(t, X)
<1>1. s \in Work /\ s.free \in SUBSET Frames
  BY WorkFields DEF Good
<1>2. PICK g : g = [vmas |-> s.m.vmas, pgdir |-> s.m.pgdir, pd |-> s.m.pd, pt |-> f, pte |-> s.m.pte]
  OBVIOUS
<1>3. f \in [Pts -> Entry] /\ f[u] = b /\ \A c \in Pts : c # u => f[c] = s.m.pt[c]
  BY <1>1, WorkFields DEF Entry
<1>4. /\ t.m = g /\ t.free = s.free \ {b} /\ t.ret = s.ret /\ g.pgdir = s.m.pgdir
      /\ g.pt = f /\ g.pd = s.m.pd /\ g.pte = s.m.pte
  BY <1>2
<1>5. t \in Work
  <2>1. g \in MmRec
    BY <1>1, <1>2, <1>3, WorkFields DEF MmRec
  <2> QED
    BY <2>1, <1>1, <1>2, WorkFields DEF Work
<1>6. PICK x : x = <<"pt", u>>
  OBVIOUS
<1>7. x \in Places /\ At(g, x) = b /\ \A y \in Places : y # x => At(g, y) = At(s.m, y)
  <2>1. x \in Places /\ At(g, x) = g.pt[u]
    BY <1>6, AtFields
  <2>2. \A c \in Pts : c # u => g.pt[c] = s.m.pt[c]
    BY <1>3, <1>4
  <2>3. ASSUME NEW y \in Places, y # x PROVE At(g, y) = At(s.m, y)
    <3>1. CASE y = <<"pgdir", 0>>
      BY <3>1, <1>4, AtFields
    <3>2. CASE \E c \in Pds : y = <<"pd", c>>
      BY <3>2, <1>4, AtFields
    <3>3. CASE \E c \in Pts : y = <<"pt", c>>
      <4>1. PICK c \in Pts : y = <<"pt", c>>
        BY <3>3
      <4>2. c # u
        BY <4>1, <2>3, <1>6
      <4>3. At(g, y) = g.pt[c] /\ At(s.m, y) = s.m.pt[c]
        BY <4>1, AtFields
      <4> QED
        BY <4>2, <4>3, <2>2
    <3>4. CASE \E c \in Virt : y = <<"page", c>>
      BY <3>4, <1>4, AtFields
    <3> QED
      BY <3>1, <3>2, <3>3, <3>4, AtFields
  <2> QED
    BY <2>1, <2>3, <1>3, <1>4
<1> QED
  BY <1>4, <1>5, <1>7, Takes

LEMMA TakesPte ==
    ASSUME MmAssumption, NEW s, NEW X, Good(s, X), NEW b \in s.free, NEW v \in Virt,
           NEW f, f = [s.m.pte EXCEPT ![v] = b],
           NEW t, t = [m |-> [vmas |-> s.m.vmas, pgdir |-> s.m.pgdir, pd |-> s.m.pd, pt |-> s.m.pt, pte |-> f],
                       free |-> s.free \ {b}, ret |-> s.ret]
    PROVE  Good(t, X)
<1>1. s \in Work /\ s.free \in SUBSET Frames
  BY WorkFields DEF Good
<1>2. PICK g : g = [vmas |-> s.m.vmas, pgdir |-> s.m.pgdir, pd |-> s.m.pd, pt |-> s.m.pt, pte |-> f]
  OBVIOUS
<1>3. f \in [Virt -> Entry] /\ f[v] = b /\ \A c \in Virt : c # v => f[c] = s.m.pte[c]
  BY <1>1, WorkFields DEF Entry
<1>4. /\ t.m = g /\ t.free = s.free \ {b} /\ t.ret = s.ret /\ g.pgdir = s.m.pgdir
      /\ g.pte = f /\ g.pd = s.m.pd /\ g.pt = s.m.pt
  BY <1>2
<1>5. t \in Work
  <2>1. g \in MmRec
    BY <1>1, <1>2, <1>3, WorkFields DEF MmRec
  <2> QED
    BY <2>1, <1>1, <1>2, WorkFields DEF Work
<1>6. PICK x : x = <<"page", v>>
  OBVIOUS
<1>7. x \in Places /\ At(g, x) = b /\ \A y \in Places : y # x => At(g, y) = At(s.m, y)
  <2>1. x \in Places /\ At(g, x) = g.pte[v]
    BY <1>6, AtFields
  <2>2. \A c \in Virt : c # v => g.pte[c] = s.m.pte[c]
    BY <1>3, <1>4
  <2>3. ASSUME NEW y \in Places, y # x PROVE At(g, y) = At(s.m, y)
    <3>1. CASE y = <<"pgdir", 0>>
      BY <3>1, <1>4, AtFields
    <3>2. CASE \E c \in Pds : y = <<"pd", c>>
      BY <3>2, <1>4, AtFields
    <3>3. CASE \E c \in Pts : y = <<"pt", c>>
      BY <3>3, <1>4, AtFields
    <3>4. CASE \E c \in Virt : y = <<"page", c>>
      <4>1. PICK c \in Virt : y = <<"page", c>>
        BY <3>4
      <4>2. c # v
        BY <4>1, <2>3, <1>6
      <4>3. At(g, y) = g.pte[c] /\ At(s.m, y) = s.m.pte[c]
        BY <4>1, AtFields
      <4> QED
        BY <4>2, <4>3, <2>2
    <3> QED
      BY <3>1, <3>2, <3>3, <3>4, AtFields
  <2> QED
    BY <2>1, <2>3, <1>3, <1>4
<1> QED
  BY <1>4, <1>5, <1>7, Takes

---------------------------------------------------------------------------
(* What an allocation leaves alone: the areas, the mapped pages, and the   *)
(* tables there are.                                                       *)
Grown(s, t, X) ==
    /\ Good(t, X)
    /\ t.m.vmas = s.m.vmas /\ t.m.pgdir = s.m.pgdir /\ t.m.pte = s.m.pte
    /\ \A d \in Pds : s.m.pd[d] # 0 => t.m.pd[d] # 0
    /\ \A u \in Pts : s.m.pt[u] # 0 => t.m.pt[u] # 0
    /\ t.free \subseteq s.free

LEMMA GrownAll ==
    ASSUME NEW s, NEW t, NEW w, NEW X, Grown(s, t, X), Grown(t, w, X)
    PROVE  Grown(s, w, X)
BY DEF Grown

(* How a call went is not part of Good.                                    *)
LEMMA EndsGood ==
    ASSUME NEW s, NEW X, Good(s, X), NEW r \in {"ok", "E_NO_MEM", "assert", "read"},
           NEW t, t = [s EXCEPT !.ret = r]
    PROVE  Good(t, X) /\ Grown(s, t, X) /\ t.m = s.m /\ t.free = s.free /\ t.ret = r
<1>1. s \in Work /\ s = [m |-> s.m, free |-> s.free, ret |-> s.ret] /\ s.m \in MmRec /\ s.free \in SUBSET Frames
  BY WorkFields DEF Good
<1>2. t = [m |-> s.m, free |-> s.free, ret |-> r]
  <2>1. PICK e, F, q : e = s.m /\ F = s.free /\ q = s.ret
    OBVIOUS
  <2>2. s = [m |-> e, free |-> F, ret |-> q]
    BY <1>1, <2>1
  <2>3. t = [m |-> e, free |-> F, ret |-> r]
    BY <2>2
  <2> QED
    BY <2>1, <2>3
<1>3. t \in Work /\ t.m = s.m /\ t.free = s.free /\ t.ret = r
  BY <1>1, <1>2 DEF Work
<1>4. Good(t, X)
  BY <1>3 DEF Good
<1> QED
  BY <1>3, <1>4 DEF Grown

LEMMA PdThere ==
    ASSUME MmAssumption, NEW s, NEW X, Good(s, X), s.ret = "ok", NEW d \in Pds,
           NEW t, t = GetPd(s, d)
    PROVE  Grown(s, t, X) /\ t.ret \in {"ok", "E_NO_MEM"} /\ (t.ret = "ok" => t.m.pd[d] # 0)
<1>0. s \in Work /\ s.free \in SUBSET Frames
  BY WorkFields DEF Good
<1>1. CASE s.m.pd[d] # 0
  <2>1. t = s
    BY <1>1, Zenon DEF GetPd
  <2> QED
    BY <2>1, <1>1 DEF Grown
<1>2. CASE s.m.pd[d] = 0 /\ s.free = {}
  <2>1. t = [s EXCEPT !.ret = "E_NO_MEM"]
    BY <1>2, Zenon DEF GetPd, Fail
  <2>2. Grown(s, t, X) /\ t.ret = "E_NO_MEM"
    BY <2>1, EndsGood
  <2> QED
    BY <2>2
<1>3. CASE s.m.pd[d] = 0 /\ s.free # {}
  <2>1. PICK b : b = Lowest(s)
    OBVIOUS
  <2>2. b \in s.free /\ b # 0
    BY <2>1, <1>0, <1>3, LowestFree DEF Lowest
  <2>3. PICK F : F = s.free \ {b}
    OBVIOUS
  <2>4. PICK f : f = [s.m.pd EXCEPT ![d] = b]
    OBVIOUS
  <2>5. t = [s EXCEPT !.m.pd[d] = b, !.free = F]
    BY <1>3, <2>1, <2>3, Zenon DEF GetPd, Taken
  <2>6. t = [m |-> [vmas |-> s.m.vmas, pgdir |-> s.m.pgdir, pd |-> [s.m.pd EXCEPT ![d] = b], pt |-> s.m.pt, pte |-> s.m.pte],
             free |-> F, ret |-> s.ret]
    BY <2>5, <1>0, EditPd, Zenon
  <2>7. t = [m |-> [vmas |-> s.m.vmas, pgdir |-> s.m.pgdir, pd |-> f, pt |-> s.m.pt, pte |-> s.m.pte],
             free |-> s.free \ {b}, ret |-> s.ret]
    BY <2>3, <2>4, <2>6
  <2>8. Good(t, X)
    BY <2>2, <2>4, <2>7, TakesPd
  <2>9. f[d] = b /\ \A c \in Pds : c # d => f[c] = s.m.pd[c]
    BY <2>4, <1>0, WorkFields
  <2> QED
    BY <2>2, <2>7, <2>8, <2>9 DEF Grown
<1> QED
  BY <1>1, <1>2, <1>3

LEMMA PtThere ==
    ASSUME MmAssumption, NEW s, NEW X, Good(s, X), s.ret = "ok", NEW u \in Pts,
           NEW t, t = GetPt(s, u)
    PROVE  Grown(s, t, X) /\ t.ret \in {"ok", "E_NO_MEM"} /\ (t.ret = "ok" => t.m.pt[u] # 0)
<1>0. s \in Work /\ s.free \in SUBSET Frames
  BY WorkFields DEF Good
<1>1. CASE s.m.pt[u] # 0
  <2>1. t = s
    BY <1>1, Zenon DEF GetPt
  <2> QED
    BY <2>1, <1>1 DEF Grown
<1>2. CASE s.m.pt[u] = 0 /\ s.free = {}
  <2>1. t = [s EXCEPT !.ret = "E_NO_MEM"]
    BY <1>2, Zenon DEF GetPt, Fail
  <2>2. Grown(s, t, X) /\ t.ret = "E_NO_MEM"
    BY <2>1, EndsGood
  <2> QED
    BY <2>2
<1>3. CASE s.m.pt[u] = 0 /\ s.free # {}
  <2>1. PICK b : b = Lowest(s)
    OBVIOUS
  <2>2. b \in s.free /\ b # 0
    BY <2>1, <1>0, <1>3, LowestFree DEF Lowest
  <2>3. PICK F : F = s.free \ {b}
    OBVIOUS
  <2>4. PICK f : f = [s.m.pt EXCEPT ![u] = b]
    OBVIOUS
  <2>5. t = [s EXCEPT !.m.pt[u] = b, !.free = F]
    BY <1>3, <2>1, <2>3, Zenon DEF GetPt, Taken
  <2>6. t = [m |-> [vmas |-> s.m.vmas, pgdir |-> s.m.pgdir, pd |-> s.m.pd, pt |-> [s.m.pt EXCEPT ![u] = b], pte |-> s.m.pte],
             free |-> F, ret |-> s.ret]
    BY <2>5, <1>0, EditPt, Zenon
  <2>7. t = [m |-> [vmas |-> s.m.vmas, pgdir |-> s.m.pgdir, pd |-> s.m.pd, pt |-> f, pte |-> s.m.pte],
             free |-> s.free \ {b}, ret |-> s.ret]
    BY <2>3, <2>4, <2>6
  <2>8. Good(t, X)
    BY <2>2, <2>4, <2>7, TakesPt
  <2>9. f[u] = b /\ \A c \in Pts : c # u => f[c] = s.m.pt[c]
    BY <2>4, <1>0, WorkFields
  <2> QED
    BY <2>2, <2>7, <2>8, <2>9 DEF Grown
<1> QED
  BY <1>1, <1>2, <1>3

LEMMA GetPteGood ==
    ASSUME MmAssumption, NEW s, NEW X, Good(s, X), s.ret = "ok", NEW v \in Virt, NEW t, t = GetPte(s, v)
    PROVE  /\ Grown(s, t, X) /\ t.ret \in {"ok", "E_NO_MEM"}
           /\ t.ret = "ok" => t.m.pt[Pt(v)] # 0 /\ t.m.pd[Pd(Pt(v))] # 0
<1>1. PICK u \in Pts : u = Pt(v)
  BY MmFacts
<1>2. PICK d \in Pds : d = Pd(u)
  BY <1>1, MmFacts
<1>3. PICK s1 : s1 = GetPd(s, d)
  OBVIOUS
<1>4. t = GetPt(s1, u)
  BY <1>1, <1>2, <1>3, Zenon DEF GetPte
<1>5. Grown(s, s1, X) /\ s1.ret \in {"ok", "E_NO_MEM"} /\ (s1.ret = "ok" => s1.m.pd[d] # 0)
  BY <1>3, PdThere
<1>6. CASE s1.ret # "ok"
  <2>1. t = s1
    BY <1>4, <1>6, Zenon DEF GetPt
  <2> QED
    BY <2>1, <1>5, <1>6
<1>7. CASE s1.ret = "ok"
  <2>1. Good(s1, X)
    BY <1>5 DEF Grown
  <2>2. Grown(s1, t, X) /\ t.ret \in {"ok", "E_NO_MEM"} /\ (t.ret = "ok" => t.m.pt[u] # 0)
    BY <2>1, <1>4, <1>7, PtThere
  <2>3. t.m.pd[d] # 0
    BY <2>2, <1>5, <1>7 DEF Grown
  <2>4. Grown(s, t, X)
    BY <2>2, <1>5, GrownAll
  <2> QED
    BY <2>2, <2>3, <2>4, <1>1, <1>2
<1> QED
  BY <1>6, <1>7

---------------------------------------------------------------------------
(* A page b that is set aside, and given back.                             *)
LEMMA SetAside ==
    ASSUME NEW s, NEW X, Good(s, X), NEW b \in s.free, NEW t, t = [s EXCEPT !.free = s.free \ {b}]
    PROVE  Good(t, X \cup {b}) /\ t.m = s.m /\ t.free = s.free \ {b} /\ t.ret = s.ret
<1>1. s \in Work /\ s = [m |-> s.m, free |-> s.free, ret |-> s.ret]
  BY WorkFields DEF Good
<1>2. PICK e, F, G, q : e = s.m /\ F = s.free /\ q = s.ret /\ G = s.free \ {b}
  OBVIOUS
<1>3. s = [m |-> e, free |-> F, ret |-> q] /\ t = [s EXCEPT !.free = G]
  BY <1>1, <1>2
<1>4. t = [m |-> e, free |-> G, ret |-> q]
  BY <1>3
<1>5. t \in Work /\ t.m = s.m /\ t.free = s.free \ {b} /\ t.ret = s.ret
  BY <1>1, <1>2, <1>4, WorkFields DEF Work
<1>6. Good(t, X \cup {b})
  BY <1>5 DEF Good
<1> QED
  BY <1>5, <1>6

LEMMA GivenBack ==
    ASSUME NEW s, NEW X, NEW b \in Frames, b \notin X, Good(s, X \cup {b}), NEW t, t = [s EXCEPT !.free = s.free \cup {b}]
    PROVE  Good(t, X) /\ t.m = s.m /\ t.free = s.free \cup {b} /\ t.ret = s.ret
<1>1. s \in Work /\ s = [m |-> s.m, free |-> s.free, ret |-> s.ret]
  BY WorkFields DEF Good
<1>2. PICK e, F, G, q : e = s.m /\ F = s.free /\ q = s.ret /\ G = s.free \cup {b}
  OBVIOUS
<1>3. s = [m |-> e, free |-> F, ret |-> q] /\ t = [s EXCEPT !.free = G]
  BY <1>1, <1>2
<1>4. t = [m |-> e, free |-> G, ret |-> q]
  BY <1>3
<1>5. t \in Work /\ t.m = s.m /\ t.free = s.free \cup {b} /\ t.ret = s.ret
  BY <1>1, <1>2, <1>4, WorkFields DEF Work
<1>6. Good(t, X)
  BY <1>5 DEF Good
<1> QED
  BY <1>5, <1>6

(* A page b is mapped at v, where the tables are.                          *)
Stays(s, t, X) == Good(t, X) /\ t.m.vmas = s.m.vmas /\ t.m.pgdir = s.m.pgdir

Adds(C, v, D) == \A u \in Virt : u \in D <=> u \in C \/ u = v
Mapping(s, X, C, w, v, b, t, D) ==
    /\ Covered(s.m, C) /\ Adds(C, v, D) /\ Grown(s, w, X)
    /\ w.m.pt[Pt(v)] # 0 /\ w.m.pd[Pd(Pt(v))] # 0
    /\ b \in w.free
    /\ t = [m |-> [vmas |-> w.m.vmas, pgdir |-> w.m.pgdir, pd |-> w.m.pd, pt |-> w.m.pt, pte |-> [w.m.pte EXCEPT ![v] = b]],
            free |-> w.free \ {b}, ret |-> w.ret]

LEMMA MapsPage ==
    ASSUME MmAssumption, NEW s, NEW X, NEW C, NEW v \in Virt, NEW w, NEW b, NEW t, NEW D, Mapping(s, X, C, w, v, b, t, D)
    PROVE  Stays(s, t, X) /\ t.ret = w.ret /\ Covered(t.m, D)
<1> USE DEF Mapping
<1> PICK f : f = [w.m.pte EXCEPT ![v] = b]
  OBVIOUS
<1>0. t = [m |-> [vmas |-> w.m.vmas, pgdir |-> w.m.pgdir, pd |-> w.m.pd, pt |-> w.m.pt, pte |-> f],
           free |-> w.free \ {b}, ret |-> w.ret]
  OBVIOUS
<1>1. Good(w, X) /\ w \in Work /\ w.m.vmas = s.m.vmas /\ w.m.pgdir = s.m.pgdir /\ w.m.pte = s.m.pte
  BY DEF Grown, Good
<1>2. Good(t, X)
  BY <1>0, <1>1, TakesPte
<1>3. w.m.pte \in [Virt -> Entry] /\ w.free \in SUBSET Frames
  BY <1>1, WorkFields
<1>4. f[v] = b /\ \A u \in Virt : u # v => f[u] = s.m.pte[u]
  BY <1>1, <1>3
<1>5. b # 0
  BY <1>3, MmFacts
<1>6. /\ t.m.vmas = w.m.vmas /\ t.m.pgdir = w.m.pgdir /\ t.m.pd = w.m.pd /\ t.m.pt = w.m.pt /\ t.m.pte = f
      /\ t.ret = w.ret
  BY <1>0
<1>7. Covers(t.m, D)
  BY <1>4, <1>5, <1>6 DEF Covered, Covers, Adds
<1>8. \A u \in Virt : Pt(u) \in Pts /\ Pd(Pt(u)) \in Pds
  BY MmFacts
<1>9. Tables(t.m)
  <2> SUFFICES ASSUME NEW u \in Virt, f[u] # 0 PROVE w.m.pt[Pt(u)] # 0 /\ w.m.pd[Pd(Pt(u))] # 0
    BY <1>6 DEF Tables
  <2>1. CASE u = v
    BY <2>1
  <2>2. CASE u # v
    <3>1. s.m.pt[Pt(u)] # 0 /\ s.m.pd[Pd(Pt(u))] # 0
      BY <2>2, <1>4 DEF Covered, Tables
    <3> QED
      BY <3>1, <1>8 DEF Grown
  <2> QED
    BY <2>1, <2>2
<1> QED
  BY <1>1, <1>2, <1>6, <1>7, <1>9 DEF Stays, Covered

LEMMA EditPte1 ==
    ASSUME NEW s \in Work, NEW v \in Virt, NEW b
    PROVE  [s EXCEPT !.m.pte[v] = b]
             = [m |-> [vmas |-> s.m.vmas, pgdir |-> s.m.pgdir, pd |-> s.m.pd, pt |-> s.m.pt, pte |-> [s.m.pte EXCEPT ![v] = b]],
                free |-> s.free, ret |-> s.ret]
<1>1. PICK e : e = s.m
  OBVIOUS
<1>2. PICK G, r : G = s.free /\ r = s.ret
  OBVIOUS
<1>3. s = [m |-> e, free |-> G, ret |-> r]
  BY <1>1, <1>2, WorkFields
<1>4. PICK t : t = [s EXCEPT !.m.pte[v] = b]
  OBVIOUS
<1>5. t = [m |-> [e EXCEPT !.pte[v] = b], free |-> G, ret |-> r]
  BY <1>3, <1>4
<1>6. PICK g : g = [e EXCEPT !.pte[v] = b]
  OBVIOUS
<1>7. e = [vmas |-> e.vmas, pgdir |-> e.pgdir, pd |-> e.pd, pt |-> e.pt, pte |-> e.pte]
  BY <1>1, WorkFields
<1>8. g = [vmas |-> e.vmas, pgdir |-> e.pgdir, pd |-> e.pd, pt |-> e.pt, pte |-> [e.pte EXCEPT ![v] = b]]
  BY <1>6, <1>7
<1> QED
  BY <1>1, <1>2, <1>4, <1>5, <1>6, <1>8

LEMMA PgdirAllocPageGood ==
    ASSUME MmAssumption, NEW s, NEW X, Good(s, X), s.ret = "ok", NEW C, Covered(s.m, C), NEW v \in Virt, NEW D, Adds(C, v, D),
           NEW t, t = PgdirAllocPage(s, v)
    PROVE  Stays(s, t, X) /\ t.ret \in {"ok", "E_NO_MEM"} /\ (t.ret = "ok" => Covered(t.m, D))
<1>0. s \in Work /\ s.free \in SUBSET Frames /\ s.free \cap X = {}
  BY WorkFields DEF Good
<1>1. CASE s.free = {}
  <2>1. t = [s EXCEPT !.ret = "E_NO_MEM"]
    BY <1>1, Zenon DEF PgdirAllocPage, Fail
  <2>2. Good(t, X) /\ t.m = s.m /\ t.ret = "E_NO_MEM"
    BY <2>1, EndsGood
  <2> QED
    BY <2>2 DEF Stays
<1>2. CASE s.free # {}
  <2>1. PICK b : b = Lowest(s)
    OBVIOUS
  <2>2. b \in s.free /\ b # 0 /\ b \in Frames /\ b \notin X
    BY <2>1, <1>0, <1>2, LowestFree DEF Lowest
  <2>3. PICK s0 : s0 = [s EXCEPT !.free = s.free \ {b}]
    OBVIOUS
  <2>4. PICK s1 : s1 = GetPte(s0, v)
    OBVIOUS
  <2>5. t = IF s1.ret # "ok" THEN [s1 EXCEPT !.free = s1.free \cup {b}] ELSE [s1 EXCEPT !.m.pte[v] = b]
    BY <1>2, <2>1, <2>3, <2>4, Zenon DEF PgdirAllocPage, Taken
  <2>6. Good(s0, X \cup {b}) /\ s0.m = s.m /\ s0.free = s.free \ {b} /\ s0.ret = "ok"
    BY <2>2, <2>3, SetAside, SMTT(30)
  <2>7. /\ Grown(s0, s1, X \cup {b}) /\ s1.ret \in {"ok", "E_NO_MEM"}
        /\ s1.ret = "ok" => s1.m.pt[Pt(v)] # 0 /\ s1.m.pd[Pd(Pt(v))] # 0
    BY <2>4, <2>6, GetPteGood
  <2>8. Good(s1, X \cup {b})
    BY <2>7 DEF Grown
  <2>9. PICK w : w = [s1 EXCEPT !.free = s1.free \cup {b}]
    OBVIOUS
  <2>10. Good(w, X) /\ w.m = s1.m /\ w.free = s1.free \cup {b} /\ w.ret = s1.ret
    BY <2>2, <2>8, <2>9, GivenBack
  <2>11. Grown(s, w, X)
    BY <2>2, <2>6, <2>7, <2>10 DEF Grown
  <2>12. CASE s1.ret # "ok"
    <3>1. t = w
      BY <2>5, <2>9, <2>12, Zenon
    <3> QED
      BY <3>1, <2>7, <2>10, <2>11, <2>12 DEF Grown, Stays
  <2>13. CASE s1.ret = "ok"
    <3>1. t = [s1 EXCEPT !.m.pte[v] = b]
      BY <2>5, <2>13, Zenon
    <3>2. s1 \in Work
      BY <2>8 DEF Good
    <3>3. t = [m |-> [vmas |-> s1.m.vmas, pgdir |-> s1.m.pgdir, pd |-> s1.m.pd, pt |-> s1.m.pt, pte |-> [s1.m.pte EXCEPT ![v] = b]],
               free |-> s1.free, ret |-> s1.ret]
      BY <3>1, <3>2, EditPte1, Zenon
    <3>4. b \in w.free /\ w.free \ {b} = s1.free
      BY <2>8, <2>10 DEF Good
    <3>5. w.m.pt[Pt(v)] # 0 /\ w.m.pd[Pd(Pt(v))] # 0
      BY <2>7, <2>10, <2>13
    <3>6. Mapping(s, X, C, w, v, b, t, D)
      BY <3>3, <3>4, <3>5, <2>10, <2>11 DEF Mapping
    <3>7. Stays(s, t, X) /\ t.ret = w.ret /\ Covered(t.m, D)
      BY <3>6, MapsPage
    <3> QED
      BY <3>7, <2>10, <2>13
  <2> QED
    BY <2>12, <2>13
<1> QED
  BY <1>1, <1>2

LEMMA CopyPageGood ==
    ASSUME MmAssumption, NEW from, NEW s, NEW X, Good(s, X), s.ret = "ok", NEW C, Covered(s.m, C), NEW v \in Virt, NEW D, Adds(C, v, D),
           from.pte[v] # 0, NEW t, t = CopyPage(from, s, v)
    PROVE  Stays(s, t, X) /\ t.ret \in {"ok", "E_NO_MEM", "assert"} /\ (t.ret = "ok" => Covered(t.m, D))
<1>1. PICK w : w = GetPte(s, v)
  OBVIOUS
<1>2. t = IF w.ret # "ok" THEN w ELSE IF w.free = {} THEN Fail(w, "assert")
          ELSE [w EXCEPT !.m.pte[v] = Lowest(w), !.free = Taken(w)]
  BY <1>1, Zenon DEF CopyPage
<1>3. /\ Grown(s, w, X) /\ w.ret \in {"ok", "E_NO_MEM"}
      /\ w.ret = "ok" => w.m.pt[Pt(v)] # 0 /\ w.m.pd[Pd(Pt(v))] # 0
  BY <1>1, GetPteGood
<1>4. Good(w, X) /\ w \in Work /\ w.free \in SUBSET Frames /\ w.m.vmas = s.m.vmas /\ w.m.pgdir = s.m.pgdir
  BY <1>3, WorkFields DEF Grown, Good
<1>5. w \in Work
  BY <1>4
<1>6. CASE w.ret # "ok"
  <2>1. t = w
    BY <1>2, <1>6, Zenon
  <2> QED
    BY <2>1, <1>3, <1>4, <1>6 DEF Stays
<1>7. CASE w.ret = "ok" /\ w.free = {}
  <2>1. t = [w EXCEPT !.ret = "assert"]
    BY <1>2, <1>7, Zenon DEF Fail
  <2>2. Good(t, X) /\ t.m = w.m /\ t.ret = "assert"
    BY <2>1, <1>4, EndsGood
  <2> QED
    BY <2>2, <1>4 DEF Stays
<1>8. CASE w.ret = "ok" /\ w.free # {}
  <2>1. PICK b : b = Lowest(w)
    OBVIOUS
  <2>2. b \in w.free
    BY <2>1, <1>4, <1>8, LowestFree DEF Lowest
  <2>3. PICK F : F = w.free \ {b}
    OBVIOUS
  <2>4. t = [w EXCEPT !.m.pte[v] = b, !.free = F]
    BY <1>2, <1>8, <2>1, <2>3, Zenon DEF Taken
  <2>5. t = [m |-> [vmas |-> w.m.vmas, pgdir |-> w.m.pgdir, pd |-> w.m.pd, pt |-> w.m.pt, pte |-> [w.m.pte EXCEPT ![v] = b]],
             free |-> F, ret |-> w.ret]
    BY <2>4, <1>5, EditPte, ZenonT(60)
  <2>6. Mapping(s, X, C, w, v, b, t, D)
    BY <2>2, <2>3, <2>5, <1>3, <1>8 DEF Mapping
  <2>7. Stays(s, t, X) /\ t.ret = w.ret /\ Covered(t.m, D)
    BY <2>6, MapsPage
  <2> QED
    BY <2>7, <1>8
<1> QED
  BY <1>6, <1>7, <1>8

LEMMA SameCover ==
    ASSUME NEW m, NEW n, n.pte = m.pte, n.pt = m.pt, n.pd = m.pd, NEW C, Covered(m, C)
    PROVE  Covered(n, C)
BY DEF Covered, Covers, Tables

LEMMA CoverSame ==
    ASSUME NEW m, NEW C, NEW D, Covered(m, C), \A v \in Virt : v \in C <=> v \in D
    PROVE  Covered(m, D)
BY DEF Covered, Covers

LEMMA CoverMapped ==
    ASSUME NEW m, Tables(m)
    PROVE  Covered(m, Mapped(m))
BY DEF Covered, Covers, Mapped

---------------------------------------------------------------------------
(* The loops over the pages of an area.                                    *)
AddsRange(C, i, j, D) == \A v \in Virt : v \in D <=> v \in C \/ v \in i .. j - 1
AddsCopies(from, C, i, j, D) == \A v \in Virt : v \in D <=> v \in C \/ (v \in i .. j - 1 /\ from.pte[v] # 0)

IsAlloc(w, s, i, m) == w = [k \in i .. m |-> IF k = i THEN s ELSE PgdirAllocPage(w[k - 1], k - 1)]

LEMMA AllocExists ==
    ASSUME NEW s, NEW i \in Nat, NEW j \in Nat, i <= j
    PROVE  \E w : IsAlloc(w, s, i, j)
<1> DEFINE B == {m \in Nat : \E w : IsAlloc(w, s, i, m)}
<1>1. i \in B
  <2>1. PICK w : w = [k \in i .. i |-> s]
    OBVIOUS
  <2>2. \A k \in i .. i : k = i
    OBVIOUS
  <2>3. w = [k \in i .. i |-> IF k = i THEN s ELSE PgdirAllocPage(w[k - 1], k - 1)]
    BY <2>1, <2>2
  <2> QED
    BY <2>3 DEF IsAlloc
<1>2. ASSUME NEW m \in i + 1 .. j, m - 1 \in B PROVE m \in B
  <2>1. PICK w : IsAlloc(w, s, i, m - 1)
    BY <1>2
  <2>2. m \in Nat /\ i < m /\ m # i
    OBVIOUS
  <2>3. PICK y : y = PgdirAllocPage(w[m - 1], m - 1)
    OBVIOUS
  <2>4. PICK v : Extends(v, w, i, m, y)
    BY <2>2, OneMore
  <2>5. ASSUME NEW k \in i .. m
        PROVE  v[k] = IF k = i THEN s ELSE PgdirAllocPage(v[k - 1], k - 1)
    <3>1. CASE k = m
      <4>1. m - 1 \in i .. m - 1
        BY <2>2
      <4>2. v[m - 1] = w[m - 1]
        BY <4>1, <2>4 DEF Extends
      <4>3. v[m] = PgdirAllocPage(v[m - 1], m - 1)
        BY <4>2, <2>3, <2>4 DEF Extends
      <4> QED
        BY <4>3, <3>1, <2>2
    <3>2. CASE k # m
      <4>0. k \in i .. m - 1
        BY <3>2, <2>2
      <4>1. k \in i .. m - 1 /\ v[k] = w[k]
        BY <4>0, <2>4 DEF Extends
      <4>2. w[k] = IF k = i THEN s ELSE PgdirAllocPage(w[k - 1], k - 1)
        BY <4>1, <2>1 DEF IsAlloc
      <4>3. CASE k = i
        BY <4>1, <4>2, <4>3
      <4>4. CASE k # i
        <5>1. k - 1 \in i .. m - 1
          BY <4>1, <4>4, <2>2
        <5>2. v[k - 1] = w[k - 1]
          BY <5>1, <2>4 DEF Extends
        <5> QED
          BY <5>2, <4>1, <4>2, <4>4
      <4> QED
        BY <4>3, <4>4
    <3> QED
      BY <3>1, <3>2
  <2>6. v = [k \in i .. m |-> IF k = i THEN s ELSE PgdirAllocPage(v[k - 1], k - 1)]
    BY <2>4, <2>5 DEF Extends
  <2> QED
    BY <2>2, <2>6 DEF IsAlloc
<1> HIDE DEF B
<1>3. i .. j \subseteq B
  BY <1>1, <1>2, UpTo
<1>4. j \in B
  BY <1>3
<1> QED
  BY <1>4 DEF B

LEMMA AllocIs ==
    ASSUME NEW s, NEW i \in Nat, NEW j \in Nat, i <= j
    PROVE  \E w : IsAlloc(w, s, i, j) /\ AllocPages(s, i, j) = w[j]
<1> DEFINE w == CHOOSE v : IsAlloc(v, s, i, j)
<1>1. IsAlloc(w, s, i, j)
  BY AllocExists
<1>2. AllocPages(s, i, j) = w[j]
  BY DEF AllocPages, IsAlloc
<1> QED
  BY <1>1, <1>2

LEMMA AllocGood ==
    ASSUME MmAssumption, NEW s, NEW X, Good(s, X), s.ret = "ok", NEW C, Covered(s.m, C),
           NEW i \in Nat, NEW j \in Nat, i <= j, i .. j - 1 \subseteq Virt,
           NEW K, AddsRange(C, i, j, K), NEW t, t = AllocPages(s, i, j)
    PROVE  Stays(s, t, X) /\ t.ret \in {"ok", "E_NO_MEM"} /\ (t.ret = "ok" => Covered(t.m, K))
<1>1. PICK w : IsAlloc(w, s, i, j) /\ t = w[j]
  BY AllocIs
<1> DEFINE To(k) == /\ Stays(s, w[k], X) /\ w[k].ret \in {"ok", "E_NO_MEM"}
                    /\ w[k].ret = "ok" => Covered(w[k].m, C \cup (i .. k - 1))
           B == {k \in i .. j : To(k)}
<1>2. \A k \in i .. j : w[k] = IF k = i THEN s ELSE PgdirAllocPage(w[k - 1], k - 1)
  BY <1>1 DEF IsAlloc
<1>3. i \in B
  <2>1. w[i] = s /\ i \in i .. j
    BY <1>2
  <2>2. C \cup (i .. i - 1) = C
    OBVIOUS
  <2> QED
    BY <2>1, <2>2 DEF Stays
<1>4. ASSUME NEW k \in i + 1 .. j, k - 1 \in B PROVE k \in B
  <2>1. k - 1 \in i .. j /\ k \in i .. j /\ k # i /\ k - 1 \in Virt
    OBVIOUS
  <2>2. PICK u : u = w[k - 1]
    OBVIOUS
  <2>3. PICK v : v = w[k]
    OBVIOUS
  <2>4. v = PgdirAllocPage(u, k - 1)
    BY <2>1, <2>2, <2>3, <1>2
  <2>5. PICK D, E : D = C \cup (i .. (k - 1) - 1) /\ E = C \cup (i .. k - 1)
    OBVIOUS
  <2>6. Stays(s, u, X) /\ u.ret \in {"ok", "E_NO_MEM"} /\ (u.ret = "ok" => Covered(u.m, D))
    BY <1>4, <2>2, <2>5
  <2>7. Good(u, X) /\ u.m.vmas = s.m.vmas /\ u.m.pgdir = s.m.pgdir
    BY <2>6 DEF Stays
  <2>8. CASE u.ret # "ok"
    <3>1. v = u
      BY <2>4, <2>8, Zenon DEF PgdirAllocPage
    <3> QED
      BY <3>1, <2>1, <2>3, <2>6, <2>8
  <2>9. CASE u.ret = "ok"
    <3>1. Adds(D, k - 1, E)
      BY <2>1, <2>5, MmFacts DEF Adds
    <3>2. Stays(u, v, X) /\ v.ret \in {"ok", "E_NO_MEM"} /\ (v.ret = "ok" => Covered(v.m, E))
      BY <2>1, <2>4, <2>6, <2>7, <2>9, <3>1, PgdirAllocPageGood
    <3>3. Stays(s, v, X)
      BY <3>2, <2>7 DEF Stays
    <3> QED
      BY <3>2, <3>3, <2>1, <2>3, <2>5
  <2> QED
    BY <2>8, <2>9
<1> HIDE DEF B
<1>5. i .. j \subseteq B
  BY <1>3, <1>4, UpTo
<1>6. j \in B
  BY <1>5
<1>7. \A v \in Virt : v \in C \cup (i .. j - 1) <=> v \in K
  BY DEF AddsRange
<1>8. t.ret = "ok" => Covered(t.m, K)
  BY <1>1, <1>6, <1>7, CoverSame DEF B
<1> QED
  BY <1>1, <1>6, <1>8 DEF B

IsCopy(w, s, from, i, m) == w = [k \in i .. m |-> IF k = i THEN s ELSE CopyPage(from, w[k - 1], k - 1)]

LEMMA CopyExists ==
    ASSUME NEW s, NEW from, NEW i \in Nat, NEW j \in Nat, i <= j
    PROVE  \E w : IsCopy(w, s, from, i, j)
<1> DEFINE B == {m \in Nat : \E w : IsCopy(w, s, from, i, m)}
<1>1. i \in B
  <2>1. PICK w : w = [k \in i .. i |-> s]
    OBVIOUS
  <2>2. \A k \in i .. i : k = i
    OBVIOUS
  <2>3. w = [k \in i .. i |-> IF k = i THEN s ELSE CopyPage(from, w[k - 1], k - 1)]
    BY <2>1, <2>2
  <2> QED
    BY <2>3 DEF IsCopy
<1>2. ASSUME NEW m \in i + 1 .. j, m - 1 \in B PROVE m \in B
  <2>1. PICK w : IsCopy(w, s, from, i, m - 1)
    BY <1>2
  <2>2. m \in Nat /\ i < m /\ m # i
    OBVIOUS
  <2>3. PICK y : y = CopyPage(from, w[m - 1], m - 1)
    OBVIOUS
  <2>4. PICK v : Extends(v, w, i, m, y)
    BY <2>2, OneMore
  <2>5. ASSUME NEW k \in i .. m
        PROVE  v[k] = IF k = i THEN s ELSE CopyPage(from, v[k - 1], k - 1)
    <3>1. CASE k = m
      <4>1. m - 1 \in i .. m - 1
        BY <2>2
      <4>2. v[m - 1] = w[m - 1]
        BY <4>1, <2>4 DEF Extends
      <4>3. v[m] = CopyPage(from, v[m - 1], m - 1)
        BY <4>2, <2>3, <2>4 DEF Extends
      <4> QED
        BY <4>3, <3>1, <2>2
    <3>2. CASE k # m
      <4>0. k \in i .. m - 1
        BY <3>2, <2>2
      <4>1. k \in i .. m - 1 /\ v[k] = w[k]
        BY <4>0, <2>4 DEF Extends
      <4>2. w[k] = IF k = i THEN s ELSE CopyPage(from, w[k - 1], k - 1)
        BY <4>1, <2>1 DEF IsCopy
      <4>3. CASE k = i
        BY <4>1, <4>2, <4>3
      <4>4. CASE k # i
        <5>1. k - 1 \in i .. m - 1
          BY <4>1, <4>4, <2>2
        <5>2. v[k - 1] = w[k - 1]
          BY <5>1, <2>4 DEF Extends
        <5> QED
          BY <5>2, <4>1, <4>2, <4>4
      <4> QED
        BY <4>3, <4>4
    <3> QED
      BY <3>1, <3>2
  <2>6. v = [k \in i .. m |-> IF k = i THEN s ELSE CopyPage(from, v[k - 1], k - 1)]
    BY <2>4, <2>5 DEF Extends
  <2> QED
    BY <2>2, <2>6 DEF IsCopy
<1> HIDE DEF B
<1>3. i .. j \subseteq B
  BY <1>1, <1>2, UpTo
<1>4. j \in B
  BY <1>3
<1> QED
  BY <1>4 DEF B

LEMMA CopyIs ==
    ASSUME NEW from, NEW s, NEW i \in Nat, NEW j \in Nat, i <= j
    PROVE  \E w : IsCopy(w, s, from, i, j) /\ CopyPages(from, s, i, j) = w[j]
<1> DEFINE w == CHOOSE v : IsCopy(v, s, from, i, j)
<1>1. IsCopy(w, s, from, i, j)
  BY CopyExists
<1>2. CopyPages(from, s, i, j) = w[j]
  BY DEF CopyPages, IsCopy
<1> QED
  BY <1>1, <1>2

LEMMA CopyGood ==
    ASSUME MmAssumption, NEW from, NEW s, NEW X, Good(s, X), s.ret = "ok", NEW C, Covered(s.m, C),
           NEW i \in Nat, NEW j \in Nat, i <= j, i .. j - 1 \subseteq Virt,
           NEW K, AddsCopies(from, C, i, j, K), NEW t, t = CopyPages(from, s, i, j)
    PROVE  Stays(s, t, X) /\ t.ret \in {"ok", "E_NO_MEM", "assert"} /\ (t.ret = "ok" => Covered(t.m, K))
<1>1. PICK w : IsCopy(w, s, from, i, j) /\ t = w[j]
  BY CopyIs
<1> DEFINE Copies(k) == C \cup {v \in i .. k - 1 : from.pte[v] # 0}
           To(k) == /\ Stays(s, w[k], X) /\ w[k].ret \in {"ok", "E_NO_MEM", "assert"}
                    /\ w[k].ret = "ok" => Covered(w[k].m, Copies(k))
           B == {k \in i .. j : To(k)}
<1>2. \A k \in i .. j : w[k] = IF k = i THEN s ELSE CopyPage(from, w[k - 1], k - 1)
  BY <1>1 DEF IsCopy
<1>3. i \in B
  <2>1. w[i] = s /\ i \in i .. j
    BY <1>2
  <2>2. Copies(i) = C
    OBVIOUS
  <2> QED
    BY <2>1, <2>2 DEF Stays
<1>4. ASSUME NEW k \in i + 1 .. j, k - 1 \in B PROVE k \in B
  <2>1. k - 1 \in i .. j /\ k \in i .. j /\ k # i /\ k - 1 \in Virt
    OBVIOUS
  <2>2. PICK u : u = w[k - 1]
    OBVIOUS
  <2>3. PICK v : v = w[k]
    OBVIOUS
  <2>4. v = CopyPage(from, u, k - 1)
    BY <2>1, <2>2, <2>3, <1>2
  <2>5. PICK D, E : D = Copies(k - 1) /\ E = Copies(k)
    OBVIOUS
  <2>6. Stays(s, u, X) /\ u.ret \in {"ok", "E_NO_MEM", "assert"} /\ (u.ret = "ok" => Covered(u.m, D))
    BY <1>4, <2>2, <2>5
  <2>7. Good(u, X) /\ u.m.vmas = s.m.vmas /\ u.m.pgdir = s.m.pgdir
    BY <2>6 DEF Stays
  <2>10. \A x : x \in E <=> x \in D \/ (x = k - 1 /\ from.pte[x] # 0)
    <3>1. \A x : x \in i .. k - 1 <=> x \in i .. (k - 1) - 1 \/ x = k - 1
      OBVIOUS
    <3> QED
      BY <3>1, <2>5
  <2>8. CASE u.ret # "ok"
    <3>1. v = u
      BY <2>4, <2>8, Zenon DEF CopyPage
    <3> QED
      BY <3>1, <2>1, <2>3, <2>6, <2>8
  <2>11. CASE u.ret = "ok" /\ from.pte[k - 1] = 0
    <3>1. v = u
      BY <2>4, <2>11, Zenon DEF CopyPage
    <3>2. Covered(u.m, E)
      BY <2>6, <2>10, <2>11, CoverSame
    <3> QED
      BY <3>1, <3>2, <2>1, <2>3, <2>5, <2>6
  <2>9. CASE u.ret = "ok" /\ from.pte[k - 1] # 0
    <3>1. Adds(D, k - 1, E)
      BY <2>9, <2>10 DEF Adds
    <3>2. Stays(u, v, X) /\ v.ret \in {"ok", "E_NO_MEM", "assert"} /\ (v.ret = "ok" => Covered(v.m, E))
      BY <2>1, <2>4, <2>6, <2>7, <2>9, <3>1, CopyPageGood
    <3>3. Stays(s, v, X)
      BY <3>2, <2>7 DEF Stays
    <3> QED
      BY <3>2, <3>3, <2>1, <2>3, <2>5
  <2> QED
    BY <2>8, <2>9, <2>11
<1> HIDE DEF B
<1>5. i .. j \subseteq B
  BY <1>3, <1>4, UpTo
<1>6. j \in B
  BY <1>5
<1>7. \A v \in Virt : v \in Copies(j) <=> v \in K
  BY DEF AddsCopies
<1>8. t.ret = "ok" => Covered(t.m, K)
  BY <1>1, <1>6, <1>7, CoverSame DEF B
<1> QED
  BY <1>1, <1>6, <1>8 DEF B

---------------------------------------------------------------------------
(* The areas: one before the others, or after them.                        *)
Before(a, q) == <<a>> \o q
Last(q, a) == Append(q, a)

LEMMA AreaFirst ==
    ASSUME NEW q \in Seq(Area), NEW a \in Area, NEW r, r = Before(a, q)
    PROVE  /\ r \in Seq(Area) /\ \A v : v \in AreaPages(r) <=> v \in AreaPages(q) \/ v \in Pages(a)
           /\ \A i \in DOMAIN r : r[i] = a \/ \E k \in DOMAIN q : r[i] = q[k]
<1>1. r \in Seq(Area) /\ Len(r) = Len(q) + 1 /\ DOMAIN q = 1 .. Len(q) /\ DOMAIN r = 1 .. Len(r) /\ Len(q) \in Nat
  BY DEF Before
<1>2. r[1] = a /\ \A i \in 1 .. Len(q) : r[i + 1] = q[i]
  BY DEF Before
<1>3. ASSUME NEW v, v \in AreaPages(r) PROVE v \in AreaPages(q) \/ v \in Pages(a)
  <2>1. PICK i \in 1 .. Len(r) : v \in Pages(r[i])
    BY <1>1, <1>3 DEF AreaPages
  <2>2. CASE i = 1
    BY <2>1, <2>2, <1>2
  <2>3. CASE i # 1
    <3>1. i - 1 \in 1 .. Len(q) /\ (i - 1) + 1 = i
      BY <2>1, <2>3, <1>1
    <3>2. r[i] = q[i - 1]
      BY <3>1, <1>2
    <3> QED
      BY <2>1, <3>1, <3>2, <1>1 DEF AreaPages
  <2> QED
    BY <2>2, <2>3
<1>4. ASSUME NEW v, v \in Pages(a) PROVE v \in AreaPages(r)
  <2>1. 1 \in DOMAIN r
    BY <1>1
  <2> QED
    BY <2>1, <1>2, <1>4 DEF AreaPages
<1>5. ASSUME NEW v, v \in AreaPages(q) PROVE v \in AreaPages(r)
  <2>1. PICK i \in 1 .. Len(q) : v \in Pages(q[i])
    BY <1>1, <1>5 DEF AreaPages
  <2>2. i + 1 \in DOMAIN r /\ r[i + 1] = q[i]
    BY <1>1, <1>2
  <2> QED
    BY <2>1, <2>2 DEF AreaPages
<1>6. ASSUME NEW i \in DOMAIN r, r[i] # a PROVE \E k \in DOMAIN q : r[i] = q[k]
  <2>1. i \in 1 .. Len(r) /\ i # 1
    BY <1>1, <1>2, <1>6
  <2>2. i - 1 \in 1 .. Len(q) /\ (i - 1) + 1 = i
    BY <2>1, <1>1
  <2>3. r[i] = q[i - 1]
    BY <2>2, <1>2
  <2> QED
    BY <2>2, <2>3, <1>1
<1> QED
  BY <1>1, <1>3, <1>4, <1>5, <1>6

LEMMA AreaLast ==
    ASSUME NEW q \in Seq(Area), NEW a \in Area, NEW r, r = Last(q, a)
    PROVE  /\ r \in Seq(Area) /\ \A v : v \in AreaPages(r) <=> v \in AreaPages(q) \/ v \in Pages(a)
           /\ \A i \in DOMAIN r : r[i] = a \/ \E k \in DOMAIN q : r[i] = q[k]
<1>1. r \in Seq(Area) /\ Len(r) = Len(q) + 1 /\ DOMAIN q = 1 .. Len(q) /\ DOMAIN r = 1 .. Len(r) /\ Len(q) \in Nat
  BY DEF Last
<1>2. r[Len(r)] = a /\ \A i \in 1 .. Len(q) : r[i] = q[i]
  BY DEF Last
<1>3. ASSUME NEW v, v \in AreaPages(r) PROVE v \in AreaPages(q) \/ v \in Pages(a)
  <2>1. PICK i \in 1 .. Len(r) : v \in Pages(r[i])
    BY <1>1, <1>3 DEF AreaPages
  <2>2. CASE i = Len(r)
    BY <2>1, <2>2, <1>2
  <2>3. CASE i # Len(r)
    <3>1. i \in 1 .. Len(q)
      BY <2>1, <2>3, <1>1
    <3>2. r[i] = q[i]
      BY <3>1, <1>2
    <3> QED
      BY <2>1, <3>1, <3>2, <1>1 DEF AreaPages
  <2> QED
    BY <2>2, <2>3
<1>4. ASSUME NEW v, v \in Pages(a) PROVE v \in AreaPages(r)
  <2>1. Len(r) \in DOMAIN r
    BY <1>1
  <2> QED
    BY <2>1, <1>2, <1>4 DEF AreaPages
<1>5. ASSUME NEW v, v \in AreaPages(q) PROVE v \in AreaPages(r)
  <2>1. PICK i \in 1 .. Len(q) : v \in Pages(q[i])
    BY <1>1, <1>5 DEF AreaPages
  <2>2. i \in DOMAIN r /\ r[i] = q[i]
    BY <1>1, <1>2
  <2> QED
    BY <2>1, <2>2 DEF AreaPages
<1>6. ASSUME NEW i \in DOMAIN r, r[i] # a PROVE \E k \in DOMAIN q : r[i] = q[k]
  <2>1. i \in 1 .. Len(r) /\ i # Len(r)
    BY <1>1, <1>2, <1>6
  <2>2. i \in 1 .. Len(q)
    BY <2>1, <1>1
  <2>3. r[i] = q[i]
    BY <2>2, <1>2
  <2> QED
    BY <2>2, <2>3, <1>1
<1> QED
  BY <1>1, <1>3, <1>4, <1>5, <1>6

(* An area is added to m, and the pages P of it are mapped.                *)
LEMMA FitsMore ==
    ASSUME MmAssumption, NEW m, NEW n, m.vmas \in Seq(Area), Fits(m), NEW area \in Area,
           n.vmas = Before(area, m.vmas) \/ n.vmas = Last(m.vmas, area),
           NEW P, P \subseteq Pages(area), \A v \in Pages(area) : Required(v, area) => v \in P,
           \A v \in Virt : n.pte[v] # 0 <=> v \in Mapped(m) \/ v \in P
    PROVE  Fits(n)
<1>1. /\ \A v : v \in AreaPages(n.vmas) <=> v \in AreaPages(m.vmas) \/ v \in Pages(area)
      /\ \A i \in DOMAIN n.vmas : n.vmas[i] = area \/ \E k \in DOMAIN m.vmas : n.vmas[i] = m.vmas[k]
  <2>0. PICK q, r : q = m.vmas /\ r = n.vmas
    OBVIOUS
  <2>1. CASE n.vmas = Before(area, m.vmas)
    <3>1. r = Before(area, q) /\ q \in Seq(Area)
      BY <2>0, <2>1
    <3>2. /\ \A v : v \in AreaPages(r) <=> v \in AreaPages(q) \/ v \in Pages(area)
          /\ \A i \in DOMAIN r : r[i] = area \/ \E k \in DOMAIN q : r[i] = q[k]
      BY <3>1, AreaFirst
    <3> QED
      BY <3>2, <2>0, Zenon
  <2>2. CASE n.vmas = Last(m.vmas, area)
    <3>1. r = Last(q, area) /\ q \in Seq(Area)
      BY <2>0, <2>2
    <3>2. /\ \A v : v \in AreaPages(r) <=> v \in AreaPages(q) \/ v \in Pages(area)
          /\ \A i \in DOMAIN r : r[i] = area \/ \E k \in DOMAIN q : r[i] = q[k]
      BY <3>1, AreaLast
    <3> QED
      BY <3>2, <2>0, Zenon
  <2> QED
    BY <2>1, <2>2
<1>2. Mapped(n) \subseteq AreaPages(n.vmas)
  BY <1>1 DEF Fits, Mapped
<1>3. \A a \in Area : Pages(a) \subseteq Virt
  BY MmFacts
<1>4. \A k \in DOMAIN m.vmas : m.vmas[k] \in Area
  OBVIOUS
<1>5. ASSUME NEW i \in DOMAIN n.vmas, NEW v \in Pages(n.vmas[i]), Required(v, n.vmas[i]) PROVE n.pte[v] # 0
  <2>1. CASE n.vmas[i] = area
    BY <2>1, <1>3, <1>5
  <2>2. CASE \E k \in DOMAIN m.vmas : n.vmas[i] = m.vmas[k]
    <3>1. PICK k \in DOMAIN m.vmas : n.vmas[i] = m.vmas[k]
      BY <2>2
    <3>2. v \in Virt
      BY <3>1, <1>3, <1>4, <1>5
    <3>3. m.pte[v] # 0
      BY <3>1, <1>5 DEF Fits, Filled
    <3> QED
      BY <3>2, <3>3 DEF Mapped
  <2> QED
    BY <2>1, <2>2, <1>1
<1>6. Filled(n.vmas, n.pte)
  BY <1>5 DEF Filled
<1> QED
  BY <1>2, <1>6 DEF Fits

(* The list of areas changes, and nothing else.                            *)
WithAreas(s, q) == [s EXCEPT !.m.vmas = q]

LEMMA AreasSet ==
    ASSUME NEW s, NEW X, Good(s, X), NEW q \in Seq(Area), NEW t, t = WithAreas(s, q)
    PROVE  Good(t, X) /\ t.m.vmas = q /\ t.m.pgdir = s.m.pgdir /\ t.m.pd = s.m.pd /\ t.m.pt = s.m.pt
           /\ t.m.pte = s.m.pte /\ t.ret = s.ret
<1>1. s \in Work /\ s.m \in MmRec
  BY WorkFields DEF Good
<1>2. PICK e, G, r : e = s.m /\ G = s.free /\ r = s.ret
  OBVIOUS
<1>3. s = [m |-> e, free |-> G, ret |-> r]
  BY <1>1, <1>2, WorkFields
<1>4. t = [m |-> [e EXCEPT !.vmas = q], free |-> G, ret |-> r]
  BY <1>3 DEF WithAreas
<1>5. PICK g : g = [e EXCEPT !.vmas = q]
  OBVIOUS
<1>6. g = [vmas |-> q, pgdir |-> e.pgdir, pd |-> e.pd, pt |-> e.pt, pte |-> e.pte]
  <2>1. e = [vmas |-> e.vmas, pgdir |-> e.pgdir, pd |-> e.pd, pt |-> e.pt, pte |-> e.pte]
    BY <1>1, <1>2, WorkFields
  <2> QED
    BY <2>1, <1>5
<1>7. g \in MmRec
  BY <1>1, <1>2, <1>6, WorkFields DEF MmRec
<1>8. t \in Work /\ t.m = g /\ t.free = s.free /\ t.ret = s.ret
  BY <1>1, <1>2, <1>4, <1>5, <1>7, WorkFields DEF Work
<1>9. g.vmas = q /\ g.pgdir = s.m.pgdir /\ g.pd = s.m.pd /\ g.pt = s.m.pt /\ g.pte = s.m.pte
  BY <1>2, <1>6
<1>10. \A x \in Places : At(g, x) = At(s.m, x)
  BY <1>9 DEF At
<1>11. Good(t, X)
  BY <1>8, <1>10 DEF Good, Distinct
<1> QED
  BY <1>8, <1>9, <1>11

(* What the loops over areas keep: while nothing failed, the mapped pages  *)
(* fit the areas so far.                                                   *)
Whole(s, X, g) == Good(s, X) /\ s.m.pgdir = g /\ (s.ret = "ok" => Fits(s.m) /\ Tables(s.m))

LEMMA DupAreaGood ==
    ASSUME MmAssumption, NEW from, NEW s, NEW X, NEW g, Whole(s, X, g), NEW area \in Area,
           \A v \in Pages(area) : Required(v, area) => from.pte[v] # 0, NEW bad, NEW t, t = DupArea(from, s, area, bad)
    PROVE  Whole(t, X, g)
<1>0. Good(s, X) /\ s \in Work /\ s.m.vmas \in Seq(Area)
  BY WorkFields DEF Whole, Good
<1>1. CASE s.ret # "ok"
  <2>1. t = s
    BY <1>1, Zenon DEF DupArea
  <2> QED
    BY <2>1
<1>2. CASE s.ret = "ok" /\ Len(s.m.vmas) = bad
  <2>1. t = [s EXCEPT !.ret = "E_NO_MEM"]
    BY <1>2, Zenon DEF DupArea, Fail
  <2>2. Good(t, X) /\ t.m = s.m /\ t.ret = "E_NO_MEM"
    BY <2>1, <1>0, EndsGood
  <2> QED
    BY <2>2 DEF Whole
<1>3. CASE s.ret = "ok" /\ Len(s.m.vmas) # bad
  <2>1. PICK q : q = Before(area, s.m.vmas)
    OBVIOUS
  <2>2. PICK w : w = WithAreas(s, q)
    OBVIOUS
  <2>3. t = CopyPages(from, w, area[1], area[2])
    BY <1>3, <2>1, <2>2, Zenon DEF DupArea, WithAreas, Before
  <2>4. q \in Seq(Area)
    BY <2>1, <1>0, AreaFirst
  <2>5. /\ Good(w, X) /\ w.m.vmas = q /\ w.m.pgdir = s.m.pgdir /\ w.m.pd = s.m.pd /\ w.m.pt = s.m.pt
        /\ w.m.pte = s.m.pte /\ w.ret = s.ret
    BY <2>2, <2>4, <1>0, AreasSet
  <2>6. PICK C, P, D : C = Mapped(s.m) /\ P = {v \in Pages(area) : from.pte[v] # 0} /\ D = C \cup P
    OBVIOUS
  <2>7. Fits(s.m) /\ Covered(s.m, C)
    BY <2>6, <1>3, CoverMapped DEF Whole
  <2>8. Covered(w.m, C)
    BY <2>5, <2>7, SameCover
  <2>9. area[1] \in Nat /\ area[2] \in Nat /\ area[1] <= area[2] /\ area[1] .. area[2] - 1 \subseteq Virt
    BY MmFacts DEF Pages
  <2>10. AddsCopies(from, C, area[1], area[2], D)
    BY <2>6 DEF Pages, AddsCopies
  <2>11. Stays(w, t, X) /\ (t.ret = "ok" => Covered(t.m, D))
    BY <2>3, <2>5, <2>8, <2>9, <2>10, <1>3, CopyGood
  <2>12. Good(t, X) /\ t.m.vmas = q /\ t.m.pgdir = g
    BY <2>5, <2>11 DEF Stays, Whole
  <2>13. ASSUME t.ret = "ok" PROVE Fits(t.m) /\ Tables(t.m)
    <3>1. Covers(t.m, D) /\ Tables(t.m)
      BY <2>11, <2>13 DEF Covered
    <3>2. P \subseteq Pages(area) /\ \A v \in Pages(area) : Required(v, area) => v \in P
      BY <2>6
    <3>3. \A v \in Virt : t.m.pte[v] # 0 <=> v \in Mapped(s.m) \/ v \in P
      BY <3>1, <2>6 DEF Covers
    <3>4. t.m.vmas = Before(area, s.m.vmas)
      BY <2>1, <2>12
    <3>5. Fits(t.m)
      BY <3>2, <3>3, <3>4, <2>7, <1>0, FitsMore
    <3> QED
      BY <3>1, <3>5
  <2> QED
    BY <2>12, <2>13 DEF Whole
<1> QED
  BY <1>1, <1>2, <1>3

LEMMA NewAreaGood ==
    ASSUME MmAssumption, NEW s, NEW X, NEW g, Whole(s, X, g), s.ret = "ok", NEW seg \in Segment,
           NEW area, area = <<seg[1], seg[2]>>,
           NEW q, q = Last(s.m.vmas, area), NEW w, w = WithAreas(s, q),
           NEW u, u = AllocPages(w, seg[1], seg[3])
    PROVE  Whole(u, X, g)
<1>1. Good(s, X) /\ s \in Work /\ s.m.vmas \in Seq(Area)
  BY WorkFields DEF Whole, Good
<1>2. /\ seg[1] \in Nat /\ seg[2] \in Nat /\ seg[3] \in Nat /\ seg[1] < seg[3] /\ seg[3] <= seg[2]
      /\ seg[2] <= seg[3] + 1 /\ area[1] = seg[1] /\ area[2] = seg[2]
  <2>1. seg[1] \in 0 .. NVirt /\ seg[2] \in 0 .. NVirt /\ seg[3] \in 0 .. NVirt
    BY DEF Segment
  <2>2. seg[1] < seg[3] /\ (seg[3] = seg[2] \/ seg[3] + 1 = seg[2])
    BY DEF Segment
  <2> QED
    BY <2>1, <2>2
<1>3. area \in Area
  BY <1>2 DEF Area, Segment
<1>4. q \in Seq(Area)
  <2>1. s.m.vmas \in Seq(Area)
    BY <1>1
  <2> QED
    BY <2>1, <1>3, AreaLast
<1>5. /\ Good(w, X) /\ w.m.vmas = q /\ w.m.pgdir = s.m.pgdir /\ w.m.pd = s.m.pd /\ w.m.pt = s.m.pt
      /\ w.m.pte = s.m.pte /\ w.ret = s.ret
  <2>1. q \in Seq(Area)
    BY <1>4
  <2> QED
    BY <2>1, <1>1, AreasSet
<1>6. PICK C, P, D : C = Mapped(s.m) /\ P = seg[1] .. seg[3] - 1 /\ D = C \cup P
  OBVIOUS
<1>7. Fits(s.m) /\ Covered(s.m, C)
  BY <1>6, CoverMapped DEF Whole
<1>8. Covered(w.m, C)
  BY <1>5, <1>7, SameCover
<1>9. P \subseteq Pages(area) /\ \A v \in Pages(area) : Required(v, area) => v \in P
  BY <1>2, <1>6 DEF Pages, Required
<1>10. seg[1] .. seg[3] - 1 \subseteq Virt
  BY <1>3, <1>6, <1>9, MmFacts
<1>11. AddsRange(C, seg[1], seg[3], D)
  BY <1>6 DEF AddsRange
<1>12. Stays(w, u, X) /\ (u.ret = "ok" => Covered(u.m, D))
  <2>1. seg[1] <= seg[3]
    BY <1>2
  <2> QED
    BY <2>1, <1>2, <1>5, <1>8, <1>10, <1>11, AllocGood
<1>13. Good(u, X) /\ u.m.vmas = q /\ u.m.pgdir = g
  BY <1>5, <1>12 DEF Stays, Whole
<1>14. ASSUME u.ret = "ok" PROVE Fits(u.m) /\ Tables(u.m)
  <2>1. Covers(u.m, D) /\ Tables(u.m)
    BY <1>12, <1>14 DEF Covered
  <2>2. \A v \in Virt : u.m.pte[v] # 0 <=> v \in Mapped(s.m) \/ v \in P
    BY <2>1, <1>6 DEF Covers
  <2>3. Fits(u.m)
    BY <2>2, <1>1, <1>3, <1>7, <1>9, <1>13, FitsMore
  <2> QED
    BY <2>1, <2>3
<1> QED
  BY <1>13, <1>14 DEF Whole

LEMMA LoadSegmentGood ==
    ASSUME MmAssumption, NEW s, NEW X, NEW g, Whole(s, X, g), NEW segs \in Seq(Segment), NEW i \in DOMAIN segs,
           NEW bad, NEW at, NEW t, t = LoadSegment(s, segs, i, bad, at)
    PROVE  Whole(t, X, g)
<1>0. Good(s, X) /\ s \in Work /\ s.m.vmas \in Seq(Area) /\ segs[i] \in Segment
  <2>1. segs[i] \in Segment
    OBVIOUS
  <2> QED
    BY <2>1, WorkFields DEF Whole, Good
<1>1. CASE s.ret # "ok"
  <2>1. t = s
    BY <1>1, Zenon DEF LoadSegment
  <2> QED
    BY <2>1
<1>2. CASE s.ret = "ok" /\ bad = "vma" /\ i = at
  <2>1. t = [s EXCEPT !.ret = "E_NO_MEM"]
    BY <1>2, Zenon DEF LoadSegment, Fail
  <2>2. Good(t, X) /\ t.m = s.m /\ t.ret = "E_NO_MEM"
    BY <2>1, <1>0, EndsGood
  <2> QED
    BY <2>2 DEF Whole
<1>3. CASE s.ret = "ok" /\ ~(bad = "vma" /\ i = at)
  <2>1. PICK seg, area : seg \in Segment /\ seg = segs[i] /\ area = <<seg[1], seg[2]>>
    BY <1>0
  <2>2. PICK q : q = Last(s.m.vmas, area)
    OBVIOUS
  <2>3. PICK w : w = WithAreas(s, q)
    OBVIOUS
  <2>4. PICK u : u = AllocPages(w, seg[1], seg[3])
    OBVIOUS
  <2>5. t = IF u.ret = "ok" /\ bad = "read" /\ i = at THEN Fail(u, "read") ELSE u
    <3>1. w = [s EXCEPT !.m.vmas = Append(s.m.vmas, <<segs[i][1], segs[i][2]>>)]
      BY <2>1, <2>2, <2>3, Zenon DEF WithAreas, Last
    <3>2. u = AllocPages([s EXCEPT !.m.vmas = Append(s.m.vmas, <<segs[i][1], segs[i][2]>>)], segs[i][1], segs[i][3])
      BY <3>1, <2>1, <2>4, Zenon
    <3>3. t = IF s.ret # "ok" THEN s
              ELSE IF bad = "vma" /\ i = at THEN Fail(s, "E_NO_MEM")
              ELSE IF u.ret = "ok" /\ bad = "read" /\ i = at THEN Fail(u, "read") ELSE u
      BY <3>2, Zenon DEF LoadSegment
    <3> QED
      BY <3>3, <1>3, Zenon
  <2>6. Good(u, X) /\ Whole(u, X, g)
    BY <1>3, <2>1, <2>2, <2>3, <2>4, NewAreaGood DEF Whole
  <2>7. CASE u.ret = "ok" /\ bad = "read" /\ i = at
    <3>1. t = [u EXCEPT !.ret = "read"]
      BY <2>5, <2>7, Zenon DEF Fail
    <3>2. Good(t, X) /\ t.m = u.m /\ t.ret = "read"
      BY <3>1, <2>6, EndsGood
    <3> QED
      BY <3>2, <2>6 DEF Whole
  <2>8. CASE ~(u.ret = "ok" /\ bad = "read" /\ i = at)
    <3>1. t = u
      BY <2>5, <2>8, Zenon
    <3> QED
      BY <3>1, <2>6
  <2> QED
    BY <2>7, <2>8
<1> QED
  BY <1>1, <1>2, <1>3

---------------------------------------------------------------------------
(* Giving back: what t has of s, and what became free.                     *)
Released(s, t) ==
    /\ t \in Work
    /\ \A x \in Places : At(t.m, x) \in {0, At(s.m, x)}
    /\ t.free \subseteq s.free \cup Use(s.m)

LEMMA FieldsReleased ==
    ASSUME NEW s, NEW t, NEW u \in Work, Released(s, t),
           u.m.pgdir = t.m.pgdir, u.free \subseteq t.free \cup Use(t.m),
           \A d \in Pds : u.m.pd[d] \in {0, t.m.pd[d]},
           \A c \in Pts : u.m.pt[c] \in {0, t.m.pt[c]},
           \A v \in Virt : u.m.pte[v] \in {0, t.m.pte[v]}
    PROVE  Released(s, u)
<1>1. ASSUME NEW x \in Places PROVE At(u.m, x) \in {0, At(t.m, x)}
  <2>1. CASE x = <<"pgdir", 0>>
    BY <2>1, AtFields
  <2>2. CASE \E d \in Pds : x = <<"pd", d>>
    BY <2>2, AtFields
  <2>3. CASE \E c \in Pts : x = <<"pt", c>>
    BY <2>3, AtFields
  <2>4. CASE \E v \in Virt : x = <<"page", v>>
    BY <2>4, AtFields
  <2> QED
    BY <2>1, <2>2, <2>3, <2>4, AtFields
<1>2. \A x \in Places : At(u.m, x) \in {0, At(s.m, x)}
  BY <1>1 DEF Released
<1>3. Use(t.m) \subseteq Use(s.m)
  BY DEF Released, Use
<1>4. u.free \subseteq s.free \cup Use(s.m)
  BY <1>3 DEF Released
<1> QED
  BY <1>2, <1>4 DEF Released

LEMMA EditUnmap ==
    ASSUME NEW s \in Work, NEW F, NEW f
    PROVE  [s EXCEPT !.free = F, !.m.pte = f]
             = [m |-> [vmas |-> s.m.vmas, pgdir |-> s.m.pgdir, pd |-> s.m.pd, pt |-> s.m.pt, pte |-> f],
                free |-> F, ret |-> s.ret]
<1>1. PICK e : e = s.m
  OBVIOUS
<1>2. PICK G, r : G = s.free /\ r = s.ret
  OBVIOUS
<1>3. s = [m |-> e, free |-> G, ret |-> r]
  BY <1>1, <1>2, WorkFields
<1>4. PICK t : t = [s EXCEPT !.free = F, !.m.pte = f]
  OBVIOUS
<1>5. t = [m |-> [e EXCEPT !.pte = f], free |-> F, ret |-> r]
  BY <1>3, <1>4
<1>6. PICK g : g = [e EXCEPT !.pte = f]
  OBVIOUS
<1>7. e = [vmas |-> e.vmas, pgdir |-> e.pgdir, pd |-> e.pd, pt |-> e.pt, pte |-> e.pte]
  BY <1>1, WorkFields
<1>8. g = [vmas |-> e.vmas, pgdir |-> e.pgdir, pd |-> e.pd, pt |-> e.pt, pte |-> f]
  BY <1>6, <1>7
<1> QED
  BY <1>1, <1>2, <1>4, <1>5, <1>6, <1>8

LEMMA EditExit ==
    ASSUME NEW s \in Work, NEW F, NEW f, NEW h
    PROVE  [s EXCEPT !.free = F, !.m.pt = f, !.m.pd = h]
             = [m |-> [vmas |-> s.m.vmas, pgdir |-> s.m.pgdir, pd |-> h, pt |-> f, pte |-> s.m.pte],
                free |-> F, ret |-> s.ret]
<1>1. PICK e : e = s.m
  OBVIOUS
<1>2. PICK G, r : G = s.free /\ r = s.ret
  OBVIOUS
<1>3. s = [m |-> e, free |-> G, ret |-> r]
  BY <1>1, <1>2, WorkFields
<1>4. PICK t : t = [s EXCEPT !.free = F, !.m.pt = f, !.m.pd = h]
  OBVIOUS
<1>5. t = [m |-> [[e EXCEPT !.pt = f] EXCEPT !.pd = h], free |-> F, ret |-> r]
  BY <1>3, <1>4
<1>6. PICK g : g = [[e EXCEPT !.pt = f] EXCEPT !.pd = h]
  OBVIOUS
<1>7. e = [vmas |-> e.vmas, pgdir |-> e.pgdir, pd |-> e.pd, pt |-> e.pt, pte |-> e.pte]
  BY <1>1, WorkFields
<1>8. g = [vmas |-> e.vmas, pgdir |-> e.pgdir, pd |-> h, pt |-> f, pte |-> e.pte]
  BY <1>6, <1>7
<1> QED
  BY <1>1, <1>2, <1>4, <1>5, <1>6, <1>8

(* A work whose tables and pages are replaced.                             *)
LEMMA Replaced ==
    ASSUME NEW s \in Work, NEW h \in [Pds -> Entry], NEW f \in [Pts -> Entry], NEW e \in [Virt -> Entry],
           NEW F \in SUBSET Frames,
           NEW t, t = [m |-> [vmas |-> s.m.vmas, pgdir |-> s.m.pgdir, pd |-> h, pt |-> f, pte |-> e],
                       free |-> F, ret |-> s.ret]
    PROVE  /\ t \in Work /\ t.m.vmas = s.m.vmas /\ t.m.pgdir = s.m.pgdir /\ t.m.pd = h /\ t.m.pt = f /\ t.m.pte = e
           /\ t.free = F
<1>1. PICK g : g = [vmas |-> s.m.vmas, pgdir |-> s.m.pgdir, pd |-> h, pt |-> f, pte |-> e]
  OBVIOUS
<1>2. g \in MmRec
  BY <1>1, WorkFields DEF MmRec
<1>3. t = [m |-> g, free |-> F, ret |-> s.ret]
  BY <1>1
<1>4. t \in Work /\ t.m = g /\ t.free = F
  BY <1>2, <1>3, WorkFields DEF Work
<1> QED
  BY <1>1, <1>4

LEMMA UnmapReleased ==
    ASSUME MmAssumption, NEW s \in Work, NEW t, t = UnmapAll(s)
    PROVE  Released(s, t)
<1> DEFINE mapped == UNION {Pages(s.m.vmas[i]) : i \in DOMAIN s.m.vmas}
<1>1. PICK F : F = s.free \cup {s.m.pte[v] : v \in {u \in mapped : s.m.pte[u] # 0}}
  OBVIOUS
<1>2. PICK f : f = [v \in Virt |-> IF v \in mapped THEN 0 ELSE s.m.pte[v]]
  OBVIOUS
<1>3. t = [s EXCEPT !.free = F, !.m.pte = f]
  BY <1>1, <1>2, Zenon DEF UnmapAll
<1>4. t = [m |-> [vmas |-> s.m.vmas, pgdir |-> s.m.pgdir, pd |-> s.m.pd, pt |-> s.m.pt, pte |-> f],
           free |-> F, ret |-> s.ret]
  BY <1>3, EditUnmap, ZenonT(60)
<1>5. mapped \subseteq Virt
  <2> SUFFICES ASSUME NEW i \in DOMAIN s.m.vmas PROVE Pages(s.m.vmas[i]) \subseteq Virt
    OBVIOUS
  <2>1. s.m.vmas \in Seq(Area)
    BY WorkFields
  <2>2. s.m.vmas[i] \in Area
    BY <2>1
  <2> QED
    BY <2>2, MmFacts
<1> HIDE DEF mapped
<1>6. s.m.pte \in [Virt -> Entry] /\ s.free \in SUBSET Frames /\ s.m.pt \in [Pts -> Entry] /\ s.m.pd \in [Pds -> Entry]
  BY WorkFields
<1>7. \A v \in Virt : s.m.pte[v] # 0 => s.m.pte[v] \in Use(s.m) /\ s.m.pte[v] \in Frames
  BY <1>6, AtFields, ZenonT(60) DEF Use, Entry
<1>8. F \in SUBSET Frames /\ F \subseteq s.free \cup Use(s.m)
  BY <1>1, <1>5, <1>6, <1>7
<1>9. f \in [Virt -> Entry] /\ \A v \in Virt : f[v] \in {0, s.m.pte[v]}
  BY <1>2, <1>6 DEF Entry
<1>10. /\ t \in Work /\ t.m.vmas = s.m.vmas /\ t.m.pgdir = s.m.pgdir /\ t.m.pd = s.m.pd /\ t.m.pt = s.m.pt
       /\ t.m.pte = f /\ t.free = F
  <2>1. PICK h, g : h = s.m.pd /\ g = s.m.pt
    OBVIOUS
  <2>2. t = [m |-> [vmas |-> s.m.vmas, pgdir |-> s.m.pgdir, pd |-> h, pt |-> g, pte |-> f],
             free |-> F, ret |-> s.ret]
    BY <1>4, <2>1
  <2>3. h \in [Pds -> Entry] /\ g \in [Pts -> Entry]
    BY <1>6, <2>1
  <2> QED
    BY <2>1, <2>2, <2>3, <1>8, <1>9, Replaced
<1>11. Released(s, s)
  BY DEF Released
<1> QED
  BY <1>8, <1>9, <1>10, <1>11, FieldsReleased

LEMMA ExitReleased ==
    ASSUME MmAssumption, NEW s, NEW t, Released(s, t), NEW area \in Area, NEW u, u = ExitRange(t, area)
    PROVE  Released(s, u)
<1>0. t \in Work
  BY DEF Released
<1> DEFINE ts == {Pt(v) : v \in Pages(area)}
           ds == {Pd(c) : c \in {k \in ts : t.m.pd[Pd(k)] # 0}}
           pts == {c \in ts : Pd(c) \in ds /\ t.m.pt[c] # 0 /\ \A v \in Virt : Pt(v) = c => t.m.pte[v] = 0}
           pds == {d \in ds : \A c \in ts : Pd(c) = d => t.m.pt[c] # 0}
<1>1. PICK F : F = t.free \cup {t.m.pt[c] : c \in pts} \cup {t.m.pd[d] : d \in pds}
  OBVIOUS
<1>2. PICK f : f = [c \in Pts |-> IF c \in pts \/ Pd(c) \in pds THEN 0 ELSE t.m.pt[c]]
  OBVIOUS
<1>3. PICK h : h = [d \in Pds |-> IF d \in pds THEN 0 ELSE t.m.pd[d]]
  OBVIOUS
<1>4. u = [t EXCEPT !.free = F, !.m.pt = f, !.m.pd = h]
  BY <1>1, <1>2, <1>3, Zenon DEF ExitRange
<1>5. u = [m |-> [vmas |-> t.m.vmas, pgdir |-> t.m.pgdir, pd |-> h, pt |-> f, pte |-> t.m.pte],
           free |-> F, ret |-> t.ret]
  BY <1>0, <1>4, EditExit, ZenonT(60)
<1>6. (\A c \in pts : c \in Pts /\ t.m.pt[c] # 0) /\ (\A d \in pds : d \in Pds /\ t.m.pd[d] # 0)
  <2>1. \A c \in ts : c \in Pts /\ Pd(c) \in Pds
    BY MmFacts
  <2>2. \A d \in ds : d \in Pds /\ t.m.pd[d] # 0
    BY <2>1
  <2> QED
    BY <2>1, <2>2
<1> HIDE DEF pts, pds
<1>7. /\ t.m.pte \in [Virt -> Entry] /\ t.free \in SUBSET Frames /\ t.m.pt \in [Pts -> Entry] /\ t.m.pd \in [Pds -> Entry]
  BY <1>0, WorkFields
<1>8. /\ \A c \in Pts : t.m.pt[c] # 0 => t.m.pt[c] \in Use(t.m) /\ t.m.pt[c] \in Frames
      /\ \A d \in Pds : t.m.pd[d] # 0 => t.m.pd[d] \in Use(t.m) /\ t.m.pd[d] \in Frames
  <2>1. ASSUME NEW c \in Pts, t.m.pt[c] # 0 PROVE t.m.pt[c] \in Use(t.m) /\ t.m.pt[c] \in Frames
    <3>1. <<"pt", c>> \in Places /\ At(t.m, <<"pt", c>>) = t.m.pt[c]
      BY AtFields
    <3> QED
      BY <3>1, <2>1, <1>7 DEF Use, Entry
  <2>2. ASSUME NEW d \in Pds, t.m.pd[d] # 0 PROVE t.m.pd[d] \in Use(t.m) /\ t.m.pd[d] \in Frames
    <3>1. <<"pd", d>> \in Places /\ At(t.m, <<"pd", d>>) = t.m.pd[d]
      BY AtFields
    <3> QED
      BY <3>1, <2>2, <1>7 DEF Use, Entry
  <2> QED
    BY <2>1, <2>2
<1>9. F \in SUBSET Frames /\ F \subseteq t.free \cup Use(t.m)
  BY <1>1, <1>6, <1>7, <1>8
<1>10. f \in [Pts -> Entry] /\ \A c \in Pts : f[c] \in {0, t.m.pt[c]}
  BY <1>2, <1>7 DEF Entry
<1>11. h \in [Pds -> Entry] /\ \A d \in Pds : h[d] \in {0, t.m.pd[d]}
  BY <1>3, <1>7 DEF Entry
<1>12. /\ u \in Work /\ u.m.vmas = t.m.vmas /\ u.m.pgdir = t.m.pgdir /\ u.m.pd = h /\ u.m.pt = f
       /\ u.m.pte = t.m.pte /\ u.free = F
  BY <1>0, <1>5, <1>7, <1>9, <1>10, <1>11, Replaced, SMTT(30)
<1> QED
  BY <1>9, <1>10, <1>11, <1>12, FieldsReleased

---------------------------------------------------------------------------
(* The loops over the areas.                                               *)
IsDup(w, s, from, n, bad, i, m) == w = [k \in i .. m |-> IF k = i THEN s ELSE DupArea(from, w[k - 1], from.vmas[n + 1 - k], bad)]

LEMMA DupExists ==
    ASSUME NEW s, NEW from, NEW n, NEW bad, NEW i \in Nat, NEW j \in Nat, i <= j
    PROVE  \E w : IsDup(w, s, from, n, bad, i, j)
<1> DEFINE B == {m \in Nat : \E w : IsDup(w, s, from, n, bad, i, m)}
<1>1. i \in B
  <2>1. PICK w : w = [k \in i .. i |-> s]
    OBVIOUS
  <2>2. \A k \in i .. i : k = i
    OBVIOUS
  <2>3. w = [k \in i .. i |-> IF k = i THEN s ELSE DupArea(from, w[k - 1], from.vmas[n + 1 - k], bad)]
    BY <2>1, <2>2
  <2> QED
    BY <2>3 DEF IsDup
<1>2. ASSUME NEW m \in i + 1 .. j, m - 1 \in B PROVE m \in B
  <2>1. PICK w : IsDup(w, s, from, n, bad, i, m - 1)
    BY <1>2
  <2>2. m \in Nat /\ i < m /\ m # i
    OBVIOUS
  <2>3. PICK y : y = DupArea(from, w[m - 1], from.vmas[n + 1 - m], bad)
    OBVIOUS
  <2>4. PICK v : Extends(v, w, i, m, y)
    BY <2>2, OneMore
  <2>5. ASSUME NEW k \in i .. m
        PROVE  v[k] = IF k = i THEN s ELSE DupArea(from, v[k - 1], from.vmas[n + 1 - k], bad)
    <3>1. CASE k = m
      <4>1. m - 1 \in i .. m - 1
        BY <2>2
      <4>2. v[m - 1] = w[m - 1]
        BY <4>1, <2>4 DEF Extends
      <4>3. v[m] = DupArea(from, v[m - 1], from.vmas[n + 1 - m], bad)
        BY <4>2, <2>3, <2>4 DEF Extends
      <4> QED
        BY <4>3, <3>1, <2>2
    <3>2. CASE k # m
      <4>0. k \in i .. m - 1
        BY <3>2, <2>2
      <4>1. k \in i .. m - 1 /\ v[k] = w[k]
        BY <4>0, <2>4 DEF Extends
      <4>2. w[k] = IF k = i THEN s ELSE DupArea(from, w[k - 1], from.vmas[n + 1 - k], bad)
        BY <4>1, <2>1 DEF IsDup
      <4>3. CASE k = i
        BY <4>1, <4>2, <4>3
      <4>4. CASE k # i
        <5>1. k - 1 \in i .. m - 1
          BY <4>1, <4>4, <2>2
        <5>2. v[k - 1] = w[k - 1]
          BY <5>1, <2>4 DEF Extends
        <5> QED
          BY <5>2, <4>1, <4>2, <4>4
      <4> QED
        BY <4>3, <4>4
    <3> QED
      BY <3>1, <3>2
  <2>6. v = [k \in i .. m |-> IF k = i THEN s ELSE DupArea(from, v[k - 1], from.vmas[n + 1 - k], bad)]
    BY <2>4, <2>5 DEF Extends
  <2> QED
    BY <2>2, <2>6 DEF IsDup
<1> HIDE DEF B
<1>3. i .. j \subseteq B
  BY <1>1, <1>2, UpTo
<1>4. j \in B
  BY <1>3
<1> QED
  BY <1>4 DEF B

IsSegs(w, s, segs, bad, at, i, m) == w = [k \in i .. m |-> IF k = i THEN s ELSE LoadSegment(w[k - 1], segs, k, bad, at)]

LEMMA SegsExists ==
    ASSUME NEW s, NEW segs, NEW bad, NEW at, NEW i \in Nat, NEW j \in Nat, i <= j
    PROVE  \E w : IsSegs(w, s, segs, bad, at, i, j)
<1> DEFINE B == {m \in Nat : \E w : IsSegs(w, s, segs, bad, at, i, m)}
<1>1. i \in B
  <2>1. PICK w : w = [k \in i .. i |-> s]
    OBVIOUS
  <2>2. \A k \in i .. i : k = i
    OBVIOUS
  <2>3. w = [k \in i .. i |-> IF k = i THEN s ELSE LoadSegment(w[k - 1], segs, k, bad, at)]
    BY <2>1, <2>2
  <2> QED
    BY <2>3 DEF IsSegs
<1>2. ASSUME NEW m \in i + 1 .. j, m - 1 \in B PROVE m \in B
  <2>1. PICK w : IsSegs(w, s, segs, bad, at, i, m - 1)
    BY <1>2
  <2>2. m \in Nat /\ i < m /\ m # i
    OBVIOUS
  <2>3. PICK y : y = LoadSegment(w[m - 1], segs, m, bad, at)
    OBVIOUS
  <2>4. PICK v : Extends(v, w, i, m, y)
    BY <2>2, OneMore
  <2>5. ASSUME NEW k \in i .. m
        PROVE  v[k] = IF k = i THEN s ELSE LoadSegment(v[k - 1], segs, k, bad, at)
    <3>1. CASE k = m
      <4>1. m - 1 \in i .. m - 1
        BY <2>2
      <4>2. v[m - 1] = w[m - 1]
        BY <4>1, <2>4 DEF Extends
      <4>3. v[m] = LoadSegment(v[m - 1], segs, m, bad, at)
        BY <4>2, <2>3, <2>4 DEF Extends
      <4> QED
        BY <4>3, <3>1, <2>2
    <3>2. CASE k # m
      <4>0. k \in i .. m - 1
        BY <3>2, <2>2
      <4>1. k \in i .. m - 1 /\ v[k] = w[k]
        BY <4>0, <2>4 DEF Extends
      <4>2. w[k] = IF k = i THEN s ELSE LoadSegment(w[k - 1], segs, k, bad, at)
        BY <4>1, <2>1 DEF IsSegs
      <4>3. CASE k = i
        BY <4>1, <4>2, <4>3
      <4>4. CASE k # i
        <5>1. k - 1 \in i .. m - 1
          BY <4>1, <4>4, <2>2
        <5>2. v[k - 1] = w[k - 1]
          BY <5>1, <2>4 DEF Extends
        <5> QED
          BY <5>2, <4>1, <4>2, <4>4
      <4> QED
        BY <4>3, <4>4
    <3> QED
      BY <3>1, <3>2
  <2>6. v = [k \in i .. m |-> IF k = i THEN s ELSE LoadSegment(v[k - 1], segs, k, bad, at)]
    BY <2>4, <2>5 DEF Extends
  <2> QED
    BY <2>2, <2>6 DEF IsSegs
<1> HIDE DEF B
<1>3. i .. j \subseteq B
  BY <1>1, <1>2, UpTo
<1>4. j \in B
  BY <1>3
<1> QED
  BY <1>4 DEF B

IsExit(w, s, areas, i, m) == w = [k \in i .. m |-> IF k = i THEN s ELSE ExitRange(w[k - 1], areas[k])]

LEMMA ExitExists ==
    ASSUME NEW s, NEW areas, NEW i \in Nat, NEW j \in Nat, i <= j
    PROVE  \E w : IsExit(w, s, areas, i, j)
<1> DEFINE B == {m \in Nat : \E w : IsExit(w, s, areas, i, m)}
<1>1. i \in B
  <2>1. PICK w : w = [k \in i .. i |-> s]
    OBVIOUS
  <2>2. \A k \in i .. i : k = i
    OBVIOUS
  <2>3. w = [k \in i .. i |-> IF k = i THEN s ELSE ExitRange(w[k - 1], areas[k])]
    BY <2>1, <2>2
  <2> QED
    BY <2>3 DEF IsExit
<1>2. ASSUME NEW m \in i + 1 .. j, m - 1 \in B PROVE m \in B
  <2>1. PICK w : IsExit(w, s, areas, i, m - 1)
    BY <1>2
  <2>2. m \in Nat /\ i < m /\ m # i
    OBVIOUS
  <2>3. PICK y : y = ExitRange(w[m - 1], areas[m])
    OBVIOUS
  <2>4. PICK v : Extends(v, w, i, m, y)
    BY <2>2, OneMore
  <2>5. ASSUME NEW k \in i .. m
        PROVE  v[k] = IF k = i THEN s ELSE ExitRange(v[k - 1], areas[k])
    <3>1. CASE k = m
      <4>1. m - 1 \in i .. m - 1
        BY <2>2
      <4>2. v[m - 1] = w[m - 1]
        BY <4>1, <2>4 DEF Extends
      <4>3. v[m] = ExitRange(v[m - 1], areas[m])
        BY <4>2, <2>3, <2>4 DEF Extends
      <4> QED
        BY <4>3, <3>1, <2>2
    <3>2. CASE k # m
      <4>0. k \in i .. m - 1
        BY <3>2, <2>2
      <4>1. k \in i .. m - 1 /\ v[k] = w[k]
        BY <4>0, <2>4 DEF Extends
      <4>2. w[k] = IF k = i THEN s ELSE ExitRange(w[k - 1], areas[k])
        BY <4>1, <2>1 DEF IsExit
      <4>3. CASE k = i
        BY <4>1, <4>2, <4>3
      <4>4. CASE k # i
        <5>1. k - 1 \in i .. m - 1
          BY <4>1, <4>4, <2>2
        <5>2. v[k - 1] = w[k - 1]
          BY <5>1, <2>4 DEF Extends
        <5> QED
          BY <5>2, <4>1, <4>2, <4>4
      <4> QED
        BY <4>3, <4>4
    <3> QED
      BY <3>1, <3>2
  <2>6. v = [k \in i .. m |-> IF k = i THEN s ELSE ExitRange(v[k - 1], areas[k])]
    BY <2>4, <2>5 DEF Extends
  <2> QED
    BY <2>2, <2>6 DEF IsExit
<1> HIDE DEF B
<1>3. i .. j \subseteq B
  BY <1>1, <1>2, UpTo
<1>4. j \in B
  BY <1>3
<1> QED
  BY <1>4 DEF B

LEMMA DupMmapGood ==
    ASSUME MmAssumption, NEW s, NEW X, NEW g, Whole(s, X, g), NEW from, from.vmas \in Seq(Area),
           Filled(from.vmas, from.pte), NEW bad, NEW t, t = DupMmap(s, from, bad)
    PROVE  Whole(t, X, g)
<1> PICK n : n = Len(from.vmas)
  OBVIOUS
<1>0. n \in Nat /\ 0 \in 0 .. n
  OBVIOUS
<1>1. n \in Nat /\ DOMAIN from.vmas = 1 .. n /\ \A k \in 1 .. n : from.vmas[k] \in Area
  OBVIOUS
<1>2. PICK w : IsDup(w, s, from, n, bad, 0, n) /\ t = w[n]
  <2>1. 0 \in Nat /\ n \in Nat /\ 0 <= n
    BY <1>1
  <2>2. \E v : IsDup(v, s, from, n, bad, 0, n)
    BY <2>1, DupExists, Zenon
  <2>3. PICK w : w = CHOOSE v : IsDup(v, s, from, n, bad, 0, n)
    OBVIOUS
  <2>4. IsDup(w, s, from, n, bad, 0, n)
    BY <2>2, <2>3, Zenon
  <2>5. t = w[n]
    <3>1. t = (CHOOSE v : v = [k \in 0 .. n |-> IF k = 0 THEN s ELSE DupArea(from, v[k - 1], from.vmas[n + 1 - k], bad)])[n]
      BY Zenon DEF DupMmap
    <3>2. w = CHOOSE v : v = [k \in 0 .. n |-> IF k = 0 THEN s ELSE DupArea(from, v[k - 1], from.vmas[n + 1 - k], bad)]
      BY <2>3, Zenon DEF IsDup
    <3> QED
      BY <3>1, <3>2, Zenon
  <2> QED
    BY <2>4, <2>5
<1> DEFINE B == {k \in 0 .. n : Whole(w[k], X, g)}
<1>3. \A k \in 0 .. n : w[k] = IF k = 0 THEN s ELSE DupArea(from, w[k - 1], from.vmas[n + 1 - k], bad)
  BY <1>2 DEF IsDup
<1>4. 0 \in B
  BY <1>0, <1>3
<1>5. ASSUME NEW k \in 0 + 1 .. n, k - 1 \in B PROVE k \in B
  <2>1. k \in 0 .. n /\ k # 0 /\ n + 1 - k \in 1 .. n
    BY <1>1
  <2>2. PICK u, v, a : u = w[k - 1] /\ v = w[k] /\ a = from.vmas[n + 1 - k]
    OBVIOUS
  <2>3. v = DupArea(from, u, a, bad)
    BY <2>1, <2>2, <1>3
  <2>4. Whole(u, X, g)
    BY <2>2, <1>5
  <2>5. a \in Area /\ \A x \in Pages(a) : Required(x, a) => from.pte[x] # 0
    BY <2>1, <2>2, <1>1 DEF Filled
  <2>6. Whole(v, X, g)
    BY <2>3, <2>4, <2>5, DupAreaGood
  <2> QED
    BY <2>1, <2>2, <2>6
<1> HIDE DEF B
<1>6. 0 .. n \subseteq B
  BY <1>1, <1>4, <1>5, UpTo
<1>7. n \in B
  BY <1>1, <1>6
<1> QED
  BY <1>2, <1>7 DEF B

LEMMA SegsGood ==
    ASSUME MmAssumption, NEW s, NEW X, NEW g, Whole(s, X, g), NEW segs \in Seq(Segment), NEW bad, NEW at,
           NEW w, IsSegs(w, s, segs, bad, at, 0, Len(segs))
    PROVE  Whole(w[Len(segs)], X, g)
<1> PICK n : n = Len(segs)
  OBVIOUS
<1>1. n \in Nat /\ DOMAIN segs = 1 .. n
  OBVIOUS
<1> DEFINE B == {k \in 0 .. n : Whole(w[k], X, g)}
<1>2. \A k \in 0 .. n : w[k] = IF k = 0 THEN s ELSE LoadSegment(w[k - 1], segs, k, bad, at)
  BY DEF IsSegs
<1>3. 0 \in B
  BY <1>1, <1>2
<1>4. ASSUME NEW k \in 0 + 1 .. n, k - 1 \in B PROVE k \in B
  <2>1. k \in 0 .. n /\ k # 0 /\ k \in DOMAIN segs
    BY <1>1
  <2>2. PICK u, v : u = w[k - 1] /\ v = w[k]
    OBVIOUS
  <2>3. v = LoadSegment(u, segs, k, bad, at)
    BY <2>1, <2>2, <1>2
  <2>4. Whole(u, X, g)
    BY <2>2, <1>4
  <2>5. Whole(v, X, g)
    BY <2>1, <2>3, <2>4, LoadSegmentGood
  <2> QED
    BY <2>1, <2>2, <2>5
<1> HIDE DEF B
<1>5. 0 .. n \subseteq B
  BY <1>1, <1>3, <1>4, UpTo
<1>6. n \in B
  BY <1>1, <1>5
<1> QED
  BY <1>6 DEF B

(* exit_mmap.                                                              *)
LEMMA ExitsReleased ==
    ASSUME MmAssumption, NEW s \in Work, NEW w, IsExit(w, UnmapAll(s), s.m.vmas, 0, Len(s.m.vmas))
    PROVE  Released(s, w[Len(s.m.vmas)])
<1> PICK n, areas : areas = s.m.vmas /\ n = Len(areas)
  OBVIOUS
<1>1. n \in Nat /\ \A k \in 1 .. n : areas[k] \in Area
  <2>1. areas \in Seq(Area)
    BY WorkFields
  <2> QED
    BY <2>1
<1> DEFINE B == {k \in 0 .. n : Released(s, w[k])}
<1>2. \A k \in 0 .. n : w[k] = IF k = 0 THEN UnmapAll(s) ELSE ExitRange(w[k - 1], areas[k])
  BY DEF IsExit
<1>3. 0 \in B
  <2>1. 0 \in 0 .. n /\ w[0] = UnmapAll(s)
    BY <1>1, <1>2
  <2>2. Released(s, w[0])
    BY <2>1, UnmapReleased
  <2> QED
    BY <2>1, <2>2
<1>4. ASSUME NEW k \in 0 + 1 .. n, k - 1 \in B PROVE k \in B
  <2>1. k \in 0 .. n /\ k # 0 /\ k \in 1 .. n
    BY <1>1
  <2>2. PICK u, v, a : u = w[k - 1] /\ v = w[k] /\ a = areas[k]
    OBVIOUS
  <2>3. v = ExitRange(u, a) /\ a \in Area
    BY <2>1, <2>2, <1>1, <1>2
  <2>4. Released(s, u)
    BY <2>2, <1>4
  <2>5. Released(s, v)
    BY <2>3, <2>4, ExitReleased
  <2> QED
    BY <2>1, <2>2, <2>5
<1> HIDE DEF B
<1>5. 0 .. n \subseteq B
  BY <1>1, <1>3, <1>4, UpTo
<1>6. n \in B
  BY <1>1, <1>5
<1> QED
  BY <1>6 DEF B

---------------------------------------------------------------------------
(* Whole address spaces.                                                   *)
LEMMA NoMmFacts ==
    /\ NoMm \in MmRec /\ NoMm.vmas = <<>> /\ NoMm.pgdir = 0
    /\ \A d \in Pds : NoMm.pd[d] = 0
    /\ \A c \in Pts : NoMm.pt[c] = 0
    /\ \A v \in Virt : NoMm.pte[v] = 0
    /\ \A x \in Places : At(NoMm, x) = 0
<1>1. PICK d, c, v : d = [k \in Pds |-> 0] /\ c = [k \in Pts |-> 0] /\ v = [k \in Virt |-> 0]
  OBVIOUS
<1>2. NoMm = [vmas |-> <<>>, pgdir |-> 0, pd |-> d, pt |-> c, pte |-> v]
  BY <1>1 DEF NoMm
<1>3. <<>> \in Seq(Area)
  OBVIOUS
<1>4. 0 \in Entry /\ d \in [Pds -> Entry] /\ c \in [Pts -> Entry] /\ v \in [Virt -> Entry]
  BY <1>1 DEF Entry
<1>5. NoMm \in MmRec
  BY <1>2, <1>3, <1>4 DEF MmRec
<1>6. NoMm.vmas = <<>> /\ NoMm.pgdir = 0 /\ NoMm.pd = d /\ NoMm.pt = c /\ NoMm.pte = v
  BY <1>2
<1>7. (\A k \in Pds : NoMm.pd[k] = 0) /\ (\A k \in Pts : NoMm.pt[k] = 0) /\ (\A k \in Virt : NoMm.pte[k] = 0)
  BY <1>1, <1>6
<1>8. ASSUME NEW x \in Places PROVE At(NoMm, x) = 0
  <2>1. CASE x = <<"pgdir", 0>>
    BY <2>1, <1>6, AtFields
  <2>2. CASE \E k \in Pds : x = <<"pd", k>>
    BY <2>2, <1>7, AtFields
  <2>3. CASE \E k \in Pts : x = <<"pt", k>>
    BY <2>3, <1>7, AtFields
  <2>4. CASE \E k \in Virt : x = <<"page", k>>
    BY <2>4, <1>7, AtFields
  <2> QED
    BY <2>1, <2>2, <2>3, <2>4, AtFields
<1> QED
  BY <1>5, <1>6, <1>7, <1>8

LEMMA EmptyGood ==
    ASSUME NEW X, NEW f \in SUBSET Frames, f \cap X = {}, 0 \notin X, 0 \notin f,
           NEW r \in {"ok", "E_NO_MEM", "assert", "read"}, NEW t, t = [m |-> NoMm, free |-> f, ret |-> r]
    PROVE  Good(t, X)
<1>1. t \in Work /\ t.m = NoMm /\ t.free = f
  BY NoMmFacts DEF Work
<1>2. Distinct(t.m)
  BY <1>1, NoMmFacts DEF Distinct
<1> QED
  BY <1>1, <1>2, NoMmFacts DEF Good

LEMMA DestroyGood ==
    ASSUME MmAssumption, NEW s, NEW X, 0 \notin X, Good(s, X), NEW u, u = Destroy(s)
    PROVE  Good(u, X) /\ (s.m.pgdir # 0 => u.m = NoMm) /\ (s.m.pgdir = 0 => u = s)
<1>0. s \in Work /\ s.m.pgdir \in Entry
  BY WorkFields DEF Good
<1>1. CASE s.m.pgdir = 0
  <2>1. u = s
    BY <1>1, Zenon DEF Destroy
  <2> QED
    BY <2>1, <1>1
<1>2. CASE s.m.pgdir # 0
  <2> DEFINE n == Len(s.m.vmas)
             w == CHOOSE v : IsExit(v, UnmapAll(s), s.m.vmas, 0, n)
  <2>3. n \in Nat /\ 0 \in Nat /\ 0 <= n
    BY <1>0, WorkFields
  <2>4. \E v : IsExit(v, UnmapAll(s), s.m.vmas, 0, n)
    BY <2>3, ExitExists, Zenon
  <2>6. IsExit(w, UnmapAll(s), s.m.vmas, 0, n)
    BY <2>4, Zenon
  <2>7. u = [w[n] EXCEPT !.m = NoMm, !.free = w[n].free \cup {s.m.pgdir}]
    BY <1>2, Zenon DEF Destroy, IsExit
  <2>8. Released(s, w[n])
    BY <2>6, <1>0, ExitsReleased
  <2>9. PICK s1 : s1 = w[n]
    OBVIOUS
  <2> HIDE DEF w
  <2>10. s1 \in Work /\ s1.free \subseteq s.free \cup Use(s.m)
    BY <2>8, <2>9 DEF Released
  <2>11. PICK F : F = s1.free \cup {s.m.pgdir}
    OBVIOUS
  <2>12. s1 = [m |-> s1.m, free |-> s1.free, ret |-> s1.ret] /\ s1.free \in SUBSET Frames
         /\ s1.ret \in {"ok", "E_NO_MEM", "assert", "read"}
    BY <2>10, WorkFields
  <2>13. u = [m |-> NoMm, free |-> F, ret |-> s1.ret]
    <3>1. PICK e, G, r : e = s1.m /\ G = s1.free /\ r = s1.ret
      OBVIOUS
    <3>2. s1 = [m |-> e, free |-> G, ret |-> r]
      BY <2>12, <3>1
    <3>3. u = [s1 EXCEPT !.m = NoMm, !.free = F]
      BY <2>7, <2>9, <2>11, Zenon
    <3>4. u = [m |-> NoMm, free |-> F, ret |-> r]
      BY <3>2, <3>3
    <3> QED
      BY <3>1, <3>4
  <2>14. s.m.pgdir \in Use(s.m) /\ s.m.pgdir \in Frames
    BY <1>0, <1>2, AtFields DEF Use, Entry
  <2>15. Use(s.m) \cap X = {} /\ s.free \cap X = {}
    BY DEF Good, Use
  <2>16. F \in SUBSET Frames /\ F \cap X = {} /\ 0 \notin F
    BY <2>10, <2>11, <2>12, <2>14, <2>15, MmFacts
  <2>17. Good(u, X)
    BY <2>12, <2>13, <2>16, EmptyGood
  <2> QED
    BY <1>2, <2>13, <2>17
<1> QED
  BY <1>1, <1>2

LEMMA NewMmGood ==
    ASSUME MmAssumption, NEW X, 0 \notin X, NEW f \in SUBSET Frames, f \cap X = {}, NEW s, s = NewMm(f)
    PROVE  /\ Good(s, X) /\ s.ret \in {"ok", "E_NO_MEM"} /\ s.free \subseteq f
           /\ s.ret = "ok" => Whole(s, X, s.m.pgdir) /\ s.m.pgdir # 0
           /\ s.ret # "ok" => s.m = NoMm
<1>0. 0 \notin f
  BY MmFacts
<1>1. CASE f = {}
  <2>1. s = [m |-> NoMm, free |-> f, ret |-> "E_NO_MEM"]
    BY <1>1 DEF NewMm
  <2>2. Good(s, X)
    BY <2>1, <1>0, EmptyGood
  <2> QED
    BY <2>1, <2>2
<1>2. CASE f # {}
  <2>1. PICK b : b = Min(f)
    OBVIOUS
  <2>2. b \in f /\ b \in Frames /\ b # 0
    BY <2>1, <1>2, LowestFree
  <2>3. PICK g : g = [NoMm EXCEPT !.pgdir = b]
    OBVIOUS
  <2>4. s = [m |-> g, free |-> f \ {b}, ret |-> "ok"]
    BY <1>2, <2>1, <2>3 DEF NewMm
  <2>5. g = [vmas |-> NoMm.vmas, pgdir |-> b, pd |-> NoMm.pd, pt |-> NoMm.pt, pte |-> NoMm.pte]
    <3>1. PICK e : e = NoMm
      OBVIOUS
    <3>2. e = [vmas |-> e.vmas, pgdir |-> e.pgdir, pd |-> e.pd, pt |-> e.pt, pte |-> e.pte]
      BY <3>1, NoMmFacts DEF MmRec
    <3>3. g = [e EXCEPT !.pgdir = b]
      BY <2>3, <3>1
    <3>4. g = [vmas |-> e.vmas, pgdir |-> b, pd |-> e.pd, pt |-> e.pt, pte |-> e.pte]
      BY <3>2, <3>3
    <3> QED
      BY <3>1, <3>4
  <2>6. g.vmas = <<>> /\ g.pgdir = b /\ g.pd = NoMm.pd /\ g.pt = NoMm.pt /\ g.pte = NoMm.pte
    BY <2>5, NoMmFacts
  <2>7. g \in MmRec
    BY <2>2, <2>5, NoMmFacts DEF MmRec, Entry
  <2>8. PICK s0 : s0 = [m |-> NoMm, free |-> f, ret |-> "ok"]
    OBVIOUS
  <2>9. Good(s0, X) /\ s0.m = NoMm /\ s0.free = f
    BY <2>8, <1>0, EmptyGood
  <2>10. s \in Work /\ s.m = g /\ s.free = f \ {b} /\ s.ret = "ok"
    BY <2>4, <2>7 DEF Work
  <2>11. PICK x : x = <<"pgdir", 0>>
    OBVIOUS
  <2>12. x \in Places /\ At(g, x) = b
    BY <2>6, <2>11, AtFields
  <2>13. ASSUME NEW y \in Places, y # x PROVE At(g, y) = At(NoMm, y)
    <3>1. CASE \E k \in Pds : y = <<"pd", k>>
      BY <3>1, <2>6, AtFields
    <3>2. CASE \E k \in Pts : y = <<"pt", k>>
      BY <3>2, <2>6, AtFields
    <3>3. CASE \E k \in Virt : y = <<"page", k>>
      BY <3>3, <2>6, AtFields
    <3> QED
      BY <3>1, <3>2, <3>3, <2>11, <2>13, AtFields
  <2>14. Good(s, X)
    BY <2>2, <2>9, <2>10, <2>12, <2>13, Takes
  <2>15. Fits(g) /\ Tables(g)
    BY <2>6, NoMmFacts DEF Fits, Filled, Mapped, Tables
  <2> QED
    BY <2>2, <2>6, <2>10, <2>14, <2>15 DEF Whole
<1> QED
  BY <1>1, <1>2

(* What a call that builds an address space returns.                       *)
Built(t, X) == Good(t, X) /\ (t.ret = "ok" => Full(t.m))

LEMMA WholeBuilt ==
    ASSUME NEW s, NEW X, NEW g, g # 0, Whole(s, X, g)
    PROVE  Built(s, X)
BY DEF Whole, Built, Full

(* bad_mm and exit_mmap of a process whose address space was not finished. *)
LEMMA UndoneBuilt ==
    ASSUME MmAssumption, NEW s, NEW X, 0 \notin X, NEW g, g # 0, Whole(s, X, g), s.ret # "ok",
           NEW t, t = [Destroy(s) EXCEPT !.ret = s.ret]
    PROVE  Built(t, X)
<1>1. PICK u : u = Destroy(s)
  OBVIOUS
<1>2. Good(u, X)
  BY <1>1, DestroyGood DEF Whole
<1>3. s.ret \in {"ok", "E_NO_MEM", "assert", "read"}
  BY WorkFields DEF Whole, Good
<1>4. PICK r \in {"ok", "E_NO_MEM", "assert", "read"} : r = s.ret
  BY <1>3
<1>5. PICK z : z = [u EXCEPT !.ret = r]
  OBVIOUS
<1>6. t = z
  BY <1>1, <1>4, <1>5
<1>7. Good(z, X) /\ z.ret = r
  BY <1>2, <1>5, EndsGood
<1> QED
  BY <1>4, <1>6, <1>7 DEF Built

LEMMA CopyMmBuilt ==
    ASSUME MmAssumption, NEW X, 0 \notin X, NEW f \in SUBSET Frames, f \cap X = {}, NEW from,
           from.vmas \in Seq(Area), Filled(from.vmas, from.pte), NEW bad,
           NEW t, t = CopyMm(f, from, bad)
    PROVE  Built(t, X)
<1>1. PICK s : s = NewMm(f)
  OBVIOUS
<1>2. PICK s1 : s1 = DupMmap(s, from, bad)
  OBVIOUS
<1>3. t = IF s.ret # "ok" THEN s ELSE IF s1.ret \in {"ok", "assert"} THEN s1 ELSE [Destroy(s1) EXCEPT !.ret = s1.ret]
  BY <1>1, <1>2, Zenon DEF CopyMm
<1>4. /\ Good(s, X)
      /\ s.ret = "ok" => Whole(s, X, s.m.pgdir) /\ s.m.pgdir # 0
  BY <1>1, NewMmGood
<1>5. CASE s.ret # "ok"
  <2>1. t = s
    BY <1>3, <1>5, Zenon
  <2> QED
    BY <2>1, <1>4, <1>5 DEF Built
<1>6. CASE s.ret = "ok"
  <2>1. PICK g : g = s.m.pgdir
    OBVIOUS
  <2>2. g # 0 /\ Whole(s, X, g)
    BY <2>1, <1>4, <1>6
  <2>3. Whole(s1, X, g)
    BY <2>2, <1>2, DupMmapGood
  <2>4. CASE s1.ret \in {"ok", "assert"}
    <3>1. t = s1
      BY <1>3, <1>6, <2>4, Zenon
    <3> QED
      BY <3>1, <2>2, <2>3, WholeBuilt
  <2>5. CASE s1.ret \notin {"ok", "assert"}
    <3>1. t = [Destroy(s1) EXCEPT !.ret = s1.ret]
      BY <1>3, <1>6, <2>5, Zenon
    <3>2. s1.ret # "ok"
      BY <2>5
    <3> QED
      BY <3>1, <3>2, <2>2, <2>3, UndoneBuilt
  <2> QED
    BY <2>4, <2>5
<1> QED
  BY <1>5, <1>6

LEMMA LoadIcodeBuilt ==
    ASSUME MmAssumption, NEW X, 0 \notin X, NEW f \in SUBSET Frames, f \cap X = {}, NEW segs \in Seq(Segment),
           NEW bad, NEW at, NEW t, t = LoadIcode(f, segs, bad, at)
    PROVE  Built(t, X)
<1>0. 0 \notin f
  BY MmFacts
<1>1. PICK s : s = NewMm(f)
  OBVIOUS
<1> DEFINE n == Len(segs)
           w == CHOOSE v : IsSegs(v, s, segs, bad, at, 0, n)
<1>3. IsSegs(w, s, segs, bad, at, 0, n)
  <2>1. n \in Nat /\ 0 \in Nat /\ 0 <= n
    OBVIOUS
  <2>2. \E v : IsSegs(v, s, segs, bad, at, 0, n)
    BY <2>1, SegsExists, Zenon
  <2> QED
    BY <2>2, Zenon
<1>4. PICK s1 : s1 = w[n]
  OBVIOUS
<1>5. t = IF bad = "mm" THEN [m |-> NoMm, free |-> f, ret |-> "E_NO_MEM"]
          ELSE IF s.ret # "ok" THEN s
          ELSE IF bad = "symbols" THEN [s EXCEPT !.m = NoMm, !.ret = "E_NO_MEM"]
          ELSE IF s1.ret = "ok" THEN s1
          ELSE [Destroy(s1) EXCEPT !.ret = s1.ret]
  <2>1. t = LET z == NewMm(f)
                y == (CHOOSE v : v = [k \in 0 .. Len(segs) |-> IF k = 0 THEN z ELSE LoadSegment(v[k - 1], segs, k, bad, at)])[Len(segs)]
            IN  IF bad = "mm" THEN [m |-> NoMm, free |-> f, ret |-> "E_NO_MEM"]
                ELSE IF z.ret # "ok" THEN z
                ELSE IF bad = "symbols" THEN [z EXCEPT !.m = NoMm, !.ret = "E_NO_MEM"]
                ELSE IF y.ret = "ok" THEN y
                ELSE [Destroy(y) EXCEPT !.ret = y.ret]
    BY Zenon DEF LoadIcode
  <2>2. w = CHOOSE v : v = [k \in 0 .. Len(segs) |-> IF k = 0 THEN s ELSE LoadSegment(v[k - 1], segs, k, bad, at)]
    BY Zenon DEF IsSegs
  <2>3. s1 = (CHOOSE v : v = [k \in 0 .. Len(segs) |-> IF k = 0 THEN NewMm(f) ELSE LoadSegment(v[k - 1], segs, k, bad, at)])[Len(segs)]
    BY <2>2, <1>1, <1>4, Zenon
  <2> QED
    BY <2>1, <2>3, <1>1, Zenon
<1>6. /\ Good(s, X) /\ s.free \subseteq f
      /\ s.ret = "ok" => Whole(s, X, s.m.pgdir) /\ s.m.pgdir # 0
  BY <1>1, NewMmGood
<1>7. CASE bad = "mm"
  <2>1. t = [m |-> NoMm, free |-> f, ret |-> "E_NO_MEM"]
    BY <1>5, <1>7, Zenon
  <2>2. Good(t, X)
    BY <2>1, <1>0, EmptyGood
  <2> QED
    BY <2>1, <2>2 DEF Built
<1>8. CASE bad # "mm" /\ s.ret # "ok"
  <2>1. t = s
    BY <1>5, <1>8, Zenon
  <2> QED
    BY <2>1, <1>6, <1>8 DEF Built
<1>9. CASE bad = "symbols" /\ s.ret = "ok"
  <2>1. t = [s EXCEPT !.m = NoMm, !.ret = "E_NO_MEM"]
    BY <1>5, <1>9, Zenon
  <2>2. s \in Work /\ s = [m |-> s.m, free |-> s.free, ret |-> s.ret] /\ s.free \in SUBSET Frames /\ s.free \cap X = {}
    BY <1>6, WorkFields DEF Good
  <2>3. t = [m |-> NoMm, free |-> s.free, ret |-> "E_NO_MEM"]
    <3>1. PICK e, G, r : e = s.m /\ G = s.free /\ r = s.ret
      OBVIOUS
    <3>2. s = [m |-> e, free |-> G, ret |-> r]
      BY <2>2, <3>1
    <3>3. t = [m |-> NoMm, free |-> G, ret |-> "E_NO_MEM"]
      BY <2>1, <3>2
    <3> QED
      BY <3>1, <3>3
  <2>4. Good(t, X)
    BY <2>2, <2>3, <1>0, <1>6, EmptyGood
  <2> QED
    BY <2>3, <2>4 DEF Built
<1>10. CASE bad \notin {"mm", "symbols"} /\ s.ret = "ok"
  <2>1. PICK g : g = s.m.pgdir
    OBVIOUS
  <2>2. g # 0 /\ Whole(s, X, g)
    BY <2>1, <1>6, <1>10
  <2>3. Whole(s1, X, g)
    BY <2>2, <1>3, <1>4, SegsGood
  <2>4. CASE s1.ret = "ok"
    <3>1. t = s1
      BY <1>5, <1>10, <2>4
    <3> QED
      BY <3>1, <2>2, <2>3, WholeBuilt
  <2>5. CASE s1.ret # "ok"
    <3>1. t = [Destroy(s1) EXCEPT !.ret = s1.ret]
      BY <1>5, <1>10, <2>5
    <3> QED
      BY <3>1, <2>2, <2>3, <2>5, UndoneBuilt
  <2> QED
    BY <2>4, <2>5
<1> QED
  BY <1>7, <1>8, <1>9, <1>10

---------------------------------------------------------------------------
(* The inductive invariant: an address space that exists is complete and   *)
(* belongs to a live process, and the pages of two processes, and the free *)
(* ones, are apart.                                                        *)
Owns(k, m) == k \cup Use(m)
OtherPages(p) == UNION {Owns(kstack[q], mm[q]) : q \in Task \ {p}}
MmTypeOK ==
    /\ state \in [Task -> {"none", "live", "zombie"}]
    /\ kstack \in [Task -> SUBSET Frames]
    /\ mm \in [Task -> MmRec]
    /\ free \in SUBSET Frames
    /\ panic \in BOOLEAN
RowOK(st, k, m) ==
    /\ st = "none" <=> k = {}
    /\ m.pgdir = 0 => m = NoMm
    /\ m.pgdir # 0 => st = "live" /\ Full(m)
    /\ Distinct(m)
    /\ k \cap Use(m) = {}
MmIInv ==
    /\ MmTypeOK
    /\ \A p \in Task : RowOK(state[p], kstack[p], mm[p])
    /\ \A p \in Task : Owns(kstack[p], mm[p]) \cap free = {}
    /\ \A p, q \in Task : p # q => Owns(kstack[p], mm[p]) \cap Owns(kstack[q], mm[q]) = {}

LEMMA UseFrames == ASSUME MmAssumption, NEW m \in MmRec PROVE Use(m) \subseteq Frames
<1>1. m.pgdir \in Entry /\ m.pd \in [Pds -> Entry] /\ m.pt \in [Pts -> Entry] /\ m.pte \in [Virt -> Entry]
  BY DEF MmRec
<1>2. ASSUME NEW x \in Places PROVE At(m, x) \in Entry
  <2>1. CASE x = <<"pgdir", 0>>
    BY <2>1, <1>1, AtFields
  <2>2. CASE \E k \in Pds : x = <<"pd", k>>
    BY <2>2, <1>1, AtFields
  <2>3. CASE \E k \in Pts : x = <<"pt", k>>
    BY <2>3, <1>1, AtFields
  <2>4. CASE \E k \in Virt : x = <<"page", k>>
    BY <2>4, <1>1, AtFields
  <2> QED
    BY <2>1, <2>2, <2>3, <2>4, AtFields
<1> QED
  BY <1>2 DEF Use, Entry

LEMMA OtherPagesFrames ==
    ASSUME MmAssumption, MmTypeOK, NEW p \in Task
    PROVE  OtherPages(p) \subseteq Frames /\ 0 \notin OtherPages(p)
<1>1. ASSUME NEW q \in Task PROVE Owns(kstack[q], mm[q]) \subseteq Frames
  <2>1. kstack[q] \in SUBSET Frames /\ mm[q] \in MmRec
    BY DEF MmTypeOK
  <2> QED
    BY <2>1, UseFrames DEF Owns
<1> QED
  BY <1>1, MmFacts DEF OtherPages

(* The row of p, as a call finds it.                                       *)
LEMMA RowGood ==
    ASSUME MmAssumption, MmIInv, NEW p \in Task, NEW t, t = [m |-> mm[p], free |-> free, ret |-> "ok"]
    PROVE  /\ Good(t, OtherPages(p) \cup kstack[p]) /\ t.m = mm[p] /\ t.free = free
           /\ kstack[p] \cap OtherPages(p) = {} /\ free \cap OtherPages(p) = {} /\ free \cap kstack[p] = {}
<1>1. mm[p] \in MmRec /\ free \in SUBSET Frames /\ kstack[p] \in SUBSET Frames
  BY DEF MmIInv, MmTypeOK
<1>2. t \in Work /\ t.m = mm[p] /\ t.free = free
  BY <1>1 DEF Work
<1>3. Distinct(mm[p]) /\ kstack[p] \cap Use(mm[p]) = {}
  BY DEF MmIInv, RowOK
<1>4. Owns(kstack[p], mm[p]) \cap OtherPages(p) = {}
  BY DEF MmIInv, OtherPages
<1>5. \A q \in Task : Owns(kstack[q], mm[q]) \cap free = {}
  BY DEF MmIInv
<1>6. free \cap OtherPages(p) = {}
  BY <1>5 DEF OtherPages
<1>7. free \cap kstack[p] = {} /\ free \cap Use(mm[p]) = {}
  BY <1>5 DEF Owns
<1>8. kstack[p] \cap OtherPages(p) = {} /\ Use(mm[p]) \cap OtherPages(p) = {}
  BY <1>4 DEF Owns
<1>9. 0 \notin free /\ 0 \notin kstack[p] /\ 0 \notin OtherPages(p)
  BY <1>1, MmFacts, OtherPagesFrames DEF MmIInv
<1>10. ASSUME NEW x \in Places PROVE At(mm[p], x) \notin free /\ At(mm[p], x) \notin OtherPages(p) \cup kstack[p]
  <2>1. CASE At(mm[p], x) = 0
    BY <2>1, <1>9
  <2>2. CASE At(mm[p], x) # 0
    <3>1. At(mm[p], x) \in Use(mm[p])
      BY <2>2 DEF Use
    <3> QED
      BY <3>1, <1>3, <1>7, <1>8
  <2> QED
    BY <2>1, <2>2
<1>11. Good(t, OtherPages(p) \cup kstack[p])
  BY <1>2, <1>3, <1>6, <1>7, <1>10 DEF Good
<1> QED
  BY <1>2, <1>6, <1>7, <1>8, <1>11

(* A call changes the row of one process.                                  *)
LEMMA MmRowStep ==
    ASSUME MmAssumption, MmIInv, NEW p \in Task, NEW st1 \in {"none", "live", "zombie"}, NEW k1 \in SUBSET Frames,
           NEW t, Good(t, OtherPages(p) \cup k1), k1 \cap OtherPages(p) = {}, RowOK(st1, k1, t.m),
           state' = [state EXCEPT ![p] = st1], kstack' = [kstack EXCEPT ![p] = k1],
           mm' = [mm EXCEPT ![p] = t.m], free' = t.free, panic' \in BOOLEAN
    PROVE  MmIInv'
<1>1. t.m \in MmRec /\ t.free \in SUBSET Frames
  BY WorkFields DEF Good
<1>2. MmTypeOK'
  BY <1>1 DEF MmIInv, MmTypeOK
<1>3. /\ state'[p] = st1 /\ kstack'[p] = k1 /\ mm'[p] = t.m
      /\ \A q \in Task \ {p} : state'[q] = state[q] /\ kstack'[q] = kstack[q] /\ mm'[q] = mm[q]
  BY DEF MmIInv, MmTypeOK
<1>4. \A q \in Task : RowOK(state'[q], kstack'[q], mm'[q])
  BY <1>3 DEF MmIInv
<1>5. PICK O, X : O = Owns(k1, t.m) /\ X = OtherPages(p)
  OBVIOUS
<1>6. O \cap X = {} /\ O \cap free' = {} /\ X \cap free' = {}
  <2>1. Use(t.m) \cap X = {} /\ Use(t.m) \cap t.free = {} /\ X \cap t.free = {} /\ k1 \cap t.free = {}
    BY <1>5 DEF Good, Use
  <2> QED
    BY <2>1, <1>5 DEF Owns
<1>7. \A q \in Task \ {p} : Owns(kstack[q], mm[q]) \subseteq X
  BY <1>5 DEF OtherPages
<1>8. ASSUME NEW q \in Task PROVE Owns(kstack'[q], mm'[q]) \cap free' = {}
  <2>1. CASE q = p
    BY <2>1, <1>3, <1>5, <1>6
  <2>2. CASE q # p
    BY <2>2, <1>3, <1>6, <1>7
  <2> QED
    BY <2>1, <2>2
<1>9. ASSUME NEW q \in Task, NEW r \in Task, q # r
      PROVE  Owns(kstack'[q], mm'[q]) \cap Owns(kstack'[r], mm'[r]) = {}
  <2>1. CASE q = p
    <3>1. Owns(kstack'[q], mm'[q]) = O /\ Owns(kstack'[r], mm'[r]) \subseteq X
      BY <2>1, <1>3, <1>5, <1>7, <1>9
    <3> QED
      BY <3>1, <1>6
  <2>2. CASE r = p
    <3>1. Owns(kstack'[r], mm'[r]) = O /\ Owns(kstack'[q], mm'[q]) \subseteq X
      BY <2>2, <1>3, <1>5, <1>7, <1>9
    <3> QED
      BY <3>1, <1>6
  <2>3. CASE q # p /\ r # p
    BY <2>3, <1>3, <1>9 DEF MmIInv
  <2> QED
    BY <2>1, <2>2, <2>3
<1> QED
  BY <1>2, <1>4, <1>8, <1>9 DEF MmIInv, Owns

LEMMA NoMmRow ==
    ASSUME NEW st, NEW k, st = "none" <=> k = {}
    PROVE  RowOK(st, k, NoMm)
<1>1. Use(NoMm) = {} /\ Distinct(NoMm)
  BY NoMmFacts DEF Use, Distinct
<1> QED
  BY <1>1, NoMmFacts DEF RowOK

(* A finished address space for a live process.                            *)
LEMMA LiveRow ==
    ASSUME NEW t, NEW X, NEW k, Good(t, X \cup k), k # {}, t.m = NoMm \/ Full(t.m)
    PROVE  RowOK("live", k, t.m)
<1>1. CASE t.m = NoMm
  BY <1>1, NoMmRow
<1>2. CASE Full(t.m)
  <2>1. Distinct(t.m) /\ k \cap Use(t.m) = {}
    BY DEF Good, Use
  <2> QED
    BY <1>2, <2>1 DEF RowOK, Full
<1> QED
  BY <1>1, <1>2

LEMMA MmStart == ASSUME MmAssumption, MmInit PROVE MmIInv
<1> PICK K : K = 1 .. KSTACKPAGE
  OBVIOUS
<1>1. K # {} /\ K \subseteq Frames
  <2>1. KSTACKPAGE \in Nat \ {0} /\ NPage \in Nat /\ KSTACKPAGE <= NPage
    BY DEF MmAssumption
  <2>2. 1 \in K
    BY <2>1
  <2> QED
    BY <2>1, <2>2 DEF Frames
<1>2. /\ state = [p \in Task |-> IF p = First THEN "live" ELSE "none"]
      /\ kstack = [p \in Task |-> IF p = First THEN K ELSE {}]
      /\ mm = [p \in Task |-> NoMm] /\ free = Frames \ K /\ panic = FALSE
  BY DEF MmInit
<1>3. MmTypeOK
  BY <1>1, <1>2, NoMmFacts DEF MmTypeOK
<1>4. Use(NoMm) = {}
  BY NoMmFacts DEF Use
<1>5. \A p \in Task : Owns(kstack[p], mm[p]) = (IF p = First THEN K ELSE {})
  BY <1>2, <1>4 DEF Owns
<1>6. \A p \in Task : RowOK(state[p], kstack[p], mm[p])
  BY <1>1, <1>2, NoMmRow
<1> QED
  BY <1>2, <1>3, <1>5, <1>6 DEF MmIInv

LEMMA WaitStep == ASSUME MmAssumption, MmIInv, NEW c \in Task, DoWait(c) PROVE MmIInv'
<1>1. PICK t : t = [m |-> mm[c], free |-> free, ret |-> "ok"]
  OBVIOUS
<1>2. mm[c] = NoMm /\ kstack[c] \in SUBSET Frames /\ free \in SUBSET Frames /\ panic \in BOOLEAN /\ mm \in [Task -> MmRec]
  BY DEF DoWait, MmIInv, RowOK, MmTypeOK
<1>3. PICK F, X : F = free \cup kstack[c] /\ X = OtherPages(c)
  OBVIOUS
<1>4. F \cap X = {} /\ F \in SUBSET Frames /\ 0 \notin X /\ 0 \notin F
  BY <1>1, <1>2, <1>3, RowGood, OtherPagesFrames, MmFacts DEF MmIInv
<1>5. PICK u : u = [m |-> NoMm, free |-> F, ret |-> "ok"]
  OBVIOUS
<1>6. Good(u, X) /\ u.m = NoMm /\ u.free = F
  BY <1>4, <1>5, EmptyGood
<1>7. X \cup {} = X
  OBVIOUS
<1>8. mm' = [mm EXCEPT ![c] = u.m]
  BY <1>2, <1>6 DEF DoWait
<1>9. state' = [state EXCEPT ![c] = "none"] /\ kstack' = [kstack EXCEPT ![c] = {}] /\ free' = u.free /\ panic' \in BOOLEAN
  BY <1>2, <1>3, <1>6 DEF DoWait
<1>10. RowOK("none", {}, u.m) /\ {} \cap X = {} /\ {} \in SUBSET Frames /\ Good(u, X \cup {})
  <2>1. RowOK("none", {}, NoMm)
    BY NoMmRow
  <2> QED
    BY <2>1, <1>6, <1>7
<1> QED
  BY <1>3, <1>8, <1>9, <1>10, MmRowStep

LEMMA ExitStep == ASSUME MmAssumption, MmIInv, NEW p \in Task, DoExit(p) PROVE MmIInv'
<1>1. PICK t : t = [m |-> mm[p], free |-> free, ret |-> "ok"]
  OBVIOUS
<1>2. PICK k, X, u : k = kstack[p] /\ X = OtherPages(p) /\ u = Destroy(t)
  OBVIOUS
<1>3. Good(t, X \cup k) /\ k \cap X = {} /\ k \in SUBSET Frames /\ t.m = mm[p]
  BY <1>1, <1>2, RowGood DEF MmIInv, MmTypeOK
<1>4. 0 \notin X \cup k
  BY <1>2, <1>3, OtherPagesFrames, MmFacts DEF MmIInv
<1>5. Good(u, X \cup k) /\ u.m = NoMm
  <2>1. t.m.pgdir = 0 => t.m = NoMm
    BY <1>3 DEF MmIInv, RowOK
  <2> QED
    BY <2>1, <1>2, <1>3, <1>4, DestroyGood
<1>6. /\ state' = [state EXCEPT ![p] = "zombie"] /\ mm' = [mm EXCEPT ![p] = u.m] /\ free' = u.free
      /\ kstack' = [kstack EXCEPT ![p] = k] /\ panic' \in BOOLEAN
  BY <1>1, <1>2, <1>5 DEF DoExit, MmIInv, MmTypeOK
<1>7. RowOK("zombie", k, u.m)
  <2>1. k # {}
    BY <1>2 DEF DoExit, MmIInv, RowOK
  <2> QED
    BY <2>1, <1>5, NoMmRow
<1> QED
  BY <1>2, <1>3, <1>5, <1>6, <1>7, MmRowStep

LEMMA ExecveStep ==
    ASSUME MmAssumption, MmIInv, NEW p \in Task, NEW segs \in Programs, NEW bad, NEW at, DoExecve(p, segs, bad, at)
    PROVE  MmIInv'
<1>1. PICK t : t = [m |-> mm[p], free |-> free, ret |-> "ok"]
  OBVIOUS
<1>2. PICK k, X, u : k = kstack[p] /\ X = OtherPages(p) /\ u = Destroy(t)
  OBVIOUS
<1>3. Good(t, X \cup k) /\ k \cap X = {} /\ k \in SUBSET Frames
  BY <1>1, <1>2, RowGood DEF MmIInv, MmTypeOK
<1>4. 0 \notin X \cup k
  BY <1>2, <1>3, OtherPagesFrames, MmFacts DEF MmIInv
<1>5. Good(u, X \cup k)
  BY <1>2, <1>3, <1>4, DestroyGood
<1>6. PICK f, s : f = u.free /\ s = LoadIcode(f, segs, bad, at)
  OBVIOUS
<1>7. f \in SUBSET Frames /\ f \cap (X \cup k) = {}
  BY <1>5, <1>6, WorkFields DEF Good
<1>8. segs \in Seq(Segment)
  BY DEF MmAssumption
<1>9. Built(s, X \cup k)
  BY <1>4, <1>6, <1>7, <1>8, LoadIcodeBuilt
<1>10. /\ mm' = [mm EXCEPT ![p] = IF s.ret = "ok" THEN s.m ELSE NoMm] /\ free' = s.free
       /\ state' = [state EXCEPT ![p] = IF s.ret = "ok" THEN "live" ELSE "zombie"]
       /\ state[p] = "live" /\ kstack' = kstack /\ panic' = panic
  BY <1>1, <1>2, <1>6, Zenon DEF DoExecve
<1>11. k # {}
  BY <1>2, <1>10 DEF MmIInv, RowOK
<1>12. kstack' = [kstack EXCEPT ![p] = k] /\ panic' \in BOOLEAN
  BY <1>2, <1>10 DEF MmIInv, MmTypeOK
<1>13. CASE s.ret = "ok"
  <2>1. Good(s, X \cup k) /\ Full(s.m)
    BY <1>9, <1>13 DEF Built
  <2>2. RowOK("live", k, s.m)
    BY <2>1, <1>11, LiveRow
  <2>3. mm' = [mm EXCEPT ![p] = s.m] /\ state' = [state EXCEPT ![p] = "live"] /\ free' = s.free
    BY <1>10, <1>13
  <2> QED
    BY <2>1, <2>2, <2>3, <1>2, <1>3, <1>12, MmRowStep
<1>14. CASE s.ret # "ok"
  <2>1. PICK F : F = s.free
    OBVIOUS
  <2>2. F \in SUBSET Frames /\ F \cap (X \cup k) = {} /\ 0 \notin F
    BY <2>1, <1>9, WorkFields, MmFacts DEF Built, Good
  <2>3. PICK z : z = [m |-> NoMm, free |-> F, ret |-> "ok"]
    OBVIOUS
  <2>4. Good(z, X \cup k) /\ z.m = NoMm /\ z.free = F
    BY <2>2, <2>3, <1>4, EmptyGood
  <2>5. RowOK("zombie", k, z.m)
    BY <2>4, <1>11, NoMmRow
  <2>6. mm' = [mm EXCEPT ![p] = z.m] /\ state' = [state EXCEPT ![p] = "zombie"] /\ free' = z.free
    BY <2>1, <2>4, <1>10, <1>14
  <2> QED
    BY <2>4, <2>5, <2>6, <1>2, <1>3, <1>12, MmRowStep
<1> QED
  BY <1>13, <1>14

(* What dup_mmap finds in an address space that is copied.                 *)
LEMMA FromFull ==
    ASSUME NEW m \in MmRec, Full(m)
    PROVE  m.vmas \in Seq(Area) /\ Filled(m.vmas, m.pte)
BY DEF MmRec, Full, Fits

(* alloc_pages takes a run of free pages.                                  *)
Run(b) == b .. b + KSTACKPAGE - 1
RunsOf(F) == {b \in F : Run(b) \subseteq F}

LEMMA RunFree ==
    ASSUME MmAssumption, NEW F \in SUBSET Frames, RunsOf(F) # {}
    PROVE  Run(Min(RunsOf(F))) \subseteq F /\ Run(Min(RunsOf(F))) # {}
<1>1. PICK b : b = Min(RunsOf(F))
  OBVIOUS
<1>2. RunsOf(F) \in SUBSET Frames
  BY DEF RunsOf
<1>3. b \in RunsOf(F) /\ b \in Frames
  BY <1>1, <1>2, LowestFree
<1>4. b \in Nat /\ KSTACKPAGE \in Nat \ {0}
  BY <1>3, MmFacts DEF MmAssumption
<1>5. Run(b) \subseteq F
  BY <1>3 DEF RunsOf
<1>6. b \in Run(b)
  BY <1>4 DEF Run
<1> QED
  BY <1>1, <1>5, <1>6

LEMMA ForkStep ==
    ASSUME MmAssumption, MmIInv, NEW p \in Task, NEW c \in Task, NEW bad, NEW at, DoFork(p, c, bad, at)
    PROVE  MmIInv'
<1> DEFINE RunsDef == {b \in free : b .. b + KSTACKPAGE - 1 \subseteq free}
           StackDef == Min(RunsDef) .. Min(RunsDef) + KSTACKPAGE - 1
           CopyDef == IF mm[p].pgdir = 0 THEN [m |-> NoMm, free |-> free \ StackDef, ret |-> "ok"]
                      ELSE IF bad = "mm" THEN [m |-> NoMm, free |-> free \ StackDef, ret |-> "E_NO_MEM"]
                      ELSE CopyMm(free \ StackDef, mm[p], IF bad = "vma" THEN at ELSE Len(mm[p].vmas))
           OkDef == RunsDef # {} /\ bad # "proc" /\ CopyDef.ret = "ok" /\ bad # "files"
<1>1. /\ state[p] = "live" /\ state[c] = "none"
      /\ panic' = (bad # "proc" /\ RunsDef # {} /\ CopyDef.ret = "assert")
      /\ state' = [state EXCEPT ![c] = IF OkDef THEN "live" ELSE "none"]
      /\ kstack' = [kstack EXCEPT ![c] = IF OkDef THEN StackDef ELSE {}]
      /\ mm' = [mm EXCEPT ![c] = IF OkDef THEN CopyDef.m ELSE NoMm]
      /\ free' = IF bad = "proc" \/ RunsDef = {} \/ panic' THEN free
                 ELSE IF OkDef THEN CopyDef.free ELSE ForkUndo(CopyDef, StackDef).free
  BY Zenon DEF DoFork
<1>2. PICK runs, ks, n, f, s : /\ runs = RunsDef /\ ks = StackDef /\ s = CopyDef /\ f = free \ ks
                               /\ n = IF bad = "vma" THEN at ELSE Len(mm[p].vmas)
  OBVIOUS
<1>3. s = IF mm[p].pgdir = 0 THEN [m |-> NoMm, free |-> f, ret |-> "ok"]
          ELSE IF bad = "mm" THEN [m |-> NoMm, free |-> f, ret |-> "E_NO_MEM"]
          ELSE CopyMm(f, mm[p], n)
  BY <1>2, Zenon
<1>4. runs = {b \in free : b .. b + KSTACKPAGE - 1 \subseteq free} /\ ks = Min(runs) .. Min(runs) + KSTACKPAGE - 1
  BY <1>2, Zenon
<1>5. PICK ok : ok = OkDef
  OBVIOUS
<1>6. /\ panic' = (bad # "proc" /\ runs # {} /\ s.ret = "assert")
      /\ state' = [state EXCEPT ![c] = IF ok THEN "live" ELSE "none"]
      /\ kstack' = [kstack EXCEPT ![c] = IF ok THEN ks ELSE {}]
      /\ mm' = [mm EXCEPT ![c] = IF ok THEN s.m ELSE NoMm]
      /\ free' = IF bad = "proc" \/ runs = {} \/ panic' THEN free
                 ELSE IF ok THEN s.free ELSE ForkUndo(s, ks).free
  BY <1>1, <1>2, <1>5, Zenon
<1>7. ok <=> runs # {} /\ bad # "proc" /\ s.ret = "ok" /\ bad # "files"
  BY <1>2, <1>5, Zenon
<1> HIDE DEF RunsDef, StackDef, CopyDef, OkDef
<1>8. PICK X : X = OtherPages(c)
  OBVIOUS
<1>9. free \in SUBSET Frames /\ free \cap X = {} /\ 0 \notin X /\ 0 \notin free /\ panic' \in BOOLEAN
  <2>1. PICK t : t = [m |-> mm[c], free |-> free, ret |-> "ok"]
    OBVIOUS
  <2>2. free \cap X = {}
    BY <2>1, <1>8, RowGood
  <2>3. panic' \in BOOLEAN
    BY <1>6
  <2> QED
    BY <2>2, <2>3, <1>8, OtherPagesFrames, MmFacts DEF MmIInv, MmTypeOK
<1>10. X \cup {} = X /\ RowOK("none", {}, NoMm) /\ {} \cap X = {} /\ {} \in SUBSET Frames
  BY NoMmRow
<1>11. ASSUME NEW F \in SUBSET Frames, F \cap X = {}, ~ ok, free' = F PROVE MmIInv'
  <2>1. PICK z : z = [m |-> NoMm, free |-> F, ret |-> "ok"]
    OBVIOUS
  <2>2. 0 \notin F
    BY MmFacts
  <2>3. Good(z, X) /\ z.m = NoMm /\ z.free = F
    BY <2>1, <2>2, <1>9, <1>11, EmptyGood
  <2>4. state' = [state EXCEPT ![c] = "none"] /\ kstack' = [kstack EXCEPT ![c] = {}] /\ mm' = [mm EXCEPT ![c] = z.m]
    BY <2>3, <1>6, <1>11
  <2> QED
    BY <2>3, <2>4, <1>8, <1>9, <1>10, <1>11, MmRowStep
<1>12. CASE bad = "proc" \/ runs = {} \/ panic'
  <2>1. ~ ok /\ free' = free
    BY <1>6, <1>7, <1>12
  <2> QED
    BY <2>1, <1>9, <1>11
<1>13. CASE ~(bad = "proc" \/ runs = {} \/ panic')
  <2>1. ks \subseteq free /\ ks # {}
    <3>1. runs # {}
      BY <1>13
    <3>2. runs = RunsOf(free) /\ ks = Run(Min(runs))
      BY <1>4, Zenon DEF RunsOf, Run
    <3>3. PICK F : F = free
      OBVIOUS
    <3>4. F \in SUBSET Frames /\ RunsOf(F) # {} /\ ks = Run(Min(RunsOf(F)))
      BY <3>1, <3>2, <3>3, <1>9
    <3>5. ks \subseteq F /\ ks # {}
      BY <3>4, RunFree
    <3> QED
      BY <3>3, <3>5
  <2>2. f \in SUBSET Frames /\ f \cap (X \cup ks) = {} /\ ks \cap X = {} /\ 0 \notin X \cup ks /\ 0 \notin f /\ ks \in SUBSET Frames
    BY <2>1, <1>2, <1>9
  <2>3. Good(s, X \cup ks) /\ (s.ret = "ok" => s.m = NoMm \/ Full(s.m))
    <3>1. CASE mm[p].pgdir = 0
      <4>1. s = [m |-> NoMm, free |-> f, ret |-> "ok"]
        BY <1>3, <3>1, Zenon
      <4> QED
        BY <4>1, <2>2, EmptyGood
    <3>2. CASE mm[p].pgdir # 0 /\ bad = "mm"
      <4>1. s = [m |-> NoMm, free |-> f, ret |-> "E_NO_MEM"]
        BY <1>3, <3>2, Zenon
      <4> QED
        BY <4>1, <2>2, EmptyGood
    <3>3. CASE mm[p].pgdir # 0 /\ bad # "mm"
      <4>1. PICK from : from = mm[p]
        OBVIOUS
      <4>2. from \in MmRec /\ Full(from)
        BY <4>1, <3>3 DEF MmIInv, MmTypeOK, RowOK
      <4>3. s = CopyMm(f, from, n)
        BY <4>1, <1>3, <3>3, Zenon
      <4>4. Built(s, X \cup ks)
        BY <4>2, <4>3, <2>2, FromFull, CopyMmBuilt
      <4> QED
        BY <4>4 DEF Built
    <3> QED
      BY <3>1, <3>2, <3>3
  <2>4. CASE ok
    <3>1. RowOK("live", ks, s.m)
      BY <2>1, <2>3, <2>4, <1>7, LiveRow
    <3>2. /\ state' = [state EXCEPT ![c] = "live"] /\ kstack' = [kstack EXCEPT ![c] = ks]
          /\ mm' = [mm EXCEPT ![c] = s.m] /\ free' = s.free
      BY <2>4, <1>6, <1>13
    <3> QED
      BY <3>1, <3>2, <2>2, <2>3, <1>8, <1>9, MmRowStep
  <2>5. CASE ~ ok
    <3>1. PICK u, F : u = Destroy(s) /\ F = u.free \cup ks
      OBVIOUS
    <3>2. Good(u, X \cup ks)
      BY <3>1, <2>2, <2>3, DestroyGood
    <3>3. F \in SUBSET Frames /\ F \cap X = {} /\ u = [m |-> u.m, free |-> u.free, ret |-> u.ret]
      BY <3>1, <3>2, <2>2, WorkFields DEF Good
    <3>4. ForkUndo(s, ks).free = F
      <4>1. PICK e, G, r : e = u.m /\ G = u.free /\ r = u.ret
        OBVIOUS
      <4>2. u = [m |-> e, free |-> G, ret |-> r]
        BY <3>3, <4>1
      <4>3. [u EXCEPT !.free = @ \cup ks].free = G \cup ks
        BY <4>2
      <4>4. ForkUndo(s, ks) = [u EXCEPT !.free = @ \cup ks]
        BY <3>1, Zenon DEF ForkUndo
      <4> QED
        BY <4>1, <4>3, <4>4, <3>1
    <3>5. free' = F
      BY <3>4, <2>5, <1>6, <1>13
    <3> QED
      BY <3>3, <3>5, <2>5, <1>11
  <2> QED
    BY <2>4, <2>5
<1> QED
  BY <1>12, <1>13

LEMMA MmStep == ASSUME MmAssumption, MmIInv, [MmNext]_mm_vars PROVE MmIInv'
<1>1. CASE MmNext
  <2>1. PICK p \in Task :
        \/ \E c \in Task : \E bad, at : DoFork(p, c, bad, at)
        \/ \E segs \in Programs : \E bad, at : DoExecve(p, segs, bad, at)
        \/ DoExit(p)
        \/ DoWait(p)
    BY <1>1, Zenon DEF MmNext
  <2>2. CASE \E c \in Task : \E bad, at : DoFork(p, c, bad, at)
    BY <2>2, ForkStep
  <2>3. CASE \E segs \in Programs : \E bad, at : DoExecve(p, segs, bad, at)
    BY <2>3, ExecveStep
  <2> QED
    BY <2>1, <2>2, <2>3, ExitStep, WaitStep
<1>2. CASE UNCHANGED mm_vars
  BY <1>2 DEF mm_vars, MmIInv, MmTypeOK, RowOK, Owns
<1> QED
  BY <1>1, <1>2

---------------------------------------------------------------------------
(* The invariant in the words of MmInv: a use is a place of a process.     *)
StackUse(u, p) == \E k \in kstack[p] : u = <<p, "kstack", k, k>>
PlaceUse(u, p) == \E x \in Places : At(mm[p], x) # 0 /\ u = <<p, x[1], x[2], At(mm[p], x)>>

LEMMA UsesAre == ASSUME NEW u \in Uses PROVE \E p \in Task : StackUse(u, p) \/ PlaceUse(u, p)
<1>1. PICK p \in Task :
        \/ \E k \in kstack[p] : u = <<p, "kstack", k, k>>
        \/ mm[p].pgdir # 0 /\ u = <<p, "pgdir", 0, mm[p].pgdir>>
        \/ \E d \in Pds : mm[p].pd[d] # 0 /\ u = <<p, "pd", d, mm[p].pd[d]>>
        \/ \E c \in Pts : mm[p].pt[c] # 0 /\ u = <<p, "pt", c, mm[p].pt[c]>>
        \/ \E v \in Virt : mm[p].pte[v] # 0 /\ u = <<p, "page", v, mm[p].pte[v]>>
  BY DEF Uses
<1> PICK m : m = mm[p]
  OBVIOUS
<1>2. ASSUME NEW x \in Places, At(m, x) # 0, u = <<p, x[1], x[2], At(m, x)>> PROVE PlaceUse(u, p)
  BY <1>2 DEF PlaceUse
<1>3. CASE \E k \in kstack[p] : u = <<p, "kstack", k, k>>
  BY <1>3 DEF StackUse
<1>4. CASE m.pgdir # 0 /\ u = <<p, "pgdir", 0, m.pgdir>>
  <2>1. PICK x : x = <<"pgdir", 0>>
    OBVIOUS
  <2>2. x \in Places /\ At(m, x) = m.pgdir /\ x[1] = "pgdir" /\ x[2] = 0
    BY <2>1, AtFields
  <2> QED
    BY <2>2, <1>2, <1>4
<1>5. CASE \E d \in Pds : m.pd[d] # 0 /\ u = <<p, "pd", d, m.pd[d]>>
  <2>1. PICK d \in Pds : m.pd[d] # 0 /\ u = <<p, "pd", d, m.pd[d]>>
    BY <1>5
  <2>2. PICK x : x = <<"pd", d>>
    OBVIOUS
  <2>3. x \in Places /\ At(m, x) = m.pd[d] /\ x[1] = "pd" /\ x[2] = d
    BY <2>2, AtFields
  <2> QED
    BY <2>1, <2>3, <1>2
<1>6. CASE \E c \in Pts : m.pt[c] # 0 /\ u = <<p, "pt", c, m.pt[c]>>
  <2>1. PICK c \in Pts : m.pt[c] # 0 /\ u = <<p, "pt", c, m.pt[c]>>
    BY <1>6
  <2>2. PICK x : x = <<"pt", c>>
    OBVIOUS
  <2>3. x \in Places /\ At(m, x) = m.pt[c] /\ x[1] = "pt" /\ x[2] = c
    BY <2>2, AtFields
  <2> QED
    BY <2>1, <2>3, <1>2
<1>7. CASE \E v \in Virt : m.pte[v] # 0 /\ u = <<p, "page", v, m.pte[v]>>
  <2>1. PICK v \in Virt : m.pte[v] # 0 /\ u = <<p, "page", v, m.pte[v]>>
    BY <1>7
  <2>2. PICK x : x = <<"page", v>>
    OBVIOUS
  <2>3. x \in Places /\ At(m, x) = m.pte[v] /\ x[1] = "page" /\ x[2] = v
    BY <2>2, AtFields
  <2> QED
    BY <2>1, <2>3, <1>2
<1> QED
  BY <1>1, <1>3, <1>4, <1>5, <1>6, <1>7

(* Two uses of a page are one.                                             *)
LEMMA OneUse ==
    ASSUME MmIInv, NEW u \in Uses, NEW w \in Uses, u[4] = w[4]
    PROVE  u = w
<1>1. PICK p \in Task : StackUse(u, p) \/ PlaceUse(u, p)
  BY UsesAre
<1>2. PICK q \in Task : StackUse(w, q) \/ PlaceUse(w, q)
  BY UsesAre
<1>3. ASSUME NEW z, NEW r \in Task
      PROVE  /\ StackUse(z, r) => z[4] \in kstack[r]
             /\ PlaceUse(z, r) => z[4] \in Use(mm[r])
  BY DEF StackUse, PlaceUse, Use
<1>4. p = q
  <2>1. u[4] \in Owns(kstack[p], mm[p]) /\ w[4] \in Owns(kstack[q], mm[q])
    BY <1>1, <1>2, <1>3 DEF Owns
  <2> QED
    BY <2>1 DEF MmIInv
<1>5. kstack[p] \cap Use(mm[p]) = {} /\ Distinct(mm[p])
  BY DEF MmIInv, RowOK
<1>6. CASE StackUse(u, p) /\ StackUse(w, p)
  BY <1>6 DEF StackUse
<1>7. CASE PlaceUse(u, p) /\ PlaceUse(w, p)
  <2>1. PICK x \in Places : At(mm[p], x) # 0 /\ u = <<p, x[1], x[2], At(mm[p], x)>>
    BY <1>7 DEF PlaceUse
  <2>2. PICK y \in Places : At(mm[p], y) # 0 /\ w = <<p, y[1], y[2], At(mm[p], y)>>
    BY <1>7 DEF PlaceUse
  <2>3. x = y
    BY <2>1, <2>2, <1>5 DEF Distinct
  <2> QED
    BY <2>1, <2>2, <2>3
<1> QED
  BY <1>1, <1>2, <1>3, <1>4, <1>5, <1>6, <1>7

LEMMA MmSafe == ASSUME MmAssumption, MmIInv PROVE MmInv
<1>1. ASSUME NEW u \in Uses PROVE u[4] \in Frames \ free
  <2>1. PICK p \in Task : StackUse(u, p) \/ PlaceUse(u, p)
    BY UsesAre
  <2>2. u[4] \in Owns(kstack[p], mm[p])
    BY <2>1 DEF StackUse, PlaceUse, Use, Owns
  <2>3. Owns(kstack[p], mm[p]) \cap free = {} /\ kstack[p] \in SUBSET Frames /\ mm[p] \in MmRec
    BY DEF MmIInv, MmTypeOK
  <2> QED
    BY <2>2, <2>3, UseFrames DEF Owns
<1>2. Used \cap free = {} /\ Used \subseteq Frames
  BY <1>1 DEF Used
<1>3. Cardinality(Used) = Cardinality(Uses)
  <2>1. PICK A, B : A = Uses /\ B = Used
    OBVIOUS
  <2>2. IsFiniteSet(B)
    BY <2>1, <1>2, MmFacts, FS_Subset
  <2>3. PICK h : h = [u \in A |-> u[4]]
    OBVIOUS
  <2>4. h \in [A -> B] /\ (\A u, w \in A : h[u] = h[w] => u = w) /\ (\A b \in B : \E u \in A : h[u] = b)
    BY <2>1, <2>3, OneUse DEF Used
  <2>5. h \in Injection(A, B) /\ h \in Surjection(A, B)
    BY <2>4 DEF Injection, IsInjective, Surjection
  <2>6. Cardinality(A) = Cardinality(B)
    BY <2>2, <2>5, FS_Injection
  <2> QED
    BY <2>1, <2>6
<1>4. ASSUME NEW p \in Task PROVE (state[p] = "none") = (kstack[p] = {})
  BY DEF MmIInv, RowOK
<1>5. ASSUME NEW p \in Task, mm[p].pgdir # 0
      PROVE  /\ state[p] = "live"
             /\ \A v \in Virt : mm[p].pte[v] # 0 => \E i \in DOMAIN mm[p].vmas : v \in Pages(mm[p].vmas[i])
             /\ \A i \in DOMAIN mm[p].vmas : \A v \in Pages(mm[p].vmas[i]) :
                  Required(v, mm[p].vmas[i]) => mm[p].pte[v] # 0
             /\ \A v \in Virt : mm[p].pte[v] # 0 => mm[p].pt[Pt(v)] # 0 /\ mm[p].pd[Pd(Pt(v))] # 0
  <2>1. state[p] = "live" /\ Full(mm[p])
    BY <1>5 DEF MmIInv, RowOK
  <2>2. Fits(mm[p]) /\ Tables(mm[p])
    BY <2>1 DEF Full
  <2>3. ASSUME NEW v \in Virt, mm[p].pte[v] # 0
        PROVE  \E i \in DOMAIN mm[p].vmas : v \in Pages(mm[p].vmas[i])
    BY <2>2, <2>3 DEF Fits, Mapped, AreaPages
  <2>4. Filled(mm[p].vmas, mm[p].pte)
    BY <2>2 DEF Fits
  <2> QED
    BY <2>1, <2>2, <2>3, <2>4 DEF Tables, Filled
<1> QED
  BY <1>2, <1>3, <1>4, <1>5 DEF MmInv

(* do_fork, do_execve, do_exit and do_wait (proc.c, pmm.c, vmm.c): for any *)
(* number of processes, pages and levels of failure, no page has two uses  *)
(* or is free while it is used, a stack belongs to a process that exists,  *)
(* and the pages of an address space lie in its areas, with the tables     *)
(* above them, of which only the last page may be missing, and not when it *)
(* is the first.                                                           *)
THEOREM MmCorrect == ASSUME MmAssumption PROVE MmSpec => []MmInv
<1>1. MmInit => MmIInv
  BY MmStart
<1>2. MmIInv /\ [MmNext]_mm_vars => MmIInv'
  BY MmStep
<1>3. MmIInv => MmInv
  BY MmSafe
<1> QED
  BY <1>1, <1>2, <1>3, PTL DEF MmSpec

=============================================================================
