--------------------------- MODULE AllocProofs ---------------------------
(***************************************************************************)
(* Proofs about the free list of first fit and best fit and about kmalloc: *)
(* for any number of pages, any requests and any order of calls.  The      *)
(* pointers of the free list form a sorted ring of maximal blocks, as long *)
(* as callers do not hold the last page, and the managers implement        *)
(* PageSpec; the ring of kmalloc stays sorted and merged, and no unit of   *)
(* memory is lost or handed out twice.                                     *)
(***************************************************************************)
EXTENDS FreeList, Slob, FiniteSetTheorems, WellFoundedInduction, TLAPS

---------------------------------------------------------------------------
(* A set of numbers has a least one.                                       *)
LEMMA Least ==
    ASSUME NEW S \in SUBSET Nat, S # {}
    PROVE  \E i \in S : \A j \in S : i <= j
<1>1. IsWellFoundedOn({x \in Nat \X Nat : x[1] < x[2]}, Nat)
  BY NatLessThanWellFounded, Zenon DEF OpToRel
<1>2. PICK i \in S : \A j \in S : <<j, i>> \notin {x \in Nat \X Nat : x[1] < x[2]}
  BY <1>1, WFMin
<1>3. ASSUME NEW j \in S PROVE i <= j
  <2>1. i \in Nat /\ j \in Nat /\ <<j, i>> \in Nat \X Nat
    OBVIOUS
  <2>2. ~(<<j, i>>[1] < <<j, i>>[2])
    BY <1>2, <2>1
  <2> QED
    BY <2>1, <2>2
<1> QED
  BY <1>3

(* The head is the number after the last page.                             *)
LEMMA NodeFacts == N \in Nat \ {0} =>
    /\ Page \subseteq Nat /\ N \notin Page /\ Node = Page \cup {N}
    /\ \A p \in Page : p < N
    /\ \A p \in Nat : p < N => p \in Page
<1> SUFFICES ASSUME N \in Nat \ {0} PROVE Node = Page \cup {N}
  BY DEF Page
<1>1. \A x : x \in 0 .. N <=> x \in 0 .. N - 1 \/ x = N
  OBVIOUS
<1> QED
  BY <1>1 DEF Page, Node

(* The links of a list whose blocks are S: nx leads from each to the next  *)
(* larger one, from the head to the least and from the largest to the head *)
(* (which is N), and pv is the way back.                                   *)
Ring(nx, pv, S) ==
    /\ S \subseteq Page /\ nx \in [Node -> Node] /\ pv \in [Node -> Node]
    /\ \A l \in S \cup {N} : /\ nx[l] \in S \cup {N} /\ pv[l] \in S \cup {N}
                             /\ pv[nx[l]] = l /\ nx[pv[l]] = l
    /\ \A l \in S : l < nx[l] /\ \A q \in S : q <= l \/ nx[l] <= q
    /\ \A q \in S : nx[N] <= q

(* The links after list_add of elm between p and n, and after list_del.    *)
Inserted(nx, pv, elm, p, n, nx2, pv2) ==
    /\ nx2 \in [Node -> Node] /\ pv2 \in [Node -> Node]
    /\ \A l \in Node : nx2[l] = IF l = elm THEN n ELSE IF l = p THEN elm ELSE nx[l]
    /\ \A l \in Node : pv2[l] = IF l = elm THEN p ELSE IF l = n THEN elm ELSE pv[l]
Removed(nx, pv, elm, nx2, pv2) ==
    /\ nx2 \in [Node -> Node] /\ pv2 \in [Node -> Node]
    /\ \A l \in Node : nx2[l] = IF l = pv[elm] THEN nx[elm] ELSE nx[l]
    /\ \A l \in Node : pv2[l] = IF l = nx[elm] THEN pv[elm] ELSE pv[l]

(* list_add_before of a block that belongs there.                          *)
LEMMA RingInsert ==
    ASSUME N \in Nat \ {0}, NEW nx, NEW pv, NEW S, Ring(nx, pv, S),
           NEW base \in Page, base \notin S, NEW at \in S \cup {N}, base < at, pv[at] = N \/ pv[at] < base,
           NEW nx2, NEW pv2, Inserted(nx, pv, base, pv[at], at, nx2, pv2)
    PROVE  Ring(nx2, pv2, S \cup {base})
<1> USE DEF Inserted
<1> DEFINE T == S \cup {base}
<1>0. S \subseteq Page /\ Page \subseteq Nat /\ Node = Page \cup {N} /\ N \notin Page /\ base \in Nat /\ at \in Node /\ base # N
      /\ (\A x \in S \cup {N} : x \in Nat /\ x <= N) /\ N \notin S
  BY NodeFacts DEF Ring
<1>1. pv[at] \in S \cup {N} /\ nx[pv[at]] = at /\ pv[at] # base
  BY <1>0 DEF Ring
<1>2. \A l \in T \cup {N} : /\ nx2[l] \in T \cup {N} /\ pv2[l] \in T \cup {N}
                            /\ pv2[nx2[l]] = l /\ nx2[pv2[l]] = l
  <2> SUFFICES ASSUME NEW l \in T \cup {N}
               PROVE  /\ nx2[l] \in T \cup {N} /\ pv2[l] \in T \cup {N}
                      /\ pv2[nx2[l]] = l /\ nx2[pv2[l]] = l
    OBVIOUS
  <2>1. CASE l = base
    BY <2>1, <1>0, <1>1
  <2>2. CASE l # base
    <3>1. l \in S \cup {N} /\ l \in Node
      BY <2>2, <1>0
    <3>2. nx[l] \in S \cup {N} /\ pv[l] \in S \cup {N} /\ pv[nx[l]] = l /\ nx[pv[l]] = l
      BY <3>1 DEF Ring
    <3>3. nx2[l] \in T \cup {N} /\ pv2[nx2[l]] = l
      <4>1. CASE l = pv[at]
        BY <4>1, <3>1, <1>0, <1>1, <2>2
      <4>2. CASE l # pv[at]
        <5>1. nx2[l] = nx[l] /\ nx[l] # at /\ nx[l] # base /\ nx[l] \in Node
          BY <4>2, <3>1, <3>2, <2>2, <1>0
        <5> QED
          BY <5>1, <3>2
      <4> QED
        BY <4>1, <4>2
    <3>4. pv2[l] \in T \cup {N} /\ nx2[pv2[l]] = l
      <4>1. CASE l = at
        BY <4>1, <3>1, <1>0, <1>1, <2>2
      <4>2. CASE l # at
        <5>1. pv2[l] = pv[l] /\ pv[l] # pv[at] /\ pv[l] # base /\ pv[l] \in Node
          BY <4>2, <3>1, <3>2, <2>2, <1>0, <1>1
        <5> QED
          BY <5>1, <3>2
      <4> QED
        BY <4>1, <4>2
    <3> QED
      BY <3>3, <3>4
  <2> QED
    BY <2>1, <2>2
<1>3. \A l \in T : l < nx2[l] /\ \A q \in T : q <= l \/ nx2[l] <= q
  <2> SUFFICES ASSUME NEW l \in T PROVE l < nx2[l] /\ \A q \in T : q <= l \/ nx2[l] <= q
    OBVIOUS
  <2>1. CASE l = base
    <3>1. nx2[l] = at
      BY <2>1, <1>0
    <3>2. \A q \in S : q <= base \/ at <= q
      <4> SUFFICES ASSUME NEW q \in S PROVE q <= base \/ at <= q
        OBVIOUS
      <4>1. CASE pv[at] = N
        BY <4>1, <1>0, <1>1 DEF Ring
      <4>2. CASE pv[at] # N
        <5>1. pv[at] \in S /\ (q <= pv[at] \/ at <= q)
          BY <4>2, <1>1 DEF Ring
        <5> QED
          BY <5>1, <4>2, <1>0
      <4> QED
        BY <4>1, <4>2
    <3> QED
      BY <3>1, <3>2, <2>1, <1>0
  <2>2. CASE l # base /\ l = pv[at]
    <3>1. l \in S /\ nx2[l] = base /\ nx[l] = at /\ l < base /\ l < nx[l]
      BY <2>2, <1>0, <1>1 DEF Ring
    <3>2. \A q \in S : q <= l \/ at <= q
      BY <3>1 DEF Ring
    <3> QED
      BY <3>1, <3>2, <1>0
  <2>3. CASE l # base /\ l # pv[at]
    <3>1. l \in S /\ nx2[l] = nx[l] /\ l < nx[l] /\ l \in Nat /\ nx[l] \in S \cup {N}
      BY <2>3, <1>0 DEF Ring
    <3>2. \A q \in S : q <= l \/ nx[l] <= q
      BY <3>1 DEF Ring
    <3>3. base <= l \/ nx[l] <= base
      <4> SUFFICES ASSUME l < base, base < nx[l] PROVE FALSE
        <5>1. nx[l] \in Nat /\ base \in Nat
          BY <1>0, <3>1
        <5> QED
          BY <5>1, <3>1
      <4>1. CASE at = N
        <5>1. nx[l] # N
          BY <4>1, <2>3, <3>1, <1>0 DEF Ring
        <5>2. nx[l] \in S /\ pv[N] \in S \cup {N} /\ nx[pv[N]] = N
          BY <5>1, <3>1 DEF Ring
        <5>3. pv[N] # N
          <6>1. nx[N] <= nx[l]
            BY <5>2 DEF Ring
          <6>2. nx[l] < N /\ nx[l] \in Nat
            BY <5>2, <1>0, NodeFacts
          <6> QED
            BY <6>1, <6>2, <5>2
        <5>4. pv[N] \in S /\ pv[N] < base /\ pv[N] \in Nat /\ nx[l] \in Nat
          BY <5>2, <5>3, <4>1, <1>0
        <5>5. nx[l] <= pv[N] \/ N <= nx[l]
          BY <5>2, <5>4 DEF Ring
        <5> QED
          BY <5>2, <5>4, <5>5, <1>0, NodeFacts
      <4>2. CASE at # N
        <5>1. at \in S /\ at \in Nat /\ (at <= l \/ nx[l] <= at)
          BY <4>2, <3>1, <1>0 DEF Ring
        <5>2. nx[l] \in Nat
          BY <3>1, <1>0
        <5>3. nx[l] <= at
          BY <5>1, <1>0, <3>1
        <5>4. nx[l] # at
          BY <3>1, <2>3 DEF Ring
        <5>5. nx[l] \in S
          BY <5>1, <5>3, <5>4, <3>1, <1>0, NodeFacts
        <5>6. CASE pv[at] = N
          BY <5>6, <1>1, <3>1, <1>0, <5>1, <5>5 DEF Ring
        <5>7. CASE pv[at] # N
          <6>1. pv[at] \in S /\ (nx[l] <= pv[at] \/ at <= nx[l])
            BY <5>7, <1>1, <5>5 DEF Ring
          <6>2. pv[at] < base /\ pv[at] \in Nat /\ base \in Nat
            BY <6>1, <5>7, <1>0
          <6> QED
            BY <6>1, <6>2, <5>1, <5>2, <5>3, <5>4
        <5> QED
          BY <5>6, <5>7
      <4> QED
        BY <4>1, <4>2
    <3> QED
      BY <3>1, <3>2, <3>3
  <2> QED
    BY <2>1, <2>2, <2>3
<1>4. \A q \in T : nx2[N] <= q
  <2>1. CASE pv[at] = N
    BY <2>1, <1>0, <1>1 DEF Ring
  <2>2. CASE pv[at] # N
    <3>1. nx2[N] = nx[N] /\ pv[at] \in S /\ nx[N] <= pv[at] /\ nx[N] \in Nat
      BY <2>2, <1>0, <1>1 DEF Ring
    <3>2. pv[at] < base /\ pv[at] \in Nat
      BY <2>2, <1>0, <1>1
    <3>3. \A q \in S : nx[N] <= q
      BY DEF Ring
    <3> QED
      BY <3>1, <3>2, <3>3, <1>0
  <2> QED
    BY <2>1, <2>2
<1> QED
  BY <1>0, <1>2, <1>3, <1>4 DEF Ring

(* list_del.                                                               *)
LEMMA RingDelete ==
    ASSUME N \in Nat \ {0}, NEW nx, NEW pv, NEW S, Ring(nx, pv, S), NEW e \in S,
           NEW nx2, NEW pv2, Removed(nx, pv, e, nx2, pv2)
    PROVE  Ring(nx2, pv2, S \ {e})
<1> USE DEF Removed
<1> DEFINE T == S \ {e}
<1>0. S \subseteq Page /\ Page \subseteq Nat /\ Node = Page \cup {N} /\ N \notin Page /\ e \in Nat /\ e # N /\ e \in Node
      /\ (\A x \in S \cup {N} : x \in Nat /\ x <= N) /\ N \notin S
  BY NodeFacts DEF Ring
<1>1. /\ pv[e] \in S \cup {N} /\ nx[pv[e]] = e /\ nx[e] \in S \cup {N} /\ pv[nx[e]] = e /\ e < nx[e]
      /\ nx[e] # e
  BY <1>0 DEF Ring
<1>2. pv[e] # e
  BY <1>0, <1>1
<1>3. \A l \in T \cup {N} : /\ nx2[l] \in T \cup {N} /\ pv2[l] \in T \cup {N}
                            /\ pv2[nx2[l]] = l /\ nx2[pv2[l]] = l
  <2> SUFFICES ASSUME NEW l \in T \cup {N}
               PROVE  /\ nx2[l] \in T \cup {N} /\ pv2[l] \in T \cup {N}
                      /\ pv2[nx2[l]] = l /\ nx2[pv2[l]] = l
    OBVIOUS
  <2>1. l \in S \cup {N} /\ l \in Node /\ l # e
    BY <1>0
  <2>2. nx[l] \in S \cup {N} /\ pv[l] \in S \cup {N} /\ pv[nx[l]] = l /\ nx[pv[l]] = l
    BY <2>1 DEF Ring
  <2>3. nx2[l] \in T \cup {N} /\ pv2[nx2[l]] = l
    <3>1. CASE l = pv[e]
      <4>1. nx2[l] = nx[e] /\ nx[e] # e
        BY <3>1, <2>1, <1>1
      <4>2. pv2[nx[e]] = pv[e]
        BY <1>0, <1>1
      <4> QED
        BY <3>1, <4>1, <4>2, <1>1
    <3>2. CASE l # pv[e]
      <4>1. nx2[l] = nx[l] /\ nx[l] # e /\ nx[l] # nx[e] /\ nx[l] \in Node
        BY <3>2, <2>1, <2>2, <1>0, <1>1
      <4> QED
        BY <4>1, <2>2
    <3> QED
      BY <3>1, <3>2
  <2>4. pv2[l] \in T \cup {N} /\ nx2[pv2[l]] = l
    <3>1. CASE l = nx[e]
      <4>1. pv2[l] = pv[e]
        BY <3>1, <2>1
      <4>2. nx2[pv[e]] = nx[e]
        BY <1>0, <1>1
      <4> QED
        BY <3>1, <4>1, <4>2, <1>1, <1>2
    <3>2. CASE l # nx[e]
      <4>1. pv2[l] = pv[l] /\ pv[l] # e /\ pv[l] # pv[e] /\ pv[l] \in Node
        BY <3>2, <2>1, <2>2, <1>0, <1>1
      <4> QED
        BY <4>1, <2>2
    <3> QED
      BY <3>1, <3>2
  <2> QED
    BY <2>3, <2>4
<1>4. \A l \in T : l < nx2[l] /\ \A q \in T : q <= l \/ nx2[l] <= q
  <2> SUFFICES ASSUME NEW l \in T PROVE l < nx2[l] /\ \A q \in T : q <= l \/ nx2[l] <= q
    OBVIOUS
  <2>1. l \in S /\ l < nx[l] /\ (\A q \in S : q <= l \/ nx[l] <= q) /\ l \in Nat
    BY <1>0 DEF Ring
  <2>2. CASE l = pv[e]
    <3>1. nx2[l] = nx[e] /\ nx[l] = e /\ nx[e] \in Nat
      BY <2>2, <1>0, <1>1
    <3>2. \A q \in S : q <= e \/ nx[e] <= q
      BY DEF Ring
    <3> QED
      BY <2>1, <3>1, <3>2, <1>0, <1>1
  <2>3. CASE l # pv[e]
    BY <2>3, <2>1, <1>0
  <2> QED
    BY <2>2, <2>3
<1>5. \A q \in T : nx2[N] <= q
  <2>1. CASE pv[e] = N
    <3>1. nx2[N] = nx[e] /\ nx[N] = e /\ nx[e] \in Nat
      BY <2>1, <1>0, <1>1
    <3> QED
      BY <3>1, <1>0 DEF Ring
  <2>2. CASE pv[e] # N
    BY <2>2, <1>0 DEF Ring
  <2> QED
    BY <2>1, <2>2
<1> QED
  BY <1>0, <1>3, <1>4, <1>5 DEF Ring
---------------------------------------------------------------------------
(* A walk of m links along the function g on S exists.                     *)
Steps(g, S, x, m) == {w \in [0 .. m -> S] : w[0] = x /\ \A k \in 1 .. m : w[k] = g[w[k - 1]]}

LEMMA StepsExist ==
    ASSUME NEW S, NEW g, \A y \in S : g[y] \in S, NEW x \in S, NEW m \in Nat
    PROVE  Steps(g, S, x, m) # {}
<1> DEFINE Bad == {k \in Nat : Steps(g, S, x, k) = {}}
<1> SUFFICES ASSUME m \in Bad PROVE FALSE
  OBVIOUS
<1>1. Bad \in SUBSET Nat /\ Bad # {}
  OBVIOUS
<1> HIDE DEF Bad
<1>2. PICK k \in Bad : \A j \in Bad : k <= j
  BY <1>1, Least
<1>3. k \in Nat /\ Steps(g, S, x, k) = {}
  BY <1>2 DEF Bad
<1>4. CASE k = 0
  <2>1. [j \in 0 .. 0 |-> x] \in Steps(g, S, x, 0)
    BY DEF Steps
  <2> QED
    BY <2>1, <1>3, <1>4
<1>5. CASE k # 0
  <2>1. k - 1 \in Nat /\ k - 1 \notin Bad
    BY <1>2, <1>3, <1>5
  <2>2. PICK w : w \in Steps(g, S, x, k - 1)
    BY <2>1 DEF Bad
  <2> DEFINE v == [j \in 0 .. k |-> IF j < k THEN w[j] ELSE g[w[k - 1]]]
  <2>3. w \in [0 .. k - 1 -> S] /\ w[0] = x /\ \A j \in 1 .. k - 1 : w[j] = g[w[j - 1]]
    BY <2>2 DEF Steps
  <2>4. v \in [0 .. k -> S] /\ v[0] = x
    BY <2>1, <2>3, <1>3, <1>5
  <2>5. \A j \in 1 .. k : v[j] = g[v[j - 1]]
    BY <2>1, <2>3, <1>3
  <2>6. v \in Steps(g, S, x, k)
    BY <2>4, <2>5 DEF Steps
  <2> QED
    BY <2>6, <1>3
<1> QED
  BY <1>4, <1>5

(* Walk is what its recursive definition says.                             *)
LEMMA WalkDef ==
    ASSUME N \in Nat \ {0}, NEW a, a.next \in [Node -> Node]
    PROVE  /\ Walk(a) \in [0 .. N -> Node] /\ Walk(a)[0] = a.next[N]
           /\ \A k \in 1 .. N : Walk(a)[k] = IF Walk(a)[k - 1] = N THEN N ELSE a.next[Walk(a)[k - 1]]
<1> DEFINE Body(w) == [k \in 0 .. N |-> IF k = 0 THEN a.next[Head]
                                        ELSE IF w[k - 1] = Head THEN Head ELSE a.next[w[k - 1]]]
           at == CHOOSE w : w = Body(w)
           g == [l \in Node |-> IF l = N THEN N ELSE a.next[l]]
<1>0. N \in Node /\ a.next[N] \in Node /\ Head = N
  BY NodeFacts DEF Head
<1>1. PICK w : w \in Steps(g, Node, a.next[N], N)
  <2>1. \A l \in Node : g[l] \in Node
    BY <1>0
  <2>2. PICK x : x = a.next[N]
    OBVIOUS
  <2> HIDE DEF g
  <2>3. x \in Node /\ N \in Nat
    BY <2>2, <1>0
  <2>4. Steps(g, Node, x, N) # {}
    BY <2>1, <2>3, StepsExist
  <2> QED
    BY <2>2, <2>4
<1>2. w \in [0 .. N -> Node] /\ w[0] = a.next[N] /\ \A k \in 1 .. N : w[k] = g[w[k - 1]]
  BY <1>1 DEF Steps
<1>3. w = Body(w)
  <2>1. ASSUME NEW k \in 0 .. N PROVE w[k] = Body(w)[k]
    <3>1. CASE k = 0
      BY <3>1, <1>0, <1>2
    <3>2. CASE k # 0
      <4>1. k \in 1 .. N /\ k - 1 \in 0 .. N /\ w[k - 1] \in Node
        BY <3>2, <1>2
      <4>2. w[k] = g[w[k - 1]]
        BY <4>1, <1>2
      <4> QED
        BY <4>1, <4>2, <3>2, <1>0
    <3> QED
      BY <3>1, <3>2
  <2> QED
    BY <2>1, <1>2
<1>4. at = Body(at)
  BY <1>3
<1>5. Walk(a) = at
  BY Zenon DEF Walk
<1> HIDE DEF at
<1>6. at[0] = a.next[N] /\ \A k \in 1 .. N : at[k] = IF at[k - 1] = N THEN N ELSE a.next[at[k - 1]]
  BY <1>4, <1>0
<1>7. \A k \in 0 .. N : at[k] = w[k]
  <2> DEFINE Bad == {k \in 0 .. N : at[k] # w[k]}
  <2> SUFFICES ASSUME Bad # {} PROVE FALSE
    OBVIOUS
  <2>0. Bad \in SUBSET Nat
    OBVIOUS
  <2>1. PICK k \in Bad : \A j \in Bad : k <= j
    <3> HIDE DEF Bad
    <3> QED
      BY <2>0, Least
  <2>2. k # 0
    BY <2>1, <1>6, <1>2
  <2>3. k - 1 \in 0 .. N /\ k \in 1 .. N /\ at[k - 1] = w[k - 1] /\ w[k - 1] \in Node
    BY <2>1, <2>2, <1>2
  <2>4. w[k] = g[w[k - 1]] /\ at[k] = IF at[k - 1] = N THEN N ELSE a.next[at[k - 1]]
    BY <2>3, <1>2, <1>6
  <2> QED
    BY <2>1, <2>3, <2>4
<1>8. DOMAIN at = 0 .. N
  BY <1>4
<1>9. at = w
  BY <1>2, <1>4, <1>7, <1>8
<1> QED
  BY <1>2, <1>5, <1>6, <1>9

(* The walk along a ring passes the blocks and ends at the head.           *)
LEMMA WalkRing ==
    ASSUME N \in Nat \ {0}, NEW a, NEW S, Ring(a.next, a.prev, S)
    PROVE  /\ \A k \in 0 .. N : Walk(a)[k] \in S \cup {N} /\ k <= Walk(a)[k]
           /\ Walk(a)[N] = N
           /\ \A p \in S : \E k \in 0 .. N : Walk(a)[k] = p
<1> DEFINE w == Walk(a)
<1>0. /\ S \subseteq Page /\ a.next \in [Node -> Node] /\ a.next[N] \in S \cup {N}
      /\ \A l \in S : a.next[l] \in S \cup {N} /\ l < a.next[l]
  BY DEF Ring
<1>1. \A x \in S \cup {N} : x \in Nat /\ x <= N /\ (x # N => x < N)
  BY <1>0, NodeFacts
<1>2. w[0] = a.next[N] /\ \A k \in 1 .. N : w[k] = IF w[k - 1] = N THEN N ELSE a.next[w[k - 1]]
  BY <1>0, WalkDef
<1> HIDE DEF w
<1>3. \A k \in 0 .. N : w[k] \in S \cup {N} /\ k <= w[k]
  <2> DEFINE Bad == {k \in 0 .. N : ~(w[k] \in S \cup {N} /\ k <= w[k])}
  <2> SUFFICES ASSUME Bad # {} PROVE FALSE
    OBVIOUS
  <2>0. Bad \in SUBSET Nat
    OBVIOUS
  <2>1. PICK k \in Bad : \A j \in Bad : k <= j
    <3> HIDE DEF Bad
    <3> QED
      BY <2>0, Least
  <2>2. k # 0
    BY <2>1, <1>0, <1>1, <1>2
  <2>3. k - 1 \in 0 .. N /\ k \in 1 .. N /\ k - 1 \notin Bad
    BY <2>1, <2>2
  <2>4. w[k - 1] \in S \cup {N} /\ k - 1 <= w[k - 1]
    BY <2>3
  <2>5. w[k] = IF w[k - 1] = N THEN N ELSE a.next[w[k - 1]]
    BY <2>3, <1>2
  <2>6. CASE w[k - 1] = N
    BY <2>6, <2>5, <2>1, <1>1
  <2>7. CASE w[k - 1] # N
    <3>1. w[k - 1] \in S /\ w[k] \in S \cup {N} /\ w[k - 1] < w[k]
      BY <2>4, <2>5, <2>7, <1>0
    <3>2. w[k - 1] \in Nat /\ w[k] \in Nat
      BY <3>1, <1>1
    <3> QED
      BY <3>1, <3>2, <2>1, <2>4, <2>3
  <2> QED
    BY <2>6, <2>7
<1>4. w[N] = N
  <2>1. w[N] \in S \cup {N} /\ N <= w[N]
    BY <1>3
  <2> QED
    BY <2>1, <1>1
<1>5. \A p \in S : \E k \in 0 .. N : w[k] = p
  <2> DEFINE Bad == {p \in S : ~ \E k \in 0 .. N : w[k] = p}
  <2> SUFFICES ASSUME Bad # {} PROVE FALSE
    OBVIOUS
  <2>0. Bad \in SUBSET Nat
    BY <1>1
  <2>1. PICK p \in Bad : \A j \in Bad : p <= j
    <3> HIDE DEF Bad
    <3> QED
      BY <2>0, Least
  <2>2. p \in S /\ a.prev[p] \in S \cup {N} /\ a.next[a.prev[p]] = p
    BY <2>1 DEF Ring
  <2>3. CASE a.prev[p] = N
    BY <2>3, <2>2, <2>1, <1>2
  <2>4. CASE a.prev[p] # N
    <3>1. a.prev[p] \in S /\ a.prev[p] < p
      BY <2>2, <2>4, <1>0
    <3>2. a.prev[p] \notin Bad
      BY <3>1, <2>1, <2>0, <1>1
    <3>3. PICK k \in 0 .. N : w[k] = a.prev[p]
      BY <3>1, <3>2
    <3>4. k <= a.prev[p]
      BY <3>3, <1>3
    <3>5. a.prev[p] < N
      BY <3>1, <1>1
    <3>6. a.prev[p] \in Nat
      BY <3>1, <1>1
    <3>7. k + 1 \in 1 .. N /\ (k + 1) - 1 = k
      BY <3>4, <3>5, <3>6
    <3>8. w[k + 1] = p
      BY <3>3, <3>7, <1>2, <2>2, <2>4
    <3> QED
      BY <3>7, <3>8, <2>1
  <2> QED
    BY <2>3, <2>4, <2>2
<1> QED
  BY <1>3, <1>4, <1>5 DEF w

(* The blocks that a walk meets.                                           *)
LEMMA WalkSet ==
    ASSUME N \in Nat \ {0}, NEW a, NEW S, Ring(a.next, a.prev, S)
    PROVE  {Walk(a)[k] : k \in 0 .. N} \ {Head} = S
<1>1. N \notin S /\ Head = N
  BY NodeFacts DEF Ring, Head
<1> QED
  BY <1>1, WalkRing

---------------------------------------------------------------------------
(* What list_add and list_del leave in each field.                         *)
AreaType(a) ==
    a \in [next : [Node -> Node], prev : [Node -> Node], property : [Page -> Nat], flag : [Page -> BOOLEAN],
           nr_free : Nat]
SameBlocks(a, c) ==
    AreaType(c) /\ c.property = a.property /\ c.flag = a.flag /\ c.nr_free = a.nr_free

LEMMA ListAddFields ==
    ASSUME NEW a, AreaType(a), NEW elm \in Node, NEW p \in Node, NEW n \in Node,
           NEW c, c = ListAdd(a, elm, p, n)
    PROVE  SameBlocks(a, c) /\ Inserted(a.next, a.prev, elm, p, n, c.next, c.prev)
<1>1. c = [a EXCEPT !.next = [[@ EXCEPT ![p] = elm] EXCEPT ![elm] = n],
                    !.prev = [[@ EXCEPT ![n] = elm] EXCEPT ![elm] = p]]
  BY DEF ListAdd, AreaType
<1>2. /\ a.next \in [Node -> Node] /\ a.prev \in [Node -> Node]
      /\ a = [next |-> a.next, prev |-> a.prev, property |-> a.property, flag |-> a.flag, nr_free |-> a.nr_free]
  BY DEF AreaType
<1> DEFINE nx == [[a.next EXCEPT ![p] = elm] EXCEPT ![elm] = n]
           pv == [[a.prev EXCEPT ![n] = elm] EXCEPT ![elm] = p]
<1>3. c = [next |-> nx, prev |-> pv, property |-> a.property, flag |-> a.flag, nr_free |-> a.nr_free]
  BY <1>1, <1>2
<1>4. /\ nx \in [Node -> Node] /\ pv \in [Node -> Node]
      /\ \A l \in Node : nx[l] = IF l = elm THEN n ELSE IF l = p THEN elm ELSE a.next[l]
      /\ \A l \in Node : pv[l] = IF l = elm THEN p ELSE IF l = n THEN elm ELSE a.prev[l]
  BY <1>2
<1> HIDE DEF nx, pv
<1> QED
  BY <1>2, <1>3, <1>4 DEF AreaType, SameBlocks, Inserted

LEMMA ListDelFields ==
    ASSUME NEW a, AreaType(a), NEW elm \in Node, NEW c, c = ListDel(a, elm)
    PROVE  SameBlocks(a, c) /\ Removed(a.next, a.prev, elm, c.next, c.prev)
<1>1. c = [a EXCEPT !.next = [@ EXCEPT ![a.prev[elm]] = a.next[elm]],
                    !.prev = [@ EXCEPT ![a.next[elm]] = a.prev[elm]]]
  BY DEF ListDel, AreaType
<1>2. /\ a.next \in [Node -> Node] /\ a.prev \in [Node -> Node]
      /\ a = [next |-> a.next, prev |-> a.prev, property |-> a.property, flag |-> a.flag, nr_free |-> a.nr_free]
  BY DEF AreaType
<1> DEFINE nx == [a.next EXCEPT ![a.prev[elm]] = a.next[elm]]
           pv == [a.prev EXCEPT ![a.next[elm]] = a.prev[elm]]
<1>3. c = [next |-> nx, prev |-> pv, property |-> a.property, flag |-> a.flag, nr_free |-> a.nr_free]
  BY <1>1, <1>2
<1>4. /\ nx \in [Node -> Node] /\ pv \in [Node -> Node]
      /\ \A l \in Node : nx[l] = IF l = a.prev[elm] THEN a.next[elm] ELSE a.next[l]
      /\ \A l \in Node : pv[l] = IF l = a.next[elm] THEN a.prev[elm] ELSE a.prev[l]
  BY <1>2
<1> HIDE DEF nx, pv
<1> QED
  BY <1>2, <1>3, <1>4 DEF AreaType, SameBlocks, Removed

---------------------------------------------------------------------------
(* The blocks that are marked free, the pages in them, and an area whose   *)
(* list is the ring of these blocks.  No block reaches into the next one,  *)
(* and two blocks touch only if the lower one is lo or the upper one hi:   *)
(* the ones that are still to be merged, none if both are N.               *)
Marked(a) == {p \in Page : a.flag[p]}
InBlock(a, x) == \E p \in Marked(a) : p <= x /\ x < p + a.property[p]
Near(a, lo, hi) ==
    /\ AreaType(a) /\ Ring(a.next, a.prev, Marked(a))
    /\ \A p \in Marked(a) : a.property[p] >= 1 /\ p + a.property[p] <= N
    /\ \A p, q \in Marked(a) : p < q => /\ p + a.property[p] <= q
                                        /\ p + a.property[p] = q => p = lo \/ q = hi

---------------------------------------------------------------------------
(* The loop that looks for the place of a block finds the least larger     *)
(* one, if there is any: the test for the last block is never reached.     *)
LEMMA LinkPlace ==
    ASSUME N \in Nat \ {0}, NEW a, NEW S, Ring(a.next, a.prev, S), NEW base \in Page, base \notin S,
           NEW q \in S, base < q
    PROVE  /\ LinkEnds(a, base)
           /\ \E at \in S : /\ base < at /\ (a.prev[at] = N \/ a.prev[at] < base)
                            /\ Link(a, base) = ListAdd(a, base, a.prev[at], at)
<1> DEFINE w == Walk(a)
           K == {k \in 0 .. N : Stop(a, base, w[k])}
<1>0. /\ S \subseteq Page /\ a.next \in [Node -> Node] /\ Head = N
      /\ \A x \in S : x \in Nat /\ x < N /\ x \in Node
      /\ base \in Nat /\ base < N /\ N \notin S
  BY NodeFacts DEF Ring, Head
<1>1. /\ \A k \in 0 .. N : w[k] \in S \cup {N}
      /\ \E k \in 0 .. N : w[k] = q
  BY WalkRing
<1>2. w[0] = a.next[N] /\ \A k \in 1 .. N : w[k] = IF w[k - 1] = N THEN N ELSE a.next[w[k - 1]]
  BY <1>0, WalkDef
<1>3. Link(a, base) = IF a.next[Head] = Head THEN ListAddAfter(a, Head, base)
                      ELSE IF base < w[Min(K)] THEN ListAddBefore(a, w[Min(K)], base)
                      ELSE ListAddAfter(ListAddAfter(a, w[Min(K)], base), base, base)
  BY DEF Link
<1>4. LinkEnds(a, base) <=> a.next[Head] = Head \/ \E k \in 0 .. N : Stop(a, base, w[k])
  BY DEF LinkEnds
<1> HIDE DEF w
<1>5. K \in SUBSET Nat /\ K # {}
  <2>1. PICK k \in 0 .. N : w[k] = q
    BY <1>1
  <2>2. k \in K
    BY <2>1, <1>0 DEF Stop
  <2> QED
    BY <2>2
<1>6. Min(K) \in K /\ \A j \in K : Min(K) <= j
  <2> HIDE DEF K
  <2>1. \E i \in K : \A j \in K : i <= j
    BY <1>5, Least
  <2> QED
    BY <2>1 DEF Min
<1> DEFINE k0 == Min(K)
<1>7. k0 \in 0 .. N /\ w[k0] # N /\ (base < w[k0] \/ a.next[w[k0]] = N) /\ w[k0] \in S
  BY <1>6, <1>0, <1>1 DEF Stop
<1>8. \A j \in 0 .. N : j < k0 => ~ Stop(a, base, w[j])
  BY <1>6
<1> HIDE DEF k0
<1>9. base < w[k0]
  <2> SUFFICES ASSUME ~(base < w[k0]) PROVE FALSE
    OBVIOUS
  <2>1. a.next[w[k0]] = N /\ (q <= w[k0] \/ N <= q)
    BY <1>7 DEF Ring
  <2>2. w[k0] \in Nat /\ q \in Nat /\ q < N
    BY <1>0, <1>7
  <2> QED
    BY <2>1, <2>2, <1>0
<1>10. a.prev[w[k0]] = N \/ a.prev[w[k0]] < base
  <2>1. CASE k0 = 0
    BY <2>1, <1>2 DEF Ring
  <2>2. CASE k0 # 0
    <3>1. k0 \in 1 .. N /\ k0 - 1 \in 0 .. N /\ k0 - 1 < k0
      BY <1>7, <2>2
    <3>2. w[k0] = a.next[w[k0 - 1]] /\ w[k0 - 1] # N /\ w[k0 - 1] \in S
      BY <3>1, <1>1, <1>2, <1>7
    <3>3. a.prev[w[k0]] = w[k0 - 1]
      BY <3>2 DEF Ring
    <3>4. ~(base < w[k0 - 1])
      BY <3>1, <3>2, <1>8, <1>0 DEF Stop
    <3>5. w[k0 - 1] \in Nat /\ base \in Nat /\ w[k0 - 1] # base
      BY <3>2, <1>0
    <3> QED
      BY <3>3, <3>4, <3>5
  <2> QED
    BY <2>1, <2>2
<1>11. a.next[Head] # Head
  <2>1. a.next[N] <= q /\ q < N /\ q \in Nat
    BY <1>0 DEF Ring
  <2> QED
    BY <2>1, <1>0
<1>12. Link(a, base) = ListAdd(a, base, a.prev[w[k0]], w[k0])
  BY <1>3, <1>9, <1>11 DEF ListAddBefore, k0
<1> QED
  BY <1>4, <1>5, <1>7, <1>9, <1>10, <1>12

---------------------------------------------------------------------------
(* Fresh counts and marks a block.                                         *)
Freshened(a, base, n, c) ==
    /\ AreaType(c) /\ c.next = a.next /\ c.prev = a.prev /\ c.nr_free = a.nr_free + n
    /\ Marked(c) = Marked(a) \cup {base}
    /\ \A p \in Page : c.property[p] = IF p = base THEN n ELSE a.property[p]

LEMMA FreshFields ==
    ASSUME NEW a, AreaType(a), NEW base \in Page, NEW n \in Nat, NEW c, c = Fresh(a, base, n)
    PROVE  Freshened(a, base, n, c)
<1> DEFINE pr == [a.property EXCEPT ![base] = n]
           fl == [a.flag EXCEPT ![base] = TRUE]
<1>1. /\ a.property \in [Page -> Nat] /\ a.flag \in [Page -> BOOLEAN] /\ a.nr_free \in Nat
      /\ a = [next |-> a.next, prev |-> a.prev, property |-> a.property, flag |-> a.flag, nr_free |-> a.nr_free]
  BY DEF AreaType
<1>2. c = [next |-> a.next, prev |-> a.prev, property |-> pr, flag |-> fl, nr_free |-> a.nr_free + n]
  BY <1>1 DEF Fresh
<1>3. /\ pr \in [Page -> Nat] /\ fl \in [Page -> BOOLEAN]
      /\ \A p \in Page : pr[p] = IF p = base THEN n ELSE a.property[p]
      /\ \A p \in Page : fl[p] = (p = base \/ a.flag[p])
  BY <1>1
<1> HIDE DEF pr, fl
<1>4. AreaType(c)
  BY <1>1, <1>2, <1>3 DEF AreaType
<1>5. Marked(c) = Marked(a) \cup {base}
  BY <1>2, <1>3 DEF Marked
<1> QED
  BY <1>2, <1>3, <1>4, <1>5 DEF Freshened

(* The loop of free_pages links the new block at its place, and only this  *)
(* block may touch others.                                                 *)
LEMMA LinkNear ==
    ASSUME N \in Nat \ {0}, NEW a, Near(a, N, N), NEW base \in Page, NEW n \in Nat \ {0}, base + n <= N,
           \A x \in Page : base <= x /\ x < base + n => ~ InBlock(a, x),
           NEW t \in Marked(a), base < t,
           NEW b, b = Link(Fresh(a, base, n), base)
    PROVE  /\ LinkEnds(Fresh(a, base, n), base)
           /\ Near(b, base, base) /\ base \in Marked(b) /\ b.nr_free = a.nr_free + n
           /\ \A x \in Page : InBlock(b, x) <=> InBlock(a, x) \/ (base <= x /\ x < base + n)
<1> DEFINE f == Fresh(a, base, n)
           S == Marked(a)
<1>0. /\ AreaType(a) /\ Ring(a.next, a.prev, S) /\ S \subseteq Page /\ Page \subseteq Nat
      /\ \A p \in S : a.property[p] >= 1 /\ p + a.property[p] <= N
      /\ \A p, q \in S : p < q => p + a.property[p] < q
      /\ a.property \in [Page -> Nat]
  <2>1. \A p, q \in S : p < q => p + a.property[p] < q
    BY NodeFacts DEF Near, Marked, AreaType
  <2> QED
    BY <2>1, NodeFacts DEF Near, Marked, AreaType
<1>1. \A p \in S : /\ p < base => p + a.property[p] <= base
                   /\ base <= p => base + n <= p
  <2> SUFFICES ASSUME NEW p \in S PROVE (p < base => p + a.property[p] <= base) /\ (base <= p => base + n <= p)
    OBVIOUS
  <2>1. p \in Nat /\ base \in Nat /\ a.property[p] \in Nat /\ a.property[p] >= 1
    BY <1>0
  <2>2. ASSUME p < base, base < p + a.property[p] PROVE FALSE
    BY <2>1, <2>2 DEF InBlock
  <2>3. ASSUME base <= p, p < base + n PROVE FALSE
    <3>1. InBlock(a, p)
      BY <2>1 DEF InBlock
    <3> QED
      BY <3>1, <2>3, <1>0
  <2> QED
    BY <2>1, <2>2, <2>3
<1>2. base \notin S
  BY <1>0, <1>1
<1>3. /\ AreaType(f) /\ f.next = a.next /\ f.prev = a.prev /\ f.nr_free = a.nr_free + n
      /\ Marked(f) = S \cup {base}
      /\ \A p \in Page : f.property[p] = IF p = base THEN n ELSE a.property[p]
  <2>1. Freshened(a, base, n, f)
    BY <1>0, FreshFields
  <2> HIDE DEF f
  <2> QED
    BY <2>1 DEF Freshened
<1> HIDE DEF f, S
<1>4. Ring(f.next, f.prev, S)
  BY <1>0, <1>3
<1>5. /\ LinkEnds(f, base)
      /\ \E at \in S : /\ base < at /\ (f.prev[at] = N \/ f.prev[at] < base)
                       /\ Link(f, base) = ListAdd(f, base, f.prev[at], at)
  <2>1. t \in S
    BY DEF S
  <2> QED
    BY <2>1, <1>2, <1>4, LinkPlace
<1>6. PICK at \in S : /\ base < at /\ (f.prev[at] = N \/ f.prev[at] < base)
                      /\ Link(f, base) = ListAdd(f, base, f.prev[at], at)
  BY <1>5
<1>7. b = ListAdd(f, base, f.prev[at], at)
  BY <1>6 DEF f
<1>8. base \in Node /\ at \in Node /\ f.prev[at] \in Node
  <2>1. Page \subseteq Node /\ at \in Page
    BY <1>0, NodeFacts
  <2> QED
    BY <2>1, <1>3 DEF AreaType
<1>8a. SameBlocks(f, b) /\ Inserted(f.next, f.prev, base, f.prev[at], at, b.next, b.prev)
  BY <1>3, <1>7, <1>8, ListAddFields
<1>9. AreaType(b) /\ b.property = f.property /\ b.flag = f.flag /\ b.nr_free = f.nr_free
  BY <1>8a DEF SameBlocks
<1>10. Ring(b.next, b.prev, S \cup {base})
  BY <1>2, <1>4, <1>6, <1>8a, RingInsert
<1>11. Marked(b) = S \cup {base}
  BY <1>3, <1>9 DEF Marked
<1>12. \A p \in S : b.property[p] = a.property[p]
  BY <1>0, <1>2, <1>3, <1>9
<1>13. b.property[base] = n
  BY <1>3, <1>9
<1>14. \A x \in Page : InBlock(b, x) <=> InBlock(a, x) \/ (base <= x /\ x < base + n)
  BY <1>11, <1>12, <1>13 DEF InBlock, S
<1>15. \A p \in S \cup {base} : b.property[p] >= 1 /\ p + b.property[p] <= N
  BY <1>0, <1>12, <1>13
<1>16. \A p, q \in S \cup {base} : p < q => /\ p + b.property[p] <= q
                                            /\ p + b.property[p] = q => p = base \/ q = base
  <2> SUFFICES ASSUME NEW p \in S \cup {base}, NEW q \in S \cup {base}, p < q
               PROVE  /\ p + b.property[p] <= q /\ (p + b.property[p] = q => p = base \/ q = base)
    OBVIOUS
  <2>0. p \in Nat /\ q \in Nat /\ p # q
    BY <1>0
  <2>1. CASE p = base
    BY <2>1, <2>0, <1>1, <1>13
  <2>2. CASE q = base
    BY <2>2, <2>0, <1>1, <1>12
  <2>3. CASE p \in S /\ q \in S
    <3>1. p + a.property[p] < q /\ a.property[p] \in Nat
      BY <2>3, <1>0
    <3> QED
      BY <3>1, <2>0, <2>3, <1>12
  <2> QED
    BY <2>1, <2>2, <2>3
<1>17. Near(b, base, base)
  BY <1>9, <1>10, <1>11, <1>15, <1>16 DEF Near
<1> QED
  BY <1>3, <1>5, <1>9, <1>11, <1>14, <1>17 DEF f

---------------------------------------------------------------------------
(* A block p takes in the next one q, which it touches.                    *)
Absorb(a, p, q) == ListDel([a EXCEPT !.property[p] = @ + a.property[q], !.flag[q] = FALSE], q)

LEMMA AbsorbNear ==
    ASSUME N \in Nat \ {0}, NEW a, NEW lo, NEW hi, Near(a, lo, hi), NEW p \in Marked(a), NEW q \in Marked(a),
           p < q, p + a.property[p] = q, NEW c, c = Absorb(a, p, q), NEW up,
           \A x, y \in Marked(a) \ {q} :
               ((x # p /\ x + a.property[x] = y) \/ (x = p /\ q + a.property[q] = y)) => x = up
    PROVE  /\ Near(c, up, N) /\ Marked(c) = Marked(a) \ {q} /\ c.nr_free = a.nr_free
           /\ \A x \in Page : InBlock(c, x) <=> InBlock(a, x)
<1> DEFINE S == Marked(a)
           pr == [a.property EXCEPT ![p] = a.property[p] + a.property[q]]
           fl == [a.flag EXCEPT ![q] = FALSE]
           d == [next |-> a.next, prev |-> a.prev, property |-> pr, flag |-> fl, nr_free |-> a.nr_free]
<1>0. /\ AreaType(a) /\ Ring(a.next, a.prev, S) /\ S \subseteq Page /\ Page \subseteq Nat
      /\ \A x \in S : a.property[x] >= 1 /\ x + a.property[x] <= N
      /\ \A x, y \in S : x < y => x + a.property[x] <= y
      /\ a.property \in [Page -> Nat] /\ a.flag \in [Page -> BOOLEAN]
      /\ a = [next |-> a.next, prev |-> a.prev, property |-> a.property, flag |-> a.flag, nr_free |-> a.nr_free]
      /\ p \in Page /\ q \in Page /\ p # q
  BY NodeFacts DEF Near, Marked, AreaType
<1>1. c = ListDel(d, q)
  <2>1. PICK e : e = [a EXCEPT !.property[p] = @ + a.property[q], !.flag[q] = FALSE]
    OBVIOUS
  <2>2. e = d
    <3>1. a = [next |-> a.next, prev |-> a.prev, property |-> a.property, flag |-> a.flag, nr_free |-> a.nr_free]
      BY <1>0
    <3> QED
      BY <2>1, <3>1
  <2> HIDE DEF d
  <2> QED
    BY <2>1, <2>2 DEF Absorb
<1>2. /\ pr \in [Page -> Nat] /\ fl \in [Page -> BOOLEAN]
      /\ \A x \in Page : pr[x] = IF x = p THEN a.property[p] + a.property[q] ELSE a.property[x]
      /\ \A x \in Page : fl[x] <=> x # q /\ a.flag[x]
  BY <1>0
<1> HIDE DEF pr, fl
<1>3. /\ AreaType(d) /\ d.next = a.next /\ d.prev = a.prev /\ d.property = pr /\ d.flag = fl
      /\ d.nr_free = a.nr_free
  BY <1>0, <1>2 DEF AreaType
<1> HIDE DEF d, S
<1>4. q \in Node
  BY <1>0, NodeFacts
<1>5. SameBlocks(d, c) /\ Removed(a.next, a.prev, q, c.next, c.prev)
  <2>1. SameBlocks(d, c) /\ Removed(d.next, d.prev, q, c.next, c.prev)
    BY <1>1, <1>3, <1>4, ListDelFields
  <2> QED
    BY <2>1, <1>3
<1>6. AreaType(c) /\ c.property = pr /\ c.flag = fl /\ c.nr_free = a.nr_free
  BY <1>5, <1>3 DEF SameBlocks
<1>7. Marked(c) = S \ {q}
  <2>1. Marked(c) = {x \in Page : fl[x]}
    BY <1>6 DEF Marked
  <2> QED
    BY <2>1, <1>2 DEF S, Marked
<1>8. Ring(c.next, c.prev, S \ {q})
  <2>1. q \in S
    BY DEF S
  <2> QED
    BY <2>1, <1>0, <1>5, RingDelete
<1>9. p \in S /\ q \in S
  BY DEF S
<1>10. \A x, y \in S \ {q} : x < y => /\ x + c.property[x] <= y
                                      /\ x + c.property[x] = y => x = up
  <2> SUFFICES ASSUME NEW x \in S \ {q}, NEW y \in S \ {q}, x < y
               PROVE  x + c.property[x] <= y /\ (x + c.property[x] = y => x = up)
    OBVIOUS
  <2>0. x \in Nat /\ y \in Nat /\ x \in Page /\ y \in Page /\ a.property[x] \in Nat /\ a.property[q] \in Nat
        /\ a.property[p] \in Nat /\ a.property[y] >= 1
    BY <1>0
  <2>1. CASE x = p
    <3>1. p + a.property[p] <= y
      BY <2>1, <1>0
    <3>2. q < y
      BY <3>1, <1>0, <2>0
    <3>3. q + a.property[q] <= y
      BY <3>2, <1>0, <1>9
    <3>4. x + c.property[x] = q + a.property[q]
      BY <2>0, <2>1, <1>2, <1>6
    <3>5. q + a.property[q] = y => x = up
      BY <2>1 DEF S
    <3> QED
      BY <3>3, <3>4, <3>5
  <2>2. CASE x # p
    <3>1. c.property[x] = a.property[x]
      BY <2>0, <2>2, <1>2, <1>6
    <3>2. x + a.property[x] <= y
      BY <1>0
    <3>3. x + a.property[x] = y => x = up
      BY <2>2 DEF S
    <3> QED
      BY <3>1, <3>2, <3>3
  <2> QED
    BY <2>1, <2>2
<1>11. \A x \in S \ {q} : c.property[x] >= 1 /\ x + c.property[x] <= N
  <2> SUFFICES ASSUME NEW x \in S \ {q} PROVE c.property[x] >= 1 /\ x + c.property[x] <= N
    OBVIOUS
  <2>0. x \in Page /\ a.property[x] \in Nat /\ a.property[q] \in Nat /\ a.property[p] \in Nat /\ x \in Nat
        /\ a.property[p] >= 1 /\ q + a.property[q] <= N /\ x + a.property[x] <= N /\ a.property[x] >= 1
    BY <1>0, <1>9
  <2>1. c.property[x] = IF x = p THEN a.property[p] + a.property[q] ELSE a.property[x]
    BY <2>0, <1>2, <1>6
  <2> QED
    BY <2>0, <2>1
<1>12. \A x \in Page : InBlock(c, x) <=> InBlock(a, x)
  <2> SUFFICES ASSUME NEW x \in Page PROVE InBlock(c, x) <=> InBlock(a, x)
    OBVIOUS
  <2>0. x \in Nat /\ p \in Nat /\ q \in Nat /\ a.property[p] \in Nat /\ a.property[q] \in Nat
    BY <1>0
  <2>1. c.property[p] = a.property[p] + a.property[q] /\ \A y \in S \ {p} : c.property[y] = a.property[y]
    BY <1>0, <1>2, <1>6
  <2>2. ASSUME InBlock(c, x) PROVE InBlock(a, x)
    <3>1. PICK y \in S \ {q} : y <= x /\ x < y + c.property[y]
      BY <2>2, <1>7 DEF InBlock
    <3>2. CASE y = p
      <4>1. (p <= x /\ x < p + a.property[p]) \/ (q <= x /\ x < q + a.property[q])
        BY <3>1, <3>2, <2>0, <2>1
      <4> QED
        BY <4>1, <1>9 DEF InBlock, S
    <3>3. CASE y # p
      BY <3>1, <3>3, <2>1 DEF InBlock, S
    <3> QED
      BY <3>2, <3>3
  <2>3. ASSUME InBlock(a, x) PROVE InBlock(c, x)
    <3>1. PICK y \in S : y <= x /\ x < y + a.property[y]
      BY <2>3 DEF InBlock, S
    <3>2. CASE y = p \/ y = q
      <4>1. p <= x /\ x < p + c.property[p]
        BY <3>1, <3>2, <2>0, <2>1
      <4>2. p \in S \ {q}
        BY <1>9, <1>0
      <4> QED
        BY <4>1, <4>2, <1>7 DEF InBlock
    <3>3. CASE y # p /\ y # q
      BY <3>1, <3>3, <2>1, <1>7 DEF InBlock
    <3> QED
      BY <3>2, <3>3
  <2> QED
    BY <2>2, <2>3
<1>13. Near(c, up, N)
  <2>1. \A x \in S : x # N
    BY <1>0, NodeFacts
  <2> QED
    BY <2>1, <1>6, <1>7, <1>8, <1>10, <1>11 DEF Near
<1> QED
  BY <1>6, <1>7, <1>12, <1>13 DEF S

(* After MergeDown only the block that holds base may touch the next one.  *)
LEMMA MergeDownNear ==
    ASSUME N \in Nat \ {0}, NEW a, NEW base, Near(a, base, base), base \in Marked(a),
           NEW m, m = MergeDown(a, base)
    PROVE  /\ Near(m.a, m.base, N) /\ m.base \in Marked(m.a) /\ m.a.nr_free = a.nr_free
           /\ \A x \in Page : InBlock(m.a, x) <=> InBlock(a, x)
<1> DEFINE p == a.prev[base]
<1>0. /\ AreaType(a) /\ Ring(a.next, a.prev, Marked(a)) /\ Marked(a) \subseteq Page /\ Page \subseteq Nat
      /\ \A x, y \in Marked(a) : x < y => /\ x + a.property[x] <= y
                                          /\ x + a.property[x] = y => x = base \/ y = base
      /\ a.property \in [Page -> Nat] /\ Head = N /\ base \in Page /\ base \in Nat
      /\ \A x \in Marked(a) : a.property[x] >= 1 /\ x + a.property[x] <= N
  BY NodeFacts DEF Near, Marked, AreaType, Head
<1>1. /\ p \in Marked(a) \cup {N} /\ a.next[p] = base
      /\ p = N => \A x \in Marked(a) : base <= x
      /\ p # N => p < base /\ \A x \in Marked(a) : x <= p \/ base <= x
  <2>1. p \in Marked(a) \cup {N} /\ a.next[p] = base
    BY <1>0 DEF Ring
  <2> HIDE DEF p
  <2> QED
    BY <2>1, <1>0 DEF Ring
<1>1a. MergeDown(a, base) = IF p = Head \/ p + a.property[p] # base THEN [a |-> a, base |-> base]
                            ELSE [a |-> Absorb(a, p, base), base |-> p]
  BY DEF MergeDown, Absorb
<1> HIDE DEF p
<1>2. CASE p = Head \/ p + a.property[p] # base
  <2>1. m = [a |-> a, base |-> base]
    BY <1>2, <1>1a
  <2>2. ASSUME NEW x \in Marked(a), x < base PROVE x + a.property[x] # base
    <3>1. p # N
      <4> SUFFICES ASSUME p = N PROVE FALSE
        OBVIOUS
      <4>1. base <= x
        BY <1>1
      <4> QED
        BY <4>1, <2>2, <1>0
    <3>2. p \in Marked(a) /\ p < base /\ (x <= p \/ base <= x)
      BY <3>1, <1>1
    <3>3. x <= p /\ p + a.property[p] # base /\ x \in Nat /\ p \in Nat /\ base \in Nat /\ a.property[x] \in Nat
      BY <3>1, <3>2, <2>2, <1>2, <1>0
    <3>4. CASE x = p
      BY <3>3, <3>4
    <3>5. CASE x # p
      <4>1. x + a.property[x] <= p
        BY <3>2, <3>3, <3>5, <1>0
      <4> QED
        BY <4>1, <3>2, <3>3
    <3> QED
      BY <3>4, <3>5
  <2>3. Near(a, base, N)
    <3>1. \A x, y \in Marked(a) : x < y => /\ x + a.property[x] <= y
                                           /\ x + a.property[x] = y => x = base \/ y = N
      <4> SUFFICES ASSUME NEW x \in Marked(a), NEW y \in Marked(a), x < y
                   PROVE  x + a.property[x] <= y /\ (x + a.property[x] = y => x = base \/ y = N)
        OBVIOUS
      <4>1. x + a.property[x] <= y /\ (x + a.property[x] = y => x = base \/ y = base)
        BY <1>0
      <4>2. x < base => x + a.property[x] # base
        BY <2>2
      <4> QED
        BY <4>1, <4>2
    <3> QED
      BY <3>1, <1>0 DEF Near
  <2> QED
    BY <2>1, <2>3
<1>3. CASE p # Head /\ p + a.property[p] = base
  <2>0. p \in Marked(a) /\ p < base
    BY <1>0, <1>1, <1>3
  <2>1. m = [a |-> Absorb(a, p, base), base |-> p]
    BY <1>3, <1>1a
  <2>2. \A x, y \in Marked(a) \ {base} :
            ((x # p /\ x + a.property[x] = y) \/ (x = p /\ base + a.property[base] = y)) => x = p
    <3> SUFFICES ASSUME NEW x \in Marked(a) \ {base}, NEW y \in Marked(a) \ {base}, x # p, x + a.property[x] = y
                 PROVE  FALSE
      OBVIOUS
    <3>1. x \in Nat /\ a.property[x] >= 1 /\ a.property[x] \in Nat /\ y \in Nat
      BY <1>0
    <3>2. x < y
      BY <3>1
    <3> QED
      BY <3>2, <1>0
  <2>3. /\ Near(m.a, p, N) /\ Marked(m.a) = Marked(a) \ {base} /\ m.a.nr_free = a.nr_free
        /\ \A x \in Page : InBlock(m.a, x) <=> InBlock(a, x)
    <3>1. m.a = Absorb(a, p, base)
      BY <2>1
    <3> QED
      BY <2>0, <2>2, <3>1, <1>3, AbsorbNear
  <2>4. m.base = p /\ p # base
    BY <2>0, <2>1, <1>0
  <2> QED
    BY <2>0, <2>3, <2>4
<1> QED
  BY <1>2, <1>3

(* After MergeUp no two blocks touch.                                      *)
LEMMA MergeUpNear ==
    ASSUME N \in Nat \ {0}, NEW a, NEW base, Near(a, base, N), base \in Marked(a),
           NEW c, c = MergeUp(a, base)
    PROVE  /\ Near(c, N, N) /\ c.nr_free = a.nr_free
           /\ \A x \in Page : InBlock(c, x) <=> InBlock(a, x)
<1> DEFINE q == a.next[base]
<1>0. /\ AreaType(a) /\ Ring(a.next, a.prev, Marked(a)) /\ Marked(a) \subseteq Page /\ Page \subseteq Nat
      /\ \A x, y \in Marked(a) : x < y => /\ x + a.property[x] <= y
                                          /\ x + a.property[x] = y => x = base
      /\ a.property \in [Page -> Nat] /\ Head = N /\ N \notin Page /\ base \in Page /\ base \in Nat
      /\ \A x \in Marked(a) : a.property[x] >= 1 /\ x + a.property[x] <= N
  BY NodeFacts DEF Near, Marked, AreaType, Head
<1>1. q \in Marked(a) \cup {N} /\ a.prev[q] = base /\ base < q
  BY <1>0 DEF Ring
<1>2. CASE q = Head \/ base + a.property[base] # q
  <2>1. c = a
    BY <1>2 DEF MergeUp
  <2>2. ASSUME NEW y \in Marked(a), base < y PROVE base + a.property[base] # y
    <3>1. y <= base \/ q <= y
      BY <1>0 DEF Ring
    <3>2. base \in Nat /\ y \in Nat /\ y < N /\ q \in Nat /\ base \in Page /\ a.property[base] \in Nat
      BY <1>0, <1>1, NodeFacts
    <3>3. q <= y
      BY <3>1, <3>2, <2>2
    <3>4. q # N /\ q \in Marked(a)
      BY <3>2, <3>3, <1>1
    <3>5. base + a.property[base] <= q
      BY <3>4, <1>0, <1>1
    <3>6. base + a.property[base] # q
      BY <3>4, <1>2, <1>0
    <3> QED
      BY <3>2, <3>3, <3>5, <3>6
  <2>3. Near(a, N, N)
    <3>1. \A x, y \in Marked(a) : x < y => /\ x + a.property[x] <= y
                                           /\ x + a.property[x] = y => x = N \/ y = N
      BY <2>2, <1>0
    <3> QED
      BY <3>1, <1>0 DEF Near
  <2> QED
    BY <2>1, <2>3
<1>3. CASE q # Head /\ base + a.property[base] = q
  <2>0. q \in Marked(a) /\ base < q /\ base \in Nat /\ q \in Nat /\ base # q
    BY <1>0, <1>1, <1>3
  <2>1. c = Absorb(a, base, q)
    BY <1>3 DEF MergeUp, Absorb
  <2>2. \A x, y \in Marked(a) \ {q} :
            ((x # base /\ x + a.property[x] = y) \/ (x = base /\ q + a.property[q] = y)) => x = N
    <3> SUFFICES ASSUME NEW x \in Marked(a) \ {q}, NEW y \in Marked(a) \ {q},
                        (x # base /\ x + a.property[x] = y) \/ (x = base /\ q + a.property[q] = y)
                 PROVE  FALSE
      OBVIOUS
    <3>1. x \in Nat /\ a.property[x] >= 1 /\ a.property[x] \in Nat /\ y \in Nat /\ a.property[q] >= 1
          /\ a.property[q] \in Nat
      BY <1>0, <2>0
    <3>2. CASE x # base
      BY <3>1, <3>2, <1>0
    <3>3. CASE x = base
      BY <3>1, <3>3, <2>0, <1>0
    <3> QED
      BY <3>2, <3>3
  <2> HIDE DEF q
  <2> QED
    BY <2>0, <2>1, <2>2, <1>3, AbsorbNear
<1> QED
  BY <1>2, <1>3

---------------------------------------------------------------------------
(* free_pages as a whole.                                                  *)
LEMMA FreeNear ==
    ASSUME N \in Nat \ {0}, NEW a, Near(a, N, N), NEW base \in Page, NEW n \in Nat \ {0}, base + n <= N,
           \A x \in Page : base <= x /\ x < base + n => ~ InBlock(a, x),
           NEW t \in Marked(a), base < t,
           NEW m, m = MergeDown(Link(Fresh(a, base, n), base), base), NEW c, c = MergeUp(m.a, m.base)
    PROVE  /\ LinkEnds(Fresh(a, base, n), base)
           /\ Near(c, N, N) /\ c.nr_free = a.nr_free + n
           /\ \A x \in Page : InBlock(c, x) <=> InBlock(a, x) \/ (base <= x /\ x < base + n)
<1>1. PICK b : b = Link(Fresh(a, base, n), base)
  OBVIOUS
<1>2. /\ LinkEnds(Fresh(a, base, n), base)
      /\ Near(b, base, base) /\ base \in Marked(b) /\ b.nr_free = a.nr_free + n
      /\ \A x \in Page : InBlock(b, x) <=> InBlock(a, x) \/ (base <= x /\ x < base + n)
  BY <1>1, LinkNear
<1>3. m = MergeDown(b, base)
  BY <1>1
<1>4. /\ Near(m.a, m.base, N) /\ m.base \in Marked(m.a) /\ m.a.nr_free = b.nr_free
      /\ \A x \in Page : InBlock(m.a, x) <=> InBlock(b, x)
  BY <1>2, <1>3, MergeDownNear
<1>5. /\ Near(c, N, N) /\ c.nr_free = m.a.nr_free
      /\ \A x \in Page : InBlock(c, x) <=> InBlock(m.a, x)
  BY <1>4, MergeUpNear
<1> QED
  BY <1>2, <1>4, <1>5

(* The first n pages of a block are taken: the rest of it has its place.   *)
LEMMA TakeNear ==
    ASSUME N \in Nat \ {0}, NEW a, Near(a, N, N), NEW page \in Marked(a), NEW n \in Nat \ {0},
           n <= a.property[page], n <= a.nr_free, NEW c, c = Take(a, page, n)
    PROVE  /\ Near(c, N, N) /\ c.nr_free = a.nr_free - n
           /\ \A x \in Page : InBlock(c, x) <=> InBlock(a, x) /\ ~(page <= x /\ x < page + n)
<1> DEFINE S == Marked(a)
           b == ListDel(a, page)
           T == (S \ {page}) \cup {x \in Page : x = page + n /\ a.property[page] # n}
<1>0. /\ AreaType(a) /\ Ring(a.next, a.prev, S) /\ S \subseteq Page /\ Page \subseteq Nat /\ N \notin Page
      /\ \A x \in S : a.property[x] >= 1 /\ x + a.property[x] <= N
      /\ \A x, y \in S : x < y => x + a.property[x] < y
      /\ a.property \in [Page -> Nat] /\ a.flag \in [Page -> BOOLEAN] /\ a.nr_free \in Nat
      /\ page \in S /\ page \in Page /\ page \in Nat /\ a.property[page] \in Nat /\ page + a.property[page] <= N
  <2>1. \A x, y \in S : x < y => x + a.property[x] < y
    BY NodeFacts DEF Near, Marked, AreaType
  <2> QED
    BY <2>1, NodeFacts DEF Near, Marked, AreaType
<1>1. page \in Node
  BY <1>0, NodeFacts
<1>2. SameBlocks(a, b) /\ Removed(a.next, a.prev, page, b.next, b.prev)
  BY <1>0, <1>1, ListDelFields
<1>3. c = LET rest == [b EXCEPT !.property[page + n] = a.property[page] - n, !.flag[page + n] = TRUE]
              d == IF a.property[page] = n THEN b ELSE ListAddAfter(rest, a.prev[page], page + n)
          IN  [d EXCEPT !.nr_free = @ - n, !.flag[page] = FALSE]
  BY DEF Take
<1> HIDE DEF S, b
<1>4. Ring(b.next, b.prev, S \ {page})
  BY <1>0, <1>2, RingDelete
<1>5. AreaType(b) /\ b.property = a.property /\ b.flag = a.flag /\ b.nr_free = a.nr_free
  BY <1>2 DEF SameBlocks
<1>6. a.property[page] # n => page + n \in Page /\ page + n \notin S
  <2> SUFFICES ASSUME n < a.property[page] PROVE page + n \in Page /\ page + n \notin S
    BY <1>0
  <2>1. page + n \in Nat /\ page + n < N
    BY <1>0
  <2>2. ASSUME page + n \in S PROVE FALSE
    <3>1. page + a.property[page] < page + n
      BY <2>2, <1>0
    <3> QED
      BY <3>1, <1>0
  <2> QED
    BY <2>1, <2>2, NodeFacts
<1>7. PICK d : d = IF a.property[page] = n THEN b
                   ELSE ListAddAfter([b EXCEPT !.property[page + n] = a.property[page] - n, !.flag[page + n] = TRUE],
                                     a.prev[page], page + n)
  OBVIOUS
<1>8. c = [d EXCEPT !.nr_free = @ - n, !.flag[page] = FALSE]
  BY <1>3, <1>7
<1>9. /\ AreaType(d) /\ Ring(d.next, d.prev, T) /\ d.nr_free = a.nr_free
      /\ \A x \in Page : d.flag[x] <=> a.flag[x] \/ x \in T
      /\ \A x \in T : d.property[x] = IF x \in S THEN a.property[x] ELSE a.property[page] - n
  <2>1. CASE a.property[page] = n
    <3>1. d = b /\ T = S \ {page}
      BY <2>1, <1>7
    <3>2. \A x \in S : a.flag[x]
      BY DEF S, Marked
    <3>3. AreaType(d) /\ d.nr_free = a.nr_free
      BY <3>1, <1>5
    <3>4. Ring(d.next, d.prev, T)
      BY <3>1, <1>4
    <3>5. \A x \in Page : d.flag[x] <=> a.flag[x] \/ x \in T
      BY <3>1, <3>2, <1>5
    <3>6. \A x \in T : d.property[x] = IF x \in S THEN a.property[x] ELSE a.property[page] - n
      BY <3>1, <1>5
    <3> QED
      BY <3>3, <3>4, <3>5, <3>6
  <2>2. CASE a.property[page] # n
    <3> DEFINE e == page + n
               r == a.property[page] - n
               pr == [b.property EXCEPT ![e] = r]
               fl == [b.flag EXCEPT ![e] = TRUE]
               at == a.next[page]
    <3>0. e \in Page /\ e \notin S /\ e \in Node /\ r \in Nat /\ e \in Nat
      <4>1. e \in Page /\ e \notin S
        BY <2>2, <1>6
      <4> QED
        BY <4>1, <2>2, <1>0, NodeFacts
    <3>1. PICK rest : rest = [b EXCEPT !.property[e] = r, !.flag[e] = TRUE]
      OBVIOUS
    <3>2. d = ListAddAfter(rest, a.prev[page], e)
      BY <3>1, <2>2, <1>7
    <3>3. T = (S \ {page}) \cup {e}
      BY <3>0, <2>2
    <3>4. b = [next |-> b.next, prev |-> b.prev, property |-> b.property, flag |-> b.flag, nr_free |-> b.nr_free]
      BY <1>5 DEF AreaType
    <3>5. rest = [next |-> b.next, prev |-> b.prev, property |-> pr, flag |-> fl, nr_free |-> b.nr_free]
      BY <3>1, <3>4
    <3>6. /\ pr \in [Page -> Nat] /\ fl \in [Page -> BOOLEAN]
          /\ \A x \in Page : pr[x] = IF x = e THEN r ELSE a.property[x]
          /\ \A x \in Page : fl[x] <=> x = e \/ a.flag[x]
      BY <3>0, <1>0, <1>5
    <3> HIDE DEF pr, fl, e, r
    <3>7. /\ AreaType(rest) /\ rest.next = b.next /\ rest.prev = b.prev /\ rest.property = pr /\ rest.flag = fl
          /\ rest.nr_free = a.nr_free
      BY <3>5, <3>6, <1>5 DEF AreaType
    <3>8. /\ at \in (S \ {page}) \cup {N} /\ page < at /\ a.prev[page] \in (S \ {page}) \cup {N}
          /\ a.prev[page] = N \/ a.prev[page] < page
      <4>1. at \in S \cup {N} /\ page < at
        BY <1>0 DEF Ring
      <4>2. a.prev[page] \in S \cup {N} /\ a.next[a.prev[page]] = page /\ \A x \in S : x < a.next[x]
        BY <1>0 DEF Ring
      <4>3. a.prev[page] # N => a.prev[page] < page
        BY <4>2
      <4> QED
        BY <4>1, <4>2, <4>3, <1>0
    <3>9. at \in Node /\ a.prev[page] \in Node /\ a.prev \in [Node -> Node] /\ a.next \in [Node -> Node]
      BY <1>0, <1>1 DEF AreaType
    <3>10. b.next[a.prev[page]] = at /\ b.prev[at] = a.prev[page]
      BY <3>9, <1>2 DEF Removed
    <3>11. e < at
      <4>1. e < page + a.property[page]
        BY <2>2, <1>0 DEF e
      <4>2. page + a.property[page] <= at
        <5>1. CASE at = N
          BY <5>1, <1>0
        <5>2. CASE at \in S
          <6>1. page + a.property[page] < at /\ at \in Nat
            BY <5>2, <3>8, <1>0
          <6> QED
            BY <6>1, <1>0
        <5> QED
          BY <5>1, <5>2, <3>8
      <4>3. at \in Nat
        BY <3>8, <1>0
      <4> QED
        BY <4>1, <4>2, <4>3, <1>0, <3>0
    <3>12. b.prev[at] = N \/ b.prev[at] < e
      <4>1. page < e
        BY <1>0 DEF e
      <4>2. a.prev[page] \in Nat
        BY <3>8, <1>0
      <4> QED
        BY <4>1, <4>2, <3>0, <3>8, <3>10, <1>0
    <3>13. d = ListAdd(rest, e, a.prev[page], at)
      BY <3>2, <3>7, <3>10 DEF ListAddAfter
    <3>14. SameBlocks(rest, d) /\ Inserted(b.next, b.prev, e, b.prev[at], at, d.next, d.prev)
      <4>1. SameBlocks(rest, d) /\ Inserted(rest.next, rest.prev, e, a.prev[page], at, d.next, d.prev)
        BY <3>0, <3>7, <3>9, <3>13, ListAddFields
      <4> QED
        BY <4>1, <3>7, <3>10
    <3>15. Ring(d.next, d.prev, (S \ {page}) \cup {e})
      <4>1. e \notin S \ {page}
        BY <3>0
      <4> HIDE DEF at
      <4> QED
        BY <4>1, <3>0, <3>8, <3>11, <3>12, <3>14, <1>4, RingInsert
    <3>16. AreaType(d) /\ d.property = pr /\ d.flag = fl /\ d.nr_free = a.nr_free
      BY <3>7, <3>14 DEF SameBlocks
    <3>17. \A x \in Page : d.flag[x] <=> a.flag[x] \/ x \in T
      <4>1. \A x \in S : a.flag[x]
        BY DEF S, Marked
      <4> QED
        BY <4>1, <3>3, <3>6, <3>16
    <3>18. \A x \in T : d.property[x] = IF x \in S THEN a.property[x] ELSE r
      <4>1. S \subseteq Page
        BY <1>0
      <4> QED
        BY <4>1, <3>0, <3>3, <3>6, <3>16
    <3> HIDE DEF T
    <3>19. Ring(d.next, d.prev, T)
      BY <3>3, <3>15
    <3>20. \A x \in T : d.property[x] = IF x \in S THEN a.property[x] ELSE a.property[page] - n
      BY <3>18 DEF r
    <3> QED
      BY <3>16, <3>17, <3>19, <3>20
  <2> QED
    BY <2>1, <2>2
<1> HIDE DEF T
<1>10. /\ AreaType(c) /\ c.next = d.next /\ c.prev = d.prev /\ c.property = d.property
       /\ c.nr_free = a.nr_free - n
       /\ \A x \in Page : c.flag[x] <=> x # page /\ d.flag[x]
  <2> DEFINE fl == [d.flag EXCEPT ![page] = FALSE]
  <2>1. d = [next |-> d.next, prev |-> d.prev, property |-> d.property, flag |-> d.flag, nr_free |-> d.nr_free]
    BY <1>9 DEF AreaType
  <2>2. c = [next |-> d.next, prev |-> d.prev, property |-> d.property, flag |-> fl, nr_free |-> d.nr_free - n]
    BY <2>1, <1>8
  <2>3. fl \in [Page -> BOOLEAN] /\ \A x \in Page : fl[x] <=> x # page /\ d.flag[x]
    BY <1>9 DEF AreaType
  <2>4. d.nr_free - n \in Nat
    BY <1>9, <1>0
  <2> HIDE DEF fl
  <2> QED
    BY <2>2, <2>3, <2>4, <1>9 DEF AreaType
<1>11. Marked(c) = T
  <2>1. T \subseteq Page /\ page \notin T
    <3>1. S \subseteq Page
      BY <1>0
    <3>2. page # page + n
      BY <1>0
    <3> QED
      BY <3>1, <3>2 DEF T
  <2>2. \A x \in Page : x # page => (a.flag[x] => x \in T)
    BY DEF T, S, Marked
  <2> QED
    BY <2>1, <2>2, <1>9, <1>10 DEF Marked
<1>12. \A x \in T : (x \in S /\ x # page) \/ (x = page + n /\ n < a.property[page] /\ x \notin S)
  BY <1>0, <1>6 DEF T
<1>13. \A x \in T : c.property[x] = IF x \in S THEN a.property[x] ELSE a.property[page] - n
  BY <1>9, <1>10
<1>13a. \A x \in T : x \in Page /\ x \in Nat /\ x # N /\ c.property[x] \in Nat
  <2> SUFFICES ASSUME NEW x \in T PROVE x \in Page /\ x \in Nat /\ x # N /\ c.property[x] \in Nat
    OBVIOUS
  <2>1. x \in Page
    BY <1>11 DEF Marked
  <2> QED
    BY <2>1, <1>0, <1>10 DEF AreaType
<1>14. \A x \in T : c.property[x] >= 1 /\ x + c.property[x] <= N
  <2> SUFFICES ASSUME NEW x \in T PROVE c.property[x] >= 1 /\ x + c.property[x] <= N
    OBVIOUS
  <2>1. CASE x \in S
    BY <2>1, <1>0, <1>13
  <2>2. CASE x \notin S
    BY <2>2, <1>0, <1>12, <1>13
  <2> QED
    BY <2>1, <2>2
<1>15. \A x \in S : x # page => (x < page /\ x + a.property[x] < page) \/ page + a.property[page] < x
  <2> SUFFICES ASSUME NEW x \in S, x # page
               PROVE  (x < page /\ x + a.property[x] < page) \/ page + a.property[page] < x
    OBVIOUS
  <2>1. x \in Nat
    BY <1>0
  <2>2. CASE x < page
    BY <2>2, <1>0
  <2>3. CASE page < x
    BY <2>3, <1>0
  <2> QED
    BY <2>1, <2>2, <2>3, <1>0
<1>16. \A x, y \in T : x < y => x + c.property[x] < y
  <2> SUFFICES ASSUME NEW x \in T, NEW y \in T, x < y PROVE x + c.property[x] < y
    OBVIOUS
  <2>0. x \in Nat /\ y \in Nat
    BY <1>13a
  <2>1. CASE x \in S /\ y \in S
    BY <2>1, <1>0, <1>13
  <2>2. CASE x \notin S
    <3>1. x = page + n /\ n < a.property[page] /\ c.property[x] = a.property[page] - n
      BY <2>2, <1>12, <1>13
    <3>2. y \in S /\ y # page
      BY <3>1, <1>12, <2>0
    <3>3. page + a.property[page] < y
      BY <3>1, <3>2, <1>15, <1>0, <2>0
    <3> QED
      BY <3>1, <3>3, <1>0
  <2>3. CASE x \in S /\ y \notin S
    <3>1. y = page + n /\ n < a.property[page] /\ c.property[x] = a.property[x] /\ x # page
      BY <2>3, <1>12, <1>13
    <3>2. a.property[x] \in Nat
      BY <2>3, <1>0
    <3>3. x < page /\ x + a.property[x] < page
      BY <3>1, <2>3, <1>15, <1>0, <2>0
    <3> QED
      BY <3>1, <3>2, <3>3, <1>0, <2>0
  <2> QED
    BY <2>1, <2>2, <2>3
<1>17. Near(c, N, N)
  <2>1. Ring(c.next, c.prev, T)
    BY <1>9, <1>10
  <2>3. \A x, y \in T : x < y => /\ x + c.property[x] <= y
                                 /\ x + c.property[x] = y => x = N \/ y = N
    BY <1>16, <1>13a
  <2> QED
    BY <2>1, <2>3, <1>10, <1>11, <1>14 DEF Near
<1>18. \A x \in Page : InBlock(c, x) <=> InBlock(a, x) /\ ~(page <= x /\ x < page + n)
  <2> SUFFICES ASSUME NEW x \in Page
               PROVE  InBlock(c, x) <=> InBlock(a, x) /\ ~(page <= x /\ x < page + n)
    OBVIOUS
  <2>0. x \in Nat
    BY <1>0
  <2>1. ASSUME InBlock(c, x) PROVE InBlock(a, x) /\ ~(page <= x /\ x < page + n)
    <3>1. PICK y \in T : y <= x /\ x < y + c.property[y]
      BY <2>1, <1>11 DEF InBlock
    <3>2. CASE y \in S
      <4>1. y # page /\ c.property[y] = a.property[y] /\ y \in Nat /\ a.property[y] \in Nat
        BY <3>2, <1>12, <1>13, <1>0
      <4>2. InBlock(a, x)
        BY <3>1, <3>2, <4>1 DEF InBlock, S
      <4>3. ~(page <= x /\ x < page + n)
        BY <3>1, <3>2, <4>1, <1>15, <1>0, <2>0
      <4> QED
        BY <4>2, <4>3
    <3>3. CASE y \notin S
      <4>1. y = page + n /\ n < a.property[page] /\ c.property[y] = a.property[page] - n
        BY <3>3, <1>12, <1>13
      <4>2. page <= x /\ x < page + a.property[page] /\ ~(x < page + n)
        BY <4>1, <3>1, <2>0, <1>0
      <4> QED
        BY <4>2, <1>0 DEF InBlock, S
    <3> QED
      BY <3>2, <3>3
  <2>2. ASSUME InBlock(a, x), ~(page <= x /\ x < page + n) PROVE InBlock(c, x)
    <3>1. PICK y \in S : y <= x /\ x < y + a.property[y]
      BY <2>2 DEF InBlock, S
    <3>2. CASE y = page
      <4>1. page + n <= x /\ x < page + a.property[page] /\ n # a.property[page]
        BY <3>1, <3>2, <2>2, <2>0, <1>0
      <4>2. page + n \in T /\ page + n \notin S
        BY <4>1, <1>6 DEF T
      <4>3. c.property[page + n] = a.property[page] - n
        BY <4>2, <1>13
      <4>4. page + n <= x /\ x < (page + n) + c.property[page + n]
        BY <4>1, <4>3, <1>0, <2>0
      <4> QED
        BY <4>2, <4>4, <1>11 DEF InBlock
    <3>3. CASE y # page
      <4>1. y \in T
        BY <3>3 DEF T
      <4> QED
        BY <4>1, <3>1, <1>11, <1>13 DEF InBlock
    <3> QED
      BY <3>2, <3>3
  <2> QED
    BY <2>1, <2>2
<1> QED
  BY <1>10, <1>17, <1>18

---------------------------------------------------------------------------
(* The pages of the list's blocks.                                         *)
LEMMA FreeSet ==
    ASSUME N \in Nat \ {0}, NEW a, Near(a, N, N), NEW S, S = {Walk(a)[k] : k \in 0 .. N} \ {Head}
    PROVE  /\ S = Marked(a)
           /\ UNION {p .. p + a.property[p] - 1 : p \in S} = {x \in Page : InBlock(a, x)}
<1>1. /\ Ring(a.next, a.prev, Marked(a)) /\ Marked(a) \subseteq Page /\ Page \subseteq Nat
      /\ \A p \in Marked(a) : a.property[p] \in Nat /\ p + a.property[p] <= N
  BY NodeFacts DEF Near, Marked, AreaType
<1>2. S = Marked(a)
  BY <1>1, WalkSet
<1>3. ASSUME NEW p \in Marked(a), NEW x \in p .. p + a.property[p] - 1
      PROVE  x \in Page /\ p <= x /\ x < p + a.property[p]
  <2>1. p \in Nat /\ a.property[p] \in Nat /\ p + a.property[p] <= N
    BY <1>1
  <2>2. x \in Nat /\ x < N /\ p <= x /\ x < p + a.property[p]
    BY <1>3, <2>1
  <2> QED
    BY <2>2, NodeFacts
<1>4. ASSUME NEW p \in Marked(a), NEW x \in Page, p <= x, x < p + a.property[p]
      PROVE  x \in p .. p + a.property[p] - 1
  <2>1. p \in Nat /\ x \in Nat /\ a.property[p] \in Nat
    BY <1>1
  <2> QED
    BY <2>1, <1>4
<1> QED
  BY <1>2, <1>3, <1>4 DEF InBlock

(* The block alloc_pages takes exists if one is large enough: the choice   *)
(* of the first, or of the first of the smallest, is well defined.         *)
LEMMA ChosenFits ==
    ASSUME N \in Nat \ {0}, Near(area, N, N), NEW n \in Nat, Large(n) # {}
    PROVE  Chosen(n) \in Marked(area) /\ n <= area.property[Chosen(n)]
<1> DEFINE w == Walk(area)
           size(k) == area.property[w[k]]
           L == Large(n)
<1>0. /\ Ring(area.next, area.prev, Marked(area)) /\ Head = N
      /\ \A p \in Marked(area) : area.property[p] \in Nat
  BY DEF Near, Marked, AreaType, Head
<1>1. \A k \in 0 .. N : w[k] \in Marked(area) \cup {N}
  BY <1>0, WalkRing
<1>2. L = {k \in 0 .. N : w[k] # N /\ size(k) >= n}
  BY <1>0 DEF Large
<1>3. \A j, k : Better(j, k) <=> fit = "best" /\ size(j) < size(k)
  BY DEF Better
<1>4. Chosen(n) = w[CHOOSE k \in L : \A j \in L \ {k} : Better(k, j) \/ (k < j /\ ~ Better(j, k))]
  BY DEF Chosen
<1> HIDE DEF w, L
<1>5. L \in SUBSET Nat /\ L # {} /\ \A k \in L : w[k] \in Marked(area) /\ size(k) \in Nat /\ size(k) >= n
  <2>1. L # {} /\ L \subseteq 0 .. N
    BY <1>2 DEF L
  <2> QED
    BY <2>1, <1>0, <1>1, <1>2
<1> HIDE DEF size
<1>6. \E k \in L : \A j \in L \ {k} : Better(k, j) \/ (k < j /\ ~ Better(j, k))
  <2>1. CASE fit # "best"
    <3>1. PICK k \in L : \A j \in L : k <= j
      BY <1>5, Least
    <3>2. \A j \in L \ {k} : k < j /\ ~ Better(j, k)
      BY <3>1, <2>1, <1>3, <1>5
    <3> QED
      BY <3>2
  <2>2. CASE fit = "best"
    <3> DEFINE P == {size(k) : k \in L}
    <3>1. P \in SUBSET Nat /\ P # {}
      BY <1>5
    <3>2. PICK s \in P : \A r \in P : s <= r
      <4> HIDE DEF P
      <4> QED
        BY <3>1, Least
    <3> DEFINE K == {k \in L : size(k) = s}
    <3>3. K \in SUBSET Nat /\ K # {}
      BY <3>2, <1>5
    <3>4. PICK k \in K : \A j \in K : k <= j
      <4> HIDE DEF K
      <4> QED
        BY <3>3, Least
    <3>5. ASSUME NEW j \in L \ {k} PROVE Better(k, j) \/ (k < j /\ ~ Better(j, k))
      <4>1. size(j) \in P /\ s <= size(j) /\ size(k) = s /\ k \in L
        BY <3>2, <3>4
      <4>2. size(j) \in Nat /\ size(k) \in Nat /\ j \in Nat /\ k \in Nat
        BY <4>1, <1>5
      <4>3. CASE s < size(j)
        BY <4>1, <4>3, <2>2, <1>3
      <4>4. CASE s = size(j)
        <5>1. j \in K /\ k <= j
          BY <4>4, <3>4
        <5>2. ~ Better(j, k)
          BY <4>1, <4>2, <4>4, <1>3
        <5> QED
          BY <5>1, <5>2, <4>2
      <4> QED
        BY <4>1, <4>2, <4>3, <4>4
    <3> QED
      BY <3>4, <3>5
  <2> QED
    BY <2>1, <2>2
<1> DEFINE k0 == CHOOSE k \in L : \A j \in L \ {k} : Better(k, j) \/ (k < j /\ ~ Better(j, k))
<1>7. k0 \in L
  BY <1>6
<1> HIDE DEF k0
<1>8. Chosen(n) = w[k0]
  BY <1>4 DEF k0
<1> QED
  BY <1>5, <1>7, <1>8 DEF size

---------------------------------------------------------------------------
(* The inductive invariant.  The list is the ring of the marked blocks,    *)
(* which do not touch; callers hold disjoint blocks below the last page; a *)
(* page is in a free block or held, never both; nr_free counts the pages   *)
(* that are not held.                                                      *)
Holds(g, x) == g[1] <= x /\ x < g[1] + g[2]
GivenOK ==
    /\ given \subseteq Page \X (1 .. N)
    /\ \A g \in given : g[1] + g[2] < N
    /\ \A g, h \in given : \A x \in Page : Holds(g, x) /\ Holds(h, x) => g = h
Partition == \A x \in Page : InBlock(area, x) <=> ~ \E g \in given : Holds(g, x)
Counted == area.nr_free = N - Cardinality({x \in Page : \E g \in given : Holds(g, x)})
ListInv == Near(area, N, N) /\ GivenOK /\ Partition /\ Counted /\ halt = "none"

(* The pages of the callers.                                               *)
LEMMA HoldsRun ==
    ASSUME N \in Nat \ {0}, GivenOK, NEW g \in given
    PROVE  \A x : x \in g[1] .. g[1] + g[2] - 1 <=> x \in Page /\ Holds(g, x)
<1>1. g[1] \in Nat /\ g[2] \in Nat /\ g[1] + g[2] < N
  BY NodeFacts DEF GivenOK
<1> QED
  BY <1>1 DEF Holds, Page

LEMMA GivenPagesAre ==
    ASSUME N \in Nat \ {0}, GivenOK
    PROVE  GivenPages = {x \in Page : \E g \in given : Holds(g, x)}
BY HoldsRun DEF GivenPages

(* The invariant holds once all pages are in one block.                    *)
LEMMA ListInvInit ==
    ASSUME N \in Nat \ {0}, Init
    PROVE  ListInv
<1> DEFINE e == [next |-> [l \in Node |-> l], prev |-> [l \in Node |-> l],
                 property |-> [p \in Page |-> 0], flag |-> [p \in Page |-> FALSE], nr_free |-> 0]
           f == Fresh(e, 0, N)
<1>0. 0 \in Page /\ 0 \in Node /\ N \in Node /\ Head = N /\ N # 0 /\ Page \subseteq Nat /\ N \notin Page
  BY NodeFacts DEF Head
<1>1. AreaType(e) /\ Marked(e) = {} /\ e.nr_free = 0
  BY DEF AreaType, Marked
<1>2. Ring(e.next, e.prev, {})
  BY <1>0 DEF Ring
<1>3. e.next[N] = N /\ e.prev[N] = N
  BY <1>0
<1>4. area = Link(f, 0) /\ given = {} /\ halt = "none"
  BY DEF Init
<1>5. Freshened(e, 0, N, f)
  <2> HIDE DEF e
  <2> QED
    BY <1>0, <1>1, FreshFields
<1> HIDE DEF e, f
<1>6. /\ AreaType(f) /\ f.next = e.next /\ f.prev = e.prev /\ f.nr_free = N /\ Marked(f) = {0}
      /\ f.property[0] = N
  BY <1>0, <1>1, <1>5 DEF Freshened
<1>7. area = ListAdd(f, 0, N, N)
  <2>1. Link(f, 0) = ListAddAfter(f, Head, 0)
    BY <1>0, <1>3, <1>6 DEF Link
  <2> QED
    BY <2>1, <1>0, <1>3, <1>4, <1>6 DEF ListAddAfter
<1>8. SameBlocks(f, area) /\ Inserted(e.next, e.prev, 0, e.prev[N], N, area.next, area.prev)
  <2>1. SameBlocks(f, area) /\ Inserted(f.next, f.prev, 0, N, N, area.next, area.prev)
    BY <1>0, <1>6, <1>7, ListAddFields
  <2> QED
    BY <2>1, <1>3, <1>6
<1>9. Ring(area.next, area.prev, {} \cup {0})
  <2>1. N \in {} \cup {N} /\ 0 \notin {} /\ 0 < N
    OBVIOUS
  <2> QED
    BY <2>1, <1>0, <1>2, <1>3, <1>8, RingInsert
<1>10. Marked(area) = {0} /\ area.property[0] = N /\ AreaType(area) /\ area.nr_free = N
  BY <1>6, <1>8 DEF SameBlocks, Marked
<1>11. Near(area, N, N)
  <2>1. {} \cup {0} = {0}
    OBVIOUS
  <2> QED
    BY <2>1, <1>9, <1>10 DEF Near
<1>12. Partition
  BY <1>0, <1>4, <1>10, NodeFacts DEF Partition, InBlock
<1>13. Counted
  <2>1. {x \in Page : \E g \in given : Holds(g, x)} = {}
    BY <1>4
  <2> QED
    BY <2>1, <1>10, FS_EmptySet DEF Counted
<1>14. GivenOK
  BY <1>4 DEF GivenOK
<1> QED
  BY <1>4, <1>11, <1>12, <1>13, <1>14 DEF ListInv

---------------------------------------------------------------------------
(* Counting pages: n in a row are n.                                       *)
IsRun(R, b, n) == R = {x \in Page : b <= x /\ x < b + n}
RunCounts(H, R, n) ==
    /\ IsFiniteSet(H) /\ Cardinality(H) \in Nat
    /\ R \cap H = {} => Cardinality(H \cup R) = Cardinality(H) + n
    /\ R \subseteq H => Cardinality(H \ R) = Cardinality(H) - n /\ n <= Cardinality(H)
    /\ Cardinality(Page \ H) = N - Cardinality(H)

LEMMA RunCount ==
    ASSUME N \in Nat \ {0}, NEW H \in SUBSET Page, NEW b \in Nat, NEW n \in Nat \ {0}, b + n <= N,
           NEW R, IsRun(R, b, n)
    PROVE  RunCounts(H, R, n)
<1>1. IsFiniteSet(Page) /\ Cardinality(Page) = N
  BY FS_Interval DEF Page
<1>2. IsFiniteSet(H) /\ Cardinality(H) \in Nat
  BY <1>1, FS_Subset, FS_CardinalityType
<1>3. R = b .. b + n - 1
  BY DEF Page, IsRun
<1>4. IsFiniteSet(R) /\ Cardinality(R) = n
  <2>1. b + n - 1 \in Int /\ b \in Int
    OBVIOUS
  <2>2. IsFiniteSet(b .. b + n - 1) /\ Cardinality(b .. b + n - 1) = n
    BY <2>1, FS_Interval
  <2> QED
    BY <2>2, <1>3
<1>5. R \cap H = {} => Cardinality(H \cup R) = Cardinality(H) + n
  <2> SUFFICES ASSUME R \cap H = {} PROVE Cardinality(H \cup R) = Cardinality(H) + n
    OBVIOUS
  <2>1. Cardinality(H \cup R) = Cardinality(H) + Cardinality(R) - Cardinality(H \cap R)
    BY <1>2, <1>4, FS_Union
  <2>2. H \cap R = {}
    OBVIOUS
  <2>3. Cardinality(H \cap R) = 0
    BY <2>2, FS_EmptySet
  <2> QED
    BY <2>1, <2>3, <1>2, <1>4
<1>6. R \subseteq H => Cardinality(H \ R) = Cardinality(H) - n /\ n <= Cardinality(H)
  <2> SUFFICES ASSUME R \subseteq H PROVE Cardinality(H \ R) = Cardinality(H) - n /\ n <= Cardinality(H)
    OBVIOUS
  <2>1. Cardinality(H \ R) = Cardinality(H) - Cardinality(H \cap R)
    BY <1>2, FS_Difference
  <2>2. H \cap R = R
    OBVIOUS
  <2>3. Cardinality(R) <= Cardinality(H)
    BY <1>2, FS_Subset
  <2> QED
    BY <2>1, <2>2, <2>3, <1>4
<1>7. Cardinality(Page \ H) = N - Cardinality(H)
  <2>1. Cardinality(Page \ H) = Cardinality(Page) - Cardinality(Page \cap H)
    BY <1>1, FS_Difference
  <2>2. Page \cap H = H
    OBVIOUS
  <2> QED
    BY <2>1, <2>2, <1>1
<1> QED
  BY <1>2, <1>5, <1>6, <1>7 DEF RunCounts

(* alloc_pages gives out n pages of a free block.                          *)
LEMMA AllocStep ==
    ASSUME N \in Nat \ {0}, LeaveTop, ListInv, NEW n \in Nat \ {0}, AllocPages(n)
    PROVE  /\ ListInv'
           /\ \E b \in Page :
                 /\ b + n <= N
                 /\ \A x \in Page : b <= x /\ x < b + n => InBlock(area, x)
                 /\ \A x \in Page : InBlock(area', x) <=> InBlock(area, x) /\ ~(b <= x /\ x < b + n)
                 /\ given' = given \cup {<<b, n>>}
<1> DEFINE H == {x \in Page : \E g \in given : Holds(g, x)}
<1>0. Near(area, N, N) /\ GivenOK /\ Partition /\ Counted /\ halt = "none"
  BY DEF ListInv
<1>1. PICK page : page = Chosen(n)
  OBVIOUS
<1>2. /\ n <= area.nr_free /\ Large(n) # {} /\ page + n < N
      /\ area' = Take(area, page, n) /\ given' = given \cup {<<page, n>>} /\ halt' = halt
  BY <1>1 DEF AllocPages
<1>3. page \in Marked(area) /\ n <= area.property[page]
  BY <1>0, <1>1, <1>2, ChosenFits
<1>4. /\ Near(area', N, N) /\ area'.nr_free = area.nr_free - n
      /\ \A x \in Page : InBlock(area', x) <=> InBlock(area, x) /\ ~(page <= x /\ x < page + n)
  BY <1>0, <1>2, <1>3, TakeNear
<1>5. page \in Page /\ page \in Nat /\ Page \subseteq Nat /\ area.property[page] \in Nat /\ n <= N
  <2>1. page \in Page /\ page \in Nat /\ Page \subseteq Nat /\ area.property[page] \in Nat
    BY <1>0, <1>3, NodeFacts DEF Near, Marked, AreaType
  <2> QED
    BY <2>1, <1>2
<1>6. \A x \in Page : page <= x /\ x < page + n => InBlock(area, x)
  <2> SUFFICES ASSUME NEW x \in Page, page <= x, x < page + n PROVE InBlock(area, x)
    OBVIOUS
  <2>1. x \in Nat /\ x < page + area.property[page]
    BY <1>3, <1>5
  <2> QED
    BY <2>1, <1>3 DEF InBlock
<1>7. \A x : Holds(<<page, n>>, x) <=> page <= x /\ x < page + n
  BY DEF Holds
<1>8. GivenOK'
  <2>1. given' \subseteq Page \X (1 .. N)
    BY <1>0, <1>2, <1>5 DEF GivenOK
  <2>2. \A g \in given' : g[1] + g[2] < N
    BY <1>0, <1>2 DEF GivenOK
  <2>3. \A h \in given : \A x \in Page : ~(Holds(h, x) /\ Holds(<<page, n>>, x))
    BY <1>0, <1>6, <1>7 DEF Partition
  <2>4. \A g, h \in given' : \A x \in Page : Holds(g, x) /\ Holds(h, x) => g = h
    BY <2>3, <1>0, <1>2 DEF GivenOK
  <2> QED
    BY <2>1, <2>2, <2>4 DEF GivenOK, Holds
<1>9. \A x \in Page : (\E g \in given' : Holds(g, x)) <=> (\E g \in given : Holds(g, x)) \/ (page <= x /\ x < page + n)
  BY <1>2, <1>7
<1>10. Partition'
  <2>1. \A x \in Page : InBlock(area', x) <=> ~ \E g \in given' : Holds(g, x)
    BY <1>4, <1>9, <1>0 DEF Partition
  <2> QED
    BY <2>1 DEF Partition, InBlock, Marked, Holds
<1>11. Counted'
  <2> DEFINE R == {x \in Page : page <= x /\ x < page + n}
           D == {x \in Page : \E g \in given' : Holds(g, x)}
  <2>1. D = H \cup R
    BY <1>9
  <2>2. R \cap H = {}
    BY <1>0, <1>6 DEF Partition
  <2>3. Cardinality(H \cup R) = Cardinality(H) + n /\ Cardinality(H) \in Nat
    <3>1. H \in SUBSET Page /\ page + n <= N
      BY <1>2, <1>5
    <3>2. IsRun(R, page, n)
      BY DEF IsRun
    <3> HIDE DEF H, R
    <3>3. RunCounts(H, R, n)
      BY <3>1, <3>2, <1>5, RunCount
    <3> QED
      BY <3>3, <2>2 DEF RunCounts
  <2>4. area.nr_free = N - Cardinality(H)
    BY <1>0 DEF Counted
  <2>5. area'.nr_free = N - Cardinality(D)
    <3>1. area.nr_free \in Nat
      BY <1>0 DEF Near, AreaType
    <3> HIDE DEF H, R, D
    <3> QED
      BY <3>1, <2>1, <2>3, <2>4, <1>4
  <2> QED
    BY <2>5 DEF Counted, Holds
<1>12. Near(area, N, N)'
  BY <1>4 DEF Near, Marked, AreaType, Ring, Page, Node
<1>13. ListInv'
  BY <1>0, <1>2, <1>8, <1>10, <1>11, <1>12 DEF ListInv
<1>14. page + n <= N
  BY <1>2, <1>5
<1> QED
  BY <1>2, <1>4, <1>5, <1>6, <1>13, <1>14

(* free_pages finds the place of the block and merges it.                  *)
LEMMA FreeStep ==
    ASSUME N \in Nat \ {0}, ListInv, NEW g \in given, FreePages(g)
    PROVE  /\ ListInv'
           /\ \A x \in Page : InBlock(area', x) <=> InBlock(area, x) \/ Holds(g, x)
           /\ given' = given \ {g} /\ refused' = FALSE
<1> DEFINE H == {x \in Page : \E h \in given : Holds(h, x)}
           R == {x \in Page : g[1] <= x /\ x < g[1] + g[2]}
<1>0. Near(area, N, N) /\ GivenOK /\ Partition /\ Counted /\ halt = "none"
  BY DEF ListInv
<1>1. g[1] \in Page /\ g[1] \in Nat /\ g[2] \in Nat \ {0} /\ g[1] + g[2] < N /\ Page \subseteq Nat
  BY <1>0, NodeFacts DEF GivenOK
<1>2. \A x \in Page : g[1] <= x /\ x < g[1] + g[2] => ~ InBlock(area, x)
  BY <1>0 DEF Partition, Holds
<1>3. \A p \in Marked(area) : area.property[p] \in Nat \ {0} /\ p \in Page /\ p \in Nat
  BY <1>0, <1>1 DEF Near, Marked, AreaType
<1>4. ~ \E p \in g[1] .. g[1] + g[2] - 1 : area.flag[p]
  <2> SUFFICES ASSUME NEW p \in g[1] .. g[1] + g[2] - 1, area.flag[p] PROVE FALSE
    OBVIOUS
  <2>1. p \in Nat /\ p < N /\ g[1] <= p /\ p < g[1] + g[2]
    BY <1>1
  <2>2. p \in Page
    BY <2>1, NodeFacts
  <2>3. p \in Marked(area)
    BY <2>2 DEF Marked
  <2>4. InBlock(area, p)
    BY <2>1, <2>3, <1>3 DEF InBlock
  <2> QED
    BY <2>1, <2>2, <2>4, <1>2
<1>5. PICK t \in Marked(area) : g[1] < t
  <2>1. N - 1 \in Page /\ N - 1 \in Nat
    BY NodeFacts
  <2>2. ASSUME NEW h \in given PROVE ~ Holds(h, N - 1)
    <3>1. h[1] \in Nat /\ h[2] \in Nat /\ h[1] + h[2] < N
      BY <1>0, NodeFacts DEF GivenOK
    <3> QED
      BY <3>1 DEF Holds
  <2>3. InBlock(area, N - 1)
    BY <2>1, <2>2, <1>0 DEF Partition
  <2>4. PICK t \in Marked(area) : t <= N - 1 /\ N - 1 < t + area.property[t]
    BY <2>3 DEF InBlock
  <2>5. ASSUME t <= g[1] PROVE FALSE
    <3>1. g[1] < t + area.property[t]
      BY <2>4, <1>1, <1>3
    <3>2. InBlock(area, g[1])
      BY <3>1, <2>5 DEF InBlock
    <3> QED
      BY <3>2, <1>1, <1>2
  <2> QED
    BY <2>4, <2>5, <1>1, <1>3
<1>6. PICK m : m = MergeDown(Link(Fresh(area, g[1], g[2]), g[1]), g[1])
  OBVIOUS
<1>7. PICK c : c = MergeUp(m.a, m.base)
  OBVIOUS
<1>8. /\ LinkEnds(Fresh(area, g[1], g[2]), g[1])
      /\ Near(c, N, N) /\ c.nr_free = area.nr_free + g[2]
      /\ \A x \in Page : InBlock(c, x) <=> InBlock(area, x) \/ (g[1] <= x /\ x < g[1] + g[2])
  <2>1. g[1] + g[2] <= N
    BY <1>1
  <2> QED
    BY <2>1, <1>0, <1>1, <1>2, <1>5, <1>6, <1>7, FreeNear
<1>9. halt' = "none" /\ area' = c /\ given' = given \ {g} /\ refused' = FALSE
  BY <1>4, <1>6, <1>7, <1>8 DEF FreePages
<1>10. GivenOK'
  <2>1. given' \subseteq given
    BY <1>9
  <2> QED
    BY <2>1, <1>0 DEF GivenOK, Holds
<1>11. \A x \in Page : (\E h \in given' : Holds(h, x)) <=> (\E h \in given : Holds(h, x)) /\ ~ Holds(g, x)
  BY <1>9, <1>0 DEF GivenOK
<1>12. \A x \in Page : InBlock(area', x) <=> InBlock(area, x) \/ Holds(g, x)
  BY <1>8, <1>9 DEF Holds
<1>13. Partition'
  <2>1. \A x \in Page : InBlock(area', x) <=> ~ \E h \in given' : Holds(h, x)
    BY <1>11, <1>12, <1>0 DEF Partition
  <2> QED
    BY <2>1 DEF Partition, InBlock, Marked, Holds
<1>14. Counted'
  <2> DEFINE D == {x \in Page : \E h \in given' : Holds(h, x)}
  <2>1. D = H \ R
    BY <1>11 DEF Holds
  <2>2. R \subseteq H
    BY DEF Holds
  <2>3. Cardinality(H \ R) = Cardinality(H) - g[2] /\ Cardinality(H) \in Nat
    <3>1. H \in SUBSET Page /\ g[1] + g[2] <= N
      BY <1>1
    <3>2. IsRun(R, g[1], g[2])
      BY DEF IsRun
    <3> HIDE DEF H, R
    <3>3. RunCounts(H, R, g[2])
      BY <3>1, <3>2, <1>1, RunCount
    <3> QED
      BY <3>3, <2>2 DEF RunCounts
  <2>4. area.nr_free = N - Cardinality(H)
    BY <1>0 DEF Counted
  <2>5. area'.nr_free = N - Cardinality(D)
    <3>1. area.nr_free \in Nat
      BY <1>0 DEF Near, AreaType
    <3> HIDE DEF H, R, D
    <3> QED
      BY <3>1, <2>1, <2>3, <2>4, <1>1, <1>8, <1>9
  <2> QED
    BY <2>5 DEF Counted, Holds
<1>15. Near(area, N, N)'
  <2>1. Near(area', N, N)
    BY <1>8, <1>9
  <2> QED
    BY <2>1 DEF Near, Marked, AreaType, Ring, Page, Node
<1>16. ListInv'
  BY <1>9, <1>10, <1>13, <1>14, <1>15 DEF ListInv
<1> QED
  BY <1>9, <1>12, <1>16

(* alloc_pages refuses only if no n pages in a row are free: there are not *)
(* enough, or every block is too small and two blocks never touch.         *)
LEMMA AllocFailsStep ==
    ASSUME N \in Nat \ {0}, ListInv, NEW n \in Nat \ {0}, AllocFails(n)
    PROVE  /\ ListInv' /\ UNCHANGED <<area, given>>
           /\ \A b \in Page : ~(b .. b + n - 1 \subseteq {x \in Page : InBlock(area, x)})
<1> DEFINE H == {x \in Page : \E g \in given : Holds(g, x)}
<1>0. Near(area, N, N) /\ GivenOK /\ Partition /\ Counted /\ halt = "none"
  BY DEF ListInv
<1>1. /\ n > area.nr_free \/ Large(n) = {}
      /\ halt' = IF n <= area.nr_free /\ ~ Ends(area) THEN "loop" ELSE "none"
      /\ area' = area /\ given' = given
  BY DEF AllocFails
<1>2. /\ Ring(area.next, area.prev, Marked(area)) /\ Head = N
      /\ \A p \in Marked(area) : p \in Nat /\ p < N /\ area.property[p] \in Nat /\ area.property[p] >= 1
      /\ \A p, q \in Marked(area) : p < q => p + area.property[p] < q
      /\ Page \subseteq Nat /\ N \notin Marked(area) /\ area.nr_free \in Nat
  <2>1. Ring(area.next, area.prev, Marked(area)) /\ Head = N /\ Page \subseteq Nat /\ N \notin Marked(area)
    BY <1>0, NodeFacts DEF Near, Marked, Head
  <2>2. \A p \in Marked(area) : p \in Nat /\ p < N /\ p # N /\ area.property[p] \in Nat /\ area.property[p] >= 1
    BY <1>0, NodeFacts DEF Near, Marked, AreaType
  <2>3. \A p, q \in Marked(area) : p < q => p + area.property[p] < q
    BY <1>0, <2>2 DEF Near
  <2> QED
    BY <2>1, <2>2, <2>3, <1>0 DEF Near, AreaType
<1>3. halt' = "none"
  <2>1. Walk(area)[N] = N
    BY <1>2, WalkRing
  <2>2. Ends(area)
    BY <2>1, <1>2 DEF Ends
  <2> QED
    BY <2>2, <1>1
<1>4. ListInv'
  <2>1. Near(area, N, N)'
    <3>1. Near(area', N, N)
      BY <1>0, <1>1
    <3> QED
      BY <3>1 DEF Near, Marked, AreaType, Ring, Page, Node
  <2>2. (GivenOK /\ Partition /\ Counted)'
    BY <1>0, <1>1 DEF GivenOK, Partition, Counted, InBlock, Marked, Page, Holds
  <2> QED
    BY <2>1, <2>2, <1>3 DEF ListInv
<1>5. ASSUME NEW b \in Page, b .. b + n - 1 \subseteq {x \in Page : InBlock(area, x)} PROVE FALSE
  <2>0. b \in Nat /\ b < N
    BY NodeFacts
  <2>1. CASE n > area.nr_free
    <3> DEFINE F == Page \ H
               R == {x \in Page : b <= x /\ x < b + n}
    <3>1. b + n <= N
      <4>1. b + n - 1 \in b .. b + n - 1
        BY <2>0
      <4>2. b + n - 1 \in Page
        BY <4>1, <1>5
      <4>3. b + n - 1 < N
        BY <4>2, NodeFacts
      <4> QED
        BY <4>3, <2>0
    <3>2. R \subseteq F
      <4> SUFFICES ASSUME NEW x \in R PROVE x \in F
        OBVIOUS
      <4>1. x \in b .. b + n - 1
        BY <2>0, <1>2
      <4>2. InBlock(area, x)
        BY <4>1, <1>5
      <4> QED
        BY <4>2, <1>0 DEF Partition
    <3>3. Cardinality(F) = N - Cardinality(H)
      <4>1. H \in SUBSET Page /\ IsRun(R, b, n)
        BY DEF IsRun
      <4> HIDE DEF H, R
      <4>2. RunCounts(H, R, n)
        BY <4>1, <3>1, <2>0, RunCount
      <4> QED
        BY <4>2 DEF RunCounts
    <3>4. n <= Cardinality(F)
      <4>1. F \in SUBSET Page /\ IsRun(R, b, n)
        BY DEF IsRun
      <4> HIDE DEF F, R
      <4>2. RunCounts(F, R, n)
        BY <4>1, <3>1, <2>0, RunCount
      <4> QED
        BY <4>2, <3>2 DEF RunCounts
    <3>5. area.nr_free = N - Cardinality(H)
      BY <1>0 DEF Counted
    <3>6. PICK left : left = area.nr_free
      OBVIOUS
    <3>7. left \in Nat /\ n > left /\ n <= left
      <4> HIDE DEF F, H
      <4> QED
        BY <3>3, <3>4, <3>5, <3>6, <2>1, <1>2
    <3> QED
      BY <3>7
  <2>2. CASE Large(n) = {}
    <3>0. PICK S : S = Marked(area)
      OBVIOUS
    <3>1. ASSUME NEW p \in Marked(area) PROVE area.property[p] < n
      <4>0. Ring(area.next, area.prev, S) /\ p \in S
        BY <3>0, <1>2
      <4>1. PICK k \in 0 .. N : Walk(area)[k] = p
        BY <4>0, WalkRing
      <4>2. ~(area.property[p] >= n)
        BY <4>1, <2>2, <1>2 DEF Large
      <4> QED
        BY <4>2, <1>2
    <3>2. b \in b .. b + n - 1
      BY <2>0
    <3>3. PICK p \in Marked(area) : p <= b /\ b < p + area.property[p]
      BY <3>2, <1>5 DEF InBlock
    <3> DEFINE x == p + area.property[p]
    <3>4. p \in Nat /\ area.property[p] \in Nat /\ area.property[p] < n /\ x \in Nat
      BY <3>1, <1>2
    <3>5. x \in b .. b + n - 1
      BY <3>3, <3>4, <2>0
    <3>6. PICK q \in Marked(area) : q <= x /\ x < q + area.property[q]
      BY <3>5, <1>5 DEF InBlock
    <3>7. q \in Nat /\ area.property[q] \in Nat
      BY <1>2
    <3>8. CASE q < p
      <4>1. q + area.property[q] < p
        BY <3>8, <1>2
      <4> QED
        BY <4>1, <3>4, <3>6, <3>7
    <3>9. CASE p < q
      <4>1. x < q
        BY <3>9, <1>2
      <4> QED
        BY <4>1, <3>4, <3>6, <3>7
    <3>10. CASE p = q
      BY <3>10, <3>6, <3>4
    <3> QED
      BY <3>4, <3>7, <3>8, <3>9, <3>10
  <2> QED
    BY <2>1, <2>2, <1>1
<1> QED
  BY <1>1, <1>4, <1>5

---------------------------------------------------------------------------
(* Every step keeps the invariant.                                         *)
LEMMA ListInvNext ==
    ASSUME FreeListAssumption, LeaveTop, ListInv, [Next]_vars
    PROVE  ListInv'
<1>0. N \in Nat \ {0} /\ \A n \in 1 .. MaxN : n \in Nat \ {0}
  BY DEF FreeListAssumption
<1>1. CASE UNCHANGED vars
  BY <1>1 DEF vars, ListInv, Near, GivenOK, Partition, Counted, InBlock, Marked, AreaType, Ring, Page, Node, Holds
<1>2. CASE Next
  <2>1. ASSUME NEW n \in 1 .. MaxN, AllocPages(n) PROVE ListInv'
    BY <2>1, <1>0, AllocStep
  <2>2. ASSUME NEW n \in 1 .. MaxN, AllocFails(n) PROVE ListInv'
    BY <2>2, <1>0, AllocFailsStep
  <2>3. ASSUME NEW g \in given, FreePages(g) PROVE ListInv'
    BY <2>3, <1>0, FreeStep
  <2> QED
    BY <2>1, <2>2, <2>3, <1>2 DEF Next
<1> QED
  BY <1>1, <1>2

(* The invariant gives what the run checks.                                *)
LEMMA ListInvImplies ==
    ASSUME FreeListAssumption, ListInv
    PROVE  FreeListInv
<1>0. N \in Nat \ {0} /\ Near(area, N, N) /\ GivenOK /\ Partition /\ Counted /\ halt = "none"
  BY DEF ListInv, FreeListAssumption
<1>1. /\ Linked = Marked(area)
      /\ UNION {Block(p) : p \in Linked} = {x \in Page : InBlock(area, x)}
  BY <1>0, FreeSet DEF Linked, Block
<1>2. Ring(area.next, area.prev, Marked(area)) /\ Head = N /\ Marked(area) \subseteq Nat
  BY <1>0, NodeFacts DEF Near, Head, Marked
<1>3. ListSorted
  <2>1. Ends(area)
    BY <1>0, <1>2, WalkRing DEF Ends
  <2>2. \A l \in Linked \cup {Head} : area.prev[area.next[l]] = l
    BY <1>1, <1>2 DEF Ring
  <2>3. \A l \in Linked : area.next[l] > l
    <3> SUFFICES ASSUME NEW l \in Linked PROVE area.next[l] > l
      OBVIOUS
    <3>1. l < area.next[l] /\ area.next[l] \in Marked(area) \cup {N} /\ l \in Nat
      BY <1>1, <1>2 DEF Ring
    <3> QED
      BY <3>1, <1>0, <1>2
  <2> QED
    BY <2>1, <2>2, <2>3 DEF ListSorted
<1>4. GivenPages = {x \in Page : \E g \in given : Holds(g, x)}
  BY <1>0, GivenPagesAre
<1>5. BlocksExact
  <2>1. Linked = {p \in Page : area.flag[p]}
    BY <1>1 DEF Marked
  <2>2. \A p, q \in Linked : p < q => p + area.property[p] < q
    <3>1. \A p \in Marked(area) : p \in Nat /\ p # N /\ area.property[p] \in Nat
      BY <1>0, NodeFacts DEF Near, Marked, AreaType
    <3> QED
      BY <3>1, <1>0, <1>1 DEF Near
  <2>3. UNION {Block(p) : p \in Linked} = Page \ GivenPages
    BY <1>0, <1>1, <1>4 DEF Partition
  <2>4. area.nr_free = N - Cardinality(GivenPages)
    BY <1>0, <1>4 DEF Counted
  <2> QED
    BY <2>1, <2>2, <2>3, <2>4 DEF BlocksExact
<1> QED
  BY <1>0, <1>3, <1>5 DEF FreeListInv

(* First fit and best fit (default_pmm.c, best_fit_pmm.c): as long as      *)
(* callers do not hold the last page, the free list is a sorted ring of    *)
(* maximal blocks that agrees with the marks of the pages and nr_free, and *)
(* no walk or assertion stops the kernel; for any number of pages, any     *)
(* requests and either way of choosing a block.                            *)
THEOREM FreeListCorrect ==
    ASSUME FreeListAssumption, LeaveTop
    PROVE  Spec => []FreeListInv
<1>0. N \in Nat \ {0}
  BY DEF FreeListAssumption
<1>1. Init => ListInv
  BY <1>0, ListInvInit
<1>2. ListInv /\ [Next]_vars => ListInv'
  BY ListInvNext
<1>3. ListInv => FreeListInv
  BY ListInvImplies
<1> QED
  BY <1>1, <1>2, <1>3, PTL DEF Spec

(* The same managers implement PageSpec: a request is met with pages       *)
(* nobody holds, it is refused only if there is no row of free pages of    *)
(* its length, and free_pages gives back exactly what was held.            *)
THEOREM FreeListImplementsPages ==
    ASSUME FreeListAssumption, LeaveTop
    PROVE  Spec => PageManagerSpec
<1> DEFINE free == UNION {Block(p) : p \in Linked}
<1>0. N \in Nat \ {0} /\ \A n \in 1 .. MaxN : n \in Nat \ {0}
  BY DEF FreeListAssumption
<1>1. Init => ListInv
  BY <1>0, ListInvInit
<1>2. ListInv /\ [Next]_vars => ListInv'
  BY ListInvNext
<1>3. ListInv => free = {x \in Page : InBlock(area, x)}
  BY <1>0, FreeSet DEF Linked, Block, ListInv
<1>4. ListInv' => free' = {x \in Page : InBlock(area', x)}
  <2> SUFFICES ASSUME ListInv' PROVE free' = {x \in Page : InBlock(area', x)}
    OBVIOUS
  <2>1. Near(area', N, N)
    BY DEF ListInv, Near, Marked, AreaType, Ring, Page, Node
  <2> QED
    BY <2>1, <1>0, FreeSet DEF Linked, Block
<1>5. Init => Pages!Init
  <2> SUFFICES ASSUME Init PROVE Pages!Init
    OBVIOUS
  <2>1. ListInv /\ given = {} /\ refused = FALSE
    BY <1>1 DEF Init
  <2>2. free = Page
    BY <2>1, <1>3 DEF ListInv, Partition
  <2> QED
    BY <2>1, <2>2 DEF Pages!Init
<1>6. ListInv /\ [Next]_vars => [Pages!Next]_<<free, given, refused>>
  <2> SUFFICES ASSUME ListInv, [Next]_vars PROVE Pages!Next \/ UNCHANGED <<free, given, refused>>
    OBVIOUS
  <2>0. free = {x \in Page : InBlock(area, x)} /\ free' = {x \in Page : InBlock(area', x)}
    BY <1>2, <1>3, <1>4
  <2>1. CASE UNCHANGED vars
    BY <2>1 DEF vars, Linked, Block
  <2> HIDE DEF free
  <2>2. ASSUME NEW n \in 1 .. MaxN, AllocPages(n) PROVE Pages!Alloc(n)
    <3>1. PICK b \in Page :
                 /\ b + n <= N
                 /\ \A x \in Page : b <= x /\ x < b + n => InBlock(area, x)
                 /\ \A x \in Page : InBlock(area', x) <=> InBlock(area, x) /\ ~(b <= x /\ x < b + n)
                 /\ given' = given \cup {<<b, n>>}
      BY <2>2, <1>0, AllocStep
    <3>2. refused' = FALSE
      BY <2>2 DEF AllocPages
    <3>3. \A x : x \in b .. b + n - 1 <=> x \in Page /\ b <= x /\ x < b + n
      BY <3>1, <1>0 DEF Page
    <3>4. b .. b + n - 1 \subseteq free
      BY <3>1, <3>3, <2>0
    <3>5. free' = free \ (b .. b + n - 1)
      BY <3>1, <3>3, <2>0
    <3> QED
      BY <3>1, <3>2, <3>4, <3>5 DEF Pages!Alloc, Pages!Run, free
  <2>3. ASSUME NEW n \in 1 .. MaxN, AllocFails(n) PROVE Pages!AllocFails(n)
    <3>1. /\ UNCHANGED <<area, given>>
          /\ \A b \in Page : ~(b .. b + n - 1 \subseteq {x \in Page : InBlock(area, x)})
      BY <2>3, <1>0, AllocFailsStep
    <3>2. refused' = TRUE
      BY <2>3 DEF AllocFails
    <3>3. free' = free
      BY <3>1, <2>0
    <3>4. \A b \in Page : ~(b .. b + n - 1 \subseteq free)
      BY <3>1, <2>0
    <3> QED
      BY <3>1, <3>2, <3>3, <3>4 DEF Pages!AllocFails, Pages!Run, free
  <2>4. ASSUME NEW g \in given, FreePages(g) PROVE Pages!Free(g)
    <3>1. /\ \A x \in Page : InBlock(area', x) <=> InBlock(area, x) \/ Holds(g, x)
          /\ given' = given \ {g} /\ refused' = FALSE
      BY <2>4, <1>0, FreeStep
    <3>2. \A x : x \in g[1] .. g[1] + g[2] - 1 <=> x \in Page /\ Holds(g, x)
      BY <1>0, HoldsRun DEF ListInv
    <3>3. free' = free \cup (g[1] .. g[1] + g[2] - 1)
      BY <3>1, <3>2, <2>0
    <3> QED
      BY <3>1, <3>3 DEF Pages!Free, Pages!Run, free
  <2>5. CASE Next
    BY <2>2, <2>3, <2>4, <2>5 DEF Next, Pages!Next
  <2> QED
    BY <2>1, <2>5
<1> QED
  BY <1>1, <1>2, <1>5, <1>6, PTL DEF Spec, PageManagerSpec, Pages!Spec

---------------------------------------------------------------------------
(* kmalloc.                                                                *)

(* The free block after b in the order of the addresses is n, the arena    *)
(* after the last one.                                                     *)
Follows(D, b, n) == \/ n = arena /\ \A c \in D : c <= b
                    \/ n \in D /\ b < n /\ \A c \in D : c <= b \/ n <= c

(* A sorted ring of free blocks that do not touch, with the arena in it.   *)
RingOK(r) ==
    /\ (\E m \in Nat : DOMAIN r \subseteq 0 .. m) /\ arena \in DOMAIN r /\ r[arena].units = 1
    /\ \A b \in DOMAIN r : r[b].units \in Nat \ {0} /\ Follows(DOMAIN r, b, r[b].next)
    /\ \A b, c \in DOMAIN r : b < c => b + r[b].units < c

(* The ring has finitely many blocks, at addresses that are numbers.       *)
LEMMA RingFinite ==
    ASSUME NEW r, RingOK(r)
    PROVE  IsFiniteSet(DOMAIN r) /\ DOMAIN r \in SUBSET Nat
<1>1. PICK m \in Nat : DOMAIN r \subseteq 0 .. m
  BY DEF RingOK
<1> QED
  <2>1. IsFiniteSet(0 .. m)
    BY FS_Interval
  <2> QED
    BY <1>1, <2>1, FS_Subset

(* The next of a free block is a free block.                               *)
LEMMA NextInRing ==
    ASSUME NEW r, RingOK(r), NEW b \in DOMAIN r
    PROVE  r[b].next \in DOMAIN r
BY DEF RingOK, Follows

(* RingWalk is what its recursive definition says.                         *)
LEMMA RingWalkDef ==
    ASSUME NEW r, RingOK(r), NEW b \in DOMAIN r
    PROVE  /\ Cardinality(DOMAIN r) \in Nat \ {0}
           /\ RingWalk(r, b) \in [0 .. Cardinality(DOMAIN r) -> DOMAIN r] /\ RingWalk(r, b)[0] = b
           /\ \A k \in 1 .. Cardinality(DOMAIN r) : RingWalk(r, b)[k] = r[RingWalk(r, b)[k - 1]].next
<1> DEFINE D == DOMAIN r
           n == Cardinality(D)
           Body(w) == [k \in 0 .. n |-> IF k = 0 THEN b ELSE r[w[k - 1]].next]
           at == CHOOSE w : w = Body(w)
           g == [l \in D |-> r[l].next]
<1>0. n \in Nat /\ n # 0
  BY RingFinite, FS_CardinalityType, FS_EmptySet DEF RingOK
<1> HIDE DEF n
<1>1. PICK w : w \in Steps(g, D, b, n)
  <2>1. \A y \in D : g[y] \in D
    BY NextInRing
  <2> HIDE DEF g, D
  <2> QED
    BY <2>1, <1>0, StepsExist DEF D
<1>2. w \in [0 .. n -> D] /\ w[0] = b /\ \A k \in 1 .. n : w[k] = r[w[k - 1]].next
  <2>1. w \in [0 .. n -> D] /\ w[0] = b /\ \A k \in 1 .. n : w[k] = g[w[k - 1]]
    BY <1>1, <1>0 DEF Steps
  <2>2. \A k \in 1 .. n : k - 1 \in 0 .. n
    BY <1>0
  <2> QED
    BY <2>1, <2>2
<1>3. w = Body(w)
  <2>1. ASSUME NEW k \in 0 .. n PROVE w[k] = Body(w)[k]
    BY <1>0, <1>2
  <2> QED
    BY <2>1, <1>2
<1>4. at = Body(at)
  BY <1>3
<1>5. RingWalk(r, b) = at
  BY Zenon DEF RingWalk, n
<1> HIDE DEF at
<1>6. at[0] = b /\ \A k \in 1 .. n : at[k] = r[at[k - 1]].next
  BY <1>4, <1>0
<1>7. \A k \in 0 .. n : at[k] = w[k]
  <2> DEFINE Bad == {k \in 0 .. n : at[k] # w[k]}
  <2> SUFFICES ASSUME Bad # {} PROVE FALSE
    OBVIOUS
  <2>0. Bad \in SUBSET Nat
    OBVIOUS
  <2>1. PICK k \in Bad : \A j \in Bad : k <= j
    <3> HIDE DEF Bad
    <3> QED
      BY <2>0, Least
  <2>2. k # 0
    BY <2>1, <1>6, <1>2
  <2>3. k - 1 \in 0 .. n /\ k \in 1 .. n /\ at[k - 1] = w[k - 1]
    BY <2>1, <2>2, <1>0
  <2>4. w[k] = r[w[k - 1]].next /\ at[k] = r[at[k - 1]].next
    BY <2>3, <1>2, <1>6
  <2> QED
    BY <2>1, <2>3, <2>4
<1>8. DOMAIN at = 0 .. n
  BY <1>4
<1>9. at = w
  BY <1>2, <1>4, <1>7, <1>8
<1> QED
  BY <1>0, <1>2, <1>5, <1>6, <1>9 DEF n

(* A set of free blocks with the next of each is all of them.              *)
LEMMA ClosedIsAll ==
    ASSUME NEW r, RingOK(r), NEW C \in SUBSET DOMAIN r, C # {}, \A b \in C : r[b].next \in C
    PROVE  C = DOMAIN r
<1> DEFINE D == DOMAIN r
<1>0. IsFiniteSet(D) /\ D \subseteq Nat /\ arena \in D /\ arena = 0 /\ \A b \in D : Follows(D, b, r[b].next)
  BY RingFinite DEF RingOK, arena
<1> HIDE DEF D
<1>1. arena \in C
  <2> SUFFICES ASSUME arena \notin C PROVE FALSE
    OBVIOUS
  <2>1. \A b \in C : r[b].next \in C /\ b < r[b].next
    BY <1>0 DEF Follows, D
  <2>2. PICK m \in Nat : \A b \in C : b <= m
    BY DEF RingOK
  <2> DEFINE Up == {i \in Nat : \A b \in C : b <= i}
  <2>3. PICK i \in Up : \A j \in Up : i <= j
    <3>1. Up \in SUBSET Nat /\ Up # {}
      BY <2>2
    <3> HIDE DEF Up
    <3> QED
      BY <3>1, Least
  <2>4. \A b \in C : b \in Nat /\ r[b].next \in Nat
    BY <2>1, <1>0 DEF D
  <2>5. \A b \in C : b < i
    BY <2>1, <2>3, <2>4
  <2>6. PICK c \in C : TRUE
    OBVIOUS
  <2>7. i - 1 \in Up
    BY <2>3, <2>4, <2>5, <2>6
  <2> QED
    BY <2>3, <2>7
<1>2. ASSUME D \ C # {} PROVE FALSE
  <2>1. PICK d \in D \ C : \A e \in D \ C : d <= e
    BY <1>2, <1>0, Least
  <2> DEFINE Below == {j \in Nat : d - j \in C /\ j > 0}
  <2>2. PICK j \in Below : \A k \in Below : j <= k
    <3>1. d \in Nat /\ d # 0
      BY <2>1, <1>0, <1>1
    <3>2. d \in Below
      BY <3>1, <1>0, <1>1
    <3>3. Below \in SUBSET Nat
      OBVIOUS
    <3> HIDE DEF Below
    <3> QED
      BY <3>2, <3>3, Least
  <2> DEFINE q == d - j
  <2>3. q \in C /\ q \in Nat /\ d \in Nat /\ q < d /\ q \in D
    BY <2>1, <2>2, <1>0 DEF D
  <2>4. ASSUME NEW c \in D, q < c, c < d PROVE FALSE
    <3>1. c \in Nat /\ c \in C
      BY <2>4, <2>1, <2>3, <1>0
    <3>2. d - c \in Nat /\ d - (d - c) = c /\ d - c > 0
      BY <3>1, <2>3, <2>4
    <3>3. d - c \in Below
      BY <3>1, <3>2
    <3> QED
      BY <3>1, <3>3, <2>2, <2>3, <2>4
  <2>5. r[q].next = d
    <3>1. Follows(D, q, r[q].next) /\ \A c \in D : c \in Nat
      BY <2>3, <1>0
    <3>2. d \in D /\ ~(d <= q)
      BY <2>1, <2>3, <1>0
    <3>3. r[q].next \in D /\ q < r[q].next /\ r[q].next <= d
      BY <3>1, <3>2 DEF Follows
    <3>4. ~(r[q].next < d)
      BY <3>3, <2>4
    <3>5. r[q].next \in Nat
      BY <3>1, <3>3
    <3> QED
      BY <3>3, <3>4, <3>5, <2>3
  <2> QED
    BY <2>5, <2>3, <2>1
<1> QED
  BY <1>2 DEF D

(* The walk from any free block meets every free block within one round.   *)
LEMMA RingWalkCovers ==
    ASSUME NEW r, RingOK(r), NEW b \in DOMAIN r, NEW c \in DOMAIN r
    PROVE  \E k \in 0 .. Cardinality(DOMAIN r) - 1 : RingWalk(r, b)[k] = c
<1> DEFINE D == DOMAIN r
           n == Cardinality(D)
           w == RingWalk(r, b)
<1>0. /\ n \in Nat \ {0} /\ w \in [0 .. n -> D] /\ w[0] = b
      /\ \A k \in 1 .. n : w[k] = r[w[k - 1]].next
  BY RingWalkDef
<1>1. IsFiniteSet(D)
  BY RingFinite
<1>2. IsFiniteSet(0 .. n) /\ Cardinality(0 .. n) = n + 1
  BY <1>0, FS_Interval
<1> HIDE DEF n, w
<1>3. PICK i \in 0 .. n, j \in 0 .. n : i # j /\ w[i] = w[j]
  <2>1. Cardinality(0 .. n) > Cardinality(D)
    BY <1>0, <1>2 DEF n
  <2> HIDE DEF D
  <2>2. w \in [0 .. n -> D]
    BY <1>0
  <2> QED
    BY <2>1, <2>2, <1>1, <1>2, FS_PigeonHole
<1>4. PICK p \in 0 .. n, q \in 0 .. n : p < q /\ w[p] = w[q]
  <2>1. i \in Nat /\ j \in Nat
    BY <1>0
  <2>2. i < j \/ j < i
    BY <2>1, <1>3
  <2> QED
    BY <2>2, <1>3
<1> DEFINE C == {w[k] : k \in p .. q - 1}
<1>5. C \in SUBSET D /\ C # {}
  <2>1. \A k \in p .. q - 1 : k \in 0 .. n
    BY <1>0, <1>4
  <2>2. p \in p .. q - 1
    BY <1>0, <1>4
  <2>3. \A k \in 0 .. n : w[k] \in D
    BY <1>0
  <2>4. \A d \in C : d \in D
    BY <2>1, <2>3
  <2> QED
    BY <2>2, <2>4
<1>6. ASSUME NEW d \in C PROVE r[d].next \in C
  <2>1. PICK k \in p .. q - 1 : d = w[k]
    OBVIOUS
  <2>2. k + 1 \in 1 .. n /\ (k + 1) - 1 = k
    BY <1>0
  <2>3. r[d].next = w[k + 1]
    BY <2>1, <2>2, <1>0
  <2>4. CASE k + 1 = q
    <3>1. p \in p .. q - 1
      BY <1>4, <1>0
    <3> QED
      BY <2>3, <2>4, <1>4, <3>1
  <2>5. CASE k + 1 # q
    <3>1. k + 1 \in p .. q - 1
      BY <2>5, <1>0
    <3> QED
      BY <2>3, <3>1
  <2> QED
    BY <2>4, <2>5
<1>7. C = D
  <2> HIDE DEF C
  <2> QED
    BY <1>5, <1>6, ClosedIsAll
<1>8. PICK k \in p .. q - 1 : c = w[k]
  BY <1>7
<1> QED
  BY <1>8, <1>0 DEF n, w

(* The walk from the next block is one ahead.                              *)
LEMMA RingWalkAhead ==
    ASSUME NEW r, RingOK(r), NEW b \in DOMAIN r, NEW k \in 0 .. Cardinality(DOMAIN r) - 1
    PROVE  r[RingWalk(r, b)[k]].next = RingWalk(r, r[b].next)[k]
<1> DEFINE n == Cardinality(DOMAIN r)
           w == RingWalk(r, b)
           v == RingWalk(r, r[b].next)
<1>0. /\ n \in Nat \ {0} /\ w[0] = b /\ \A i \in 1 .. n : w[i] = r[w[i - 1]].next
      /\ v[0] = r[b].next /\ \A i \in 1 .. n : v[i] = r[v[i - 1]].next
  BY NextInRing, RingWalkDef
<1> HIDE DEF n, w, v
<1> DEFINE Bad == {i \in 0 .. n - 1 : r[w[i]].next # v[i]}
<1> SUFFICES ASSUME Bad # {} PROVE FALSE
  BY DEF n, w, v
<1>1. PICK i \in Bad : \A j \in Bad : i <= j
  <2>1. Bad \in SUBSET Nat
    BY <1>0
  <2> HIDE DEF Bad
  <2> QED
    BY <2>1, Least
<1>2. i # 0
  BY <1>0, <1>1
<1>3. i \in 1 .. n /\ i - 1 \in 0 .. n - 1 /\ i - 1 \notin Bad
  BY <1>0, <1>1, <1>2
<1> QED
  BY <1>0, <1>1, <1>3

(* Min is the least number of a set that is not empty.                     *)
LEMMA MinOf ==
    ASSUME NEW S \in SUBSET Nat, S # {}
    PROVE  Min(S) \in S /\ \A j \in S : Min(S) <= j
<1>1. \E i \in S : \A j \in S : i <= j
  BY Least
<1> QED
  BY <1>1 DEF Min

(* The ring after a block is written in it.                                *)
LEMMA PutFields ==
    ASSUME NEW r, NEW b, NEW u, NEW n
    PROVE  /\ DOMAIN Put(r, b, u, n) = DOMAIN r \cup {b}
           /\ Put(r, b, u, n)[b].units = u /\ Put(r, b, u, n)[b].next = n
           /\ \A x \in DOMAIN r : x # b => Put(r, b, u, n)[x] = r[x]
BY DEF Put

(* The ring after a block is taken out of it.                              *)
LEMMA WithoutFields ==
    ASSUME NEW r, NEW b
    PROVE  /\ DOMAIN Without(r, b) = DOMAIN r \ {b}
           /\ \A x \in DOMAIN r : x # b => Without(r, b)[x] = r[x]
BY DEF Without

(* The free block before an address that is none: slob_free finds it.      *)
LEMMA PlaceFacts ==
    ASSUME NEW h, RingOK(h.ring), h.at \in DOMAIN h.ring, NEW b \in Nat, b # 0, b \notin DOMAIN h.ring
    PROVE  /\ Place(h, b) \in DOMAIN h.ring /\ Place(h, b) < b
           /\ \/ h.ring[Place(h, b)].next = arena /\ \A c \in DOMAIN h.ring : c <= Place(h, b)
              \/ /\ h.ring[Place(h, b)].next \in DOMAIN h.ring /\ b < h.ring[Place(h, b)].next
                 /\ \A c \in DOMAIN h.ring : c <= Place(h, b) \/ h.ring[Place(h, b)].next <= c
<1> DEFINE r == h.ring
           D == DOMAIN r
           w == RingWalk(r, h.at)
           K == {k \in DOMAIN w : FitsAfter(r, b, w[k])}
           n == Cardinality(D)
<1>0. /\ D \in SUBSET Nat /\ arena \in D /\ arena = 0
      /\ \A c \in D : r[c].next \in D /\ Follows(D, c, r[c].next)
  BY RingFinite, NextInRing DEF RingOK, arena
<1>1. /\ n \in Nat \ {0} /\ w \in [0 .. n -> D]
      /\ \A c \in D : \E k \in 0 .. n - 1 : w[k] = c
  BY RingWalkDef, RingWalkCovers
<1>2. Place(h, b) = w[Min(K)]
  BY DEF Place
<1> HIDE DEF w, n
<1>3. \E p \in D : p < b /\ \A c \in D : c <= p \/ b < c
  <2> DEFINE Below == {j \in Nat : b - j \in D /\ j > 0}
  <2>1. Below \in SUBSET Nat /\ b \in Below
    BY <1>0
  <2>2. PICK j \in Below : \A k \in Below : j <= k
    <3> HIDE DEF Below
    <3> QED
      BY <2>1, Least
  <2>3. b - j \in D /\ b - j < b /\ j \in Nat
    BY <2>2
  <2>4. ASSUME NEW c \in D, ~(c <= b - j), ~(b < c) PROVE FALSE
    <3>1. c \in Nat /\ c # b
      BY <1>0
    <3>2. b - c \in Nat /\ b - (b - c) = c /\ b - c > 0 /\ b - c < j
      BY <3>1, <2>4, <2>3
    <3>3. b - c \in Below
      BY <3>1, <3>2
    <3> QED
      BY <3>2, <3>3, <2>2
  <2> QED
    BY <2>3, <2>4
<1>4. K # {}
  <2>1. PICK p \in D : p < b /\ \A c \in D : c <= p \/ b < c
    BY <1>3
  <2>2. PICK k \in 0 .. n - 1 : w[k] = p
    BY <1>1
  <2>3. FitsAfter(r, b, p)
    <3>1. p \in Nat /\ r[p].next \in D /\ r[p].next \in Nat /\ Follows(D, p, r[p].next)
      BY <1>0
    <3>2. CASE r[p].next = arena
      BY <3>2, <3>1, <2>1, <1>0 DEF FitsAfter
    <3>3. CASE p < r[p].next
      BY <3>3, <3>1, <2>1, <1>0 DEF FitsAfter
    <3> QED
      BY <3>1, <3>2, <3>3 DEF Follows
  <2>4. k \in DOMAIN w
    BY <2>2, <1>1
  <2> QED
    BY <2>2, <2>3, <2>4
<1>5. Min(K) \in K
  <2>1. K \in SUBSET Nat
    BY <1>1
  <2> HIDE DEF K
  <2> QED
    BY <1>4, <2>1, MinOf
<1> DEFINE p == w[Min(K)]
<1>6. p \in D /\ FitsAfter(r, b, p)
  BY <1>5, <1>1
<1> HIDE DEF p, K
<1>7. p \in Nat /\ r[p].next \in D /\ r[p].next \in Nat /\ Follows(D, p, r[p].next)
  BY <1>6, <1>0
<1>8. /\ p < b
      /\ \/ r[p].next = arena /\ \A c \in D : c <= p
         \/ /\ r[p].next \in D /\ b < r[p].next
            /\ \A c \in D : c <= p \/ r[p].next <= c
  <2>1. CASE b > p /\ b < r[p].next
    BY <2>1, <1>7, <1>0 DEF Follows
  <2>2. CASE p >= r[p].next /\ (b > p \/ b < r[p].next)
    <3>1. r[p].next = arena /\ \A c \in D : c <= p
      BY <2>2, <1>7 DEF Follows
    <3> QED
      BY <2>2, <3>1, <1>7, <1>0
  <2> QED
    BY <2>1, <2>2, <1>6 DEF FitsAfter
<1> QED
  BY <1>2, <1>6, <1>8 DEF p

(* The addresses in the free blocks.                                       *)
InRing(r, a) == \E b \in DOMAIN r : b <= a /\ a < b + r[b].units

(* The block b of u units belongs after cur, where nothing is free.        *)
FitsHole(r, cur, b, u) ==
    /\ cur \in DOMAIN r /\ b \in Nat /\ u \in Nat \ {0} /\ b > 1 /\ cur + r[cur].units <= b
    /\ \/ r[cur].next = arena /\ \A c \in DOMAIN r : c <= cur
       \/ /\ r[cur].next \in DOMAIN r /\ b + u <= r[cur].next
          /\ \A c \in DOMAIN r : c <= cur \/ r[cur].next <= c

(* A ring in which that block has been written is one again.               *)
Filled(r, s, b, u) == RingOK(s) /\ \A a \in Int : InRing(s, a) <=> InRing(r, a) \/ (b <= a /\ a < b + u)

(* slob_free of a block that touches neither neighbour: two writes.        *)
LEMMA FillApart ==
    ASSUME NEW r, RingOK(r), NEW cur, NEW b, NEW u, FitsHole(r, cur, b, u), b + u # r[cur].next, cur + r[cur].units # b
    PROVE  Filled(r, Put(Put(r, b, u, r[cur].next), cur, r[cur].units, b), b, u)
<1> DEFINE D == DOMAIN r
           s == Put(Put(r, b, u, r[cur].next), cur, r[cur].units, b)
           E == DOMAIN s
<1>0. /\ D \in SUBSET Nat /\ arena \in D /\ arena = 0 /\ r[arena].units = 1 /\ cur \in D
      /\ \A c \in D : r[c].units \in Nat \ {0} /\ r[c].next \in D /\ Follows(D, c, r[c].next)
      /\ \A c, d \in D : c < d => c + r[c].units < d
  BY RingFinite, NextInRing DEF RingOK, FitsHole, arena
<1>1. /\ b \in Nat /\ u \in Nat \ {0} /\ b > 1 /\ cur + r[cur].units < b /\ cur < b
      /\ \/ r[cur].next = arena /\ \A c \in D : c <= cur
         \/ /\ r[cur].next \in D /\ b + u < r[cur].next
            /\ \A c \in D : c <= cur \/ r[cur].next <= c
  <2>1. /\ b \in Nat /\ u \in Nat \ {0} /\ b > 1 /\ cur + r[cur].units <= b
        /\ \/ r[cur].next = arena /\ \A c \in D : c <= cur
           \/ /\ r[cur].next \in D /\ b + u <= r[cur].next
              /\ \A c \in D : c <= cur \/ r[cur].next <= c
    BY Zenon DEF FitsHole
  <2>2. PICK v : v = r[cur].units
    OBVIOUS
  <2>3. cur \in Nat /\ v \in Nat \ {0}
    BY <2>2, <1>0
  <2>4. cur + v < b /\ cur < b
    BY <2>1, <2>2, <2>3
  <2>5. PICK m : m = r[cur].next
    OBVIOUS
  <2>6. m \in D => m \in Nat
    BY <1>0
  <2>7. m \in D /\ b + u <= m => b + u < m
    BY <2>1, <2>5, <2>6
  <2> QED
    BY <2>1, <2>2, <2>4, <2>5, <2>7
<1>2. b \notin D /\ cur \in Nat /\ r[cur].units \in Nat /\ r[cur].next \in Nat /\ \A c \in D : c \in Nat /\ r[c].next \in Nat
  BY <1>0, <1>1
<1>3. /\ E = D \cup {b}
      /\ s[b].units = u /\ s[b].next = r[cur].next /\ s[cur].units = r[cur].units /\ s[cur].next = b
      /\ \A x \in D : s[x].units = r[x].units
      /\ \A x \in D : x # cur => s[x].next = r[x].next
  <2>1. b # cur
    BY <1>0, <1>2
  <2>2. /\ E = D \cup {b, cur}
        /\ s[b].units = u /\ s[b].next = r[cur].next /\ s[cur].units = r[cur].units /\ s[cur].next = b
        /\ \A x \in D : x # b /\ x # cur => s[x] = r[x]
    BY <2>1 DEF Put
  <2>3. cur \in D
    BY <1>0
  <2> HIDE DEF D, s, E
  <2>4. E = D \cup {b}
    BY <2>2, <2>3
  <2>5. \A x \in D : x # cur => s[x] = r[x]
    BY <2>2, <1>2
  <2>6. \A x \in D : s[x].units = r[x].units
    BY <2>2, <2>5
  <2> QED
    BY <2>2, <2>4, <2>5, <2>6
<1> HIDE DEF D, s, E
<1>4. \A c \in D : c <= cur \/ b + u < c
  <2> SUFFICES ASSUME NEW c \in D, ~(c <= cur) PROVE b + u < c
    OBVIOUS
  <2>1. r[cur].next \in D /\ b + u < r[cur].next /\ r[cur].next <= c
    BY <1>1
  <2>2. b + u \in Nat /\ c \in Nat /\ r[cur].next \in Nat
    BY <1>1, <1>2
  <2> QED
    BY <2>1, <2>2
<1>5. \E m \in Nat : E \subseteq 0 .. m
  <2>1. PICK m \in Nat : D \subseteq 0 .. m
    BY DEF RingOK, D
  <2>2. m + b \in Nat /\ b \in 0 .. m + b /\ 0 .. m \subseteq 0 .. m + b
    BY <1>1
  <2>3. E \subseteq 0 .. m + b
    BY <2>1, <2>2, <1>3
  <2> QED
    BY <2>2, <2>3
<1>6. arena \in E /\ s[arena].units = 1 /\ \A c \in E : s[c].units \in Nat \ {0}
  BY <1>0, <1>1, <1>3
<1>7. \A c \in E : Follows(E, c, s[c].next)
  <2> SUFFICES ASSUME NEW c \in E PROVE Follows(E, c, s[c].next)
    OBVIOUS
  <2>1. CASE c = b
    <3>1. s[c].next = r[cur].next
      BY <2>1, <1>3
    <3>2. CASE r[cur].next = arena /\ \A d \in D : d <= cur
      <4>1. \A d \in E : d <= b
        BY <3>2, <1>0, <1>1, <1>3
      <4> QED
        BY <4>1, <3>1, <3>2, <2>1 DEF Follows
    <3>3. CASE r[cur].next \in D /\ b + u < r[cur].next /\ \A d \in D : d <= cur \/ r[cur].next <= d
      <4>1. \A d \in E : d <= b \/ r[cur].next <= d
        BY <3>3, <1>1, <1>2, <1>3
      <4>2. r[cur].next \in E /\ b < r[cur].next
        BY <3>3, <1>1, <1>2, <1>3
      <4> QED
        BY <4>1, <4>2, <3>1, <2>1 DEF Follows
    <3> QED
      BY <1>1, <3>2, <3>3
  <2>2. CASE c = cur
    BY <2>2, <1>0, <1>1, <1>3, <1>4 DEF Follows
  <2>3. CASE c # b /\ c # cur
    <3>1. c \in D /\ s[c].next = r[c].next /\ r[c].next \in D /\ Follows(D, c, r[c].next) /\ c \in Nat
      BY <2>3, <1>3, <1>0
    <3>2. CASE r[c].next = arena /\ \A d \in D : d <= c
      <4>1. cur <= c /\ cur # c /\ cur \in Nat
        BY <3>2, <2>3, <1>0, <1>2
      <4>2. b <= c
        BY <4>1, <3>1, <1>1, <1>4
      <4>3. \A d \in E : d <= c
        BY <4>2, <3>2, <1>3
      <4> QED
        BY <4>3, <3>1, <3>2 DEF Follows
    <3>3. CASE c < r[c].next /\ \A d \in D : d <= c \/ r[c].next <= d
      <4>0. cur \in Nat /\ b \in Nat /\ u \in Nat /\ c \in Nat /\ (c <= cur \/ b + u < c)
        BY <3>1, <1>1, <1>2, <1>4
      <4>1. c < cur \/ b < c
        BY <4>0, <2>3
      <4>2. c < cur => r[c].next <= cur
        BY <3>1, <3>3, <1>0
      <4>3. r[c].next \in E
        BY <3>1, <1>3
      <4>4. b <= c \/ r[c].next <= b
        BY <4>1, <4>2, <3>1, <1>1, <1>2
      <4> QED
        BY <3>1, <3>3, <4>3, <4>4, <1>3 DEF Follows
    <3> QED
      BY <3>1, <3>2, <3>3 DEF Follows
  <2> QED
    BY <2>1, <2>2, <2>3
<1>8. \A c, d \in E : c < d => c + s[c].units < d
  <2> SUFFICES ASSUME NEW c \in E, NEW d \in E, c < d PROVE c + s[c].units < d
    OBVIOUS
  <2>1. CASE c = b
    <3>1. d \in D /\ d \in Nat /\ ~(d <= cur)
      <4>1. d \in D
        BY <2>1, <1>1, <1>3
      <4> QED
        BY <4>1, <2>1, <1>1, <1>2
    <3> QED
      BY <3>1, <2>1, <1>3, <1>4
  <2>2. CASE c # b /\ d = b
    <3>1. c \in D /\ s[c].units = r[c].units /\ c \in Nat /\ r[c].units \in Nat /\ r[cur].units \in Nat /\ cur \in Nat
      BY <2>2, <1>3, <1>0
    <3>0. c <= cur
      BY <3>1, <2>2, <1>4, <1>1
    <3>2. c + r[c].units <= cur + r[cur].units
      <4>1. CASE c = cur
        BY <4>1, <3>1
      <4>2. CASE c < cur
        <5>1. c + r[c].units < cur
          BY <4>2, <3>1, <1>0
        <5> QED
          BY <5>1, <3>1
      <4> QED
        BY <4>1, <4>2, <3>0, <3>1
    <3> QED
      BY <3>1, <3>2, <2>2, <1>0, <1>1
  <2>3. CASE c # b /\ d # b
    BY <2>3, <1>3, <1>0
  <2> QED
    BY <2>1, <2>2, <2>3
<1>9. ASSUME NEW a \in Int
      PROVE InRing(s, a) <=> InRing(r, a) \/ (b <= a /\ a < b + u)
  BY <1>3, <1>2 DEF InRing, E, D
<1> QED
  BY <1>5, <1>6, <1>7, <1>8, <1>9 DEF Filled, RingOK, E, s

(* The block is merged with the one below it.                              *)
LEMMA FillBelow ==
    ASSUME NEW r, RingOK(r), NEW cur, NEW b, NEW u, FitsHole(r, cur, b, u), b + u # r[cur].next, cur + r[cur].units = b
    PROVE  Filled(r, Put(r, cur, r[cur].units + u, r[cur].next), b, u)
<1> DEFINE D == DOMAIN r
           s == Put(r, cur, r[cur].units + u, r[cur].next)
           E == DOMAIN s
<1>0. /\ D \in SUBSET Nat /\ arena \in D /\ arena = 0 /\ r[arena].units = 1 /\ cur \in D
      /\ \A c \in D : r[c].units \in Nat \ {0} /\ r[c].next \in D /\ Follows(D, c, r[c].next)
      /\ \A c, d \in D : c < d => c + r[c].units < d
  BY RingFinite, NextInRing DEF RingOK, FitsHole, arena
<1>1. /\ b \in Nat /\ u \in Nat \ {0} /\ b > 1 /\ cur < b
      /\ \/ r[cur].next = arena /\ \A c \in D : c <= cur
         \/ /\ r[cur].next \in D /\ b + u < r[cur].next
            /\ \A c \in D : c <= cur \/ r[cur].next <= c
  <2>1. cur \in Nat /\ r[cur].units \in Nat \ {0} /\ r[cur].next \in Nat
    BY <1>0
  <2>2. b \in Nat /\ u \in Nat
    BY DEF FitsHole
  <2> QED
    BY <2>1, <2>2 DEF FitsHole
<1>2. cur \in Nat /\ r[cur].units \in Nat /\ r[cur].next \in Nat /\ \A c \in D : c \in Nat /\ r[c].next \in Nat
  BY <1>0, <1>1
<1>C. cur \in D
  BY <1>0
<1>3. /\ E = D
      /\ s[cur].units = r[cur].units + u /\ s[cur].next = r[cur].next
      /\ \A x \in D : x # cur => s[x] = r[x]
  <2>1. D \cup {cur} = D
    BY <1>C
  <2>2. /\ E = D \cup {cur}
        /\ s[cur].units = r[cur].units + u /\ s[cur].next = r[cur].next
        /\ \A x \in D : x # cur => s[x] = r[x]
    BY DEF Put
  <2> HIDE DEF D, s, E
  <2> QED
    BY <2>1, <2>2
<1> HIDE DEF D, s, E
<1>4. \A c \in D : c <= cur \/ b + u < c
  BY <1>1, <1>2
<1>5. \E m \in Nat : E \subseteq 0 .. m
  BY <1>3 DEF RingOK, D
<1>6. arena \in E /\ s[arena].units = 1 /\ \A c \in E : s[c].units \in Nat \ {0}
  <2>1. cur # arena
    BY <1>0, <1>1
  <2> QED
    BY <2>1, <1>0, <1>1, <1>2, <1>3
<1>7. \A c \in E : Follows(E, c, s[c].next)
  BY <1>0, <1>3
<1>8. \A c, d \in E : c < d => c + s[c].units < d
  <2> SUFFICES ASSUME NEW c \in E, NEW d \in E, c < d PROVE c + s[c].units < d
    OBVIOUS
  <2>1. CASE c = cur
    <3>1. d \in D /\ d \in Nat /\ ~(d <= cur)
      BY <2>1, <1>2, <1>3
    <3>2. b + u < d
      BY <3>1, <1>4
    <3> QED
      BY <3>2, <2>1, <1>1, <1>2, <1>3
  <2>2. CASE c # cur
    BY <2>2, <1>3, <1>0
  <2> QED
    BY <2>1, <2>2
<1>9. ASSUME NEW a \in Int
      PROVE InRing(s, a) <=> InRing(r, a) \/ (b <= a /\ a < b + u)
  <2>1. InRing(r, a) => InRing(s, a)
    <3> SUFFICES ASSUME NEW c \in D, c <= a, a < c + r[c].units PROVE InRing(s, a)
      BY DEF InRing, D
    <3>1. c <= a /\ a < c + s[c].units
      BY <1>1, <1>2, <1>3
    <3> QED
      BY <3>1, <1>3 DEF InRing, E
  <2>2. b <= a /\ a < b + u => InRing(s, a)
    <3> SUFFICES ASSUME b <= a, a < b + u PROVE InRing(s, a)
      OBVIOUS
    <3>1. cur <= a /\ a < cur + s[cur].units
      BY <1>1, <1>2, <1>3
    <3> QED
      BY <3>1, <1>0, <1>3 DEF InRing, E
  <2>3. InRing(s, a) => InRing(r, a) \/ (b <= a /\ a < b + u)
    <3> SUFFICES ASSUME NEW c \in D, c <= a, a < c + s[c].units PROVE InRing(r, a) \/ (b <= a /\ a < b + u)
      BY <1>3 DEF InRing, E
    <3>1. CASE c = cur
      <4>1. a < cur + r[cur].units \/ (b <= a /\ a < b + u)
        BY <3>1, <1>1, <1>2, <1>3
      <4> QED
        BY <4>1, <3>1 DEF InRing, D
    <3>2. CASE c # cur
      BY <3>2, <1>3 DEF InRing, D
    <3> QED
      BY <3>1, <3>2
  <2> QED
    BY <2>1, <2>2, <2>3
<1> QED
  BY <1>5, <1>6, <1>7, <1>8, <1>9 DEF Filled, RingOK, E, s

(* The block n, the next of cur, is taken out of the ring r, which leaves s. *)
Emptied(r, s, cur, n) ==
    /\ RingOK(s) /\ cur < n
    /\ DOMAIN s = DOMAIN r \ {n} /\ s[cur].units = r[cur].units /\ s[cur].next = r[n].next
    /\ \A a \in Int : InRing(s, a) <=> InRing(r, a) /\ ~(n <= a /\ a < n + r[n].units)

(* A block is taken out and the one before it linked to its next.          *)
LEMMA TakeOut ==
    ASSUME NEW r, RingOK(r), NEW cur \in DOMAIN r, NEW n \in DOMAIN r, n # arena, r[cur].next = n
    PROVE  Emptied(r, Put(Without(r, n), cur, r[cur].units, r[n].next), cur, n)
<1> DEFINE D == DOMAIN r
           s == Put(Without(r, n), cur, r[cur].units, r[n].next)
           E == DOMAIN s
<1>0. /\ D \in SUBSET Nat /\ arena \in D /\ arena = 0 /\ r[arena].units = 1 /\ cur \in D /\ n \in D
      /\ \A c \in D : r[c].units \in Nat \ {0} /\ r[c].next \in D /\ Follows(D, c, r[c].next)
      /\ \A c, d \in D : c < d => c + r[c].units < d
  BY RingFinite, NextInRing DEF RingOK, arena
<1>1. cur < n /\ (\A c \in D : c <= cur \/ n <= c) /\ cur # n
  <2>1. Follows(D, cur, n)
    BY <1>0
  <2> QED
    BY <2>1, <1>0 DEF Follows
<1>2. n \in Nat /\ cur \in Nat /\ r[n].units \in Nat /\ r[n].next \in D /\ \A c \in D : c \in Nat /\ r[c].units \in Nat /\ r[c].next \in Nat
  BY <1>0, <1>1
<1>3. /\ E = D \ {n}
      /\ s[cur].units = r[cur].units /\ s[cur].next = r[n].next
      /\ \A x \in D : x # cur /\ x # n => s[x] = r[x]
  BY <1>0, <1>1 DEF Put, Without
<1> HIDE DEF D, s, E
<1>4. \A c \in E : s[c].units = r[c].units /\ c \in D
  BY <1>3
<1>5. \E m \in Nat : E \subseteq 0 .. m
  BY <1>3 DEF RingOK, D
<1>6. arena \in E /\ s[arena].units = 1 /\ \A c \in E : s[c].units \in Nat \ {0}
  BY <1>0, <1>3, <1>4
<1>7. \A c \in E : Follows(E, c, s[c].next)
  <2> SUFFICES ASSUME NEW c \in E PROVE Follows(E, c, s[c].next)
    OBVIOUS
  <2>0. Follows(D, n, r[n].next)
    BY <1>0
  <2>1. CASE c = cur
    <3>1. CASE r[n].next = arena /\ \A d \in D : d <= n
      <4>1. \A d \in E : d <= cur
        BY <3>1, <1>1, <1>2, <1>3
      <4> QED
        BY <4>1, <3>1, <2>1, <1>3 DEF Follows
    <3>2. CASE n < r[n].next /\ \A d \in D : d <= n \/ r[n].next <= d
      <4>1. \A d \in E : d <= cur \/ r[n].next <= d
        BY <3>2, <1>1, <1>2, <1>3
      <4>2. r[n].next \in E /\ cur < r[n].next
        BY <3>2, <1>1, <1>2, <1>3
      <4> QED
        BY <4>1, <4>2, <2>1, <1>3 DEF Follows
    <3> QED
      BY <3>1, <3>2, <2>0 DEF Follows
  <2>2. CASE c # cur
    <3>1. c \in D /\ c # n /\ s[c].next = r[c].next /\ Follows(D, c, r[c].next) /\ c \in Nat
      BY <2>2, <1>3, <1>0
    <3>2. CASE r[c].next = arena /\ \A d \in D : d <= c
      BY <3>1, <3>2, <1>3 DEF Follows
    <3>3. CASE r[c].next \in D /\ c < r[c].next /\ \A d \in D : d <= c \/ r[c].next <= d
      <4>1. r[c].next # n
        <5>1. c <= cur \/ n <= c
          BY <3>1, <1>1
        <5>2. cur <= c \/ r[c].next <= cur
          BY <3>3, <1>0
        <5> QED
          BY <5>1, <5>2, <3>1, <3>3, <2>2, <1>1, <1>2
      <4> QED
        BY <4>1, <3>1, <3>3, <1>3 DEF Follows
    <3> QED
      BY <3>1, <3>2, <3>3 DEF Follows
  <2> QED
    BY <2>1, <2>2
<1>8. \A c, d \in E : c < d => c + s[c].units < d
  BY <1>0, <1>4
<1>9. ASSUME NEW a \in Int
      PROVE InRing(s, a) <=> InRing(r, a) /\ ~(n <= a /\ a < n + r[n].units)
  <2>1. InRing(s, a) => InRing(r, a) /\ ~(n <= a /\ a < n + r[n].units)
    <3> SUFFICES ASSUME NEW c \in E, c <= a, a < c + s[c].units
                 PROVE  InRing(r, a) /\ ~(n <= a /\ a < n + r[n].units)
      BY DEF InRing, E
    <3>1. c \in D /\ c # n /\ s[c].units = r[c].units /\ c \in Nat /\ r[c].units \in Nat
      BY <1>2, <1>3, <1>4
    <3>2. c < n \/ n < c
      BY <3>1, <1>2
    <3>3. (c < n => c + r[c].units < n) /\ (n < c => n + r[n].units < c)
      BY <3>1, <1>0
    <3>4. ~(n <= a /\ a < n + r[n].units)
      BY <3>1, <3>2, <3>3, <1>2
    <3> QED
      BY <3>1, <3>4 DEF InRing, D
  <2>2. InRing(r, a) /\ ~(n <= a /\ a < n + r[n].units) => InRing(s, a)
    BY <1>3, <1>4 DEF InRing, D, E
  <2> QED
    BY <2>1, <2>2
<1> QED
  BY <1>1, <1>3, <1>5, <1>6, <1>7, <1>8, <1>9 DEF Emptied, RingOK, E, D, s

IsHeap(h) == h = [ring |-> h.ring, at |-> h.at, spare |-> h.spare, ret |-> h.ret]

(* A block taken out and another written after the same one.               *)
LEMMA PutAfterOut ==
    ASSUME NEW r, NEW cur \in DOMAIN r, NEW n, n # cur, NEW m, NEW u, NEW b, b # cur, NEW v,
           NEW s, s = Put(Without(r, n), cur, u, m)
    PROVE  Put(Put(s, b, v, m), cur, u, b) = Put(Put(Without(r, n), b, v, m), cur, u, b)
<1>1. DOMAIN s = (DOMAIN r \ {n}) \cup {cur} /\ (\A y \in DOMAIN r : y # n /\ y # cur => s[y] = r[y])
  BY DEF Put, Without
<1>2. DOMAIN r \ {n} = (DOMAIN r \ {n}) \cup {cur}
  OBVIOUS
<1>3. DOMAIN Without(r, n) = DOMAIN s /\ \A y \in DOMAIN s : y # cur => s[y] = Without(r, n)[y]
  BY <1>1, <1>2 DEF Without
<1>4. ASSUME NEW t, DOMAIN t = DOMAIN s, \A y \in DOMAIN s : y # cur => s[y] = t[y]
      PROVE  Put(Put(s, b, v, m), cur, u, b) = Put(Put(t, b, v, m), cur, u, b)
  BY <1>4 DEF Put
<1> QED
  BY <1>3, <1>4

(* A second write of a block replaces the first one.                       *)
LEMMA PutOnceMore ==
    ASSUME NEW r, NEW cur \in DOMAIN r, NEW n, n # cur, NEW m, NEW u, NEW v,
           NEW s, s = Put(Without(r, n), cur, u, m)
    PROVE  Put(s, cur, v, m) = Put(Without(r, n), cur, v, m)
<1>1. DOMAIN s = (DOMAIN r \ {n}) \cup {cur} /\ (\A y \in DOMAIN r : y # n /\ y # cur => s[y] = r[y])
  BY DEF Put, Without
<1>2. DOMAIN r \ {n} = (DOMAIN r \ {n}) \cup {cur}
  OBVIOUS
<1>3. DOMAIN Without(r, n) = DOMAIN s /\ \A y \in DOMAIN s : y # cur => s[y] = Without(r, n)[y]
  BY <1>1, <1>2 DEF Without
<1>4. ASSUME NEW t, DOMAIN t = DOMAIN s, \A y \in DOMAIN s : y # cur => s[y] = t[y]
      PROVE  Put(s, cur, v, m) = Put(t, cur, v, m)
  BY <1>4 DEF Put
<1> QED
  BY <1>3, <1>4

(* What slob_free returns, by whether the block touches the next free one  *)
(* and the one before.                                                     *)
LEMMA SlobFreeFields ==
    ASSUME NEW h, IsHeap(h), NEW b, NEW u, NEW cur, cur = Place(h, b), NEW c, c = h.ring[cur]
    PROVE  /\ IsHeap(SlobFree(h, b, u))
           /\ SlobFree(h, b, u).at = cur
           /\ SlobFree(h, b, u).spare = h.spare
           /\ SlobFree(h, b, u).ret = h.ret
           /\ b + u # c.next /\ cur + c.units = b
              => SlobFree(h, b, u).ring = Put(h.ring, cur, c.units + u, c.next)
           /\ b + u # c.next /\ cur + c.units # b
              => SlobFree(h, b, u).ring = Put(Put(h.ring, b, u, c.next), cur, c.units, b)
           /\ b + u = c.next /\ cur + c.units = b
              => SlobFree(h, b, u).ring = Put(Without(h.ring, c.next), cur, c.units + (u + h.ring[c.next].units), h.ring[c.next].next)
           /\ b + u = c.next /\ cur + c.units # b
              => SlobFree(h, b, u).ring = Put(Put(Without(h.ring, c.next), b, u + h.ring[c.next].units, h.ring[c.next].next), cur, c.units, b)
<1> DEFINE n == h.ring[c.next]
           up == b + u = c.next
           r == IF up THEN Without(h.ring, c.next) ELSE h.ring
           all == IF up THEN u + n.units ELSE u
           next == IF up THEN n.next ELSE c.next
           s == IF cur + c.units = b THEN Put(r, cur, c.units + all, next)
                           ELSE Put(Put(r, b, all, next), cur, c.units, b)
<1>1. SlobFree(h, b, u) = [h EXCEPT !.at = cur, !.ring = s]
  BY Zenon DEF SlobFree
<1>2. /\ IsHeap(SlobFree(h, b, u))
      /\ SlobFree(h, b, u).at = cur
      /\ SlobFree(h, b, u).spare = h.spare
      /\ SlobFree(h, b, u).ret = h.ret
      /\ SlobFree(h, b, u).ring = s
  <2> HIDE DEF s
  <2> QED
    BY <1>1 DEF IsHeap
<1> HIDE DEF s
<1>3. CASE up
  BY <1>2, <1>3 DEF s
<1>4. CASE ~up
  BY <1>2, <1>4 DEF s
<1> QED
  BY <1>2, <1>3, <1>4

(* slob_free adds the units of the block to the ring, which stays sorted   *)
(* and merged.                                                             *)
LEMMA SlobFreeRing ==
    ASSUME NEW h, IsHeap(h), RingOK(h.ring), h.at \in DOMAIN h.ring,
           NEW b \in Nat, b > 1, NEW u \in Nat \ {0}, \A a \in b .. b + u - 1 : ~ InRing(h.ring, a)
    PROVE  /\ Filled(h.ring, SlobFree(h, b, u).ring, b, u)
           /\ SlobFree(h, b, u).at \in DOMAIN SlobFree(h, b, u).ring
<1> DEFINE r == h.ring
           D == DOMAIN r
           cur == Place(h, b)
           nx == r[cur].next
           s == SlobFree(h, b, u).ring
<1>0. /\ D \in SUBSET Nat /\ arena \in D /\ arena = 0 /\ r[arena].units = 1
      /\ \A c \in D : r[c].units \in Nat \ {0} /\ r[c].next \in D /\ Follows(D, c, r[c].next)
      /\ \A c, d \in D : c < d => c + r[c].units < d
  BY RingFinite, NextInRing DEF RingOK, arena
<1>1. \A c \in D : ~(b <= c /\ c < b + u) /\ ~(c <= b /\ b < c + r[c].units)
  <2> SUFFICES ASSUME NEW c \in D PROVE ~(b <= c /\ c < b + u) /\ ~(c <= b /\ b < c + r[c].units)
    OBVIOUS
  <2>1. c \in Nat /\ r[c].units \in Nat \ {0}
    BY <1>0
  <2>2. InRing(r, c)
    BY <2>1 DEF InRing
  <2>3. c <= b /\ b < c + r[c].units => InRing(r, b)
    BY <2>1 DEF InRing
  <2>4. b \in b .. b + u - 1 /\ (b <= c /\ c < b + u => c \in b .. b + u - 1)
    BY <2>1
  <2> QED
    BY <2>2, <2>3, <2>4
<1>2. b \notin D
  <2> HIDE DEF D
  <2>1. b <= b /\ b < b + u
    OBVIOUS
  <2> QED
    BY <2>1, <1>1
<1>3. /\ cur \in D /\ cur < b
      /\ \/ nx = arena /\ \A c \in D : c <= cur
         \/ /\ nx \in D /\ b < nx
            /\ \A c \in D : c <= cur \/ nx <= c
  BY <1>2, PlaceFacts
<1>4. /\ cur \in Nat /\ r[cur].units \in Nat \ {0} /\ nx \in D /\ nx \in Nat /\ r[nx].units \in Nat \ {0}
      /\ r[nx].next \in D /\ r[nx].next \in Nat
  BY <1>0, <1>3
<1>5. /\ SlobFree(h, b, u).at = cur
      /\ b + u # nx /\ cur + r[cur].units = b => s = Put(r, cur, r[cur].units + u, nx)
      /\ b + u # nx /\ cur + r[cur].units # b => s = Put(Put(r, b, u, nx), cur, r[cur].units, b)
      /\ b + u = nx /\ cur + r[cur].units = b => s = Put(Without(r, nx), cur, r[cur].units + (u + r[nx].units), r[nx].next)
      /\ b + u = nx /\ cur + r[cur].units # b => s = Put(Put(Without(r, nx), b, u + r[nx].units, r[nx].next), cur, r[cur].units, b)
  BY SlobFreeFields
<1> HIDE DEF s, cur, nx
<1>6. cur + r[cur].units <= b
  BY <1>1, <1>3, <1>4
<1>7. nx = arena \/ b + u <= nx
  <2>1. nx \in D /\ ~(b <= nx /\ nx < b + u)
    BY <1>1, <1>4
  <2> QED
    BY <2>1, <1>3, <1>4
<1>8. FitsHole(r, cur, b, u)
  <2>1. \/ nx = arena /\ \A c \in D : c <= cur
        \/ nx \in D /\ b + u <= nx /\ \A c \in D : c <= cur \/ nx <= c
    <3>1. nx = 0 => ~(b < nx)
      OBVIOUS
    <3> QED
      BY <3>1, <1>0, <1>3, <1>7
  <2> QED
    BY <2>1, <1>3, <1>6 DEF FitsHole, nx
<1>9. CASE b + u # nx /\ cur + r[cur].units = b
  <2>1. Filled(r, s, b, u)
    BY <1>5, <1>8, <1>9, FillBelow DEF nx
  <2>2. cur \in DOMAIN s
    BY <1>5, <1>9 DEF Put
  <2> QED
    BY <2>1, <2>2, <1>5 DEF s
<1>10. CASE b + u # nx /\ cur + r[cur].units # b
  <2>1. Filled(r, s, b, u)
    BY <1>5, <1>8, <1>10, FillApart DEF nx
  <2>2. cur \in DOMAIN s
    BY <1>5, <1>10 DEF Put
  <2> QED
    BY <2>1, <2>2, <1>5 DEF s
<1>11. CASE b + u = nx
  <2> DEFINE all == u + r[nx].units
             t == Put(Without(r, nx), cur, r[cur].units, r[nx].next)
  <2>1. nx # arena /\ nx \in D
    BY <1>11, <1>4, <1>0
  <2>2. /\ RingOK(t) /\ cur < nx /\ cur \in DOMAIN t
        /\ t[cur].units = r[cur].units /\ t[cur].next = r[nx].next
        /\ \A a \in Int : InRing(t, a) <=> InRing(r, a) /\ ~(nx <= a /\ a < nx + r[nx].units)
    <3>1. cur \in DOMAIN r /\ r[cur].next = nx
      BY <1>3 DEF nx
    <3>2. Emptied(r, t, cur, nx)
      BY <3>1, <2>1, TakeOut
    <3> HIDE DEF t
    <3> QED
      BY <3>1, <3>2, <1>4 DEF Emptied
  <2>3. cur # nx /\ cur # b
    BY <1>3, <1>4, <2>2
  <2>4. /\ cur + r[cur].units = b => s = Put(t, cur, t[cur].units + all, t[cur].next)
        /\ cur + r[cur].units # b => s = Put(Put(t, b, all, t[cur].next), cur, t[cur].units, b)
    <3>1. /\ Put(Put(t, b, all, r[nx].next), cur, r[cur].units, b) = Put(Put(Without(r, nx), b, all, r[nx].next), cur, r[cur].units, b)
          /\ Put(t, cur, r[cur].units + all, r[nx].next) = Put(Without(r, nx), cur, r[cur].units + all, r[nx].next)
      <4>1. cur \in DOMAIN r
        BY <1>3
      <4> HIDE DEF t, all
      <4>2. Put(Put(t, b, all, r[nx].next), cur, r[cur].units, b) = Put(Put(Without(r, nx), b, all, r[nx].next), cur, r[cur].units, b)
        BY <4>1, <2>3, PutAfterOut DEF t
      <4>3. Put(t, cur, r[cur].units + all, r[nx].next) = Put(Without(r, nx), cur, r[cur].units + all, r[nx].next)
        BY <4>1, <2>3, PutOnceMore DEF t
      <4> QED
        BY <4>2, <4>3
    <3> HIDE DEF t
    <3> QED
      BY <3>1, <2>2, <1>5, <1>11
  <2> HIDE DEF t
  <2>5. all \in Nat \ {0} /\ b + all = nx + r[nx].units
    BY <1>4, <1>11
  <2>6. t[cur].next = arena \/ b + all < t[cur].next
    <3>1. Follows(D, nx, r[nx].next)
      BY <1>4, <1>0
    <3>2. r[nx].next = arena \/ nx + r[nx].units < r[nx].next
      BY <3>1, <1>0, <1>4 DEF Follows
    <3> QED
      BY <3>2, <2>2, <2>5
  <2>7. FitsHole(t, cur, b, all) /\ b + all # t[cur].next
    <3>1. Follows(DOMAIN t, cur, t[cur].next)
      BY <2>2 DEF RingOK
    <3>2. t[cur].next \in Nat
      BY <2>2, <1>4
    <3> HIDE DEF all
    <3> QED
      BY <3>1, <3>2, <2>2, <2>5, <2>6, <1>0, <1>4, <1>6 DEF FitsHole, Follows
  <2>8. Filled(t, s, b, all) /\ cur \in DOMAIN s
    <3> HIDE DEF all
    <3>1. CASE cur + r[cur].units = b
      <4>1. s = Put(t, cur, t[cur].units + all, t[cur].next)
        BY <3>1, <2>4
      <4>2. Filled(t, Put(t, cur, t[cur].units + all, t[cur].next), b, all)
        BY <3>1, <2>2, <2>7, FillBelow
      <4> QED
        BY <4>1, <4>2 DEF Put
    <3>2. CASE cur + r[cur].units # b
      <4>1. s = Put(Put(t, b, all, t[cur].next), cur, t[cur].units, b)
        BY <3>2, <2>4
      <4>2. Filled(t, Put(Put(t, b, all, t[cur].next), cur, t[cur].units, b), b, all)
        BY <3>2, <2>2, <2>7, FillApart
      <4> QED
        BY <4>1, <4>2 DEF Put
    <3> QED
      BY <3>1, <3>2
  <2>9. ASSUME NEW a \in Int PROVE InRing(s, a) <=> InRing(r, a) \/ (b <= a /\ a < b + u)
    <3>1. InRing(s, a) <=> InRing(t, a) \/ (b <= a /\ a < b + all)
      BY <2>8 DEF Filled
    <3>2. InRing(t, a) <=> InRing(r, a) /\ ~(nx <= a /\ a < nx + r[nx].units)
      BY <2>2
    <3>3. nx <= a /\ a < nx + r[nx].units => InRing(r, a)
      BY <1>4 DEF InRing
    <3>4. (b <= a /\ a < b + all) <=> (b <= a /\ a < b + u) \/ (nx <= a /\ a < nx + r[nx].units)
      BY <1>4, <1>11, <2>5
    <3> QED
      BY <3>1, <3>2, <3>3, <3>4
  <2> QED
    BY <2>8, <2>9, <1>5 DEF Filled, s
<1> QED
  BY <1>9, <1>10, <1>11

(* What slob_alloc takes is found and is the front of a free block.        *)
LEMMA FitFound ==
    ASSUME NEW h, RingOK(h.ring), h.at \in DOMAIN h.ring, NEW units \in Nat, units > 1,
           Fitting(h, units) # {},
           NEW k, k = Min(Fitting(h, units)), NEW cur, cur = RingWalk(h.ring, h.ring[h.at].next)[k],
           NEW prev, prev = RingWalk(h.ring, h.at)[k]
    PROVE  /\ cur \in DOMAIN h.ring /\ prev \in DOMAIN h.ring /\ h.ring[prev].next = cur
           /\ h.ring[cur].units >= units /\ cur # arena
<1> DEFINE r == h.ring
           n == Cardinality(DOMAIN r)
           w == RingWalk(r, r[h.at].next)
           F == Fitting(h, units)
<1>1. F = {i \in 0 .. n - 1 : r[w[i]].units >= units}
  BY DEF Fitting
<1>2. n \in Nat \ {0} /\ w \in [0 .. n -> DOMAIN r]
  BY NextInRing, RingWalkDef
<1>3. RingWalk(r, h.at) \in [0 .. n -> DOMAIN r]
  BY RingWalkDef
<1> HIDE DEF F, n, w
<1>4. F \in SUBSET Nat
  BY <1>1, <1>2
<1>5. k \in F
  BY <1>4, MinOf DEF F
<1>6. k \in 0 .. n - 1 /\ k \in 0 .. n /\ r[w[k]].units >= units
  BY <1>1, <1>2, <1>5
<1>7. cur \in DOMAIN r /\ prev \in DOMAIN r /\ r[cur].units >= units
  BY <1>2, <1>3, <1>6 DEF w
<1>8. r[prev].next = cur
  BY <1>6, RingWalkAhead DEF n, w
<1>9. cur # arena
  BY <1>7 DEF RingOK
<1> QED
  BY <1>7, <1>8, <1>9

(* The heap g after the search took the front of the block cur of h, which *)
(* is after prev, or all of it.                                            *)
TakenFrom(h, units, cur, prev, g) ==
    /\ IsHeap(g) /\ g.at = prev /\ g.ret = cur /\ g.spare = h.spare
    /\ h.ring[cur].units = units
       => g.ring = Put(Without(h.ring, cur), prev, h.ring[prev].units, h.ring[cur].next)
    /\ h.ring[cur].units # units
       => g.ring = Put(Put(Without(h.ring, cur), cur + units, h.ring[cur].units - units, h.ring[cur].next),
                       prev, h.ring[prev].units, cur + units)

(* What the search of slob_alloc returns, by whether the block is taken    *)
(* whole.                                                                  *)
LEMMA TakeUnitsFields ==
    ASSUME NEW h, IsHeap(h), NEW units, NEW k, k = Min(Fitting(h, units)),
           NEW cur, cur = RingWalk(h.ring, h.ring[h.at].next)[k],
           NEW prev, prev = RingWalk(h.ring, h.at)[k], NEW c, c = h.ring[cur]
    PROVE  TakenFrom(h, units, cur, prev, TakeUnits(h, units))
<1> DEFINE r == Without(h.ring, cur)
           rest == IF c.units = units THEN r ELSE Put(r, cur + units, c.units - units, c.next)
           s == Put(rest, prev, h.ring[prev].units, IF c.units = units THEN c.next ELSE cur + units)
<1>1. TakeUnits(h, units) = [h EXCEPT !.ring = s, !.at = prev, !.ret = cur]
  BY Zenon DEF TakeUnits
<1>2. /\ IsHeap(TakeUnits(h, units))
      /\ TakeUnits(h, units).at = prev /\ TakeUnits(h, units).ret = cur
      /\ TakeUnits(h, units).spare = h.spare
      /\ TakeUnits(h, units).ring = s
  <2> HIDE DEF s
  <2> QED
    BY <1>1 DEF IsHeap
<1> HIDE DEF s
<1>3. c.units = units => s = Put(Without(h.ring, cur), prev, h.ring[prev].units, c.next)
  BY DEF s
<1>4. c.units # units => s = Put(Put(Without(h.ring, cur), cur + units, c.units - units, c.next), prev, h.ring[prev].units, cur + units)
  BY DEF s
<1> QED
  BY <1>2, <1>3, <1>4 DEF TakenFrom

(* The search takes units that were free, and takes just those out of the  *)
(* ring.                                                                   *)
LEMMA TakeUnitsRing ==
    ASSUME NEW h, IsHeap(h), RingOK(h.ring), h.at \in DOMAIN h.ring, NEW units \in Nat, units > 1,
           Fitting(h, units) # {}, NEW g, g = TakeUnits(h, units)
    PROVE  /\ IsHeap(g) /\ g.spare = h.spare /\ RingOK(g.ring) /\ g.at \in DOMAIN g.ring
           /\ g.ret \in Nat /\ g.ret > 1
           /\ \A a \in g.ret .. g.ret + units - 1 : InRing(h.ring, a)
           /\ \A a \in Int : InRing(g.ring, a) <=> InRing(h.ring, a) /\ ~(g.ret <= a /\ a < g.ret + units)
<1> DEFINE r == h.ring
           D == DOMAIN r
<1>1. PICK k : k = Min(Fitting(h, units))
  OBVIOUS
<1>2. PICK cur : cur = RingWalk(r, r[h.at].next)[k]
  OBVIOUS
<1>3. PICK prev : prev = RingWalk(r, h.at)[k]
  OBVIOUS
<1>4. /\ cur \in D /\ prev \in D /\ r[prev].next = cur /\ r[cur].units >= units /\ cur # arena
  BY <1>1, <1>2, <1>3, FitFound
<1>5. PICK c : c = r[cur]
  OBVIOUS
<1>6. /\ IsHeap(g) /\ g.at = prev /\ g.ret = cur /\ g.spare = h.spare
      /\ c.units = units => g.ring = Put(Without(r, cur), prev, r[prev].units, c.next)
      /\ c.units # units => g.ring = Put(Put(Without(r, cur), cur + units, c.units - units, c.next), prev, r[prev].units, cur + units)
  <2>1. TakenFrom(h, units, cur, prev, TakeUnits(h, units))
    BY <1>1, <1>2, <1>3, <1>5, TakeUnitsFields
  <2>2. TakenFrom(h, units, cur, prev, g)
    BY <2>1
  <2> QED
    BY <2>2, <1>5 DEF TakenFrom
<1>7. PICK t : t = Put(Without(r, cur), prev, r[prev].units, r[cur].next)
  OBVIOUS
<1>8. /\ RingOK(t) /\ prev < cur
      /\ DOMAIN t = D \ {cur} /\ t[prev].units = r[prev].units /\ t[prev].next = r[cur].next
      /\ \A a \in Int : InRing(t, a) <=> InRing(r, a) /\ ~(cur <= a /\ a < cur + r[cur].units)
  <2>1. Emptied(r, Put(Without(r, cur), prev, r[prev].units, r[cur].next), prev, cur)
    BY <1>4, TakeOut
  <2>2. Emptied(r, t, prev, cur)
    BY <2>1, <1>7
  <2> QED
    BY <2>2 DEF Emptied
<1>0. /\ D \in SUBSET Nat /\ arena \in D /\ arena = 0 /\ r[arena].units = 1
      /\ \A b \in D : r[b].units \in Nat \ {0} /\ r[b].next \in D /\ Follows(D, b, r[b].next)
      /\ \A b, d \in D : b < d => b + r[b].units < d
  BY RingFinite, NextInRing DEF RingOK, arena
<1>9. /\ cur \in Nat /\ c.units \in Nat /\ cur > 1 /\ prev \in Nat /\ r[prev].units \in Nat /\ prev + r[prev].units < cur
      /\ c.next \in D /\ c.next \in Nat
  <2>1. cur \in Nat /\ c.units \in Nat /\ prev \in Nat /\ r[prev].units \in Nat /\ c.next \in D /\ c.next \in Nat
    BY <1>0, <1>4, <1>5
  <2>2. prev + r[prev].units < cur
    BY <1>0, <1>4, <1>8
  <2>3. 0 + 1 < cur
    BY <1>0, <1>4, <2>1
  <2> QED
    BY <2>1, <2>2, <2>3
<1>10. ASSUME NEW a \in Int, cur <= a, a < cur + units PROVE InRing(r, a)
  BY <1>10, <1>4, <1>5, <1>9 DEF InRing
<1>11. CASE c.units = units
  <2>1. g.ring = t
    BY <1>5, <1>6, <1>7, <1>11
  <2> QED
    BY <2>1, <1>4, <1>5, <1>6, <1>8, <1>9, <1>10, <1>11
<1>12. CASE c.units # units
  <2>1. PICK b : b = cur + units
    OBVIOUS
  <2>2. PICK u : u = c.units - units
    OBVIOUS
  <2>3. b \in Nat /\ u \in Nat \ {0} /\ b + u = cur + c.units /\ b > 1 /\ cur < b
    <3>1. c.units >= units /\ c.units # units /\ c.units \in Nat
      BY <1>4, <1>5, <1>9, <1>12
    <3>2. PICK m : m = c.units
      OBVIOUS
    <3>3. cur \in Nat /\ cur > 1
      BY <1>9
    <3> QED
      BY <3>1, <3>2, <3>3, <2>1, <2>2
  <2>4. prev # cur /\ b # prev
    BY <2>3, <1>8, <1>9
  <2>5. g.ring = Put(Put(t, b, u, c.next), prev, r[prev].units, b)
    <3>1. t = Put(Without(r, cur), prev, r[prev].units, c.next)
      BY <1>5, <1>7
    <3>2. Put(Put(t, b, u, c.next), prev, r[prev].units, b) = Put(Put(Without(r, cur), b, u, c.next), prev, r[prev].units, b)
      BY <3>1, <2>4, <1>4, PutAfterOut
    <3> QED
      BY <3>2, <1>6, <1>12, <2>1, <2>2
  <2>6. c.next = arena \/ b + u < c.next
    <3>1. Follows(D, cur, c.next)
      BY <1>0, <1>4, <1>5
    <3>2. c.next = arena \/ cur < c.next
      BY <3>1 DEF Follows
    <3>3. cur < c.next => cur + c.units < c.next
      BY <1>0, <1>4, <1>5, <1>9
    <3> QED
      BY <3>2, <3>3, <2>3
  <2>7. FitsHole(t, prev, b, u) /\ b + u # t[prev].next /\ prev + t[prev].units # b
    <3>1. Follows(DOMAIN t, prev, c.next)
      <4>1. prev \in DOMAIN t
        BY <1>4, <1>8, <2>4
      <4> QED
        BY <4>1, <1>5, <1>8 DEF RingOK
    <3>2. t[prev].next = c.next /\ t[prev].units = r[prev].units /\ prev \in DOMAIN t
      BY <1>4, <1>5, <1>8, <2>4
    <3> QED
      BY <3>1, <3>2, <2>3, <2>6, <1>0, <1>9 DEF FitsHole, Follows
  <2>8. Filled(t, g.ring, b, u)
    <3>1. Filled(t, Put(Put(t, b, u, t[prev].next), prev, t[prev].units, b), b, u)
      BY <2>7, <1>8, FillApart
    <3> QED
      BY <3>1, <2>5, <1>5, <1>8
  <2>9. prev \in DOMAIN g.ring
    BY <2>5 DEF Put
  <2>10. ASSUME NEW a \in Int
         PROVE  InRing(g.ring, a) <=> InRing(r, a) /\ ~(cur <= a /\ a < cur + units)
    <3>1. InRing(g.ring, a) <=> InRing(t, a) \/ (b <= a /\ a < b + u)
      BY <2>8 DEF Filled
    <3>2. InRing(t, a) <=> InRing(r, a) /\ ~(cur <= a /\ a < cur + c.units)
      BY <1>5, <1>8
    <3>3. (cur <= a /\ a < cur + c.units) => InRing(r, a)
      BY <1>4, <1>5 DEF InRing
    <3> QED
      BY <3>1, <3>2, <3>3, <2>1, <2>3, <1>9
  <2> QED
    BY <2>8, <2>9, <2>10, <1>6, <1>9, <1>10 DEF Filled
<1> QED
  BY <1>11, <1>12

Parameters == U \in Nat /\ U > 2 /\ NPages \in Nat /\ UNIT \in Nat \ {0}

(* The addresses taken from the page manager when s are the pages left.    *)
MemUnit(s, a) == a = arena \/ \E p \in HeapPage \ s : p * U <= a /\ a < p * U + U

(* A heap whose memory is in the ring but for the addresses in T.          *)
HeapOK(h, T) ==
    /\ IsHeap(h) /\ RingOK(h.ring) /\ h.at \in DOMAIN h.ring /\ h.spare \subseteq HeapPage
    /\ T \subseteq Nat /\ \A a \in T : a > 1 /\ MemUnit(h.spare, a)
    /\ \A a \in Int : InRing(h.ring, a) <=> MemUnit(h.spare, a) /\ a \notin T

(* Pages do not overlap.                                                   *)
LEMMA PagesApart ==
    ASSUME Parameters, NEW p \in Nat, NEW q \in Nat, p < q
    PROVE  p * U + U <= q * U /\ p * U \in Nat /\ q * U \in Nat
BY DEF Parameters

(* What slob_free makes of such a heap.                                    *)
Freed(h, T, b, u, g) == HeapOK(g, T \ (b .. b + u - 1)) /\ g.spare = h.spare /\ g.ret = h.ret

(* slob_free of units that are in use gives them back to the ring.         *)
LEMMA SlobFreeHeap ==
    ASSUME Parameters, NEW h, NEW T, HeapOK(h, T), NEW b \in Nat, NEW u \in Nat \ {0}, b .. b + u - 1 \subseteq T
    PROVE  Freed(h, T, b, u, SlobFree(h, b, u))
<1> DEFINE I == b .. b + u - 1
           g == SlobFree(h, b, u)
<1>1. IsHeap(h) /\ RingOK(h.ring) /\ h.at \in DOMAIN h.ring /\ h.spare \subseteq HeapPage /\ T \subseteq Nat
  BY DEF HeapOK
<1>2. b \in T /\ b > 1
  BY DEF HeapOK
<1>3. \A a \in I : ~ InRing(h.ring, a)
  BY DEF HeapOK
<1>4. Filled(h.ring, SlobFree(h, b, u).ring, b, u) /\ SlobFree(h, b, u).at \in DOMAIN SlobFree(h, b, u).ring
  BY <1>1, <1>2, <1>3, SlobFreeRing
<1>5. IsHeap(g) /\ g.spare = h.spare /\ g.ret = h.ret
  BY <1>1, SlobFreeFields
<1>6. \A a \in Int : a \in I <=> b <= a /\ a < b + u
  OBVIOUS
<1> HIDE DEF I, g
<1>7. \A a \in Int : InRing(g.ring, a) <=> MemUnit(g.spare, a) /\ a \notin T \ I
  <2> SUFFICES ASSUME NEW a \in Int PROVE InRing(g.ring, a) <=> MemUnit(g.spare, a) /\ a \notin T \ I
    OBVIOUS
  <2>1. InRing(g.ring, a) <=> InRing(h.ring, a) \/ a \in I
    BY <1>4, <1>6 DEF Filled, g
  <2>2. InRing(h.ring, a) <=> MemUnit(h.spare, a) /\ a \notin T
    BY DEF HeapOK
  <2>3. a \in I => a \in T /\ MemUnit(h.spare, a)
    BY DEF HeapOK, I
  <2> QED
    BY <2>1, <2>2, <2>3, <1>5
<1>8. RingOK(g.ring) /\ g.at \in DOMAIN g.ring
  BY <1>4 DEF Filled, g
<1>9. \A a \in T \ I : a > 1 /\ MemUnit(g.spare, a)
  BY <1>5 DEF HeapOK
<1> QED
  BY <1>1, <1>5, <1>7, <1>8, <1>9 DEF HeapOK, I, Freed, g

(* The units of a free page are those of no other.                         *)
LEMMA SparePageUnits ==
    ASSUME Parameters, NEW s, s \subseteq HeapPage, NEW p \in s, NEW a \in Int
    PROVE  /\ MemUnit(s \ {p}, a) <=> MemUnit(s, a) \/ (p * U <= a /\ a < p * U + U)
           /\ p * U <= a /\ a < p * U + U => ~ MemUnit(s, a) /\ a > 1
<1>1. p \in HeapPage /\ p \in Nat /\ p > 0 /\ \A q \in HeapPage : q \in Nat
  BY DEF HeapPage, Parameters
<1>2. MemUnit(s \ {p}, a) <=> MemUnit(s, a) \/ (p * U <= a /\ a < p * U + U)
  BY <1>1 DEF MemUnit
<1>3. ASSUME p * U <= a, a < p * U + U PROVE ~ MemUnit(s, a) /\ a > 1
  <2>1. U <= p * U /\ p * U \in Nat
    BY <1>1, PagesApart DEF Parameters
  <2>2. a > 1
    BY <2>1, <1>3 DEF Parameters
  <2>3. ASSUME NEW q \in HeapPage \ s, q * U <= a, a < q * U + U PROVE FALSE
    <3>1. q \in Nat /\ (q < p \/ p < q)
      BY <1>1
    <3>2. (q < p => q * U + U <= p * U) /\ (p < q => p * U + U <= q * U) /\ q * U \in Nat
      BY <1>1, <3>1, PagesApart
    <3> QED
      BY <1>3, <2>1, <2>3, <3>1, <3>2 DEF Parameters
  <2> QED
    BY <2>2, <2>3 DEF MemUnit, arena
<1> QED
  BY <1>2, <1>3

(* A page added to the ring: nothing else changes, and a block of a page   *)
(* is there.                                                               *)
LEMMA GrowHeap ==
    ASSUME Parameters, NEW h, NEW T, HeapOK(h, T), h.spare # {}, NEW g, g = Grow(h)
    PROVE  /\ HeapOK(g, T) /\ g.spare \subseteq h.spare /\ g.ret = h.ret
           /\ \E c \in DOMAIN g.ring : g.ring[c].units >= U
<1>1. PICK p : p = Min(h.spare)
  OBVIOUS
<1>2. p \in h.spare /\ p \in HeapPage /\ p \in Nat /\ h.spare \subseteq HeapPage /\ p * U \in Nat
  <2>1. h.spare \in SUBSET Nat
    BY DEF HeapOK, HeapPage, Parameters
  <2>2. p \in h.spare
    BY <2>1, <1>1, MinOf
  <2>3. p \in Nat
    BY <2>1, <2>2
  <2> QED
    BY <2>2, <2>3 DEF HeapOK, Parameters
<1>3. PICK k : k = [h EXCEPT !.spare = @ \ {p}]
  OBVIOUS
<1>4. IsHeap(k) /\ k.ring = h.ring /\ k.at = h.at /\ k.ret = h.ret /\ k.spare = h.spare \ {p}
  BY <1>3 DEF HeapOK, IsHeap
<1>5. PICK b : b = p * U
  OBVIOUS
<1> DEFINE I == b .. b + U - 1
<1>6. b \in Nat /\ U \in Nat \ {0} /\ \A a : a \in I <=> a \in Int /\ b <= a /\ a < b + U
  BY <1>2, <1>5 DEF Parameters
<1>7. \A a \in Int : /\ MemUnit(k.spare, a) <=> MemUnit(h.spare, a) \/ a \in I
                     /\ a \in I => ~ MemUnit(h.spare, a) /\ a > 1
  <2> SUFFICES ASSUME NEW a \in Int
               PROVE  /\ MemUnit(k.spare, a) <=> MemUnit(h.spare, a) \/ a \in I
                      /\ a \in I => ~ MemUnit(h.spare, a) /\ a > 1
    OBVIOUS
  <2> HIDE DEF I
  <2>1. /\ MemUnit(h.spare \ {p}, a) <=> MemUnit(h.spare, a) \/ (p * U <= a /\ a < p * U + U)
        /\ p * U <= a /\ a < p * U + U => ~ MemUnit(h.spare, a) /\ a > 1
    BY <1>2, SparePageUnits
  <2>2. a \in I <=> p * U <= a /\ a < p * U + U
    BY <1>5, <1>6
  <2> QED
    BY <2>1, <2>2, <1>4
<1> HIDE DEF I
<1>8. HeapOK(k, T \cup I)
  <2>1. \A a \in T \cup I : a > 1 /\ MemUnit(k.spare, a) /\ a \in Nat
    <3> SUFFICES ASSUME NEW a \in T \cup I PROVE a > 1 /\ MemUnit(k.spare, a) /\ a \in Nat
      OBVIOUS
    <3>1. CASE a \in T
      <4>1. T \subseteq Nat /\ \A x \in T : x > 1 /\ MemUnit(h.spare, x)
        BY Zenon DEF HeapOK
      <4>2. a \in Nat /\ a > 1 /\ MemUnit(h.spare, a) /\ a \in Int
        BY <3>1, <4>1
      <4> QED
        BY <4>2, <1>7
    <3>2. CASE a \in I
      <4>1. a \in Int
        BY <3>2, <1>6
      <4> QED
        BY <4>1, <3>2, <1>7
    <3> QED
      BY <3>1, <3>2
  <2>2. ASSUME NEW a \in Int PROVE InRing(k.ring, a) <=> MemUnit(k.spare, a) /\ a \notin T \cup I
    <3>1. InRing(h.ring, a) <=> MemUnit(h.spare, a) /\ a \notin T
      BY DEF HeapOK
    <3> QED
      BY <3>1, <1>4, <1>7
  <2>3. RingOK(h.ring) /\ h.at \in DOMAIN h.ring /\ h.spare \subseteq HeapPage
    BY DEF HeapOK
  <2> QED
    BY <2>1, <2>2, <2>3, <1>4 DEF HeapOK
<1>9. g = SlobFree(k, b, U)
  BY <1>1, <1>3, <1>5 DEF Grow
<1>10. HeapOK(g, (T \cup I) \ I) /\ g.spare = k.spare /\ g.ret = k.ret
  <2>1. Freed(k, T \cup I, b, U, SlobFree(k, b, U))
    BY <1>6, <1>8, SlobFreeHeap DEF I
  <2> QED
    BY <2>1, <1>9 DEF Freed, I
<1>11. \A a \in T : a \notin I
  <2> SUFFICES ASSUME NEW a \in T, a \in I PROVE FALSE
    OBVIOUS
  <2>1. a \in Int /\ MemUnit(h.spare, a)
    BY DEF HeapOK
  <2> QED
    BY <2>1, <1>7
<1>12. (T \cup I) \ I = T
  BY <1>11
<1>13. \E c \in DOMAIN g.ring : g.ring[c].units >= U
  <2>1. ASSUME NEW a \in I PROVE InRing(g.ring, a)
    <3>1. a \in Int /\ a \notin T
      BY <1>6, <1>11
    <3>2. MemUnit(g.spare, a)
      BY <3>1, <1>7, <1>10
    <3> QED
      BY <3>1, <3>2, <1>10, <1>12 DEF HeapOK
  <2>2. b \in I
    BY <1>6
  <2>3. PICK c \in DOMAIN g.ring : c <= b /\ b < c + g.ring[c].units
    BY <2>1, <2>2 DEF InRing
  <2>4. /\ \A d \in DOMAIN g.ring : d \in Nat /\ g.ring[d].units \in Nat \ {0}
        /\ \A d, e \in DOMAIN g.ring : d < e => d + g.ring[d].units < e
    BY <1>10, RingFinite DEF HeapOK, RingOK
  <2>5. c \in Nat /\ g.ring[c].units \in Nat
    BY <2>4
  <2>6. ASSUME g.ring[c].units < U PROVE FALSE
    <3>1. PICK e : e = c + g.ring[c].units
      OBVIOUS
    <3>2. e \in I /\ e \in Nat
      BY <3>1, <2>3, <2>5, <2>6, <1>6
    <3>3. PICK d \in DOMAIN g.ring : d <= e /\ e < d + g.ring[d].units
      BY <3>2, <2>1 DEF InRing
    <3>4. d \in Nat /\ g.ring[d].units \in Nat
      BY <2>4
    <3>5. CASE d = c
      BY <3>5, <3>1, <3>3, <2>5
    <3>6. CASE d < c
      <4>1. d + g.ring[d].units < c
        BY <3>6, <2>4
      <4> QED
        BY <4>1, <3>1, <3>3, <3>4, <2>5
    <3>7. CASE c < d
      <4>1. c + g.ring[c].units < d
        BY <3>7, <2>4
      <4> QED
        BY <4>1, <3>1, <3>3, <3>4, <2>5
    <3> QED
      BY <3>4, <3>5, <3>6, <3>7, <2>5
  <2>7. U \in Nat
    BY <1>6
  <2> QED
    BY <2>5, <2>6, <2>7
<1> QED
  BY <1>4, <1>10, <1>12, <1>13

(* The search finds a block if there is one that is large enough.          *)
LEMMA FitExists ==
    ASSUME NEW h, RingOK(h.ring), h.at \in DOMAIN h.ring, NEW units, NEW c \in DOMAIN h.ring, h.ring[c].units >= units
    PROVE  Fitting(h, units) # {}
<1>1. h.ring[h.at].next \in DOMAIN h.ring
  BY NextInRing
<1>2. PICK k \in 0 .. Cardinality(DOMAIN h.ring) - 1 : RingWalk(h.ring, h.ring[h.at].next)[k] = c
  BY <1>1, RingWalkCovers
<1>3. k \in Fitting(h, units)
  BY <1>2 DEF Fitting
<1> QED
  BY <1>3

(* What the search of slob_alloc makes of such a heap.                     *)
UnitsTaken(h, T, units, g) ==
    /\ g.spare = h.spare /\ g.ret \in Nat /\ g.ret > 1
    /\ HeapOK(g, T \cup (g.ret .. g.ret + units - 1))
    /\ \A a \in g.ret .. g.ret + units - 1 : a \notin T

(* The units that are taken were not in use, and are now.                  *)
LEMMA TakeUnitsHeap ==
    ASSUME Parameters, NEW h, NEW T, HeapOK(h, T), NEW units \in Nat, units > 1, Fitting(h, units) # {},
           NEW g, g = TakeUnits(h, units)
    PROVE  UnitsTaken(h, T, units, g)
<1> DEFINE I == g.ret .. g.ret + units - 1
<1>1. IsHeap(h) /\ RingOK(h.ring) /\ h.at \in DOMAIN h.ring /\ h.spare \subseteq HeapPage /\ T \subseteq Nat
  BY DEF HeapOK
<1>2. /\ IsHeap(g) /\ g.spare = h.spare /\ RingOK(g.ring) /\ g.at \in DOMAIN g.ring
      /\ g.ret \in Nat /\ g.ret > 1
      /\ \A a \in I : InRing(h.ring, a)
      /\ \A a \in Int : InRing(g.ring, a) <=> InRing(h.ring, a) /\ ~(g.ret <= a /\ a < g.ret + units)
  BY <1>1, TakeUnitsRing
<1>3. \A a : a \in I <=> a \in Int /\ g.ret <= a /\ a < g.ret + units
  BY <1>2
<1> HIDE DEF I
<1>4. \A a \in I : a \in Nat /\ a > 1 /\ MemUnit(h.spare, a) /\ a \notin T
  <2> SUFFICES ASSUME NEW a \in I PROVE a \in Nat /\ a > 1 /\ MemUnit(h.spare, a) /\ a \notin T
    OBVIOUS
  <2>1. a \in Nat /\ a > 1 /\ a \in Int
    BY <1>2, <1>3
  <2> QED
    BY <2>1, <1>2 DEF HeapOK
<1>5. \A a \in Int : InRing(g.ring, a) <=> MemUnit(g.spare, a) /\ a \notin T \cup I
  <2> SUFFICES ASSUME NEW a \in Int PROVE InRing(g.ring, a) <=> MemUnit(g.spare, a) /\ a \notin T \cup I
    OBVIOUS
  <2>1. InRing(h.ring, a) <=> MemUnit(h.spare, a) /\ a \notin T
    BY DEF HeapOK
  <2> QED
    BY <2>1, <1>2, <1>3
<1>6. \A a \in T : a \in Nat /\ a > 1 /\ MemUnit(h.spare, a)
  BY DEF HeapOK
<1> QED
  BY <1>1, <1>2, <1>4, <1>5, <1>6 DEF HeapOK, UnitsTaken, I

(* slob_alloc of at most a page.                                           *)
Allocated(h, T, units, g) ==
    /\ g.spare \subseteq h.spare
    /\ \/ g.ret = 0 /\ HeapOK(g, T)
       \/ /\ g.ret \in Nat /\ g.ret > 1
          /\ HeapOK(g, T \cup (g.ret .. g.ret + units - 1))
          /\ \A a \in g.ret .. g.ret + units - 1 : a \notin T

(* slob_alloc of at most a page: as the search, after a page was added if  *)
(* it has to be, or nothing.                                               *)
LEMMA SlobAllocHeap ==
    ASSUME Parameters, NEW h, NEW T, HeapOK(h, T), NEW units \in Nat, units > 1, units <= U,
           NEW g, g = SlobAlloc(h, units)
    PROVE  Allocated(h, T, units, g)
<1>1. CASE Fitting(h, units) # {}
  <2>1. g = TakeUnits(h, units)
    BY <1>1 DEF SlobAlloc
  <2> QED
    <3>1. UnitsTaken(h, T, units, g)
      BY <2>1, <1>1, TakeUnitsHeap
    <3> QED
      BY <3>1 DEF Allocated, UnitsTaken
<1>2. CASE Fitting(h, units) = {} /\ h.spare = {}
  <2>1. g = [h EXCEPT !.ret = 0]
    BY <1>2 DEF SlobAlloc
  <2>2. IsHeap(g) /\ g.ring = h.ring /\ g.at = h.at /\ g.spare = h.spare /\ g.ret = 0
    BY <2>1 DEF HeapOK, IsHeap
  <2> QED
    BY <2>2 DEF HeapOK, Allocated
<1>3. CASE Fitting(h, units) = {} /\ h.spare # {}
  <2>1. PICK k : k = Grow(h)
    OBVIOUS
  <2>2. g = TakeUnits(k, units)
    BY <1>3, <2>1 DEF SlobAlloc
  <2>3. HeapOK(k, T) /\ k.spare \subseteq h.spare /\ \E c \in DOMAIN k.ring : k.ring[c].units >= U
    BY <1>3, <2>1, GrowHeap
  <2>4. PICK c \in DOMAIN k.ring : k.ring[c].units >= U
    BY <2>3
  <2>5. k.ring[c].units >= units
    <3>1. k.ring[c].units \in Nat
      BY <2>3 DEF HeapOK, RingOK
    <3> QED
      BY <3>1, <2>4 DEF Parameters
  <2>6. Fitting(k, units) # {}
    BY <2>3, <2>5, FitExists DEF HeapOK
  <2> QED
    <3>1. UnitsTaken(k, T, units, g)
      BY <2>2, <2>3, <2>6, TakeUnitsHeap
    <3> QED
      BY <3>1, <2>3 DEF Allocated, UnitsTaken
<1> QED
  BY <1>1, <1>2, <1>3

(* Pow2 is what its recursive definition says.                             *)
LEMMA Pow2Def ==
    ASSUME Parameters
    PROVE  Pow2[0] = 1 /\ \A k \in 1 .. NPages : Pow2[k] = 2 * Pow2[k - 1]
<1> DEFINE Body(f) == [k \in 0 .. NPages |-> IF k = 0 THEN 1 ELSE 2 * f[k - 1]]
           g == [y \in Nat |-> 2 * y]
<1>0. NPages \in Nat
  BY DEF Parameters
<1>N. PICK S : S = Nat
  OBVIOUS
<1>1. PICK w : w \in Steps(g, S, 1, NPages)
  <2>1. 1 \in S /\ \A y \in S : g[y] \in S
    BY <1>N
  <2> HIDE DEF g
  <2> QED
    BY <2>1, <1>0, StepsExist
<1>2. w \in [0 .. NPages -> Nat] /\ w[0] = 1 /\ \A k \in 1 .. NPages : w[k] = 2 * w[k - 1]
  <2>1. w \in [0 .. NPages -> S] /\ w[0] = 1 /\ \A k \in 1 .. NPages : w[k] = g[w[k - 1]]
    BY <1>1 DEF Steps
  <2>2. \A k \in 1 .. NPages : k - 1 \in 0 .. NPages
    BY <1>0
  <2> QED
    BY <2>1, <2>2, <1>N
<1>3. w = Body(w)
  BY <1>0, <1>2
<1>4. Pow2 = CHOOSE f : f = Body(f)
  BY Zenon DEF Pow2
<1>5. Pow2 = Body(Pow2)
  BY <1>3, <1>4
<1> QED
  BY <1>0, <1>5

(* A power of two is positive.                                             *)
LEMMA Pow2Pos ==
    ASSUME Parameters, NEW k \in 0 .. NPages
    PROVE  Pow2[k] \in Nat \ {0}
<1> DEFINE Bad == {i \in 0 .. NPages : Pow2[i] \notin Nat \ {0}}
<1> SUFFICES ASSUME Bad # {} PROVE FALSE
  OBVIOUS
<1>0. NPages \in Nat
  BY DEF Parameters
<1>1. PICK i \in Bad : \A j \in Bad : i <= j
  <2>1. Bad \in SUBSET Nat
    OBVIOUS
  <2> HIDE DEF Bad
  <2> QED
    BY <2>1, Least
<1>2. i # 0
  BY <1>1, Pow2Def
<1>3. i \in 1 .. NPages /\ i - 1 \in 0 .. NPages /\ i - 1 \notin Bad
  BY <1>0, <1>1, <1>2
<1>4. Pow2[i - 1] \in Nat \ {0} /\ Pow2[i] = 2 * Pow2[i - 1]
  BY <1>3, Pow2Def
<1> QED
  BY <1>1, <1>4

---------------------------------------------------------------------------
(* The page of an address.                                                 *)
LEMMA PageOfUnit ==
    ASSUME Parameters, NEW a \in Nat
    PROVE  \E q \in Nat : q * U <= a /\ a < q * U + U
<1>1. U \in Nat /\ U > 0
  BY DEF Parameters
<1>2. a \div U \in Nat /\ (a \div U) * U <= a /\ a < (a \div U) * U + U
  BY <1>1
<1> QED
  BY <1>2

(* The units of n pages from p on, which are free.                         *)
LEMMA SpareRunUnits ==
    ASSUME Parameters, NEW s, s \subseteq HeapPage, NEW p \in Nat, NEW n \in Nat \ {0},
           p .. p + n - 1 \subseteq s, NEW a \in Int
    PROVE  /\ MemUnit(s \ (p .. p + n - 1), a) <=> MemUnit(s, a) \/ (p * U <= a /\ a < p * U + n * U)
           /\ p * U <= a /\ a < p * U + n * U => ~ MemUnit(s, a) /\ a > 1
<1> DEFINE run == p .. p + n - 1
<1>1. /\ U \in Nat /\ U > 2 /\ (\A q \in HeapPage : q \in Nat /\ q > 0)
      /\ \A q : q \in run <=> q \in Nat /\ p <= q /\ q < p + n
  BY DEF Parameters, HeapPage
<1>2. p \in run
  BY <1>1
<1> HIDE DEF run
<1>3. (p + n) * U = p * U + n * U /\ p * U \in Nat /\ n * U \in Nat /\ p + n \in Nat
  BY <1>1
<1>4. ASSUME p * U <= a, a < p * U + n * U
      PROVE  \E q \in run : q * U <= a /\ a < q * U + U
  <2>1. a \in Nat
    BY <1>3, <1>4
  <2>2. PICK q \in Nat : q * U <= a /\ a < q * U + U
    BY <2>1, PageOfUnit
  <2>3. q * U \in Nat
    BY <1>1
  <2>4. ~(q < p)
    <3>1. q < p => q * U + U <= p * U
      BY PagesApart
    <3> QED
      BY <3>1, <2>2, <2>3, <1>1, <1>3, <1>4
  <2>5. ~(p + n < q) /\ p + n # q
    <3>1. p + n < q => (p + n) * U + U <= q * U
      BY <1>3, PagesApart
    <3> QED
      BY <3>1, <2>2, <2>3, <1>1, <1>3, <1>4
  <2> QED
    BY <2>2, <2>4, <2>5, <1>1, <1>3
<1>5. ASSUME NEW q \in run, q * U <= a, a < q * U + U
      PROVE  p * U <= a /\ a < p * U + n * U
  <2>1. q \in Nat /\ q * U \in Nat /\ p <= q /\ q < p + n
    BY <1>1
  <2>2. p < q => p * U + U <= q * U
    BY <2>1, PagesApart
  <2>3. q * U + U <= (p + n) * U
    BY <2>1, <1>3, PagesApart
  <2> QED
    BY <2>1, <2>2, <2>3, <1>1, <1>3, <1>5
<1>6. MemUnit(s \ run, a) <=> MemUnit(s, a) \/ (p * U <= a /\ a < p * U + n * U)
  BY <1>4, <1>5 DEF MemUnit, run
<1>7. ASSUME p * U <= a, a < p * U + n * U PROVE ~ MemUnit(s, a) /\ a > 1
  <2>1. PICK q \in run : q * U <= a /\ a < q * U + U
    BY <1>4, <1>7
  <2>2. q \in s
    BY DEF run
  <2> QED
    BY <2>1, <2>2, SparePageUnits
<1> QED
  BY <1>6, <1>7 DEF run

(* alloc_pages and free_pages of n pages leave the ring as it is.          *)
SameRing(h, k) == IsHeap(k) /\ k.ring = h.ring /\ k.at = h.at
PagesTaken(T, p, n, k) ==
    /\ HeapOK(k, T \cup (p * U .. p * U + n * U - 1))
    /\ \A a \in p * U .. p * U + n * U - 1 : a \notin T
PagesGiven(T, p, n, k) == HeapOK(k, T \ (p * U .. p * U + n * U - 1))

(* alloc_pages for a big block: the units of the pages come into use.      *)
LEMMA TakePagesHeap ==
    ASSUME Parameters, NEW h, NEW T, HeapOK(h, T), NEW p \in Nat, NEW n \in Nat \ {0}, p .. p + n - 1 \subseteq h.spare,
           NEW k, SameRing(h, k), k.spare = h.spare \ (p .. p + n - 1)
    PROVE  PagesTaken(T, p, n, k)
<1> DEFINE I == p * U .. p * U + n * U - 1
           run == p .. p + n - 1
<1>1. p * U \in Nat /\ n * U \in Nat
  BY DEF Parameters
<1>2. \A a : a \in I <=> a \in Int /\ p * U <= a /\ a < p * U + n * U
  BY <1>1
<1>3. IsHeap(k) /\ k.ring = h.ring /\ k.at = h.at /\ k.spare = h.spare \ run
  BY DEF SameRing
<1>4. \A a \in Int : /\ MemUnit(k.spare, a) <=> MemUnit(h.spare, a) \/ a \in I
                     /\ a \in I => ~ MemUnit(h.spare, a) /\ a > 1
  <2> SUFFICES ASSUME NEW a \in Int
               PROVE  /\ MemUnit(k.spare, a) <=> MemUnit(h.spare, a) \/ a \in I
                      /\ a \in I => ~ MemUnit(h.spare, a) /\ a > 1
    OBVIOUS
  <2>1. h.spare \subseteq HeapPage
    BY DEF HeapOK
  <2> HIDE DEF I
  <2>2. /\ MemUnit(h.spare \ run, a) <=> MemUnit(h.spare, a) \/ (p * U <= a /\ a < p * U + n * U)
        /\ p * U <= a /\ a < p * U + n * U => ~ MemUnit(h.spare, a) /\ a > 1
    BY <2>1, SpareRunUnits
  <2> QED
    BY <2>2, <1>2, <1>3
<1> HIDE DEF I, run
<1>5. \A a \in T : a \in Nat /\ a > 1 /\ MemUnit(h.spare, a) /\ a \in Int
  <2>1. T \subseteq Nat /\ \A a \in T : a > 1 /\ MemUnit(h.spare, a)
    BY DEF HeapOK
  <2> QED
    BY <2>1
<1>6. \A a \in T \cup I : a > 1 /\ MemUnit(k.spare, a) /\ a \in Nat
  <2>1. \A a \in I : a \in Int
    BY <1>2
  <2>2. \A a \in I : a > 1 /\ MemUnit(k.spare, a) /\ a \in Nat
    BY <2>1, <1>4
  <2> QED
    BY <2>2, <1>4, <1>5
<1>7. ASSUME NEW a \in Int PROVE InRing(k.ring, a) <=> MemUnit(k.spare, a) /\ a \notin T \cup I
  <2>1. InRing(h.ring, a) <=> MemUnit(h.spare, a) /\ a \notin T
    BY DEF HeapOK
  <2> QED
    BY <2>1, <1>3, <1>4
<1>8. \A a \in I : a \notin T
  BY <1>4, <1>5
<1>9. RingOK(h.ring) /\ h.at \in DOMAIN h.ring /\ h.spare \subseteq HeapPage
  BY DEF HeapOK
<1> QED
  BY <1>3, <1>6, <1>7, <1>8, <1>9 DEF HeapOK, I, run, PagesTaken

(* free_pages of a big block: the units of the pages are memory of the     *)
(* heap no more.                                                           *)
LEMMA GivePagesHeap ==
    ASSUME Parameters, NEW h, NEW T, HeapOK(h, T), NEW p \in Nat, NEW n \in Nat \ {0},
           p .. p + n - 1 \subseteq HeapPage \ h.spare, p * U .. p * U + n * U - 1 \subseteq T,
           NEW k, SameRing(h, k), k.spare = h.spare \cup p .. p + n - 1
    PROVE  PagesGiven(T, p, n, k)
<1> DEFINE I == p * U .. p * U + n * U - 1
           run == p .. p + n - 1
<1>1. p * U \in Nat /\ n * U \in Nat
  BY DEF Parameters
<1>2. \A a : a \in I <=> a \in Int /\ p * U <= a /\ a < p * U + n * U
  BY <1>1
<1>3. IsHeap(k) /\ k.ring = h.ring /\ k.at = h.at /\ k.spare = h.spare \cup run
  BY DEF SameRing
<1>4. k.spare \subseteq HeapPage /\ h.spare = k.spare \ run /\ run \subseteq k.spare
  BY <1>3 DEF HeapOK
<1>5. \A a \in Int : MemUnit(k.spare, a) <=> MemUnit(h.spare, a) /\ a \notin I
  <2> SUFFICES ASSUME NEW a \in Int
               PROVE  MemUnit(k.spare, a) <=> MemUnit(h.spare, a) /\ a \notin I
    OBVIOUS
  <2> HIDE DEF I
  <2>2. /\ MemUnit(k.spare \ run, a) <=> MemUnit(k.spare, a) \/ (p * U <= a /\ a < p * U + n * U)
        /\ p * U <= a /\ a < p * U + n * U => ~ MemUnit(k.spare, a) /\ a > 1
    BY <1>4, SpareRunUnits
  <2> QED
    BY <2>2, <1>2, <1>4
<1>6. I \subseteq T
  OBVIOUS
<1> HIDE DEF I, run
<1>7. \A a \in T \ I : a \in Nat /\ a > 1 /\ MemUnit(k.spare, a)
  <2>1. T \subseteq Nat /\ \A a \in T : a > 1 /\ MemUnit(h.spare, a)
    BY DEF HeapOK
  <2>2. \A a \in T : a \in Int
    BY <2>1
  <2> QED
    BY <2>1, <2>2, <1>5
<1>8. ASSUME NEW a \in Int PROVE InRing(k.ring, a) <=> MemUnit(k.spare, a) /\ a \notin T \ I
  <2>1. InRing(h.ring, a) <=> MemUnit(h.spare, a) /\ a \notin T
    BY DEF HeapOK
  <2> QED
    BY <2>1, <1>3, <1>5, <1>6
<1>9. RingOK(h.ring) /\ h.at \in DOMAIN h.ring
  BY DEF HeapOK
<1> QED
  BY <1>3, <1>4, <1>7, <1>8, <1>9 DEF HeapOK, I, run, PagesGiven

(* What callers hold: small blocks with their header, and the descriptor   *)
(* and the pages of each big block.                                        *)
Pieces(hd, bb) ==
    {<<"small", x>> : x \in {y \in hd : y.units > 0}} \cup {<<"desc", b>> : b \in bb} \cup {<<"pages", b>> : b \in bb}
Units(p) ==
    IF p[1] = "small" THEN p[2].ptr - 1 .. p[2].ptr - 1 + p[2].units - 1
    ELSE IF p[1] = "desc" THEN p[2].bb .. p[2].bb + BigUnits - 1
    ELSE p[2].page * U .. p[2].page * U + Pow2[p[2].order] * U - 1
Apart(P) == \A p, q \in P : p # q => Units(p) \cap Units(q) = {}
UnitsIn(P) == UNION {Units(p) : p \in P}

(* The heap gives each unit to the ring or to one piece.                   *)
Shared(h, P) == HeapOK(h, UnitsIn(P)) /\ Apart(P)
HeldOK(hd, bb) ==
    /\ \A x \in hd : x.ptr \in Nat /\ x.units \in Nat /\ x.units # 1
                     /\ (x.units = 0 => \E b \in bb : x.ptr = b.page * U)
    /\ \A x, y \in hd : x.units = 0 /\ y.units = 0 /\ x.ptr = y.ptr => x = y
BigOK(bb, s) ==
    \A b \in bb : /\ b.bb \in Nat /\ b.page \in Nat /\ b.order \in 0 .. NPages
                  /\ b.page .. b.page + Pow2[b.order] - 1 \subseteq HeapPage \ s
SlobIInv == Shared(Heap, Pieces(held, bigblocks)) /\ HeldOK(held, bigblocks) /\ BigOK(bigblocks, spare)

(* A piece of units that none has.                                         *)
LEMMA PieceAdded ==
    ASSUME NEW P, Apart(P), NEW n, \A a \in Units(n) : a \notin UnitsIn(P)
    PROVE  Apart(P \cup {n}) /\ UnitsIn(P \cup {n}) = UnitsIn(P) \cup Units(n)
<1>1. UnitsIn(P \cup {n}) = UnitsIn(P) \cup Units(n)
  BY DEF UnitsIn
<1>2. Apart(P \cup {n})
  <2> SUFFICES ASSUME NEW p \in P \cup {n}, NEW q \in P \cup {n}, p # q, NEW a \in Units(p), a \in Units(q) PROVE FALSE
    BY DEF Apart
  <2>1. CASE p \in P /\ q \in P
    BY <2>1 DEF Apart
  <2>2. CASE p = n /\ q \in P
    BY <2>2 DEF UnitsIn
  <2>3. CASE q = n /\ p \in P
    BY <2>3 DEF UnitsIn
  <2> QED
    BY <2>1, <2>2, <2>3
<1> QED
  BY <1>1, <1>2

(* A piece taken away takes just its units.                                *)
LEMMA PieceRemoved ==
    ASSUME NEW P, Apart(P), NEW n \in P
    PROVE  Apart(P \ {n}) /\ UnitsIn(P \ {n}) = UnitsIn(P) \ Units(n) /\ Units(n) \subseteq UnitsIn(P)
<1>1. Apart(P \ {n})
  BY DEF Apart
<1>2. Units(n) \subseteq UnitsIn(P)
  BY DEF UnitsIn
<1>3. ASSUME NEW a PROVE a \in UnitsIn(P \ {n}) <=> a \in UnitsIn(P) \ Units(n)
  <2>1. a \in UnitsIn(P \ {n}) => a \in UnitsIn(P) \ Units(n)
    BY DEF UnitsIn, Apart
  <2>2. a \in UnitsIn(P) \ Units(n) => a \in UnitsIn(P \ {n})
    BY DEF UnitsIn
  <2> QED
    BY <2>1, <2>2
<1> QED
  BY <1>1, <1>2, <1>3

(* The units of each kind of piece.                                        *)
LEMMA UnitsOfPiece ==
    ASSUME NEW x
    PROVE  /\ Units(<<"small", x>>) = x.ptr - 1 .. x.ptr - 1 + x.units - 1
           /\ Units(<<"desc", x>>) = x.bb .. x.bb + BigUnits - 1
           /\ Units(<<"pages", x>>) = x.page * U .. x.page * U + Pow2[x.order] * U - 1
BY DEF Units

(* kmalloc of a small block adds a piece.                                  *)
LEMMA PiecesSmallAdded ==
    ASSUME NEW hd, NEW bb, NEW x, x.units \in Nat, x.units > 0
    PROVE  Pieces(hd \cup {x}, bb) = Pieces(hd, bb) \cup {<<"small", x>>}
BY DEF Pieces

(* kmalloc of a big block adds two.                                        *)
LEMMA PiecesBigAdded ==
    ASSUME NEW hd, NEW bb, NEW x, x.units = 0, NEW b
    PROVE  Pieces(hd \cup {x}, bb \cup {b}) = (Pieces(hd, bb) \cup {<<"desc", b>>}) \cup {<<"pages", b>>}
BY DEF Pieces

(* kfree of a small block removes one.                                     *)
LEMMA PiecesSmallRemoved ==
    ASSUME NEW hd, NEW bb, NEW x \in hd, x.units \in Nat, x.units > 0
    PROVE  <<"small", x>> \in Pieces(hd, bb) /\ Pieces(hd \ {x}, bb) = Pieces(hd, bb) \ {<<"small", x>>}
BY DEF Pieces

(* kfree of a big block removes two.                                       *)
LEMMA PiecesBigRemoved ==
    ASSUME NEW hd, NEW bb, NEW x, x.units = 0, NEW b \in bb
    PROVE  /\ <<"desc", b>> \in Pieces(hd, bb) /\ <<"pages", b>> \in Pieces(hd, bb) \ {<<"desc", b>>}
           /\ Pieces(hd \ {x}, bb \ {b}) = (Pieces(hd, bb) \ {<<"desc", b>>}) \ {<<"pages", b>>}
BY DEF Pieces

(* The sizes of small blocks.                                              *)
LEMMA SmallUnits ==
    ASSUME Parameters, NEW size \in Nat \ {0}, size + UNIT + UNIT < U * UNIT
    PROVE  SLOB_UNITS(size + UNIT) \in Nat /\ SLOB_UNITS(size + UNIT) > 1 /\ SLOB_UNITS(size + UNIT) <= U
<1>1. UNIT \in Nat /\ UNIT > 0 /\ U \in Nat
  BY DEF Parameters
<1>2. PICK x : x = size + UNIT + UNIT - 1
  OBVIOUS
<1>3. x \in Nat /\ 2 * UNIT <= x /\ x < U * UNIT
  BY <1>1, <1>2
<1>4. PICK q : q = x \div UNIT
  OBVIOUS
<1>5. q \in Nat /\ q * UNIT <= x /\ x < q * UNIT + UNIT
  BY <1>1, <1>3, <1>4
<1>6. q > 1
  <2>1. q = 0 \/ q = 1 => q * UNIT + UNIT <= 2 * UNIT
    BY <1>1
  <2> QED
    BY <2>1, <1>1, <1>3, <1>5
<1>7. q <= U
  <2>1. U < q => U * UNIT <= q * UNIT
    BY <1>1, <1>5
  <2>2. U * UNIT \in Nat /\ q * UNIT \in Nat
    BY <1>1, <1>5
  <2> QED
    BY <2>1, <2>2, <1>1, <1>3, <1>5
<1>8. SLOB_UNITS(size + UNIT) = q
  BY <1>1, <1>2, <1>4 DEF SLOB_UNITS
<1> QED
  BY <1>5, <1>6, <1>7, <1>8

(* What the proofs use of the assumptions on the constants.                *)
LEMMA Assumed == SlobAssumption => Parameters
BY DEF SlobAssumption, Parameters

(* The heap of the state.                                                  *)
LEMMA HeapFields ==
    Heap.ring = ring /\ Heap.at = slobfree /\ Heap.spare = spare /\ Heap.ret = 0 /\ IsHeap(Heap)
BY DEF Heap, IsHeap

(* The next state has the heap that a call computes.                       *)
LEMMA HeapSet ==
    ASSUME NEW h, NEW T, HeapOK(h, T), SetHeap(h)
    PROVE  HeapOK(Heap', T)
<1>1. Heap'.ring = h.ring /\ Heap'.at = h.at /\ Heap'.spare = h.spare /\ IsHeap(Heap')
  BY DEF SetHeap, Heap, IsHeap
<1> QED
  BY <1>1 DEF HeapOK

(* slob_alloc returns an address or 0.                                     *)
LEMMA AllocRet ==
    ASSUME Parameters, NEW h, NEW P, Shared(h, P), NEW units \in Nat, units > 1, units <= U,
           NEW g, g = SlobAlloc(h, units)
    PROVE  g.ret \in Nat
<1>1. PICK T : T = UnitsIn(P)
  OBVIOUS
<1>2. HeapOK(h, T)
  BY <1>1 DEF Shared
<1>3. Allocated(h, T, units, g)
  BY <1>2, SlobAllocHeap
<1> QED
  BY <1>3 DEF Allocated

(* A block that slob_alloc returns becomes a piece.                        *)
LEMMA AllocPiece ==
    ASSUME Parameters, NEW h, NEW P, Shared(h, P), NEW units \in Nat, units > 1, units <= U,
           NEW g, g = SlobAlloc(h, units), g.ret # 0, NEW n, Units(n) = g.ret .. g.ret + units - 1
    PROVE  Shared(g, P \cup {n}) /\ g.spare \subseteq h.spare /\ g.ret \in Nat /\ g.ret > 1
<1>1. /\ g.spare \subseteq h.spare /\ g.ret \in Nat /\ g.ret > 1
      /\ HeapOK(g, UnitsIn(P) \cup (g.ret .. g.ret + units - 1))
      /\ \A a \in g.ret .. g.ret + units - 1 : a \notin UnitsIn(P)
  BY SlobAllocHeap DEF Shared, Allocated
<1>2. Apart(P \cup {n}) /\ UnitsIn(P \cup {n}) = UnitsIn(P) \cup Units(n)
  BY <1>1, PieceAdded DEF Shared
<1> QED
  BY <1>1, <1>2 DEF Shared

(* slob_alloc that returns 0 leaves the pieces alone.                      *)
LEMMA AllocNone ==
    ASSUME Parameters, NEW h, NEW P, Shared(h, P), NEW units \in Nat, units > 1, units <= U,
           NEW g, g = SlobAlloc(h, units), g.ret = 0
    PROVE  Shared(g, P) /\ g.spare \subseteq h.spare
<1>1. PICK T : T = UnitsIn(P)
  OBVIOUS
<1>2. HeapOK(h, T)
  BY <1>1 DEF Shared
<1>3. Allocated(h, T, units, g)
  BY <1>2, SlobAllocHeap
<1> QED
  BY <1>1, <1>2, <1>3 DEF Shared, Allocated

(* What slob_free makes of a piece that is freed.                          *)
PieceFreed(h, P, n, g) == Shared(g, P \ {n}) /\ g.spare = h.spare

(* slob_free of a piece.                                                   *)
LEMMA FreePiece ==
    ASSUME Parameters, NEW h, NEW P, Shared(h, P), NEW n \in P, NEW b \in Nat, NEW u \in Nat \ {0},
           Units(n) = b .. b + u - 1, NEW g, g = SlobFree(h, b, u)
    PROVE  PieceFreed(h, P, n, g)
<1>1. Apart(P \ {n}) /\ UnitsIn(P \ {n}) = UnitsIn(P) \ Units(n) /\ Units(n) \subseteq UnitsIn(P)
  BY PieceRemoved DEF Shared
<1>2. PICK T : T = UnitsIn(P)
  OBVIOUS
<1>3. HeapOK(h, T) /\ b .. b + u - 1 \subseteq T
  BY <1>1, <1>2 DEF Shared
<1>4. Freed(h, T, b, u, g)
  BY <1>3, SlobFreeHeap
<1> QED
  BY <1>1, <1>2, <1>4 DEF Shared, Freed, PieceFreed

(* The pages of big blocks are not among fewer spare pages.                *)
LEMMA BigFewer ==
    ASSUME NEW bb, NEW s, BigOK(bb, s), NEW t, t \subseteq s
    PROVE  BigOK(bb, t)
BY DEF BigOK

---------------------------------------------------------------------------
(* The invariant holds of the static arena alone.                          *)
LEMMA SlobIInvInit ==
    ASSUME SlobAssumption, SlobInit
    PROVE  SlobIInv
<1>0. Parameters
  BY Assumed
<1>1. held = {} /\ bigblocks = {} /\ spare = HeapPage /\ slobfree = arena /\ arena = 0
  BY DEF SlobInit, arena
<1>2. DOMAIN ring = {0} /\ ring[0].units = 1 /\ ring[0].next = 0
  BY DEF SlobInit, arena
<1>3. Pieces(held, bigblocks) = {}
  BY <1>1 DEF Pieces
<1>4. UnitsIn({}) = {} /\ Apart({})
  BY DEF UnitsIn, Apart
<1>5. RingOK(ring)
  <2>1. DOMAIN ring \subseteq 0 .. 0
    BY <1>2
  <2>2. Follows(DOMAIN ring, 0, 0)
    BY <1>2 DEF Follows, arena
  <2> QED
    BY <2>1, <2>2, <1>2 DEF RingOK, arena
<1>6. ASSUME NEW a \in Int PROVE InRing(ring, a) <=> MemUnit(spare, a)
  <2>1. InRing(ring, a) <=> a = 0
    BY <1>2 DEF InRing
  <2>2. MemUnit(spare, a) <=> a = 0
    BY <1>1 DEF MemUnit, arena
  <2> QED
    BY <2>1, <2>2
<1>7. HeapOK(Heap, {})
  BY <1>1, <1>2, <1>5, <1>6, HeapFields DEF HeapOK
<1> QED
  BY <1>1, <1>3, <1>4, <1>7 DEF SlobIInv, Shared, HeldOK, BigOK

(* kmalloc of less than a page keeps the invariant.                        *)
LEMMA KmallocSmallStep ==
    ASSUME SlobAssumption, SlobIInv, NEW size \in Sizes, KmallocSmall(size)
    PROVE  SlobIInv'
<1>0. Parameters /\ size \in Nat \ {0}
  BY Assumed DEF SlobAssumption
<1>1. PICK h : h = SlobAlloc(Heap, SLOB_UNITS(size + UNIT))
  OBVIOUS
<1>2. PICK P : P = Pieces(held, bigblocks)
  OBVIOUS
<1>3. Shared(Heap, P) /\ HeldOK(held, bigblocks) /\ BigOK(bigblocks, spare) /\ Heap.spare = spare
  BY <1>2, HeapFields DEF SlobIInv
<1>4. /\ panic' = (size + UNIT + UNIT >= PAGE_SIZE) /\ bigblocks' = bigblocks
      /\ IF panic' THEN UNCHANGED <<ring, slobfree, spare, held>>
         ELSE /\ SetHeap(h)
              /\ held' = IF h.ret = 0 THEN held
                         ELSE held \cup {[ptr |-> h.ret + 1, units |-> SLOB_UNITS(size + UNIT), size |-> size]}
  BY <1>1, Zenon DEF KmallocSmall
<1>5. CASE panic'
  <2>1. Heap' = Heap /\ held' = held /\ bigblocks' = bigblocks /\ spare' = spare
    BY <1>4, <1>5 DEF Heap
  <2> QED
    BY <2>1, <1>2, <1>3 DEF SlobIInv
<1>6. CASE ~ panic'
  <2>1. PICK units : units = SLOB_UNITS(size + UNIT)
    OBVIOUS
  <2>2. units \in Nat /\ units > 1 /\ units <= U
    <3>0. ~(size + UNIT + UNIT >= U * UNIT)
      BY <1>4, <1>6, Zenon DEF PAGE_SIZE
    <3>1. size + UNIT + UNIT < U * UNIT
      BY <3>0, <1>0 DEF Parameters
    <3> QED
      BY <3>1, <2>1, <1>0, SmallUnits
  <2>3. h = SlobAlloc(Heap, units) /\ SetHeap(h) /\ spare' = h.spare
    BY <1>1, <1>4, <1>6, <2>1 DEF SetHeap
  <2>4. CASE h.ret = 0
    <3>1. Shared(h, P) /\ h.spare \subseteq spare
      BY <2>2, <2>3, <2>4, <1>0, <1>3, AllocNone
    <3>2. HeapOK(Heap', UnitsIn(P)) /\ Apart(P)
      BY <3>1, <2>3, HeapSet DEF Shared
    <3>3. held' = held /\ bigblocks' = bigblocks
      BY <1>4, <1>6, <2>4
    <3> QED
      BY <3>1, <3>2, <3>3, <2>3, <1>2, <1>3, BigFewer DEF SlobIInv, Shared
  <2>5. CASE h.ret # 0
    <3>1. PICK x : x = [ptr |-> h.ret + 1, units |-> units, size |-> size]
      OBVIOUS
    <3>2. x.ptr = h.ret + 1 /\ x.units = units
      BY <3>1
    <3>3. h.ret \in Nat
      BY <2>2, <2>3, <1>0, <1>3, AllocRet
    <3>4. Units(<<"small", x>>) = h.ret .. h.ret + units - 1
      <4>1. Units(<<"small", x>>) = x.ptr - 1 .. x.ptr - 1 + x.units - 1
        BY UnitsOfPiece
      <4>2. (h.ret + 1) - 1 = h.ret
        BY <3>3
      <4> QED
        BY <4>1, <4>2, <3>2
    <3>5. Shared(h, P \cup {<<"small", x>>}) /\ h.spare \subseteq spare
      BY <3>4, <2>2, <2>3, <2>5, <1>0, <1>3, AllocPiece
    <3>6. held' = held \cup {x} /\ bigblocks' = bigblocks
      BY <3>1, <2>1, <2>5, <1>4, <1>6
    <3>7. Pieces(held', bigblocks') = P \cup {<<"small", x>>}
      BY <3>2, <3>6, <2>2, <1>2, PiecesSmallAdded
    <3>8. HeapOK(Heap', UnitsIn(P \cup {<<"small", x>>})) /\ Apart(P \cup {<<"small", x>>})
      BY <3>5, <2>3, HeapSet DEF Shared
    <3>9. HeldOK(held', bigblocks')
      BY <3>2, <3>3, <3>6, <2>2, <1>3 DEF HeldOK
    <3> QED
      BY <3>5, <3>6, <3>7, <3>8, <3>9, <2>3, <1>3, BigFewer DEF SlobIInv, Shared
  <2> QED
    BY <2>4, <2>5
<1> QED
  BY <1>5, <1>6

(* find_order returns an order there is.                                   *)
LEMMA FindOrderRange ==
    ASSUME Parameters, NEW size
    PROVE  FindOrder(size) \in 0 .. NPages
<1> DEFINE S == {k \in 0 .. NPages : size \div Pow2[k] <= PAGE_SIZE} \cup {NPages}
<1>1. S \in SUBSET Nat /\ S # {} /\ S \subseteq 0 .. NPages
  BY DEF Parameters
<1>2. FindOrder(size) = Min(S)
  BY DEF FindOrder
<1> HIDE DEF S
<1> QED
  BY <1>1, <1>2, MinOf

(* The pages of a big block become a piece.                                *)
LEMMA TakeRun ==
    ASSUME Parameters, NEW h, NEW P, Shared(h, P), NEW p \in Nat, NEW n \in Nat \ {0}, p .. p + n - 1 \subseteq h.spare,
           NEW k, SameRing(h, k), k.spare = h.spare \ (p .. p + n - 1), NEW x, Units(x) = p * U .. p * U + n * U - 1
    PROVE  Shared(k, P \cup {x})
<1>1. PICK T : T = UnitsIn(P)
  OBVIOUS
<1>2. HeapOK(h, T)
  BY <1>1 DEF Shared
<1>3. PagesTaken(T, p, n, k)
  BY <1>2, TakePagesHeap
<1>4. Apart(P \cup {x}) /\ UnitsIn(P \cup {x}) = UnitsIn(P) \cup Units(x)
  BY <1>1, <1>3, PieceAdded DEF Shared, PagesTaken
<1> QED
  BY <1>1, <1>3, <1>4 DEF Shared, PagesTaken

(* The pages of a big block are a piece no more.                           *)
LEMMA GiveRun ==
    ASSUME Parameters, NEW h, NEW P, Shared(h, P), NEW p \in Nat, NEW n \in Nat \ {0}, p .. p + n - 1 \subseteq HeapPage \ h.spare,
           NEW x \in P, Units(x) = p * U .. p * U + n * U - 1,
           NEW k, SameRing(h, k), k.spare = h.spare \cup p .. p + n - 1
    PROVE  Shared(k, P \ {x})
<1>1. Apart(P \ {x}) /\ UnitsIn(P \ {x}) = UnitsIn(P) \ Units(x) /\ Units(x) \subseteq UnitsIn(P)
  BY PieceRemoved DEF Shared
<1>2. PICK T : T = UnitsIn(P)
  OBVIOUS
<1>3. HeapOK(h, T) /\ p * U .. p * U + n * U - 1 \subseteq T
  BY <1>1, <1>2 DEF Shared
<1>4. PagesGiven(T, p, n, k)
  BY <1>3, GivePagesHeap
<1> QED
  BY <1>1, <1>2, <1>4 DEF Shared, PagesGiven

(* Two pages do not start at the same unit.                                *)
LEMMA PageStarts ==
    ASSUME Parameters, NEW p \in Nat, NEW q \in Nat, p * U = q * U
    PROVE  p = q
<1>1. p * U \in Nat
  BY DEF Parameters
<1>2. p < q => p * U + U <= q * U
  BY PagesApart
<1>3. q < p => q * U + U <= p * U
  BY PagesApart
<1> QED
  BY <1>1, <1>2, <1>3 DEF Parameters

(* The first unit of a page is in a run of pages that has the page.        *)
LEMMA UnitInRun ==
    ASSUME Parameters, NEW p \in Nat, NEW n \in Nat \ {0}, NEW q \in Nat, p <= q, q < p + n
    PROVE  q * U \in p * U .. p * U + n * U - 1
<1>1. U \in Nat /\ U > 0 /\ p * U \in Nat /\ q * U \in Nat /\ n * U \in Nat /\ (p + n) * U = p * U + n * U /\ p + n \in Nat
  BY DEF Parameters
<1>2. q * U + U <= (p + n) * U
  BY <1>1, PagesApart
<1>3. p = q \/ p * U + U <= q * U
  BY PagesApart
<1> QED
  BY <1>1, <1>2, <1>3

(* kmalloc of a page or more keeps the invariant; when there are no pages, *)
(* the descriptor goes back.                                               *)
LEMMA KmallocBigStep ==
    ASSUME SlobAssumption, SlobIInv, NEW size \in Sizes, KmallocBig(size)
    PROVE  SlobIInv'
<1>0. Parameters /\ U \in Nat /\ U > 2 /\ BigUnits = 2 /\ BigUnits \in Nat /\ BigUnits > 1 /\ BigUnits <= U
  BY Assumed DEF Parameters, BigUnits
<1>1. PICK h : h = SlobAlloc(Heap, BigUnits)
  OBVIOUS
<1>2. PICK P : P = Pieces(held, bigblocks)
  OBVIOUS
<1>3. Shared(Heap, P) /\ HeldOK(held, bigblocks) /\ BigOK(bigblocks, spare) /\ Heap.spare = spare
  BY <1>2, HeapFields DEF SlobIInv
<1>4. PICK order : order = FindOrder(size)
  OBVIOUS
<1>5. PICK n : n = Pow2[order]
  OBVIOUS
<1>6. order \in 0 .. NPages /\ n \in Nat \ {0}
  BY <1>0, <1>4, <1>5, FindOrderRange, Pow2Pos
<1>7. PICK runs : runs = PageRuns(h, n)
  OBVIOUS
<1>8. PICK p : p = Min(runs)
  OBVIOUS
<1>9. IF h.ret = 0 THEN SetHeap(h) /\ UNCHANGED <<bigblocks, held>>
      ELSE IF runs = {} THEN SetHeap(SlobFree(h, h.ret, BigUnits)) /\ UNCHANGED <<bigblocks, held>>
      ELSE /\ SetHeap([h EXCEPT !.spare = @ \ (p .. p + n - 1)])
           /\ bigblocks' = bigblocks \cup {[bb |-> h.ret, page |-> p, order |-> order]}
           /\ held' = held \cup {[ptr |-> p * U, units |-> 0, size |-> size]}
  BY <1>1, <1>4, <1>5, <1>7, <1>8, Zenon DEF KmallocBig
<1>10. CASE h.ret = 0
  <2>1. Shared(h, P) /\ h.spare \subseteq spare
    BY <1>0, <1>1, <1>3, <1>10, AllocNone
  <2>2. SetHeap(h) /\ held' = held /\ bigblocks' = bigblocks /\ spare' = h.spare
    BY <1>9, <1>10 DEF SetHeap
  <2>3. HeapOK(Heap', UnitsIn(P)) /\ Apart(P)
    BY <2>1, <2>2, HeapSet DEF Shared
  <2> QED
    BY <2>1, <2>2, <2>3, <1>2, <1>3, BigFewer DEF SlobIInv, Shared
<1>11. CASE h.ret # 0
  <2>1. PICK b : b = [bb |-> h.ret, page |-> p, order |-> order]
    OBVIOUS
  <2>2. b.bb = h.ret /\ b.page = p /\ b.order = order
    BY <2>1
  <2>D. PICK desc : desc = <<"desc", b>>
    OBVIOUS
  <2>P. PICK pgs : pgs = <<"pages", b>>
    OBVIOUS
  <2>3. Units(desc) = h.ret .. h.ret + BigUnits - 1
    BY <2>D, <2>2, UnitsOfPiece
  <2>4. PICK Q : Q = P \cup {desc}
    OBVIOUS
  <2>5. Shared(h, Q) /\ h.spare \subseteq spare /\ h.ret \in Nat
    BY <2>3, <2>4, <1>0, <1>1, <1>3, <1>11, AllocPiece
  <2>6. CASE runs = {}
    <3>1. PICK g : g = SlobFree(h, h.ret, BigUnits)
      OBVIOUS
    <3>2. SetHeap(g) /\ held' = held /\ bigblocks' = bigblocks /\ spare' = g.spare
      BY <3>1, <2>6, <1>9, <1>11 DEF SetHeap
    <3>3. desc \in Q
      BY <2>4
    <3>4. Shared(g, Q \ {desc}) /\ g.spare = h.spare
      <4>1. PieceFreed(h, Q, desc, g)
        BY <3>1, <3>3, <2>3, <2>5, <1>0, FreePiece
      <4> QED
        BY <4>1 DEF PieceFreed
    <3>5. desc \notin P
      <4>1. PICK T : T = UnitsIn(P)
        OBVIOUS
      <4>2. HeapOK(Heap, T)
        BY <4>1, <1>3 DEF Shared
      <4>3. Allocated(Heap, T, BigUnits, h)
        BY <4>2, <1>0, <1>1, SlobAllocHeap
      <4>4. h.ret \in h.ret .. h.ret + BigUnits - 1 /\ h.ret \notin T
        BY <4>3, <2>5, <1>0, <1>11 DEF Allocated
      <4> QED
        BY <4>1, <4>4, <2>3 DEF UnitsIn
    <3>6. Q \ {desc} = P
      BY <3>5, <2>4
    <3>7. HeapOK(Heap', UnitsIn(P)) /\ Apart(P)
      BY <3>2, <3>4, <3>6, HeapSet DEF Shared
    <3> QED
      BY <3>2, <3>4, <3>7, <2>5, <1>2, <1>3, BigFewer DEF SlobIInv, Shared
  <2>7. CASE runs # {}
    <3>0. p \in Nat /\ p .. p + n - 1 \subseteq h.spare
      <4>1. h.spare \subseteq HeapPage
        BY <2>5 DEF Shared, HeapOK
      <4>2. runs \in SUBSET Nat
        BY <4>1, <1>0, <1>7 DEF PageRuns, HeapPage, Parameters
      <4>3. p \in runs
        BY <4>2, <2>7, <1>8, MinOf
      <4> QED
        BY <4>2, <4>3, <1>7 DEF PageRuns
    <3>1. PICK k : k = [h EXCEPT !.spare = @ \ (p .. p + n - 1)]
      OBVIOUS
    <3>K. SameRing(h, k) /\ k.spare = h.spare \ (p .. p + n - 1)
      BY <3>1, <2>5 DEF SameRing, Shared, HeapOK, IsHeap
    <3>2. PICK x : x = [ptr |-> p * U, units |-> 0, size |-> size]
      OBVIOUS
    <3>3. x.ptr = p * U /\ x.units = 0
      BY <3>2
    <3>4. SetHeap(k) /\ held' = held \cup {x} /\ bigblocks' = bigblocks \cup {b} /\ spare' = k.spare
      BY <3>1, <3>2, <2>1, <2>7, <1>9, <1>11 DEF SetHeap
    <3>5. Units(pgs) = p * U .. p * U + n * U - 1
      BY <2>P, <2>2, <1>5, UnitsOfPiece
    <3>6. Shared(k, Q \cup {pgs})
      BY <3>0, <3>K, <3>5, <2>5, <1>0, <1>6, TakeRun
    <3>7. Pieces(held', bigblocks') = Q \cup {pgs}
      <4>1. Pieces(held \cup {x}, bigblocks \cup {b}) = (Pieces(held, bigblocks) \cup {<<"desc", b>>}) \cup {<<"pages", b>>}
        BY <3>3 DEF Pieces
      <4> QED
        BY <4>1, <3>4, <2>4, <1>2, <2>D, <2>P
    <3>8. Shared(Heap', Q \cup {pgs})
      BY <3>4, <3>6, <3>K, HeapSet DEF Shared
    <3>9. BigOK(bigblocks', spare')
      <4>1. BigOK(bigblocks, spare')
        BY <3>4, <3>6, <3>K, <2>5, <1>3, BigFewer
      <4>2. b.bb \in Nat /\ b.page \in Nat /\ b.order \in 0 .. NPages
            /\ b.page .. b.page + Pow2[b.order] - 1 \subseteq HeapPage \ spare'
        <5>1. h.spare \subseteq HeapPage
          BY <2>5 DEF Shared, HeapOK
        <5>2. p .. p + n - 1 \subseteq HeapPage \ spare'
          BY <5>1, <3>0, <3>4, <3>6, <3>K
        <5> QED
          BY <5>2, <3>0, <2>2, <2>5, <1>5, <1>6
      <4> QED
        BY <4>1, <4>2, <3>4 DEF BigOK
    <3>10. HeldOK(held', bigblocks')
      <4>1. p * U \in Nat
        BY <3>0, <1>0
      <4>2. ASSUME NEW y \in held, y.units = 0, y.ptr = p * U PROVE FALSE
        <5>1. PICK c \in bigblocks : y.ptr = c.page * U
          BY <4>2, <1>3 DEF HeldOK
        <5>2. c.page \in Nat /\ c.order \in 0 .. NPages /\ c.page .. c.page + Pow2[c.order] - 1 \subseteq HeapPage \ spare
          BY <1>3 DEF BigOK
        <5>3. c.page = p
          BY <5>1, <5>2, <4>2, <3>0, <1>0, PageStarts
        <5>4. Pow2[c.order] \in Nat \ {0}
          BY <5>2, <1>0, Pow2Pos
        <5>5. p \in c.page .. c.page + Pow2[c.order] - 1 /\ p \in p .. p + n - 1
          BY <5>2, <5>3, <5>4, <3>0, <1>6
        <5> QED
          BY <5>2, <5>5, <3>0, <2>5
      <4>3. b \in bigblocks' /\ x.ptr = b.page * U
        BY <3>3, <3>4, <2>2
      <4>4. \A y \in held : y.ptr \in Nat /\ y.units \in Nat /\ y.units # 1
                            /\ (y.units = 0 => \E c \in bigblocks' : y.ptr = c.page * U)
        BY <3>4, <1>3 DEF HeldOK
      <4>5. \A y, z \in held : y.units = 0 /\ z.units = 0 /\ y.ptr = z.ptr => y = z
        BY <1>3 DEF HeldOK
      <4> QED
        BY <4>1, <4>2, <4>3, <4>4, <4>5, <3>3, <3>4 DEF HeldOK
    <3> QED
      BY <3>7, <3>8, <3>9, <3>10 DEF SlobIInv
  <2> QED
    BY <2>6, <2>7
<1> QED
  BY <1>10, <1>11

(* kfree keeps the invariant: a pointer that is the start of a big block   *)
(* is one that was given for it, and no small block starts a unit before.  *)
LEMMA KfreeStep ==
    ASSUME SlobAssumption, SlobIInv, NEW x \in held, Kfree(x)
    PROVE  SlobIInv'
<1>0. Parameters /\ U \in Nat /\ U > 2 /\ BigUnits = 2
  BY Assumed DEF Parameters, BigUnits
<1>2. PICK P : P = Pieces(held, bigblocks)
  OBVIOUS
<1>3. Shared(Heap, P) /\ HeldOK(held, bigblocks) /\ BigOK(bigblocks, spare) /\ Heap.spare = spare
  BY <1>2, HeapFields DEF SlobIInv
<1>4. PICK bigs : bigs = {b \in bigblocks : b.page * U = x.ptr}
  OBVIOUS
<1>5. PICK b : b = CHOOSE c \in bigs : TRUE
  OBVIOUS
<1>6. PICK h : h = [Heap EXCEPT !.spare = @ \cup b.page .. b.page + Pow2[b.order] - 1]
  OBVIOUS
<1>7. /\ held' = held \ {x}
      /\ IF bigs # {}
         THEN SetHeap(SlobFree(h, b.bb, BigUnits)) /\ bigblocks' = bigblocks \ {b}
         ELSE SetHeap(SlobFree(Heap, x.ptr - 1, x.units)) /\ bigblocks' = bigblocks
  BY <1>4, <1>5, <1>6, Zenon DEF Kfree
<1>S. PICK small : small = <<"small", x>>
  OBVIOUS
<1>D. PICK desc : desc = <<"desc", b>>
  OBVIOUS
<1>P. PICK pgs : pgs = <<"pages", b>>
  OBVIOUS
<1>8. x.ptr \in Nat /\ x.units \in Nat /\ x.units # 1
      /\ (x.units = 0 => \E c \in bigblocks : x.ptr = c.page * U)
  BY <1>3 DEF HeldOK
<1>9. ASSUME x.units # 0 PROVE small \in P /\ x.units > 1 /\ x.ptr - 1 \in Nat /\ bigs = {}
  <2>1. x.units > 1
    BY <1>8, <1>9
  <2>2. small \in P /\ Units(small) = x.ptr - 1 .. x.ptr - 1 + x.units - 1
    <3>1. small \in P
      BY <2>1, <1>2, <1>8, <1>S DEF Pieces
    <3>2. Units(small) = x.ptr - 1 .. x.ptr - 1 + x.units - 1
      BY <1>S, UnitsOfPiece
    <3> QED
      BY <3>1, <3>2
  <2>3. x.ptr - 1 \in Units(small) /\ x.ptr \in Units(small)
    BY <2>1, <2>2, <1>8
  <2>4. x.ptr - 1 \in Nat
    <3>1. x.ptr - 1 \in UnitsIn(P)
      BY <2>2, <2>3 DEF UnitsIn
    <3> QED
      BY <3>1, <1>3 DEF Shared, HeapOK
  <2>5. ASSUME NEW c \in bigs PROVE FALSE
    <3>1. c \in bigblocks /\ c.page * U = x.ptr
      BY <1>4
    <3>2. <<"pages", c>> \in P /\ Units(<<"pages", c>>) = c.page * U .. c.page * U + Pow2[c.order] * U - 1
      BY <3>1, <1>2, <1>S, <1>D, <1>P, UnitsOfPiece DEF Pieces
    <3>3. c.page \in Nat /\ c.order \in 0 .. NPages
      BY <3>1, <1>3 DEF BigOK
    <3>4. Pow2[c.order] \in Nat \ {0}
      BY <3>3, <1>0, Pow2Pos
    <3>5. Pow2[c.order] * U \in Nat /\ Pow2[c.order] * U > 0
      BY <3>4, <1>0
    <3>6. x.ptr \in Units(<<"pages", c>>)
      BY <3>1, <3>2, <3>5, <1>8
    <3>7. <<"pages", c>> # small
      BY <1>S
    <3> QED
      BY <3>2, <3>6, <3>7, <2>2, <2>3, <1>3 DEF Shared, Apart
  <2> QED
    BY <2>1, <2>2, <2>4, <2>5
<1>10. \A y, z \in held : y.units = 0 /\ z.units = 0 /\ y.ptr = z.ptr => y = z
  BY <1>3 DEF HeldOK
<1>11. \A y \in held : y.ptr \in Nat /\ y.units \in Nat /\ y.units # 1
                       /\ (y.units = 0 => \E c \in bigblocks : y.ptr = c.page * U)
  BY <1>3 DEF HeldOK
<1>12. CASE bigs # {}
  <2>1. b \in bigblocks /\ b.page * U = x.ptr
    BY <1>4, <1>5, <1>12
  <2>2. x.units = 0
    BY <1>9, <1>12
  <2>3. b.bb \in Nat /\ b.page \in Nat /\ b.order \in 0 .. NPages
        /\ b.page .. b.page + Pow2[b.order] - 1 \subseteq HeapPage \ spare
    BY <2>1, <1>3 DEF BigOK
  <2>4. PICK n : n = Pow2[b.order]
    OBVIOUS
  <2>5. n \in Nat \ {0}
    BY <2>3, <2>4, <1>0, Pow2Pos
  <2>6. Units(pgs) = b.page * U .. b.page * U + n * U - 1 /\ Units(desc) = b.bb .. b.bb + BigUnits - 1
    BY <2>4, <1>S, <1>D, <1>P, UnitsOfPiece
  <2>7. pgs \in P /\ desc \in P \ {pgs}
    BY <2>1, <1>2, <1>D, <1>P DEF Pieces
  <2>K. SameRing(Heap, h) /\ h.spare = Heap.spare \cup b.page .. b.page + n - 1
    BY <2>4, <1>6, HeapFields DEF SameRing, Heap, IsHeap
  <2>8. Shared(h, P \ {pgs}) /\ h.spare = spare \cup b.page .. b.page + n - 1
    BY <2>3, <2>4, <2>5, <2>6, <2>7, <2>K, <1>0, <1>3, GiveRun
  <2>9. PICK g : g = SlobFree(h, b.bb, BigUnits)
    OBVIOUS
  <2>10. PICK Q : Q = (P \ {pgs}) \ {desc}
    OBVIOUS
  <2>11. Shared(g, Q) /\ g.spare = h.spare
    <3>1. PICK R : R = P \ {pgs}
      OBVIOUS
    <3>2. PICK bb : bb = b.bb
      OBVIOUS
    <3>3. g = SlobFree(h, bb, BigUnits) /\ bb \in Nat /\ BigUnits \in Nat \ {0}
      BY <3>2, <2>3, <2>9, <1>0
    <3>4. Shared(h, R) /\ desc \in R /\ Units(desc) = bb .. bb + BigUnits - 1
      BY <3>1, <3>2, <2>6, <2>7, <2>8
    <3>5. PieceFreed(h, R, desc, g)
      BY <3>3, <3>4, <1>0, FreePiece
    <3> QED
      BY <3>1, <3>5, <2>10 DEF PieceFreed
  <2>12. SetHeap(g) /\ held' = held \ {x} /\ bigblocks' = bigblocks \ {b} /\ spare' = g.spare
    BY <2>9, <1>7, <1>12 DEF SetHeap
  <2>13. Pieces(held', bigblocks') = Q
    BY <2>1, <2>2, <2>10, <2>12, <1>2, <1>D, <1>P, PiecesBigRemoved
  <2>14. Shared(Heap', Q)
    BY <2>11, <2>12, HeapSet DEF Shared
  <2>15. HeldOK(held', bigblocks')
    <3>1. ASSUME NEW y \in held', y.units = 0 PROVE \E c \in bigblocks' : y.ptr = c.page * U
      <4>1. y \in held /\ y # x
        BY <2>12
      <4>2. PICK c \in bigblocks : y.ptr = c.page * U
        BY <4>1, <3>1, <1>11
      <4>3. y.ptr # x.ptr
        BY <4>1, <3>1, <2>2, <1>10
      <4>4. c # b
        BY <4>2, <4>3, <2>1
      <4> QED
        BY <4>2, <4>4, <2>12
    <3> QED
      BY <3>1, <2>12, <1>10, <1>11 DEF HeldOK
  <2>16. BigOK(bigblocks', spare')
    <3> SUFFICES ASSUME NEW c \in bigblocks'
                 PROVE  c.bb \in Nat /\ c.page \in Nat /\ c.order \in 0 .. NPages
                        /\ c.page .. c.page + Pow2[c.order] - 1 \subseteq HeapPage \ spare'
      BY DEF BigOK
    <3>1. c \in bigblocks /\ c # b
      BY <2>12
    <3>2. c.bb \in Nat /\ c.page \in Nat /\ c.order \in 0 .. NPages
          /\ c.page .. c.page + Pow2[c.order] - 1 \subseteq HeapPage \ spare
      BY <3>1, <1>3 DEF BigOK
    <3>3. PICK m : m = Pow2[c.order]
      OBVIOUS
    <3>4. m \in Nat \ {0}
      BY <3>2, <3>3, <1>0, Pow2Pos
    <3>5. ASSUME NEW q \in c.page .. c.page + m - 1, q \in b.page .. b.page + n - 1 PROVE FALSE
      <4>1. q \in Nat /\ c.page <= q /\ q < c.page + m /\ b.page <= q /\ q < b.page + n
        BY <3>2, <3>4, <3>5, <2>3, <2>5
      <4>2. <<"pages", c>> \in P /\ Units(<<"pages", c>>) = c.page * U .. c.page * U + m * U - 1
        BY <3>1, <3>3, <1>2, <1>S, <1>D, <1>P, UnitsOfPiece DEF Pieces
      <4>3. q * U \in c.page * U .. c.page * U + m * U - 1
        BY <4>1, <3>2, <3>4, <1>0, UnitInRun
      <4>4. q * U \in b.page * U .. b.page * U + n * U - 1
        BY <4>1, <2>3, <2>5, <1>0, UnitInRun
      <4>5. <<"pages", c>> # pgs
        BY <3>1, <1>P
      <4> QED
        BY <4>2, <4>3, <4>4, <4>5, <2>6, <2>7, <1>3 DEF Shared, Apart
    <3> QED
      BY <3>2, <3>3, <3>5, <2>8, <2>11, <2>12
  <2> QED
    BY <2>13, <2>14, <2>15, <2>16 DEF SlobIInv
<1>13. CASE bigs = {}
  <2>1. x.units # 0
    BY <1>4, <1>8, <1>13
  <2>2. small \in P /\ x.units > 1 /\ x.ptr - 1 \in Nat
    BY <2>1, <1>9
  <2>3. PICK g : g = SlobFree(Heap, x.ptr - 1, x.units)
    OBVIOUS
  <2>4. SetHeap(g) /\ held' = held \ {x} /\ bigblocks' = bigblocks /\ spare' = g.spare
    BY <2>3, <1>7, <1>13 DEF SetHeap
  <2>5. Units(small) = x.ptr - 1 .. x.ptr - 1 + x.units - 1
    BY <1>S, <1>D, <1>P, UnitsOfPiece
  <2>6. PICK Q : Q = P \ {small}
    OBVIOUS
  <2>7. Shared(g, Q) /\ g.spare = spare
    <3>1. PICK h0 : h0 = Heap
      OBVIOUS
    <3>2. PICK a : a = x.ptr - 1
      OBVIOUS
    <3>3. PICK u : u = x.units
      OBVIOUS
    <3>4. g = SlobFree(h0, a, u) /\ a \in Nat /\ u \in Nat \ {0}
      BY <3>1, <3>2, <3>3, <2>2, <2>3, <1>8
    <3>5. Shared(h0, P) /\ small \in P /\ Units(small) = a .. a + u - 1
      BY <3>1, <3>2, <3>3, <2>2, <2>5, <1>3
    <3>6. PieceFreed(h0, P, small, g)
      BY <3>4, <3>5, <1>0, FreePiece
    <3> QED
      BY <3>1, <3>6, <2>6, <1>3 DEF PieceFreed
  <2>8. Pieces(held', bigblocks') = Q
    BY <2>2, <2>4, <2>6, <1>2, <1>8, <1>S, PiecesSmallRemoved
  <2>9. Shared(Heap', Q)
    BY <2>4, <2>7, HeapSet DEF Shared
  <2>10. HeldOK(held', bigblocks')
    BY <2>4, <1>10, <1>11 DEF HeldOK
  <2> QED
    BY <2>4, <2>7, <2>8, <2>9, <2>10, <1>3 DEF SlobIInv
<1> QED
  BY <1>12, <1>13

(* Every step keeps the invariant.                                         *)
LEMMA SlobIInvNext ==
    ASSUME SlobAssumption, SlobIInv, [SlobNext]_slob_vars
    PROVE  SlobIInv'
<1>1. CASE \E size \in Sizes : KmallocSmall(size)
  BY <1>1, KmallocSmallStep
<1>2. CASE \E size \in Sizes : KmallocBig(size)
  BY <1>2, KmallocBigStep
<1>3. CASE \E x \in held : Kfree(x)
  BY <1>3, KfreeStep
<1>4. CASE UNCHANGED slob_vars
  <2>1. Heap' = Heap /\ held' = held /\ bigblocks' = bigblocks /\ spare' = spare
    BY <1>4 DEF slob_vars, Heap
  <2> QED
    BY <2>1 DEF SlobIInv
<1> QED
  BY <1>1, <1>2, <1>3, <1>4 DEF SlobNext

(* The invariant gives the order of the ring.                              *)
LEMMA RingIsSorted ==
    ASSUME SlobIInv
    PROVE  RingSorted
<1>1. RingOK(ring) /\ slobfree \in DOMAIN ring
  BY HeapFields DEF SlobIInv, Shared, HeapOK
<1>2. arena \in DOMAIN ring /\ arena = 0 /\ DOMAIN ring \in SUBSET Nat
  BY <1>1, RingFinite DEF RingOK, arena
<1> SUFFICES ASSUME NEW b \in DOMAIN ring
             PROVE  LET above == {c \in DOMAIN ring : c > b}
                    IN  /\ ring[b].next = IF above = {} THEN arena ELSE Min(above)
                        /\ b + ring[b].units # ring[b].next
  BY <1>1, <1>2 DEF RingSorted
<1> DEFINE above == {c \in DOMAIN ring : c > b}
           n == ring[b].next
<1>3. Follows(DOMAIN ring, b, n) /\ b \in Nat /\ ring[b].units \in Nat \ {0}
  BY <1>1, <1>2 DEF RingOK
<1>4. above \in SUBSET Nat
  BY <1>2
<1>5. CASE n = arena /\ \A c \in DOMAIN ring : c <= b
  <2>1. above = {}
    BY <1>2, <1>3, <1>5
  <2>2. b + ring[b].units # arena
    BY <1>2, <1>3
  <2> QED
    BY <2>1, <2>2, <1>5
<1>6. CASE n \in DOMAIN ring /\ b < n /\ \A c \in DOMAIN ring : c <= b \/ n <= c
  <2>1. n \in above /\ \A c \in above : n <= c
    BY <1>2, <1>3, <1>6
  <2>2. Min(above) \in above /\ \A c \in above : Min(above) <= c
    <3> HIDE DEF above
    <3> QED
      BY <2>1, <1>4, MinOf
  <2>3. n \in Nat /\ Min(above) \in Nat /\ n <= Min(above) /\ Min(above) <= n
    <3> HIDE DEF above, n
    <3> QED
      BY <2>1, <2>2, <1>4
  <2>4. n = Min(above)
    <3> HIDE DEF above, n
    <3> QED
      BY <2>3
  <2>5. b + ring[b].units < n
    BY <1>1, <1>6 DEF RingOK
  <2> QED
    BY <2>1, <2>3, <2>4, <2>5, <1>3
<1> QED
  BY <1>3, <1>5, <1>6 DEF Follows

(* The chunk of a piece.                                                   *)
ChunkOf(p) ==
    IF p[1] = "small" THEN <<p[2].ptr - 1, p[2].units>>
    ELSE IF p[1] = "desc" THEN <<p[2].bb, BigUnits>>
    ELSE <<p[2].page * U, Pow2[p[2].order] * U>>

(* A piece and its chunk have the same units.                              *)
LEMMA ChunkUnits ==
    ASSUME NEW p
    PROVE  UnitsOf(ChunkOf(p)) = Units(p)
BY DEF UnitsOf, ChunkOf, Units

(* The chunks are the free blocks and the pieces.                          *)
LEMMA ChunkKinds ==
    ASSUME NEW c
    PROVE  c \in Chunks <=> \/ \E b \in DOMAIN ring : c = <<b, ring[b].units>>
                            \/ \E p \in Pieces(held, bigblocks) : c = ChunkOf(p)
<1>1. \A x : /\ ChunkOf(<<"small", x>>) = <<x.ptr - 1, x.units>>
             /\ ChunkOf(<<"desc", x>>) = <<x.bb, BigUnits>>
             /\ ChunkOf(<<"pages", x>>) = <<x.page * U, Pow2[x.order] * U>>
  BY DEF ChunkOf
<1>2. (\E p \in Pieces(held, bigblocks) : c = ChunkOf(p))
      <=> \/ \E x \in {y \in held : y.units > 0} : c = ChunkOf(<<"small", x>>)
          \/ \E b \in bigblocks : c = ChunkOf(<<"desc", b>>)
          \/ \E b \in bigblocks : c = ChunkOf(<<"pages", b>>)
  BY Zenon DEF Pieces
<1>3. c \in Chunks
      <=> \/ \E b \in DOMAIN ring : c = <<b, ring[b].units>>
          \/ \E x \in {y \in held : y.units > 0} : c = <<x.ptr - 1, x.units>>
          \/ \E b \in bigblocks : c = <<b.bb, BigUnits>>
          \/ \E b \in bigblocks : c = <<b.page * U, Pow2[b.order] * U>>
  BY Zenon DEF Chunks
<1> QED
  BY <1>1, <1>2, <1>3, Zenon

(* The invariant gives that each unit is in one chunk.                     *)
LEMMA NothingIsLost ==
    ASSUME SlobAssumption, SlobIInv
    PROVE  NothingLost
<1>0. Parameters
  BY Assumed
<1>1. PICK P : P = Pieces(held, bigblocks)
  OBVIOUS
<1>2. PICK T : T = UnitsIn(P)
  OBVIOUS
<1>3. /\ RingOK(ring) /\ T \subseteq Nat /\ \A a \in T : MemUnit(spare, a)
      /\ \A a \in Int : InRing(ring, a) <=> MemUnit(spare, a) /\ a \notin T
      /\ Apart(P)
  BY <1>1, <1>2, HeapFields DEF SlobIInv, Shared, HeapOK
<1>4. DOMAIN ring \in SUBSET Nat /\ \A b \in DOMAIN ring : ring[b].units \in Nat
  BY <1>3, RingFinite DEF RingOK
<1>5. ASSUME NEW b \in DOMAIN ring, NEW a
      PROVE  a \in UnitsOf(<<b, ring[b].units>>) <=> a \in Int /\ b <= a /\ a < b + ring[b].units
  <2>1. PICK u : u = ring[b].units
    OBVIOUS
  <2>2. UnitsOf(<<b, u>>) = b .. b + u - 1
    BY DEF UnitsOf
  <2> QED
    BY <2>1, <2>2, <1>4
<1>6. ASSUME NEW p \in P, NEW a \in Units(p) PROVE a \in T /\ a \in Nat
  BY <1>2, <1>3 DEF UnitsIn
<1>7. ASSUME NEW c \in Chunks, NEW d \in Chunks, c # d, NEW a \in UnitsOf(c), a \in UnitsOf(d) PROVE FALSE
  <2>1. ASSUME NEW b \in DOMAIN ring, c = <<b, ring[b].units>>, NEW e \in DOMAIN ring, d = <<e, ring[e].units>>
        PROVE  FALSE
    <3>1. a \in Int /\ b <= a /\ a < b + ring[b].units /\ e <= a /\ a < e + ring[e].units
      BY <2>1, <1>5, <1>7
    <3>2. b # e /\ b \in Nat /\ e \in Nat
      BY <2>1, <1>4, <1>7
    <3>3. (b < e => b + ring[b].units < e) /\ (e < b => e + ring[e].units < b)
      BY <1>3 DEF RingOK
    <3> QED
      BY <3>1, <3>2, <3>3, <1>4
  <2>2. ASSUME NEW f, NEW b \in DOMAIN ring, f = <<b, ring[b].units>>, a \in UnitsOf(f), NEW p \in P, a \in Units(p)
        PROVE  FALSE
    <3>1. a \in Int /\ InRing(ring, a)
      BY <2>2, <1>5 DEF InRing
    <3> QED
      BY <3>1, <2>2, <1>3, <1>6
  <2>3. ASSUME NEW p \in P, c = ChunkOf(p), NEW q \in P, d = ChunkOf(q) PROVE FALSE
    BY <2>3, <1>3, <1>7, ChunkUnits DEF Apart
  <2>4. \/ \E b \in DOMAIN ring : c = <<b, ring[b].units>>
        \/ \E p \in P : c = ChunkOf(p)
    BY <1>1, ChunkKinds
  <2>5. \/ \E b \in DOMAIN ring : d = <<b, ring[b].units>>
        \/ \E p \in P : d = ChunkOf(p)
    BY <1>1, ChunkKinds
  <2>6. \A p \in P : c = ChunkOf(p) => a \in Units(p)
    BY <1>7, ChunkUnits
  <2>7. \A p \in P : d = ChunkOf(p) => a \in Units(p)
    BY <1>7, ChunkUnits
  <2> QED
    BY <2>1, <2>2, <2>3, <2>4, <2>5, <2>6, <2>7, <1>7
<1>8. ASSUME NEW a PROVE (\E c \in Chunks : a \in UnitsOf(c)) <=> a \in Int /\ MemUnit(spare, a)
  <2>1. ASSUME NEW c \in Chunks, a \in UnitsOf(c) PROVE a \in Int /\ MemUnit(spare, a)
    <3>1. ASSUME NEW b \in DOMAIN ring, c = <<b, ring[b].units>> PROVE a \in Int /\ MemUnit(spare, a)
      <4>1. a \in Int /\ InRing(ring, a)
        BY <2>1, <3>1, <1>5 DEF InRing
      <4> QED
        BY <4>1, <1>3
    <3>2. ASSUME NEW p \in P, c = ChunkOf(p) PROVE a \in Int /\ MemUnit(spare, a)
      <4>1. a \in Units(p)
        BY <2>1, <3>2, ChunkUnits
      <4> QED
        BY <4>1, <1>3, <1>6
    <3> QED
      BY <3>1, <3>2, <1>1, ChunkKinds
  <2>2. ASSUME a \in Int, MemUnit(spare, a) PROVE \E c \in Chunks : a \in UnitsOf(c)
    <3>1. CASE a \in T
      <4>1. PICK p \in P : a \in Units(p)
        BY <3>1, <1>2 DEF UnitsIn
      <4>2. ChunkOf(p) \in Chunks
        BY <1>1, ChunkKinds
      <4> QED
        BY <4>1, <4>2, ChunkUnits
    <3>2. CASE a \notin T
      <4>1. PICK b \in DOMAIN ring : b <= a /\ a < b + ring[b].units
        BY <3>2, <2>2, <1>3 DEF InRing
      <4>2. PICK c : c = <<b, ring[b].units>>
        OBVIOUS
      <4>3. c \in Chunks
        BY <4>2, ChunkKinds
      <4>4. a \in UnitsOf(c)
        BY <4>1, <4>2, <2>2, <1>5
      <4> QED
        BY <4>3, <4>4
    <3> QED
      BY <3>1, <3>2
  <2> QED
    BY <2>1, <2>2
<1>9. ASSUME NEW a
      PROVE  a \in {arena} \cup UNION {p * U .. p * U + U - 1 : p \in HeapPage \ spare} <=> a \in Int /\ MemUnit(spare, a)
  <2>1. \A p \in HeapPage \ spare : p * U \in Nat /\ U \in Nat
    BY <1>0 DEF Parameters, HeapPage
  <2>2. \A p \in HeapPage \ spare : a \in p * U .. p * U + U - 1 <=> a \in Int /\ p * U <= a /\ a < p * U + U
    BY <2>1
  <2> QED
    BY <2>2 DEF MemUnit, arena
<1>10. UNION {UnitsOf(c) : c \in Chunks} = {arena} \cup UNION {p * U .. p * U + U - 1 : p \in HeapPage \ spare}
  <2>1. ASSUME NEW a PROVE a \in UNION {UnitsOf(c) : c \in Chunks} <=> \E c \in Chunks : a \in UnitsOf(c)
    OBVIOUS
  <2> DEFINE mine == UNION {UnitsOf(c) : c \in Chunks}
             all == {arena} \cup UNION {p * U .. p * U + U - 1 : p \in HeapPage \ spare}
  <2>2. \A a : a \in mine <=> a \in all
    BY <2>1, <1>8, <1>9, Zenon
  <2> HIDE DEF mine, all
  <2>3. mine = all
    BY <2>2
  <2> QED
    BY <2>3 DEF mine, all
<1> QED
  BY <1>7, <1>10 DEF NothingLost

(* kmalloc and kfree (kmalloc.c): the ring of free blocks is one ring in   *)
(* the order of the addresses, in which no two blocks touch, and each unit *)
(* of the memory taken from the page manager is in one free block, in one  *)
(* block that is held or in the descriptor of a big block; for any page    *)
(* size, number of pages, sizes and order of calls.                        *)
THEOREM SlobCorrect ==
    ASSUME SlobAssumption
    PROVE  SlobSpec => []SlobInv
<1>1. SlobInit => SlobIInv
  BY SlobIInvInit
<1>2. SlobIInv /\ [SlobNext]_slob_vars => SlobIInv'
  BY SlobIInvNext
<1>3. SlobIInv => SlobInv
  BY RingIsSorted, NothingIsLost DEF SlobInv
<1> QED
  BY <1>1, <1>2, <1>3, PTL DEF SlobSpec
============================================================================
