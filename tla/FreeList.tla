------------------------------ MODULE FreeList ------------------------------
(***************************************************************************)
(* The physical page managers that keep one list of free blocks: first fit *)
(* (lab8 kern/mm/default_pmm.c, the one in use in labs 3 to 8) and best    *)
(* fit (lab2 kern/mm/best_fit_pmm.c), which differ in the block they       *)
(* choose.  The list is modelled by its pointers (libs/list.h), because    *)
(* the code walks it while it changes it.  Interrupts are off during a     *)
(* call (pmm.c), so a call is one step.                                    *)
(***************************************************************************)
EXTENDS Integers, FiniteSets, FiniteSetsExt

CONSTANTS
    N,        \* number of pages given to init_memmap: pages 0 .. N - 1
    MaxN,     \* the largest request
    Fits,     \* the managers considered: "first", "best"
    LeaveTop  \* whether callers never come to hold the topmost page

FreeListAssumption ==
    N \in Nat \ {0} /\ MaxN \in 1 .. N /\ Fits \subseteq {"first", "best"} /\ LeaveTop \in BOOLEAN

VARIABLES
    fit,      \* the manager: never changes
    area,     \* next and prev of the links, property and PG_property of the pages, nr_free
    given,    \* the blocks callers hold: first page and number
    refused,  \* whether the last call was an alloc_pages that returned NULL
    halt      \* "none", or why the kernel stopped: "loop" or "assert"

vars == <<fit, area, given, refused, halt>>

Page == 0 .. N - 1
Head == N     \* free_list itself
Node == 0 .. N

---------------------------------------------------------------------------
(* libs/list.h on the state a.                                             *)
ListAdd(a, elm, p, n) ==
    LET b == [a EXCEPT !.next[p] = elm, !.prev[n] = elm]
    IN  [b EXCEPT !.next[elm] = n, !.prev[elm] = p]
ListAddAfter(a, l, elm) == ListAdd(a, elm, l, a.next[l])
ListAddBefore(a, l, elm) == ListAdd(a, elm, a.prev[l], l)
ListDel(a, elm) == [a EXCEPT !.next[a.prev[elm]] = a.next[elm], !.prev[a.next[elm]] = a.prev[elm]]

(* The k-th link after the head, the head itself once it is reached again; *)
(* a walk of more than N links does not end.                               *)
Walk(a) == LET w[k \in 0 .. N] == IF k = 0 THEN a.next[Head]
                                  ELSE IF w[k - 1] = Head THEN Head ELSE a.next[w[k - 1]]
           IN  w
Ends(a) == \E k \in 0 .. N : Walk(a)[k] = Head

---------------------------------------------------------------------------
(* The loop that links a block at its place.  The test for the last block  *)
(* has no break: the loop goes on with the block it has just added, and    *)
(* adds that once more, after itself.                                      *)
Stop(a, base, l) == l # Head /\ (base < l \/ a.next[l] = Head)
Link(a, base) ==
    LET w == Walk(a)
        at == w[Min({k \in 0 .. N : Stop(a, base, w[k])})]
    IN  IF a.next[Head] = Head THEN ListAddAfter(a, Head, base)
        ELSE IF base < at THEN ListAddBefore(a, at, base)
        ELSE ListAddAfter(ListAddAfter(a, at, base), base, base)
LinkEnds(a, base) == a.next[Head] = Head \/ \E k \in 0 .. N : Stop(a, base, Walk(a)[k])

(* A block becomes free: its first page counts its pages.                  *)
Fresh(a, base, n) ==
    [a EXCEPT !.property[base] = n, !.flag[base] = TRUE, !.nr_free = @ + n]

\* Mutant: the block below takes the pages of base, which stays in the list.
MergeDownKeepsLink(a, base) ==
    LET p == a.prev[base]
    IN  IF p = Head \/ p + a.property[p] # base THEN [a |-> a, base |-> base]
        ELSE [a |-> [a EXCEPT !.property[p] = @ + a.property[base], !.flag[base] = FALSE], base |-> p]

(* Merging with the block before in the list, then with the one after.     *)
MergeDown(a, base) ==
    LET p == a.prev[base]
    IN  IF p = Head \/ p + a.property[p] # base THEN [a |-> a, base |-> base]
        ELSE [a |-> ListDel([a EXCEPT !.property[p] = @ + a.property[base], !.flag[base] = FALSE], base),
              base |-> p]

MergeUp(a, base) ==
    LET p == a.next[base]
    IN  IF p = Head \/ base + a.property[base] # p THEN a
        ELSE ListDel([a EXCEPT !.property[base] = @ + a.property[p], !.flag[p] = FALSE], p)

---------------------------------------------------------------------------
(* default_init and default_init_memmap of all the pages.                  *)
Init ==
    /\ fit \in Fits
    /\ area = Link(Fresh([next |-> [l \in Node |-> l], prev |-> [l \in Node |-> l],
                          property |-> [p \in Page |-> 0], flag |-> [p \in Page |-> FALSE],
                          nr_free |-> 0], 0, N), 0)
    /\ given = {}
    /\ refused = FALSE
    /\ halt = "none"

(* The block alloc_pages takes: the first in the list that is large        *)
(* enough, or the first of the smallest ones.                              *)
Large(n) == {k \in 0 .. N : LET l == Walk(area)[k] IN l # Head /\ area.property[l] >= n}
Better(j, k) == fit = "best" /\ area.property[Walk(area)[j]] < area.property[Walk(area)[k]]
Chosen(n) == Walk(area)[CHOOSE k \in Large(n) : \A j \in Large(n) \ {k} :
                            Better(k, j) \/ (k < j /\ ~ Better(j, k))]

\* Mutant: the rest of the block is linked at the end of the list.
TakeRestLast(a, page, n) ==
    LET b == ListDel(a, page)
        rest == [b EXCEPT !.property[page + n] = a.property[page] - n, !.flag[page + n] = TRUE]
        c == IF a.property[page] = n THEN b ELSE ListAddBefore(rest, Head, page + n)
    IN  [c EXCEPT !.nr_free = @ - n, !.flag[page] = FALSE]

(* The rest of the block takes its place in the list.                      *)
Take(a, page, n) ==
    LET b == ListDel(a, page)
        rest == [b EXCEPT !.property[page + n] = a.property[page] - n, !.flag[page + n] = TRUE]
        c == IF a.property[page] = n THEN b ELSE ListAddAfter(rest, a.prev[page], page + n)
    IN  [c EXCEPT !.nr_free = @ - n, !.flag[page] = FALSE]

(* default_alloc_pages, best_fit_alloc_pages.                              *)
AllocPages(n) ==
    LET page == Chosen(n)
    IN  /\ n <= area.nr_free /\ Large(n) # {}
        /\ LeaveTop => page + n < N
        /\ area' = Take(area, page, n)
        /\ given' = given \cup {<<page, n>>}
        /\ refused' = FALSE
        /\ UNCHANGED <<fit, halt>>

(* A walk through a list that does not come back to its head never ends.   *)
AllocFails(n) ==
    LET loops == n <= area.nr_free /\ ~ Ends(area)
    IN  /\ n > area.nr_free \/ Large(n) = {}
        /\ halt' = IF loops THEN "loop" ELSE "none"
        /\ refused' = TRUE
        /\ UNCHANGED <<fit, area, given>>

(* default_free_pages, best_fit_free_pages.                                *)
FreePages(g) ==
    LET a == Fresh(area, g[1], g[2])
        m == MergeDown(Link(a, g[1]), g[1])
        bad == \E p \in g[1] .. g[1] + g[2] - 1 : area.flag[p]
    IN  /\ halt' = IF bad THEN "assert" ELSE IF ~ LinkEnds(a, g[1]) THEN "loop" ELSE "none"
        /\ area' = IF halt' = "none" THEN MergeUp(m.a, m.base) ELSE area
        /\ given' = IF halt' = "none" THEN given \ {g} ELSE given
        /\ refused' = FALSE
        /\ UNCHANGED fit

Next ==
    /\ halt = "none"
    /\ \/ \E n \in 1 .. MaxN : AllocPages(n) \/ AllocFails(n)
       \/ \E g \in given : FreePages(g)

Spec == Init /\ [][Next]_vars

---------------------------------------------------------------------------
Linked == {Walk(area)[k] : k \in 0 .. N} \ {Head}
Block(p) == p .. p + area.property[p] - 1
GivenPages == UNION {g[1] .. g[1] + g[2] - 1 : g \in given}

(* The list is a ring of the blocks in the order of their addresses.       *)
ListSorted ==
    /\ Ends(area)
    /\ \A l \in Linked \cup {Head} : area.prev[area.next[l]] = l
    /\ \A l \in Linked : area.next[l] > l

(* Each page is in one block or held by one caller, and no two free blocks *)
(* touch; nr_free counts the pages of the blocks.                          *)
BlocksExact ==
    /\ Linked = {p \in Page : area.flag[p]}
    /\ \A p, q \in Linked : p < q => p + area.property[p] < q
    /\ UNION {Block(p) : p \in Linked} = Page \ GivenPages
    /\ area.nr_free = N - Cardinality(GivenPages)

(* First fit and best fit (default_pmm.c, best_fit_pmm.c): the list of     *)
(* free blocks is a sorted ring of maximal blocks that agrees with the     *)
(* marks and counters of the pages, whatever was allocated and freed, and  *)
(* no walk or assertion stops the kernel.                                  *)
FreeListInv == ListSorted /\ BlocksExact /\ halt = "none"

(* What callers see of the list: the pages of its blocks.                  *)
Pages == INSTANCE PageSpec WITH free <- UNION {Block(p) : p \in Linked}

(* Both managers implement what pmm.h promises: a request is met by pages  *)
(* nobody holds, and refused only if there is no run of free pages of that *)
(* length; free_pages takes back what was given.                           *)
PageManagerSpec == Pages!Spec

(* default_pmm.c on alloc_pages: "unlink the pages from free_list".        *)
GivenUnlinked == \A g \in given : g[1] \notin Linked
============================================================================
