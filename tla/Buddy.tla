------------------------------- MODULE Buddy -------------------------------
(***************************************************************************)
(* The buddy manager of physical pages (lab2 kern/mm/buddy_pmm.c): one     *)
(* list of free blocks for each order.  Blocks are cut from an area whose  *)
(* first page has any number, so a block need not be aligned to its size;  *)
(* a freed block looks for its buddy by flipping one bit of its page       *)
(* number, and trusts PG_property and the order written in that page.      *)
(***************************************************************************)
EXTENDS Integers, Sequences, FiniteSets, FiniteSetsExt, SequencesExt

CONSTANTS
    Base,       \* the number of the first page given to init_memmap
    N,          \* how many pages it gets
    MAX_ORDER,
    MaxN        \* the largest request

BuddyAssumption ==
    /\ {Base, N, MAX_ORDER, MaxN} \subseteq Nat \ {0}
    /\ (Base + N) % 2^MAX_ORDER = 0     \* memory ends at a multiple of the largest block

VARIABLES
    free_list,  \* for each order, the first pages of its free blocks
    nr_free,    \* for each order, their number
    flag,       \* PG_property of each page
    property,   \* the order written in each page
    given,      \* the blocks callers hold: first page and size asked for
    halt        \* "none", or "pa2page", "unlinked": why the kernel stopped

vars == <<free_list, nr_free, flag, property, given, halt>>

Page == Base .. Base + N - 1
Order == 0 .. MAX_ORDER - 1

(* The smallest order of blocks of n pages, MAX_ORDER if there is none.    *)
OrderOf(n) == Min({k \in Order : 2^k >= n} \cup {MAX_ORDER})

(* buddy_init_memmap: the largest block that fits, again and again.        *)
Largest(n) == Max({k \in Order : 2^k <= n})
Cut == LET cut[n \in 0 .. N] ==
              IF n = 0 THEN {} ELSE {<<Base + N - n, Largest(n)>>} \cup cut[n - 2^Largest(n)]
       IN  cut[N]
Init ==
    /\ free_list = [k \in Order |-> SetToSortSeq({b[1] : b \in {c \in Cut : c[2] = k}}, >)]
    /\ nr_free = [k \in Order |-> Len(free_list[k])]
    /\ flag = [p \in Page |-> \E b \in Cut : b[1] = p]
    /\ property = [p \in Page |-> IF flag[p] THEN (CHOOSE b \in Cut : b[1] = p)[2] ELSE 0]
    /\ given = {}
    /\ halt = "none"

(* buddy_alloc_pages: the first block of the smallest order that has one,  *)
(* of which every half but the lowest goes back to its list.               *)
AllocPages(n) ==
    LET order == OrderOf(n)
        cur == Min({k \in Order : k >= order /\ free_list[k] # <<>>})
        page == Head(free_list[cur])
        half(k) == order <= k /\ k < cur
    IN  /\ \E k \in Order : k >= order /\ free_list[k] # <<>>
        /\ free_list' = [k \in Order |-> IF k = cur THEN Tail(free_list[k])
                                         ELSE IF half(k) THEN <<page + 2^k>> \o free_list[k]
                                         ELSE free_list[k]]
        /\ nr_free' = [k \in Order |-> IF k = cur THEN nr_free[k] - 1
                                       ELSE IF half(k) THEN nr_free[k] + 1 ELSE nr_free[k]]
        /\ flag' = [p \in Page |-> IF p = page THEN FALSE
                                   ELSE flag[p] \/ \E k \in Order : half(k) /\ p = page + 2^k]
        /\ property' = [p \in Page |-> IF \E k \in Order : half(k) /\ p = page + 2^k
                                       THEN CHOOSE k \in Order : p = page + 2^k ELSE property[p]]
        /\ given' = given \cup {<<page, n>>}
        /\ UNCHANGED halt

AllocFails(n) ==
    /\ \A k \in Order : k >= OrderOf(n) => free_list[k] = <<>>
    /\ UNCHANGED <<free_list, nr_free, flag, property, given, halt>>

---------------------------------------------------------------------------
(* The page number with bit k flipped.                                     *)
BuddyOf(p, k) == IF (p \div 2^k) % 2 = 0 THEN p + 2^k ELSE p - 2^k

\* Mutant: any free block at the buddy's address is taken, of whatever order.
MayMergeAnyOrder(s, k) ==
    /\ s.go /\ k < MAX_ORDER - 1
    /\ BuddyOf(s.base, k) \in Page /\ flag[BuddyOf(s.base, k)]

(* Pages below the area are reserved and not marked.                       *)
MayMerge(s, k) ==
    LET b == BuddyOf(s.base, k)
    IN  /\ s.go /\ k < MAX_ORDER - 1
        /\ b \in Page /\ flag[b] /\ property[b] = k

(* One turn of the loop of buddy_free_pages at order k.  The absorbed      *)
(* buddy keeps PG_property and its order.                                  *)
Merge(s, k) ==
    LET b == BuddyOf(s.base, k)
    IN  IF s.go /\ k < MAX_ORDER - 1 /\ b >= Base + N THEN [s EXCEPT !.halt = "pa2page", !.go = FALSE]
        ELSE IF ~ MayMerge(s, k) THEN [s EXCEPT !.go = FALSE]
        ELSE IF b \notin Range(s.lists[k]) THEN [s EXCEPT !.halt = "unlinked", !.go = FALSE]
        ELSE [s EXCEPT !.lists[k] = SelectSeq(@, LAMBDA p : p # b), !.nr[k] = @ - 1,
                       !.base = Min({s.base, b}), !.order = k + 1]

FreePages(g) ==
    LET order == OrderOf(g[2])
        start == [base |-> g[1], order |-> order, lists |-> free_list, nr |-> nr_free,
                  go |-> TRUE, halt |-> "none"]
        loop[k \in order .. MAX_ORDER] == IF k = order THEN start ELSE Merge(loop[k - 1], k - 1)
        s == loop[MAX_ORDER]
    IN  /\ halt' = s.halt
        /\ free_list' = [s.lists EXCEPT ![s.order] = <<s.base>> \o @]
        /\ nr_free' = [s.nr EXCEPT ![s.order] = @ + 1]
        /\ flag' = [flag EXCEPT ![s.base] = TRUE]
        /\ property' = [property EXCEPT ![s.base] = s.order]
        /\ given' = given \ {g}

Next ==
    /\ halt = "none"
    /\ \/ \E n \in 1 .. MaxN : AllocPages(n) \/ AllocFails(n)
       \/ \E g \in given : FreePages(g)

Spec == Init /\ [][Next]_vars

---------------------------------------------------------------------------
FreeBlocks == UNION {{<<p, k>> : p \in Range(free_list[k])} : k \in Order}
HeldBlocks == {<<g[1], OrderOf(g[2])>> : g \in given}
PagesOf(b) == b[1] .. b[1] + 2^b[2] - 1

(* The free blocks and the held ones are disjoint and make up the memory,  *)
(* whatever the alignment; the lists and their counts agree; a mark left   *)
(* in the middle of a block is never taken for a free buddy, and no page   *)
(* beyond the memory is looked at.                                         *)
BuddyInv ==
    /\ halt = "none"
    /\ \A b, c \in FreeBlocks \cup HeldBlocks : b # c => PagesOf(b) \cap PagesOf(c) = {}
    /\ UNION {PagesOf(b) : b \in FreeBlocks \cup HeldBlocks} = Page
    /\ FreeBlocks \cap HeldBlocks = {}
    /\ \A b \in FreeBlocks : flag[b[1]] /\ property[b[1]] = b[2]
    /\ \A k \in Order : nr_free[k] = Len(free_list[k]) /\ IsInjective(free_list[k])
============================================================================
