-------------------------------- MODULE Slob --------------------------------
(***************************************************************************)
(* kmalloc and kfree (lab8 kern/mm/kmalloc.c): a ring of free blocks in    *)
(* the order of their addresses, grown a page at a time and never given    *)
(* back, and a list of big blocks that are runs of pages.  Every caller    *)
(* passes alignment 0.  Addresses count units (struct slob_block); the     *)
(* static block arena lies below the pages.  Interrupts are off or do not  *)
(* allocate, so a call is one step.                                        *)
(***************************************************************************)
EXTENDS Integers, FiniteSets, FiniteSetsExt

CONSTANTS
    UNIT,       \* bytes in a unit
    U,          \* units in a page
    NPages,     \* pages kmalloc can get
    Sizes,      \* the sizes callers ask for
    MaxHeld     \* how many blocks they hold at a time

SlobAssumption ==
    /\ {UNIT, U, NPages, MaxHeld} \subseteq Nat \ {0} /\ U > 2
    /\ Sizes \subseteq Nat \ {0}    \* no caller asks for nothing

VARIABLES
    ring,       \* for each free block its units and its next
    slobfree,   \* where the next search starts
    spare,      \* pages still with the page manager
    bigblocks,  \* the big blocks: their descriptor, first page and order
    held,       \* what callers hold: the pointer, its units (0 for a big block) and the size asked for
    panic       \* whether the assertion of slob_alloc failed

slob_vars == <<ring, slobfree, spare, bigblocks, held, panic>>

PAGE_SIZE == U * UNIT
arena == 0
HeapPage == 1 .. NPages              \* page p starts at unit p * U
SLOB_UNITS(size) == (size + UNIT - 1) \div UNIT
BigUnits == 2                        \* sizeof(bigblock_t) is 24 bytes, a unit 16
Pow2[k \in 0 .. NPages] == IF k = 0 THEN 1 ELSE 2 * Pow2[k - 1]

SlobInit ==
    /\ ring = [b \in {arena} |-> [units |-> 1, next |-> arena]]
    /\ slobfree = arena
    /\ spare = HeapPage
    /\ bigblocks = {}
    /\ held = {}
    /\ panic = FALSE

---------------------------------------------------------------------------
(* A heap h is the ring, where to start, and the free pages; ret is the    *)
(* block slob_alloc returns, 0 for none.                                   *)
Heap == [ring |-> ring, at |-> slobfree, spare |-> spare, ret |-> 0]

(* The links from the block b on.                                          *)
RingWalk(r, b) == LET w[k \in 0 .. Cardinality(DOMAIN r)] == IF k = 0 THEN b ELSE r[w[k - 1]].next
                  IN  w

(* A block taken out of the ring, one written.                             *)
Without(r, b) == [x \in DOMAIN r \ {b} |-> r[x]]
Put(r, b, units, next) == [x \in DOMAIN r \cup {b} |-> IF x = b THEN [units |-> units, next |-> next] ELSE r[x]]

(* The search for the reinsertion point.                                   *)
FitsAfter(r, b, cur) ==
    \/ b > cur /\ b < r[cur].next
    \/ cur >= r[cur].next /\ (b > cur \/ b < r[cur].next)
Place(h, b) ==
    LET w == RingWalk(h.ring, h.at)
    IN  w[Min({k \in DOMAIN w : FitsAfter(h.ring, b, w[k])})]

\* Mutant: a block is merged with the one below it only.
SlobFreeNoMergeUp(h, b, units) ==
    LET cur == Place(h, b)
        c == h.ring[cur]
    IN  [h EXCEPT !.at = cur,
                  !.ring = IF cur + c.units = b THEN Put(h.ring, cur, c.units + units, c.next)
                           ELSE Put(Put(h.ring, b, units, c.next), cur, c.units, b)]

(* slob_free: merged with the block above, then with the one below.        *)
SlobFree(h, b, units) ==
    LET cur == Place(h, b)
        c == h.ring[cur]
        n == h.ring[c.next]
        up == b + units = c.next
        r == IF up THEN Without(h.ring, c.next) ELSE h.ring
        all == IF up THEN units + n.units ELSE units
        next == IF up THEN n.next ELSE c.next
    IN  [h EXCEPT !.at = cur,
                  !.ring = IF cur + c.units = b THEN Put(r, cur, c.units + all, next)
                           ELSE Put(Put(r, b, all, next), cur, c.units, b)]

(* alloc_pages, first fit: the first pages of the runs of n free pages.    *)
PageRuns(h, n) == {p \in h.spare : p .. p + n - 1 \subseteq h.spare}

(* The search of slob_alloc for a block of so many units, which is taken   *)
(* whole or from its front.                                                *)
Fitting(h, units) ==
    LET w == RingWalk(h.ring, h.ring[h.at].next)
    IN  {k \in 0 .. Cardinality(DOMAIN h.ring) - 1 : h.ring[w[k]].units >= units}
TakeUnits(h, units) ==
    LET k == Min(Fitting(h, units))
        cur == RingWalk(h.ring, h.ring[h.at].next)[k]
        prev == RingWalk(h.ring, h.at)[k]
        c == h.ring[cur]
        r == Without(h.ring, cur)
        rest == IF c.units = units THEN r ELSE Put(r, cur + units, c.units - units, c.next)
    IN  [h EXCEPT !.ring = Put(rest, prev, h.ring[prev].units, IF c.units = units THEN c.next ELSE cur + units),
                  !.at = prev, !.ret = cur]

(* slob_alloc: when no block fits, a page is added to the ring.            *)
Grow(h) == SlobFree([h EXCEPT !.spare = @ \ {Min(h.spare)}], Min(h.spare) * U, U)
SlobAlloc(h, units) ==
    IF Fitting(h, units) # {} THEN TakeUnits(h, units)
    ELSE IF h.spare = {} THEN [h EXCEPT !.ret = 0]
    ELSE TakeUnits(Grow(h), units)

(* find_order: halving drops the low bits of the size.                     *)
FindOrder(size) == Min({k \in 0 .. NPages : size \div Pow2[k] <= PAGE_SIZE} \cup {NPages})

SetHeap(h) == ring' = h.ring /\ slobfree' = h.at /\ spare' = h.spare

---------------------------------------------------------------------------
(* kmalloc of less than a page: the block has one unit of header.          *)
KmallocSmall(size) ==
    LET h == SlobAlloc(Heap, SLOB_UNITS(size + UNIT))
    IN  /\ size < PAGE_SIZE - UNIT
        /\ panic' = (size + UNIT + UNIT >= PAGE_SIZE)
        /\ IF panic' THEN UNCHANGED <<ring, slobfree, spare, held>>
           ELSE /\ SetHeap(h)
                /\ held' = IF h.ret = 0 THEN held
                           ELSE held \cup {[ptr |-> h.ret + 1, units |-> SLOB_UNITS(size + UNIT), size |-> size]}
        /\ UNCHANGED bigblocks

(* kmalloc of a page or more.                                              *)
KmallocBig(size) ==
    LET h == SlobAlloc(Heap, BigUnits)
        order == FindOrder(size)
        runs == PageRuns(h, Pow2[order])
        p == Min(runs)
    IN  /\ size >= PAGE_SIZE - UNIT
        /\ IF h.ret = 0 THEN SetHeap(h) /\ UNCHANGED <<bigblocks, held>>
           ELSE IF runs = {} THEN SetHeap(SlobFree(h, h.ret, BigUnits)) /\ UNCHANGED <<bigblocks, held>>
           ELSE /\ SetHeap([h EXCEPT !.spare = @ \ (p .. p + Pow2[order] - 1)])
                /\ bigblocks' = bigblocks \cup {[bb |-> h.ret, page |-> p, order |-> order]}
                /\ held' = held \cup {[ptr |-> p * U, units |-> 0, size |-> size]}
        /\ UNCHANGED panic

(* kfree: a pointer to the start of a page may be a big block or the       *)
(* middle of the heap.                                                     *)
Kfree(x) ==
    LET bigs == {b \in bigblocks : b.page * U = x.ptr}
        b == CHOOSE c \in bigs : TRUE
        g == [Heap EXCEPT !.spare = @ \cup b.page .. b.page + Pow2[b.order] - 1]
    IN  /\ held' = held \ {x}
        /\ IF bigs # {}
           THEN SetHeap(SlobFree(g, b.bb, BigUnits)) /\ bigblocks' = bigblocks \ {b}
           ELSE SetHeap(SlobFree(Heap, x.ptr - 1, x.units)) /\ UNCHANGED bigblocks
        /\ UNCHANGED panic

SlobNext ==
    /\ ~ panic
    /\ \/ Cardinality(held) < MaxHeld /\ \E size \in Sizes : KmallocSmall(size) \/ KmallocBig(size)
       \/ \E x \in held : Kfree(x)

SlobSpec == SlobInit /\ [][SlobNext]_slob_vars

---------------------------------------------------------------------------
(* The units of the heap: each in a free block, in a block held (with its  *)
(* header) or in the descriptor of a big block.                            *)
Chunks ==
    {<<b, ring[b].units>> : b \in DOMAIN ring}
    \cup {<<x.ptr - 1, x.units>> : x \in {y \in held : y.units > 0}}
    \cup {<<b.bb, BigUnits>> : b \in bigblocks}
    \cup {<<b.page * U, Pow2[b.order] * U>> : b \in bigblocks}
UnitsOf(c) == c[1] .. c[1] + c[2] - 1

(* The ring is one ring in the order of the addresses that starts the      *)
(* search somewhere in it, and no two free blocks of it touch.             *)
RingSorted ==
    /\ slobfree \in DOMAIN ring
    /\ arena \in DOMAIN ring
    /\ \A b \in DOMAIN ring :
        LET above == {c \in DOMAIN ring : c > b}
        IN  /\ ring[b].next = IF above = {} THEN arena ELSE Min(above)
            /\ b + ring[b].units # ring[b].next

(* Nothing is handed out twice and nothing is lost: what was taken from    *)
(* the page manager is in the ring or with a caller.                       *)
NothingLost ==
    /\ \A c, d \in Chunks : c # d => UnitsOf(c) \cap UnitsOf(d) = {}
    /\ UNION {UnitsOf(c) : c \in Chunks} = {arena} \cup UNION {p * U .. p * U + U - 1 : p \in HeapPage \ spare}

(* kmalloc.c: the ring of free blocks stays sorted and merged, and no unit *)
(* is lost or handed out twice.                                            *)
SlobInv == RingSorted /\ NothingLost
============================================================================
