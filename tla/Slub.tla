-------------------------------- MODULE Slub --------------------------------
(***************************************************************************)
(* The small-object allocator of lab2 (lab2 kern/mm/slub.c): a cache of    *)
(* slab pages for each bucket of sizes, each page with its header and the  *)
(* list of its free objects; larger objects are whole pages.  A page that  *)
(* has no object left in use goes back to the page manager.  An object is  *)
(* named by its page and its offset in it.                                 *)
(***************************************************************************)
EXTENDS Integers, Sequences, FiniteSets, FiniteSetsExt, SequencesExt

CONSTANTS
    PGSIZE,       \* bytes in a page
    HDR,          \* sizeof(slab_page_t)
    bucket_size,  \* the sizes of the buckets
    Page,         \* page numbers
    Sizes,        \* the sizes callers ask for
    MaxHeld       \* how many objects they hold at a time

SlubAssumption ==
    /\ {PGSIZE, HDR, MaxHeld} \subseteq Nat \ {0} /\ Page \subseteq Nat /\ IsFiniteSet(Page)
    /\ Sizes \subseteq Nat \ {0} /\ \A b \in bucket_size : b \in 1 .. PGSIZE - HDR

VARIABLES
    free,    \* pages with the page manager
    pages,   \* for each bucket, its slab pages in the order of the list
    header,  \* of each slab page: obj_size, free (a list), nr_free, capacity; obj_size 0 if none
    held     \* what callers hold: page, offset and number of pages

vars == <<free, pages, header, held>>

NoSlab == [obj_size |-> 0, free |-> <<>>, nr_free |-> 0, capacity |-> 0]

(* slab_page_init: the objects behind the header, the last one first.      *)
SlabPage(size) ==
    LET n == (PGSIZE - HDR) \div size
    IN  [obj_size |-> size, free |-> [i \in 1 .. n |-> HDR + (n - i) * size], nr_free |-> n, capacity |-> n]

(* slub_init.                                                              *)
Init ==
    /\ free = Page
    /\ pages = [b \in bucket_size |-> <<>>]
    /\ header = [p \in Page |-> NoSlab]
    /\ held = {}

(* size_to_bucket; the empty set if the size is too large.                 *)
Buckets(size) == {b \in bucket_size : size <= b}

(* The first free object of page p, whose header is h.                     *)
Pop(p, h) ==
    /\ header' = [header EXCEPT ![p] = [h EXCEPT !.free = Tail(@), !.nr_free = @ - 1]]
    /\ held' = held \cup {<<p, Head(h.free), 0>>}

(* kmalloc from the first slab page with a free object.                    *)
KmallocSlab(size) ==
    LET b == Min(Buckets(size))
        some == {i \in DOMAIN pages[b] : header[pages[b][i]].free # <<>>}
        p == pages[b][Min(some)]
    IN  /\ Buckets(size) # {} /\ some # {}
        /\ Pop(p, header[p])
        /\ UNCHANGED <<free, pages>>

(* kmalloc with a new slab page; nothing when there is no page.            *)
KmallocGrow(size) ==
    LET b == Min(Buckets(size))
        p == Min(free)
    IN  /\ Buckets(size) # {} /\ \A i \in DOMAIN pages[b] : header[pages[b][i]].free = <<>>
        /\ free # {}
        /\ free' = free \ {p}
        /\ pages' = [pages EXCEPT ![b] = <<p>> \o @]
        /\ Pop(p, SlabPage(b))

(* kmalloc of whole pages.                                                 *)
KmallocPages(size) ==
    LET np == (size + PGSIZE - 1) \div PGSIZE
        runs == {p \in Page : p .. p + np - 1 \subseteq free}
    IN  /\ Buckets(size) = {} /\ runs # {}
        /\ free' = free \ (Min(runs) .. Min(runs) + np - 1)
        /\ held' = held \cup {<<Min(runs), 0, np>>}
        /\ UNCHANGED <<pages, header>>

(* Whether the page has no object in use after a kfree.                    *)
Empty(h) == h.nr_free >= h.capacity

(* kfree of an object of a slab page.                                      *)
KfreeObject(x) ==
    LET p == x[1]
        h == [header[p] EXCEPT !.free = <<x[2]>> \o @, !.nr_free = @ + 1]
    IN  /\ x[3] = 0
        /\ held' = held \ {x}
        /\ IF Empty(h)
           THEN /\ pages' = [b \in bucket_size |-> SelectSeq(pages[b], LAMBDA q : q # p)]
                /\ header' = [header EXCEPT ![p] = NoSlab]
                /\ free' = free \cup {p}
           ELSE header' = [header EXCEPT ![p] = h] /\ UNCHANGED <<free, pages>>

(* kfree of whole pages: the pointer is where a slab page has its header,  *)
(* before its objects, so kfree returns.                                   *)
KfreePages(x) ==
    /\ x[3] > 0
    /\ held' = held \ {x}
    /\ UNCHANGED <<free, pages, header>>

Next ==
    \/ Cardinality(held) < MaxHeld
       /\ \E size \in Sizes : KmallocSlab(size) \/ KmallocGrow(size) \/ KmallocPages(size)
    \/ \E x \in held : KfreeObject(x) \/ KfreePages(x)

Spec == Init /\ [][Next]_vars

---------------------------------------------------------------------------
Slabs == {p \in Page : header[p].obj_size # 0}
Big == UNION {x[1] .. x[1] + x[3] - 1 : x \in {y \in held : y[3] > 0}}

(* A slab page is in the list of its bucket once, is no longer with the    *)
(* page manager, has an object in use, and its objects are each free once  *)
(* or held by one caller, inside the page and behind the header.           *)
SlubInv ==
    /\ \A p \in Slabs :
        LET h == header[p]
            used == {x[2] : x \in {y \in held : y[1] = p /\ y[3] = 0}}
        IN  /\ p \notin free \cup Big
            /\ \A b \in bucket_size : Cardinality({i \in DOMAIN pages[b] : pages[b][i] = p}) = (IF b = h.obj_size THEN 1 ELSE 0)
            /\ used # {} /\ used \cap ToSet(h.free) = {}
            /\ IsInjective(h.free) /\ h.nr_free = Len(h.free)
            /\ used \cup ToSet(h.free) = ToSet(SlabPage(h.obj_size).free)
    /\ \A x \in held : x[3] = 0 => x[1] \in Slabs
    /\ \A x, y \in held : x[3] > 0 /\ y[3] > 0 /\ x # y => x[1] + x[3] <= y[1] \/ y[1] + y[3] <= x[1]
    /\ free \cap Big = {}
============================================================================
