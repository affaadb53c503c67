------------------------------ MODULE PageSpec ------------------------------
(***************************************************************************)
(* What the physical page manager promises its callers (lab8               *)
(* kern/mm/pmm.h, struct pmm_manager): alloc_pages gives out n pages in a  *)
(* row that nobody holds, and fails only when there is no such row;        *)
(* free_pages takes back what was given.                                   *)
(***************************************************************************)
EXTENDS Integers

CONSTANTS
    Page,    \* the pages given to init_memmap
    MaxN     \* the largest request

VARIABLES
    free,    \* the pages nobody holds
    given,   \* what callers hold: pairs of first page and number
    refused  \* whether the last call was an alloc_pages that returned NULL

Run(b, n) == b .. b + n - 1

Init == free = Page /\ given = {} /\ refused = FALSE

Alloc(n) == \E b \in Page :
    /\ given' = given \cup {<<b, n>>}
    /\ refused' = FALSE
    /\ Run(b, n) \subseteq free
    /\ free' = free \ Run(b, n)

AllocFails(n) ==
    /\ refused' = TRUE
    /\ UNCHANGED <<free, given>>
    /\ \A b \in Page : ~ (Run(b, n) \subseteq free)

Free(g) ==
    /\ given' = given \ {g}
    /\ free' = free \cup Run(g[1], g[2])
    /\ refused' = FALSE

Next == (\E n \in 1 .. MaxN : Alloc(n) \/ AllocFails(n)) \/ \E g \in given : Free(g)

Spec == Init /\ [][Next]_<<free, given, refused>>
============================================================================
