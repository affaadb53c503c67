------------------------------ MODULE MCAlloc ------------------------------
(***************************************************************************)
(* The four allocators side by side, for TLC.  They share nothing, so a    *)
(* behaviour is one of any of them: part says which.  FreeList and Slob    *)
(* have their own variables, which rest while another part runs; those of  *)
(* the others are x1, x2, ... in the order of their declarations.          *)
(***************************************************************************)
EXTENDS FreeList, Slob

VARIABLES part, x1, x2, x3, x4, x5, x6

(* Pages 9 .. 15: blocks of 4, 2 and 1 pages, the first ones not aligned.  *)
Bd == INSTANCE Buddy WITH
    Base <- 9, N <- 7, MAX_ORDER <- 3, MaxN <- 4,
    free_list <- x1, nr_free <- x2, flag <- x3, property <- x4, given <- x5, halt <- x6

Sb == INSTANCE Slub WITH
    PGSIZE <- 10, HDR <- 2, bucket_size <- {2, 4, 8}, Page <- {1, 2, 3}, Sizes <- {1, 4, 7, 9, 11}, MaxHeld <- 4,
    free <- x1, pages <- x2, header <- x3, held <- x4

ASSUME FreeListAssumption /\ SlobAssumption /\ Bd!BuddyAssumption /\ Sb!SlubAssumption

xs == <<x1, x2, x3, x4, x5, x6>>
Unused == x1 = 0 /\ x2 = 0 /\ x3 = 0 /\ x4 = 0 /\ x5 = 0 /\ x6 = 0

MCInit ==
    /\ Init /\ SlobInit
    /\ \/ part = "freelist" /\ Unused
       \/ /\ fit = "first"
          /\ \/ part = "slob" /\ Unused
             \/ part = "buddy" /\ Bd!Init
             \/ part = "slub" /\ Sb!Init /\ x5 = 0 /\ x6 = 0

MCNext ==
    \/ part = "freelist" /\ Next /\ UNCHANGED <<part, slob_vars, xs>>
    \/ part = "slob" /\ SlobNext /\ UNCHANGED <<part, vars, xs>>
    \/ part = "buddy" /\ Bd!Next /\ UNCHANGED <<part, vars, slob_vars>>
    \/ part = "slub" /\ Sb!Next /\ UNCHANGED <<part, vars, slob_vars, x5, x6>>

MCSpec == MCInit /\ [][MCNext]_<<part, vars, slob_vars, xs>>

(* The allocators of lab2 that no theorem is about.  buddy_pmm.c: free and *)
(* held blocks partition the memory, whatever marks merged blocks have     *)
(* left in their pages.  slub.c: a slab page is in the list of its cache   *)
(* once, each of its objects is free or held, and a page without objects   *)
(* in use is gone.                                                         *)
Lab2Inv ==
    /\ part = "buddy" => Bd!BuddyInv
    /\ part = "slub" => Sb!SlubInv
============================================================================
