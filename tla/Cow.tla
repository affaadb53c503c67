-------------------------------- MODULE Cow ---------------------------------
(***************************************************************************)
(* Copy on write, as lab5 does it (lab5 kern/mm/vmm.c dup_mmap and         *)
(* do_pgfault, pmm.c copy_range and page_insert, trap.c): fork maps the    *)
(* pages of the parent into the child, read-only for both, and a store     *)
(* that faults copies the page, or takes it over if nobody else maps it.   *)
(* The kernel is not preempted: a system call or a fault is one step.      *)
(* Data is followed at one place of every page.  load_icode puts bytes of  *)
(* the file or zeros there (Zero), but not on the stack pages, nor before  *)
(* and behind the text in its pages: a place it does not write holds       *)
(* whatever the last user of the page left, a process or the kernel.       *)
(***************************************************************************)
EXTENDS Integers, FiniteSets

CONSTANTS
    Proc,
    Main,       \* the process that exists at first
    NV,         \* pages of a process
    Writable,   \* those in areas with VM_WRITE
    Cleared,    \* those that load_icode writes
    Page,       \* physical pages
    Value,      \* contents of a page
    Zero,
    NoMem

CowAssumption ==
    /\ IsFiniteSet(Proc) /\ Main \in Proc /\ NV \in Nat \ {0} /\ Writable \cup Cleared \subseteq 1 .. NV
    /\ Zero \in Value /\ NoMem \notin [1 .. NV -> Value] /\ 0 \notin Page

VARIABLES
    live,       \* processes with an address space
    page,       \* the page each virtual page is mapped to, 0 if none
    pte_w,      \* whether PTE_W is set
    ref,        \* Page.ref; 0 is a free page
    data,       \* the contents of the pages
    stuck       \* "no", or how the kernel stopped: "assert", or "retry" of a store for ever

vars == <<live, page, pte_w, ref, data, stuck>>

V == 1 .. NV
Free == {g \in Page : ref[g] = 0}

(* The pages after a program was loaded into f: what was left in them, but *)
(* where load_icode wrote.                                                 *)
Loaded(f, left, old) ==
    LET found(v) == IF v \in Cleared THEN Zero ELSE left[v]
    IN  [g \in Page |-> IF \E v \in V : f[v] = g THEN found(CHOOSE v \in V : f[v] = g) ELSE old[g]]

(* Main has been loaded: any pages, each of its own.                       *)
Init ==
    /\ live = {Main}
    /\ \E f \in [V -> Page], left \in [V -> Value] :
         /\ \A u, v \in V : f[u] = f[v] => u = v
         /\ page = [p \in Proc |-> IF p = Main THEN f ELSE [v \in V |-> 0]]
         /\ ref = [g \in Page |-> IF \E v \in V : f[v] = g THEN 1 ELSE 0]
         /\ data = Loaded(f, left, [g \in Page |-> Zero])
    /\ pte_w = [p \in Proc |-> [v \in V |-> p = Main /\ v \in Writable]]
    /\ stuck = "no"

---------------------------------------------------------------------------
(* copy_mm.  dup_mmap shares the pages one by one; done of them are marked *)
(* read-only when no page is left for a page table, and then the child is  *)
(* taken down again.                                                       *)
Fork(p, c, done) ==
    /\ p \in live /\ c \notin live
    /\ pte_w' = [pte_w EXCEPT ![p] = [v \in V |-> pte_w[p][v] /\ v > done]]
    /\ IF done < NV
         THEN UNCHANGED <<live, page, ref>>
         ELSE /\ live' = live \cup {c}
              /\ page' = [page EXCEPT ![c] = page[p]]
              /\ ref' = [g \in Page |-> ref[g] + (IF \E v \in V : page[p][v] = g THEN 1 ELSE 0)]
    /\ UNCHANGED <<data, stuck>>

(* exit_mmap: page_remove_pte of every page.                               *)
Dropped(p) == [g \in Page |-> ref[g] - (IF \E v \in V : page[p][v] = g THEN 1 ELSE 0)]

Exit(p) ==
    /\ p \in live
    /\ live' = live \ {p}
    /\ page' = [page EXCEPT ![p] = [v \in V |-> 0]]
    /\ pte_w' = [pte_w EXCEPT ![p] = [v \in V |-> FALSE]]
    /\ ref' = Dropped(p)
    /\ UNCHANGED <<data, stuck>>

(* do_execve: the old pages are given up, new ones are loaded.             *)
Exec(p) ==
    /\ p \in live
    /\ \E f \in [V -> {g \in Page : Dropped(p)[g] = 0}], left \in [V -> Value] :
         /\ \A u, v \in V : f[u] = f[v] => u = v
         /\ page' = [page EXCEPT ![p] = f]
         /\ ref' = [g \in Page |-> IF \E v \in V : f[v] = g THEN 1 ELSE Dropped(p)[g]]
         /\ data' = Loaded(f, left, data)
    /\ pte_w' = [pte_w EXCEPT ![p] = [v \in V |-> v \in Writable]]
    /\ UNCHANGED <<live, stuck>>

(* A load that finds no page for text or data ends in do_exit, one that    *)
(* finds none for the stack in a failing assertion.                        *)
ExecNoMem(p) ==
    /\ p \in live
    /\ Cardinality({g \in Page : Dropped(p)[g] = 0}) < NV
    /\ live' = live \ {p}
    /\ page' = [page EXCEPT ![p] = [v \in V |-> 0]]
    /\ pte_w' = [pte_w EXCEPT ![p] = [v \in V |-> FALSE]]
    /\ ref' = Dropped(p)
    /\ stuck' \in {"no", "assert"}
    /\ UNCHANGED data

---------------------------------------------------------------------------
(* A store of a user program to a page it may write.                       *)
Store(p, v, x) ==
    /\ p \in live /\ pte_w[p][v]
    /\ data' = [data EXCEPT ![page[p][v]] = x]
    /\ UNCHANGED <<live, page, pte_w, ref, stuck>>

\* Mutant: a page is taken over though one other process maps it.
SharedOff(g) == ref[g] > 2

(* do_pgfault: more than one reference to the page.                        *)
Shared(g) == ref[g] > 1

(* do_pgfault after a store of a user program: copy the page, or take it   *)
(* over.  A fault elsewhere, or without a free page, changes nothing, and  *)
(* the program tries again.                                                *)
CopyFault(p, v) ==
    LET old == page[p][v]
    IN  /\ p \in live /\ v \in Writable /\ ~ pte_w[p][v] /\ Shared(old)
        /\ \E new \in Free :
             /\ page' = [page EXCEPT ![p][v] = new]
             /\ data' = [data EXCEPT ![new] = data[old]]
             /\ ref' = [ref EXCEPT ![new] = 1, ![old] = @ - 1]
        /\ pte_w' = [pte_w EXCEPT ![p][v] = TRUE]
        /\ UNCHANGED <<live, stuck>>

PromoteFault(p, v) ==
    /\ p \in live /\ v \in Writable /\ ~ pte_w[p][v] /\ ~ Shared(page[p][v])
    /\ pte_w' = [pte_w EXCEPT ![p][v] = TRUE]
    /\ UNCHANGED <<live, page, ref, data, stuck>>

(* do_wait stores an exit code for the program, after user_mem_check.  A   *)
(* fault in the kernel is not given to do_pgfault: the handler returns and *)
(* the store faults again.                                                 *)
KernelStore(p, v, x) ==
    /\ p \in live /\ v \in Writable
    /\ IF pte_w[p][v]
         THEN data' = [data EXCEPT ![page[p][v]] = x] /\ UNCHANGED stuck
         ELSE stuck' = "retry" /\ UNCHANGED data
    /\ UNCHANGED <<live, page, pte_w, ref>>

Next ==
    /\ stuck = "no"
    /\ \E p \in Proc :
        \/ \E c \in Proc, done \in V : Fork(p, c, done)
        \/ Exit(p)
        \/ Exec(p)
        \/ ExecNoMem(p)
        \/ \E v \in V : CopyFault(p, v) \/ PromoteFault(p, v)
        \/ \E v \in V, x \in Value : Store(p, v, x) \/ KernelStore(p, v, x)

Spec == Init /\ [][Next]_vars

---------------------------------------------------------------------------
(* The reference count of a page is the number of entries that map it, and *)
(* an entry is writable only if it is the only one that maps its page.     *)
CowInv ==
    /\ \A g \in Page : ref[g] = Cardinality({e \in Proc \X V : page[e[1]][e[2]] = g})
    /\ \A p \in live, v \in V : page[p][v] \in Page
    /\ \A p \in Proc, v \in V : pte_w[p][v] => p \in live /\ v \in Writable /\ ref[page[p][v]] = 1

(* The memory a process sees.                                              *)
Memory == [p \in Proc |-> IF p \in live THEN [v \in V |-> data[page[p][v]]] ELSE NoMem]

Private == INSTANCE MemSpec WITH mem <- Memory

(* Sharing cannot be seen: whatever a program finds in its memory when it  *)
(* starts, from then on nobody else sees what it writes or changes what it *)
(* reads.                                                                  *)
PrivateMemory == Private!Spec
============================================================================
