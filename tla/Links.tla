------------------------------- MODULE Links -------------------------------
(***************************************************************************)
(* The family lists of processes (lab8 kern/process/proc.c): the children  *)
(* of a process start at its cptr, the youngest first, and go on by optr;  *)
(* yptr is the way back.  Module Proc takes the children as the set of     *)
(* processes with that parent, and so does do_wait for one pid, while      *)
(* do_wait for any child walks the list.  Interrupts are off while lists   *)
(* change, so a system call is one step, but for the loop of do_exit,      *)
(* during which no other step is taken.                                    *)
(***************************************************************************)
EXTENDS Naturals, FiniteSets

CONSTANTS
    UserProcs,  \* the proc_structs besides idleproc and initproc
    idleproc, initproc,
    NULL

LinksAssumption ==
    /\ idleproc # initproc /\ {idleproc, initproc} \cap UserProcs = {}
    /\ NULL \notin UserProcs \cup {idleproc, initproc} /\ IsFiniteSet(UserProcs)

VARIABLES
    links,      \* parent, cptr, optr and yptr of each process
    linked,     \* the processes in proc_list
    zombie,     \* those that are PROC_ZOMBIE
    leaving     \* the process inside the loop of do_exit, or NULL

links_vars == <<links, linked, zombie, leaving>>

AllProcs == UserProcs \cup {idleproc, initproc}

(* set_links: p becomes the youngest child of its parent.                  *)
set_links(l, p) ==
    LET older == l.cptr[l.parent[p]]
        m == [l EXCEPT !.yptr[p] = NULL, !.optr[p] = older, !.cptr[l.parent[p]] = p]
    IN  IF older = NULL THEN m ELSE [m EXCEPT !.yptr[older] = p]

(* remove_links.                                                           *)
remove_links(l, p) ==
    LET m == IF l.optr[p] = NULL THEN l ELSE [l EXCEPT !.yptr[l.optr[p]] = l.yptr[p]]
    IN  IF l.yptr[p] # NULL THEN [m EXCEPT !.optr[l.yptr[p]] = l.optr[p]]
        ELSE [m EXCEPT !.cptr[l.parent[p]] = l.optr[p]]

(* The fields alloc_proc writes; a freed proc_struct has them already here *)
(* (nothing reads it in between).                                          *)
Blank(l, p) == [l EXCEPT !.parent[p] = NULL, !.cptr[p] = NULL, !.optr[p] = NULL, !.yptr[p] = NULL]

(* proc_init: idleproc, which is in no list, has created initproc.         *)
LinksInit ==
    /\ LET none == [p \in AllProcs |-> NULL]
           l == [parent |-> none, cptr |-> none, optr |-> none, yptr |-> none]
       IN  links = set_links([l EXCEPT !.parent[initproc] = idleproc], initproc)
    /\ linked = {initproc} /\ zombie = {} /\ leaving = NULL

Running(p) == leaving = NULL /\ p \in linked \ zombie

(* do_fork of c by p, from alloc_proc to set_links.                        *)
Fork(p, c) ==
    /\ Running(p) /\ c \in UserProcs \ linked
    /\ links' = set_links([Blank(links, c) EXCEPT !.parent[c] = p], c)
    /\ linked' = linked \cup {c}
    /\ UNCHANGED <<zombie, leaving>>

(* do_exit up to its loop.                                                 *)
Exit(p) ==
    /\ Running(p) /\ p # initproc
    /\ zombie' = zombie \cup {p}
    /\ leaving' = p
    /\ UNCHANGED <<links, linked>>

\* Mutant: a child keeps its way back to the sibling before it.
adopt_keeps(l, p) ==
    LET c == l.cptr[p]
    IN  [l EXCEPT !.cptr[p] = l.optr[c], !.optr[c] = l.cptr[initproc],
                  !.parent[c] = initproc, !.cptr[initproc] = c]

(* An iteration: the youngest child of p becomes that of initproc.         *)
adopt(l, p) ==
    LET c == l.cptr[p]
        head == l.cptr[initproc]
        m == [l EXCEPT !.cptr[p] = l.optr[c], !.yptr[c] = NULL, !.optr[c] = head,
                       !.parent[c] = initproc, !.cptr[initproc] = c]
    IN  IF head = NULL THEN m ELSE [m EXCEPT !.yptr[head] = c]

ExitLoop ==
    /\ leaving # NULL
    /\ IF links.cptr[leaving] = NULL
       THEN leaving' = NULL /\ UNCHANGED links
       ELSE links' = adopt(links, leaving) /\ UNCHANGED leaving
    /\ UNCHANGED <<linked, zombie>>

(* The list of p's children as the loop of do_wait sees it.                *)
Walk(l, p) ==
    LET at[k \in 0 .. Cardinality(AllProcs)] ==
            IF k = 0 THEN l.cptr[p] ELSE LET q == at[k - 1] IN IF q = NULL THEN NULL ELSE l.optr[q]
    IN  at

(* do_wait for the child c, found: remove_links, kfree.                    *)
Reap(c) ==
    /\ links' = Blank(remove_links(links, c), c)
    /\ linked' = linked \ {c} /\ zombie' = zombie \ {c}
    /\ UNCHANGED leaving

WaitPid(p, c) == Running(p) /\ c \in zombie /\ links.parent[c] = p /\ Reap(c)

(* do_wait for any child: the first zombie of the list.                    *)
WaitAny(p) ==
    /\ Running(p)
    /\ LET at == Walk(links, p)
       IN  \E k \in DOMAIN at :
             /\ at[k] \in zombie /\ \A j \in 0 .. k - 1 : at[j] \notin zombie
             /\ Reap(at[k])

LinksNext ==
    \/ \E p \in AllProcs : \/ \E c \in UserProcs : Fork(p, c) \/ WaitPid(p, c)
                           \/ Exit(p)
                           \/ WaitAny(p)
    \/ ExitLoop

LinksSpec == LinksInit /\ [][LinksNext]_links_vars

---------------------------------------------------------------------------
(* The list of a process ends, and holds exactly the processes that have   *)
(* it as their parent; all of them are in proc_list.                       *)
ListsExact == \A p \in AllProcs :
    LET at == Walk(links, p)
    IN  /\ at[Cardinality(AllProcs)] = NULL
        /\ {at[k] : k \in DOMAIN at} \ {NULL} = {q \in linked : links.parent[q] = p}

(* yptr undoes optr, so that remove_links finds the neighbours of a        *)
(* process; the head of the list that do_exit is taking apart still points *)
(* to the sibling that has gone.                                           *)
WaysBack == \A q \in linked :
    /\ links.optr[q] # NULL => links.yptr[links.optr[q]] = q
    /\ IF leaving # NULL /\ links.cptr[leaving] = q THEN TRUE
       ELSE IF links.yptr[q] = NULL THEN links.cptr[links.parent[q]] = q
       ELSE links.optr[links.yptr[q]] = q

(* Nobody is left without a parent that can reap it: a parent is alive,    *)
(* or is the one that is giving its children away.                         *)
ParentsAlive == \A q \in linked \ {initproc} : links.parent[q] \in (linked \ zombie) \cup ({leaving} \ {NULL})

(* The family lists (set_links, remove_links, do_exit): they hold exactly   *)
(* the processes with that parent, can be undone, and lead to a parent that *)
(* is alive, through every order of forks, exits and waits.                 *)
LinksInv == ListsExact /\ WaysBack /\ ParentsAlive
============================================================================
