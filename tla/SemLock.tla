--------------------------------- MODULE SemLock ---------------------------------
(***************************************************************************)
(* Processes in the kernel that take and release semaphores (lock_mm,      *)
(* lock_files, lock_sfs_fs, lock_sin, ... are all of this form: a down, a  *)
(* section of code, an up), while others call try_down and do_kill.        *)
(*                                                                         *)
(* Any process that is awake may take the next step.  The kernel switches  *)
(* less often than that: a process keeps the processor until it sleeps.    *)
(***************************************************************************)
EXTENDS Sem, FiniteSets

CONSTANT Units     \* the initial value of every semaphore

ASSUME LockAssumption == IsFiniteSet(Procs) /\ Units \in [Sems -> Nat]

VARIABLES pc,      \* "out", "down" in __down after its schedule(), "in" the section
          sem,     \* the semaphore p works with
          exiting  \* proc->flags & PF_EXITING

vars == <<value, wait_queue, wait_state, wakeup_flags, pc, sem, exiting>>

TypeOK ==
    /\ SemTypeOK
    /\ pc \in [Procs -> {"out", "down", "in"}]
    /\ sem \in [Procs -> Sems]
    /\ exiting \in [Procs -> BOOLEAN]

Init ==
    /\ SemInit(Units)
    /\ pc = [p \in Procs |-> "out"]
    /\ sem \in [Procs -> Sems]
    /\ exiting = [p \in Procs |-> FALSE]

Down(p, s) ==
    /\ pc[p] = "out"
    /\ down(p, s)
    /\ sem' = [sem EXCEPT ![p] = s]
    /\ pc' = [pc EXCEPT ![p] = IF value[s] > 0 THEN "in" ELSE "down"]
    /\ UNCHANGED exiting

\* __down after its schedule(): take the wait_t off the queue if it is still
\* there (wait_current_del), and return.
DownWoken(p) ==
    /\ pc[p] = "down" /\ Awake(p)
    /\ IF Member(wait_queue[sem[p]], p)
       THEN \E i \in 1..Len(wait_queue[sem[p]]) :
               /\ wait_queue[sem[p]][i] = p
               /\ wait_queue' = [wait_queue EXCEPT ![sem[p]] = WithoutIndex(@, i)]
       ELSE UNCHANGED wait_queue
    /\ pc' = [pc EXCEPT ![p] = "in"]
    /\ UNCHANGED <<value, wait_state, wakeup_flags, sem, exiting>>

\* try_down succeeds; when it fails it changes nothing.
TryDown(p, s) ==
    /\ pc[p] = "out" /\ value[s] > 0
    /\ value' = [value EXCEPT ![s] = @ - 1]
    /\ sem' = [sem EXCEPT ![p] = s]
    /\ pc' = [pc EXCEPT ![p] = "in"]
    /\ UNCHANGED <<wait_queue, wait_state, wakeup_flags, exiting>>

Up(p) ==
    /\ pc[p] = "in"
    /\ up(sem[p])
    /\ pc' = [pc EXCEPT ![p] = "out"]
    /\ UNCHANGED <<sem, exiting>>

\* Mutant: WT_KSEM carries the bit WT_INTERRUPTED, as the other wait states do.
interruptible_all(w) == w # "none"

\* wait_state & WT_INTERRUPTED: not for WT_KSEM, 0x100.
interruptible(w) == w \in {"WT_CHILD", "WT_TIMER", "WT_KBD"}

\* do_kill(q): wakes q out of an interruptible sleep only.
Kill(q) ==
    /\ ~exiting[q]
    /\ exiting' = [exiting EXCEPT ![q] = TRUE]
    /\ wait_state' = IF interruptible(wait_state[q])
                     THEN [wait_state EXCEPT ![q] = "none"] ELSE wait_state
    /\ UNCHANGED <<value, wait_queue, wakeup_flags, pc, sem>>

Step(p) == (\E s \in Sems : Down(p, s) \/ TryDown(p, s)) \/ DownWoken(p) \/ Up(p)

Next == \E p \in Procs : Step(p) \/ Kill(p)

Spec == Init /\ [][Next]_vars

\* A woken process runs again (module Proc: QueuedRuns), and a section ends.
FairSpec == Spec /\ \A p \in Procs : WF_vars(DownWoken(p)) /\ WF_vars(Up(p))
-------------------------------------------------------------------------------

\* The processes that own a unit of s: those inside their section, and those that
\* up() handed it to and that have not run yet.
Owners(s) == {p \in Procs : sem[p] = s /\ (pc[p] = "in" \/ (pc[p] = "down" /\ Awake(p)))}

\* No unit is lost or invented: what is left in a semaphore and what is owned
\* add up to its initial value, through every hand-over.  With one unit this is
\* mutual exclusion.
UnitsConserved == \A s \in Sems : value[s] + Cardinality(Owners(s)) = Units[s]

\* A unit is never left lying while somebody waits for it.
NoIdleUnit == \A s \in Sems : value[s] > 0 => wait_queue[s] = <<>>

\* Both: every unit is with a process or in its semaphore, and there only as
\* long as nobody waits.
UnitsInv == UnitsConserved /\ NoIdleUnit

\* The queue of s holds exactly the processes that sleep in a down of s, once
\* each: the assertion in wait_queue_del, and no wait_t outlives its stack frame.
QueueExact ==
    \A s \in Sems :
        /\ Distinct(wait_queue[s])
        /\ \A p \in Procs : Member(wait_queue[s], p) <=> (pc[p] = "down" /\ sem[p] = s /\ ~Awake(p))

\* The assertion of down, flags == 0: only up() ends a down, and a process that
\* is killed meanwhile still gets its unit first.
DownAssert == \A p \in Procs : (pc[p] = "down" /\ Awake(p)) => wakeup_flags[p] = "WT_KSEM"

\* Whoever waits gets in: the queue is served in order and newcomers cannot
\* overtake it.
WaiterEnters == \A p \in Procs : (pc[p] = "down") ~> (pc[p] = "in")
=============================================================================
