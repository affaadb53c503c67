----------------------------------- MODULE Sem -----------------------------------
(***************************************************************************)
(* The counting semaphores of kern/sync/sem.c on the wait queues of        *)
(* kern/sync/wait.c: the state of a set of semaphores, and down and up as  *)
(* operators that the modules of their users compose.  Each operator is    *)
(* one critical section of the code (local_intr_save ... restore).         *)
(***************************************************************************)
EXTENDS Integers, Sequences

CONSTANTS Procs,   \* the processes that use the semaphores
          Sems     \* the semaphores

VARIABLES value,         \* sem->value
          wait_queue,    \* sem->wait_queue, first waiter first
          wait_state,    \* proc->wait_state; not "none" means PROC_SLEEPING
          wakeup_flags   \* wakeup_flags of the wait_t on each process's stack

SemTypeOK ==
    /\ value \in [Sems -> Nat]
    /\ wait_queue \in [Sems -> Seq(Procs)]
    /\ wait_state \in [Procs -> {"none", "WT_KSEM"}]
    /\ wakeup_flags \in [Procs -> {"WT_INTERRUPTED", "WT_KSEM"}]

\* sem_init, with the value of every semaphore.
SemInit(initial) ==
    /\ value = initial
    /\ wait_queue = [s \in Sems |-> <<>>]
    /\ wait_state = [p \in Procs |-> "none"]
    /\ wakeup_flags = [p \in Procs |-> "WT_INTERRUPTED"]

\* p is not asleep.
Awake(p) == wait_state[p] = "none"

\* __down up to its schedule(): take a unit, or queue up and sleep.
down(p, s) ==
    IF value[s] > 0
    THEN /\ value' = [value EXCEPT ![s] = @ - 1]
         /\ UNCHANGED <<wait_queue, wait_state, wakeup_flags>>
    ELSE /\ wait_queue' = [wait_queue EXCEPT ![s] = Append(@, p)]
         /\ wait_state' = [wait_state EXCEPT ![p] = "WT_KSEM"]
         /\ wakeup_flags' = [wakeup_flags EXCEPT ![p] = "WT_INTERRUPTED"]
         /\ UNCHANGED value

\* Mutant: the unit is given back as well as handed over.
up_both(s) ==
    /\ value' = [value EXCEPT ![s] = @ + 1]
    /\ IF wait_queue[s] = <<>>
       THEN UNCHANGED <<wait_queue, wait_state, wakeup_flags>>
       ELSE /\ wait_queue' = [wait_queue EXCEPT ![s] = Tail(@)]
            /\ wait_state' = [wait_state EXCEPT ![Head(wait_queue[s])] = "none"]
            /\ wakeup_flags' = [wakeup_flags EXCEPT ![Head(wait_queue[s])] = "WT_KSEM"]

\* Mutant: the unit is given back and nobody is woken.
up_silent(s) ==
    /\ value' = [value EXCEPT ![s] = @ + 1]
    /\ UNCHANGED <<wait_queue, wait_state, wakeup_flags>>

\* __up: hand the unit to the first waiter, or put it back.
up(s) ==
    IF wait_queue[s] = <<>>
    THEN value' = [value EXCEPT ![s] = @ + 1] /\ UNCHANGED <<wait_queue, wait_state, wakeup_flags>>
    ELSE /\ wait_queue' = [wait_queue EXCEPT ![s] = Tail(@)]
         /\ wait_state' = [wait_state EXCEPT ![Head(wait_queue[s])] = "none"]
         /\ wakeup_flags' = [wakeup_flags EXCEPT ![Head(wait_queue[s])] = "WT_KSEM"]
         /\ UNCHANGED value

\* list_del of entry i.
WithoutIndex(q, i) == [j \in 1..Len(q) - 1 |-> IF j < i THEN q[j] ELSE q[j + 1]]

Member(q, p) == \E i \in 1..Len(q) : q[i] = p

Distinct(q) == \A i, j \in 1..Len(q) : q[i] = q[j] => i = j
=============================================================================
