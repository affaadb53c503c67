--------------------------------- MODULE Monitor ---------------------------------
(***************************************************************************)
(* The monitors of kern/sync/monitor.c: a mutex, a semaphore next for the  *)
(* processes that signalled and stepped back, and a semaphore with a count *)
(* for each condition variable.  Like module Sem, this module gives the    *)
(* critical sections as operators; cond_wait and cond_signal block in the  *)
(* middle and are therefore cut at each semaphore operation.               *)
(***************************************************************************)
EXTENDS Integers, Sequences

CONSTANTS Procs,   \* the processes that use the monitor
          Conds    \* its condition variables

mutex == <<"mutex", 0>>

next == <<"next", 0>>

cv(c) == <<"cv", c>>

MonSems == {mutex, next} \cup {cv(c) : c \in Conds}

VARIABLES value, wait_queue, wait_state, wakeup_flags,  \* the semaphores, see Sem
          next_count,   \* mtp->next_count
          count         \* cvp->count

INSTANCE Sem WITH Sems <- MonSems

monitor_init ==
    /\ SemInit([x \in MonSems |-> IF x = mutex THEN 1 ELSE 0])
    /\ next_count = 0
    /\ count = [c \in Conds |-> 0]

\* Mutant: the signaller that stepped back is not thought of.
leave_open == up(mutex)

\* The end of a routine, and cond_wait before it blocks: the monitor goes to a
\* signaller that stepped back, or else to whoever waits at the mutex.
leave == up(IF next_count > 0 THEN next ELSE mutex)

\* cond_signal up to its down: count[c] > 0.
signal(c) ==
    /\ next_count' = next_count + 1
    /\ up(cv(c))
    /\ UNCHANGED count

\* cond_signal after its down.
signal_done ==
    /\ next_count' = next_count - 1
    /\ UNCHANGED <<value, wait_queue, wait_state, wakeup_flags, count>>

\* cond_wait up to its down.
wait(c) ==
    /\ count' = [count EXCEPT ![c] = @ + 1]
    /\ leave
    /\ UNCHANGED next_count

\* cond_wait after its down.
wait_done(c) ==
    /\ count' = [count EXCEPT ![c] = @ - 1]
    /\ UNCHANGED <<value, wait_queue, wait_state, wakeup_flags, next_count>>
=============================================================================
