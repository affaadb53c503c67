----------------------------- MODULE CheckSync -----------------------------
(***************************************************************************)
(* check_sync of kern/sync/check_sync.c: it seats the dining philosophers  *)
(* twice, at a table with semaphores (PhilSem) and at one with a monitor   *)
(* (PhilMonitor).  The tables share nothing.  check_sync.c has one number  *)
(* of philosophers and of meals for both.                                  *)
(***************************************************************************)
EXTENDS Integers

CONSTANTS
    SemaN, SemaTimes,          \* philosophers and meals at the table with semaphores
    CondvarN, CondvarTimes     \* and at the one with the monitor

VARIABLES
    sm_value, sm_queue, sm_state, sm_flags, state_sema, sm_iter, sm_pc,    \* see PhilSem
    mt_value, mt_queue, mt_state, mt_flags, next_count, count, state_condvar, mt_iter, mt_pc, mt_ret

sema_vars == <<sm_value, sm_queue, sm_state, sm_flags, state_sema, sm_iter, sm_pc>>
condvar_vars == <<mt_value, mt_queue, mt_state, mt_flags, next_count, count, state_condvar, mt_iter, mt_pc, mt_ret>>

Sema == INSTANCE PhilSem WITH N <- SemaN, TIMES <- SemaTimes,
    value <- sm_value, wait_queue <- sm_queue, wait_state <- sm_state, wakeup_flags <- sm_flags,
    iter <- sm_iter, pc <- sm_pc

Condvar == INSTANCE PhilMonitor WITH N <- CondvarN, TIMES <- CondvarTimes,
    value <- mt_value, wait_queue <- mt_queue, wait_state <- mt_state, wakeup_flags <- mt_flags,
    iter <- mt_iter, pc <- mt_pc, ret <- mt_ret

(* check_sync.c, semaphores: neighbours never eat together, and nobody who *)
(* could eat is forgotten.                                                 *)
SemaTable == Sema!SemaTable

(* check_sync.c, monitor: one process at most is inside through every      *)
(* cond_wait and cond_signal (monitor.c), the counters are exact, and      *)
(* neighbours never eat together.                                          *)
CondvarTable == Condvar!CondvarTable
============================================================================
