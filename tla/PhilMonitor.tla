------------------------------- MODULE PhilMonitor -------------------------------
(***************************************************************************)
(* The dining philosophers of kern/sync/check_sync.c with a monitor: the   *)
(* forks are taken and put back inside the monitor mt, and a philosopher   *)
(* who must wait does so on its own condition variable.                    *)
(***************************************************************************)
EXTENDS Integers, Sequences, FiniteSets

CONSTANTS N,       \* the number of philosophers
          TIMES    \* meals of each

PhilAssumption == N \in Nat /\ N > 2 /\ TIMES \in Nat

Phils == 0..N - 1

LEFT(i) == (i - 1 + N) % N

RIGHT(i) == (i + 1) % N

VARIABLES value, wait_queue, wait_state, wakeup_flags,  \* the semaphores of mt
          next_count, count,   \* the counters of mt, see Monitor
          state_condvar,       \* THINKING, HUNGRY or EATING
          iter,                \* meals begun
          pc,                  \* where each philosopher is
          ret                  \* where its phi_test_condvar returns to

INSTANCE Monitor WITH Procs <- Phils, Conds <- Phils

mtvars == <<value, wait_queue, wait_state, wakeup_flags, next_count, count>>

vars == <<value, wait_queue, wait_state, wakeup_flags, next_count, count,
          state_condvar, iter, pc, ret>>

\* check_sync, before the philosophers run.
Init ==
    /\ monitor_init
    /\ state_condvar = [i \in Phils |-> "THINKING"]
    /\ iter = [i \in Phils |-> 0]
    /\ pc = [i \in Phils |-> "think"]
    /\ ret = [i \in Phils |-> "take_check"]

\* i is awake at l, hence past any down() before l.
At(i, l) == pc[i] = l /\ Awake(i)

Goto(i, l) == pc' = [pc EXCEPT ![i] = l]

\* The condition of phi_test_condvar, in the state st.
MayEat(j, st) == st[j] = "HUNGRY" /\ st[LEFT(j)] # "EATING" /\ st[RIGHT(j)] # "EATING"

\* phi_test_condvar(j), called by i with the state st and returning to l;
\* cond_signal blocks only when somebody waits on cv[j].
phi_test_condvar(i, j, st, l) ==
    /\ state_condvar' = IF MayEat(j, st) THEN [st EXCEPT ![j] = "EATING"] ELSE st
    /\ IF MayEat(j, st) /\ count[j] > 0
       THEN signal(j) /\ Goto(i, "signal")
       ELSE Goto(i, l) /\ UNCHANGED mtvars
    /\ ret' = [ret EXCEPT ![i] = l]
    /\ UNCHANGED iter

\* Mutant: the signaller goes on inside the monitor.
SignalWait_stays(i) ==
    /\ At(i, "signal")
    /\ Goto(i, "signal_done")
    /\ UNCHANGED <<mtvars, state_condvar, iter, ret>>

\* cond_signal: step back ...
SignalWait(i) ==
    /\ At(i, "signal")
    /\ down(i, next)
    /\ Goto(i, "signal_done")
    /\ UNCHANGED <<next_count, count, state_condvar, iter, ret>>

\* ... and go on when the monitor is given back.
SignalDone(i) ==
    /\ At(i, "signal_done")
    /\ signal_done
    /\ Goto(i, ret[i])
    /\ UNCHANGED <<state_condvar, iter, ret>>

\* The loop of philosopher_using_condvar.
Think(i) ==
    /\ At(i, "think")
    /\ IF iter[i] < TIMES
       THEN iter' = [iter EXCEPT ![i] = @ + 1] /\ Goto(i, "take")
       ELSE Goto(i, "quit") /\ UNCHANGED iter
    /\ UNCHANGED <<mtvars, state_condvar, ret>>

\* phi_take_forks_condvar and phi_put_forks_condvar enter the monitor.
Enter(i) ==
    /\ \/ At(i, "take") /\ Goto(i, "take_in")
       \/ At(i, "eat") /\ Goto(i, "put_left")
    /\ down(i, mutex)
    /\ UNCHANGED <<next_count, count, state_condvar, iter, ret>>

TakeIn(i) ==
    /\ At(i, "take_in")
    /\ phi_test_condvar(i, i, [state_condvar EXCEPT ![i] = "HUNGRY"], "take_check")

TakeCheck(i) ==
    /\ At(i, "take_check")
    /\ IF state_condvar[i] = "HUNGRY"
       THEN wait(i) /\ Goto(i, "wait")
       ELSE Goto(i, "take_leave") /\ UNCHANGED mtvars
    /\ UNCHANGED <<state_condvar, iter, ret>>

\* cond_wait: block ...
Wait(i) ==
    /\ At(i, "wait")
    /\ down(i, cv(i))
    /\ Goto(i, "wait_done")
    /\ UNCHANGED <<next_count, count, state_condvar, iter, ret>>

\* ... and go on when signalled.
WaitDone(i) ==
    /\ At(i, "wait_done")
    /\ wait_done(i)
    /\ Goto(i, "take_leave")
    /\ UNCHANGED <<state_condvar, iter, ret>>

Leave(i) ==
    /\ \/ At(i, "take_leave") /\ Goto(i, "eat")
       \/ At(i, "put_leave") /\ Goto(i, "think")
    /\ leave
    /\ UNCHANGED <<next_count, count, state_condvar, iter, ret>>

PutLeft(i) ==
    /\ At(i, "put_left")
    /\ phi_test_condvar(i, LEFT(i), [state_condvar EXCEPT ![i] = "THINKING"], "put_right")

PutRight(i) ==
    /\ At(i, "put_right")
    /\ phi_test_condvar(i, RIGHT(i), state_condvar, "put_leave")

Phil(i) ==
    \/ Think(i) \/ Enter(i) \/ TakeIn(i) \/ TakeCheck(i) \/ Wait(i) \/ WaitDone(i) \/ Leave(i)
    \/ PutLeft(i) \/ PutRight(i) \/ SignalWait(i) \/ SignalDone(i)

AllQuit == \A i \in Phils : pc[i] = "quit"

\* Nothing is left to do once all have quit: do_wait in check_sync has returned.
Next == \E i \in Phils : Phil(i)

Spec == Init /\ [][Next]_vars

\* Every thread that is awake runs again.
FairSpec == Spec /\ \A i \in Phils : WF_vars(Phil(i))
-------------------------------------------------------------------------------

\* i works inside the monitor: it is past the down that lets it in, and neither
\* blocked nor on its way to block.
Inside(i) ==
    /\ Awake(i)
    /\ pc[i] \in {"take_in", "take_check", "wait_done", "take_leave",
                  "put_left", "put_right", "put_leave", "signal_done"}

\* The units of the semaphores that would let somebody in.
Passes(i) == IF pc[i] = "wait" THEN value[cv(i)] ELSE 0

\* Hoare's discipline: one process at most is inside the monitor, and while one
\* is, neither the mutex nor a pending signal lets another one in.
OneInside ==
    /\ \A i, j \in Phils : Inside(i) /\ Inside(j) => i = j
    /\ (\E i \in Phils : Inside(i)) =>
          value[mutex] = 0 /\ value[next] = 0 /\ \A i \in Phils : Passes(i) = 0

\* The counters say who is blocked: next_count the signallers that stepped back,
\* count[i] whether philosopher i waits.
CountsExact ==
    /\ next_count = Cardinality({i \in Phils : pc[i] \in {"signal", "signal_done"}})
    /\ \A i \in Phils : count[i] = IF pc[i] \in {"wait", "wait_done"} THEN 1 ELSE 0

\* Neighbours never eat together, neither by their state_condvar nor by what the
\* threads do.
ForksExclusive ==
    \A i \in Phils :
        /\ ~(state_condvar[i] = "EATING" /\ state_condvar[RIGHT(i)] = "EATING")
        /\ (pc[i] \in {"take_leave", "eat"} \/ (pc[i] = "wait_done" /\ Awake(i)))
               => state_condvar[i] = "EATING"

\* Together: the monitor admits one process at a time, its counters say who is
\* blocked, and so neighbours never eat together.
CondvarTable == OneInside /\ CountsExact /\ ForksExclusive

\* Every philosopher eats TIMES times and quits: nobody is left in cond_wait or
\* cond_signal, and do_wait in check_sync returns.
AllFinish == <>AllQuit
=============================================================================
