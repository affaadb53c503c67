--------------------------------- MODULE PhilSem ---------------------------------
(***************************************************************************)
(* The dining philosophers of kern/sync/check_sync.c, with semaphores: N   *)
(* kernel threads that think, take two forks, eat and put them back, TIMES *)
(* times.  One action per semaphore operation; do_sleep is a place where   *)
(* others run.                                                             *)
(***************************************************************************)
EXTENDS Integers, Sequences

CONSTANTS N,       \* the number of philosophers
          TIMES    \* meals of each

PhilAssumption == N \in Nat /\ N > 2 /\ TIMES \in Nat

Phils == 0..N - 1

mutex == <<"mutex", 0>>

s(i) == <<"s", i>>

LEFT(i) == (i - 1 + N) % N

RIGHT(i) == (i + 1) % N

VARIABLES value, wait_queue, wait_state, wakeup_flags,  \* the semaphores, see Sem
          state_sema,   \* THINKING, HUNGRY or EATING
          iter,         \* meals begun
          pc            \* where each philosopher is

INSTANCE Sem WITH Procs <- Phils, Sems <- {mutex} \cup {s(i) : i \in Phils}

sems == <<value, wait_queue, wait_state, wakeup_flags>>

vars == <<value, wait_queue, wait_state, wakeup_flags, state_sema, iter, pc>>

\* check_sync, before the philosophers run.
Init ==
    /\ SemInit([x \in {mutex} \cup {s(i) : i \in Phils} |-> IF x = mutex THEN 1 ELSE 0])
    /\ state_sema = [i \in Phils |-> "THINKING"]
    /\ iter = [i \in Phils |-> 0]
    /\ pc = [i \in Phils |-> "think"]

\* i is awake at l, hence past any down() before l.
At(i, l) == pc[i] = l /\ Awake(i)

Goto(i, l) == pc' = [pc EXCEPT ![i] = l]

\* The condition of phi_test_sema, in the state st.
MayEat(i, st) == st[i] = "HUNGRY" /\ st[LEFT(i)] # "EATING" /\ st[RIGHT(i)] # "EATING"

\* Mutant: only the left neighbour is looked at.
phi_test_sema_left(i, st) ==
    IF st[i] = "HUNGRY" /\ st[LEFT(i)] # "EATING"
    THEN state_sema' = [st EXCEPT ![i] = "EATING"] /\ up(s(i))
    ELSE state_sema' = st /\ UNCHANGED sems

\* phi_test_sema(i), when the state is st.
phi_test_sema(i, st) ==
    IF MayEat(i, st)
    THEN state_sema' = [st EXCEPT ![i] = "EATING"] /\ up(s(i))
    ELSE state_sema' = st /\ UNCHANGED sems

\* The loop of philosopher_using_semaphore.
Think(i) ==
    /\ At(i, "think")
    /\ IF iter[i] < TIMES
       THEN iter' = [iter EXCEPT ![i] = @ + 1] /\ Goto(i, "take")
       ELSE Goto(i, "quit") /\ UNCHANGED iter
    /\ UNCHANGED <<sems, state_sema>>

Take(i) ==
    /\ At(i, "take")
    /\ down(i, mutex)
    /\ Goto(i, "take_in")
    /\ UNCHANGED <<state_sema, iter>>

TakeIn(i) ==
    /\ At(i, "take_in")
    /\ phi_test_sema(i, [state_sema EXCEPT ![i] = "HUNGRY"])
    /\ Goto(i, "take_out")
    /\ UNCHANGED iter

TakeOut(i) ==
    /\ At(i, "take_out")
    /\ up(mutex)
    /\ Goto(i, "take_wait")
    /\ UNCHANGED <<state_sema, iter>>

TakeWait(i) ==
    /\ At(i, "take_wait")
    /\ down(i, s(i))
    /\ Goto(i, "eat")
    /\ UNCHANGED <<state_sema, iter>>

\* The meal is over: phi_put_forks_sema.
Put(i) ==
    /\ At(i, "eat")
    /\ down(i, mutex)
    /\ Goto(i, "put_left")
    /\ UNCHANGED <<state_sema, iter>>

PutLeft(i) ==
    /\ At(i, "put_left")
    /\ phi_test_sema(LEFT(i), [state_sema EXCEPT ![i] = "THINKING"])
    /\ Goto(i, "put_right")
    /\ UNCHANGED iter

\* Mutant: the right neighbour is not thought of.
PutRight_skips(i) ==
    /\ At(i, "put_right")
    /\ Goto(i, "put_out")
    /\ UNCHANGED <<sems, state_sema, iter>>

PutRight(i) ==
    /\ At(i, "put_right")
    /\ phi_test_sema(RIGHT(i), state_sema)
    /\ Goto(i, "put_out")
    /\ UNCHANGED iter

PutOut(i) ==
    /\ At(i, "put_out")
    /\ up(mutex)
    /\ Goto(i, "think")
    /\ UNCHANGED <<state_sema, iter>>

Phil(i) ==
    \/ Think(i)
    \/ Take(i) \/ TakeIn(i) \/ TakeOut(i) \/ TakeWait(i)
    \/ Put(i) \/ PutLeft(i) \/ PutRight(i) \/ PutOut(i)

AllQuit == \A i \in Phils : pc[i] = "quit"

\* Nothing is left to do once all have quit: do_wait in check_sync has returned.
Next == \E i \in Phils : Phil(i)

Spec == Init /\ [][Next]_vars

\* Every thread that is awake runs again.
FairSpec == Spec /\ \A i \in Phils : WF_vars(Phil(i))
-------------------------------------------------------------------------------

\* i has its forks: it is past the down(&s[i]), up to where it gives them back.
HasForks(i) == (pc[i] = "eat" /\ Awake(i)) \/ pc[i] = "put_left"

\* Neighbours never eat together, neither by their state_sema nor by what the
\* threads do.
ForksExclusive ==
    \A i \in Phils :
        /\ ~(state_sema[i] = "EATING" /\ state_sema[RIGHT(i)] = "EATING")
        /\ HasForks(i) => state_sema[i] = "EATING"

\* While nobody is in the critical section, no philosopher who could eat is left
\* hungry: every change of a neighbour is passed on.
NoForgottenHunger ==
    value[mutex] = 1 => \A i \in Phils : ~MayEat(i, state_sema)

\* Both: forks are exclusive, and a free pair of forks is not left to a hungry
\* philosopher's neighbours.
SemaTable == ForksExclusive /\ NoForgottenHunger

\* Every philosopher eats TIMES times and quits: do_wait in check_sync returns.
AllFinish == <>AllQuit
=============================================================================
