---------------------------------- MODULE Timer ----------------------------------
(***************************************************************************)
(* The timer list of kern/schedule/sched.c.  A timer keeps the number of   *)
(* ticks to its expiry as a difference: expires counts from the expiry of  *)
(* the timer before it in timer_list, so that run_timer_list only touches  *)
(* the head.  add_timer and run_timer_list are modelled one iteration of   *)
(* their loops at a time; interrupts are off in them, so no two of the     *)
(* three functions interleave.                                             *)
(*                                                                         *)
(* The list is shown to implement TimerSpec, a countdown for each timer.   *)
(* The variable `timer' is that countdown, and is read by no action.       *)
(***************************************************************************)
EXTENDS Integers, Sequences

CONSTANTS Timers,     \* the timers, each on the stack of one do_sleep
          MaxSleep    \* bound on the argument of sleep

ASSUME TimerAssumption == MaxSleep \in Nat \ {0}

VARIABLES timer_list,   \* the linked timers, head first
          expires,      \* timer->expires
          adding,       \* the argument of the add_timer in progress
          time,         \* ... and the time it was called with
          timer_le,     \* ... and the index of the entry it looks at
          timer_pc,     \* "out", "add" in add_timer, "run" in run_timer_list
          timer         \* ghost: ticks until each timer expires, -1 when unlinked

timer_vars == <<timer_list, expires, adding, time, timer_le, timer_pc, timer>>

InList == {timer_list[i] : i \in 1..Len(timer_list)}

TimerTypeOK ==
    /\ timer_list \in Seq(Timers)
    /\ expires \in [Timers -> 0..MaxSleep]
    /\ adding \in Timers
    /\ time \in 1..MaxSleep
    /\ timer_le \in Nat \ {0}
    /\ timer_pc \in {"out", "add", "run"}
    /\ timer \in [Timers -> -1..MaxSleep]

TimerInit ==
    /\ timer_list = <<>>
    /\ expires = [t \in Timers |-> 0]
    /\ adding \in Timers
    /\ time = 1
    /\ timer_le = 1
    /\ timer_pc = "out"
    /\ timer = [t \in Timers |-> -1]

-------------------------------------------------------------------------------
(* add_timer                                                               *)

\* timer_init, and add_timer up to its loop.
AddBegin(t, n) ==
    /\ timer_pc = "out" /\ t \notin InList
    /\ adding' = t /\ time' = n /\ timer_le' = 1
    /\ expires' = [expires EXCEPT ![t] = n]
    /\ timer_pc' = "add"
    /\ UNCHANGED <<timer_list, timer>>

\* The new timer expires no earlier than the entry it looks at.
AddPass ==
    /\ timer_pc = "add" /\ timer_le <= Len(timer_list)
    /\ expires[adding] >= expires[timer_list[timer_le]]
    /\ expires' = [expires EXCEPT ![adding] = @ - expires[timer_list[timer_le]]]
    /\ timer_le' = timer_le + 1
    /\ UNCHANGED <<timer_list, adding, time, timer_pc, timer>>

InsertAt(q, i, x) ==
    [j \in 1..Len(q) + 1 |-> IF j < i THEN q[j] ELSE IF j = i THEN x ELSE q[j - 1]]

\* Mutant: the entry after the new one keeps its difference.
AddInsert_keeps ==
    /\ timer_pc = "add"
    /\ \/ timer_le > Len(timer_list)
       \/ timer_le <= Len(timer_list) /\ expires[adding] < expires[timer_list[timer_le]]
    /\ timer_list' = InsertAt(timer_list, timer_le, adding)
    /\ timer' = [timer EXCEPT ![adding] = time]
    /\ timer_pc' = "out"
    /\ UNCHANGED <<expires, adding, time, timer_le>>

\* list_add_before, at the end of the list or before the first entry that expires
\* later, whose difference shrinks.
AddInsert ==
    /\ timer_pc = "add"
    /\ \/ timer_le > Len(timer_list) /\ UNCHANGED expires
       \/ /\ timer_le <= Len(timer_list) /\ expires[adding] < expires[timer_list[timer_le]]
          /\ expires' = [expires EXCEPT ![timer_list[timer_le]] = @ - expires[adding]]
    /\ timer_list' = InsertAt(timer_list, timer_le, adding)
    /\ timer' = [timer EXCEPT ![adding] = time]
    /\ timer_pc' = "out"
    /\ UNCHANGED <<adding, time, timer_le>>

-------------------------------------------------------------------------------
(* del_timer                                                               *)

RemoveAt(q, i) == [j \in 1..Len(q) - 1 |-> IF j < i THEN q[j] ELSE q[j + 1]]

\* A linked timer: the entry after it takes over its difference.
del_timer(t) ==
    \E i \in 1..Len(timer_list) :
        /\ timer_list[i] = t
        /\ IF expires[t] # 0 /\ i < Len(timer_list)
           THEN expires' = [expires EXCEPT ![timer_list[i + 1]] = @ + expires[t]]
           ELSE UNCHANGED expires
        /\ timer_list' = RemoveAt(timer_list, i)
        /\ timer' = [timer EXCEPT ![t] = -1]

\* do_sleep, after its schedule(), when something else woke the sleeper.
Del(t) ==
    /\ timer_pc = "out"
    /\ del_timer(t)
    /\ UNCHANGED <<adding, time, timer_le, timer_pc>>

-------------------------------------------------------------------------------
(* run_timer_list                                                          *)

\* The tick reaches the head of the list only.
RunBegin ==
    /\ timer_pc = "out"
    /\ expires' = IF timer_list = <<>> THEN expires
                  ELSE [expires EXCEPT ![Head(timer_list)] = @ - 1]
    /\ timer' = [t \in Timers |-> IF timer[t] > 0 THEN timer[t] - 1 ELSE timer[t]]
    /\ timer_pc' = "run"
    /\ UNCHANGED <<timer_list, adding, time, timer_le>>

HeadExpired == timer_list # <<>> /\ expires[Head(timer_list)] = 0

\* The head has expired: its process is woken and it is taken off.
RunExpire ==
    /\ timer_pc = "run" /\ HeadExpired
    /\ del_timer(Head(timer_list))
    /\ UNCHANGED <<adding, time, timer_le, timer_pc>>

RunEnd ==
    /\ timer_pc = "run" /\ ~HeadExpired
    /\ timer_pc' = "out"
    /\ UNCHANGED <<timer_list, expires, adding, time, timer_le, timer>>

TimerNext ==
    \/ \E t \in Timers : (\E n \in 1..MaxSleep : AddBegin(t, n)) \/ Del(t)
    \/ AddPass \/ AddInsert
    \/ RunBegin \/ RunExpire \/ RunEnd

TimerListSpec == TimerInit /\ [][TimerNext]_timer_vars
-------------------------------------------------------------------------------

\* A timer is linked once.
LinkedOnce == \A i, j \in 1..Len(timer_list) : timer_list[i] = timer_list[j] => i = j

\* expires of a linked timer is the time between its expiry and the expiry of
\* the timer before it (from now, for the head).
Differences ==
    \A i \in 1..Len(timer_list) :
        expires[timer_list[i]] = timer[timer_list[i]]
                                 - (IF i = 1 THEN 0 ELSE timer[timer_list[i - 1]])

\* The list is in the order of expiry.
Sorted ==
    \A i, j \in 1..Len(timer_list) : i < j => timer[timer_list[i]] <= timer[timer_list[j]]

\* Exactly the linked timers count down, and outside run_timer_list none of them
\* is at zero: the assertion expires != 0 at the head of run_timer_list.
LinkedCount ==
    \A t \in Timers :
        /\ t \in InList <=> timer[t] # -1
        /\ timer_pc # "run" => timer[t] # 0

\* The loop of add_timer: the new timer is unlinked and has given up the time of
\* the last entry it passed; it expires no earlier than that one.
AddInv ==
    timer_pc = "add" =>
        /\ adding \notin InList
        /\ timer_le <= Len(timer_list) + 1
        /\ LET passed == IF timer_le = 1 THEN 0 ELSE timer[timer_list[timer_le - 1]]
           IN  passed <= time /\ expires[adding] = time - passed

\* The delta list implements the countdown of TimerSpec: every timer fires at
\* the tick at which its own time has passed, whatever is added or deleted
\* before it meanwhile.
Countdown == INSTANCE TimerSpec WITH irq <- (timer_pc = "run")
CountdownSpec == Countdown!Spec
=============================================================================
