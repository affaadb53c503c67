------------------------------- MODULE ProcProofs -------------------------------
(***************************************************************************)
(* Proofs about module Proc.  The inductive invariant IInv joins the type  *)
(* invariant, the link between control and data (ControlInv), the run      *)
(* queue, the timers, the family tree, the absence of a lost wakeup and    *)
(* the process count.  Each part has a lemma "...Step" with one step per   *)
(* action of Next; they use each other's unprimed conjuncts only, except   *)
(* that the parts after TypeStep may use TypeOK'.                          *)
(***************************************************************************)
EXTENDS Proc, FiniteSetTheorems, TLAPS

IInv ==
    /\ TypeOK
    /\ ControlInv
    /\ RunQueueExact
    /\ TimerInv
    /\ NoOrphan
    /\ NoLostChild
    /\ CountExact

-------------------------------------------------------------------------------
(* Sequences without repetitions                                           *)

\* What list_add_before at the end of the run queue adds: its argument and
\* nothing else.
LEMMA AppendMember ==
  ASSUME NEW S, NEW q \in Seq(S), NEW x \in S
  PROVE  \A y : Member(Append(q, x), y) <=> Member(q, y) \/ y = x
  <1>1. Len(Append(q, x)) = Len(q) + 1 /\ Len(q) \in Nat
    OBVIOUS
  <1>2. \A i \in 1..Len(q) : Append(q, x)[i] = q[i]
    OBVIOUS
  <1>3. Append(q, x)[Len(q) + 1] = x
    OBVIOUS
  <1> QED
    BY <1>1, <1>2, <1>3 DEF Member

\* Queueing a process that is not queued keeps the run queue without repetition.
LEMMA AppendDistinct ==
  ASSUME NEW S, NEW q \in Seq(S), NEW x \in S, Distinct(q), ~Member(q, x)
  PROVE  Distinct(Append(q, x))
  <1>1. Len(Append(q, x)) = Len(q) + 1 /\ Len(q) \in Nat
    OBVIOUS
  <1>2. \A i \in 1..Len(q) : Append(q, x)[i] = q[i]
    OBVIOUS
  <1>3. Append(q, x)[Len(q) + 1] = x
    OBVIOUS
  <1> QED
    BY <1>1, <1>2, <1>3 DEF Member, Distinct

\* RR_dequeue of the head that RR_pick_next chose removes that one process from
\* a queue without repetitions.
LEMMA TailMember ==
  ASSUME NEW S, NEW q \in Seq(S), q # <<>>, Distinct(q)
  PROVE  /\ Member(q, Head(q))
         /\ Distinct(Tail(q))
         /\ \A y : Member(Tail(q), y) <=> Member(q, y) /\ y # Head(q)
  <1>1. Len(q) \in Nat \ {0} /\ Len(Tail(q)) = Len(q) - 1 /\ Head(q) = q[1]
    OBVIOUS
  <1>2. \A i \in 1..Len(Tail(q)) : Tail(q)[i] = q[i + 1]
    OBVIOUS
  <1>3. Member(q, Head(q))
    BY <1>1 DEF Member
  <1>4. Distinct(Tail(q))
    BY <1>1, <1>2 DEF Distinct
  <1>5. ASSUME NEW y, Member(Tail(q), y) PROVE Member(q, y) /\ y # Head(q)
    BY <1>1, <1>2, <1>5 DEF Member, Distinct
  <1>6. ASSUME NEW y, Member(q, y), y # Head(q) PROVE Member(Tail(q), y)
    <2>1. PICK i \in 1..Len(q) : q[i] = y
      BY <1>6 DEF Member
    <2>2. i - 1 \in 1..Len(Tail(q)) /\ Tail(q)[i - 1] = y
      BY <1>1, <1>2, <1>6, <2>1
    <2> QED
      BY <2>2 DEF Member
  <1> QED
    BY <1>3, <1>4, <1>5, <1>6

\* The queue after sched_init holds nobody.
LEMMA EmptyMember == Distinct(<<>>) /\ \A y : ~Member(<<>>, y)
  BY DEF Member, Distinct

\* What schedule() does to the queue.
LEMMA ScheduleQueue ==
  ASSUME TypeOK, RunQueueExact, NEW p \in Procs, p = current, NEW l, schedule(p, l)
  PROVE  /\ Distinct(rq')
         /\ \A y : Member(rq', y) <=> (InQueue(y) \/ (y = p /\ requeues(p))) /\ y # current'
         /\ current' # idleproc => InQueue(current') \/ (current' = p /\ requeues(p))
  <1> DEFINE q == IF requeues(p) THEN Append(rq, p) ELSE rq
  <1>1. q \in Seq(Procs)
    BY DEF TypeOK
  <1>2. \A y : Member(q, y) <=> InQueue(y) \/ (y = p /\ requeues(p))
    BY AppendMember DEF TypeOK, InQueue
  <1>3. Distinct(q)
    BY AppendDistinct DEF TypeOK, RunQueueExact, InQueue
  <1>4. current' = (IF q = <<>> THEN idleproc ELSE Head(q))
        /\ rq' = (IF q = <<>> THEN q ELSE Tail(q))
    BY DEF schedule
  <1>5. ~Member(q, idleproc)
    BY <1>2 DEF RunQueueExact, requeues, Procs
  <1>6. CASE q = <<>>
    BY <1>2, <1>4, <1>6, EmptyMember
  <1>7. CASE q # <<>>
    <2> HIDE DEF q
    <2>1. /\ Member(q, Head(q)) /\ Distinct(Tail(q))
          /\ \A y : Member(Tail(q), y) <=> Member(q, y) /\ y # Head(q)
      BY <1>1, <1>3, <1>7, TailMember
    <2> QED
      BY <1>2, <1>4, <1>7, <2>1
  <1> QED
    BY <1>6, <1>7

-------------------------------------------------------------------------------
(* Types                                                                   *)

\* idleproc and initproc are processes.
LEMMA KernelThreads == idleproc \in Procs /\ initproc \in Procs
  BY DEF Procs

\* wakeup_proc keeps the fields it assigns in their types; the slice RR_enqueue
\* refills stays within MAX_TIME_SLICE.
LEMMA WakeupType ==
  ASSUME TypeOK, NEW p \in Procs, wakeup_proc(p)
  PROVE  /\ state' \in [Procs -> States]
         /\ wait_state' \in [Procs -> WaitStates]
         /\ rq' \in Seq(Procs)
         /\ time_slice' \in [Procs -> 0..MAX_TIME_SLICE]
  <1>1. CASE state[p] = "RUNNABLE"
    BY <1>1 DEF TypeOK, wakeup_proc
  <1>2. CASE state[p] # "RUNNABLE"
    <2>1. state' \in [Procs -> States] /\ wait_state' \in [Procs -> WaitStates]
      BY <1>2 DEF TypeOK, wakeup_proc, States, WaitStates
    <2>2. CASE p = current \/ p = idleproc
      BY <1>2, <2>1, <2>2 DEF TypeOK, wakeup_proc, enqueue
    <2>3. CASE p # current /\ p # idleproc
      <3>1. rq' = Append(rq, p) /\ time_slice' = [time_slice EXCEPT ![p] = Refill(time_slice[p])]
        BY <1>2, <2>3 DEF wakeup_proc, enqueue
      <3>2. Refill(time_slice[p]) \in 0..MAX_TIME_SLICE
        BY ProcAssumption DEF TypeOK, Refill
      <3> QED
        BY <2>1, <3>1, <3>2 DEF TypeOK
    <2> QED
      BY <2>2, <2>3
  <1> QED
    BY <1>1, <1>2

\* There are finitely many proc_structs, so nr_process can count them.
LEMMA FiniteProcs == IsFiniteSet(Procs) /\ IsFiniteSet(Live)
  <1>1. IsFiniteSet(UserProcs \cup {idleproc})
    BY ProcAssumption, FS_AddElement
  <1>2. IsFiniteSet((UserProcs \cup {idleproc}) \cup {initproc})
    BY <1>1, FS_AddElement
  <1>3. Procs = (UserProcs \cup {idleproc}) \cup {initproc}
    BY DEF Procs
  <1>4. IsFiniteSet(Procs)
    BY <1>2, <1>3
  <1> QED
    BY <1>4, FS_Subset DEF Live

\* do_fork fills in the new proc_struct with values of the right type.
LEMMA ForkType ==
  ASSUME TypeOK, NEW p \in Procs, NEW c \in Procs, NEW l \in PCs, NEW e \in PCs,
         do_fork(p, c, l, e)
  PROVE  TypeOK'
  <1>1. state' \in [Procs -> States] /\ wait_state' \in [Procs -> WaitStates]
    BY DEF TypeOK, do_fork, States, WaitStates
  <1>2. exiting' \in [Procs -> BOOLEAN] /\ need_resched' \in [Procs -> BOOLEAN]
    BY DEF TypeOK, do_fork
  <1>3. parent' \in [Procs -> Procs] /\ rq' \in Seq(Procs) /\ nr_process' \in Nat
    BY DEF TypeOK, do_fork
  <1>4. time_slice' \in [Procs -> 0..MAX_TIME_SLICE]
    BY ProcAssumption DEF TypeOK, do_fork, Refill
  <1>5. pc' \in [Procs -> PCs]
    BY DEF TypeOK, do_fork
  <1> QED
    BY <1>1, <1>2, <1>3, <1>4, <1>5 DEF TypeOK, do_fork

\* Every step keeps the types.  CountExact is needed for nr_process - 1 in
\* do_wait: the zombie that is freed was counted.
LEMMA TypeStep == TypeOK /\ CountExact /\ [Next]_vars => TypeOK'
  <1> SUFFICES ASSUME TypeOK, CountExact, [Next]_vars PROVE TypeOK'
    OBVIOUS
  <1> USE ProcAssumption DEF TypeOK, At, Goto, PCs, States, WaitStates, Unlinked
  <1>1. ASSUME NEW p \in Procs, Schedule(p) PROVE TypeOK'
    <2>1. ASSUME NEW l \in PCs, schedule(p, l) PROVE TypeOK'
      <3>1. idleproc \in Procs
        BY DEF Procs
      <3> DEFINE q == IF requeues(p) THEN Append(rq, p) ELSE rq
      <3>2. q \in Seq(Procs)
        OBVIOUS
      <3>3. current' = (IF q = <<>> THEN idleproc ELSE Head(q)) /\ rq' = (IF q = <<>> THEN q ELSE Tail(q))
        BY <2>1 DEF schedule
      <3>4. current' \in Procs /\ rq' \in Seq(Procs)
        <4> HIDE DEF q
        <4> QED BY <3>1, <3>2, <3>3
      <3>5. time_slice' \in [Procs -> 0..MAX_TIME_SLICE]
        BY <2>1 DEF schedule, Refill
      <3> QED
        BY <2>1, <3>4, <3>5 DEF schedule
    <2> QED
      BY <1>1, <2>1 DEF Schedule
  <1>2. ASSUME NEW p \in Procs, TrapRet(p) PROVE TypeOK'
    BY <1>2, KernelThreads DEF TrapRet
  <1>3. ASSUME NEW p \in Procs, ExitZombie(p) PROVE TypeOK'
    BY <1>3, KernelThreads DEF ExitZombie
  <1>4. ASSUME NEW p \in Procs, ExitNotify(p) PROVE TypeOK'
    BY <1>4, WakeupType DEF ExitNotify
  <1>5. ASSUME NEW p \in Procs, ExitOrphans(p) PROVE TypeOK'
    BY <1>5, WakeupType DEF ExitOrphans, Procs
  <1>6. ASSUME NEW p \in Procs, NEW c \in Procs, WaitReap(p, c) PROVE TypeOK'
    <2>1. nr_process - 1 \in Nat
      <3>1. c \in Live
        BY <1>6 DEF WaitReap, WaitedFor
      <3>3. Cardinality(Live) # 0 /\ Cardinality(Live) \in Nat
        BY <3>1, FiniteProcs, FS_EmptySet, FS_CardinalityType
      <3> QED BY <3>3 DEF CountExact
    <2>2. pc' \in [Procs -> PCs]
      BY <1>6 DEF WaitReap
    <2>3. state' \in [Procs -> States] /\ parent' \in [Procs -> Procs]
      BY <1>6 DEF WaitReap, Procs
    <2>4. exiting' \in [Procs -> BOOLEAN] /\ need_resched' \in [Procs -> BOOLEAN]
      BY <1>6 DEF WaitReap
    <2>5. waitpid' \in [Procs -> Procs \cup {AnyChild}]
      BY <1>6 DEF WaitReap
    <2>6. time_slice' \in [Procs -> 0..MAX_TIME_SLICE]
      <3>1. 0 \in 0..MAX_TIME_SLICE
        OBVIOUS
      <3> QED
        BY <1>6, <3>1 DEF WaitReap
    <2>7. nr_process' = nr_process - 1 /\ UNCHANGED <<wait_state, timer, rq, current, irq>>
      BY <1>6 DEF WaitReap
    <2> QED
      BY <2>1, <2>2, <2>3, <2>4, <2>5, <2>6, <2>7
  <1>7. ASSUME NEW p \in Procs, WaitSleep(p) PROVE TypeOK'
    BY <1>7, KernelThreads DEF WaitSleep
  <1>8. ASSUME NEW p \in Procs, WaitFail(p) PROVE TypeOK'
    BY <1>8, KernelThreads DEF WaitFail
  <1>9. ASSUME NEW p \in Procs, WaitWoken(p) PROVE TypeOK'
    BY <1>9, KernelThreads DEF WaitWoken
  <1>10. ASSUME NEW p \in Procs, SleepWoken(p) PROVE TypeOK'
    BY <1>10, KernelThreads DEF SleepWoken
  <1>11. ASSUME NEW p \in Procs, Execve(p) PROVE TypeOK'
    BY <1>11 DEF Execve
  <1>12. ASSUME NEW p \in Procs, OtherTrap(p) PROVE TypeOK'
    BY <1>12, KernelThreads DEF OtherTrap
  <1>13. ASSUME NEW p \in Procs, NEW c \in UserProcs, Fork(p, c) PROVE TypeOK'
    BY <1>13, ForkType DEF Fork, Procs, PCs
  <1>14. ASSUME NEW p \in Procs, ForkFail(p) PROVE TypeOK'
    BY <1>14, KernelThreads DEF ForkFail
  <1>15. ASSUME NEW p \in Procs, Exit(p) PROVE TypeOK'
    BY <1>15, KernelThreads DEF Exit
  <1>16. ASSUME NEW p \in Procs, NEW pid \in UserProcs \cup {initproc, AnyChild}, Wait(p, pid) PROVE TypeOK'
    <2>1. pid \in Procs \cup {AnyChild}
      BY DEF Procs
    <2>2. waitpid' \in [Procs -> Procs \cup {AnyChild}] /\ pc' \in [Procs -> PCs]
      BY <1>16, <2>1 DEF Wait
    <2> QED
      BY <1>16, <2>2 DEF Wait
  <1>17. ASSUME NEW p \in Procs, NEW time \in 1..MaxSleep, Sleep(p, time) PROVE TypeOK'
    BY <1>17, KernelThreads DEF Sleep
  <1>18. ASSUME NEW p \in Procs, Yield(p) PROVE TypeOK'
    BY <1>18, KernelThreads DEF Yield
  <1>19. ASSUME NEW p \in Procs, NEW q \in Killable, Kill(p, q) PROVE TypeOK'
    <2>1. q \in Procs
      BY DEF Procs
    <2> QED
      BY <1>19, <2>1, WakeupType DEF Kill
  <1>20. ASSUME NEW c \in UserProcs, InitFork(c) PROVE TypeOK'
    BY <1>20, ForkType, KernelThreads DEF InitFork, Procs, PCs
  <1>21. ASSUME InitForkFail PROVE TypeOK'
    BY <1>21, KernelThreads DEF InitForkFail
  <1>22. ASSUME InitDone PROVE TypeOK'
    BY <1>22, KernelThreads DEF InitDone
  <1>23. ASSUME TickBegin PROVE TypeOK'
    <2>1. \A p \in Procs : timer[p] \in -1..MaxSleep
      OBVIOUS
    <2>2. timer' \in [Procs -> -1..MaxSleep]
      BY <1>23, <2>1 DEF TickBegin
    <2> QED
      BY <1>23, <2>2 DEF TickBegin
  <1>24. ASSUME NEW p \in Procs, TickExpire(p) PROVE TypeOK'
    BY <1>24, WakeupType DEF TickExpire
  <1>25. ASSUME TickEnd PROVE TypeOK'
    <2>1. need_resched' \in [Procs -> BOOLEAN]
      BY <1>25 DEF TickEnd
    <2>2. time_slice' \in [Procs -> 0..MAX_TIME_SLICE]
      BY <1>25 DEF TickEnd, TickedSlice
    <2>3. pc' \in [Procs -> PCs]
      BY <1>25 DEF TickEnd
    <2>4. UNCHANGED <<state, wait_state, exiting, parent, waitpid, timer, rq, current, nr_process>> /\ irq' = FALSE
      BY <1>25 DEF TickEnd
    <2> QED
      BY <2>1, <2>2, <2>3, <2>4
  <1>26. CASE UNCHANGED vars
    BY <1>26 DEF vars
  <1> QED
    BY <1>1, <1>2, <1>3, <1>4, <1>5, <1>6, <1>7, <1>8, <1>9, <1>10, <1>11, <1>12, <1>13, <1>14, <1>15, <1>16, <1>17, <1>18, <1>19, <1>20, <1>21, <1>22, <1>23, <1>24, <1>25, <1>26
    DEF Next, KernelStep, UserStep, InitStep, TickStep, Halted

-------------------------------------------------------------------------------
(* Control                                                                 *)

\* What the invariant says of the running process.
LEMMA RunningAt ==
  ASSUME TypeOK, ControlInv, NEW p \in Procs, NEW l, At(p, l)
  PROVE  /\ Fits(p, l, state[p], wait_state[p], timer[p] # Unlinked, TRUE)
         /\ l \notin {"wait_sched", "sleep_sched", "exit_notify", "exit_orphans", "exit_sched"} =>
               state[p] = "RUNNABLE" /\ wait_state[p] = "none"
         /\ l \in {"wait_sched", "sleep_sched"} => state[p] = "SLEEPING"
         /\ l \in {"exit_notify", "exit_orphans", "exit_sched"} =>
               state[p] = "ZOMBIE" /\ wait_state[p] = "none" /\ p # initproc
         /\ l # "idle" => p # idleproc
         /\ l \in {"user", "trapret", "execve", "sleep_sched", "sleep_woken"} => p # initproc
  <1>1. Fits(p, l, state[p], wait_state[p], timer[p] # Unlinked, TRUE)
    BY DEF ControlInv, At
  <1>2. state[p] \in States /\ wait_state[p] \in WaitStates
    BY DEF TypeOK
  <1> QED
    BY <1>1, <1>2 DEF Fits, States, WaitStates

\* A step that touches only the running process.
LEMMA LocalControl ==
  ASSUME ControlInv, NEW p \in Procs, p = current, current' = current, irq' = FALSE,
         \A r \in Procs : r # p =>
            /\ pc'[r] = pc[r] /\ state'[r] = state[r]
            /\ wait_state'[r] = wait_state[r] /\ timer'[r] = timer[r],
         Fits(p, pc'[p], state'[p], wait_state'[p], timer'[p] # Unlinked, TRUE)
  PROVE  ControlInv'
  <1>1. ASSUME NEW r \in Procs
        PROVE  Fits(r, pc'[r], state'[r], wait_state'[r], timer'[r] # Unlinked, r = current')
    <2>1. CASE r = p
      BY <2>1
    <2>2. CASE r # p
      BY <2>2 DEF ControlInv
    <2> QED
      BY <2>1, <2>2
  <1> QED
    BY <1>1 DEF ControlInv

\* After wakeup_proc its process is RUNNABLE and waits for nothing, whatever it
\* was before; nobody else changes.
LEMMA WakeupEffect ==
  ASSUME TypeOK, ControlInv, NEW p \in Procs, wakeup_proc(p)
  PROVE  \A r \in Procs : /\ state'[r] = (IF r = p THEN "RUNNABLE" ELSE state[r])
                           /\ wait_state'[r] = (IF r = p THEN "none" ELSE wait_state[r])
  BY DEF TypeOK, ControlInv, Fits, wakeup_proc, WaitStates

\* do_fork puts the child at its entry point, runnable, and its parent back on
\* the way to user mode (or, for init_main, into do_wait).
LEMMA ForkControl ==
  ASSUME TypeOK, ControlInv, NEW p \in Procs, NEW c \in UserProcs, c \in Procs, NEW l, NEW e,
         p = current, ~irq, do_fork(p, c, l, e),
         state[p] = "RUNNABLE", p # idleproc,
         \/ p # initproc /\ l = "trapret"
         \/ p = initproc /\ l = "wait",
         e \in {"user", "execve"}
  PROVE  ControlInv'
  <1>1. irq' = FALSE
    BY DEF do_fork
  <1>2. ASSUME NEW r \in Procs
        PROVE  Fits(r, pc'[r], state'[r], wait_state'[r], timer'[r] # Unlinked, r = current')
    <2>1. c # p /\ c # current /\ c # initproc /\ c # idleproc
      BY ProcAssumption DEF do_fork
    <2>2. CASE r = c
      <3>1. pc'[r] = e /\ state'[r] = "RUNNABLE" /\ wait_state'[r] = "none" /\ r # current'
        BY <2>1, <2>2 DEF do_fork, TypeOK
      <3> QED
        BY <2>1, <2>2, <3>1 DEF Fits
    <2>3. CASE r = p
      <3>1. pc'[r] = l /\ state'[r] = "RUNNABLE" /\ wait_state'[r] = "none" /\ r = current'
        BY <2>1, <2>3 DEF do_fork, TypeOK
      <3> QED
        BY <2>1, <2>3, <3>1 DEF Fits
    <2>4. CASE r # c /\ r # p
      <3>1. /\ pc'[r] = pc[r] /\ state'[r] = state[r] /\ wait_state'[r] = wait_state[r]
            /\ timer' = timer /\ current' = current
        BY <2>1, <2>4 DEF do_fork, TypeOK
      <3> QED
        BY <3>1 DEF ControlInv
    <2> QED
      BY <2>2, <2>3, <2>4
  <1> QED
    BY <1>1, <1>2 DEF ControlInv


\* Every step keeps control and data of each process together.
LEMMA ControlStep == TypeOK /\ TypeOK' /\ ControlInv /\ RunQueueExact /\ TimerOnStack /\ [Next]_vars => ControlInv'
  <1> SUFFICES ASSUME TypeOK, TypeOK', ControlInv, RunQueueExact, TimerOnStack, [Next]_vars PROVE ControlInv'
    OBVIOUS
  <1>1. ASSUME NEW p \in Procs, Schedule(p) PROVE ControlInv'
    <2>1. ASSUME NEW l, schedule(p, l), p = current, ~irq,
                 Fits(p, l, state[p], wait_state[p], timer[p] # Unlinked, FALSE),
                 state[p] = "RUNNABLE" => Fits(p, l, state[p], wait_state[p], timer[p] # Unlinked, TRUE)
          PROVE  ControlInv'
      <3>1. /\ irq' = irq /\ timer' = timer /\ state' = state /\ wait_state' = wait_state
            /\ current' \in Procs
        BY <2>1 DEF schedule, TypeOK
      <3>2. \A r \in Procs : pc'[r] = IF r = p THEN l ELSE pc[r]
        BY <2>1 DEF schedule, TypeOK
      <3>3. state[idleproc] = "RUNNABLE"
        BY KernelThreads DEF States, WaitStates, ControlInv, Fits, TypeOK
      <3>4. state[current'] = "RUNNABLE"
        BY <2>1, <3>1, <3>3, ScheduleQueue DEF RunQueueExact, requeues
      <3>5. ASSUME NEW r \in Procs
            PROVE  Fits(r, pc'[r], state'[r], wait_state'[r], timer'[r] # Unlinked, r = current')
        <4>1. CASE r = p
          BY <2>1, <3>1, <3>2, <3>4, <4>1
        <4>2. CASE r # p
          BY <2>1, <3>1, <3>2, <3>4, <4>2 DEF ControlInv, Fits
        <4> QED
          BY <4>1, <4>2
      <3> QED
        BY <2>1, <3>1, <3>5 DEF ControlInv
    <2>2. PICK l : /\ At(p, l) /\ l \in {"idle", "trap_sched", "wait_sched", "sleep_sched", "exit_sched", "init_sched"}
                   /\ schedule(p, IF l = "idle" THEN "idle" ELSE IF l = "trap_sched" THEN "user"
                                  ELSE IF l = "wait_sched" THEN "wait_woken"
                                  ELSE IF l = "sleep_sched" THEN "sleep_woken"
                                  ELSE IF l = "exit_sched" THEN "dead" ELSE "wait")
      BY <1>1 DEF Schedule
    <2>3. Fits(p, l, state[p], wait_state[p], timer[p] # Unlinked, TRUE) /\ p = current /\ ~irq
          /\ (l \in {"wait_sched", "sleep_sched"} => state[p] = "SLEEPING")
          /\ (l \in {"idle", "trap_sched", "init_sched"} => state[p] = "RUNNABLE")
          /\ (l = "exit_sched" => state[p] = "ZOMBIE" /\ p # initproc)
      BY <2>2, RunningAt DEF At
    <2> QED
      BY <2>1, <2>2, <2>3 DEF Fits
  <1>2. ASSUME NEW p \in Procs, TrapRet(p) PROVE ControlInv'
    <2>1. /\ p = current /\ current' = current /\ irq' = FALSE
          /\ \A r \in Procs : r # p =>
                /\ pc'[r] = pc[r] /\ state'[r] = state[r]
                /\ wait_state'[r] = wait_state[r] /\ timer'[r] = timer[r]
      BY <1>2 DEF TrapRet, At, Goto, TypeOK
    <2>2. Fits(p, pc'[p], state'[p], wait_state'[p], timer'[p] # Unlinked, TRUE)
      BY <1>2, KernelThreads, ProcAssumption, RunningAt DEF TrapRet, At, Goto, TypeOK, Fits, Unlinked
    <2> QED
      BY KernelThreads, LocalControl, <2>1, <2>2
  <1>3. ASSUME NEW p \in Procs, ExitZombie(p) PROVE ControlInv'
    <2>1. /\ p = current /\ current' = current /\ irq' = FALSE
          /\ \A r \in Procs : r # p =>
                /\ pc'[r] = pc[r] /\ state'[r] = state[r]
                /\ wait_state'[r] = wait_state[r] /\ timer'[r] = timer[r]
      BY <1>3 DEF ExitZombie, At, Goto, TypeOK
    <2>2. Fits(p, pc'[p], state'[p], wait_state'[p], timer'[p] # Unlinked, TRUE)
      BY <1>3, KernelThreads, ProcAssumption, RunningAt DEF ExitZombie, At, Goto, TypeOK, Fits, Unlinked
    <2> QED
      BY KernelThreads, LocalControl, <2>1, <2>2
  <1>4. ASSUME NEW p \in Procs, ExitNotify(p) PROVE ControlInv'
    <2>1. /\ p = current /\ current' = current /\ irq' = FALSE /\ timer' = timer
          /\ \A r \in Procs : pc'[r] = IF r = p THEN "exit_orphans" ELSE pc[r]
      BY <1>4 DEF ExitNotify, At, Goto, TypeOK
    <2>2. state[p] = "ZOMBIE" /\ wait_state[p] = "none" /\ p # initproc /\ p # idleproc
      BY <1>4, RunningAt DEF ExitNotify
    <2>3. CASE wait_state[parent[p]] = "WT_CHILD"
      <3>1. parent[p] \in Procs /\ parent[p] # p
        BY <2>2, <2>3 DEF TypeOK
      <3>2. \A r \in Procs : /\ state'[r] = (IF r = parent[p] THEN "RUNNABLE" ELSE state[r])
                             /\ wait_state'[r] = (IF r = parent[p] THEN "none" ELSE wait_state[r])
        BY <1>4, <2>3, <3>1, WakeupEffect DEF ExitNotify
      <3> QED
        BY <2>1, <2>2, <2>3, <3>1, <3>2 DEF ControlInv, Fits
    <2>4. CASE wait_state[parent[p]] # "WT_CHILD"
      <3>1. state' = state /\ wait_state' = wait_state
        BY <1>4, <2>4 DEF ExitNotify
      <3> QED
        BY <2>1, <2>2, <3>1 DEF ControlInv, Fits
    <2> QED
      BY <2>3, <2>4
  <1>5. ASSUME NEW p \in Procs, ExitOrphans(p) PROVE ControlInv'
    <2>1. /\ p = current /\ current' = current /\ irq' = FALSE /\ timer' = timer
          /\ \A r \in Procs : pc'[r] = IF r = p THEN "exit_sched" ELSE pc[r]
      BY <1>5 DEF ExitOrphans, At, Goto, TypeOK
    <2>2. state[p] = "ZOMBIE" /\ wait_state[p] = "none" /\ p # initproc /\ p # idleproc
      BY <1>5, RunningAt DEF ExitOrphans
    <2>3. CASE wakeup_proc(initproc) /\ wait_state[initproc] = "WT_CHILD"
      <3>1. \A r \in Procs : /\ state'[r] = (IF r = initproc THEN "RUNNABLE" ELSE state[r])
                             /\ wait_state'[r] = (IF r = initproc THEN "none" ELSE wait_state[r])
        BY <2>3, KernelThreads, WakeupEffect
      <3> QED
        BY <2>1, <2>2, <2>3, <3>1 DEF ControlInv, Fits
    <2>4. CASE UNCHANGED <<state, wait_state>>
      BY <2>1, <2>2, <2>4 DEF ControlInv, Fits
    <2> QED
      BY <1>5, <2>3, <2>4 DEF ExitOrphans
  <1>6. ASSUME NEW p \in Procs, NEW c \in Procs, WaitReap(p, c) PROVE ControlInv'
    <2>1. /\ At(p, "wait") /\ irq' = FALSE /\ c # p /\ current' = p /\ p = current
          /\ state[c] = "ZOMBIE"
          /\ state[p] = "RUNNABLE" /\ wait_state[p] = "none" /\ p # idleproc
      <3>1. At(p, "wait") /\ irq' = FALSE /\ current' = p /\ p = current /\ state[c] = "ZOMBIE"
        BY <1>6 DEF WaitReap, At
      <3>2. state[p] = "RUNNABLE" /\ wait_state[p] = "none" /\ p # idleproc
        BY <3>1, RunningAt DEF At
      <3> QED
        BY <3>1, <3>2
    <2>2. ASSUME NEW r \in Procs
          PROVE  Fits(r, pc'[r], state'[r], wait_state'[r], timer'[r] # Unlinked, r = current')
      <3>1. CASE r = c
        <4>1. pc'[r] = "free" /\ state'[r] = "UNINIT" /\ wait_state'[r] = wait_state[r] /\ r # current'
          BY <1>6, <2>1, <3>1 DEF WaitReap, TypeOK
        <4>2. Fits(r, pc[r], "ZOMBIE", wait_state[r], timer[r] # Unlinked, FALSE)
          BY <2>1, <3>1 DEF ControlInv
        <4> QED
          BY <4>1, <4>2 DEF Fits
      <3>2. CASE r = p
        <4>1. /\ pc'[r] = (IF p # initproc THEN "trapret" ELSE "init_sched")
              /\ state'[r] = "RUNNABLE" /\ wait_state'[r] = "none"
          BY <1>6, <2>1, <3>2 DEF WaitReap, TypeOK
        <4> QED
          BY <2>1, <3>2, <4>1, ProcAssumption DEF Fits
      <3>3. CASE r # c /\ r # p
        <4>1. /\ pc'[r] = pc[r] /\ state'[r] = state[r]
              /\ UNCHANGED <<wait_state, timer, current>>
          BY <1>6, <3>3 DEF WaitReap, TypeOK
        <4> QED
          BY <4>1 DEF ControlInv
      <3> QED
        BY <3>1, <3>2, <3>3
    <2> QED
      BY <2>1, <2>2 DEF ControlInv
  <1>7. ASSUME NEW p \in Procs, WaitSleep(p) PROVE ControlInv'
    <2>1. /\ p = current /\ current' = current /\ irq' = FALSE
          /\ \A r \in Procs : r # p =>
                /\ pc'[r] = pc[r] /\ state'[r] = state[r]
                /\ wait_state'[r] = wait_state[r] /\ timer'[r] = timer[r]
      BY <1>7 DEF WaitSleep, At, Goto, TypeOK
    <2>2. Fits(p, pc'[p], state'[p], wait_state'[p], timer'[p] # Unlinked, TRUE)
      BY <1>7, KernelThreads, ProcAssumption, RunningAt DEF WaitSleep, At, Goto, TypeOK, Fits, Unlinked
    <2> QED
      BY KernelThreads, LocalControl, <2>1, <2>2
  <1>8. ASSUME NEW p \in Procs, WaitFail(p) PROVE ControlInv'
    <2>1. /\ p = current /\ current' = current /\ irq' = FALSE
          /\ \A r \in Procs : r # p =>
                /\ pc'[r] = pc[r] /\ state'[r] = state[r]
                /\ wait_state'[r] = wait_state[r] /\ timer'[r] = timer[r]
      BY <1>8 DEF WaitFail, At, Goto, TypeOK
    <2>2. Fits(p, pc'[p], state'[p], wait_state'[p], timer'[p] # Unlinked, TRUE)
      BY <1>8, KernelThreads, ProcAssumption, RunningAt DEF WaitFail, At, Goto, TypeOK, Fits, Unlinked
    <2> QED
      BY KernelThreads, LocalControl, <2>1, <2>2
  <1>9. ASSUME NEW p \in Procs, WaitWoken(p) PROVE ControlInv'
    <2>1. /\ p = current /\ current' = current /\ irq' = FALSE
          /\ \A r \in Procs : r # p =>
                /\ pc'[r] = pc[r] /\ state'[r] = state[r]
                /\ wait_state'[r] = wait_state[r] /\ timer'[r] = timer[r]
      BY <1>9 DEF WaitWoken, At, Goto, TypeOK
    <2>2. Fits(p, pc'[p], state'[p], wait_state'[p], timer'[p] # Unlinked, TRUE)
      BY <1>9, KernelThreads, ProcAssumption, RunningAt DEF WaitWoken, At, Goto, TypeOK, Fits, Unlinked
    <2> QED
      BY KernelThreads, LocalControl, <2>1, <2>2
  <1>10. ASSUME NEW p \in Procs, SleepWoken(p) PROVE ControlInv'
    <2>1. /\ p = current /\ current' = current /\ irq' = FALSE
          /\ \A r \in Procs : r # p =>
                /\ pc'[r] = pc[r] /\ state'[r] = state[r]
                /\ wait_state'[r] = wait_state[r] /\ timer'[r] = timer[r]
      BY <1>10 DEF SleepWoken, At, Goto, TypeOK
    <2>2. Fits(p, pc'[p], state'[p], wait_state'[p], timer'[p] # Unlinked, TRUE)
      BY <1>10, KernelThreads, ProcAssumption, RunningAt DEF SleepWoken, At, Goto, TypeOK, Fits, Unlinked
    <2> QED
      BY KernelThreads, LocalControl, <2>1, <2>2
  <1>11. ASSUME NEW p \in Procs, Execve(p) PROVE ControlInv'
    <2>1. /\ p = current /\ current' = current /\ irq' = FALSE
          /\ \A r \in Procs : r # p =>
                /\ pc'[r] = pc[r] /\ state'[r] = state[r]
                /\ wait_state'[r] = wait_state[r] /\ timer'[r] = timer[r]
      BY <1>11 DEF Execve, At, Goto, TypeOK
    <2>2. Fits(p, pc'[p], state'[p], wait_state'[p], timer'[p] # Unlinked, TRUE)
      BY <1>11, KernelThreads, ProcAssumption, RunningAt DEF Execve, At, Goto, TypeOK, Fits, Unlinked
    <2> QED
      BY KernelThreads, LocalControl, <2>1, <2>2
  <1>12. ASSUME NEW p \in Procs, OtherTrap(p) PROVE ControlInv'
    <2>1. /\ p = current /\ current' = current /\ irq' = FALSE
          /\ \A r \in Procs : r # p =>
                /\ pc'[r] = pc[r] /\ state'[r] = state[r]
                /\ wait_state'[r] = wait_state[r] /\ timer'[r] = timer[r]
      BY <1>12 DEF OtherTrap, At, Goto, TypeOK
    <2>2. Fits(p, pc'[p], state'[p], wait_state'[p], timer'[p] # Unlinked, TRUE)
      BY <1>12, KernelThreads, ProcAssumption, RunningAt DEF OtherTrap, At, Goto, TypeOK, Fits, Unlinked
    <2> QED
      BY KernelThreads, LocalControl, <2>1, <2>2
  <1>13. ASSUME NEW p \in Procs, NEW c \in UserProcs, Fork(p, c) PROVE ControlInv'
    <2>1. c \in Procs
      BY DEF Procs
    <2>2. At(p, "user") /\ do_fork(p, c, "trapret", "user")
      BY <1>13 DEF Fork
    <2> QED
      BY <2>1, <2>2, ForkControl, RunningAt DEF At
  <1>14. ASSUME NEW p \in Procs, ForkFail(p) PROVE ControlInv'
    <2>1. /\ p = current /\ current' = current /\ irq' = FALSE
          /\ \A r \in Procs : r # p =>
                /\ pc'[r] = pc[r] /\ state'[r] = state[r]
                /\ wait_state'[r] = wait_state[r] /\ timer'[r] = timer[r]
      BY <1>14 DEF ForkFail, At, Goto, TypeOK
    <2>2. Fits(p, pc'[p], state'[p], wait_state'[p], timer'[p] # Unlinked, TRUE)
      BY <1>14, KernelThreads, ProcAssumption, RunningAt DEF ForkFail, At, Goto, TypeOK, Fits, Unlinked
    <2> QED
      BY KernelThreads, LocalControl, <2>1, <2>2
  <1>15. ASSUME NEW p \in Procs, Exit(p) PROVE ControlInv'
    <2>1. /\ p = current /\ current' = current /\ irq' = FALSE
          /\ \A r \in Procs : r # p =>
                /\ pc'[r] = pc[r] /\ state'[r] = state[r]
                /\ wait_state'[r] = wait_state[r] /\ timer'[r] = timer[r]
      BY <1>15 DEF Exit, At, Goto, TypeOK
    <2>2. Fits(p, pc'[p], state'[p], wait_state'[p], timer'[p] # Unlinked, TRUE)
      BY <1>15, KernelThreads, ProcAssumption, RunningAt DEF Exit, At, Goto, TypeOK, Fits, Unlinked
    <2> QED
      BY KernelThreads, LocalControl, <2>1, <2>2
  <1>16. ASSUME NEW p \in Procs, NEW pid \in UserProcs \cup {initproc, AnyChild}, Wait(p, pid) PROVE ControlInv'
    <2>1. /\ p = current /\ current' = current /\ irq' = FALSE
          /\ \A r \in Procs : r # p =>
                /\ pc'[r] = pc[r] /\ state'[r] = state[r]
                /\ wait_state'[r] = wait_state[r] /\ timer'[r] = timer[r]
      BY <1>16 DEF Wait, At, Goto, TypeOK
    <2>2. Fits(p, pc'[p], state'[p], wait_state'[p], timer'[p] # Unlinked, TRUE)
      BY <1>16, KernelThreads, ProcAssumption, RunningAt DEF Wait, At, Goto, TypeOK, Fits, Unlinked
    <2> QED
      BY KernelThreads, LocalControl, <2>1, <2>2
  <1>17. ASSUME NEW p \in Procs, NEW time \in 1..MaxSleep, Sleep(p, time) PROVE ControlInv'
    <2>1. /\ p = current /\ current' = current /\ irq' = FALSE
          /\ \A r \in Procs : r # p =>
                /\ pc'[r] = pc[r] /\ state'[r] = state[r]
                /\ wait_state'[r] = wait_state[r] /\ timer'[r] = timer[r]
      BY <1>17 DEF Sleep, At, Goto, TypeOK
    <2>2. Fits(p, pc'[p], state'[p], wait_state'[p], timer'[p] # Unlinked, TRUE)
      BY <1>17, KernelThreads, ProcAssumption, RunningAt DEF Sleep, At, Goto, TypeOK, Fits, Unlinked
    <2> QED
      BY KernelThreads, LocalControl, <2>1, <2>2
  <1>18. ASSUME NEW p \in Procs, Yield(p) PROVE ControlInv'
    <2>1. /\ p = current /\ current' = current /\ irq' = FALSE
          /\ \A r \in Procs : r # p =>
                /\ pc'[r] = pc[r] /\ state'[r] = state[r]
                /\ wait_state'[r] = wait_state[r] /\ timer'[r] = timer[r]
      BY <1>18 DEF Yield, At, Goto, TypeOK
    <2>2. Fits(p, pc'[p], state'[p], wait_state'[p], timer'[p] # Unlinked, TRUE)
      BY <1>18, KernelThreads, ProcAssumption, RunningAt DEF Yield, At, Goto, TypeOK, Fits, Unlinked
    <2> QED
      BY KernelThreads, LocalControl, <2>1, <2>2
  <1>19. ASSUME NEW p \in Procs, NEW q \in Killable, Kill(p, q) PROVE ControlInv'
    <2>1. /\ At(p, "user") /\ p = current /\ current' = current /\ irq' = FALSE /\ timer' = timer
          /\ \A r \in Procs : pc'[r] = IF r = p THEN "trapret" ELSE pc[r]
      BY <1>19 DEF Kill, At, Goto, TypeOK
    <2>2. /\ state[p] = "RUNNABLE" /\ wait_state[p] = "none" /\ p # initproc /\ p # idleproc
          /\ q \in Procs
      <3>1. q \in Procs
        BY ProcAssumption DEF Procs
      <3> QED
        BY <2>1, <3>1, RunningAt DEF At
    <2>3. CASE wakeup_proc(q) /\ wait_state[q] \in {"WT_CHILD", "WT_TIMER"}
      <3>1. \A r \in Procs : /\ state'[r] = (IF r = q THEN "RUNNABLE" ELSE state[r])
                             /\ wait_state'[r] = (IF r = q THEN "none" ELSE wait_state[r])
        BY <2>2, <2>3, WakeupEffect
      <3> QED
        BY <2>1, <2>2, <2>3, <3>1 DEF ControlInv, Fits
    <2>4. CASE UNCHANGED <<state, wait_state>>
      BY <2>1, <2>2, <2>4 DEF ControlInv, Fits
    <2> QED
      BY <1>19, <2>3, <2>4 DEF Kill, kill_wakes
  <1>20. ASSUME NEW c \in UserProcs, InitFork(c) PROVE ControlInv'
    <2>1. c \in Procs
      BY DEF Procs
    <2>2. At(initproc, "init_fork") /\ do_fork(initproc, c, "wait", "execve")
      BY <1>20 DEF InitFork
    <2> QED
      BY <2>1, <2>2, KernelThreads, ForkControl, RunningAt DEF At
  <1>21. ASSUME InitForkFail PROVE ControlInv'
    <2>1. /\ initproc = current /\ current' = current /\ irq' = FALSE
          /\ \A r \in Procs : r # initproc =>
                /\ pc'[r] = pc[r] /\ state'[r] = state[r]
                /\ wait_state'[r] = wait_state[r] /\ timer'[r] = timer[r]
      BY <1>21 DEF InitForkFail, At, Goto, TypeOK
    <2>2. Fits(initproc, pc'[initproc], state'[initproc], wait_state'[initproc], timer'[initproc] # Unlinked, TRUE)
      BY <1>21, KernelThreads, ProcAssumption, RunningAt DEF InitForkFail, At, Goto, TypeOK, Fits, Unlinked
    <2> QED
      BY KernelThreads, LocalControl, <2>1, <2>2
  <1>22. ASSUME InitDone PROVE ControlInv'
    <2>1. /\ initproc = current /\ current' = current /\ irq' = FALSE
          /\ \A r \in Procs : r # initproc =>
                /\ pc'[r] = pc[r] /\ state'[r] = state[r]
                /\ wait_state'[r] = wait_state[r] /\ timer'[r] = timer[r]
      BY <1>22 DEF InitDone, At, Goto, TypeOK
    <2>2. Fits(initproc, pc'[initproc], state'[initproc], wait_state'[initproc], timer'[initproc] # Unlinked, TRUE)
      BY <1>22, KernelThreads, ProcAssumption, RunningAt DEF InitDone, At, Goto, TypeOK, Fits, Unlinked
    <2> QED
      BY KernelThreads, LocalControl, <2>1, <2>2
  <1>23. ASSUME TickBegin PROVE ControlInv'
    <2>1. UNCHANGED <<state, wait_state, current, pc>> /\ IntrOn
      BY <1>23 DEF TickBegin
    <2>2. \A r \in Procs : (timer'[r] # Unlinked) <=> (timer[r] # Unlinked)
      BY <1>23 DEF TickBegin, TypeOK, Unlinked
    <2> QED
      BY <2>1, <2>2 DEF ControlInv, IntrOn, Fits
  <1>24. ASSUME NEW p \in Procs, TickExpire(p) PROVE ControlInv'
    <2>1. \A r \in Procs : /\ state'[r] = (IF r = p THEN "RUNNABLE" ELSE state[r])
                           /\ wait_state'[r] = (IF r = p THEN "none" ELSE wait_state[r])
      BY <1>24, WakeupEffect DEF TickExpire
    <2>2. pc' = pc /\ current' = current /\ irq' = irq /\ irq
      BY <1>24 DEF TickExpire
    <2>3. pc[p] \in {"sleep_sched", "sleep_woken"}
      BY <1>24 DEF TickExpire, TimerOnStack, Unlinked
    <2>4. \A r \in Procs : r # p => timer'[r] = timer[r]
      BY <1>24 DEF TickExpire, TypeOK
    <2>5. IntrOn
      BY <2>2 DEF ControlInv
    <2>6. p # current
      BY <2>3, <2>5, KernelThreads DEF IntrOn, ControlInv, Fits
    <2>7. ASSUME NEW r \in Procs
          PROVE  Fits(r, pc'[r], state'[r], wait_state'[r], timer'[r] # Unlinked, r = current')
      <3>1. CASE r = p
        BY <2>1, <2>2, <2>3, <2>6, <3>1 DEF ControlInv, Fits
      <3>2. CASE r # p
        BY <2>1, <2>2, <2>4, <3>2 DEF ControlInv
      <3> QED
        BY <3>1, <3>2
    <2> QED
      BY <2>2, <2>5, <2>7 DEF ControlInv, IntrOn
  <1>25. ASSUME TickEnd PROVE ControlInv'
    <2>1. UNCHANGED <<state, wait_state, timer, current>> /\ irq' = FALSE /\ irq
      BY <1>25 DEF TickEnd
    <2>2. \A r \in Procs : pc'[r] = IF r = current /\ pc[r] = "user" THEN "trapret" ELSE pc[r]
      BY <1>25 DEF TickEnd, TypeOK
    <2>3. ASSUME NEW r \in Procs
          PROVE  Fits(r, pc'[r], state'[r], wait_state'[r], timer'[r] # Unlinked, r = current')
      <3>1. Fits(r, pc[r], state[r], wait_state[r], timer[r] # Unlinked, r = current)
        BY DEF ControlInv
      <3>2. CASE r = current /\ pc[r] = "user"
        <4>1. pc'[r] = "trapret" /\ r # initproc
          BY <2>2, <3>1, <3>2 DEF Fits
        <4> QED
          BY <2>1, <3>1, <3>2, <4>1 DEF Fits
      <3>3. CASE ~(r = current /\ pc[r] = "user")
        BY <2>1, <2>2, <3>1, <3>3
      <3> QED
        BY <3>2, <3>3
    <2> QED
      BY <2>1, <2>3 DEF ControlInv
  <1>26. CASE UNCHANGED vars
    BY <1>26 DEF vars, ControlInv, IntrOn
  <1> QED
    BY <1>1, <1>2, <1>3, <1>4, <1>5, <1>6, <1>7, <1>8, <1>9, <1>10, <1>11, <1>12, <1>13, <1>14, <1>15, <1>16, <1>17, <1>18, <1>19, <1>20, <1>21, <1>22, <1>23, <1>24, <1>25, <1>26
    DEF Next, KernelStep, UserStep, InitStep, TickStep, Halted

-------------------------------------------------------------------------------
(* Wakeups                                                                 *)

\* The effect of the three steps that may wake one sleeper.
LEMMA NotifyEffect ==
  ASSUME TypeOK, ControlInv, NEW p \in Procs, ExitNotify(p)
  PROVE  \A r \in Procs :
            \/ state'[r] = state[r] /\ wait_state'[r] = wait_state[r] /\ (r = parent[p] => wait_state[r] # "WT_CHILD")
            \/ /\ r = parent[p] /\ wait_state[r] = "WT_CHILD"
               /\ state'[r] = "RUNNABLE" /\ wait_state'[r] = "none"
  <1>1. parent[p] \in Procs
    BY DEF TypeOK
  <1>2. CASE wait_state[parent[p]] = "WT_CHILD"
    BY <1>1, <1>2, WakeupEffect DEF ExitNotify
  <1>3. CASE wait_state[parent[p]] # "WT_CHILD"
    BY <1>3 DEF ExitNotify
  <1> QED
    BY <1>2, <1>3

\* When do_exit hands its children over, initproc is the only one it may wake.
LEMMA OrphansEffect ==
  ASSUME TypeOK, ControlInv, NEW p \in Procs, ExitOrphans(p)
  PROVE  \A r \in Procs :
            \/ state'[r] = state[r] /\ wait_state'[r] = wait_state[r]
            \/ /\ r = initproc /\ wait_state[r] = "WT_CHILD"
               /\ state'[r] = "RUNNABLE" /\ wait_state'[r] = "none"
  <1>1. CASE wakeup_proc(initproc) /\ wait_state[initproc] = "WT_CHILD"
    BY <1>1, KernelThreads, WakeupEffect
  <1>2. CASE UNCHANGED <<state, wait_state>>
    BY <1>2
  <1> QED
    BY <1>1, <1>2 DEF ExitOrphans

\* do_kill wakes its target only out of an interruptible sleep.
LEMMA KillEffect ==
  ASSUME TypeOK, ControlInv, NEW p \in Procs, NEW q \in Killable, Kill(p, q)
  PROVE  \A r \in Procs :
            \/ state'[r] = state[r] /\ wait_state'[r] = wait_state[r]
            \/ /\ r = q /\ state[r] = "SLEEPING"
               /\ state'[r] = "RUNNABLE" /\ wait_state'[r] = "none"
  <1>1. q \in Procs
    BY ProcAssumption DEF Procs
  <1>2. CASE wakeup_proc(q) /\ kill_wakes(q)
    <2>1. state[q] = "SLEEPING"
      BY <1>1, <1>2 DEF kill_wakes, ControlInv, Fits
    <2> QED
      BY <1>1, <1>2, <2>1, WakeupEffect
  <1>3. CASE UNCHANGED <<state, wait_state>>
    BY <1>3
  <1> QED
    BY <1>2, <1>3 DEF Kill

\* wakeup_proc queues a process exactly when it becomes runnable and is not the
\* running one.
LEMMA WakeupQueue ==
  ASSUME TypeOK, ControlInv, RunQueueExact, NEW p \in Procs, wakeup_proc(p), current' = current
  PROVE  RunQueueExact'
  <1>0. state[idleproc] = "RUNNABLE"
    BY KernelThreads DEF States, WaitStates, ControlInv, Fits, TypeOK
  <1>1. CASE state[p] = "RUNNABLE"
    BY <1>1 DEF wakeup_proc, RunQueueExact, InQueue
  <1>2. CASE state[p] # "RUNNABLE" /\ p = current
    BY <1>2 DEF wakeup_proc, RunQueueExact, InQueue, TypeOK
  <1>3. CASE state[p] # "RUNNABLE" /\ p # current
    <2>1. rq' = Append(rq, p) /\ ~Member(rq, p) /\ p # idleproc
      BY <1>0, <1>3 DEF wakeup_proc, enqueue, RunQueueExact, InQueue
    <2>2. Distinct(rq') /\ \A y : Member(rq', y) <=> Member(rq, y) \/ y = p
      BY <2>1, AppendMember, AppendDistinct DEF TypeOK, RunQueueExact
    <2>3. \A r \in Procs : state'[r] = (IF r = p THEN "RUNNABLE" ELSE state[r])
      BY WakeupEffect
    <2> QED
      BY <1>3, <2>1, <2>2, <2>3 DEF RunQueueExact, InQueue
  <1> QED
    BY <1>1, <1>2, <1>3

\* do_fork queues the child it makes runnable, which was not queued.
LEMMA ForkQueue ==
  ASSUME TypeOK, RunQueueExact, NEW p \in Procs, NEW c \in UserProcs, NEW l, NEW e,
         p = current, state[p] # "UNINIT", do_fork(p, c, l, e)
  PROVE  RunQueueExact'
  <1>1. c \in Procs /\ c # current /\ c # idleproc /\ current' = current
    BY ProcAssumption DEF do_fork, Procs
  <1>2. rq' = Append(rq, c) /\ ~Member(rq, c)
    BY <1>1 DEF do_fork, RunQueueExact, InQueue
  <1>3. Distinct(rq') /\ \A y : Member(rq', y) <=> Member(rq, y) \/ y = c
    BY <1>1, <1>2, AppendMember, AppendDistinct DEF TypeOK, RunQueueExact
  <1>4. \A r \in Procs : state'[r] = (IF r = c THEN "RUNNABLE" ELSE state[r])
    BY <1>1 DEF do_fork, TypeOK
  <1> QED
    BY <1>1, <1>3, <1>4 DEF RunQueueExact, InQueue

-------------------------------------------------------------------------------
(* The run queue                                                           *)

\* Every step keeps the run queue exact.
LEMMA QueueStep == TypeOK /\ ControlInv /\ RunQueueExact /\ [Next]_vars => RunQueueExact'
  <1> SUFFICES ASSUME TypeOK, ControlInv, RunQueueExact, [Next]_vars PROVE RunQueueExact'
    OBVIOUS
  <1>1. ASSUME NEW p \in Procs, Schedule(p) PROVE RunQueueExact'
    <2>1. PICK l : schedule(p, l)
      BY <1>1 DEF Schedule
    <2>2. p = current /\ state' = state
      BY <1>1, <2>1 DEF Schedule, schedule, At
    <2>3. /\ Distinct(rq')
          /\ \A y : Member(rq', y) <=> (InQueue(y) \/ (y = p /\ requeues(p))) /\ y # current'
          /\ current' # idleproc => InQueue(current') \/ (current' = p /\ requeues(p))
      BY <2>1, <2>2, ScheduleQueue
    <2> QED
      BY <2>2, <2>3 DEF RunQueueExact, InQueue, requeues
  <1>2. ASSUME NEW p \in Procs, TrapRet(p) PROVE RunQueueExact'
    BY <1>2, ProcAssumption, KernelThreads
    DEF TrapRet, TypeOK, At, Goto, RunQueueExact, InQueue, ControlInv, Fits
  <1>3. ASSUME NEW p \in Procs, ExitZombie(p) PROVE RunQueueExact'
    BY <1>3, ProcAssumption, KernelThreads
    DEF ExitZombie, TypeOK, At, Goto, RunQueueExact, InQueue, ControlInv, Fits
  <1>4. ASSUME NEW p \in Procs, ExitNotify(p) PROVE RunQueueExact'
    <2>1. current' = current
      BY <1>4 DEF ExitNotify
    <2>2. CASE UNCHANGED <<state, rq>>
      BY <2>1, <2>2 DEF RunQueueExact, InQueue
    <2>3. CASE \E r \in Procs : wakeup_proc(r)
      BY <2>1, <2>3, WakeupQueue
    <2> QED
      BY <1>4, <2>2, <2>3, KernelThreads, ProcAssumption DEF ExitNotify, TypeOK, Procs
  <1>5. ASSUME NEW p \in Procs, ExitOrphans(p) PROVE RunQueueExact'
    <2>1. current' = current
      BY <1>5 DEF ExitOrphans
    <2>2. CASE UNCHANGED <<state, rq>>
      BY <2>1, <2>2 DEF RunQueueExact, InQueue
    <2>3. CASE \E r \in Procs : wakeup_proc(r)
      BY <2>1, <2>3, WakeupQueue
    <2> QED
      BY <1>5, <2>2, <2>3, KernelThreads, ProcAssumption DEF ExitOrphans, TypeOK, Procs
  <1>6. ASSUME NEW p \in Procs, NEW c \in Procs, WaitReap(p, c) PROVE RunQueueExact'
    BY <1>6, ProcAssumption, KernelThreads
    DEF WaitReap, TypeOK, At, Goto, RunQueueExact, InQueue, ControlInv, Fits
  <1>7. ASSUME NEW p \in Procs, WaitSleep(p) PROVE RunQueueExact'
    BY <1>7, ProcAssumption, KernelThreads
    DEF WaitSleep, TypeOK, At, Goto, RunQueueExact, InQueue, ControlInv, Fits
  <1>8. ASSUME NEW p \in Procs, WaitFail(p) PROVE RunQueueExact'
    BY <1>8, ProcAssumption, KernelThreads
    DEF WaitFail, TypeOK, At, Goto, RunQueueExact, InQueue, ControlInv, Fits
  <1>9. ASSUME NEW p \in Procs, WaitWoken(p) PROVE RunQueueExact'
    BY <1>9, ProcAssumption, KernelThreads
    DEF WaitWoken, TypeOK, At, Goto, RunQueueExact, InQueue, ControlInv, Fits
  <1>10. ASSUME NEW p \in Procs, SleepWoken(p) PROVE RunQueueExact'
    BY <1>10, ProcAssumption, KernelThreads
    DEF SleepWoken, TypeOK, At, Goto, RunQueueExact, InQueue, ControlInv, Fits
  <1>11. ASSUME NEW p \in Procs, Execve(p) PROVE RunQueueExact'
    BY <1>11, ProcAssumption, KernelThreads
    DEF Execve, TypeOK, At, Goto, RunQueueExact, InQueue, ControlInv, Fits
  <1>12. ASSUME NEW p \in Procs, OtherTrap(p) PROVE RunQueueExact'
    BY <1>12, ProcAssumption, KernelThreads
    DEF OtherTrap, TypeOK, At, Goto, RunQueueExact, InQueue, ControlInv, Fits
  <1>13. ASSUME NEW p \in Procs, NEW c \in UserProcs, Fork(p, c) PROVE RunQueueExact'
    BY <1>13, ForkQueue, RunningAt DEF Fork, At
  <1>14. ASSUME NEW p \in Procs, ForkFail(p) PROVE RunQueueExact'
    BY <1>14, ProcAssumption, KernelThreads
    DEF ForkFail, TypeOK, At, Goto, RunQueueExact, InQueue, ControlInv, Fits
  <1>15. ASSUME NEW p \in Procs, Exit(p) PROVE RunQueueExact'
    BY <1>15, ProcAssumption, KernelThreads
    DEF Exit, TypeOK, At, Goto, RunQueueExact, InQueue, ControlInv, Fits
  <1>16. ASSUME NEW p \in Procs, NEW pid \in UserProcs \cup {initproc, AnyChild}, Wait(p, pid) PROVE RunQueueExact'
    BY <1>16, ProcAssumption, KernelThreads
    DEF Wait, TypeOK, At, Goto, RunQueueExact, InQueue, ControlInv, Fits
  <1>17. ASSUME NEW p \in Procs, NEW time \in 1..MaxSleep, Sleep(p, time) PROVE RunQueueExact'
    BY <1>17, ProcAssumption, KernelThreads
    DEF Sleep, TypeOK, At, Goto, RunQueueExact, InQueue, ControlInv, Fits
  <1>18. ASSUME NEW p \in Procs, Yield(p) PROVE RunQueueExact'
    BY <1>18, ProcAssumption, KernelThreads
    DEF Yield, TypeOK, At, Goto, RunQueueExact, InQueue, ControlInv, Fits
  <1>19. ASSUME NEW p \in Procs, NEW q \in Killable, Kill(p, q) PROVE RunQueueExact'
    <2>1. current' = current
      BY <1>19 DEF Kill
    <2>2. CASE UNCHANGED <<state, rq>>
      BY <2>1, <2>2 DEF RunQueueExact, InQueue
    <2>3. CASE \E r \in Procs : wakeup_proc(r)
      BY <2>1, <2>3, WakeupQueue
    <2> QED
      BY <1>19, <2>2, <2>3, KernelThreads, ProcAssumption DEF Kill, TypeOK, Procs
  <1>20. ASSUME NEW c \in UserProcs, InitFork(c) PROVE RunQueueExact'
    BY <1>20, ForkQueue, RunningAt, KernelThreads DEF InitFork, At
  <1>21. ASSUME InitForkFail PROVE RunQueueExact'
    BY <1>21, ProcAssumption, KernelThreads
    DEF InitForkFail, TypeOK, At, Goto, RunQueueExact, InQueue, ControlInv, Fits
  <1>22. ASSUME InitDone PROVE RunQueueExact'
    BY <1>22, ProcAssumption, KernelThreads
    DEF InitDone, TypeOK, At, Goto, RunQueueExact, InQueue, ControlInv, Fits
  <1>23. ASSUME TickBegin PROVE RunQueueExact'
    BY <1>23, ProcAssumption, KernelThreads
    DEF TickBegin, TypeOK, At, Goto, RunQueueExact, InQueue, ControlInv, Fits
  <1>24. ASSUME NEW p \in Procs, TickExpire(p) PROVE RunQueueExact'
    <2>1. current' = current
      BY <1>24 DEF TickExpire
    <2>2. CASE UNCHANGED <<state, rq>>
      BY <2>1, <2>2 DEF RunQueueExact, InQueue
    <2>3. CASE \E r \in Procs : wakeup_proc(r)
      BY <2>1, <2>3, WakeupQueue
    <2> QED
      BY <1>24, <2>2, <2>3, KernelThreads, ProcAssumption DEF TickExpire, TypeOK, Procs
  <1>25. ASSUME TickEnd PROVE RunQueueExact'
    BY <1>25, ProcAssumption, KernelThreads
    DEF TickEnd, TypeOK, At, Goto, RunQueueExact, InQueue, ControlInv, Fits
  <1>26. CASE UNCHANGED vars
    BY <1>26 DEF vars, TypeOK, At, Goto, RunQueueExact, InQueue, ControlInv, Fits
  <1> QED
    BY <1>1, <1>2, <1>3, <1>4, <1>5, <1>6, <1>7, <1>8, <1>9, <1>10, <1>11, <1>12, <1>13, <1>14, <1>15, <1>16, <1>17, <1>18, <1>19, <1>20, <1>21, <1>22, <1>23, <1>24, <1>25, <1>26
    DEF Next, KernelStep, UserStep, InitStep, TickStep, Halted

-------------------------------------------------------------------------------
(* Timers                                                                  *)

\* Every step keeps the timers of do_sleep on live stacks.
LEMMA TimerStep == TypeOK /\ ControlInv /\ TimerInv /\ [Next]_vars => TimerInv'
  <1> SUFFICES ASSUME TypeOK, ControlInv, TimerInv, [Next]_vars PROVE TimerInv'
    OBVIOUS
  <1>1. ASSUME NEW p \in Procs, Schedule(p) PROVE TimerInv'
    <2>1. UNCHANGED <<state, exiting, timer, irq>>
      BY <1>1 DEF Schedule, schedule
    <2>2. \A r \in Procs : \/ pc'[r] = pc[r]
                           \/ pc[r] \notin {"sleep_sched", "sleep_woken"} /\ pc'[r] # "sleep_woken"
                           \/ pc[r] = "sleep_sched" /\ pc'[r] = "sleep_woken"
      BY <1>1 DEF Schedule, schedule, At, TypeOK
    <2>3. \A r \in Procs : pc[r] = "sleep_sched" => state[r] = "SLEEPING" /\ timer[r] # Unlinked
      BY DEF ControlInv, Fits, TypeOK, WaitStates
    <2> QED
      BY <2>1, <2>2, <2>3 DEF TimerInv, TimerOnStack, SleepNotCutShort, NoStaleTimer
  <1>2. ASSUME NEW p \in Procs, TrapRet(p) PROVE TimerInv'
    BY <1>2, ProcAssumption, KernelThreads
    DEF TrapRet, TypeOK, At, Goto, Unlinked, TimerInv, TimerOnStack, SleepNotCutShort, NoStaleTimer, ControlInv, Fits
  <1>3. ASSUME NEW p \in Procs, ExitZombie(p) PROVE TimerInv'
    <2>1. UNCHANGED <<exiting, timer, irq>> /\ pc[p] = "exit"
      BY <1>3 DEF ExitZombie, At
    <2>2. \A r \in Procs : r # p => pc'[r] = pc[r] /\ state'[r] = state[r]
      BY <1>3 DEF ExitZombie, Goto, TypeOK
    <2>3. pc'[p] \in {"panic", "exit_notify"}
      BY <1>3 DEF ExitZombie, Goto, TypeOK
    <2> QED
      BY <2>1, <2>2, <2>3 DEF TimerInv, TimerOnStack, SleepNotCutShort, NoStaleTimer
  <1>4. ASSUME NEW p \in Procs, ExitNotify(p) PROVE TimerInv'
    <2>1. UNCHANGED <<timer, irq, exiting>> /\ pc[p] = "exit_notify"
          /\ \A r \in Procs : pc'[r] = IF r = p THEN "exit_orphans" ELSE pc[r]
      BY <1>4 DEF ExitNotify, At, Goto, TypeOK
    <2>2. \A r \in Procs : pc[r] = "sleep_woken" => wait_state[r] # "WT_CHILD"
      BY DEF ControlInv, Fits
    <2> QED
      BY <1>4, <2>1, <2>2, NotifyEffect DEF TimerInv, TimerOnStack, SleepNotCutShort, NoStaleTimer
  <1>5. ASSUME NEW p \in Procs, ExitOrphans(p) PROVE TimerInv'
    <2>1. UNCHANGED <<timer, irq, exiting>> /\ pc[p] = "exit_orphans"
          /\ \A r \in Procs : pc'[r] = IF r = p THEN "exit_sched" ELSE pc[r]
      BY <1>5 DEF ExitOrphans, At, Goto, TypeOK
    <2>2. \A r \in Procs : pc[r] = "sleep_woken" => wait_state[r] # "WT_CHILD"
      BY DEF ControlInv, Fits
    <2>3. \A r \in Procs : pc[r] = "sleep_woken" => state'[r] = state[r]
      BY <1>5, <2>2, OrphansEffect
    <2> QED
      BY <2>1, <2>3 DEF TimerInv, TimerOnStack, SleepNotCutShort, NoStaleTimer
  <1>6. ASSUME NEW p \in Procs, NEW c \in Procs, WaitReap(p, c) PROVE TimerInv'
    <2>1. UNCHANGED <<timer, irq>> /\ pc[p] = "wait" /\ state[c] = "ZOMBIE"
      BY <1>6 DEF WaitReap, At
    <2>2. pc[c] \notin {"sleep_sched", "sleep_woken"}
      BY <2>1 DEF ControlInv, Fits
    <2>3. /\ \A r \in Procs : r # p /\ r # c => pc'[r] = pc[r] /\ state'[r] = state[r] /\ exiting'[r] = exiting[r]
          /\ pc'[p] \notin {"sleep_sched", "sleep_woken"} /\ pc'[c] \notin {"sleep_sched", "sleep_woken"}
      BY <1>6, <2>1 DEF WaitReap, TypeOK
    <2> QED
      BY <2>1, <2>2, <2>3 DEF TimerInv, TimerOnStack, SleepNotCutShort, NoStaleTimer
  <1>7. ASSUME NEW p \in Procs, WaitSleep(p) PROVE TimerInv'
    BY <1>7, ProcAssumption, KernelThreads
    DEF WaitSleep, TypeOK, At, Goto, Unlinked, TimerInv, TimerOnStack, SleepNotCutShort, NoStaleTimer, ControlInv, Fits
  <1>8. ASSUME NEW p \in Procs, WaitFail(p) PROVE TimerInv'
    BY <1>8, ProcAssumption, KernelThreads
    DEF WaitFail, TypeOK, At, Goto, Unlinked, TimerInv, TimerOnStack, SleepNotCutShort, NoStaleTimer, ControlInv, Fits
  <1>9. ASSUME NEW p \in Procs, WaitWoken(p) PROVE TimerInv'
    BY <1>9, ProcAssumption, KernelThreads
    DEF WaitWoken, TypeOK, At, Goto, Unlinked, TimerInv, TimerOnStack, SleepNotCutShort, NoStaleTimer, ControlInv, Fits
  <1>10. ASSUME NEW p \in Procs, SleepWoken(p) PROVE TimerInv'
    BY <1>10, ProcAssumption, KernelThreads
    DEF SleepWoken, TypeOK, At, Goto, Unlinked, TimerInv, TimerOnStack, SleepNotCutShort, NoStaleTimer, ControlInv, Fits
  <1>11. ASSUME NEW p \in Procs, Execve(p) PROVE TimerInv'
    <2>1. UNCHANGED <<state, exiting, timer, irq>> /\ pc[p] = "execve"
      BY <1>11 DEF Execve, At
    <2>2. \A r \in Procs : r # p => pc'[r] = pc[r]
      BY <1>11 DEF Execve, Goto, TypeOK
    <2>3. pc'[p] \in {"user", "exit"}
      BY <1>11 DEF Execve, Goto, TypeOK
    <2> QED
      BY <2>1, <2>2, <2>3 DEF TimerInv, TimerOnStack, SleepNotCutShort, NoStaleTimer
  <1>12. ASSUME NEW p \in Procs, OtherTrap(p) PROVE TimerInv'
    BY <1>12, ProcAssumption, KernelThreads
    DEF OtherTrap, TypeOK, At, Goto, Unlinked, TimerInv, TimerOnStack, SleepNotCutShort, NoStaleTimer, ControlInv, Fits
  <1>13. ASSUME NEW p \in Procs, NEW c \in UserProcs, Fork(p, c) PROVE TimerInv'
    BY <1>13, ProcAssumption, KernelThreads
    DEF Fork, do_fork, TypeOK, At, Goto, Unlinked, TimerInv, TimerOnStack, SleepNotCutShort, NoStaleTimer, ControlInv, Fits
  <1>14. ASSUME NEW p \in Procs, ForkFail(p) PROVE TimerInv'
    BY <1>14, ProcAssumption, KernelThreads
    DEF ForkFail, TypeOK, At, Goto, Unlinked, TimerInv, TimerOnStack, SleepNotCutShort, NoStaleTimer, ControlInv, Fits
  <1>15. ASSUME NEW p \in Procs, Exit(p) PROVE TimerInv'
    BY <1>15, ProcAssumption, KernelThreads
    DEF Exit, TypeOK, At, Goto, Unlinked, TimerInv, TimerOnStack, SleepNotCutShort, NoStaleTimer, ControlInv, Fits
  <1>16. ASSUME NEW p \in Procs, NEW pid \in UserProcs \cup {initproc, AnyChild}, Wait(p, pid) PROVE TimerInv'
    BY <1>16, ProcAssumption, KernelThreads
    DEF Wait, TypeOK, At, Goto, Unlinked, TimerInv, TimerOnStack, SleepNotCutShort, NoStaleTimer, ControlInv, Fits
  <1>17. ASSUME NEW p \in Procs, NEW time \in 1..MaxSleep, Sleep(p, time) PROVE TimerInv'
    BY <1>17, ProcAssumption, KernelThreads
    DEF Sleep, TypeOK, At, Goto, Unlinked, TimerInv, TimerOnStack, SleepNotCutShort, NoStaleTimer, ControlInv, Fits
  <1>18. ASSUME NEW p \in Procs, Yield(p) PROVE TimerInv'
    BY <1>18, ProcAssumption, KernelThreads
    DEF Yield, TypeOK, At, Goto, Unlinked, TimerInv, TimerOnStack, SleepNotCutShort, NoStaleTimer, ControlInv, Fits
  <1>19. ASSUME NEW p \in Procs, NEW q \in Killable, Kill(p, q) PROVE TimerInv'
    BY <1>19, ProcAssumption, KernelThreads
    DEF Kill, wakeup_proc, enqueue, kill_wakes, TypeOK, At, Goto, Unlinked, TimerInv, TimerOnStack, SleepNotCutShort, NoStaleTimer, ControlInv, Fits
  <1>20. ASSUME NEW c \in UserProcs, InitFork(c) PROVE TimerInv'
    BY <1>20, ProcAssumption, KernelThreads
    DEF InitFork, do_fork, TypeOK, At, Goto, Unlinked, TimerInv, TimerOnStack, SleepNotCutShort, NoStaleTimer, ControlInv, Fits
  <1>21. ASSUME InitForkFail PROVE TimerInv'
    BY <1>21, ProcAssumption, KernelThreads
    DEF InitForkFail, TypeOK, At, Goto, Unlinked, TimerInv, TimerOnStack, SleepNotCutShort, NoStaleTimer, ControlInv, Fits
  <1>22. ASSUME InitDone PROVE TimerInv'
    BY <1>22, ProcAssumption, KernelThreads
    DEF InitDone, TypeOK, At, Goto, Unlinked, TimerInv, TimerOnStack, SleepNotCutShort, NoStaleTimer, ControlInv, Fits
  <1>23. ASSUME TickBegin PROVE TimerInv'
    BY <1>23, ProcAssumption, KernelThreads
    DEF TickBegin, TypeOK, At, Goto, Unlinked, TimerInv, TimerOnStack, SleepNotCutShort, NoStaleTimer, ControlInv, Fits
  <1>24. ASSUME NEW p \in Procs, TickExpire(p) PROVE TimerInv'
    BY <1>24, ProcAssumption, KernelThreads
    DEF TickExpire, wakeup_proc, enqueue, TypeOK, At, Goto, Unlinked, TimerInv, TimerOnStack, SleepNotCutShort, NoStaleTimer, ControlInv, Fits
  <1>25. ASSUME TickEnd PROVE TimerInv'
    BY <1>25, ProcAssumption, KernelThreads
    DEF TickEnd, TypeOK, At, Goto, Unlinked, TimerInv, TimerOnStack, SleepNotCutShort, NoStaleTimer, ControlInv, Fits
  <1>26. CASE UNCHANGED vars
    BY <1>26 DEF vars, TypeOK, At, Goto, Unlinked, TimerInv, TimerOnStack, SleepNotCutShort, NoStaleTimer, ControlInv, Fits
  <1> QED
    BY <1>1, <1>2, <1>3, <1>4, <1>5, <1>6, <1>7, <1>8, <1>9, <1>10, <1>11, <1>12, <1>13, <1>14, <1>15, <1>16, <1>17, <1>18, <1>19, <1>20, <1>21, <1>22, <1>23, <1>24, <1>25, <1>26
    DEF Next, KernelStep, UserStep, InitStep, TickStep, Halted

-------------------------------------------------------------------------------
(* The family tree                                                         *)

\* Every step keeps every process under a parent that can wait for it.
LEMMA OrphanStep == TypeOK /\ TypeOK' /\ ControlInv /\ ControlInv' /\ TimerOnStack /\ NoOrphan /\ [Next]_vars => NoOrphan'
  <1> SUFFICES ASSUME TypeOK, TypeOK', ControlInv, ControlInv', TimerOnStack, NoOrphan, [Next]_vars PROVE NoOrphan'
    OBVIOUS
  <1>1. ASSUME NEW p \in Procs, Schedule(p) PROVE NoOrphan'
    <2>1. UNCHANGED <<state, parent>>
      BY <1>1 DEF Schedule, schedule
    <2>2. pc[current] \notin {"exit_notify", "exit_orphans"}
      BY <1>1 DEF Schedule, At
    <2> QED
      BY <2>1, <2>2 DEF NoOrphan, Live
  <1>2. ASSUME NEW p \in Procs, TrapRet(p) PROVE NoOrphan'
    BY <1>2, ProcAssumption, KernelThreads
    DEF TrapRet, TypeOK, At, Goto, NoOrphan, Live, ControlInv, Fits
  <1>3. ASSUME NEW p \in Procs, ExitZombie(p) PROVE NoOrphan'
    BY <1>3, ProcAssumption, KernelThreads
    DEF ExitZombie, TypeOK, At, Goto, NoOrphan, Live, ControlInv, Fits
  <1>4. ASSUME NEW p \in Procs, ExitNotify(p) PROVE NoOrphan'
    <2>1. /\ parent' = parent /\ current' = current /\ p = current
          /\ pc'[p] = "exit_orphans" /\ pc[p] = "exit_notify"
      BY <1>4 DEF ExitNotify, At, Goto, TypeOK
    <2>2. \A r \in Procs : \/ state'[r] = state[r]
                           \/ state[r] = "SLEEPING" /\ state'[r] = "RUNNABLE"
      BY <1>4, NotifyEffect DEF ControlInv, Fits
    <2> QED
      BY <2>1, <2>2 DEF NoOrphan, Live, TypeOK
  <1>5. ASSUME NEW p \in Procs, ExitOrphans(p) PROVE NoOrphan'
    <2>1. current' = current /\ p = current /\ pc[p] = "exit_orphans"
      BY <1>5 DEF ExitOrphans, At
    <2>2. \A r \in Procs : \/ state'[r] = state[r]
                           \/ state[r] = "SLEEPING" /\ state'[r] = "RUNNABLE"
      BY <1>5, OrphansEffect DEF ControlInv, Fits
    <2>3. \A r \in Procs : parent'[r] = IF state[r] # "UNINIT" /\ parent[r] = p THEN initproc ELSE parent[r]
      BY <1>5 DEF ExitOrphans, Live
    <2>4. state[initproc] \in {"RUNNABLE", "SLEEPING"}
      BY KernelThreads DEF ControlInv, Fits, TypeOK, States
    <2>5. ASSUME NEW r \in Procs, r # idleproc, state'[r] # "UNINIT"
          PROVE  state'[parent'[r]] \in {"RUNNABLE", "SLEEPING"}
      <3>1. state[r] # "UNINIT" /\ parent[r] \in Procs
        BY <2>2, <2>5 DEF TypeOK
      <3>2. CASE parent[r] = p
        BY <2>2, <2>3, <2>4, <3>1, <3>2, KernelThreads
      <3>3. CASE parent[r] # p
        <4>1. state[parent[r]] \in {"RUNNABLE", "SLEEPING"}
          BY <2>1, <2>5, <3>1, <3>3 DEF NoOrphan, Live
        <4> QED
          BY <2>2, <2>3, <3>1, <3>3, <4>1
      <3> QED
        BY <3>2, <3>3
    <2> QED
      BY <2>5 DEF NoOrphan, Live
  <1>6. ASSUME NEW p \in Procs, NEW c \in Procs, WaitReap(p, c) PROVE NoOrphan'
    BY <1>6, ProcAssumption, KernelThreads
    DEF WaitReap, TypeOK, At, Goto, NoOrphan, Live, ControlInv, Fits
  <1>7. ASSUME NEW p \in Procs, WaitSleep(p) PROVE NoOrphan'
    BY <1>7, ProcAssumption, KernelThreads
    DEF WaitSleep, TypeOK, At, Goto, NoOrphan, Live, ControlInv, Fits
  <1>8. ASSUME NEW p \in Procs, WaitFail(p) PROVE NoOrphan'
    BY <1>8, ProcAssumption, KernelThreads
    DEF WaitFail, TypeOK, At, Goto, NoOrphan, Live, ControlInv, Fits
  <1>9. ASSUME NEW p \in Procs, WaitWoken(p) PROVE NoOrphan'
    BY <1>9, ProcAssumption, KernelThreads
    DEF WaitWoken, TypeOK, At, Goto, NoOrphan, Live, ControlInv, Fits
  <1>10. ASSUME NEW p \in Procs, SleepWoken(p) PROVE NoOrphan'
    BY <1>10, ProcAssumption, KernelThreads
    DEF SleepWoken, TypeOK, At, Goto, NoOrphan, Live, ControlInv, Fits
  <1>11. ASSUME NEW p \in Procs, Execve(p) PROVE NoOrphan'
    BY <1>11, ProcAssumption, KernelThreads
    DEF Execve, TypeOK, At, Goto, NoOrphan, Live, ControlInv, Fits
  <1>12. ASSUME NEW p \in Procs, OtherTrap(p) PROVE NoOrphan'
    BY <1>12, ProcAssumption, KernelThreads
    DEF OtherTrap, TypeOK, At, Goto, NoOrphan, Live, ControlInv, Fits
  <1>13. ASSUME NEW p \in Procs, NEW c \in UserProcs, Fork(p, c) PROVE NoOrphan'
    <2>1. c \in Procs /\ p = current /\ current' = current /\ state[c] = "UNINIT" /\ c # idleproc
      BY <1>13, ProcAssumption DEF Fork, do_fork, At, Procs
    <2>2. state[p] = "RUNNABLE"
      BY <1>13, KernelThreads, RunningAt DEF Fork, At
    <2>3. \A r \in Procs : /\ state'[r] = (IF r = c THEN "RUNNABLE" ELSE state[r])
                           /\ parent'[r] = (IF r = c THEN p ELSE parent[r])
      BY <1>13, <2>1 DEF Fork, do_fork, TypeOK
    <2>4. \A r \in Procs : r # idleproc /\ state[r] # "UNINIT" =>
              parent[r] \in Procs /\ parent[r] # c /\ state[parent[r]] \in {"RUNNABLE", "SLEEPING"}
      <3>1. pc[current] \notin {"exit_notify", "exit_orphans"}
        BY <1>13 DEF Fork, At
      <3> QED
        BY <2>1, <3>1 DEF NoOrphan, Live, TypeOK
    <2> QED
      BY <2>1, <2>2, <2>3, <2>4, KernelThreads DEF NoOrphan, Live
  <1>14. ASSUME NEW p \in Procs, ForkFail(p) PROVE NoOrphan'
    BY <1>14, ProcAssumption, KernelThreads
    DEF ForkFail, TypeOK, At, Goto, NoOrphan, Live, ControlInv, Fits
  <1>15. ASSUME NEW p \in Procs, Exit(p) PROVE NoOrphan'
    BY <1>15, ProcAssumption, KernelThreads
    DEF Exit, TypeOK, At, Goto, NoOrphan, Live, ControlInv, Fits
  <1>16. ASSUME NEW p \in Procs, NEW pid \in UserProcs \cup {initproc, AnyChild}, Wait(p, pid) PROVE NoOrphan'
    BY <1>16, ProcAssumption, KernelThreads
    DEF Wait, TypeOK, At, Goto, NoOrphan, Live, ControlInv, Fits
  <1>17. ASSUME NEW p \in Procs, NEW time \in 1..MaxSleep, Sleep(p, time) PROVE NoOrphan'
    BY <1>17, ProcAssumption, KernelThreads
    DEF Sleep, TypeOK, At, Goto, NoOrphan, Live, ControlInv, Fits
  <1>18. ASSUME NEW p \in Procs, Yield(p) PROVE NoOrphan'
    BY <1>18, ProcAssumption, KernelThreads
    DEF Yield, TypeOK, At, Goto, NoOrphan, Live, ControlInv, Fits
  <1>19. ASSUME NEW p \in Procs, NEW q \in Killable, Kill(p, q) PROVE NoOrphan'
    <2>1. /\ parent' = parent /\ current' = current
          /\ pc[current] \notin {"exit_notify", "exit_orphans"}
      BY <1>19 DEF Kill, At
    <2> QED
      BY <1>19, <2>1, KillEffect DEF NoOrphan, Live, TypeOK
  <1>20. ASSUME NEW c \in UserProcs, InitFork(c) PROVE NoOrphan'
    <2>1. c \in Procs /\ initproc = current /\ current' = current /\ state[c] = "UNINIT" /\ c # idleproc
      BY <1>20, ProcAssumption DEF InitFork, do_fork, At, Procs
    <2>2. state[initproc] = "RUNNABLE"
      BY <1>20, KernelThreads, RunningAt DEF InitFork, At
    <2>3. \A r \in Procs : /\ state'[r] = (IF r = c THEN "RUNNABLE" ELSE state[r])
                           /\ parent'[r] = (IF r = c THEN initproc ELSE parent[r])
      BY <1>20, <2>1 DEF InitFork, do_fork, TypeOK
    <2>4. \A r \in Procs : r # idleproc /\ state[r] # "UNINIT" =>
              parent[r] \in Procs /\ parent[r] # c /\ state[parent[r]] \in {"RUNNABLE", "SLEEPING"}
      <3>1. pc[current] \notin {"exit_notify", "exit_orphans"}
        BY <1>20 DEF InitFork, At
      <3> QED
        BY <2>1, <3>1 DEF NoOrphan, Live, TypeOK
    <2> QED
      BY <2>1, <2>2, <2>3, <2>4, KernelThreads DEF NoOrphan, Live
  <1>21. ASSUME InitForkFail PROVE NoOrphan'
    BY <1>21, ProcAssumption, KernelThreads
    DEF InitForkFail, TypeOK, At, Goto, NoOrphan, Live, ControlInv, Fits
  <1>22. ASSUME InitDone PROVE NoOrphan'
    BY <1>22, ProcAssumption, KernelThreads
    DEF InitDone, TypeOK, At, Goto, NoOrphan, Live, ControlInv, Fits
  <1>23. ASSUME TickBegin PROVE NoOrphan'
    BY <1>23, ProcAssumption, KernelThreads
    DEF TickBegin, TypeOK, At, Goto, NoOrphan, Live, ControlInv, Fits
  <1>24. ASSUME NEW p \in Procs, TickExpire(p) PROVE NoOrphan'
    <2>1. UNCHANGED <<parent, current, pc>>
      BY <1>24 DEF TickExpire
    <2>2. pc[p] \in {"sleep_sched", "sleep_woken"}
      BY <1>24 DEF TickExpire, TimerOnStack, Unlinked
    <2>3. state[p] \in {"SLEEPING", "RUNNABLE"}
      BY <2>2 DEF ControlInv, Fits, TypeOK, States
    <2>4. \A r \in Procs : state'[r] = IF r = p THEN "RUNNABLE" ELSE state[r]
      BY <1>24, WakeupEffect DEF TickExpire
    <2> QED
      BY <2>1, <2>3, <2>4 DEF NoOrphan, Live, TypeOK
  <1>25. ASSUME TickEnd PROVE NoOrphan'
    BY <1>25, ProcAssumption, KernelThreads
    DEF TickEnd, TypeOK, At, Goto, NoOrphan, Live, ControlInv, Fits
  <1>26. CASE UNCHANGED vars
    BY <1>26 DEF vars, TypeOK, At, Goto, NoOrphan, Live, ControlInv, Fits
  <1> QED
    BY <1>1, <1>2, <1>3, <1>4, <1>5, <1>6, <1>7, <1>8, <1>9, <1>10, <1>11, <1>12, <1>13, <1>14, <1>15, <1>16, <1>17, <1>18, <1>19, <1>20, <1>21, <1>22, <1>23, <1>24, <1>25, <1>26
    DEF Next, KernelStep, UserStep, InitStep, TickStep, Halted

-------------------------------------------------------------------------------
(* No lost wakeup                                                          *)

\* No step leaves a parent asleep in do_wait over a zombie child.
LEMMA LostStep == TypeOK /\ ControlInv /\ ControlInv' /\ NoLostChild /\ [Next]_vars => NoLostChild'
  <1> SUFFICES ASSUME TypeOK, ControlInv, ControlInv', NoLostChild, [Next]_vars PROVE NoLostChild'
    OBVIOUS
  <1>1. ASSUME NEW p \in Procs, Schedule(p) PROVE NoLostChild'
    <2>1. UNCHANGED <<state, wait_state, parent, waitpid>>
      BY <1>1 DEF Schedule, schedule
    <2>2. pc[current] # "exit_notify"
      BY <1>1 DEF Schedule, At
    <2> QED
      BY <2>1, <2>2 DEF NoLostChild, WaitedFor, Live
  <1>2. ASSUME NEW p \in Procs, TrapRet(p) PROVE NoLostChild'
    BY <1>2, ProcAssumption, KernelThreads
    DEF TrapRet, TypeOK, At, Goto, NoLostChild, WaitedFor, Live, ControlInv, Fits
  <1>3. ASSUME NEW p \in Procs, ExitZombie(p) PROVE NoLostChild'
    BY <1>3, ProcAssumption, KernelThreads
    DEF ExitZombie, TypeOK, At, Goto, NoLostChild, WaitedFor, Live, ControlInv, Fits
  <1>4. ASSUME NEW p \in Procs, ExitNotify(p) PROVE NoLostChild'
    BY <1>4, ProcAssumption, KernelThreads
    DEF ExitNotify, wakeup_proc, enqueue, TypeOK, At, Goto, NoLostChild, WaitedFor, Live, ControlInv, Fits
  <1>5. ASSUME NEW p \in Procs, ExitOrphans(p) PROVE NoLostChild'
    <2>1. waitpid' = waitpid /\ pc[current] # "exit_notify"
      BY <1>5 DEF ExitOrphans, At
    <2>2. SUFFICES ASSUME NEW r \in Procs, wait_state'[r] = "WT_CHILD",
                          NEW c \in Procs, state'[c] = "ZOMBIE", parent'[c] = r,
                          waitpid[r] \in {AnyChild, c}
                   PROVE  FALSE
      BY <2>1 DEF NoLostChild, WaitedFor, Live
    <2>3. wait_state[r] = "WT_CHILD" /\ state[c] = "ZOMBIE"
      BY <1>5, <2>2, OrphansEffect
    <2>4. parent[c] # r
      BY <2>1, <2>2, <2>3 DEF NoLostChild, WaitedFor, Live
    <2>5. r = initproc /\ parent[c] = p /\ c \in Live
      BY <1>5, <2>2, <2>4 DEF ExitOrphans
    <2>6. wakeup_proc(initproc)
      BY <1>5, <2>3, <2>5 DEF ExitOrphans
    <2> QED
      BY <2>2, <2>5, <2>6, KernelThreads, WakeupEffect
  <1>6. ASSUME NEW p \in Procs, NEW c \in Procs, WaitReap(p, c) PROVE NoLostChild'
    BY <1>6, ProcAssumption, KernelThreads
    DEF WaitReap, TypeOK, At, Goto, NoLostChild, WaitedFor, Live, ControlInv, Fits
  <1>7. ASSUME NEW p \in Procs, WaitSleep(p) PROVE NoLostChild'
    BY <1>7, ProcAssumption, KernelThreads
    DEF WaitSleep, TypeOK, At, Goto, NoLostChild, WaitedFor, Live, ControlInv, Fits
  <1>8. ASSUME NEW p \in Procs, WaitFail(p) PROVE NoLostChild'
    BY <1>8, ProcAssumption, KernelThreads
    DEF WaitFail, TypeOK, At, Goto, NoLostChild, WaitedFor, Live, ControlInv, Fits
  <1>9. ASSUME NEW p \in Procs, WaitWoken(p) PROVE NoLostChild'
    BY <1>9, ProcAssumption, KernelThreads
    DEF WaitWoken, TypeOK, At, Goto, NoLostChild, WaitedFor, Live, ControlInv, Fits
  <1>10. ASSUME NEW p \in Procs, SleepWoken(p) PROVE NoLostChild'
    BY <1>10, ProcAssumption, KernelThreads
    DEF SleepWoken, TypeOK, At, Goto, NoLostChild, WaitedFor, Live, ControlInv, Fits
  <1>11. ASSUME NEW p \in Procs, Execve(p) PROVE NoLostChild'
    BY <1>11, ProcAssumption, KernelThreads
    DEF Execve, TypeOK, At, Goto, NoLostChild, WaitedFor, Live, ControlInv, Fits
  <1>12. ASSUME NEW p \in Procs, OtherTrap(p) PROVE NoLostChild'
    BY <1>12, ProcAssumption, KernelThreads
    DEF OtherTrap, TypeOK, At, Goto, NoLostChild, WaitedFor, Live, ControlInv, Fits
  <1>13. ASSUME NEW p \in Procs, NEW c \in UserProcs, Fork(p, c) PROVE NoLostChild'
    <2>1. c \in Procs /\ p = current /\ current' = current /\ waitpid' = waitpid
      BY <1>13 DEF Fork, do_fork, At, Procs
    <2>2. state[p] = "RUNNABLE" /\ wait_state[p] = "none"
      BY <1>13, KernelThreads, RunningAt DEF Fork, At
    <2>3. \A r \in Procs : /\ state'[r] = (IF r = c THEN "RUNNABLE" ELSE state[r])
                           /\ parent'[r] = (IF r = c THEN p ELSE parent[r])
                           /\ wait_state'[r] = (IF r = c THEN "none" ELSE wait_state[r])
                           /\ r # c /\ r # p => pc'[r] = pc[r]
      BY <1>13, <2>1, <2>2 DEF Fork, do_fork, TypeOK
    <2>4. pc[p] # "exit_notify"
      BY <1>13 DEF Fork, At
    <2> QED
      BY <2>1, <2>2, <2>3, <2>4 DEF NoLostChild, WaitedFor, Live
  <1>14. ASSUME NEW p \in Procs, ForkFail(p) PROVE NoLostChild'
    BY <1>14, ProcAssumption, KernelThreads
    DEF ForkFail, TypeOK, At, Goto, NoLostChild, WaitedFor, Live, ControlInv, Fits
  <1>15. ASSUME NEW p \in Procs, Exit(p) PROVE NoLostChild'
    BY <1>15, ProcAssumption, KernelThreads
    DEF Exit, TypeOK, At, Goto, NoLostChild, WaitedFor, Live, ControlInv, Fits
  <1>16. ASSUME NEW p \in Procs, NEW pid \in UserProcs \cup {initproc, AnyChild}, Wait(p, pid) PROVE NoLostChild'
    BY <1>16, ProcAssumption, KernelThreads
    DEF Wait, TypeOK, At, Goto, NoLostChild, WaitedFor, Live, ControlInv, Fits
  <1>17. ASSUME NEW p \in Procs, NEW time \in 1..MaxSleep, Sleep(p, time) PROVE NoLostChild'
    BY <1>17, ProcAssumption, KernelThreads
    DEF Sleep, TypeOK, At, Goto, NoLostChild, WaitedFor, Live, ControlInv, Fits
  <1>18. ASSUME NEW p \in Procs, Yield(p) PROVE NoLostChild'
    BY <1>18, ProcAssumption, KernelThreads
    DEF Yield, TypeOK, At, Goto, NoLostChild, WaitedFor, Live, ControlInv, Fits
  <1>19. ASSUME NEW p \in Procs, NEW q \in Killable, Kill(p, q) PROVE NoLostChild'
    BY <1>19, ProcAssumption, KernelThreads
    DEF Kill, wakeup_proc, enqueue, kill_wakes, TypeOK, At, Goto, NoLostChild, WaitedFor, Live, ControlInv, Fits
  <1>20. ASSUME NEW c \in UserProcs, InitFork(c) PROVE NoLostChild'
    <2>1. c \in Procs /\ initproc = current /\ current' = current /\ waitpid' = waitpid
      BY <1>20 DEF InitFork, do_fork, At, Procs
    <2>2. state[initproc] = "RUNNABLE" /\ wait_state[initproc] = "none"
      BY <1>20, KernelThreads, RunningAt DEF InitFork, At
    <2>3. \A r \in Procs : /\ state'[r] = (IF r = c THEN "RUNNABLE" ELSE state[r])
                           /\ parent'[r] = (IF r = c THEN initproc ELSE parent[r])
                           /\ wait_state'[r] = (IF r = c THEN "none" ELSE wait_state[r])
                           /\ r # c /\ r # initproc => pc'[r] = pc[r]
      BY <1>20, <2>1, <2>2 DEF InitFork, do_fork, TypeOK
    <2>4. pc[initproc] # "exit_notify"
      BY <1>20 DEF InitFork, At
    <2> QED
      BY <2>1, <2>2, <2>3, <2>4 DEF NoLostChild, WaitedFor, Live
  <1>21. ASSUME InitForkFail PROVE NoLostChild'
    BY <1>21, ProcAssumption, KernelThreads
    DEF InitForkFail, TypeOK, At, Goto, NoLostChild, WaitedFor, Live, ControlInv, Fits
  <1>22. ASSUME InitDone PROVE NoLostChild'
    BY <1>22, ProcAssumption, KernelThreads
    DEF InitDone, TypeOK, At, Goto, NoLostChild, WaitedFor, Live, ControlInv, Fits
  <1>23. ASSUME TickBegin PROVE NoLostChild'
    BY <1>23, ProcAssumption, KernelThreads
    DEF TickBegin, TypeOK, At, Goto, NoLostChild, WaitedFor, Live, ControlInv, Fits
  <1>24. ASSUME NEW p \in Procs, TickExpire(p) PROVE NoLostChild'
    BY <1>24, ProcAssumption, KernelThreads
    DEF TickExpire, wakeup_proc, enqueue, TypeOK, At, Goto, NoLostChild, WaitedFor, Live, ControlInv, Fits
  <1>25. ASSUME TickEnd PROVE NoLostChild'
    BY <1>25, ProcAssumption, KernelThreads
    DEF TickEnd, TypeOK, At, Goto, NoLostChild, WaitedFor, Live, ControlInv, Fits
  <1>26. CASE UNCHANGED vars
    BY <1>26 DEF vars, TypeOK, At, Goto, NoLostChild, WaitedFor, Live, ControlInv, Fits
  <1> QED
    BY <1>1, <1>2, <1>3, <1>4, <1>5, <1>6, <1>7, <1>8, <1>9, <1>10, <1>11, <1>12, <1>13, <1>14, <1>15, <1>16, <1>17, <1>18, <1>19, <1>20, <1>21, <1>22, <1>23, <1>24, <1>25, <1>26
    DEF Next, KernelStep, UserStep, InitStep, TickStep, Halted

-------------------------------------------------------------------------------
(* The process count                                                       *)

\* Every step keeps nr_process equal to the number of processes: set_links and
\* remove_links are called once per process.
LEMMA CountStep == TypeOK /\ ControlInv /\ TimerOnStack /\ CountExact /\ [Next]_vars => CountExact'
  <1> SUFFICES ASSUME TypeOK, ControlInv, TimerOnStack, CountExact, [Next]_vars PROVE CountExact'
    OBVIOUS
  <1>1. ASSUME NEW p \in Procs, Schedule(p) PROVE CountExact'
    BY <1>1 DEF Schedule, schedule, CountExact, Live
  <1>2. ASSUME NEW p \in Procs, TrapRet(p) PROVE CountExact'
    BY <1>2 DEF TrapRet, CountExact, Live
  <1>3. ASSUME NEW p \in Procs, ExitZombie(p) PROVE CountExact'
    <2>1. nr_process' = nr_process
      BY <1>3 DEF ExitZombie
    <2>2. \A r \in Procs : (state'[r] = "UNINIT") <=> (state[r] = "UNINIT")
      BY <1>3, RunningAt DEF ExitZombie, At, Goto, TypeOK, ControlInv, Fits
    <2> QED
      BY <2>1, <2>2 DEF CountExact, Live
  <1>4. ASSUME NEW p \in Procs, ExitNotify(p) PROVE CountExact'
    <2>1. nr_process' = nr_process
      BY <1>4 DEF ExitNotify
    <2>2. \A r \in Procs : (state'[r] = "UNINIT") <=> (state[r] = "UNINIT")
      BY <1>4, NotifyEffect DEF ExitNotify, At, Goto, TypeOK, ControlInv, Fits
    <2> QED
      BY <2>1, <2>2 DEF CountExact, Live
  <1>5. ASSUME NEW p \in Procs, ExitOrphans(p) PROVE CountExact'
    <2>1. nr_process' = nr_process
      BY <1>5 DEF ExitOrphans
    <2>2. \A r \in Procs : (state'[r] = "UNINIT") <=> (state[r] = "UNINIT")
      BY <1>5, OrphansEffect DEF ExitOrphans, At, Goto, TypeOK, ControlInv, Fits
    <2> QED
      BY <2>1, <2>2 DEF CountExact, Live
  <1>6. ASSUME NEW p \in Procs, NEW c \in Procs, WaitReap(p, c) PROVE CountExact'
    <2>1. state[c] = "ZOMBIE" /\ state' = [state EXCEPT ![c] = "UNINIT"]
      BY <1>6 DEF WaitReap
    <2>2. Live' = Live \ {c} /\ c \in Live
      BY <2>1 DEF Live, TypeOK
    <2>3. Cardinality(Live') = Cardinality(Live) - 1
      BY <2>2, FiniteProcs, FS_RemoveElement
    <2> QED
      BY <1>6, <2>3 DEF WaitReap, CountExact
  <1>7. ASSUME NEW p \in Procs, WaitSleep(p) PROVE CountExact'
    <2>1. nr_process' = nr_process
      BY <1>7 DEF WaitSleep
    <2>2. \A r \in Procs : (state'[r] = "UNINIT") <=> (state[r] = "UNINIT")
      BY <1>7, RunningAt DEF WaitSleep, At, Goto, TypeOK, ControlInv, Fits
    <2> QED
      BY <2>1, <2>2 DEF CountExact, Live
  <1>8. ASSUME NEW p \in Procs, WaitFail(p) PROVE CountExact'
    BY <1>8 DEF WaitFail, CountExact, Live
  <1>9. ASSUME NEW p \in Procs, WaitWoken(p) PROVE CountExact'
    BY <1>9 DEF WaitWoken, CountExact, Live
  <1>10. ASSUME NEW p \in Procs, SleepWoken(p) PROVE CountExact'
    BY <1>10 DEF SleepWoken, CountExact, Live
  <1>11. ASSUME NEW p \in Procs, Execve(p) PROVE CountExact'
    BY <1>11 DEF Execve, CountExact, Live
  <1>12. ASSUME NEW p \in Procs, OtherTrap(p) PROVE CountExact'
    BY <1>12 DEF OtherTrap, CountExact, Live
  <1>13. ASSUME NEW p \in Procs, NEW c \in UserProcs, Fork(p, c) PROVE CountExact'
    <2>1. c \in Procs /\ state[c] = "UNINIT" /\ state' = [state EXCEPT ![c] = "RUNNABLE"]
      BY <1>13 DEF Fork, do_fork, Procs
    <2>2. Live' = Live \cup {c} /\ c \notin Live
      BY <2>1 DEF Live, TypeOK
    <2>3. Cardinality(Live') = Cardinality(Live) + 1
      BY <2>2, FiniteProcs, FS_AddElement
    <2> QED
      BY <1>13, <2>3 DEF Fork, do_fork, CountExact
  <1>14. ASSUME NEW p \in Procs, ForkFail(p) PROVE CountExact'
    BY <1>14 DEF ForkFail, CountExact, Live
  <1>15. ASSUME NEW p \in Procs, Exit(p) PROVE CountExact'
    BY <1>15 DEF Exit, CountExact, Live
  <1>16. ASSUME NEW p \in Procs, NEW pid \in UserProcs \cup {initproc, AnyChild}, Wait(p, pid) PROVE CountExact'
    BY <1>16 DEF Wait, CountExact, Live
  <1>17. ASSUME NEW p \in Procs, NEW time \in 1..MaxSleep, Sleep(p, time) PROVE CountExact'
    <2>1. nr_process' = nr_process
      BY <1>17 DEF Sleep
    <2>2. \A r \in Procs : (state'[r] = "UNINIT") <=> (state[r] = "UNINIT")
      BY <1>17, RunningAt DEF Sleep, At, Goto, TypeOK, ControlInv, Fits
    <2> QED
      BY <2>1, <2>2 DEF CountExact, Live
  <1>18. ASSUME NEW p \in Procs, Yield(p) PROVE CountExact'
    BY <1>18 DEF Yield, CountExact, Live
  <1>19. ASSUME NEW p \in Procs, NEW q \in Killable, Kill(p, q) PROVE CountExact'
    <2>1. nr_process' = nr_process
      BY <1>19 DEF Kill
    <2>2. \A r \in Procs : (state'[r] = "UNINIT") <=> (state[r] = "UNINIT")
      BY <1>19, KillEffect DEF Kill, At, Goto, TypeOK, ControlInv, Fits
    <2> QED
      BY <2>1, <2>2 DEF CountExact, Live
  <1>20. ASSUME NEW c \in UserProcs, InitFork(c) PROVE CountExact'
    <2>1. c \in Procs /\ state[c] = "UNINIT" /\ state' = [state EXCEPT ![c] = "RUNNABLE"]
      BY <1>20 DEF InitFork, do_fork, Procs
    <2>2. Live' = Live \cup {c} /\ c \notin Live
      BY <2>1 DEF Live, TypeOK
    <2>3. Cardinality(Live') = Cardinality(Live) + 1
      BY <2>2, FiniteProcs, FS_AddElement
    <2> QED
      BY <1>20, <2>3 DEF InitFork, do_fork, CountExact
  <1>21. ASSUME InitForkFail PROVE CountExact'
    BY <1>21 DEF InitForkFail, CountExact, Live
  <1>22. ASSUME InitDone PROVE CountExact'
    BY <1>22 DEF InitDone, CountExact, Live
  <1>23. ASSUME TickBegin PROVE CountExact'
    BY <1>23 DEF TickBegin, CountExact, Live
  <1>24. ASSUME NEW p \in Procs, TickExpire(p) PROVE CountExact'
    <2>1. nr_process' = nr_process
      BY <1>24 DEF TickExpire
    <2>2. pc[p] # "free"
      BY <1>24 DEF TickExpire, TimerOnStack, Unlinked
    <2>3. \A r \in Procs : (state'[r] = "UNINIT") <=> (state[r] = "UNINIT")
      BY <1>24, <2>2, WakeupEffect DEF TickExpire, ControlInv, Fits
    <2> QED
      BY <2>1, <2>3 DEF CountExact, Live
  <1>25. ASSUME TickEnd PROVE CountExact'
    BY <1>25 DEF TickEnd, CountExact, Live
  <1>26. CASE UNCHANGED vars
    BY <1>26 DEF vars, CountExact, Live
  <1> QED
    BY <1>1, <1>2, <1>3, <1>4, <1>5, <1>6, <1>7, <1>8, <1>9, <1>10, <1>11, <1>12, <1>13, <1>14, <1>15, <1>16, <1>17, <1>18, <1>19, <1>20, <1>21, <1>22, <1>23, <1>24, <1>25, <1>26
    DEF Next, KernelStep, UserStep, InitStep, TickStep, Halted

-------------------------------------------------------------------------------
(* Who frees a zombie                                                      *)

\* A process that waits for a child is asleep, hence not a zombie.
LEMMA SleeperOnly ==
  ASSUME ControlInv
  PROVE  \A r \in Procs : wait_state[r] = "WT_CHILD" => state[r] = "SLEEPING"
  BY DEF ControlInv, Fits

\* In every step a zombie either stays one or is freed by its parent in do_wait:
\* none of the wakers can reach it.
LEMMA ReapStep ==
  ASSUME TypeOK, ControlInv, TimerOnStack, [Next]_vars
  PROVE  \A z \in Procs : state[z] = "ZOMBIE" /\ state'[z] # "ZOMBIE" =>
             /\ state'[z] = "UNINIT"
             /\ current = parent[z] /\ pc[current] = "wait"
  <1> DEFINE Reap == \A z \in Procs : state[z] = "ZOMBIE" /\ state'[z] # "ZOMBIE" =>
                         /\ state'[z] = "UNINIT"
                         /\ current = parent[z] /\ pc[current] = "wait"
  <1>1. ASSUME NEW p \in Procs, Schedule(p) PROVE Reap
    BY <1>1 DEF Schedule, schedule
  <1>2. ASSUME NEW p \in Procs, TrapRet(p) PROVE Reap
    BY <1>2 DEF TrapRet
  <1>3. ASSUME NEW p \in Procs, ExitZombie(p) PROVE Reap
    BY <1>3 DEF ExitZombie, TypeOK
  <1>4. ASSUME NEW p \in Procs, ExitNotify(p) PROVE Reap
    BY <1>4, NotifyEffect, SleeperOnly
  <1>5. ASSUME NEW p \in Procs, ExitOrphans(p) PROVE Reap
    BY <1>5, OrphansEffect, SleeperOnly
  <1>6. ASSUME NEW p \in Procs, NEW c \in Procs, WaitReap(p, c) PROVE Reap
    BY <1>6 DEF WaitReap, WaitedFor, At, TypeOK
  <1>7. ASSUME NEW p \in Procs, WaitSleep(p) PROVE Reap
    <2>1. At(p, "wait") /\ state' = [state EXCEPT ![p] = "SLEEPING"]
      BY <1>7 DEF WaitSleep
    <2>2. state[p] = "RUNNABLE"
      BY <2>1 DEF At, ControlInv, Fits, TypeOK, States, WaitStates
    <2> QED
      BY <2>1, <2>2 DEF TypeOK
  <1>8. ASSUME NEW p \in Procs, WaitFail(p) PROVE Reap
    BY <1>8 DEF WaitFail
  <1>9. ASSUME NEW p \in Procs, WaitWoken(p) PROVE Reap
    BY <1>9 DEF WaitWoken
  <1>10. ASSUME NEW p \in Procs, SleepWoken(p) PROVE Reap
    BY <1>10 DEF SleepWoken
  <1>11. ASSUME NEW p \in Procs, Execve(p) PROVE Reap
    BY <1>11 DEF Execve
  <1>12. ASSUME NEW p \in Procs, OtherTrap(p) PROVE Reap
    BY <1>12 DEF OtherTrap
  <1>13. ASSUME NEW p \in Procs, NEW c \in UserProcs, Fork(p, c) PROVE Reap
    BY <1>13 DEF Fork, do_fork, TypeOK, Procs
  <1>14. ASSUME NEW p \in Procs, ForkFail(p) PROVE Reap
    BY <1>14 DEF ForkFail
  <1>15. ASSUME NEW p \in Procs, Exit(p) PROVE Reap
    BY <1>15 DEF Exit
  <1>16. ASSUME NEW p \in Procs, NEW pid \in UserProcs \cup {initproc, AnyChild}, Wait(p, pid) PROVE Reap
    BY <1>16 DEF Wait
  <1>17. ASSUME NEW p \in Procs, NEW time \in 1..MaxSleep, Sleep(p, time) PROVE Reap
    <2>1. At(p, "user") /\ state' = [state EXCEPT ![p] = "SLEEPING"]
      BY <1>17 DEF Sleep
    <2>2. state[p] = "RUNNABLE"
      BY <2>1 DEF At, ControlInv, Fits, TypeOK, States, WaitStates
    <2> QED
      BY <2>1, <2>2 DEF TypeOK
  <1>18. ASSUME NEW p \in Procs, Yield(p) PROVE Reap
    BY <1>18 DEF Yield
  <1>19. ASSUME NEW p \in Procs, NEW q \in Killable, Kill(p, q) PROVE Reap
    BY <1>19, KillEffect
  <1>20. ASSUME NEW c \in UserProcs, InitFork(c) PROVE Reap
    BY <1>20 DEF InitFork, do_fork, TypeOK, Procs
  <1>21. ASSUME InitForkFail PROVE Reap
    BY <1>21 DEF InitForkFail
  <1>22. ASSUME InitDone PROVE Reap
    BY <1>22 DEF InitDone
  <1>23. ASSUME TickBegin PROVE Reap
    BY <1>23 DEF TickBegin
  <1>24. ASSUME NEW p \in Procs, TickExpire(p) PROVE Reap
    <2>1. timer[p] # Unlinked
      BY <1>24 DEF TickExpire, Unlinked
    <2>2. state[p] # "ZOMBIE"
      BY <2>1 DEF TimerOnStack, ControlInv, Fits
    <2> QED
      BY <1>24, <2>2, WakeupEffect DEF TickExpire
  <1>25. ASSUME TickEnd PROVE Reap
    BY <1>25 DEF TickEnd
  <1>26. CASE UNCHANGED vars
    BY <1>26 DEF vars
  <1> QED
    BY <1>1, <1>2, <1>3, <1>4, <1>5, <1>6, <1>7, <1>8, <1>9, <1>10, <1>11, <1>12, <1>13, <1>14, <1>15, <1>16, <1>17, <1>18, <1>19, <1>20, <1>21, <1>22, <1>23, <1>24, <1>25, <1>26
    DEF Next, KernelStep, UserStep, InitStep, TickStep, Halted

-------------------------------------------------------------------------------
(* What is left when init_main quits                                       *)

\* The family tree has no cycle and hangs from initproc: in any set of user
\* processes that exist, some process has its parent outside (and that parent
\* is not idleproc, which never forks).
Rooted ==
    \A S \in SUBSET (Live \cap UserProcs) :
        S # {} => \E p \in S : parent[p] \notin S \cup {idleproc}

\* With Rooted, the part of the invariant for the end of init_main: its do_wait
\* is for any child, and once it has reported none nobody else exists.
QuitIInv ==
    /\ Rooted
    /\ waitpid[initproc] = AnyChild
    /\ pc[initproc] = "init_done" => Live = {idleproc, initproc}

\* Nothing changes for a step that leaves the tree, the processes that exist and
\* the do_wait of init_main alone.
LEMMA QuitSame ==
  ASSUME QuitIInv, parent' = parent, waitpid'[initproc] = waitpid[initproc],
         \A r \in Procs : (state'[r] = "UNINIT") <=> (state[r] = "UNINIT"),
         pc'[initproc] = "init_done" => pc[initproc] = "init_done"
  PROVE  QuitIInv'
  <1>1. Live' = Live
    BY DEF Live
  <1>2. Rooted'
    BY <1>1 DEF QuitIInv, Rooted
  <1> QED
    BY <1>1, <1>2 DEF QuitIInv

\* do_fork hangs a leaf on a process that exists: nobody is the child of a free
\* proc_struct.
LEMMA QuitFork ==
  ASSUME TypeOK, ControlInv, NoOrphan, QuitIInv, NEW p \in Procs, NEW c \in UserProcs,
         NEW l, NEW e, do_fork(p, c, l, e), p = current,
         state[p] = "RUNNABLE", p # idleproc,
         pc[p] \notin {"exit_notify", "exit_orphans", "init_done"}, l # "init_done"
  PROVE  QuitIInv'
  <1>1. c \in Procs /\ state[c] = "UNINIT" /\ c # p /\ c # initproc /\ c # idleproc
    BY ProcAssumption DEF do_fork, Procs
  <1>2. /\ parent' = [parent EXCEPT ![c] = p] /\ state' = [state EXCEPT ![c] = "RUNNABLE"]
        /\ waitpid' = waitpid
    BY DEF do_fork
  <1>3. Live' = Live \cup {c} /\ c \notin Live
    BY <1>1, <1>2 DEF Live, TypeOK
  <1>4. Rooted'
    <2> SUFFICES ASSUME NEW S \in SUBSET (Live \cap UserProcs)', S # {}
                 PROVE  \E q \in S : parent'[q] \notin S \cup {idleproc}
      BY DEF Rooted
    <2>1. CASE S \subseteq {c}
      BY <1>1, <1>2, <2>1 DEF TypeOK
    <2>2. CASE ~(S \subseteq {c})
      <3>1. S \ {c} \in SUBSET (Live \cap UserProcs) /\ S \ {c} # {}
        BY <1>3, <2>2
      <3>2. PICK q \in S \ {c} : parent[q] \notin (S \ {c}) \cup {idleproc}
        BY <3>1 DEF QuitIInv, Rooted
      <3>3. q \in Live /\ q # idleproc /\ q # c /\ q \in Procs
        BY <3>1, <3>2, ProcAssumption DEF Live
      <3>4. parent[q] # c
        BY <1>1, <3>3 DEF NoOrphan
      <3>5. parent'[q] = parent[q]
        BY <1>2, <3>3 DEF TypeOK
      <3> QED
        BY <3>2, <3>4, <3>5
    <2> QED
      BY <2>1, <2>2
  <1>5. pc'[initproc] # "init_done"
    <2>1. pc' = [pc EXCEPT ![p] = l, ![c] = e]
      BY DEF do_fork
    <2>2. CASE p = initproc
      BY <1>1, <2>1, <2>2, KernelThreads DEF TypeOK
    <2>3. CASE p # initproc
      <3>1. pc[initproc] # "init_done"
        BY <2>3, KernelThreads DEF ControlInv, Fits
      <3> QED
        BY <1>1, <2>1, <2>3, <3>1, KernelThreads DEF TypeOK
    <2> QED
      BY <2>2, <2>3
  <1> QED
    BY <1>2, <1>4, <1>5 DEF QuitIInv

\* When do_wait tells init_main that it has no child, nobody is left: the tree
\* hangs from initproc, so if anybody were, initproc would have a child.
LEMMA NobodyLeft ==
  ASSUME TypeOK, ControlInv, NoOrphan, QuitIInv, WaitFail(initproc)
  PROVE  Live = {idleproc, initproc}
  <1>1. At(initproc, "wait") /\ WaitedFor(initproc) = {}
    BY DEF WaitFail
  <1>2. \A q \in Live : parent[q] # initproc
    BY <1>1 DEF WaitedFor, QuitIInv
  <1>3. Live \cap UserProcs = {}
    <2> SUFFICES ASSUME Live \cap UserProcs # {} PROVE FALSE
      OBVIOUS
    <2>1. PICK q \in Live \cap UserProcs : parent[q] \notin (Live \cap UserProcs) \cup {idleproc}
      BY DEF QuitIInv, Rooted
    <2>2. q \in Procs /\ parent[q] \in Procs /\ q # idleproc
      BY <2>1, ProcAssumption DEF Live, TypeOK
    <2>3. state[parent[q]] # "UNINIT"
      BY <2>1, <2>2 DEF NoOrphan
    <2>4. parent[q] = initproc
      BY <2>1, <2>2, <2>3 DEF Live, Procs
    <2> QED
      BY <1>2, <2>1, <2>4
  <1>4. idleproc \in Live /\ initproc \in Live
    BY KernelThreads DEF Live, ControlInv, Fits
  <1> QED
    BY <1>3, <1>4 DEF Live, Procs

\* Every step keeps the tree rooted, until init_main has seen the last process go.
LEMMA QuitStep ==
  TypeOK /\ TypeOK' /\ ControlInv /\ TimerOnStack /\ NoOrphan /\ QuitIInv /\ [Next]_vars => QuitIInv'
  <1> SUFFICES ASSUME TypeOK, TypeOK', ControlInv, TimerOnStack, NoOrphan, QuitIInv, [Next]_vars
               PROVE  QuitIInv'
    OBVIOUS
  <1>1. ASSUME NEW p \in Procs, Schedule(p) PROVE QuitIInv'
    <2>1. UNCHANGED <<state, parent, waitpid>>
      BY <1>1 DEF Schedule, schedule
    <2>2. pc'[initproc] # "init_done" \/ pc'[initproc] = pc[initproc]
      BY <1>1, KernelThreads DEF Schedule, schedule, TypeOK
    <2> QED
      BY <2>1, <2>2, QuitSame
  <1>2. ASSUME NEW p \in Procs, TrapRet(p) PROVE QuitIInv'
    BY <1>2, KernelThreads, QuitSame DEF TrapRet, Goto, TypeOK
  <1>3. ASSUME NEW p \in Procs, ExitZombie(p) PROVE QuitIInv'
    <2>1. \A r \in Procs : (state'[r] = "UNINIT") <=> (state[r] = "UNINIT")
      BY <1>3, RunningAt DEF ExitZombie, At, Goto, TypeOK, ControlInv, Fits
    <2> QED
      BY <1>3, <2>1, KernelThreads, QuitSame DEF ExitZombie, Goto, TypeOK
  <1>4. ASSUME NEW p \in Procs, ExitNotify(p) PROVE QuitIInv'
    <2>1. \A r \in Procs : (state'[r] = "UNINIT") <=> (state[r] = "UNINIT")
      BY <1>4, NotifyEffect DEF ExitNotify, At, Goto, TypeOK, ControlInv, Fits
    <2> QED
      BY <1>4, <2>1, KernelThreads, QuitSame DEF ExitNotify, Goto, TypeOK
  <1>5. ASSUME NEW p \in Procs, ExitOrphans(p) PROVE QuitIInv'
    <2>1. \A r \in Procs : (state'[r] = "UNINIT") <=> (state[r] = "UNINIT")
      BY <1>5, OrphansEffect DEF ControlInv, Fits
    <2>2. Live' = Live
      BY <2>1 DEF Live
    <2>3. \A r \in Procs : parent'[r] = IF r \in Live /\ parent[r] = p THEN initproc ELSE parent[r]
      BY <1>5 DEF ExitOrphans
    <2>4. Rooted'
      <3> SUFFICES ASSUME NEW S \in SUBSET (Live \cap UserProcs), S # {}
                   PROVE  \E q \in S : parent'[q] \notin S \cup {idleproc}
        BY <2>2 DEF Rooted
      <3>1. initproc \notin S \cup {idleproc} /\ S \subseteq Live /\ S \subseteq Procs
        BY ProcAssumption DEF Live
      <3>2. CASE \E q \in S : parent[q] = p
        BY <2>3, <3>1, <3>2
      <3>3. CASE \A q \in S : parent[q] # p
        <4>1. PICK q \in S : parent[q] \notin S \cup {idleproc}
          BY DEF QuitIInv, Rooted
        <4> QED
          BY <2>3, <3>1, <3>3, <4>1
      <3> QED
        BY <3>2, <3>3
    <2>5. waitpid' = waitpid /\ (pc'[initproc] = "init_done" => pc[initproc] = "init_done")
      BY <1>5, KernelThreads DEF ExitOrphans, Goto, TypeOK
    <2> QED
      BY <2>2, <2>4, <2>5 DEF QuitIInv
  <1>6. ASSUME NEW p \in Procs, NEW c \in Procs, WaitReap(p, c) PROVE QuitIInv'
    <2>1. /\ p = current /\ pc[p] = "wait" /\ c \in Live /\ state[c] = "ZOMBIE"
          /\ state' = [state EXCEPT ![c] = "UNINIT"] /\ parent' = [parent EXCEPT ![c] = idleproc]
          /\ waitpid' = [waitpid EXCEPT ![p] = AnyChild, ![c] = AnyChild]
          /\ pc' = [pc EXCEPT ![c] = "free",
                              ![p] = IF p # initproc THEN "trapret" ELSE "init_sched"]
      BY <1>6 DEF WaitReap, At, WaitedFor
    <2>2. Live' = Live \ {c}
      BY <2>1 DEF Live, TypeOK
    <2>3. \A r \in Procs : r # c => parent'[r] = parent[r]
      BY <2>1 DEF TypeOK
    <2>4. Rooted'
      <3> SUFFICES ASSUME NEW S \in SUBSET ((Live \ {c}) \cap UserProcs), S # {}
                   PROVE  \E q \in S : parent'[q] \notin S \cup {idleproc}
        BY <2>2 DEF Rooted
      <3>1. S \in SUBSET (Live \cap UserProcs)
        OBVIOUS
      <3>2. PICK q \in S : parent[q] \notin S \cup {idleproc}
        BY <3>1 DEF QuitIInv, Rooted
      <3> QED
        BY <2>3, <3>2 DEF Live
    <2>5. pc[initproc] # "init_done"
      BY <2>1, KernelThreads DEF ControlInv, Fits
    <2>6. waitpid'[initproc] = AnyChild /\ pc'[initproc] # "init_done"
      BY <2>1, <2>5, KernelThreads DEF QuitIInv, TypeOK
    <2> QED
      BY <2>4, <2>6 DEF QuitIInv
  <1>7. ASSUME NEW p \in Procs, WaitSleep(p) PROVE QuitIInv'
    <2>1. \A r \in Procs : (state'[r] = "UNINIT") <=> (state[r] = "UNINIT")
      BY <1>7, RunningAt DEF WaitSleep, At, Goto, TypeOK, ControlInv, Fits
    <2> QED
      BY <1>7, <2>1, KernelThreads, QuitSame DEF WaitSleep, Goto, TypeOK
  <1>8. ASSUME NEW p \in Procs, WaitFail(p) PROVE QuitIInv'
    <2>1. /\ UNCHANGED <<state, parent>> /\ waitpid' = [waitpid EXCEPT ![p] = AnyChild]
          /\ pc' = [pc EXCEPT ![p] = IF p # initproc THEN "trapret" ELSE "init_done"]
      BY <1>8 DEF WaitFail, Goto
    <2>2. waitpid'[initproc] = waitpid[initproc] /\ Live' = Live
      BY <2>1, KernelThreads DEF QuitIInv, TypeOK, Live
    <2>3. CASE p # initproc
      BY <2>1, <2>2, <2>3, KernelThreads, QuitSame DEF TypeOK
    <2>4. CASE p = initproc
      <3>1. Live = {idleproc, initproc}
        BY <1>8, <2>4, NobodyLeft
      <3>2. Rooted'
        BY <2>1, <2>2 DEF QuitIInv, Rooted
      <3> QED
        BY <2>2, <3>1, <3>2 DEF QuitIInv
    <2> QED
      BY <2>3, <2>4
  <1>9. ASSUME NEW p \in Procs, WaitWoken(p) PROVE QuitIInv'
    BY <1>9, KernelThreads, QuitSame DEF WaitWoken, Goto, TypeOK
  <1>10. ASSUME NEW p \in Procs, SleepWoken(p) PROVE QuitIInv'
    BY <1>10, KernelThreads, QuitSame DEF SleepWoken, Goto, TypeOK
  <1>11. ASSUME NEW p \in Procs, Execve(p) PROVE QuitIInv'
    BY <1>11, KernelThreads, QuitSame DEF Execve, Goto, TypeOK
  <1>12. ASSUME NEW p \in Procs, OtherTrap(p) PROVE QuitIInv'
    BY <1>12, KernelThreads, QuitSame DEF OtherTrap, Goto, TypeOK
  <1>13. ASSUME NEW p \in Procs, NEW c \in UserProcs, Fork(p, c) PROVE QuitIInv'
    <2>1. At(p, "user") /\ do_fork(p, c, "trapret", "user")
      BY <1>13 DEF Fork
    <2>2. p = current /\ pc[p] = "user" /\ state[p] = "RUNNABLE" /\ p # idleproc
      BY <2>1, RunningAt DEF At
    <2> QED
      BY <2>1, <2>2, QuitFork
  <1>14. ASSUME NEW p \in Procs, ForkFail(p) PROVE QuitIInv'
    BY <1>14, KernelThreads, QuitSame DEF ForkFail, Goto, TypeOK
  <1>15. ASSUME NEW p \in Procs, Exit(p) PROVE QuitIInv'
    BY <1>15, KernelThreads, QuitSame DEF Exit, Goto, TypeOK
  <1>16. ASSUME NEW p \in Procs, NEW pid \in UserProcs \cup {initproc, AnyChild}, Wait(p, pid) PROVE QuitIInv'
    <2>1. p # initproc
      BY <1>16, RunningAt DEF Wait
    <2> QED
      BY <1>16, <2>1, KernelThreads, QuitSame DEF Wait, Goto, TypeOK
  <1>17. ASSUME NEW p \in Procs, NEW time \in 1..MaxSleep, Sleep(p, time) PROVE QuitIInv'
    <2>1. \A r \in Procs : (state'[r] = "UNINIT") <=> (state[r] = "UNINIT")
      BY <1>17, RunningAt DEF Sleep, At, Goto, TypeOK, ControlInv, Fits
    <2> QED
      BY <1>17, <2>1, KernelThreads, QuitSame DEF Sleep, Goto, TypeOK
  <1>18. ASSUME NEW p \in Procs, Yield(p) PROVE QuitIInv'
    BY <1>18, KernelThreads, QuitSame DEF Yield, Goto, TypeOK
  <1>19. ASSUME NEW p \in Procs, NEW q \in Killable, Kill(p, q) PROVE QuitIInv'
    <2>1. \A r \in Procs : (state'[r] = "UNINIT") <=> (state[r] = "UNINIT")
      BY <1>19, KillEffect DEF Kill, At, Goto, TypeOK, ControlInv, Fits
    <2> QED
      BY <1>19, <2>1, KernelThreads, QuitSame DEF Kill, Goto, TypeOK
  <1>20. ASSUME NEW c \in UserProcs, InitFork(c) PROVE QuitIInv'
    <2>1. At(initproc, "init_fork") /\ do_fork(initproc, c, "wait", "execve")
      BY <1>20 DEF InitFork
    <2>2. /\ initproc = current /\ pc[initproc] = "init_fork" /\ state[initproc] = "RUNNABLE"
          /\ initproc # idleproc
      BY <2>1, KernelThreads, ProcAssumption, RunningAt DEF At
    <2> QED
      BY <2>1, <2>2, KernelThreads, QuitFork
  <1>21. ASSUME InitForkFail PROVE QuitIInv'
    BY <1>21, KernelThreads, QuitSame DEF InitForkFail, Goto, TypeOK
  <1>22. ASSUME InitDone PROVE QuitIInv'
    BY <1>22, KernelThreads, QuitSame DEF InitDone, Goto, TypeOK
  <1>23. ASSUME TickBegin PROVE QuitIInv'
    BY <1>23, KernelThreads, QuitSame DEF TickBegin, Goto, TypeOK
  <1>24. ASSUME NEW p \in Procs, TickExpire(p) PROVE QuitIInv'
    <2>1. pc[p] # "free"
      BY <1>24 DEF TickExpire, TimerOnStack, Unlinked
    <2>2. \A r \in Procs : (state'[r] = "UNINIT") <=> (state[r] = "UNINIT")
      BY <1>24, <2>1, WakeupEffect DEF TickExpire, ControlInv, Fits
    <2> QED
      BY <1>24, <2>2, QuitSame DEF TickExpire
  <1>25. ASSUME TickEnd PROVE QuitIInv'
    BY <1>25, KernelThreads, QuitSame DEF TickEnd, Goto, TypeOK
  <1>26. CASE UNCHANGED vars
    BY <1>26, QuitSame DEF vars
  <1> QED
    BY <1>1, <1>2, <1>3, <1>4, <1>5, <1>6, <1>7, <1>8, <1>9, <1>10, <1>11, <1>12, <1>13, <1>14, <1>15, <1>16, <1>17, <1>18, <1>19, <1>20, <1>21, <1>22, <1>23, <1>24, <1>25, <1>26
    DEF Next, KernelStep, UserStep, InitStep, TickStep, Halted

-------------------------------------------------------------------------------
(* The theorems                                                            *)

\* The state proc_init leaves satisfies the invariant.
LEMMA InitInv == Init => IInv
  <1> SUFFICES ASSUME Init PROVE IInv
    OBVIOUS
  <1>1. TypeOK
    <2>1. /\ state \in [Procs -> States] /\ wait_state \in [Procs -> WaitStates]
          /\ exiting \in [Procs -> BOOLEAN] /\ need_resched \in [Procs -> BOOLEAN]
      BY DEF Init, States, WaitStates
    <2>2. parent \in [Procs -> Procs] /\ waitpid \in [Procs -> Procs \cup {AnyChild}]
      BY KernelThreads DEF Init
    <2>3. time_slice \in [Procs -> 0..MAX_TIME_SLICE] /\ timer \in [Procs -> -1..MaxSleep]
      BY ProcAssumption DEF Init, Unlinked
    <2>4. pc \in [Procs -> PCs]
      BY DEF Init, PCs
    <2>5. rq \in Seq(Procs)
      <3>1. <<initproc>> \in Seq(Procs)
        BY KernelThreads
      <3> QED
        BY <3>1 DEF Init
    <2>6. current \in Procs /\ nr_process \in Nat /\ irq \in BOOLEAN
      BY KernelThreads DEF Init
    <2> QED
      BY <2>1, <2>2, <2>3, <2>4, <2>5, <2>6 DEF TypeOK
  <1>2. ControlInv
    BY ProcAssumption, KernelThreads DEF Init, ControlInv, Fits, Procs, Unlinked
  <1>3. RunQueueExact
    <2>1. \A y : Member(rq, y) <=> y = initproc
      BY DEF Init, Member
    <2>2. Distinct(rq)
      BY DEF Init, Distinct
    <2> QED
      BY <2>1, <2>2, ProcAssumption DEF Init, RunQueueExact, InQueue, Procs
  <1>4. TimerInv
    BY DEF Init, TimerInv, TimerOnStack, SleepNotCutShort, NoStaleTimer, Unlinked
  <1>5. NoOrphan /\ NoLostChild
    BY KernelThreads, ProcAssumption DEF Init, NoOrphan, NoLostChild, Live
  <1>6. CountExact
    <2>1. Live = {idleproc} \cup {initproc}
      BY ProcAssumption DEF Init, Live, Procs
    <2>2. IsFiniteSet({idleproc}) /\ Cardinality({idleproc}) = 1
      BY FS_Singleton
    <2>3. Cardinality({idleproc} \cup {initproc}) = 2
      BY <2>2, FS_AddElement, ProcAssumption
    <2> QED
      BY <2>1, <2>3 DEF Init, CountExact
  <1> QED
    BY <1>1, <1>2, <1>3, <1>4, <1>5, <1>6 DEF IInv

\* IInv is inductive.
THEOREM Invariance == Spec => []IInv
  <1>1. IInv /\ [Next]_vars => IInv'
    <2> SUFFICES ASSUME IInv, [Next]_vars PROVE IInv'
      OBVIOUS
    <2>1. /\ TypeOK /\ ControlInv /\ RunQueueExact /\ TimerInv /\ NoOrphan /\ NoLostChild
          /\ CountExact /\ TimerOnStack
      BY DEF IInv, TimerInv
    <2>2. TypeOK'
      BY <2>1, TypeStep
    <2>3. ControlInv'
      BY <2>1, <2>2, ControlStep
    <2>4. RunQueueExact'
      BY <2>1, QueueStep
    <2>5. TimerInv'
      BY <2>1, TimerStep
    <2>6. NoOrphan'
      BY <2>1, <2>2, <2>3, OrphanStep
    <2>7. NoLostChild'
      BY <2>1, <2>3, LostStep
    <2>8. CountExact'
      BY <2>1, CountStep
    <2> QED
      BY <2>2, <2>3, <2>4, <2>5, <2>6, <2>7, <2>8 DEF IInv
  <1> QED
    BY InitInv, <1>1, PTL DEF Spec

\* Every variable of proc.c, sched.c and trap.c keeps its type.
THEOREM TypeCorrect == Spec => []TypeOK
  <1>1. IInv => TypeOK
    BY DEF IInv
  <1> QED
    BY Invariance, <1>1, PTL

\* schedule() and wakeup_proc() keep the run queue equal to the set of processes
\* that are RUNNABLE and not running.
THEOREM QueueCorrect == Spec => []RunQueueExact
  <1>1. IInv => RunQueueExact
    BY DEF IInv
  <1> QED
    BY Invariance, <1>1, PTL

\* The assertion of wakeup_proc never fails: no waker can reach a zombie.
THEOREM WakeupCorrect == Spec => []WakeupLegal
  <1>1. IInv => WakeupLegal
    BY DEF IInv, TypeOK, States, TimerInv, TimerOnStack, ControlInv, Fits, WakeupLegal
  <1> QED
    BY Invariance, <1>1, PTL

\* A linked timer is on the stack of a do_sleep that has not returned, a do_sleep
\* that nobody kills stays asleep until its timer has expired, and run_timer_list
\* finds no timer that is at zero already when a tick begins.
THEOREM TimerCorrect == Spec => []TimerInv
  <1>1. IInv => TimerInv
    BY DEF IInv
  <1> QED
    BY Invariance, <1>1, PTL

\* do_exit leaves no process without a parent that can wait for it, and do_wait
\* cannot miss the do_exit of a child it waits for.
THEOREM FamilyCorrect == Spec => []FamilyInv
  <1>1. IInv => FamilyInv
    BY DEF IInv, FamilyInv
  <1> QED
    BY Invariance, <1>1, PTL

\* nr_process is the number of processes.
THEOREM CountCorrect == Spec => []CountExact
  <1>1. IInv => CountExact
    BY DEF IInv
  <1> QED
    BY Invariance, <1>1, PTL

\* A zombie is freed by its own parent, in do_wait, and by nobody else; until
\* then nothing brings it back.
THEOREM ReapCorrect == Spec => ReapedByParent
  <1> DEFINE Reap == \A p \in Procs : state[p] = "ZOMBIE" /\ state'[p] # "ZOMBIE" =>
                         /\ state'[p] = "UNINIT"
                         /\ current = parent[p] /\ pc[current] = "wait"
  <1>1. IInv /\ [Next]_vars => [Reap]_vars
    BY ReapStep DEF IInv, TimerInv
  <1> QED
    BY Invariance, <1>1, PTL DEF Spec, ReapedByParent

\* The assertions at the end of init_main hold: when its do_wait reports no more
\* children, only idleproc and initproc exist and nr_process is 2.
THEOREM QuitCorrect == Spec => []QuitClean
  <1>1. Init => QuitIInv
    <2> SUFFICES ASSUME Init PROVE QuitIInv
      OBVIOUS
    <2>1. Live \cap UserProcs = {}
      BY DEF Init, Live
    <2> QED
      BY <2>1, ProcAssumption, KernelThreads DEF Init, QuitIInv, Rooted
  <1>2. IInv /\ IInv' /\ QuitIInv /\ [Next]_vars => QuitIInv'
    BY QuitStep DEF IInv, TimerInv
  <1>3. Cardinality({idleproc, initproc}) = 2
    <2>1. IsFiniteSet({idleproc}) /\ Cardinality({idleproc}) = 1
      BY FS_Singleton
    <2>2. Cardinality({idleproc} \cup {initproc}) = 2
      BY <2>1, FS_AddElement, ProcAssumption
    <2>3. {idleproc, initproc} = {idleproc} \cup {initproc}
      OBVIOUS
    <2> QED
      BY <2>2, <2>3
  <1>4. IInv /\ QuitIInv => QuitClean
    BY <1>3 DEF IInv, CountExact, QuitIInv, QuitClean
  <1> QED
    BY Invariance, <1>1, <1>2, <1>4, PTL DEF Spec
=============================================================================
