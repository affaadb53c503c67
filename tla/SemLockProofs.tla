------------------------------- MODULE SemLockProofs -------------------------------
(***************************************************************************)
(* Proofs about the semaphores of kern/sync and the two programs that      *)
(* check_sync.c builds on them.                                            *)
(*                                                                         *)
(* For SemLock, with any number of processes and semaphores: no unit is    *)
(* lost or invented, the wait queues hold exactly the sleepers, and the    *)
(* assertion of down holds.  The conservation of units rests on everything *)
(* else: up() hands over to the head of the queue, so the head must be a   *)
(* process that sleeps in a down of that very semaphore and owns nothing   *)
(* yet (QueueExact), and a process that sleeps must be in a down at all    *)
(* (SleepsInDown).                                                         *)
(*                                                                         *)
(* For PhilSem and PhilMonitor, with any number of philosophers: forks are *)
(* exclusive, no hungry philosopher is forgotten, and the monitor admits   *)
(* one process at a time.  Both arguments follow a single baton, the       *)
(* critical section or the monitor, through every hand-over.               *)
(***************************************************************************)
EXTENDS SemLock, CheckSync, FiniteSetTheorems, TLAPS

\* A process sleeps nowhere but in a down.
SleepsInDown == \A p \in Procs : ~Awake(p) => pc[p] = "down"

\* The inductive invariant.
IInv ==
    /\ TypeOK
    /\ SleepsInDown
    /\ QueueExact
    /\ DownAssert
    /\ NoIdleUnit
    /\ UnitsConserved

-------------------------------------------------------------------------------
(* Wait queues                                                             *)

\* wait_queue_add puts its argument at the end and keeps the others.
LEMMA AddFacts ==
  ASSUME NEW P, NEW q \in Seq(P), NEW x \in P
  PROVE  /\ \A y : Member(Append(q, x), y) <=> Member(q, y) \/ y = x
         /\ Distinct(q) /\ ~Member(q, x) => Distinct(Append(q, x))
  <1>1. Len(q) \in Nat /\ Len(Append(q, x)) = Len(q) + 1 /\ Append(q, x)[Len(q) + 1] = x
    OBVIOUS
  <1>2. \A i \in 1..Len(q) : Append(q, x)[i] = q[i]
    OBVIOUS
  <1>3. \A y : Member(Append(q, x), y) <=> Member(q, y) \/ y = x
    BY <1>1, <1>2 DEF Member
  <1>4. ASSUME Distinct(q), ~Member(q, x) PROVE Distinct(Append(q, x))
    BY <1>1, <1>2, <1>4 DEF Member, Distinct
  <1> QED
    BY <1>3, <1>4

\* wakeup_first takes one process out of the queue, the head.
LEMMA FirstFacts ==
  ASSUME NEW P, NEW q \in Seq(P), q # <<>>, Distinct(q)
  PROVE  /\ Head(q) \in P /\ Member(q, Head(q))
         /\ Tail(q) \in Seq(P) /\ Distinct(Tail(q))
         /\ \A y : Member(Tail(q), y) <=> Member(q, y) /\ y # Head(q)
  <1>1. Len(q) \in Nat \ {0} /\ Len(Tail(q)) = Len(q) - 1 /\ Head(q) = q[1] /\ Head(q) \in P
    OBVIOUS
  <1>2. \A i \in 1..Len(Tail(q)) : Tail(q)[i] = q[i + 1]
    OBVIOUS
  <1>3. Member(q, Head(q)) /\ Tail(q) \in Seq(P)
    BY <1>1 DEF Member
  <1>4. Distinct(Tail(q))
    BY <1>1, <1>2 DEF Distinct
  <1>5. ASSUME NEW y, Member(Tail(q), y) PROVE Member(q, y) /\ y # Head(q)
    BY <1>1, <1>2, <1>5 DEF Member, Distinct
  <1>6. ASSUME NEW y, Member(q, y), y # Head(q) PROVE Member(Tail(q), y)
    <2>1. PICK i \in 1..Len(q) : q[i] = y
      BY <1>6 DEF Member
    <2>2. i - 1 \in 1..Len(Tail(q)) /\ Tail(q)[i - 1] = y
      BY <1>1, <1>2, <1>6, <2>1
    <2> QED
      BY <2>2 DEF Member
  <1> QED
    BY <1>1, <1>3, <1>4, <1>5, <1>6

\* Every set of owners is finite, so its size is a number.
LEMMA FiniteOwners ==
  \A s \in Sems : IsFiniteSet(Owners(s)) /\ Cardinality(Owners(s)) \in Nat
  <1> SUFFICES ASSUME NEW s \in Sems PROVE IsFiniteSet(Owners(s)) /\ Cardinality(Owners(s)) \in Nat
    OBVIOUS
  <1>1. Owners(s) \in SUBSET Procs
    BY DEF Owners
  <1>2. IsFiniteSet(Owners(s))
    BY <1>1, LockAssumption, FS_Subset
  <1> QED
    BY <1>2, FS_CardinalityType

-------------------------------------------------------------------------------
(* The invariant                                                           *)

\* sem_init leaves every unit in its semaphore and every queue empty.
LEMMA InitInv == Init => IInv
  <1> SUFFICES ASSUME Init PROVE IInv
    OBVIOUS
  <1>1. TypeOK
    BY LockAssumption DEF Init, SemInit, TypeOK, SemTypeOK
  <1>2. \A s \in Sems : Owners(s) = {}
    BY DEF Init, Owners
  <1>3. UnitsConserved
    <2>1. Cardinality({}) = 0
      BY FS_EmptySet
    <2>2. value = Units
      BY DEF Init, SemInit
    <2> QED
      BY <1>2, <2>1, <2>2, LockAssumption DEF UnitsConserved
  <1>4. SleepsInDown /\ DownAssert /\ NoIdleUnit
    BY DEF Init, SemInit, SleepsInDown, DownAssert, NoIdleUnit, Awake
  <1>5. QueueExact
    BY DEF Init, SemInit, QueueExact, Distinct, Member, Awake
  <1> QED
    BY <1>1, <1>3, <1>4, <1>5 DEF IInv

\* A step that moves one process p and leaves the owners of the other semaphores
\* alone keeps the balance when value and owners of s change by opposite amounts.
LEMMA Balance ==
  ASSUME IInv, NEW s \in Sems,
         \A x \in Sems : x # s => value'[x] = value[x] /\ Owners(x)' = Owners(x),
         value'[s] + Cardinality(Owners(s)') = value[s] + Cardinality(Owners(s))
  PROVE  UnitsConserved'
  BY DEF IInv, UnitsConserved

\* A unit is taken at once, by down or by try_down.
LEMMA TakeStep ==
  ASSUME IInv, NEW p \in Procs, NEW s \in Sems,
         pc[p] = "out", value[s] > 0,
         value' = [value EXCEPT ![s] = @ - 1],
         sem' = [sem EXCEPT ![p] = s],
         pc' = [pc EXCEPT ![p] = "in"],
         UNCHANGED <<wait_queue, wait_state, wakeup_flags, exiting>>
  PROVE  IInv'
  <1> USE DEF IInv
  <1>1. TypeOK'
    BY DEF TypeOK, SemTypeOK
  <1>2. SleepsInDown' /\ DownAssert' /\ NoIdleUnit'
    BY DEF TypeOK, SemTypeOK, SleepsInDown, DownAssert, NoIdleUnit, Awake
  <1>3. QueueExact'
    BY DEF TypeOK, SemTypeOK, QueueExact, Awake
  <1>4. Owners(s)' = Owners(s) \cup {p} /\ p \notin Owners(s)
    BY DEF TypeOK, Owners, Awake
  <1>5. Cardinality(Owners(s)') = Cardinality(Owners(s)) + 1
    BY <1>4, FiniteOwners, FS_AddElement
  <1>6. \A x \in Sems : x # s => value'[x] = value[x] /\ Owners(x)' = Owners(x)
    BY DEF TypeOK, SemTypeOK, Owners, Awake
  <1>7. value'[s] = value[s] - 1 /\ value[s] \in Nat
    BY DEF TypeOK, SemTypeOK
  <1>8. UnitsConserved'
    <2>1. Cardinality(Owners(s)) \in Nat
      BY FiniteOwners
    <2>2. value'[s] + Cardinality(Owners(s)') = value[s] + Cardinality(Owners(s))
      BY <1>5, <1>7, <2>1
    <2> QED
      BY <1>6, <2>2, Balance
  <1> QED
    BY <1>1, <1>2, <1>3, <1>8

\* No unit is there: p queues up and sleeps.
LEMMA SleepStep ==
  ASSUME IInv, NEW p \in Procs, NEW s \in Sems, Down(p, s), ~(value[s] > 0)
  PROVE  IInv'
  <1> USE DEF IInv
  <1>0. /\ pc[p] = "out"
        /\ value' = value
        /\ wait_queue' = [wait_queue EXCEPT ![s] = Append(@, p)]
        /\ wait_state' = [wait_state EXCEPT ![p] = "WT_KSEM"]
        /\ wakeup_flags' = [wakeup_flags EXCEPT ![p] = "WT_INTERRUPTED"]
        /\ sem' = [sem EXCEPT ![p] = s]
        /\ pc' = [pc EXCEPT ![p] = "down"]
        /\ exiting' = exiting
    BY DEF Down, down
  <1>1. TypeOK'
    BY <1>0 DEF TypeOK, SemTypeOK
  <1>2. SleepsInDown' /\ DownAssert' /\ NoIdleUnit'
    BY <1>0 DEF TypeOK, SemTypeOK, SleepsInDown, DownAssert, NoIdleUnit, Awake
  <1>3. QueueExact'
    <2>1. \A x \in Sems : ~Member(wait_queue[x], p)
      BY <1>0 DEF QueueExact
    <2>2. wait_queue[s] \in Seq(Procs)
      BY DEF TypeOK, SemTypeOK
    <2>3. /\ Distinct(wait_queue'[s])
          /\ \A y : Member(wait_queue'[s], y) <=> Member(wait_queue[s], y) \/ y = p
      BY <1>0, <2>1, <2>2, AddFacts DEF QueueExact, TypeOK, SemTypeOK
    <2>4. \A x \in Sems : x # s => wait_queue'[x] = wait_queue[x]
      BY <1>0 DEF TypeOK, SemTypeOK
    <2>5. \A y \in Procs : y # p => pc'[y] = pc[y] /\ sem'[y] = sem[y] /\ wait_state'[y] = wait_state[y]
      BY <1>0 DEF TypeOK, SemTypeOK
    <2>6. pc'[p] = "down" /\ sem'[p] = s /\ wait_state'[p] = "WT_KSEM"
      BY <1>0 DEF TypeOK, SemTypeOK
    <2> QED
      BY <2>1, <2>3, <2>4, <2>5, <2>6 DEF QueueExact, Awake
  <1>4. \A x \in Sems : Owners(x)' = Owners(x)
    BY <1>0 DEF TypeOK, SemTypeOK, Owners, Awake
  <1>5. UnitsConserved'
    BY <1>0, <1>4 DEF UnitsConserved
  <1> QED
    BY <1>1, <1>2, <1>3, <1>5

\* The process that up() chose goes on: its wait_t is off the queue already.
LEMMA WokenStep ==
  ASSUME IInv, NEW p \in Procs, DownWoken(p)
  PROVE  IInv'
  <1> USE DEF IInv
  <1>1. ~Member(wait_queue[sem[p]], p)
    BY DEF DownWoken, QueueExact, TypeOK
  <1>2. /\ pc[p] = "down" /\ Awake(p)
        /\ pc' = [pc EXCEPT ![p] = "in"]
        /\ UNCHANGED <<value, wait_queue, wait_state, wakeup_flags, sem, exiting>>
    BY <1>1 DEF DownWoken
  <1>3. TypeOK'
    BY <1>2 DEF TypeOK, SemTypeOK
  <1>4. SleepsInDown' /\ DownAssert' /\ NoIdleUnit'
    BY <1>2 DEF TypeOK, SleepsInDown, DownAssert, NoIdleUnit, Awake
  <1>5. QueueExact'
    BY <1>2 DEF TypeOK, QueueExact, Awake
  <1>6. \A x \in Sems : Owners(x)' = Owners(x)
    BY <1>2 DEF TypeOK, Owners, Awake
  <1>7. UnitsConserved'
    BY <1>2, <1>6 DEF UnitsConserved
  <1> QED
    BY <1>3, <1>4, <1>5, <1>7

\* up() with nobody waiting: the unit goes back into the semaphore.
LEMMA GiveBackStep ==
  ASSUME IInv, NEW p \in Procs, Up(p), wait_queue[sem[p]] = <<>>
  PROVE  IInv'
  <1> USE DEF IInv
  <1> DEFINE s == sem[p]
  <1>0. /\ s \in Sems /\ pc[p] = "in"
        /\ value' = [value EXCEPT ![s] = @ + 1]
        /\ pc' = [pc EXCEPT ![p] = "out"]
        /\ UNCHANGED <<wait_queue, wait_state, wakeup_flags, sem, exiting>>
    BY DEF Up, up, TypeOK
  <1>1. TypeOK'
    BY <1>0 DEF TypeOK, SemTypeOK
  <1>2. SleepsInDown' /\ DownAssert' /\ NoIdleUnit'
    BY <1>0 DEF TypeOK, SemTypeOK, SleepsInDown, DownAssert, NoIdleUnit, Awake
  <1>3. QueueExact'
    BY <1>0 DEF TypeOK, QueueExact, Awake
  <1>4. Owners(s)' = Owners(s) \ {p} /\ p \in Owners(s)
    BY <1>0 DEF TypeOK, Owners, Awake, SleepsInDown
  <1>5. Cardinality(Owners(s)') = Cardinality(Owners(s)) - 1
    BY <1>0, <1>4, FiniteOwners, FS_RemoveElement
  <1>6. \A x \in Sems : x # s => value'[x] = value[x] /\ Owners(x)' = Owners(x)
    BY <1>0 DEF TypeOK, SemTypeOK, Owners, Awake
  <1>7. value'[s] = value[s] + 1 /\ value[s] \in Nat /\ Cardinality(Owners(s)) \in Nat
    BY <1>0, FiniteOwners DEF TypeOK, SemTypeOK
  <1>8. value'[s] + Cardinality(Owners(s)') = value[s] + Cardinality(Owners(s))
    BY <1>5, <1>7
  <1>9. UnitsConserved'
    BY <1>0, <1>6, <1>8, Balance
  <1> QED
    BY <1>1, <1>2, <1>3, <1>9

\* up() with a waiter: the unit goes from p to the head of the queue, who is
\* somebody else, and the value stays what it was.
LEMMA HandOverStep ==
  ASSUME IInv, NEW p \in Procs, Up(p), wait_queue[sem[p]] # <<>>
  PROVE  IInv'
  <1> USE DEF IInv
  <1> DEFINE s == sem[p]
             h == Head(wait_queue[s])
  <1>0. /\ s \in Sems /\ pc[p] = "in"
        /\ wait_queue[s] \in Seq(Procs) /\ Distinct(wait_queue[s]) /\ wait_queue[s] # <<>>
        /\ value' = value
        /\ wait_queue' = [wait_queue EXCEPT ![s] = Tail(@)]
        /\ wait_state' = [wait_state EXCEPT ![h] = "none"]
        /\ wakeup_flags' = [wakeup_flags EXCEPT ![h] = "WT_KSEM"]
        /\ pc' = [pc EXCEPT ![p] = "out"]
        /\ UNCHANGED <<sem, exiting>>
    BY DEF Up, up, TypeOK, SemTypeOK, QueueExact
  <1>1. /\ h \in Procs /\ Member(wait_queue[s], h)
        /\ Tail(wait_queue[s]) \in Seq(Procs) /\ Distinct(Tail(wait_queue[s]))
        /\ \A y : Member(Tail(wait_queue[s]), y) <=> Member(wait_queue[s], y) /\ y # h
    BY <1>0, FirstFacts
  <1>2. pc[h] = "down" /\ sem[h] = s /\ ~Awake(h) /\ h # p
    BY <1>0, <1>1 DEF QueueExact
  <1> HIDE DEF h
  <1>3. TypeOK'
    BY <1>0, <1>1 DEF TypeOK, SemTypeOK
  <1>4. /\ wait_state'[h] = "none" /\ wakeup_flags'[h] = "WT_KSEM"
        /\ \A y \in Procs : y # h => wait_state'[y] = wait_state[y] /\ wakeup_flags'[y] = wakeup_flags[y]
        /\ pc'[p] = "out" /\ \A y \in Procs : y # p => pc'[y] = pc[y]
        /\ wait_queue'[s] = Tail(wait_queue[s])
        /\ \A x \in Sems : x # s => wait_queue'[x] = wait_queue[x]
    BY <1>0, <1>1 DEF TypeOK, SemTypeOK
  <1>5. Awake(p)
    BY <1>0 DEF SleepsInDown
  <1>6. SleepsInDown' /\ DownAssert'
    BY <1>2, <1>4, <1>5 DEF SleepsInDown, DownAssert, Awake
  <1>7. NoIdleUnit'
    BY <1>0, <1>4 DEF NoIdleUnit, TypeOK, SemTypeOK
  <1>8. QueueExact'
    BY <1>0, <1>1, <1>2, <1>4 DEF QueueExact, Awake
  <1>9. UnitsConserved'
    <2>1. \A x \in Sems : x # s => Owners(x)' = Owners(x)
      BY <1>0, <1>2, <1>4 DEF Owners, Awake
    <2>2. /\ Owners(s)' = (Owners(s) \ {p}) \cup {h}
          /\ p \in Owners(s) /\ h \notin Owners(s)
      BY <1>0, <1>1, <1>2, <1>4, <1>5 DEF Owners, Awake
    <2>3. /\ IsFiniteSet(Owners(s) \ {p})
          /\ Cardinality(Owners(s) \ {p}) = Cardinality(Owners(s)) - 1
      BY <1>0, <2>2, FiniteOwners, FS_RemoveElement
    <2>4. Cardinality(Owners(s)') = Cardinality(Owners(s) \ {p}) + 1
      BY <2>2, <2>3, FS_AddElement
    <2>5. Cardinality(Owners(s)) \in Nat
      BY <1>0, FiniteOwners
    <2>6. value'[s] + Cardinality(Owners(s)') = value[s] + Cardinality(Owners(s))
      BY <1>0, <2>3, <2>4, <2>5
    <2> QED
      BY <1>0, <2>1, <2>6, Balance
  <1> QED
    BY <1>3, <1>6, <1>7, <1>8, <1>9

\* do_kill only sets the flag: WT_KSEM is no interruptible wait state.
LEMMA KillStep ==
  ASSUME IInv, NEW p \in Procs, Kill(p)
  PROVE  IInv'
  <1> USE DEF IInv
  <1>1. /\ exiting' = [exiting EXCEPT ![p] = TRUE]
        /\ UNCHANGED <<value, wait_queue, wait_state, wakeup_flags, pc, sem>>
    BY DEF Kill, interruptible, TypeOK, SemTypeOK
  <1>2. TypeOK'
    BY <1>1 DEF TypeOK, SemTypeOK
  <1> QED
    BY <1>1, <1>2 DEF SleepsInDown, QueueExact, DownAssert, NoIdleUnit, UnitsConserved, Owners, Awake

\* IInv holds in every reachable state.
THEOREM Invariance == Spec => []IInv
  <1>1. IInv /\ [Next]_vars => IInv'
    <2> SUFFICES ASSUME IInv, [Next]_vars PROVE IInv'
      OBVIOUS
    <2>1. ASSUME NEW p \in Procs, NEW s \in Sems, Down(p, s) PROVE IInv'
      <3>1. CASE value[s] > 0
        BY <2>1, <3>1, TakeStep DEF Down, down
      <3> QED
        BY <2>1, <3>1, SleepStep
    <2>2. ASSUME NEW p \in Procs, NEW s \in Sems, TryDown(p, s) PROVE IInv'
      BY <2>2, TakeStep DEF TryDown
    <2>3. ASSUME NEW p \in Procs, Up(p) PROVE IInv'
      BY <2>3, GiveBackStep, HandOverStep
    <2>4. CASE UNCHANGED vars
      BY <2>4 DEF vars, IInv, TypeOK, SemTypeOK, SleepsInDown, QueueExact, DownAssert,
                  NoIdleUnit, UnitsConserved, Owners, Awake
    <2> QED
      BY <2>1, <2>2, <2>3, <2>4, WokenStep, KillStep DEF Next, Step
  <1> QED
    BY InitInv, <1>1, PTL DEF Spec

\* No unit of a semaphore is lost or invented, for any number of processes, so a
\* semaphore with one unit is a lock; and nobody waits for a semaphore with a unit.
THEOREM UnitsCorrect == Spec => []UnitsInv
  <1>1. IInv => UnitsInv
    BY DEF IInv, UnitsInv
  <1> QED
    BY Invariance, <1>1, PTL

\* A wait queue holds exactly the processes that sleep in a down of its semaphore.
THEOREM QueueCorrect == Spec => []QueueExact
  <1>1. IInv => QueueExact
    BY DEF IInv
  <1> QED
    BY Invariance, <1>1, PTL

\* The assertion of down holds whenever a process returns from its wait.
THEOREM AssertCorrect == Spec => []DownAssert
  <1>1. IInv => DownAssert
    BY DEF IInv
  <1> QED
    BY Invariance, <1>1, PTL

-------------------------------------------------------------------------------
(* The dining philosophers with semaphores                                 *)

Forks == {Sema!mutex} \cup {Sema!s(i) : i \in Sema!Phils}

\* i is inside the critical section of check_sync.c.
Crit(i) == sm_state[i] = "none" /\ sm_pc[i] \in {"take_in", "take_out", "put_left", "put_right", "put_out"}

PhilType ==
    /\ sm_value \in [Forks -> Nat]
    /\ sm_queue \in [Forks -> Seq(Sema!Phils)]
    /\ sm_state \in [Sema!Phils -> {"none", "WT_KSEM"}]
    /\ state_sema \in [Sema!Phils -> {"THINKING", "HUNGRY", "EATING"}]
    /\ sm_pc \in [Sema!Phils -> {"think", "take", "take_in", "take_out", "take_wait", "eat",
                               "put_left", "put_right", "put_out", "quit"}]

\* One philosopher is inside at most, and then the mutex has no unit.
Door ==
    /\ sm_value[Sema!mutex] \in {0, 1}
    /\ \A i \in Sema!Phils : Crit(i) => sm_value[Sema!mutex] = 0
    /\ \A i, j \in Sema!Phils : Crit(i) /\ Crit(j) => i = j
    /\ Distinct(sm_queue[Sema!mutex])

\* Where i sleeps, what its state_sema is at each place, and when its semaphore
\* has a unit: from the moment it may eat until it takes the unit.
Seat(i) ==
    /\ sm_state[i] # "none" => sm_pc[i] \in {"take_in", "put_left", "eat"}
    /\ Member(sm_queue[Sema!mutex], i) <=> sm_state[i] # "none" /\ sm_pc[i] \in {"take_in", "put_left"}
    /\ sm_queue[Sema!s(i)] = IF sm_state[i] # "none" /\ sm_pc[i] = "eat" THEN <<i>> ELSE <<>>
    /\ sm_value[Sema!s(i)] = IF sm_pc[i] \in {"take_out", "take_wait"} /\ state_sema[i] = "EATING" THEN 1 ELSE 0
    /\ sm_pc[i] \in {"think", "take", "take_in", "put_right", "put_out", "quit"} => state_sema[i] = "THINKING"
    /\ sm_pc[i] \in {"take_out", "take_wait"} => state_sema[i] # "THINKING"
    /\ sm_pc[i] = "eat" => state_sema[i] = IF sm_state[i] = "none" THEN "EATING" ELSE "HUNGRY"
    /\ sm_pc[i] = "put_left" => state_sema[i] = "EATING"

Apart == \A i \in Sema!Phils : ~(state_sema[i] = "EATING" /\ state_sema[Sema!RIGHT(i)] = "EATING")

\* A philosopher who could eat is the one that a phi_put_forks_sema in progress
\* has still to look at.
Passed == \A j \in Sema!Phils : Sema!MayEat(j, state_sema) =>
    \E i \in Sema!Phils : sm_pc[i] = "put_right" /\ j = Sema!RIGHT(i)

PhilInv == PhilType /\ Door /\ (\A i \in Sema!Phils : Seat(i)) /\ Apart /\ Passed

\* The neighbours of a philosopher.
LEMMA Around ==
  ASSUME Sema!PhilAssumption, NEW i \in Sema!Phils
  PROVE  /\ Sema!LEFT(i) \in Sema!Phils \ {i} /\ Sema!RIGHT(i) \in Sema!Phils \ {i}
         /\ Sema!RIGHT(Sema!LEFT(i)) = i /\ Sema!LEFT(Sema!RIGHT(i)) = i
  <1>1. SemaN \in Nat /\ SemaN > 2 /\ i \in 0..SemaN - 1
    BY DEF Sema!PhilAssumption, Sema!Phils
  <1>2. \A k \in 0..SemaN - 1 : /\ Sema!RIGHT(k) = IF k = SemaN - 1 THEN 0 ELSE k + 1
                               /\ Sema!LEFT(k) = IF k = 0 THEN SemaN - 1 ELSE k - 1
    BY <1>1 DEF Sema!RIGHT, Sema!LEFT
  <1> QED
    BY <1>1, <1>2 DEF Sema!Phils

\* The semaphores are different ones.
LEMMA ForksDiffer ==
  /\ Sema!mutex \in Forks
  /\ \A i \in Sema!Phils : Sema!s(i) \in Forks /\ Sema!s(i) # Sema!mutex
  /\ \A i, j \in Sema!Phils : Sema!s(i) = Sema!s(j) => i = j
  BY DEF Forks, Sema!mutex, Sema!s

\* Only one seat changes: what the others are made of stays.
LEMMA SeatSame ==
  ASSUME NEW k \in Sema!Phils, Seat(k),
         sm_pc'[k] = sm_pc[k], sm_state'[k] = sm_state[k], state_sema'[k] = state_sema[k],
         sm_value'[Sema!s(k)] = sm_value[Sema!s(k)], sm_queue'[Sema!s(k)] = sm_queue[Sema!s(k)],
         Member(sm_queue'[Sema!mutex], k) <=> Member(sm_queue[Sema!mutex], k)
  PROVE  Seat(k)'
  BY DEF Seat

\* The loop of a philosopher: nothing but its place changes.
LEMMA ThinkStep ==
  ASSUME Sema!PhilAssumption, PhilInv, NEW i \in Sema!Phils, Sema!Think(i)
  PROVE  PhilInv'
  <1> USE DEF PhilInv
  <1>1. /\ sm_pc[i] = "think" /\ sm_state[i] = "none"
        /\ sm_pc' = [sm_pc EXCEPT ![i] = "take"] \/ sm_pc' = [sm_pc EXCEPT ![i] = "quit"]
        /\ UNCHANGED <<sm_value, sm_queue, sm_state, state_sema>>
    BY DEF Sema!Think, Sema!At, Sema!Awake, Sema!Goto, Sema!sems
  <1>2. PhilType'
    BY <1>1 DEF PhilType
  <1>3. sm_pc'[i] \in {"take", "quit"} /\ \A k \in Sema!Phils \ {i} : sm_pc'[k] = sm_pc[k]
    BY <1>1 DEF PhilType
  <1>4. Door' /\ Apart'
    BY <1>1, <1>3 DEF Door, Crit, Apart
  <1>5. ASSUME NEW k \in Sema!Phils PROVE Seat(k)'
    <2>1. CASE k = i
      BY <1>1, <1>3, <2>1 DEF Seat
    <2>2. CASE k # i
      BY <1>1, <1>3, <2>2, SeatSame
    <2> QED
      BY <2>1, <2>2
  <1>6. Passed'
    <2>1. \A k \in Sema!Phils : sm_pc[k] = "put_right" => sm_pc'[k] = "put_right"
      BY <1>1, <1>3
    <2>2. state_sema' = state_sema
      BY <1>1
    <2> QED
      BY <2>1, <2>2 DEF Passed, Sema!MayEat
  <1> QED
    BY <1>2, <1>4, <1>5, <1>6

\* The entry of the critical section, from sm_pc "take" or "eat".
LEMMA EntryStep ==
  ASSUME Sema!PhilAssumption, PhilInv, NEW i \in Sema!Phils, Sema!Take(i) \/ Sema!Put(i)
  PROVE  PhilInv'
  <1> USE DEF PhilInv
  <1> DEFINE m == Sema!mutex
  <1>1. PICK to \in {"take_in", "put_left"} :
           /\ sm_pc[i] = (IF to = "take_in" THEN "take" ELSE "eat") /\ sm_state[i] = "none"
           /\ sm_pc' = [sm_pc EXCEPT ![i] = to] /\ Sema!down(i, Sema!mutex) /\ state_sema' = state_sema
    BY DEF Sema!Take, Sema!Put, Sema!At, Sema!Awake, Sema!Goto
  <1>2. \A k \in Sema!Phils : Sema!s(k) \in Forks /\ Sema!s(k) # m /\ m \in Forks
    BY ForksDiffer
  <1>3. sm_pc'[i] = to /\ \A k \in Sema!Phils \ {i} : sm_pc'[k] = sm_pc[k]
    BY <1>1 DEF PhilType
  <1>4. Seat(i) /\ ~Member(sm_queue[m], i)
    BY <1>1 DEF Seat
  <1>5. Apart'
    BY <1>1 DEF Apart
  <1>6. Passed'
    <2>1. \A k \in Sema!Phils : sm_pc[k] = "put_right" => sm_pc'[k] = "put_right"
      BY <1>1, <1>3
    <2>2. state_sema' = state_sema
      BY <1>1
    <2> QED
      BY <2>1, <2>2 DEF Passed, Sema!MayEat
  <1>7. CASE sm_value[m] > 0
    <2>1. sm_value' = [sm_value EXCEPT ![m] = @ - 1] /\ sm_queue' = sm_queue /\ sm_state' = sm_state
      BY <1>1, <1>7 DEF Sema!down
    <2>2. sm_value[m] = 1 /\ sm_value'[m] = 0 /\ \A k \in Sema!Phils : sm_value'[Sema!s(k)] = sm_value[Sema!s(k)]
      BY <1>2, <1>7, <2>1 DEF PhilType, Door
    <2>3. PhilType'
      BY <1>1, <1>2, <1>7, <2>1, <2>2 DEF PhilType
    <2>4. \A k \in Sema!Phils : ~Crit(k)
      BY <2>2 DEF Door
    <2>5. \A k \in Sema!Phils : Crit(k)' => k = i
      BY <1>3, <2>1, <2>4 DEF Crit
    <2>6. Door'
      BY <2>1, <2>2, <2>5 DEF Door
    <2>7. ASSUME NEW k \in Sema!Phils PROVE Seat(k)'
      <3>1. CASE k = i
        BY <1>1, <1>3, <1>4, <2>1, <2>2, <3>1 DEF Seat
      <3>2. CASE k # i
        BY <1>1, <1>3, <2>1, <2>2, <3>2, SeatSame
      <3> QED
        BY <3>1, <3>2
    <2> QED
      BY <1>5, <1>6, <2>3, <2>6, <2>7
  <1>8. CASE ~(sm_value[m] > 0)
    <2>1. /\ sm_queue' = [sm_queue EXCEPT ![m] = Append(@, i)]
          /\ sm_state' = [sm_state EXCEPT ![i] = "WT_KSEM"] /\ sm_value' = sm_value
      BY <1>1, <1>8 DEF Sema!down
    <2>2. /\ sm_queue[m] \in Seq(Sema!Phils) /\ sm_queue'[m] = Append(sm_queue[m], i)
          /\ \A k \in Sema!Phils : sm_queue'[Sema!s(k)] = sm_queue[Sema!s(k)]
          /\ sm_state'[i] = "WT_KSEM" /\ \A k \in Sema!Phils \ {i} : sm_state'[k] = sm_state[k]
      BY <1>2, <2>1 DEF PhilType
    <2>3. /\ \A y : Member(sm_queue'[m], y) <=> Member(sm_queue[m], y) \/ y = i
          /\ Distinct(sm_queue'[m])
      BY <1>4, <2>2, AddFacts DEF Door
    <2>4. PhilType'
      BY <1>1, <1>2, <2>1 DEF PhilType
    <2>5. \A k \in Sema!Phils : Crit(k)' => Crit(k)
      BY <1>3, <2>2 DEF Crit
    <2>6. Door'
      BY <2>1, <2>3, <2>5 DEF Door
    <2>7. ASSUME NEW k \in Sema!Phils PROVE Seat(k)'
      <3>1. CASE k = i
        BY <1>1, <1>3, <1>4, <2>1, <2>2, <2>3, <3>1 DEF Seat
      <3>2. CASE k # i
        BY <1>1, <1>3, <2>1, <2>2, <2>3, <3>2, SeatSame
      <3> QED
        BY <3>1, <3>2
    <2> QED
      BY <1>5, <1>6, <2>4, <2>6, <2>7
  <1> QED
    BY <1>7, <1>8

\* The exit of the critical section: the mutex is given back, or handed to the
\* first that waits.
LEMMA LeaveStep ==
  ASSUME Sema!PhilAssumption, PhilInv, NEW i \in Sema!Phils, Sema!TakeOut(i) \/ Sema!PutOut(i)
  PROVE  PhilInv'
  <1> USE DEF PhilInv
  <1> DEFINE m == Sema!mutex
  <1>1. PICK to \in {"take_wait", "think"} :
           /\ sm_pc[i] = (IF to = "take_wait" THEN "take_out" ELSE "put_out") /\ sm_state[i] = "none"
           /\ sm_pc' = [sm_pc EXCEPT ![i] = to] /\ Sema!up(Sema!mutex) /\ state_sema' = state_sema
    BY DEF Sema!TakeOut, Sema!PutOut, Sema!At, Sema!Awake, Sema!Goto
  <1>2. \A k \in Sema!Phils : Sema!s(k) \in Forks /\ Sema!s(k) # m /\ m \in Forks
    BY ForksDiffer
  <1>3. sm_pc'[i] = to /\ \A k \in Sema!Phils \ {i} : sm_pc'[k] = sm_pc[k]
    BY <1>1 DEF PhilType
  <1>4. Seat(i) /\ Crit(i) /\ sm_value[m] = 0 /\ \A k \in Sema!Phils \ {i} : ~Crit(k)
    BY <1>1 DEF Crit, Door
  <1>5. Apart'
    BY <1>1 DEF Apart
  <1>6. Passed'
    <2>1. \A k \in Sema!Phils : sm_pc[k] = "put_right" => sm_pc'[k] = "put_right"
      BY <1>1, <1>3
    <2>2. state_sema' = state_sema
      BY <1>1
    <2> QED
      BY <2>1, <2>2 DEF Passed, Sema!MayEat
  <1>7. CASE sm_queue[m] = <<>>
    <2>1. sm_value' = [sm_value EXCEPT ![m] = @ + 1] /\ sm_queue' = sm_queue /\ sm_state' = sm_state
      BY <1>1, <1>7 DEF Sema!up
    <2>2. sm_value'[m] = 1 /\ \A k \in Sema!Phils : sm_value'[Sema!s(k)] = sm_value[Sema!s(k)]
      BY <1>2, <1>4, <2>1 DEF PhilType
    <2>3. PhilType'
      BY <1>1, <1>2, <2>1 DEF PhilType
    <2>4. \A k \in Sema!Phils : ~Crit(k)'
      BY <1>1, <1>3, <1>4, <2>1 DEF Crit
    <2>5. Door'
      BY <2>1, <2>2, <2>4 DEF Door
    <2>6. ASSUME NEW k \in Sema!Phils PROVE Seat(k)'
      <3>1. CASE k = i
        BY <1>1, <1>3, <1>4, <2>1, <2>2, <3>1 DEF Seat
      <3>2. CASE k # i
        BY <1>1, <1>3, <2>1, <2>2, <3>2, SeatSame
      <3> QED
        BY <3>1, <3>2
    <2> QED
      BY <1>5, <1>6, <2>3, <2>5, <2>6
  <1>8. CASE sm_queue[m] # <<>>
    <2> DEFINE q == Head(sm_queue[m])
    <2>1. /\ sm_queue' = [sm_queue EXCEPT ![m] = Tail(@)]
          /\ sm_state' = [sm_state EXCEPT ![q] = "none"] /\ sm_value' = sm_value
      BY <1>1, <1>8 DEF Sema!up
    <2>2. sm_queue[m] \in Seq(Sema!Phils) /\ Distinct(sm_queue[m])
      BY <1>2 DEF PhilType, Door
    <2>3. /\ q \in Sema!Phils /\ Member(sm_queue[m], q)
          /\ Tail(sm_queue[m]) \in Seq(Sema!Phils) /\ Distinct(Tail(sm_queue[m]))
          /\ \A y : Member(Tail(sm_queue[m]), y) <=> Member(sm_queue[m], y) /\ y # q
      BY <1>8, <2>2, FirstFacts
    <2> HIDE DEF q
    <2>4. Seat(q) /\ sm_state[q] # "none" /\ sm_pc[q] \in {"take_in", "put_left"} /\ q # i
      BY <1>1, <2>3 DEF Seat
    <2>5. /\ sm_queue'[m] = Tail(sm_queue[m])
          /\ \A k \in Sema!Phils : sm_queue'[Sema!s(k)] = sm_queue[Sema!s(k)]
          /\ sm_state'[q] = "none" /\ \A k \in Sema!Phils \ {q} : sm_state'[k] = sm_state[k]
      BY <1>2, <2>1, <2>3 DEF PhilType
    <2>6. PhilType'
      BY <1>1, <1>2, <2>1, <2>3 DEF PhilType
    <2>7. \A k \in Sema!Phils : Crit(k)' => k = q
      BY <1>1, <1>3, <1>4, <2>5 DEF Crit
    <2>8. Door'
      BY <1>4, <2>1, <2>3, <2>5, <2>7 DEF Door
    <2>9. ASSUME NEW k \in Sema!Phils PROVE Seat(k)'
      <3>1. CASE k = i
        BY <1>1, <1>3, <1>4, <2>1, <2>3, <2>4, <2>5, <3>1 DEF Seat
      <3>2. CASE k = q
        BY <1>1, <1>3, <2>1, <2>3, <2>4, <2>5, <3>2 DEF Seat
      <3>3. CASE k # i /\ k # q
        BY <1>1, <1>3, <2>1, <2>3, <2>5, <3>3, SeatSame
      <3> QED
        BY <3>1, <3>2, <3>3
    <2> QED
      BY <1>5, <1>6, <2>6, <2>8, <2>9
  <1> QED
    BY <1>7, <1>8

\* i waits for its forks, or has them.
LEMMA TakeWaitStep ==
  ASSUME Sema!PhilAssumption, PhilInv, NEW i \in Sema!Phils, Sema!TakeWait(i)
  PROVE  PhilInv'
  <1> USE DEF PhilInv
  <1> DEFINE m == Sema!mutex
             f == Sema!s(i)
  <1>1. /\ sm_pc[i] = "take_wait" /\ sm_state[i] = "none" /\ sm_pc' = [sm_pc EXCEPT ![i] = "eat"]
        /\ Sema!down(i, Sema!s(i)) /\ state_sema' = state_sema
    BY DEF Sema!TakeWait, Sema!At, Sema!Awake, Sema!Goto
  <1>2. /\ m \in Forks /\ f \in Forks /\ f # m
        /\ \A k \in Sema!Phils \ {i} : Sema!s(k) \in Forks /\ Sema!s(k) # f
    BY ForksDiffer
  <1>3. sm_pc'[i] = "eat" /\ \A k \in Sema!Phils \ {i} : sm_pc'[k] = sm_pc[k]
    BY <1>1 DEF PhilType
  <1>4. Seat(i) /\ sm_queue[f] = <<>> /\ ~Member(sm_queue[m], i)
    BY <1>1 DEF Seat
  <1>5. Apart'
    BY <1>1 DEF Apart
  <1>6. Passed'
    <2>1. \A k \in Sema!Phils : sm_pc[k] = "put_right" => sm_pc'[k] = "put_right"
      BY <1>1, <1>3
    <2>2. state_sema' = state_sema
      BY <1>1
    <2> QED
      BY <2>1, <2>2 DEF Passed, Sema!MayEat
  <1> HIDE DEF f
  <1>7. CASE sm_value[f] > 0
    <2>1. sm_value' = [sm_value EXCEPT ![f] = @ - 1] /\ sm_queue' = sm_queue /\ sm_state' = sm_state
      BY <1>1, <1>7 DEF Sema!down, f
    <2>2. sm_value[f] = 1 /\ state_sema[i] = "EATING"
      BY <1>4, <1>7 DEF Seat, f
    <2>3. /\ sm_value'[f] = 0 /\ sm_value'[m] = sm_value[m]
          /\ \A k \in Sema!Phils \ {i} : sm_value'[Sema!s(k)] = sm_value[Sema!s(k)]
      BY <1>2, <2>1, <2>2 DEF PhilType
    <2>4. PhilType'
      BY <1>1, <1>2, <2>1, <2>2 DEF PhilType
    <2>5. Door'
      BY <1>1, <1>3, <2>1, <2>3 DEF Door, Crit
    <2>6. ASSUME NEW k \in Sema!Phils PROVE Seat(k)'
      <3>1. CASE k = i
        BY <1>1, <1>3, <1>4, <2>1, <2>2, <2>3, <3>1 DEF Seat, f
      <3>2. CASE k # i
        BY <1>1, <1>3, <2>1, <2>3, <3>2, SeatSame
      <3> QED
        BY <3>1, <3>2
    <2> QED
      BY <1>5, <1>6, <2>4, <2>5, <2>6
  <1>8. CASE ~(sm_value[f] > 0)
    <2>1. /\ sm_queue' = [sm_queue EXCEPT ![f] = Append(@, i)]
          /\ sm_state' = [sm_state EXCEPT ![i] = "WT_KSEM"] /\ sm_value' = sm_value
      BY <1>1, <1>8 DEF Sema!down, f
    <2>2. state_sema[i] = "HUNGRY"
      BY <1>1, <1>4, <1>8 DEF Seat, PhilType, f
    <2>3. /\ sm_queue'[f] = <<i>> /\ sm_queue'[m] = sm_queue[m]
          /\ \A k \in Sema!Phils \ {i} : sm_queue'[Sema!s(k)] = sm_queue[Sema!s(k)]
          /\ sm_state'[i] = "WT_KSEM" /\ \A k \in Sema!Phils \ {i} : sm_state'[k] = sm_state[k]
      BY <1>2, <1>4, <2>1 DEF PhilType
    <2>4. PhilType'
      BY <1>1, <1>2, <2>1 DEF PhilType
    <2>5. Door'
      BY <1>1, <1>3, <2>1, <2>3 DEF Door, Crit
    <2>6. ASSUME NEW k \in Sema!Phils PROVE Seat(k)'
      <3>1. CASE k = i
        BY <1>1, <1>3, <1>4, <2>1, <2>2, <2>3, <3>1 DEF Seat, f
      <3>2. CASE k # i
        BY <1>1, <1>3, <2>1, <2>3, <3>2, SeatSame
      <3> QED
        BY <3>1, <3>2
    <2> QED
      BY <1>5, <1>6, <2>4, <2>5, <2>6
  <1> QED
    BY <1>7, <1>8

\* up(&s[j]) in phi_test_sema: j is woken if it sleeps in its down, and finds the
\* unit otherwise.
Waits(j) == sm_state[j] # "none" /\ sm_pc[j] = "eat"
Served(j) ==
    /\ sm_value' \in [Forks -> Nat] /\ sm_queue' \in [Forks -> Seq(Sema!Phils)]
    /\ sm_state' \in [Sema!Phils -> {"none", "WT_KSEM"}]
    /\ sm_value'[Sema!mutex] = sm_value[Sema!mutex] /\ sm_queue'[Sema!mutex] = sm_queue[Sema!mutex]
    /\ \A k \in Sema!Phils \ {j} : /\ sm_value'[Sema!s(k)] = sm_value[Sema!s(k)]
                                    /\ sm_queue'[Sema!s(k)] = sm_queue[Sema!s(k)]
                                    /\ sm_state'[k] = sm_state[k]
    /\ sm_queue'[Sema!s(j)] = <<>>
    /\ sm_state'[j] = IF Waits(j) THEN "none" ELSE sm_state[j]
    /\ sm_value'[Sema!s(j)] = IF Waits(j) THEN sm_value[Sema!s(j)] ELSE sm_value[Sema!s(j)] + 1

LEMMA ServedFacts ==
  ASSUME PhilType, NEW j \in Sema!Phils, Seat(j), Sema!up(Sema!s(j))
  PROVE  Served(j)
  <1> DEFINE f == Sema!s(j)
             m == Sema!mutex
  <1>1. /\ m \in Forks /\ f \in Forks /\ f # m
        /\ \A k \in Sema!Phils \ {j} : Sema!s(k) \in Forks /\ Sema!s(k) # f
    BY ForksDiffer
  <1>2. sm_queue[f] = IF Waits(j) THEN <<j>> ELSE <<>>
    BY DEF Seat, Waits
  <1> HIDE DEF f
  <1>3. CASE Waits(j)
    <2>1. sm_queue[f] # <<>> /\ Head(sm_queue[f]) = j /\ Tail(sm_queue[f]) = <<>>
      BY <1>2, <1>3
    <2>2. /\ sm_queue' = [sm_queue EXCEPT ![f] = <<>>]
          /\ sm_state' = [sm_state EXCEPT ![j] = "none"] /\ sm_value' = sm_value
      BY <2>1 DEF Sema!up, f
    <2> QED
      BY <1>1, <1>3, <2>2 DEF PhilType, Served, f
  <1>4. CASE ~Waits(j)
    <2>1. sm_queue[f] = <<>>
      BY <1>2, <1>4
    <2>2. sm_value' = [sm_value EXCEPT ![f] = @ + 1] /\ sm_queue' = sm_queue /\ sm_state' = sm_state
      BY <2>1 DEF Sema!up, f
    <2> QED
      BY <1>1, <1>4, <2>1, <2>2 DEF PhilType, Served, f
  <1> QED
    BY <1>3, <1>4

\* i is hungry, and eats if its neighbours do not.
LEMMA TakeInStep ==
  ASSUME Sema!PhilAssumption, PhilInv, NEW i \in Sema!Phils, Sema!TakeIn(i)
  PROVE  PhilInv'
  <1> USE DEF PhilInv
  <1> DEFINE st == [state_sema EXCEPT ![i] = "HUNGRY"]
  <1>1. /\ sm_pc[i] = "take_in" /\ sm_state[i] = "none" /\ sm_pc' = [sm_pc EXCEPT ![i] = "take_out"]
        /\ Sema!phi_test_sema(i, st)
    BY DEF Sema!TakeIn, Sema!At, Sema!Awake, Sema!Goto
  <1>2. sm_pc'[i] = "take_out" /\ \A k \in Sema!Phils \ {i} : sm_pc'[k] = sm_pc[k]
    BY <1>1 DEF PhilType
  <1>3. /\ Seat(i) /\ state_sema[i] = "THINKING" /\ sm_queue[Sema!s(i)] = <<>> /\ sm_value[Sema!s(i)] = 0
        /\ ~Member(sm_queue[Sema!mutex], i) /\ ~Waits(i)
    BY <1>1 DEF Seat, Waits
  <1>4. /\ st[i] = "HUNGRY" /\ \A k \in Sema!Phils \ {i} : st[k] = state_sema[k]
        /\ st \in [Sema!Phils -> {"THINKING", "HUNGRY", "EATING"}]
    BY DEF PhilType
  <1>5. \A k \in Sema!Phils : ~Sema!MayEat(k, state_sema)
    <2>1. Crit(i)
      BY <1>1 DEF Crit
    <2>2. \A k \in Sema!Phils : sm_pc[k] # "put_right"
      <3> SUFFICES ASSUME NEW k \in Sema!Phils, sm_pc[k] = "put_right" PROVE FALSE
        OBVIOUS
      <3>1. Seat(k)
        OBVIOUS
      <3>2. Crit(k)
        BY <3>1 DEF Seat, Crit
      <3> QED
        BY <1>1, <2>1, <3>2 DEF Door
    <2> QED
      BY <2>2 DEF Passed
  <1> HIDE DEF st
  <1>6. /\ \A k \in Sema!Phils : Sema!LEFT(k) \in Sema!Phils \ {k} /\ Sema!RIGHT(k) \in Sema!Phils \ {k}
        /\ \A k \in Sema!Phils : Sema!LEFT(Sema!RIGHT(k)) = k
    BY Around
  <1>7. CASE Sema!MayEat(i, st)
    <2>1. state_sema' = [st EXCEPT ![i] = "EATING"] /\ Served(i)
      BY <1>1, <1>3, <1>7, ServedFacts DEF Sema!phi_test_sema
    <2>2. state_sema'[i] = "EATING" /\ \A k \in Sema!Phils \ {i} : state_sema'[k] = state_sema[k]
      BY <1>4, <2>1
    <2>3. PhilType'
      BY <1>1, <1>4, <2>1 DEF PhilType, Served
    <2>4. /\ sm_state'[i] = "none" /\ sm_value'[Sema!s(i)] = 1 /\ sm_queue'[Sema!s(i)] = <<>>
          /\ \A k \in Sema!Phils : sm_state'[k] = sm_state[k]
      BY <1>1, <1>3, <2>1 DEF Served
    <2>5. Door'
      <3>1. \A k \in Sema!Phils : Crit(k)' => Crit(k)
        BY <1>1, <1>2, <2>4 DEF Crit
      <3>2. sm_value'[Sema!mutex] = sm_value[Sema!mutex] /\ sm_queue'[Sema!mutex] = sm_queue[Sema!mutex]
        BY <2>1 DEF Served
      <3> QED
        BY <3>1, <3>2 DEF Door
    <2>6. ASSUME NEW k \in Sema!Phils PROVE Seat(k)'
      <3>1. CASE k = i
        BY <1>2, <1>3, <2>1, <2>2, <2>4, <3>1 DEF Seat, Served
      <3>2. CASE k # i
        BY <1>2, <2>1, <2>2, <3>2, SeatSame DEF Served
      <3> QED
        BY <3>1, <3>2
    <2>7. Apart'
      <3>1. state_sema[Sema!LEFT(i)] # "EATING" /\ state_sema[Sema!RIGHT(i)] # "EATING"
        BY <1>4, <1>6, <1>7 DEF Sema!MayEat
      <3>2. ASSUME NEW k \in Sema!Phils, state_sema'[k] = "EATING", state_sema'[Sema!RIGHT(k)] = "EATING"
            PROVE  FALSE
        <4>1. CASE k = i
          BY <1>6, <2>2, <3>1, <3>2, <4>1
        <4>2. CASE Sema!RIGHT(k) = i
          BY <1>6, <2>2, <3>1, <3>2, <4>2
        <4>3. CASE k # i /\ Sema!RIGHT(k) # i
          BY <1>6, <2>2, <3>2, <4>3 DEF Apart
        <4> QED
          BY <4>1, <4>2, <4>3
      <3> QED
        BY <3>2 DEF Apart
    <2>8. \A k \in Sema!Phils : ~Sema!MayEat(k, state_sema')
      BY <1>3, <1>5, <1>6, <2>2 DEF Sema!MayEat
    <2>9. Passed'
      BY <2>8 DEF Passed, Sema!MayEat
    <2> QED
      BY <2>3, <2>5, <2>6, <2>7, <2>9
  <1>8. CASE ~Sema!MayEat(i, st)
    <2>1. state_sema' = st /\ UNCHANGED <<sm_value, sm_queue, sm_state>>
      BY <1>1, <1>8 DEF Sema!phi_test_sema, Sema!sems
    <2>2. state_sema'[i] = "HUNGRY" /\ \A k \in Sema!Phils \ {i} : state_sema'[k] = state_sema[k]
      BY <1>4, <2>1
    <2>3. PhilType'
      BY <1>1, <1>4, <2>1 DEF PhilType
    <2>4. Door'
      BY <1>1, <1>2, <2>1 DEF Door, Crit
    <2>5. ASSUME NEW k \in Sema!Phils PROVE Seat(k)'
      <3>1. CASE k = i
        BY <1>1, <1>2, <1>3, <2>1, <2>2, <3>1 DEF Seat
      <3>2. CASE k # i
        BY <1>2, <2>1, <2>2, <3>2, SeatSame
      <3> QED
        BY <3>1, <3>2
    <2>6. Apart'
      BY <1>6, <2>2 DEF Apart
    <2>7. \A k \in Sema!Phils : ~Sema!MayEat(k, state_sema')
      BY <1>3, <1>5, <1>6, <1>8, <2>1, <2>2 DEF Sema!MayEat
    <2>8. Passed'
      BY <2>7 DEF Passed, Sema!MayEat
    <2> QED
      BY <2>3, <2>4, <2>5, <2>6, <2>8
  <1> QED
    BY <1>7, <1>8

\* The forks of i are free: its neighbour j is looked at.
LEMMA PutStep ==
  ASSUME Sema!PhilAssumption, PhilInv, NEW i \in Sema!Phils, Sema!PutLeft(i) \/ Sema!PutRight(i)
  PROVE  PhilInv'
  <1> USE DEF PhilInv
  <1> DEFINE st == [state_sema EXCEPT ![i] = "THINKING"]
  <1>1. PICK j \in Sema!Phils, to \in {"put_right", "put_out"} :
           /\ to = "put_right" => sm_pc[i] = "put_left" /\ j = Sema!LEFT(i)
           /\ to = "put_out" => sm_pc[i] = "put_right" /\ j = Sema!RIGHT(i)
           /\ sm_state[i] = "none" /\ sm_pc' = [sm_pc EXCEPT ![i] = to] /\ Sema!phi_test_sema(j, st)
    <2>1. CASE Sema!PutLeft(i)
      BY <2>1, Around DEF Sema!PutLeft, Sema!At, Sema!Awake, Sema!Goto
    <2>2. CASE Sema!PutRight(i)
      <3>1. sm_pc[i] = "put_right" /\ Seat(i)
        BY <2>2 DEF Sema!PutRight, Sema!At
      <3>2. st = state_sema
        BY <3>1 DEF Seat, PhilType
      <3> HIDE DEF st
      <3> QED
        BY <2>2, <3>1, <3>2, Around DEF Sema!PutRight, Sema!At, Sema!Awake, Sema!Goto
    <2> QED
      BY <2>1, <2>2
  <1>2. sm_pc'[i] = to /\ \A k \in Sema!Phils \ {i} : sm_pc'[k] = sm_pc[k]
    BY <1>1 DEF PhilType
  <1>3. Seat(i) /\ sm_queue[Sema!s(i)] = <<>> /\ sm_value[Sema!s(i)] = 0 /\ ~Member(sm_queue[Sema!mutex], i)
    BY <1>1 DEF Seat
  <1>4. /\ st[i] = "THINKING" /\ \A k \in Sema!Phils \ {i} : st[k] = state_sema[k]
        /\ st \in [Sema!Phils -> {"THINKING", "HUNGRY", "EATING"}]
    BY DEF PhilType
  <1>5. /\ \A k \in Sema!Phils : Sema!LEFT(k) \in Sema!Phils \ {k} /\ Sema!RIGHT(k) \in Sema!Phils \ {k}
        /\ \A k \in Sema!Phils : Sema!LEFT(Sema!RIGHT(k)) = k /\ Sema!RIGHT(Sema!LEFT(k)) = k
    BY Around
  <1>6. j # i
    BY <1>1, <1>5
  <1>7. ASSUME NEW k \in Sema!Phils, sm_pc[k] = "put_right" PROVE k = i
    <2>1. Seat(k)
      OBVIOUS
    <2>2. Crit(k) /\ Crit(i)
      BY <1>1, <1>7, <2>1 DEF Seat, Crit
    <2> QED
      BY <2>2 DEF Door
  <1>8. \A k \in Sema!Phils : Sema!MayEat(k, state_sema) => to = "put_out" /\ k = j
    BY <1>1, <1>7 DEF Passed
  <1> HIDE DEF st
  <1>9. ASSUME NEW k \in Sema!Phils, k # j, Sema!MayEat(k, st) PROVE to = "put_right" /\ k = Sema!RIGHT(i)
    <2>1. ~Sema!MayEat(k, state_sema)
      BY <1>8, <1>9
    <2>2. k # i /\ st[k] = state_sema[k]
      BY <1>4, <1>9 DEF Sema!MayEat
    <2>3. state_sema[Sema!LEFT(k)] = "EATING" \/ state_sema[Sema!RIGHT(k)] = "EATING"
      BY <1>9, <2>1, <2>2 DEF Sema!MayEat
    <2>4. st[Sema!LEFT(k)] # "EATING" /\ st[Sema!RIGHT(k)] # "EATING"
      BY <1>9 DEF Sema!MayEat
    <2>5. (Sema!LEFT(k) = i \/ Sema!RIGHT(k) = i) /\ state_sema[i] = "EATING"
      BY <1>4, <1>5, <2>3, <2>4
    <2>6. to = "put_right"
      BY <1>1, <1>3, <2>5 DEF Seat
    <2> QED
      BY <1>1, <1>5, <1>9, <2>5, <2>6
  <1>10. CASE Sema!MayEat(j, st)
    <2>1. Seat(j) /\ state_sema[j] = "HUNGRY"
      BY <1>4, <1>6, <1>10 DEF Sema!MayEat
    <2>2. state_sema' = [st EXCEPT ![j] = "EATING"] /\ Served(j)
      BY <1>1, <1>10, <2>1, ServedFacts DEF Sema!phi_test_sema
    <2>3. /\ state_sema'[j] = "EATING" /\ state_sema'[i] = "THINKING"
          /\ \A k \in Sema!Phils \ {j} : state_sema'[k] = st[k]
      BY <1>4, <1>6, <2>2
    <2>4. PhilType'
      BY <1>1, <1>4, <2>2 DEF PhilType, Served
    <2>5. sm_pc[j] \in {"take_out", "take_wait"} \/ Waits(j)
      BY <2>1 DEF Seat, PhilType, Waits
    <2>6. \A k \in Sema!Phils : Crit(k)' => Crit(k)
      BY <1>1, <1>2, <2>2, <2>5 DEF Crit, Served, Waits
    <2>7. Door'
      BY <2>2, <2>6 DEF Door, Served
    <2>8. ASSUME NEW k \in Sema!Phils PROVE Seat(k)'
      <3>1. CASE k = i
        BY <1>1, <1>2, <1>3, <1>6, <2>2, <2>3, <3>1 DEF Seat, Served
      <3>2. CASE k = j
        BY <1>2, <1>6, <2>1, <2>2, <2>3, <2>5, <3>2 DEF Seat, Served, Waits
      <3>3. CASE k # i /\ k # j
        BY <1>2, <1>4, <2>2, <2>3, <3>3, SeatSame DEF Served
      <3> QED
        BY <3>1, <3>2, <3>3
    <2>9. Apart'
      <3>1. st[Sema!LEFT(j)] # "EATING" /\ st[Sema!RIGHT(j)] # "EATING"
        BY <1>10 DEF Sema!MayEat
      <3>2. \A k \in Sema!Phils : st[k] = "EATING" => state_sema[k] = "EATING"
        BY <1>4
      <3>3. ASSUME NEW k \in Sema!Phils, state_sema'[k] = "EATING", state_sema'[Sema!RIGHT(k)] = "EATING"
            PROVE  FALSE
        <4>1. CASE k = j
          BY <1>5, <2>3, <3>1, <3>3, <4>1
        <4>2. CASE Sema!RIGHT(k) = j
          BY <1>5, <2>3, <3>1, <3>3, <4>2
        <4>3. CASE k # j /\ Sema!RIGHT(k) # j
          BY <1>5, <2>3, <3>2, <3>3, <4>3 DEF Apart
        <4> QED
          BY <4>1, <4>2, <4>3
      <3> QED
        BY <3>3 DEF Apart
    <2>10. ASSUME NEW k \in Sema!Phils, Sema!MayEat(k, state_sema')
           PROVE  sm_pc'[i] = "put_right" /\ k = Sema!RIGHT(i)
      <3>1. k # j /\ Sema!MayEat(k, st)
        BY <1>5, <1>10, <2>3, <2>10 DEF Sema!MayEat
      <3> QED
        BY <1>2, <1>9, <3>1
    <2>11. Passed'
      BY <2>10 DEF Passed, Sema!MayEat
    <2> QED
      BY <2>4, <2>7, <2>8, <2>9, <2>11
  <1>11. CASE ~Sema!MayEat(j, st)
    <2>1. state_sema' = st /\ UNCHANGED <<sm_value, sm_queue, sm_state>>
      BY <1>1, <1>11 DEF Sema!phi_test_sema, Sema!sems
    <2>2. state_sema'[i] = "THINKING" /\ \A k \in Sema!Phils \ {i} : state_sema'[k] = state_sema[k]
      BY <1>4, <2>1
    <2>3. PhilType'
      BY <1>1, <1>4, <2>1 DEF PhilType
    <2>4. Door'
      BY <1>1, <1>2, <2>1 DEF Door, Crit
    <2>5. ASSUME NEW k \in Sema!Phils PROVE Seat(k)'
      <3>1. CASE k = i
        BY <1>1, <1>2, <1>3, <2>1, <2>2, <3>1 DEF Seat
      <3>2. CASE k # i
        BY <1>2, <2>1, <2>2, <3>2, SeatSame
      <3> QED
        BY <3>1, <3>2
    <2>6. Apart'
      BY <1>5, <2>2 DEF Apart
    <2>7. ASSUME NEW k \in Sema!Phils, Sema!MayEat(k, state_sema')
          PROVE  sm_pc'[i] = "put_right" /\ k = Sema!RIGHT(i)
      <3>1. k # j /\ Sema!MayEat(k, st)
        BY <1>11, <2>1, <2>7
      <3> QED
        BY <1>2, <1>9, <3>1
    <2>8. Passed'
      BY <2>7 DEF Passed, Sema!MayEat
    <2> QED
      BY <2>3, <2>4, <2>5, <2>6, <2>8
  <1> QED
    BY <1>10, <1>11

\* check_sync has set up the table: all think, and no fork is taken.
LEMMA PhilInit == ASSUME Sema!PhilAssumption, Sema!Init PROVE PhilInv
  <1>1. /\ sm_value = [x \in Forks |-> IF x = Sema!mutex THEN 1 ELSE 0]
        /\ sm_queue = [x \in Forks |-> <<>>] /\ sm_state = [i \in Sema!Phils |-> "none"]
        /\ state_sema = [i \in Sema!Phils |-> "THINKING"] /\ sm_pc = [i \in Sema!Phils |-> "think"]
    BY DEF Sema!Init, Sema!SemInit, Forks
  <1>2. PhilType
    BY <1>1 DEF PhilType
  <1>3. sm_value[Sema!mutex] = 1 /\ sm_queue[Sema!mutex] = <<>>
    BY <1>1, ForksDiffer
  <1>4. Door
    BY <1>1, <1>3 DEF Door, Crit, Distinct
  <1>5. ASSUME NEW i \in Sema!Phils PROVE Seat(i)
    <2>1. sm_value[Sema!s(i)] = 0 /\ sm_queue[Sema!s(i)] = <<>>
      BY <1>1, ForksDiffer
    <2>2. ~Member(sm_queue[Sema!mutex], i)
      BY <1>3 DEF Member
    <2> QED
      BY <1>1, <2>1, <2>2 DEF Seat
  <1>6. Apart /\ Passed
    BY <1>1 DEF Apart, Passed, Sema!MayEat
  <1> QED
    BY <1>2, <1>4, <1>5, <1>6 DEF PhilInv

\* The philosophers of check_sync.c, for any number of them: neighbours never eat
\* together, and while nobody is inside the critical section no hungry philosopher
\* whose neighbours do not eat has been forgotten.
THEOREM SemaCorrect == ASSUME Sema!PhilAssumption PROVE Sema!Spec => []SemaTable
  <1>1. Sema!Init => PhilInv
    BY PhilInit
  <1>2. PhilInv /\ [Sema!Next]_(Sema!vars) => PhilInv'
    <2> SUFFICES ASSUME PhilInv, [Sema!Next]_(Sema!vars) PROVE PhilInv'
      OBVIOUS
    <2>1. CASE UNCHANGED Sema!vars
      <3>1. UNCHANGED <<sm_value, sm_queue, sm_state, state_sema, sm_pc>>
        BY <2>1 DEF Sema!vars
      <3> QED
        BY <3>1 DEF PhilInv, PhilType, Door, Crit, Seat, Apart, Passed, Sema!MayEat
    <2>2. CASE Sema!Next
      <3>1. PICK i \in Sema!Phils : Sema!Phil(i)
        BY <2>2 DEF Sema!Next
      <3> QED
        BY <3>1, ThinkStep, EntryStep, LeaveStep, TakeWaitStep, TakeInStep, PutStep DEF Sema!Phil
    <2> QED
      BY <2>1, <2>2
  <1>3. PhilInv => SemaTable
    <2> SUFFICES ASSUME PhilInv PROVE SemaTable
      OBVIOUS
    <2>1. Sema!ForksExclusive
      <3>1. \A i \in Sema!Phils : Sema!HasForks(i) => state_sema[i] = "EATING"
        BY DEF PhilInv, Seat, Sema!HasForks, Sema!Awake
      <3> QED
        BY <3>1 DEF PhilInv, Apart, Sema!ForksExclusive
    <2>2. ASSUME sm_value[Sema!mutex] = 1, NEW j \in Sema!Phils, Sema!MayEat(j, state_sema) PROVE FALSE
      <3>1. PICK i \in Sema!Phils : sm_pc[i] = "put_right"
        BY <2>2 DEF PhilInv, Passed
      <3>2. Seat(i) /\ ~Crit(i)
        BY <2>2 DEF PhilInv, Door
      <3> QED
        BY <3>1, <3>2 DEF Seat, Crit
    <2> QED
      BY <2>1, <2>2 DEF SemaTable, Sema!SemaTable, Sema!NoForgottenHunger
  <1> QED
    BY <1>1, <1>2, <1>3, PTL DEF Sema!Spec

-------------------------------------------------------------------------------
(* The dining philosophers with a monitor                                  *)

\* The monitor is i's: it is inside, or it has been signalled on its way to block.
Holds(i) == Condvar!Inside(i) \/ (mt_pc[i] = "wait" /\ state_condvar[i] = "EATING")

Places == {"think", "take", "take_in", "take_check", "wait", "wait_done", "take_leave", "eat",
           "put_left", "put_right", "put_leave", "signal", "signal_done", "quit"}

MonType ==
    /\ mt_value \in [Condvar!MonSems -> Nat]
    /\ mt_queue \in [Condvar!MonSems -> Seq(Condvar!Phils)]
    /\ mt_state \in [Condvar!Phils -> {"none", "WT_KSEM"}]
    /\ count \in [Condvar!Phils -> Nat]
    /\ state_condvar \in [Condvar!Phils -> {"THINKING", "HUNGRY", "EATING"}]
    /\ mt_pc \in [Condvar!Phils -> Places]
    /\ mt_ret \in [Condvar!Phils -> Places]

\* The monitor is a baton: a unit of the mutex, a unit of next, or one philosopher
\* has it.
Baton ==
    /\ mt_value[Condvar!mutex] \in {0, 1} /\ mt_value[Condvar!next] \in {0, 1}
    /\ mt_value[Condvar!mutex] = 0 \/ mt_value[Condvar!next] = 0
    /\ \A i \in Condvar!Phils : Holds(i) => mt_value[Condvar!mutex] = 0 /\ mt_value[Condvar!next] = 0
    /\ \A i, j \in Condvar!Phils : Holds(i) /\ Holds(j) => i = j
    /\ Distinct(mt_queue[Condvar!mutex]) /\ Distinct(mt_queue[Condvar!next])

\* Where i sleeps, what it counts for, and its state_condvar at each place.
Place(i) ==
    /\ mt_state[i] # "none" => mt_pc[i] \in {"take_in", "put_left", "wait_done", "signal_done"}
    /\ Member(mt_queue[Condvar!mutex], i) <=> mt_state[i] # "none" /\ mt_pc[i] \in {"take_in", "put_left"}
    /\ Member(mt_queue[Condvar!next], i) <=> mt_state[i] # "none" /\ mt_pc[i] = "signal_done"
    /\ mt_queue[Condvar!cv(i)] = IF mt_state[i] # "none" /\ mt_pc[i] = "wait_done" THEN <<i>> ELSE <<>>
    /\ mt_value[Condvar!cv(i)] = IF mt_pc[i] = "wait" /\ state_condvar[i] = "EATING" THEN 1 ELSE 0
    /\ count[i] = IF mt_pc[i] \in {"wait", "wait_done"} THEN 1 ELSE 0
    /\ mt_pc[i] \in {"think", "take", "take_in", "put_right", "put_leave", "signal", "signal_done", "quit"}
           => state_condvar[i] = "THINKING"
    /\ mt_pc[i] \in {"take_check", "wait"} => state_condvar[i] # "THINKING"
    /\ mt_pc[i] = "wait_done" => state_condvar[i] = IF mt_state[i] = "none" THEN "EATING" ELSE "HUNGRY"
    /\ mt_pc[i] \in {"take_leave", "eat", "put_left"} => state_condvar[i] = "EATING"
    /\ mt_pc[i] \in {"signal", "signal_done"} => mt_ret[i] \in {"put_right", "put_leave"}

Between == \A i \in Condvar!Phils : ~(state_condvar[i] = "EATING" /\ state_condvar[Condvar!RIGHT(i)] = "EATING")

\* next_count is the number of signallers that stepped back.
Stepped == {i \in Condvar!Phils : mt_pc[i] \in {"signal", "signal_done"}}
Counted == next_count = Cardinality(Stepped)

MonInv == MonType /\ Baton /\ (\A i \in Condvar!Phils : Place(i)) /\ Between /\ Counted

\* The neighbours of a philosopher.
LEMMA MonAround ==
  ASSUME Condvar!PhilAssumption, NEW i \in Condvar!Phils
  PROVE  /\ Condvar!LEFT(i) \in Condvar!Phils \ {i} /\ Condvar!RIGHT(i) \in Condvar!Phils \ {i}
         /\ Condvar!RIGHT(Condvar!LEFT(i)) = i /\ Condvar!LEFT(Condvar!RIGHT(i)) = i
  <1>1. CondvarN \in Nat /\ CondvarN > 2 /\ i \in 0..CondvarN - 1
    BY DEF Condvar!PhilAssumption, Condvar!Phils
  <1>2. \A k \in 0..CondvarN - 1 : /\ Condvar!RIGHT(k) = IF k = CondvarN - 1 THEN 0 ELSE k + 1
                                  /\ Condvar!LEFT(k) = IF k = 0 THEN CondvarN - 1 ELSE k - 1
    BY <1>1 DEF Condvar!RIGHT, Condvar!LEFT
  <1> QED
    BY <1>1, <1>2 DEF Condvar!Phils

\* The semaphores of the monitor are different ones.
LEMMA MonSemsDiffer ==
  /\ Condvar!mutex \in Condvar!MonSems /\ Condvar!next \in Condvar!MonSems /\ Condvar!mutex # Condvar!next
  /\ \A i \in Condvar!Phils : Condvar!cv(i) \in Condvar!MonSems /\ Condvar!cv(i) # Condvar!mutex /\ Condvar!cv(i) # Condvar!next
  /\ \A i, j \in Condvar!Phils : Condvar!cv(i) = Condvar!cv(j) => i = j
  BY DEF Condvar!MonSems, Condvar!mutex, Condvar!next, Condvar!cv

\* A philosopher that nothing happens to stays where it is.
LEMMA PlaceSame ==
  ASSUME NEW k \in Condvar!Phils, Place(k),
         mt_pc'[k] = mt_pc[k], mt_state'[k] = mt_state[k], state_condvar'[k] = state_condvar[k],
         mt_ret'[k] = mt_ret[k], count'[k] = count[k],
         mt_value'[Condvar!cv(k)] = mt_value[Condvar!cv(k)], mt_queue'[Condvar!cv(k)] = mt_queue[Condvar!cv(k)],
         Member(mt_queue'[Condvar!mutex], k) <=> Member(mt_queue[Condvar!mutex], k),
         Member(mt_queue'[Condvar!next], k) <=> Member(mt_queue[Condvar!next], k)
  PROVE  Place(k)'
  BY DEF Place

\* Nobody steps back or returns from there: next_count stays.
LEMMA CountedSame ==
  ASSUME Counted, next_count' = next_count,
         \A k \in Condvar!Phils : mt_pc'[k] \in {"signal", "signal_done"} <=> mt_pc[k] \in {"signal", "signal_done"}
  PROVE  Counted'
  <1>1. Stepped' = Stepped
    BY DEF Stepped
  <1> QED
    BY <1>1 DEF Counted

\* The philosophers are finitely many.
LEMMA SteppedFinite == ASSUME Condvar!PhilAssumption PROVE IsFiniteSet(Stepped) /\ IsFiniteSet(Stepped')
  <1>1. IsFiniteSet(Condvar!Phils)
    BY FS_Interval DEF Condvar!PhilAssumption, Condvar!Phils
  <1>2. Stepped \subseteq Condvar!Phils /\ Stepped' \subseteq Condvar!Phils
    BY DEF Stepped
  <1> QED
    BY <1>1, <1>2, FS_Subset

\* Steps that change nothing but the place of i and its count: the others are not
\* concerned, and the baton stays where it is.
LEMMA CalmStep ==
  ASSUME MonInv, NEW i \in Condvar!Phils, NEW to \in Places, mt_state[i] = "none",
         mt_pc' = [mt_pc EXCEPT ![i] = to], count' \in [Condvar!Phils -> Nat],
         \A k \in Condvar!Phils \ {i} : count'[k] = count[k],
         UNCHANGED <<mt_value, mt_queue, mt_state, state_condvar, mt_ret>>,
         Holds(i)' => Holds(i)
  PROVE  /\ MonType' /\ Baton' /\ Between'
         /\ mt_pc'[i] = to /\ \A k \in Condvar!Phils \ {i} : mt_pc'[k] = mt_pc[k] /\ Place(k)'
  <1> USE DEF MonInv
  <1>1. mt_pc'[i] = to /\ \A k \in Condvar!Phils \ {i} : mt_pc'[k] = mt_pc[k]
    BY DEF MonType
  <1>2. MonType'
    BY DEF MonType
  <1>3. Between'
    BY DEF Between
  <1>4. \A k \in Condvar!Phils : Holds(k)' => Holds(k)
    BY <1>1 DEF Holds, Condvar!Inside, Condvar!Awake
  <1>5. Baton'
    BY <1>4 DEF Baton
  <1>6. ASSUME NEW k \in Condvar!Phils \ {i} PROVE Place(k)'
    BY <1>1, PlaceSame
  <1> QED
    BY <1>1, <1>2, <1>3, <1>5, <1>6

\* The loop of philosopher_using_condvar.
LEMMA MonThinkStep ==
  ASSUME MonInv, NEW i \in Condvar!Phils, Condvar!Think(i)
  PROVE  MonInv'
  <1>1. PICK to \in {"take", "quit"} :
           /\ mt_pc[i] = "think" /\ mt_state[i] = "none" /\ mt_pc' = [mt_pc EXCEPT ![i] = to]
           /\ UNCHANGED <<mt_value, mt_queue, mt_state, state_condvar, mt_ret, count, next_count>>
    BY DEF Condvar!Think, Condvar!At, Condvar!Awake, Condvar!Goto, Condvar!mtvars
  <1>2. mt_pc'[i] = to /\ \A k \in Condvar!Phils \ {i} : mt_pc'[k] = mt_pc[k]
    BY <1>1 DEF MonInv, MonType
  <1>3. Place(i) /\ ~Holds(i)'
    BY <1>1, <1>2 DEF MonInv, Holds, Condvar!Inside
  <1>4. MonType' /\ Baton' /\ Between' /\ \A k \in Condvar!Phils \ {i} : Place(k)'
    BY <1>1, <1>3, CalmStep DEF MonInv, MonType, Places
  <1>5. Place(i)'
    BY <1>1, <1>2, <1>3 DEF Place
  <1>6. Counted'
    BY <1>1, <1>2, CountedSame DEF MonInv
  <1> QED
    BY <1>4, <1>5, <1>6 DEF MonInv

\* The end of cond_wait.
LEMMA MonWaitDoneStep ==
  ASSUME MonInv, NEW i \in Condvar!Phils, Condvar!WaitDone(i)
  PROVE  MonInv'
  <1>1. /\ mt_pc[i] = "wait_done" /\ mt_state[i] = "none" /\ mt_pc' = [mt_pc EXCEPT ![i] = "take_leave"]
        /\ count' = [count EXCEPT ![i] = @ - 1]
        /\ UNCHANGED <<mt_value, mt_queue, mt_state, state_condvar, mt_ret, next_count>>
    BY DEF Condvar!WaitDone, Condvar!wait_done, Condvar!At, Condvar!Awake, Condvar!Goto
  <1>2. mt_pc'[i] = "take_leave" /\ \A k \in Condvar!Phils \ {i} : mt_pc'[k] = mt_pc[k]
    BY <1>1 DEF MonInv, MonType
  <1>3. Place(i) /\ Holds(i) /\ count[i] = 1
    BY <1>1 DEF MonInv, Place, Holds, Condvar!Inside, Condvar!Awake
  <1>4. /\ count' \in [Condvar!Phils -> Nat] /\ count'[i] = 0
        /\ \A k \in Condvar!Phils \ {i} : count'[k] = count[k]
    BY <1>1, <1>3 DEF MonInv, MonType
  <1>5. MonType' /\ Baton' /\ Between' /\ \A k \in Condvar!Phils \ {i} : Place(k)'
    BY <1>1, <1>3, <1>4, CalmStep DEF Places
  <1>6. Place(i)'
    BY <1>1, <1>2, <1>3, <1>4 DEF Place
  <1>7. Counted'
    BY <1>1, <1>2, CountedSame DEF MonInv
  <1> QED
    BY <1>5, <1>6, <1>7 DEF MonInv

\* The end of cond_signal: i is inside again and no longer counted.
LEMMA MonSignalDoneStep ==
  ASSUME Condvar!PhilAssumption, MonInv, NEW i \in Condvar!Phils, Condvar!SignalDone(i)
  PROVE  MonInv'
  <1>1. /\ mt_pc[i] = "signal_done" /\ mt_state[i] = "none" /\ mt_pc' = [mt_pc EXCEPT ![i] = mt_ret[i]]
        /\ next_count' = next_count - 1
        /\ UNCHANGED <<mt_value, mt_queue, mt_state, state_condvar, mt_ret, count>>
    BY DEF Condvar!SignalDone, Condvar!signal_done, Condvar!At, Condvar!Awake, Condvar!Goto
  <1>2. Place(i) /\ Holds(i) /\ mt_ret[i] \in {"put_right", "put_leave"}
    BY <1>1 DEF MonInv, Place, Holds, Condvar!Inside, Condvar!Awake
  <1>3. mt_pc'[i] = mt_ret[i] /\ \A k \in Condvar!Phils \ {i} : mt_pc'[k] = mt_pc[k]
    BY <1>1 DEF MonInv, MonType
  <1>4. MonType' /\ Baton' /\ Between' /\ \A k \in Condvar!Phils \ {i} : Place(k)'
    BY <1>1, <1>2, CalmStep DEF MonInv, MonType, Places
  <1>5. Place(i)'
    BY <1>1, <1>2, <1>3 DEF Place
  <1>6. Counted'
    <2>1. Stepped' = Stepped \ {i} /\ i \in Stepped
      BY <1>1, <1>2, <1>3 DEF Stepped
    <2> QED
      BY <1>1, <2>1, SteppedFinite, FS_RemoveElement DEF MonInv, Counted
  <1> QED
    BY <1>4, <1>5, <1>6 DEF MonInv

\* The two downs that may let i in: the mutex at the entry of the monitor, and
\* next in cond_signal.
LEMMA MonDownStep ==
  ASSUME Condvar!PhilAssumption, MonInv, NEW i \in Condvar!Phils, Condvar!Enter(i) \/ Condvar!SignalWait(i)
  PROVE  MonInv'
  <1> USE DEF MonInv
  <1>1. PICK x \in {Condvar!mutex, Condvar!next}, to \in {"take_in", "put_left", "signal_done"} :
           /\ mt_state[i] = "none" /\ mt_pc' = [mt_pc EXCEPT ![i] = to] /\ Condvar!down(i, x)
           /\ to = "take_in" => mt_pc[i] = "take" /\ x = Condvar!mutex
           /\ to = "put_left" => mt_pc[i] = "eat" /\ x = Condvar!mutex
           /\ to = "signal_done" => mt_pc[i] = "signal" /\ x = Condvar!next
           /\ UNCHANGED <<next_count, count, state_condvar, mt_ret>>
    BY DEF Condvar!Enter, Condvar!SignalWait, Condvar!At, Condvar!Awake, Condvar!Goto
  <1>2. /\ x \in Condvar!MonSems /\ Condvar!mutex \in Condvar!MonSems /\ Condvar!next \in Condvar!MonSems /\ Condvar!mutex # Condvar!next
        /\ \A k \in Condvar!Phils : Condvar!cv(k) \in Condvar!MonSems /\ Condvar!cv(k) # x
    BY MonSemsDiffer
  <1>3. mt_pc'[i] = to /\ \A k \in Condvar!Phils \ {i} : mt_pc'[k] = mt_pc[k]
    BY <1>1 DEF MonType
  <1>4. Place(i) /\ ~Holds(i) /\ ~Member(mt_queue[Condvar!mutex], i) /\ ~Member(mt_queue[Condvar!next], i)
    BY <1>1 DEF Place, Holds, Condvar!Inside
  <1>5. Between'
    BY <1>1 DEF Between
  <1>6. Counted'
    BY <1>1, <1>3, CountedSame
  <1>7. CASE mt_value[x] > 0
    <2>1. mt_value' = [mt_value EXCEPT ![x] = @ - 1] /\ mt_queue' = mt_queue /\ mt_state' = mt_state
      BY <1>1, <1>7 DEF Condvar!down
    <2>2. mt_value[x] = 1
      BY <1>1, <1>7 DEF Baton
    <2>3. \A k \in Condvar!Phils : ~Holds(k)
      BY <1>1, <2>2 DEF Baton
    <2>4. /\ mt_value'[Condvar!mutex] = 0 /\ mt_value'[Condvar!next] = 0
          /\ \A k \in Condvar!Phils : mt_value'[Condvar!cv(k)] = mt_value[Condvar!cv(k)]
      BY <1>1, <1>2, <2>1, <2>2 DEF MonType, Baton
    <2>5. MonType'
      BY <1>1, <1>2, <2>1, <2>2 DEF MonType, Places
    <2>6. \A k \in Condvar!Phils : Holds(k)' => k = i
      BY <1>1, <1>3, <2>1, <2>3 DEF Holds, Condvar!Inside, Condvar!Awake
    <2>7. Baton'
      BY <2>1, <2>4, <2>6 DEF Baton
    <2>8. ASSUME NEW k \in Condvar!Phils PROVE Place(k)'
      <3>1. CASE k = i
        BY <1>1, <1>3, <1>4, <2>1, <2>4, <3>1 DEF Place
      <3>2. CASE k # i
        BY <1>1, <1>3, <2>1, <2>4, <3>2, PlaceSame
      <3> QED
        BY <3>1, <3>2
    <2> QED
      BY <1>5, <1>6, <2>5, <2>7, <2>8
  <1>8. CASE ~(mt_value[x] > 0)
    <2>1. /\ mt_queue' = [mt_queue EXCEPT ![x] = Append(@, i)]
          /\ mt_state' = [mt_state EXCEPT ![i] = "WT_KSEM"] /\ mt_value' = mt_value
      BY <1>1, <1>8 DEF Condvar!down
    <2>2. /\ mt_queue[x] \in Seq(Condvar!Phils) /\ mt_queue'[x] = Append(mt_queue[x], i)
          /\ \A y \in Condvar!MonSems \ {x} : mt_queue'[y] = mt_queue[y]
          /\ mt_state'[i] = "WT_KSEM" /\ \A k \in Condvar!Phils \ {i} : mt_state'[k] = mt_state[k]
      BY <1>2, <2>1 DEF MonType
    <2>3. Distinct(mt_queue[x]) /\ ~Member(mt_queue[x], i)
      BY <1>1, <1>4 DEF Baton
    <2>4. /\ \A y : Member(mt_queue'[x], y) <=> Member(mt_queue[x], y) \/ y = i
          /\ Distinct(mt_queue'[x])
      BY <2>2, <2>3, AddFacts
    <2>5. MonType'
      <3>1. Append(mt_queue[x], i) \in Seq(Condvar!Phils)
        BY <2>2
      <3>2. mt_queue' \in [Condvar!MonSems -> Seq(Condvar!Phils)]
        BY <2>1, <3>1 DEF MonType
      <3>3. mt_state' \in [Condvar!Phils -> {"none", "WT_KSEM"}]
        BY <2>1 DEF MonType
      <3> QED
        BY <1>1, <2>1, <3>2, <3>3 DEF MonType, Places
    <2>6. \A k \in Condvar!Phils : Holds(k)' => Holds(k)
      BY <1>1, <1>3, <2>2 DEF Holds, Condvar!Inside, Condvar!Awake
    <2>7. Distinct(mt_queue'[Condvar!mutex]) /\ Distinct(mt_queue'[Condvar!next])
      BY <1>1, <1>2, <2>2, <2>4 DEF Baton
    <2>8. Baton'
      BY <2>1, <2>6, <2>7 DEF Baton
    <2>9. ASSUME NEW k \in Condvar!Phils PROVE Place(k)'
      <3>1. mt_queue'[Condvar!cv(k)] = mt_queue[Condvar!cv(k)]
        BY <1>2, <2>2
      <3>2. CASE k = i
        <4>1. to = "signal_done" \/ to \in {"take_in", "put_left"}
          OBVIOUS
        <4>2. CASE to = "signal_done"
          <5>1. x = Condvar!next /\ mt_queue'[Condvar!mutex] = mt_queue[Condvar!mutex]
            BY <1>1, <1>2, <2>2, <4>2
          <5> QED
            BY <1>1, <1>3, <1>4, <2>1, <2>2, <2>4, <3>1, <3>2, <4>2, <5>1 DEF Place
        <4>3. CASE to \in {"take_in", "put_left"}
          <5>1. x = Condvar!mutex /\ mt_queue'[Condvar!next] = mt_queue[Condvar!next]
            BY <1>1, <1>2, <2>2, <4>3
          <5> QED
            BY <1>1, <1>3, <1>4, <2>1, <2>2, <2>4, <3>1, <3>2, <4>3, <5>1 DEF Place
        <4> QED
          BY <4>2, <4>3
      <3>3. CASE k # i
        <4>1. \A y \in {Condvar!mutex, Condvar!next} : Member(mt_queue'[y], k) <=> Member(mt_queue[y], k)
          BY <1>2, <2>2, <2>4, <3>3
        <4> QED
          BY <1>1, <1>3, <2>1, <2>2, <3>1, <3>3, <4>1, PlaceSame
      <3> QED
        BY <3>2, <3>3
    <2> QED
      BY <1>5, <1>6, <2>5, <2>8, <2>9
  <1> QED
    BY <1>7, <1>8

\* Who has the baton gives it up: to a signaller that stepped back or to the
\* mutex, at the end of a routine and in cond_wait.
LEMMA MonLeaveStep ==
  ASSUME Condvar!PhilAssumption, MonInv, NEW i \in Condvar!Phils,
         Condvar!Leave(i) \/ (Condvar!TakeCheck(i) /\ state_condvar[i] = "HUNGRY")
  PROVE  MonInv'
  <1> USE DEF MonInv
  <1>1. PICK x \in {Condvar!mutex, Condvar!next}, to \in {"eat", "think", "wait"} :
           /\ mt_state[i] = "none" /\ mt_pc' = [mt_pc EXCEPT ![i] = to] /\ Condvar!up(x)
           /\ to = "eat" => mt_pc[i] = "take_leave"
           /\ to = "think" => mt_pc[i] = "put_leave"
           /\ to = "wait" => mt_pc[i] = "take_check" /\ state_condvar[i] = "HUNGRY"
           /\ count' = IF to = "wait" THEN [count EXCEPT ![i] = @ + 1] ELSE count
           /\ UNCHANGED <<next_count, state_condvar, mt_ret>>
    <2>1. CASE Condvar!Leave(i)
      BY <2>1 DEF Condvar!Leave, Condvar!leave, Condvar!At, Condvar!Awake, Condvar!Goto
    <2>2. CASE Condvar!TakeCheck(i) /\ state_condvar[i] = "HUNGRY"
      BY <2>2 DEF Condvar!TakeCheck, Condvar!wait, Condvar!leave, Condvar!At, Condvar!Awake, Condvar!Goto
    <2> QED
      BY <2>1, <2>2
  <1>2. /\ x \in Condvar!MonSems /\ Condvar!mutex \in Condvar!MonSems /\ Condvar!next \in Condvar!MonSems /\ Condvar!mutex # Condvar!next
        /\ \A k \in Condvar!Phils : Condvar!cv(k) \in Condvar!MonSems /\ Condvar!cv(k) # x
    BY MonSemsDiffer
  <1>3. mt_pc'[i] = to /\ \A k \in Condvar!Phils \ {i} : mt_pc'[k] = mt_pc[k]
    BY <1>1 DEF MonType
  <1>4. Place(i) /\ Holds(i)
    BY <1>1 DEF Place, Holds, Condvar!Inside, Condvar!Awake
  <1>5. mt_value[Condvar!mutex] = 0 /\ mt_value[Condvar!next] = 0 /\ \A k \in Condvar!Phils \ {i} : ~Holds(k)
    BY <1>4 DEF Baton
  <1>6. /\ count' \in [Condvar!Phils -> Nat] /\ count'[i] = (IF to = "wait" THEN 1 ELSE 0)
        /\ \A k \in Condvar!Phils \ {i} : count'[k] = count[k]
    BY <1>1, <1>4 DEF MonType, Place
  <1>7. Between'
    BY <1>1 DEF Between
  <1>8. Counted'
    BY <1>1, <1>3, CountedSame
  <1>9. CASE mt_queue[x] = <<>>
    <2>1. mt_value' = [mt_value EXCEPT ![x] = @ + 1] /\ mt_queue' = mt_queue /\ mt_state' = mt_state
      BY <1>1, <1>9 DEF Condvar!up
    <2>2. /\ mt_value'[x] = 1 /\ \A y \in {Condvar!mutex, Condvar!next} \ {x} : mt_value'[y] = 0
          /\ \A k \in Condvar!Phils : mt_value'[Condvar!cv(k)] = mt_value[Condvar!cv(k)]
      BY <1>1, <1>2, <1>5, <2>1 DEF MonType
    <2>3. MonType'
      BY <1>1, <1>2, <1>6, <2>1 DEF MonType, Places
    <2>4. \A k \in Condvar!Phils : ~Holds(k)'
      BY <1>1, <1>3, <1>5, <2>1 DEF Holds, Condvar!Inside, Condvar!Awake
    <2>5. Baton'
      BY <1>1, <1>2, <2>1, <2>2, <2>4 DEF Baton
    <2>6. ASSUME NEW k \in Condvar!Phils PROVE Place(k)'
      <3>1. CASE k = i
        BY <1>1, <1>3, <1>4, <1>6, <2>1, <2>2, <3>1 DEF Place
      <3>2. CASE k # i
        BY <1>1, <1>3, <1>6, <2>1, <2>2, <3>2, PlaceSame
      <3> QED
        BY <3>1, <3>2
    <2> QED
      BY <1>7, <1>8, <2>3, <2>5, <2>6
  <1>10. CASE mt_queue[x] # <<>>
    <2> DEFINE q == Head(mt_queue[x])
    <2>1. /\ mt_queue' = [mt_queue EXCEPT ![x] = Tail(@)]
          /\ mt_state' = [mt_state EXCEPT ![q] = "none"] /\ mt_value' = mt_value
      BY <1>1, <1>10 DEF Condvar!up
    <2>2. mt_queue[x] \in Seq(Condvar!Phils) /\ Distinct(mt_queue[x])
      BY <1>1, <1>2 DEF MonType, Baton
    <2>3. /\ q \in Condvar!Phils /\ Member(mt_queue[x], q)
          /\ Tail(mt_queue[x]) \in Seq(Condvar!Phils) /\ Distinct(Tail(mt_queue[x]))
          /\ \A y : Member(Tail(mt_queue[x]), y) <=> Member(mt_queue[x], y) /\ y # q
      BY <1>10, <2>2, FirstFacts
    <2> HIDE DEF q
    <2>4. /\ Place(q) /\ mt_state[q] # "none" /\ q # i
          /\ x = Condvar!mutex => mt_pc[q] \in {"take_in", "put_left"}
          /\ x = Condvar!next => mt_pc[q] = "signal_done"
      BY <1>1, <2>3 DEF Place
    <2>5. /\ mt_queue'[x] = Tail(mt_queue[x])
          /\ \A y \in Condvar!MonSems \ {x} : mt_queue'[y] = mt_queue[y]
          /\ mt_state'[q] = "none" /\ \A k \in Condvar!Phils \ {q} : mt_state'[k] = mt_state[k]
      BY <1>2, <2>1, <2>3 DEF MonType
    <2>6. MonType'
      BY <1>1, <1>2, <1>6, <2>1, <2>3 DEF MonType, Places
    <2>7. \A k \in Condvar!Phils : Holds(k)' => k = q
      BY <1>1, <1>3, <1>5, <2>5 DEF Holds, Condvar!Inside, Condvar!Awake
    <2>8. Distinct(mt_queue'[Condvar!mutex]) /\ Distinct(mt_queue'[Condvar!next])
      BY <1>1, <1>2, <2>3, <2>5 DEF Baton
    <2>9. Baton'
      BY <1>5, <2>1, <2>7, <2>8 DEF Baton
    <2>10. \A k \in Condvar!Phils \ {q} : \A y \in {Condvar!mutex, Condvar!next} :
              Member(mt_queue'[y], k) <=> Member(mt_queue[y], k)
      BY <1>2, <2>3, <2>5
    <2>11. ASSUME NEW k \in Condvar!Phils PROVE Place(k)'
      <3>1. mt_queue'[Condvar!cv(k)] = mt_queue[Condvar!cv(k)]
        BY <1>2, <2>5
      <3>2. CASE k = i
        BY <1>1, <1>3, <1>4, <1>6, <2>1, <2>4, <2>5, <2>10, <3>1, <3>2 DEF Place
      <3>3. CASE k = q
        <4>1. ~Member(mt_queue'[Condvar!mutex], q) /\ ~Member(mt_queue'[Condvar!next], q)
          <5>1. CASE x = Condvar!mutex
            BY <1>2, <2>3, <2>4, <2>5, <5>1 DEF Place
          <5>2. CASE x = Condvar!next
            BY <1>2, <2>3, <2>4, <2>5, <5>2 DEF Place
          <5> QED
            BY <1>1, <5>1, <5>2
        <4> QED
          BY <1>1, <1>3, <1>6, <2>1, <2>4, <2>5, <3>1, <3>3, <4>1 DEF Place
      <3>4. CASE k # i /\ k # q
        BY <1>1, <1>3, <1>6, <2>1, <2>5, <2>10, <3>1, <3>4, PlaceSame
      <3> QED
        BY <3>2, <3>3, <3>4
    <2> QED
      BY <1>7, <1>8, <2>6, <2>9, <2>11
  <1> QED
    BY <1>9, <1>10

\* up(&cv[j].sem) in cond_signal: j, who waits, is woken, or finds the unit if it
\* is still on its way to sleep.
Signalled(j) ==
    /\ mt_value' \in [Condvar!MonSems -> Nat] /\ mt_queue' \in [Condvar!MonSems -> Seq(Condvar!Phils)]
    /\ mt_state' \in [Condvar!Phils -> {"none", "WT_KSEM"}]
    /\ \A x \in {Condvar!mutex, Condvar!next} : mt_value'[x] = mt_value[x] /\ mt_queue'[x] = mt_queue[x]
    /\ \A k \in Condvar!Phils \ {j} : /\ mt_value'[Condvar!cv(k)] = mt_value[Condvar!cv(k)]
                                  /\ mt_queue'[Condvar!cv(k)] = mt_queue[Condvar!cv(k)]
                                  /\ mt_state'[k] = mt_state[k]
    /\ mt_queue'[Condvar!cv(j)] = <<>> /\ mt_state'[j] = "none"
    /\ mt_value'[Condvar!cv(j)] = IF mt_pc[j] = "wait" THEN 1 ELSE 0

LEMMA SignalledFacts ==
  ASSUME MonType, NEW j \in Condvar!Phils, Place(j), Condvar!up(Condvar!cv(j)), state_condvar[j] = "HUNGRY",
         \/ mt_pc[j] = "wait" /\ mt_state[j] = "none"
         \/ mt_pc[j] = "wait_done" /\ mt_state[j] # "none"
  PROVE  Signalled(j)
  <1> DEFINE c == Condvar!cv(j)
  <1>1. /\ c \in Condvar!MonSems /\ c # Condvar!mutex /\ c # Condvar!next
        /\ Condvar!mutex \in Condvar!MonSems /\ Condvar!next \in Condvar!MonSems
        /\ \A k \in Condvar!Phils \ {j} : Condvar!cv(k) \in Condvar!MonSems /\ Condvar!cv(k) # c
    BY MonSemsDiffer
  <1>2. mt_value[c] = 0 /\ mt_queue[c] = IF mt_pc[j] = "wait" THEN <<>> ELSE <<j>>
    BY DEF Place
  <1> HIDE DEF c
  <1>3. CASE mt_pc[j] = "wait"
    <2>1. mt_value' = [mt_value EXCEPT ![c] = @ + 1] /\ mt_queue' = mt_queue /\ mt_state' = mt_state
      BY <1>2, <1>3 DEF Condvar!up, c
    <2> QED
      BY <1>1, <1>2, <1>3, <2>1 DEF MonType, Signalled, c
  <1>4. CASE mt_pc[j] # "wait"
    <2>1. mt_queue[c] # <<>> /\ Head(mt_queue[c]) = j /\ Tail(mt_queue[c]) = <<>>
      BY <1>2, <1>4
    <2>2. /\ mt_queue' = [mt_queue EXCEPT ![c] = <<>>]
          /\ mt_state' = [mt_state EXCEPT ![j] = "none"] /\ mt_value' = mt_value
      BY <2>1 DEF Condvar!up, c
    <2> QED
      BY <1>1, <1>2, <1>4, <2>2 DEF MonType, Signalled, c
  <1> QED
    BY <1>3, <1>4

\* i found its forks: it goes on to leave the monitor.
LEMMA MonCheckedStep ==
  ASSUME MonInv, NEW i \in Condvar!Phils, Condvar!TakeCheck(i), state_condvar[i] # "HUNGRY"
  PROVE  MonInv'
  <1>1. /\ mt_pc[i] = "take_check" /\ mt_state[i] = "none" /\ mt_pc' = [mt_pc EXCEPT ![i] = "take_leave"]
        /\ UNCHANGED <<mt_value, mt_queue, mt_state, state_condvar, mt_ret, count, next_count>>
    BY DEF Condvar!TakeCheck, Condvar!At, Condvar!Awake, Condvar!Goto, Condvar!mtvars
  <1>2. mt_pc'[i] = "take_leave" /\ \A k \in Condvar!Phils \ {i} : mt_pc'[k] = mt_pc[k]
    BY <1>1 DEF MonInv, MonType
  <1>3. Place(i) /\ Holds(i) /\ state_condvar[i] = "EATING"
    BY <1>1 DEF MonInv, MonType, Place, Holds, Condvar!Inside, Condvar!Awake
  <1>4. MonType' /\ Baton' /\ Between' /\ \A k \in Condvar!Phils \ {i} : Place(k)'
    BY <1>1, <1>3, CalmStep DEF MonInv, MonType, Places
  <1>5. Place(i)'
    BY <1>1, <1>2, <1>3 DEF Place
  <1>6. Counted'
    BY <1>1, <1>2, CountedSame DEF MonInv
  <1> QED
    BY <1>4, <1>5, <1>6 DEF MonInv

\* The down of cond_wait: i sleeps, or was signalled before it could.
LEMMA MonWaitStep ==
  ASSUME Condvar!PhilAssumption, MonInv, NEW i \in Condvar!Phils, Condvar!Wait(i)
  PROVE  MonInv'
  <1> USE DEF MonInv
  <1> DEFINE c == Condvar!cv(i)
  <1>1. /\ mt_pc[i] = "wait" /\ mt_state[i] = "none" /\ mt_pc' = [mt_pc EXCEPT ![i] = "wait_done"]
        /\ Condvar!down(i, c) /\ UNCHANGED <<next_count, count, state_condvar, mt_ret>>
    BY DEF Condvar!Wait, Condvar!At, Condvar!Awake, Condvar!Goto
  <1>2. /\ c \in Condvar!MonSems /\ c # Condvar!mutex /\ c # Condvar!next
        /\ Condvar!mutex \in Condvar!MonSems /\ Condvar!next \in Condvar!MonSems
        /\ \A k \in Condvar!Phils \ {i} : Condvar!cv(k) \in Condvar!MonSems /\ Condvar!cv(k) # c
    BY MonSemsDiffer
  <1>3. mt_pc'[i] = "wait_done" /\ \A k \in Condvar!Phils \ {i} : mt_pc'[k] = mt_pc[k]
    BY <1>1 DEF MonType
  <1>4. Place(i) /\ mt_queue[c] = <<>>
    BY <1>1 DEF Place
  <1>5. Between'
    BY <1>1 DEF Between
  <1>6. Counted'
    BY <1>1, <1>3, CountedSame
  <1> HIDE DEF c
  <1>7. CASE mt_value[c] > 0
    <2>1. mt_value' = [mt_value EXCEPT ![c] = @ - 1] /\ mt_queue' = mt_queue /\ mt_state' = mt_state
      BY <1>1, <1>7 DEF Condvar!down
    <2>2. mt_value[c] = 1 /\ state_condvar[i] = "EATING"
      BY <1>4, <1>7 DEF Place, c
    <2>3. /\ mt_value'[c] = 0 /\ mt_value'[Condvar!mutex] = mt_value[Condvar!mutex] /\ mt_value'[Condvar!next] = mt_value[Condvar!next]
          /\ \A k \in Condvar!Phils \ {i} : mt_value'[Condvar!cv(k)] = mt_value[Condvar!cv(k)]
      BY <1>2, <2>1, <2>2 DEF MonType
    <2>4. MonType'
      BY <1>1, <1>2, <2>1, <2>2 DEF MonType, Places
    <2>5. \A k \in Condvar!Phils : Holds(k)' => Holds(k)
      BY <1>1, <1>3, <2>1, <2>2 DEF Holds, Condvar!Inside, Condvar!Awake
    <2>6. Baton'
      BY <2>1, <2>3, <2>5 DEF Baton
    <2>7. ASSUME NEW k \in Condvar!Phils PROVE Place(k)'
      <3>1. CASE k = i
        BY <1>1, <1>3, <1>4, <2>1, <2>2, <2>3, <3>1 DEF Place, c
      <3>2. CASE k # i
        BY <1>1, <1>3, <2>1, <2>3, <3>2, PlaceSame
      <3> QED
        BY <3>1, <3>2
    <2> QED
      BY <1>5, <1>6, <2>4, <2>6, <2>7
  <1>8. CASE ~(mt_value[c] > 0)
    <2>1. /\ mt_queue' = [mt_queue EXCEPT ![c] = Append(@, i)]
          /\ mt_state' = [mt_state EXCEPT ![i] = "WT_KSEM"] /\ mt_value' = mt_value
      BY <1>1, <1>8 DEF Condvar!down
    <2>2. state_condvar[i] = "HUNGRY"
      BY <1>1, <1>4, <1>8 DEF Place, MonType, c
    <2>3. /\ mt_queue'[c] = <<i>>
          /\ mt_queue'[Condvar!mutex] = mt_queue[Condvar!mutex] /\ mt_queue'[Condvar!next] = mt_queue[Condvar!next]
          /\ \A k \in Condvar!Phils \ {i} : mt_queue'[Condvar!cv(k)] = mt_queue[Condvar!cv(k)]
          /\ mt_state'[i] = "WT_KSEM" /\ \A k \in Condvar!Phils \ {i} : mt_state'[k] = mt_state[k]
      BY <1>2, <1>4, <2>1 DEF MonType
    <2>4. MonType'
      BY <1>1, <1>2, <2>1 DEF MonType, Places
    <2>5. \A k \in Condvar!Phils : Holds(k)' => Holds(k)
      BY <1>1, <1>3, <2>3 DEF Holds, Condvar!Inside, Condvar!Awake
    <2>6. Baton'
      BY <2>1, <2>3, <2>5 DEF Baton
    <2>7. ASSUME NEW k \in Condvar!Phils PROVE Place(k)'
      <3>1. CASE k = i
        BY <1>1, <1>3, <1>4, <2>1, <2>2, <2>3, <3>1 DEF Place, c
      <3>2. CASE k # i
        BY <1>1, <1>3, <2>1, <2>3, <3>2, PlaceSame
      <3> QED
        BY <3>1, <3>2
    <2> QED
      BY <1>5, <1>6, <2>4, <2>6, <2>7
  <1> QED
    BY <1>7, <1>8

\* i is hungry, and eats if its neighbours do not; nobody waits on its own
\* condition variable, so cond_signal does nothing.
LEMMA MonTakeInStep ==
  ASSUME Condvar!PhilAssumption, MonInv, NEW i \in Condvar!Phils, Condvar!TakeIn(i)
  PROVE  MonInv'
  <1> USE DEF MonInv
  <1> DEFINE st == [state_condvar EXCEPT ![i] = "HUNGRY"]
  <1>1. mt_pc[i] = "take_in" /\ mt_state[i] = "none" /\ Condvar!phi_test_condvar(i, i, st, "take_check")
    BY DEF Condvar!TakeIn, Condvar!At, Condvar!Awake
  <1>2. Place(i) /\ Holds(i) /\ count[i] = 0 /\ state_condvar[i] = "THINKING"
    BY <1>1 DEF Place, Holds, Condvar!Inside, Condvar!Awake
  <1>3. /\ mt_pc' = [mt_pc EXCEPT ![i] = "take_check"] /\ mt_ret' = [mt_ret EXCEPT ![i] = "take_check"]
        /\ UNCHANGED <<mt_value, mt_queue, mt_state, count, next_count>>
        /\ state_condvar' = IF Condvar!MayEat(i, st) THEN [st EXCEPT ![i] = "EATING"] ELSE st
    BY <1>1, <1>2 DEF Condvar!phi_test_condvar, Condvar!Goto, Condvar!mtvars
  <1>4. /\ mt_pc'[i] = "take_check" /\ \A k \in Condvar!Phils \ {i} : mt_pc'[k] = mt_pc[k] /\ mt_ret'[k] = mt_ret[k]
        /\ st \in [Condvar!Phils -> {"THINKING", "HUNGRY", "EATING"}]
        /\ st[i] = "HUNGRY" /\ \A k \in Condvar!Phils \ {i} : st[k] = state_condvar[k]
    BY <1>3 DEF MonType
  <1>5. \A k \in Condvar!Phils : Condvar!LEFT(k) \in Condvar!Phils \ {k} /\ Condvar!RIGHT(k) \in Condvar!Phils \ {k}
                             /\ Condvar!LEFT(Condvar!RIGHT(k)) = k
    BY MonAround
  <1> HIDE DEF st
  <1>6. /\ state_condvar'[i] = (IF Condvar!MayEat(i, st) THEN "EATING" ELSE "HUNGRY")
        /\ \A k \in Condvar!Phils \ {i} : state_condvar'[k] = state_condvar[k]
        /\ state_condvar' \in [Condvar!Phils -> {"THINKING", "HUNGRY", "EATING"}]
    BY <1>3, <1>4
  <1>7. MonType'
    BY <1>3, <1>6 DEF MonType, Places
  <1>8. \A k \in Condvar!Phils : Holds(k)' => Holds(k)
    BY <1>2, <1>3, <1>4, <1>6 DEF Holds, Condvar!Inside, Condvar!Awake
  <1>9. Baton'
    BY <1>3, <1>8 DEF Baton
  <1>10. ASSUME NEW k \in Condvar!Phils PROVE Place(k)'
    <2>1. CASE k = i
      BY <1>1, <1>2, <1>3, <1>4, <1>6, <2>1 DEF Place
    <2>2. CASE k # i
      BY <1>3, <1>4, <1>6, <2>2, PlaceSame
    <2> QED
      BY <2>1, <2>2
  <1>11. Between'
    <2> SUFFICES ASSUME NEW k \in Condvar!Phils, state_condvar'[k] = "EATING", state_condvar'[Condvar!RIGHT(k)] = "EATING"
                 PROVE  FALSE
      BY DEF Between
    <2>1. CASE k # i /\ Condvar!RIGHT(k) # i
      BY <1>5, <1>6, <2>1 DEF Between
    <2>2. CASE k = i \/ Condvar!RIGHT(k) = i
      <3>1. Condvar!MayEat(i, st)
        BY <1>6, <2>2
      <3>2. state_condvar[Condvar!LEFT(i)] # "EATING" /\ state_condvar[Condvar!RIGHT(i)] # "EATING"
        BY <1>4, <1>5, <3>1 DEF Condvar!MayEat
      <3> QED
        BY <1>5, <1>6, <2>2, <3>2
    <2> QED
      BY <2>1, <2>2
  <1>12. Counted'
    BY <1>1, <1>3, <1>4, CountedSame
  <1> QED
    BY <1>7, <1>9, <1>10, <1>11, <1>12

\* The forks of i are free: its neighbour j is looked at, and signalled if it waits
\* and may eat now.
LEMMA MonPutStep ==
  ASSUME Condvar!PhilAssumption, MonInv, NEW i \in Condvar!Phils, Condvar!PutLeft(i) \/ Condvar!PutRight(i)
  PROVE  MonInv'
  <1> USE DEF MonInv
  <1> DEFINE st == [state_condvar EXCEPT ![i] = "THINKING"]
  <1>1. PICK j \in Condvar!Phils \ {i}, l \in {"put_right", "put_leave"} :
           /\ mt_pc[i] \in {"put_left", "put_right"} /\ mt_state[i] = "none"
           /\ Condvar!phi_test_condvar(i, j, st, l)
    <2>1. CASE Condvar!PutLeft(i)
      BY <2>1, MonAround DEF Condvar!PutLeft, Condvar!At, Condvar!Awake
    <2>2. CASE Condvar!PutRight(i)
      <3>1. mt_pc[i] = "put_right" /\ Place(i)
        BY <2>2 DEF Condvar!PutRight, Condvar!At
      <3>2. st = state_condvar
        BY <3>1 DEF Place, MonType
      <3> HIDE DEF st
      <3> QED
        BY <2>2, <3>1, <3>2, MonAround DEF Condvar!PutRight, Condvar!At, Condvar!Awake
    <2> QED
      BY <2>1, <2>2
  <1>2. Place(i) /\ Place(j) /\ Holds(i)
    BY <1>1 DEF Holds, Condvar!Inside, Condvar!Awake
  <1>3. /\ st \in [Condvar!Phils -> {"THINKING", "HUNGRY", "EATING"}]
        /\ st[i] = "THINKING" /\ \A k \in Condvar!Phils \ {i} : st[k] = state_condvar[k]
    BY DEF MonType
  <1>4. \A k \in Condvar!Phils : Condvar!LEFT(k) \in Condvar!Phils \ {k} /\ Condvar!RIGHT(k) \in Condvar!Phils \ {k}
                             /\ Condvar!LEFT(Condvar!RIGHT(k)) = k
    BY MonAround
  <1>5. \A k \in Condvar!Phils : st[k] = "EATING" => state_condvar[k] = "EATING"
    BY <1>3
  <1>6. mt_ret' = [mt_ret EXCEPT ![i] = l] /\ mt_ret'[i] = l /\ \A k \in Condvar!Phils \ {i} : mt_ret'[k] = mt_ret[k]
    BY <1>1 DEF Condvar!phi_test_condvar, MonType
  <1> HIDE DEF st
  <1>7. CASE Condvar!MayEat(j, st)
    <2>1. state_condvar[j] = "HUNGRY"
      BY <1>1, <1>3, <1>7 DEF Condvar!MayEat
    <2>2. \/ mt_pc[j] = "wait" /\ mt_state[j] = "none"
          \/ mt_pc[j] = "wait_done" /\ mt_state[j] # "none"
      <3>1. mt_pc[j] \in {"take_check", "wait", "wait_done"}
        BY <1>2, <2>1 DEF Place, MonType, Places
      <3>2. mt_pc[j] # "take_check"
        <4>1. mt_pc[j] = "take_check" => Holds(j)
          BY <1>2 DEF Place, Holds, Condvar!Inside, Condvar!Awake
        <4> QED
          BY <1>1, <1>2, <4>1 DEF Baton
      <3> QED
        BY <1>2, <2>1, <3>1, <3>2 DEF Place
    <2>3. count[j] = 1
      BY <1>2, <2>2 DEF Place
    <2>4. /\ mt_pc' = [mt_pc EXCEPT ![i] = "signal"] /\ next_count' = next_count + 1 /\ count' = count
          /\ Condvar!up(Condvar!cv(j)) /\ state_condvar' = [st EXCEPT ![j] = "EATING"]
      BY <1>1, <1>7, <2>3 DEF Condvar!phi_test_condvar, Condvar!signal, Condvar!Goto
    <2>5. mt_pc'[i] = "signal" /\ \A k \in Condvar!Phils \ {i} : mt_pc'[k] = mt_pc[k]
      BY <2>4 DEF MonType
    <2>6. /\ state_condvar' \in [Condvar!Phils -> {"THINKING", "HUNGRY", "EATING"}]
          /\ state_condvar'[j] = "EATING" /\ state_condvar'[i] = "THINKING"
          /\ \A k \in Condvar!Phils \ {j} : state_condvar'[k] = st[k]
      BY <1>1, <1>3, <2>4
    <2>7. Signalled(j)
      BY <1>2, <2>1, <2>2, <2>4, SignalledFacts
    <2>8. MonType'
      BY <1>6, <2>4, <2>6, <2>7 DEF MonType, Places, Signalled
    <2>9. \A k \in Condvar!Phils : Holds(k)' => k = j
      <3>1. \A k \in Condvar!Phils \ {i} : ~Holds(k)
        BY <1>2 DEF Baton
      <3>2. ~Holds(i)'
        BY <2>5 DEF Holds, Condvar!Inside
      <3>3. ASSUME NEW k \in Condvar!Phils, k # i, k # j PROVE Holds(k)' => Holds(k)
        <4>1. mt_pc'[k] = mt_pc[k] /\ mt_state'[k] = mt_state[k] /\ state_condvar'[k] = state_condvar[k]
          BY <1>3, <2>5, <2>6, <2>7, <3>3 DEF Signalled
        <4> QED
          BY <4>1 DEF Holds, Condvar!Inside, Condvar!Awake
      <3> QED
        BY <3>1, <3>2, <3>3
    <2>10. mt_value[Condvar!mutex] = 0 /\ mt_value[Condvar!next] = 0
      BY <1>2 DEF Baton
    <2>11. Baton'
      BY <2>7, <2>9, <2>10 DEF Baton, Signalled
    <2>12. ASSUME NEW k \in Condvar!Phils PROVE Place(k)'
      <3>1. CASE k = i
        BY <1>1, <1>2, <1>6, <2>4, <2>5, <2>6, <2>7, <3>1 DEF Place, Signalled
      <3>2. CASE k = j
        BY <1>1, <1>2, <1>6, <2>1, <2>2, <2>4, <2>5, <2>6, <2>7, <3>2 DEF Place, Signalled
      <3>3. CASE k # i /\ k # j
        BY <1>3, <1>6, <2>4, <2>5, <2>6, <2>7, <3>3, PlaceSame DEF Signalled
      <3> QED
        BY <3>1, <3>2, <3>3
    <2>13. Between'
      <3>1. st[Condvar!LEFT(j)] # "EATING" /\ st[Condvar!RIGHT(j)] # "EATING"
        BY <1>7 DEF Condvar!MayEat
      <3> SUFFICES ASSUME NEW k \in Condvar!Phils, state_condvar'[k] = "EATING", state_condvar'[Condvar!RIGHT(k)] = "EATING"
                   PROVE  FALSE
        BY DEF Between
      <3>2. CASE k = j
        BY <1>4, <2>6, <3>1, <3>2
      <3>3. CASE Condvar!RIGHT(k) = j
        BY <1>4, <2>6, <3>1, <3>3
      <3>4. CASE k # j /\ Condvar!RIGHT(k) # j
        BY <1>4, <1>5, <2>6, <3>4 DEF Between
      <3> QED
        BY <3>2, <3>3, <3>4
    <2>14. Counted'
      <3>1. Stepped' = Stepped \cup {i} /\ i \notin Stepped
        BY <1>1, <2>5 DEF Stepped
      <3> QED
        BY <2>4, <3>1, SteppedFinite, FS_AddElement DEF Counted
    <2> QED
      BY <2>8, <2>11, <2>12, <2>13, <2>14
  <1>8. CASE ~Condvar!MayEat(j, st)
    <2>1. /\ state_condvar' = st /\ mt_pc' = [mt_pc EXCEPT ![i] = l]
          /\ UNCHANGED <<mt_value, mt_queue, mt_state, count, next_count>>
      BY <1>1, <1>8 DEF Condvar!phi_test_condvar, Condvar!Goto, Condvar!mtvars
    <2>2. mt_pc'[i] = l /\ \A k \in Condvar!Phils \ {i} : mt_pc'[k] = mt_pc[k]
      BY <2>1 DEF MonType
    <2>3. MonType'
      BY <1>3, <1>6, <2>1 DEF MonType, Places
    <2>4. \A k \in Condvar!Phils : Holds(k)' => Holds(k)
      BY <1>2, <1>3, <2>1, <2>2 DEF Holds, Condvar!Inside, Condvar!Awake
    <2>5. Baton'
      BY <2>1, <2>4 DEF Baton
    <2>6. ASSUME NEW k \in Condvar!Phils PROVE Place(k)'
      <3>1. CASE k = i
        BY <1>1, <1>2, <1>3, <2>1, <2>2, <3>1 DEF Place
      <3>2. CASE k # i
        BY <1>3, <1>6, <2>1, <2>2, <3>2, PlaceSame
      <3> QED
        BY <3>1, <3>2
    <2>7. Between'
      BY <1>4, <1>5, <2>1 DEF Between
    <2>8. Counted'
      BY <1>1, <2>1, <2>2, CountedSame
    <2> QED
      BY <2>3, <2>5, <2>6, <2>7, <2>8
  <1> QED
    BY <1>7, <1>8

\* check_sync has set up the monitor: all think, and it is free.
LEMMA MonInit == ASSUME Condvar!PhilAssumption, Condvar!Init PROVE MonInv
  <1>1. /\ mt_value = [x \in Condvar!MonSems |-> IF x = Condvar!mutex THEN 1 ELSE 0]
        /\ mt_queue = [x \in Condvar!MonSems |-> <<>>] /\ mt_state = [i \in Condvar!Phils |-> "none"]
        /\ next_count = 0 /\ count = [i \in Condvar!Phils |-> 0]
        /\ state_condvar = [i \in Condvar!Phils |-> "THINKING"] /\ mt_pc = [i \in Condvar!Phils |-> "think"]
        /\ mt_ret = [i \in Condvar!Phils |-> "take_check"]
    BY DEF Condvar!Init, Condvar!monitor_init, Condvar!SemInit
  <1>2. MonType
    BY <1>1 DEF MonType, Places
  <1>3. /\ mt_value[Condvar!mutex] = 1 /\ mt_value[Condvar!next] = 0
        /\ mt_queue[Condvar!mutex] = <<>> /\ mt_queue[Condvar!next] = <<>>
    BY <1>1, MonSemsDiffer
  <1>4. \A i \in Condvar!Phils : ~Holds(i)
    BY <1>1 DEF Holds, Condvar!Inside
  <1>5. Baton
    BY <1>3, <1>4 DEF Baton, Distinct
  <1>6. ASSUME NEW i \in Condvar!Phils PROVE Place(i)
    <2>1. mt_value[Condvar!cv(i)] = 0 /\ mt_queue[Condvar!cv(i)] = <<>>
      BY <1>1, MonSemsDiffer
    <2>2. ~Member(mt_queue[Condvar!mutex], i) /\ ~Member(mt_queue[Condvar!next], i)
      BY <1>3 DEF Member
    <2> QED
      BY <1>1, <2>1, <2>2 DEF Place
  <1>7. Between
    BY <1>1 DEF Between
  <1>8. Counted
    <2>1. Stepped = {}
      BY <1>1 DEF Stepped
    <2> QED
      BY <1>1, <2>1, FS_EmptySet DEF Counted
  <1> QED
    BY <1>2, <1>5, <1>6, <1>7, <1>8 DEF MonInv

\* The philosophers of check_sync.c with the monitor of monitor.c, for any number
\* of them: one process at most is inside and while one is no unit lets another
\* in, the counters are the numbers of blocked processes, and neighbours never eat
\* together.
THEOREM CondvarCorrect == ASSUME Condvar!PhilAssumption PROVE Condvar!Spec => []CondvarTable
  <1>1. Condvar!Init => MonInv
    BY MonInit
  <1>2. MonInv /\ [Condvar!Next]_(Condvar!vars) => MonInv'
    <2> SUFFICES ASSUME MonInv, [Condvar!Next]_(Condvar!vars) PROVE MonInv'
      OBVIOUS
    <2>1. CASE UNCHANGED Condvar!vars
      <3>1. UNCHANGED <<mt_value, mt_queue, mt_state, next_count, count, state_condvar, mt_pc, mt_ret>>
        BY <2>1 DEF Condvar!vars
      <3>2. \A k \in Condvar!Phils : Holds(k)' => Holds(k)
        BY <3>1 DEF Holds, Condvar!Inside, Condvar!Awake
      <3>3. MonType' /\ Baton' /\ Between'
        BY <3>1, <3>2 DEF MonInv, MonType, Baton, Between
      <3>4. \A k \in Condvar!Phils : Place(k)'
        BY <3>1, PlaceSame DEF MonInv
      <3>5. Counted'
        BY <3>1, CountedSame DEF MonInv
      <3> QED
        BY <3>3, <3>4, <3>5 DEF MonInv
    <2>2. CASE Condvar!Next
      <3>1. PICK i \in Condvar!Phils : Condvar!Phil(i)
        BY <2>2 DEF Condvar!Next
      <3>2. CASE Condvar!TakeCheck(i)
        BY <3>2, MonLeaveStep, MonCheckedStep
      <3> QED
        BY <3>1, <3>2, MonThinkStep, MonDownStep, MonTakeInStep, MonWaitStep, MonWaitDoneStep,
           MonLeaveStep, MonPutStep, MonSignalDoneStep DEF Condvar!Phil
    <2> QED
      BY <2>1, <2>2
  <1>3. MonInv => CondvarTable
    <2> SUFFICES ASSUME MonInv PROVE CondvarTable
      OBVIOUS
    <2>1. Condvar!OneInside
      <3>1. \A i \in Condvar!Phils : Condvar!Inside(i) => Holds(i)
        BY DEF Holds
      <3>2. ASSUME NEW i \in Condvar!Phils, Condvar!Inside(i), NEW j \in Condvar!Phils PROVE Condvar!Passes(j) = 0
        <4>1. CASE mt_pc[j] = "wait"
          <5>1. ~Holds(j)
            BY <3>1, <3>2, <4>1 DEF MonInv, Baton, Condvar!Inside
          <5>2. Place(j) /\ mt_value[Condvar!cv(j)] = 0
            BY <4>1, <5>1 DEF MonInv, Place, Holds
          <5> QED
            BY <5>2 DEF Condvar!Passes
        <4>2. CASE mt_pc[j] # "wait"
          BY <4>2 DEF Condvar!Passes
        <4> QED
          BY <4>1, <4>2
      <3> QED
        BY <3>1, <3>2 DEF MonInv, Baton, Condvar!OneInside
    <2>2. Condvar!CountsExact
      <3>1. next_count = Cardinality({i \in Condvar!Phils : mt_pc[i] \in {"signal", "signal_done"}})
        BY DEF MonInv, Counted, Stepped
      <3>2. \A i \in Condvar!Phils : count[i] = IF mt_pc[i] \in {"wait", "wait_done"} THEN 1 ELSE 0
        BY DEF MonInv, Place
      <3>3. ASSUME NEW S PROVE Condvar!Cardinality(S) = Cardinality(S)
        BY DEF Cardinality, Condvar!Cardinality
      <3> QED
        BY <3>1, <3>2, <3>3 DEF Condvar!CountsExact
    <2>3. Condvar!ForksExclusive
      <3>1. \A i \in Condvar!Phils : Place(i)
        BY DEF MonInv
      <3>2. \A i \in Condvar!Phils :
               mt_pc[i] \in {"take_leave", "eat"} \/ (mt_pc[i] = "wait_done" /\ Condvar!Awake(i))
                   => state_condvar[i] = "EATING"
        BY <3>1 DEF Place, Condvar!Awake
      <3> QED
        BY <3>2 DEF MonInv, Between, Condvar!ForksExclusive
    <2> QED
      BY <2>1, <2>2, <2>3 DEF CondvarTable, Condvar!CondvarTable
  <1> QED
    BY <1>1, <1>2, <1>3, PTL DEF Condvar!Spec
===============================================================================
