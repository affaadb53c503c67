------------------------------- MODULE TimerProofs -------------------------------
(***************************************************************************)
(* The delta-encoded timer list implements the countdown of TimerSpec, for *)
(* any set of timers and any bound on the time slept.  The invariant       *)
(* relates neighbours in the list only (Differences), so that inserting,   *)
(* removing and ticking disturb it at one or two places; Sorted turns that *)
(* into a fact about the head and every other timer.                       *)
(***************************************************************************)
EXTENDS Timer, TLAPS

\* The inductive invariant.
IInv == TimerTypeOK /\ LinkedOnce /\ Differences /\ Sorted /\ LinkedCount /\ AddInv

\* The countdown of the entry before index i, from which expires counts.
Before(i) == IF i = 1 THEN 0 ELSE timer[timer_list[i - 1]]

\* list_add_before: the entries from index i on move up by one.
LEMMA InsertFacts ==
  ASSUME NEW S, NEW q \in Seq(S), NEW i \in 1..Len(q) + 1, NEW x \in S
  PROVE  /\ InsertAt(q, i, x) \in Seq(S)
         /\ Len(InsertAt(q, i, x)) = Len(q) + 1
         /\ \A j \in 1..Len(q) + 1 :
               InsertAt(q, i, x)[j] = (IF j < i THEN q[j] ELSE IF j = i THEN x ELSE q[j - 1])
  <1>1. Len(q) \in Nat
    OBVIOUS
  <1>2. \A j \in 1..Len(q) + 1 : (IF j < i THEN q[j] ELSE IF j = i THEN x ELSE q[j - 1]) \in S
    <2>1. SUFFICES ASSUME NEW j \in 1..Len(q) + 1
                   PROVE  (IF j < i THEN q[j] ELSE IF j = i THEN x ELSE q[j - 1]) \in S
      OBVIOUS
    <2>2. /\ j < i => j \in 1..Len(q)
          /\ j > i => j - 1 \in 1..Len(q)
      BY <1>1
    <2> QED
      BY <2>2
  <1>3. InsertAt(q, i, x) \in [1..Len(q) + 1 -> S]
    BY <1>2 DEF InsertAt
  <1> QED
    BY <1>1, <1>3 DEF InsertAt

\* list_del_init: the entries after index i move down by one.
LEMMA RemoveFacts ==
  ASSUME NEW S, NEW q \in Seq(S), NEW i \in 1..Len(q)
  PROVE  /\ RemoveAt(q, i) \in Seq(S)
         /\ Len(RemoveAt(q, i)) = Len(q) - 1
         /\ \A j \in 1..Len(q) - 1 : RemoveAt(q, i)[j] = (IF j < i THEN q[j] ELSE q[j + 1])
  <1>1. Len(q) \in Nat /\ Len(q) - 1 \in Nat
    OBVIOUS
  <1>2. \A j \in 1..Len(q) - 1 : j \in 1..Len(q) /\ j + 1 \in 1..Len(q)
    BY <1>1
  <1>3. RemoveAt(q, i) \in [1..Len(q) - 1 -> S]
    BY <1>2 DEF RemoveAt
  <1> QED
    BY <1>1, <1>3 DEF RemoveAt

\* The types of what the list holds.
LEMMA ListTyped ==
  ASSUME TimerTypeOK
  PROVE  /\ Len(timer_list) \in Nat
         /\ \A i \in 1..Len(timer_list) : timer_list[i] \in Timers
         /\ \A t \in Timers : expires[t] \in 0..MaxSleep /\ timer[t] \in -1..MaxSleep
  <1>1. timer_list \in Seq(Timers)
    BY DEF TimerTypeOK
  <1>2. Len(timer_list) \in Nat /\ \A i \in 1..Len(timer_list) : timer_list[i] \in Timers
    BY <1>1
  <1> QED
    BY <1>2 DEF TimerTypeOK

\* The empty list.
LEMMA InitInv == TimerInit => IInv
  <1> SUFFICES ASSUME TimerInit PROVE IInv
    OBVIOUS
  <1>1. timer_list = <<>> /\ Len(timer_list) = 0 /\ timer_list \in Seq(Timers)
    BY DEF TimerInit
  <1>2. TimerTypeOK
    BY <1>1, TimerAssumption DEF TimerInit, TimerTypeOK
  <1>3. LinkedOnce /\ Differences /\ Sorted /\ AddInv
    BY <1>1 DEF TimerInit, LinkedOnce, Differences, Sorted, AddInv
  <1>4. LinkedCount
    <2>1. InList = {}
      BY <1>1 DEF InList
    <2>2. \A t \in Timers : timer[t] = -1
      BY DEF TimerInit
    <2>3. -1 # 0
      OBVIOUS
    <2> QED
      BY <2>1, <2>2, <2>3 DEF LinkedCount
  <1> QED
    BY <1>2, <1>3, <1>4 DEF IInv

\* del_timer, wherever the timer is in the list: its successor takes over its
\* difference, and the invariant of the list survives.
LEMMA DelStep ==
  ASSUME IInv, NEW t \in Timers, timer_pc # "add", del_timer(t), UNCHANGED <<adding, time, timer_le, timer_pc>>
  PROVE  IInv'
  <1>0. /\ TimerTypeOK /\ LinkedOnce /\ Differences /\ Sorted /\ LinkedCount
        /\ timer_list \in Seq(Timers)
    BY DEF IInv, TimerTypeOK
  <1>1. /\ Len(timer_list) \in Nat
        /\ \A j \in 1..Len(timer_list) : timer_list[j] \in Timers
        /\ \A u \in Timers : expires[u] \in 0..MaxSleep /\ timer[u] \in -1..MaxSleep
    BY <1>0, ListTyped
  <1>2. PICK i \in 1..Len(timer_list) :
            /\ timer_list[i] = t
            /\ IF expires[t] # 0 /\ i < Len(timer_list)
               THEN expires' = [expires EXCEPT ![timer_list[i + 1]] = @ + expires[t]]
               ELSE UNCHANGED expires
            /\ timer_list' = RemoveAt(timer_list, i)
            /\ timer' = [timer EXCEPT ![t] = -1]
    BY DEF del_timer
  <1> DEFINE n == Len(timer_list)
  <1>3. /\ timer_list' \in Seq(Timers) /\ Len(timer_list') = n - 1
        /\ \A j \in 1..n - 1 : timer_list'[j] = (IF j < i THEN timer_list[j] ELSE timer_list[j + 1])
    BY <1>0, <1>2, RemoveFacts
  <1>4. \A j \in 1..n : j # i => timer_list[j] # t /\ timer'[timer_list[j]] = timer[timer_list[j]]
    BY <1>0, <1>1, <1>2 DEF LinkedOnce, TimerTypeOK
  <1>5. i < n => /\ i + 1 \in 1..n
                 /\ expires'[timer_list[i + 1]] = expires[timer_list[i + 1]] + expires[t]
    <2>1. SUFFICES ASSUME i < n
                   PROVE  /\ i + 1 \in 1..n
                          /\ expires'[timer_list[i + 1]] = expires[timer_list[i + 1]] + expires[t]
      OBVIOUS
    <2>2. i + 1 \in 1..n /\ timer_list[i + 1] \in Timers
      BY <1>1, <2>1
    <2>3. expires[timer_list[i + 1]] \in Int
      BY <1>1, <2>2
    <2>4. CASE expires[t] # 0
      BY <1>0, <1>2, <2>1, <2>2, <2>4 DEF TimerTypeOK
    <2>5. CASE expires[t] = 0
      BY <1>2, <2>2, <2>3, <2>5
    <2> QED
      BY <2>2, <2>4, <2>5
  <1>6. \A j \in 1..n : j # i + 1 => expires'[timer_list[j]] = expires[timer_list[j]]
    <2>1. SUFFICES ASSUME NEW j \in 1..n, j # i + 1
                   PROVE  expires'[timer_list[j]] = expires[timer_list[j]]
      OBVIOUS
    <2>2. CASE expires[t] # 0 /\ i < n
      <3>1. i + 1 \in 1..n
        BY <1>1, <2>2
      <3>2. timer_list[j] # timer_list[i + 1]
        BY <1>0, <2>1, <3>1 DEF LinkedOnce
      <3> QED
        BY <1>0, <1>1, <1>2, <2>2, <3>2 DEF TimerTypeOK
    <2>3. CASE ~(expires[t] # 0 /\ i < n)
      BY <1>2, <2>3
    <2> QED
      BY <2>2, <2>3
  <1>7. \A j \in 1..n : expires[timer_list[j]] = timer[timer_list[j]] - (IF j = 1 THEN 0 ELSE timer[timer_list[j - 1]])
    BY <1>0 DEF Differences
  <1>8. \A j \in 1..n : timer[timer_list[j]] >= 0
    BY <1>0, <1>1 DEF LinkedCount, InList
  <1>9. Differences'
    <2>1. SUFFICES ASSUME NEW j \in 1..n - 1
                   PROVE  expires'[timer_list'[j]] = timer'[timer_list'[j]]
                              - (IF j = 1 THEN 0 ELSE timer'[timer_list'[j - 1]])
      BY <1>3 DEF Differences
    <2>2. CASE j < i
      <3>1. timer_list'[j] = timer_list[j] /\ j \in 1..n /\ (j # 1 => timer_list'[j - 1] = timer_list[j - 1] /\ j - 1 \in 1..n)
        <4>1. j \in 1..n /\ (j # 1 => j - 1 \in 1..n - 1 /\ j - 1 < i /\ j - 1 \in 1..n)
          BY <1>1, <2>2
        <4>2. timer_list'[j] = timer_list[j]
          BY <1>3, <2>2
        <4>3. j # 1 => timer_list'[j - 1] = timer_list[j - 1]
          BY <1>3, <4>1
        <4> QED
          BY <4>1, <4>2, <4>3
      <3>2. expires'[timer_list[j]] = expires[timer_list[j]] /\ timer'[timer_list[j]] = timer[timer_list[j]]
        BY <1>1, <1>4, <1>6, <2>2, <3>1
      <3>3. j # 1 => timer'[timer_list[j - 1]] = timer[timer_list[j - 1]]
        BY <1>1, <1>4, <2>2, <3>1
      <3> QED
        BY <1>7, <3>1, <3>2, <3>3
    <2>3. CASE j = i
      <3>1. timer_list'[j] = timer_list[i + 1] /\ i + 1 \in 1..n /\ i < n
        BY <1>1, <1>3, <2>3
      <3>2. timer'[timer_list[i + 1]] = timer[timer_list[i + 1]]
        BY <1>1, <1>4, <3>1
      <3>3. /\ expires[timer_list[i + 1]] = timer[timer_list[i + 1]] - timer[t]
            /\ expires[t] = timer[t] - (IF i = 1 THEN 0 ELSE timer[timer_list[i - 1]])
        BY <1>1, <1>2, <1>7, <3>1
      <3>4. i # 1 => /\ timer_list'[i - 1] = timer_list[i - 1] /\ i - 1 \in 1..n
                     /\ timer'[timer_list[i - 1]] = timer[timer_list[i - 1]]
        <4>1. i # 1 => i - 1 \in 1..n - 1 /\ i - 1 \in 1..n /\ i - 1 < i /\ i - 1 # i
          BY <1>1
        <4> QED
          BY <1>3, <1>4, <4>1
      <3>5. /\ timer[timer_list[i + 1]] \in Int /\ timer[t] \in Int
            /\ i # 1 => timer[timer_list[i - 1]] \in Int
        BY <1>1, <3>1, <3>4
      <3>6. CASE i = 1
        BY <1>5, <2>3, <3>1, <3>2, <3>3, <3>5, <3>6
      <3>7. CASE i # 1
        BY <1>5, <2>3, <3>1, <3>2, <3>3, <3>4, <3>5, <3>7
      <3> QED
        BY <3>6, <3>7
    <2>4. CASE j > i
      <3>1. /\ timer_list'[j] = timer_list[j + 1] /\ j + 1 \in 1..n /\ j # 1
            /\ timer_list'[j - 1] = timer_list[j] /\ j \in 1..n
        <4>1. /\ j + 1 \in 1..n /\ j \in 1..n /\ j # 1 /\ ~(j < i)
              /\ j - 1 \in 1..n - 1 /\ ~(j - 1 < i) /\ (j - 1) + 1 = j
          BY <1>1, <2>4
        <4>2. timer_list'[j] = timer_list[j + 1]
          BY <1>3, <4>1
        <4>3. timer_list'[j - 1] = timer_list[j]
          BY <1>3, <4>1
        <4> QED
          BY <4>1, <4>2, <4>3
      <3>2. /\ expires'[timer_list[j + 1]] = expires[timer_list[j + 1]]
            /\ timer'[timer_list[j + 1]] = timer[timer_list[j + 1]]
            /\ timer'[timer_list[j]] = timer[timer_list[j]]
        BY <1>1, <1>4, <1>6, <2>4, <3>1
      <3>3. expires[timer_list[j + 1]] = timer[timer_list[j + 1]] - timer[timer_list[j]]
        BY <1>1, <1>7, <3>1
      <3> QED
        BY <3>1, <3>2, <3>3
    <2> QED
      BY <1>1, <2>2, <2>3, <2>4
  <1>10. LinkedOnce' /\ Sorted'
    <2> DEFINE old(k) == IF k < i THEN k ELSE k + 1
    <2>1. \A k \in 1..n - 1 : old(k) \in 1..n /\ old(k) # i /\ timer_list'[k] = timer_list[old(k)]
      BY <1>1, <1>3
    <2>2. \A j, k \in 1..n - 1 : /\ old(j) = old(k) => j = k
                                /\ j < k => old(j) < old(k)
      BY <1>1
    <2>3. \A j, k \in 1..n - 1 : timer_list'[j] = timer_list'[k] => j = k
      <3>1. SUFFICES ASSUME NEW j \in 1..n - 1, NEW k \in 1..n - 1, timer_list'[j] = timer_list'[k]
                     PROVE  j = k
        OBVIOUS
      <3>2. timer_list[old(j)] = timer_list[old(k)] /\ old(j) \in 1..n /\ old(k) \in 1..n
        BY <2>1, <3>1
      <3>3. old(j) = old(k)
        BY <1>0, <3>2 DEF LinkedOnce
      <3> QED
        BY <1>1, <3>3
    <2>4. \A j, k \in 1..n - 1 : j < k => timer'[timer_list'[j]] <= timer'[timer_list'[k]]
      <3>1. SUFFICES ASSUME NEW j \in 1..n - 1, NEW k \in 1..n - 1, j < k
                     PROVE  timer'[timer_list'[j]] <= timer'[timer_list'[k]]
        OBVIOUS
      <3>2. old(j) \in 1..n /\ old(k) \in 1..n /\ old(j) < old(k)
        BY <1>1, <3>1
      <3>3. timer[timer_list[old(j)]] <= timer[timer_list[old(k)]]
        BY <1>0, <3>2 DEF Sorted
      <3>4. /\ timer'[timer_list'[j]] = timer[timer_list[old(j)]]
            /\ timer'[timer_list'[k]] = timer[timer_list[old(k)]]
        BY <1>4, <2>1
      <3> QED
        BY <3>3, <3>4
    <2> QED
      BY <1>3, <2>3, <2>4 DEF LinkedOnce, Sorted
  <1>11. TimerTypeOK'
    <2>1. expires' \in [Timers -> 0..MaxSleep]
      <3>1. CASE expires[t] # 0 /\ i < n
        <4>1. i + 1 \in 1..n /\ timer_list[i + 1] \in Timers
          BY <1>1, <3>1
        <4>2. /\ expires[timer_list[i + 1]] = timer[timer_list[i + 1]] - timer[t]
              /\ expires[t] <= timer[t]
          <5>1. expires[timer_list[i + 1]] = timer[timer_list[i + 1]] - timer[t]
            BY <1>1, <1>2, <1>7, <4>1
          <5>2. expires[t] = timer[t] - (IF i = 1 THEN 0 ELSE timer[timer_list[i - 1]])
            BY <1>2, <1>7
          <5>3. i # 1 => i - 1 \in 1..n
            BY <1>1
          <5>4. i # 1 => timer[timer_list[i - 1]] \in 0..MaxSleep
            BY <1>1, <1>8, <5>3
          <5> QED
            BY <1>1, <5>1, <5>2, <5>4
        <4>3. expires[timer_list[i + 1]] + expires[t] \in 0..MaxSleep
          BY <1>1, <4>1, <4>2, TimerAssumption
        <4> QED
          BY <1>0, <1>2, <3>1, <4>1, <4>3 DEF TimerTypeOK
      <3>2. CASE ~(expires[t] # 0 /\ i < n)
        BY <1>0, <1>2, <3>2 DEF TimerTypeOK
      <3> QED
        BY <3>1, <3>2
    <2>2. timer' \in [Timers -> -1..MaxSleep]
      BY <1>0, <1>2, TimerAssumption DEF TimerTypeOK
    <2> QED
      BY <1>0, <1>3, <2>1, <2>2 DEF TimerTypeOK
  <1>12. LinkedCount'
    <2>1. \A u \in Timers : u \in InList' <=> (u \in InList /\ u # t)
      <3>1. ASSUME NEW u \in InList' PROVE u \in InList /\ u # t
        BY <1>1, <1>3, <1>4 DEF InList
      <3>2. ASSUME NEW u \in InList, u # t PROVE u \in InList'
        <4>1. PICK k \in 1..n : timer_list[k] = u
          BY DEF InList
        <4>2. CASE k < i
          <5>1. k \in 1..Len(timer_list') /\ timer_list'[k] = u
            BY <1>1, <1>3, <4>1, <4>2
          <5> QED
            BY <5>1 DEF InList
        <4>3. CASE k > i
          <5>1. k - 1 \in 1..Len(timer_list') /\ timer_list'[k - 1] = u
            BY <1>1, <1>3, <4>1, <4>3
          <5> QED
            BY <5>1 DEF InList
        <4> QED
          BY <1>2, <3>2, <4>1, <4>2, <4>3
      <3> QED
        BY <3>1, <3>2
    <2>2. \A u \in Timers : timer'[u] = (IF u = t THEN -1 ELSE timer[u])
      BY <1>0, <1>2 DEF TimerTypeOK
    <2> QED
      BY <1>0, <2>1, <2>2 DEF LinkedCount
  <1> QED
    BY <1>9, <1>10, <1>11, <1>12 DEF IInv, AddInv

\* The end of add_timer: the new timer is between the timers that expire before
\* and after it, and the one after it gives up the new timer's share.
LEMMA InsertStep == IInv /\ AddInsert => IInv'
  <1> SUFFICES ASSUME IInv, AddInsert PROVE IInv'
    OBVIOUS
  <1> DEFINE n == Len(timer_list)
             q == timer_list
  <1>0. /\ TimerTypeOK /\ LinkedOnce /\ Differences /\ Sorted /\ LinkedCount /\ AddInv
        /\ timer_list \in Seq(Timers) /\ adding \in Timers /\ time \in 1..MaxSleep
    BY DEF IInv, TimerTypeOK
  <1>1. /\ n \in Nat /\ \A j \in 1..n : q[j] \in Timers
        /\ \A u \in Timers : expires[u] \in 0..MaxSleep /\ timer[u] \in -1..MaxSleep
    BY <1>0, ListTyped
  <1>2. /\ timer_le \in 1..n + 1 /\ \A j \in 1..n : q[j] # adding
        /\ Before(timer_le) <= time /\ expires[adding] = time - Before(timer_le)
    <2>1. timer_pc = "add" /\ timer_le \in Nat \ {0}
      BY <1>0 DEF AddInsert, TimerTypeOK
    <2>2. adding \notin InList /\ timer_le <= n + 1
      BY <1>0, <2>1 DEF AddInv
    <2>3. Before(timer_le) <= time /\ expires[adding] = time - Before(timer_le)
      BY <1>0, <2>1 DEF AddInv, Before
    <2> QED
      BY <1>1, <2>1, <2>2, <2>3 DEF InList
  <1>3. /\ timer_list' \in Seq(Timers) /\ Len(timer_list') = n + 1
        /\ \A j \in 1..n + 1 : timer_list'[j] = (IF j < timer_le THEN q[j] ELSE IF j = timer_le THEN adding ELSE q[j - 1])
    <2>1. timer_list' = InsertAt(timer_list, timer_le, adding)
      BY DEF AddInsert
    <2> QED
      <3>1. timer_le \in 1..Len(timer_list) + 1 /\ timer_list \in Seq(Timers) /\ adding \in Timers
        BY <1>0, <1>2
      <3>2. /\ InsertAt(timer_list, timer_le, adding) \in Seq(Timers)
            /\ Len(InsertAt(timer_list, timer_le, adding)) = Len(timer_list) + 1
            /\ \A j \in 1..Len(timer_list) + 1 :
                  InsertAt(timer_list, timer_le, adding)[j]
                      = (IF j < timer_le THEN timer_list[j] ELSE IF j = timer_le THEN adding ELSE timer_list[j - 1])
        BY <3>1, InsertFacts
      <3> QED
        BY <2>1, <3>2
  <1>4. /\ timer'[adding] = time
        /\ \A j \in 1..n : timer'[q[j]] = timer[q[j]]
    BY <1>0, <1>1, <1>2 DEF AddInsert, TimerTypeOK
  <1>5. /\ expires'[adding] = expires[adding]
        /\ \A j \in 1..n : j # timer_le => expires'[q[j]] = expires[q[j]]
        /\ timer_le <= n => /\ expires[adding] < expires[q[timer_le]]
                            /\ expires'[q[timer_le]] = expires[q[timer_le]] - expires[adding]
    <2>1. CASE timer_le > n
      <3>1. expires' = expires /\ \A j \in 1..n : j # timer_le
        BY <1>1, <1>2, <2>1 DEF AddInsert
      <3> QED
        BY <1>1, <1>2, <2>1, <3>1
    <2>2. CASE timer_le <= n
      <3>1. timer_le \in 1..n /\ q[timer_le] \in Timers /\ q[timer_le] # adding
        BY <1>1, <1>2, <2>2
      <3>2. /\ expires[adding] < expires[q[timer_le]]
            /\ expires' = [expires EXCEPT ![q[timer_le]] = expires[q[timer_le]] - expires[adding]]
        BY <1>1, <1>2, <2>2 DEF AddInsert
      <3>3. \A j \in 1..n : j # timer_le => q[j] # q[timer_le]
        BY <1>0, <3>1 DEF LinkedOnce
      <3>4. expires \in [Timers -> 0..MaxSleep]
        BY <1>0 DEF TimerTypeOK
      <3> QED
        BY <1>0, <1>1, <3>1, <3>2, <3>3, <3>4
    <2> QED
      BY <1>1, <1>2, <2>1, <2>2
  <1>6. \A j \in 1..n : expires[q[j]] = timer[q[j]] - Before(j)
    BY <1>0 DEF Differences, Before
  <1>7. Before(timer_le) \in Int /\ \A j \in 1..n : j < timer_le => timer[q[j]] <= Before(timer_le)
    <2>1. CASE timer_le = 1
      BY <1>1, <2>1 DEF Before
    <2>2. CASE timer_le # 1
      <3>1. timer_le - 1 \in 1..n /\ Before(timer_le) = timer[q[timer_le - 1]]
        BY <1>1, <1>2, <2>2 DEF Before
      <3>2. timer[q[timer_le - 1]] \in Int
        BY <1>1, <3>1
      <3>3. ASSUME NEW j \in 1..n, j < timer_le PROVE timer[q[j]] <= timer[q[timer_le - 1]]
        <4>1. CASE j = timer_le - 1
          BY <3>2, <4>1
        <4>2. CASE j # timer_le - 1
          <5>1. j < timer_le - 1
            BY <1>2, <3>3, <4>2
          <5> QED
            BY <1>0, <3>1, <5>1 DEF Sorted
        <4> QED
          BY <4>1, <4>2
      <3> QED
        BY <3>1, <3>2, <3>3
    <2> QED
      BY <2>1, <2>2
  <1>8. \A j \in 1..n : j >= timer_le => time <= timer[q[j]]
    <2>1. SUFFICES ASSUME NEW j \in 1..n, j >= timer_le PROVE time <= timer[q[j]]
      OBVIOUS
    <2>2. timer_le \in 1..n
      BY <1>1, <1>2, <2>1
    <2>3. time < timer[q[timer_le]]
      <3>1. expires[q[timer_le]] = timer[q[timer_le]] - Before(timer_le) /\ expires[adding] < expires[q[timer_le]]
        BY <1>5, <1>6, <2>2
      <3> QED
        BY <1>0, <1>1, <1>2, <1>7, <2>2, <3>1
    <2>4. timer[q[timer_le]] <= timer[q[j]]
      BY <1>0, <1>1, <2>1, <2>2 DEF Sorted
    <2> QED
      BY <1>0, <1>1, <2>2, <2>3, <2>4
  <1>9. Differences'
    <2>1. SUFFICES ASSUME NEW j \in 1..n + 1
                   PROVE  expires'[timer_list'[j]] = timer'[timer_list'[j]]
                              - (IF j = 1 THEN 0 ELSE timer'[timer_list'[j - 1]])
      BY <1>3 DEF Differences
    <2>2. CASE j < timer_le
      <3>1. timer_list'[j] = q[j] /\ j \in 1..n /\ (j # 1 => timer_list'[j - 1] = q[j - 1] /\ j - 1 \in 1..n)
        BY <1>1, <1>2, <1>3, <2>2
      <3> QED
        BY <1>4, <1>5, <1>6, <2>2, <3>1 DEF Before
    <2>3. CASE j = timer_le
      <3>1. timer_list'[j] = adding /\ (j # 1 => timer_list'[j - 1] = q[j - 1] /\ j - 1 \in 1..n)
        BY <1>1, <1>2, <1>3, <2>3
      <3> QED
        BY <1>2, <1>4, <1>5, <2>3, <3>1 DEF Before
    <2>4. CASE j = timer_le + 1
      <3>1. timer_le \in 1..n /\ timer_list'[j] = q[timer_le] /\ j # 1 /\ timer_list'[j - 1] = adding
        BY <1>1, <1>2, <1>3, <2>4
      <3>2. /\ expires'[q[timer_le]] = expires[q[timer_le]] - expires[adding]
            /\ expires[q[timer_le]] = timer[q[timer_le]] - Before(timer_le)
        BY <1>1, <1>5, <1>6, <3>1
      <3>3. expires'[q[timer_le]] = timer[q[timer_le]] - time
        BY <1>0, <1>1, <1>2, <1>7, <3>1, <3>2
      <3> QED
        BY <1>4, <3>1, <3>3
    <2>5. CASE j > timer_le + 1
      <3>1. /\ timer_list'[j] = q[j - 1] /\ j - 1 \in 1..n /\ j - 1 # timer_le /\ j # 1 /\ j - 1 # 1
            /\ timer_list'[j - 1] = q[j - 2] /\ j - 2 \in 1..n /\ (j - 1) - 1 = j - 2
        BY <1>1, <1>2, <1>3, <2>5
      <3>2. expires[q[j - 1]] = timer[q[j - 1]] - timer[q[j - 2]]
        BY <1>6, <3>1 DEF Before
      <3> QED
        BY <1>4, <1>5, <3>1, <3>2
    <2> QED
      BY <1>1, <1>2, <2>2, <2>3, <2>4, <2>5
  <1>10. LinkedOnce'
    <2>1. SUFFICES ASSUME NEW i \in 1..n + 1, NEW j \in 1..n + 1, timer_list'[i] = timer_list'[j]
                   PROVE  i = j
      BY <1>3 DEF LinkedOnce
    <2> DEFINE old(k) == IF k < timer_le THEN k ELSE k - 1
    <2>2. \A k \in 1..n + 1 : k # timer_le => old(k) \in 1..n /\ timer_list'[k] = q[old(k)]
      BY <1>1, <1>2, <1>3
    <2>3. CASE i = timer_le \/ j = timer_le
      <3> HIDE DEF old
      <3>1. timer_list'[timer_le] = adding
        BY <1>2, <1>3
      <3>2. \A k \in 1..n + 1 : k # timer_le => timer_list'[k] # adding
        BY <1>2, <2>2
      <3> QED
        BY <2>1, <2>3, <3>1, <3>2
    <2>4. CASE i # timer_le /\ j # timer_le
      <3>1. old(i) = old(j)
        BY <1>0, <2>1, <2>2, <2>4 DEF LinkedOnce
      <3> QED
        BY <1>1, <1>2, <2>4, <3>1
    <2> QED
      BY <2>3, <2>4
  <1>11. Sorted'
    <2>1. SUFFICES ASSUME NEW i \in 1..n + 1, NEW j \in 1..n + 1, i < j
                   PROVE  timer'[timer_list'[i]] <= timer'[timer_list'[j]]
      BY <1>3 DEF Sorted
    <2>2. CASE i = timer_le
      <3>1. timer_list'[i] = adding /\ timer_list'[j] = q[j - 1] /\ j - 1 \in 1..n /\ j - 1 >= timer_le
        BY <1>1, <1>2, <1>3, <2>1, <2>2
      <3> QED
        BY <1>4, <1>8, <3>1
    <2>3. CASE j = timer_le
      <3>1. timer_list'[j] = adding /\ timer_list'[i] = q[i] /\ i \in 1..n /\ i < timer_le
        BY <1>1, <1>2, <1>3, <2>1, <2>3
      <3>2. timer[q[i]] <= Before(timer_le) /\ timer[q[i]] \in Int
        BY <1>1, <1>7, <3>1
      <3> QED
        BY <1>0, <1>2, <1>4, <1>7, <3>1, <3>2
    <2>4. CASE i # timer_le /\ j # timer_le
      <3> DEFINE a == IF i < timer_le THEN i ELSE i - 1
                 b == IF j < timer_le THEN j ELSE j - 1
      <3>1. a \in 1..n /\ b \in 1..n /\ a < b /\ timer_list'[i] = q[a] /\ timer_list'[j] = q[b]
        BY <1>1, <1>2, <1>3, <2>1, <2>4
      <3> QED
        BY <1>0, <1>4, <3>1 DEF Sorted
    <2> QED
      BY <2>2, <2>3, <2>4
  <1>12. TimerTypeOK'
    <2>1. expires' \in [Timers -> 0..MaxSleep]
      <3>1. CASE timer_le > n
        BY <1>0, <1>5, <3>1 DEF AddInsert, TimerTypeOK
      <3>2. CASE timer_le <= n
        <4>1. timer_le \in 1..n /\ q[timer_le] \in Timers
          BY <1>1, <1>2, <3>2
        <4>2. expires[q[timer_le]] - expires[adding] \in 0..MaxSleep
          BY <1>0, <1>1, <1>5, <3>2, <4>1, TimerAssumption
        <4>3. expires' = [expires EXCEPT ![q[timer_le]] = expires[q[timer_le]] - expires[adding]]
          BY <1>1, <1>2, <3>2 DEF AddInsert
        <4> QED
          BY <1>0, <4>1, <4>2, <4>3 DEF TimerTypeOK
      <3> QED
        BY <1>1, <1>2, <3>1, <3>2
    <2>2. timer' \in [Timers -> -1..MaxSleep]
      BY <1>0, TimerAssumption DEF AddInsert, TimerTypeOK
    <2> QED
      BY <1>0, <1>3, <2>1, <2>2 DEF AddInsert, TimerTypeOK
  <1>13. LinkedCount'
    <2>1. \A u \in Timers : u \in InList' <=> (u \in InList \/ u = adding)
      <3>1. ASSUME NEW u \in InList' PROVE u \in InList \/ u = adding
        <4>1. PICK j \in 1..n + 1 : timer_list'[j] = u
          BY <1>3 DEF InList
        <4>2. j < timer_le => j \in 1..n
          BY <1>1, <1>2
        <4>3. j > timer_le => j - 1 \in 1..n
          BY <1>1, <1>2
        <4> QED
          BY <1>2, <1>3, <4>1, <4>2, <4>3 DEF InList
      <3>2. ASSUME NEW u \in InList PROVE u \in InList'
        <4>1. PICK k \in 1..n : q[k] = u
          BY DEF InList
        <4>2. CASE k < timer_le
          BY <1>1, <1>3, <4>1, <4>2 DEF InList
        <4>3. CASE k >= timer_le
          <5>1. k + 1 \in 1..Len(timer_list') /\ timer_list'[k + 1] = u
            BY <1>1, <1>2, <1>3, <4>1, <4>3
          <5> QED
            BY <5>1 DEF InList
        <4> QED
          BY <1>1, <1>2, <4>2, <4>3
      <3>3. adding \in InList'
        BY <1>2, <1>3 DEF InList
      <3> QED
        BY <3>1, <3>2, <3>3
    <2>2. \A u \in Timers : timer'[u] = (IF u = adding THEN time ELSE timer[u])
      BY <1>0 DEF AddInsert, TimerTypeOK
    <2>3. time # 0 /\ time # -1
      BY <1>0
    <2> QED
      BY <1>0, <2>1, <2>2, <2>3 DEF AddInsert, LinkedCount
  <1> QED
    BY <1>9, <1>10, <1>11, <1>12, <1>13 DEF AddInsert, IInv, AddInv

\* The head of the list, and what the invariant says of it.
LEMMA HeadFacts ==
  ASSUME IInv, timer_list # <<>>
  PROVE  /\ 1 \in 1..Len(timer_list) /\ Head(timer_list) = timer_list[1]
         /\ Head(timer_list) \in Timers
         /\ expires[Head(timer_list)] = timer[Head(timer_list)]
         /\ timer[Head(timer_list)] \in 0..MaxSleep
  <1>1. timer_list \in Seq(Timers) /\ TimerTypeOK /\ Differences /\ LinkedCount
    BY DEF IInv, TimerTypeOK
  <1>2. 1 \in 1..Len(timer_list) /\ Head(timer_list) = timer_list[1] /\ Head(timer_list) \in Timers
    BY <1>1
  <1>3. timer[timer_list[1]] \in -1..MaxSleep
    BY <1>1, <1>2, ListTyped
  <1>4. timer_list[1] \in InList
    BY <1>2 DEF InList
  <1>5. timer[timer_list[1]] # -1
    BY <1>1, <1>2, <1>4 DEF LinkedCount
  <1>6. expires[timer_list[1]] = timer[timer_list[1]] - 0
    BY <1>1, <1>2 DEF Differences
  <1> QED
    BY <1>2, <1>3, <1>5, <1>6

\* The tick of run_timer_list lowers the head's difference, and with it the
\* countdown of every linked timer.
LEMMA RunBeginStep == IInv /\ RunBegin => IInv'
  <1> SUFFICES ASSUME IInv, RunBegin PROVE IInv'
    OBVIOUS
  <1> DEFINE n == Len(timer_list)
             q == timer_list
  <1>0. TimerTypeOK /\ LinkedOnce /\ Differences /\ Sorted /\ LinkedCount /\ timer_pc = "out"
    BY DEF IInv, RunBegin
  <1>1. /\ n \in Nat /\ \A j \in 1..n : q[j] \in Timers
        /\ \A u \in Timers : expires[u] \in 0..MaxSleep /\ timer[u] \in -1..MaxSleep
    BY <1>0, ListTyped
  <1>2. \A u \in Timers : timer[u] = -1 \/ timer[u] > 0
    <2>1. \A u \in Timers : timer[u] # 0
      BY <1>0 DEF LinkedCount
    <2>2. SUFFICES ASSUME NEW u \in Timers PROVE timer[u] = -1 \/ timer[u] > 0
      OBVIOUS
    <2>3. timer[u] \in Int /\ timer[u] >= -1 /\ timer[u] # 0
      BY <1>1, <2>1
    <2> QED
      BY <2>3
  <1>3. \A u \in Timers : timer'[u] = (IF timer[u] > 0 THEN timer[u] - 1 ELSE timer[u])
    BY DEF RunBegin
  <1>4. \A j \in 1..n : timer[q[j]] > 0 /\ timer'[q[j]] = timer[q[j]] - 1
    <2>1. SUFFICES ASSUME NEW j \in 1..n PROVE timer[q[j]] > 0
      BY <1>1, <1>3
    <2>2. q[j] \in InList /\ q[j] \in Timers
      BY <1>1 DEF InList
    <2>3. timer[q[j]] # -1
      BY <1>0, <2>2 DEF LinkedCount
    <2> QED
      BY <1>2, <2>2, <2>3
  <1>5. timer_list' = timer_list /\ timer_pc' = "run"
    BY DEF RunBegin
  <1>6. CASE timer_list = <<>>
    <2>1. n = 0
      BY <1>6
    <2>2. expires' = expires /\ timer' \in [Timers -> -1..MaxSleep]
      BY <1>1, <1>6, TimerAssumption DEF RunBegin
    <2>3. TimerTypeOK'
      BY <1>0, <2>2 DEF RunBegin, TimerTypeOK
    <2>4. LinkedOnce' /\ Differences' /\ Sorted' /\ AddInv'
      BY <1>5, <2>1 DEF LinkedOnce, Differences, Sorted, AddInv
    <2>5. LinkedCount'
      <3>1. InList' = InList
        BY <1>5 DEF InList
      <3>2. \A u \in Timers : timer'[u] # -1 <=> timer[u] # -1
        <4>1. SUFFICES ASSUME NEW u \in Timers PROVE timer'[u] # -1 <=> timer[u] # -1
          OBVIOUS
        <4>2. CASE timer[u] = -1
          BY <1>3, <4>2
        <4>3. CASE timer[u] > 0
          <5>1. timer[u] \in Int /\ timer'[u] = timer[u] - 1
            BY <1>1, <1>3, <4>3
          <5> QED
            BY <4>3, <5>1
        <4> QED
          BY <1>2, <4>2, <4>3
      <3> QED
        BY <1>0, <1>5, <3>1, <3>2 DEF LinkedCount
    <2> QED
      BY <2>3, <2>4, <2>5 DEF IInv
  <1>7. CASE timer_list # <<>>
    <2>1. /\ 1 \in 1..n /\ Head(q) = q[1] /\ q[1] \in Timers
          /\ expires[q[1]] = timer[q[1]] /\ timer[q[1]] \in 0..MaxSleep
      BY <1>7, HeadFacts
    <2>2. expires' = [expires EXCEPT ![q[1]] = expires[q[1]] - 1]
      BY <1>7, <2>1 DEF RunBegin
    <2>3. expires[q[1]] - 1 \in 0..MaxSleep
      BY <1>4, <2>1, TimerAssumption
    <2>4. TimerTypeOK'
      <3>1. expires' \in [Timers -> 0..MaxSleep]
        BY <1>0, <2>1, <2>2, <2>3 DEF TimerTypeOK
      <3>2. timer' \in [Timers -> -1..MaxSleep]
        BY <1>1, TimerAssumption DEF RunBegin
      <3> QED
        BY <1>0, <3>1, <3>2 DEF RunBegin, TimerTypeOK
    <2>5. Differences'
      <3>1. SUFFICES ASSUME NEW j \in 1..n
                     PROVE  expires'[q[j]] = timer'[q[j]] - (IF j = 1 THEN 0 ELSE timer'[q[j - 1]])
        BY <1>5 DEF Differences
      <3>2. CASE j = 1
        BY <1>0, <1>1, <1>4, <2>1, <2>2, <3>2 DEF TimerTypeOK
      <3>3. CASE j # 1
        <4>1. j - 1 \in 1..n /\ q[j] # q[1] /\ q[j] \in Timers
          BY <1>0, <1>1, <2>1, <3>3 DEF LinkedOnce
        <4>2. expires'[q[j]] = expires[q[j]]
          BY <1>0, <2>2, <4>1 DEF TimerTypeOK
        <4>3. expires[q[j]] = timer[q[j]] - timer[q[j - 1]]
          BY <1>0, <3>3 DEF Differences
        <4>4. timer'[q[j]] = timer[q[j]] - 1 /\ timer'[q[j - 1]] = timer[q[j - 1]] - 1
          BY <1>4, <4>1
        <4>5. timer[q[j]] \in Int /\ timer[q[j - 1]] \in Int
          BY <1>1, <4>1
        <4> QED
          BY <3>3, <4>2, <4>3, <4>4, <4>5
      <3> QED
        BY <3>2, <3>3
    <2>6. LinkedOnce'
      BY <1>0, <1>5 DEF LinkedOnce
    <2>7. Sorted'
      <3>1. SUFFICES ASSUME NEW i \in 1..n, NEW j \in 1..n, i < j PROVE timer'[q[i]] <= timer'[q[j]]
        BY <1>5 DEF Sorted
      <3>2. timer[q[i]] <= timer[q[j]]
        BY <1>0, <3>1 DEF Sorted
      <3> QED
        BY <1>1, <1>4, <3>2
    <2>8. LinkedCount'
      <3>1. InList' = InList
        BY <1>5 DEF InList
      <3>2. \A u \in Timers : timer'[u] # -1 <=> timer[u] # -1
        <4>1. SUFFICES ASSUME NEW u \in Timers PROVE timer'[u] # -1 <=> timer[u] # -1
          OBVIOUS
        <4>2. CASE timer[u] = -1
          BY <1>3, <4>2
        <4>3. CASE timer[u] > 0
          <5>1. timer[u] \in Int /\ timer'[u] = timer[u] - 1
            BY <1>1, <1>3, <4>3
          <5> QED
            BY <4>3, <5>1
        <4> QED
          BY <1>2, <4>2, <4>3
      <3> QED
        BY <1>0, <1>5, <3>1, <3>2 DEF LinkedCount
    <2> QED
      BY <1>5, <2>4, <2>5, <2>6, <2>7, <2>8 DEF IInv, AddInv
  <1> QED
    BY <1>6, <1>7

\* The beginning of add_timer: the timer is not in the list, so the list does not
\* see that timer_init sets it.
LEMMA AddBeginStep ==
  ASSUME IInv, NEW t \in Timers, NEW n \in 1..MaxSleep, AddBegin(t, n)
  PROVE  IInv'
  <1>0. /\ TimerTypeOK /\ LinkedOnce /\ Differences /\ Sorted /\ LinkedCount
        /\ timer_pc = "out" /\ timer_pc' = "add" /\ t \notin InList
        /\ timer_list' = timer_list /\ timer' = timer
        /\ adding' = t /\ time' = n /\ timer_le' = 1
        /\ expires' = [expires EXCEPT ![t] = n]
    BY DEF IInv, AddBegin
  <1>1. TimerTypeOK'
    BY <1>0 DEF TimerTypeOK
  <1>2. \A j \in 1..Len(timer_list) : expires'[timer_list[j]] = expires[timer_list[j]]
    <2>1. SUFFICES ASSUME NEW j \in 1..Len(timer_list) PROVE expires'[timer_list[j]] = expires[timer_list[j]]
      OBVIOUS
    <2>2. timer_list[j] # t /\ timer_list[j] \in Timers
      BY <1>0, ListTyped DEF InList
    <2> QED
      BY <1>0, <2>2 DEF TimerTypeOK
  <1>3. Differences'
    BY <1>0, <1>2 DEF Differences
  <1>4. LinkedOnce' /\ Sorted'
    BY <1>0 DEF LinkedOnce, Sorted
  <1>5. LinkedCount' /\ InList' = InList
    BY <1>0 DEF LinkedCount, InList
  <1>6. AddInv'
    <2>1. expires'[t] = n
      BY <1>0 DEF TimerTypeOK
    <2>2. Len(timer_list) \in Nat
      BY <1>0, ListTyped
    <2> QED
      BY <1>0, <1>5, <2>1, <2>2 DEF AddInv
  <1> QED
    BY <1>1, <1>3, <1>4, <1>5, <1>6 DEF IInv

\* One iteration of add_timer: the new timer gives up the difference of the entry
\* it passes, and then counts from that entry's expiry.
LEMMA AddPassStep == IInv /\ AddPass => IInv'
  <1> SUFFICES ASSUME IInv, AddPass PROVE IInv'
    OBVIOUS
  <1>0. /\ TimerTypeOK /\ LinkedOnce /\ Differences /\ Sorted /\ LinkedCount /\ AddInv
        /\ timer_pc = "add" /\ timer_pc' = "add" /\ adding \in Timers /\ time \in 1..MaxSleep
        /\ timer_list' = timer_list /\ timer' = timer /\ adding' = adding /\ time' = time
        /\ timer_le' = timer_le + 1 /\ timer_le <= Len(timer_list) /\ timer_le \in Nat \ {0}
        /\ expires[adding] >= expires[timer_list[timer_le]]
        /\ expires' = [expires EXCEPT ![adding] = expires[adding] - expires[timer_list[timer_le]]]
    BY DEF IInv, AddPass, TimerTypeOK
  <1>1. /\ Len(timer_list) \in Nat
        /\ \A j \in 1..Len(timer_list) : timer_list[j] \in Timers
        /\ \A u \in Timers : expires[u] \in 0..MaxSleep /\ timer[u] \in -1..MaxSleep
    BY <1>0, ListTyped
  <1>2. timer_le \in 1..Len(timer_list) /\ timer_list[timer_le] \in Timers
    BY <1>0, <1>1
  <1>3. expires[adding] - expires[timer_list[timer_le]] \in 0..MaxSleep
    BY <1>0, <1>1, <1>2, TimerAssumption
  <1>4. TimerTypeOK'
    <2>1. expires' \in [Timers -> 0..MaxSleep]
      BY <1>0, <1>3 DEF TimerTypeOK
    <2> QED
      BY <1>0, <2>1 DEF TimerTypeOK
  <1>5. adding \notin InList /\ expires[adding] = time - Before(timer_le)
    BY <1>0 DEF AddInv, Before
  <1>6. InList' = InList
    BY <1>0 DEF InList
  <1>7. \A j \in 1..Len(timer_list) : expires'[timer_list[j]] = expires[timer_list[j]]
    <2>1. SUFFICES ASSUME NEW j \in 1..Len(timer_list) PROVE expires'[timer_list[j]] = expires[timer_list[j]]
      OBVIOUS
    <2>2. timer_list[j] # adding /\ timer_list[j] \in Timers
      BY <1>1, <1>5 DEF InList
    <2> QED
      BY <1>0, <2>2 DEF TimerTypeOK
  <1>8. Differences'
    BY <1>0, <1>7 DEF Differences
  <1>9. LinkedOnce' /\ Sorted' /\ LinkedCount'
    BY <1>0, <1>6 DEF LinkedOnce, Sorted, LinkedCount
  <1>10. AddInv'
    <2>1. expires[timer_list[timer_le]] = timer[timer_list[timer_le]] - Before(timer_le)
      BY <1>0, <1>2 DEF Differences, Before
    <2>2. Before(timer_le) \in Int
      <3>1. CASE timer_le = 1
        BY <3>1 DEF Before
      <3>2. CASE timer_le # 1
        <4>1. timer_le - 1 \in 1..Len(timer_list)
          BY <1>0, <1>1, <3>2
        <4>2. timer[timer_list[timer_le - 1]] \in Int
          BY <1>1, <4>1
        <4> QED
          BY <3>2, <4>2 DEF Before
      <3> QED
        BY <3>1, <3>2
    <2>3. expires'[adding] = expires[adding] - expires[timer_list[timer_le]]
      BY <1>0 DEF TimerTypeOK
    <2>4. timer[timer_list[timer_le]] \in Int /\ time \in Int
      BY <1>0, <1>1, <1>2
    <2>5. expires'[adding] = time - timer[timer_list[timer_le]] /\ timer[timer_list[timer_le]] <= time
      BY <1>0, <1>5, <2>1, <2>2, <2>3, <2>4
    <2>6. timer_le' # 1 /\ timer_le' - 1 = timer_le /\ timer_le' <= Len(timer_list) + 1
      BY <1>0, <1>1
    <2> QED
      BY <1>0, <1>5, <1>6, <2>5, <2>6 DEF AddInv
  <1> QED
    BY <1>4, <1>8, <1>9, <1>10 DEF IInv

\* When run_timer_list leaves its loop, the head has time left, hence every timer
\* has.
LEMMA NothingDue ==
  ASSUME IInv, ~HeadExpired
  PROVE  \A t \in Timers : timer[t] # 0
  <1>1. SUFFICES ASSUME NEW t \in Timers, timer[t] = 0 PROVE FALSE
    OBVIOUS
  <1>2. TimerTypeOK /\ Sorted /\ LinkedCount
    BY DEF IInv
  <1>3. PICK i \in 1..Len(timer_list) : timer_list[i] = t
    <2>1. 0 # -1
      OBVIOUS
    <2>2. t \in InList
      BY <1>1, <1>2, <2>1 DEF LinkedCount
    <2> QED
      BY <2>2 DEF InList
  <1>4. timer_list # <<>>
    BY <1>2, <1>3 DEF TimerTypeOK
  <1>5. /\ 1 \in 1..Len(timer_list) /\ Head(timer_list) = timer_list[1]
        /\ expires[Head(timer_list)] = timer[Head(timer_list)]
        /\ timer[Head(timer_list)] \in 0..MaxSleep
    BY <1>4, HeadFacts
  <1>6. timer[timer_list[1]] > 0
    BY <1>4, <1>5, TimerAssumption DEF HeadExpired
  <1>7. CASE i = 1
    BY <1>1, <1>3, <1>6, <1>7
  <1>8. CASE i # 1
    <2>1. 1 < i
      BY <1>3, <1>8
    <2>2. timer[timer_list[1]] <= timer[timer_list[i]]
      BY <1>2, <1>5, <2>1 DEF Sorted
    <2> QED
      BY <1>1, <1>3, <1>5, <1>6, <2>2
  <1> QED
    BY <1>7, <1>8

\* The end of run_timer_list.
LEMMA RunEndStep == IInv /\ RunEnd => IInv'
  <1> SUFFICES ASSUME IInv, RunEnd PROVE IInv'
    OBVIOUS
  <1>1. /\ UNCHANGED <<timer_list, expires, adding, time, timer_le, timer>>
        /\ timer_pc' = "out" /\ ~HeadExpired
    BY DEF RunEnd
  <1>2. \A t \in Timers : timer[t] # 0
    BY <1>1, NothingDue
  <1>3. LinkedCount'
    BY <1>1, <1>2 DEF IInv, LinkedCount, InList
  <1>4. TimerTypeOK' /\ LinkedOnce' /\ Differences' /\ Sorted' /\ AddInv'
    BY <1>1 DEF IInv, TimerTypeOK, LinkedOnce, Differences, Sorted, AddInv
  <1> QED
    BY <1>3, <1>4 DEF IInv

\* The invariant of the timer list.
THEOREM Invariance == TimerListSpec => []IInv
  <1>1. IInv /\ [TimerNext]_timer_vars => IInv'
    <2> SUFFICES ASSUME IInv, [TimerNext]_timer_vars PROVE IInv'
      OBVIOUS
    <2>1. ASSUME NEW t \in Timers, NEW n \in 1..MaxSleep, AddBegin(t, n) PROVE IInv'
      BY <2>1, AddBeginStep
    <2>2. ASSUME NEW t \in Timers, Del(t) PROVE IInv'
      BY <2>2, DelStep DEF Del
    <2>3. CASE RunExpire
      <3>1. Head(timer_list) \in Timers /\ timer_pc # "add"
        BY <2>3, HeadFacts DEF RunExpire, HeadExpired
      <3> QED
        BY <2>3, <3>1, DelStep DEF RunExpire
    <2>4. CASE UNCHANGED timer_vars
      BY <2>4 DEF timer_vars, IInv, TimerTypeOK, LinkedOnce, Differences, Sorted, LinkedCount, InList, AddInv
    <2> QED
      BY <2>1, <2>2, <2>3, <2>4, AddPassStep, InsertStep, RunBeginStep, RunEndStep DEF TimerNext
  <1> QED
    BY InitInv, <1>1, PTL DEF TimerListSpec

\* Every entry of timer_list holds the difference to the one before it, however
\* timers were added and deleted.
THEOREM ListCorrect == TimerListSpec => []Differences
  <1>1. IInv => Differences
    BY DEF IInv
  <1> QED
    BY Invariance, <1>1, PTL

\* timer_list is in the order of expiry.
THEOREM OrderCorrect == TimerListSpec => []Sorted
  <1>1. IInv => Sorted
    BY DEF IInv
  <1> QED
    BY Invariance, <1>1, PTL

\* The assertion expires != 0 of run_timer_list: between two ticks no linked timer
\* is at zero.
THEOREM AssertCorrect == TimerListSpec => []LinkedCount
  <1>1. IInv => LinkedCount
    BY DEF IInv
  <1> QED
    BY Invariance, <1>1, PTL

\* The timer list implements the countdown: each timer fires at the tick at which
\* its own time has passed.
THEOREM Refinement == TimerListSpec => CountdownSpec
  <1>1. TimerInit => Countdown!Init
    BY DEF TimerInit, Countdown!Init
  <1>2. IInv /\ [TimerNext]_timer_vars => [Countdown!Next]_(Countdown!vars)
    <2> SUFFICES ASSUME IInv, [TimerNext]_timer_vars PROVE [Countdown!Next]_(Countdown!vars)
      OBVIOUS
    <2>1. CASE \/ \E t \in Timers, n \in 1..MaxSleep : AddBegin(t, n)
               \/ AddPass \/ UNCHANGED timer_vars
      BY <2>1 DEF AddBegin, AddPass, timer_vars, Countdown!vars
    <2>2. CASE AddInsert
      <3>1. adding \in Timers /\ time \in 1..MaxSleep
        BY DEF IInv, TimerTypeOK
      <3>2. adding \notin InList
        BY <2>2 DEF AddInsert, IInv, AddInv
      <3>3. timer[adding] = -1
        BY <3>1, <3>2 DEF IInv, LinkedCount
      <3>4. Countdown!Start(adding, time)
        BY <2>2, <3>3 DEF AddInsert, Countdown!Start
      <3> QED
        BY <3>1, <3>4 DEF Countdown!Next
    <2>3. ASSUME NEW t \in Timers, Del(t) PROVE Countdown!Next
      <3>1. t \in InList
        BY <2>3 DEF Del, del_timer, InList
      <3>2. timer[t] # -1
        BY <3>1 DEF IInv, LinkedCount
      <3>3. Countdown!Cancel(t)
        BY <2>3, <3>2 DEF Del, del_timer, Countdown!Cancel
      <3> QED
        BY <3>3 DEF Countdown!Next
    <2>4. CASE RunBegin
      <3>1. Countdown!TickBegin
        BY <2>4 DEF RunBegin, Countdown!TickBegin
      <3> QED
        BY <3>1 DEF Countdown!Next
    <2>5. CASE RunExpire
      <3>1. Head(timer_list) \in Timers /\ timer[Head(timer_list)] = 0
        BY <2>5, HeadFacts DEF RunExpire, HeadExpired
      <3>2. Countdown!Fire(Head(timer_list))
        BY <2>5, <3>1 DEF RunExpire, del_timer, Countdown!Fire
      <3> QED
        BY <3>1, <3>2 DEF Countdown!Next
    <2>6. CASE RunEnd
      <3>1. \A t \in Timers : timer[t] # 0
        BY <2>6, NothingDue DEF RunEnd
      <3>2. Countdown!TickEnd
        BY <2>6, <3>1 DEF RunEnd, Countdown!TickEnd
      <3> QED
        BY <3>2 DEF Countdown!Next
    <2> QED
      BY <2>1, <2>2, <2>3, <2>4, <2>5, <2>6 DEF TimerNext
  <1> QED
    BY Invariance, <1>1, <1>2, PTL DEF TimerListSpec, CountdownSpec, Countdown!Spec
=============================================================================
