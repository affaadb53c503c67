--------------------------- MODULE ProcListsProofs ---------------------------
(***************************************************************************)
(* Theorems about the two lists of processes.                              *)
(*                                                                         *)
(* proc_list (GetPid): get_pid never gives out a pid that is in use, for   *)
(* every MAX_PROCESS and MAX_PID, and so implements PidSpec.  The loop     *)
(* invariant ScanInv carries the argument: what the scan has passed stays  *)
(* out of the window from last_pid to next_safe, because the window only   *)
(* ever shrinks, except where the scan starts again.                       *)
(*                                                                         *)
(* The family lists (Links): for any number of processes the lists hold    *)
(* exactly the children.  The invariant LinksIInv says that there is an    *)
(* order of the children that cptr, optr and yptr spell out; the steps     *)
(* push to, pop from and cut out of that order, and what do_wait walks     *)
(* through is the order itself.                                            *)
(***************************************************************************)
EXTENDS GetPid, Links, FiniteSetTheorems, WellFoundedInduction, TLAPS

\* The inductive invariant.
IInv == GetPidTypeOK /\ PidsUnique /\ WindowFree /\ ScanInv

\* Pids after remove_links: each remaining entry was in the list before, and the
\* entries keep their order.
LEMMA WithoutIndexFacts ==
  ASSUME NEW S, NEW q \in Seq(S), NEW i \in 1..Len(q)
  PROVE  /\ CutAt(q, i) \in Seq(S)
         /\ Len(CutAt(q, i)) = Len(q) - 1
         /\ \A j \in 1..Len(q) - 1 : CutAt(q, i)[j] = (IF j < i THEN q[j] ELSE q[j + 1])
  <1>1. Len(q) \in Nat /\ Len(q) - 1 \in Nat
    OBVIOUS
  <1>2. \A j \in 1..Len(q) - 1 : j \in 1..Len(q) /\ j + 1 \in 1..Len(q)
    BY <1>1
  <1>3. \A j \in 1..Len(q) - 1 : (IF j < i THEN q[j] ELSE q[j + 1]) \in S
    BY <1>2
  <1>4. CutAt(q, i) \in [1..Len(q) - 1 -> S]
    BY <1>3 DEF CutAt
  <1>5. CutAt(q, i) \in Seq(S) /\ Len(CutAt(q, i)) = Len(q) - 1
    BY <1>1, <1>4
  <1> QED
    BY <1>5 DEF CutAt

\* The list holds pids.
LEMMA ElementsTyped ==
  ASSUME NEW S, NEW q \in Seq(S)
  PROVE  Len(q) \in Nat /\ \A i \in 1..Len(q) : q[i] \in S
  OBVIOUS

\* set_links puts a pid at the head of the list and moves the others up by one.
LEMMA ConsFacts ==
  ASSUME NEW S, NEW q \in Seq(S), NEW x \in S
  PROVE  /\ <<x>> \o q \in Seq(S)
         /\ Len(<<x>> \o q) = Len(q) + 1
         /\ (<<x>> \o q)[1] = x
         /\ \A j \in 2..Len(q) + 1 : (<<x>> \o q)[j] = q[j - 1]
  OBVIOUS

\* The static initial values and the empty proc_list.
LEMMA InitInv == GetPidInit => IInv
  <1> SUFFICES ASSUME GetPidInit PROVE IInv
    OBVIOUS
  <1>1. <<>> \in Seq(1..MAX_PID - 1) /\ Len(<<>>) = 0
    OBVIOUS
  <1> QED
    BY <1>1, PidAssumption DEF GetPidInit, IInv, GetPidTypeOK, PidsUnique, NoRepeat, WindowFree, ScanInv

\* The static variables stay within the range of pids.
LEMMA TypeStep == IInv /\ [GetPidNext]_getpid_vars => GetPidTypeOK'
  <1> SUFFICES ASSUME IInv, [GetPidNext]_getpid_vars PROVE GetPidTypeOK'
    OBVIOUS
  <1> USE PidAssumption DEF IInv, GetPidTypeOK
  <1>1. CASE Enter
    BY <1>1 DEF Enter
  <1>2. CASE Taken
    BY <1>2 DEF Taken, ScanInv
  <1>3. CASE Passed
    <2>1. procs[le] \in 1..MAX_PID - 1
      BY <1>3 DEF Passed
    <2> QED
      BY <1>3, <2>1 DEF Passed
  <1>4. CASE ScanEnd
    BY <1>4 DEF ScanEnd
  <1>5. CASE Return
    <2>1. last_pid \in 1..MAX_PID - 1
      BY <1>5 DEF Return, ScanInv
    <2> QED
      BY <1>5, <2>1 DEF Return
  <1>6. CASE RemoveLinks
    BY <1>6, WithoutIndexFacts DEF RemoveLinks
  <1>7. CASE UNCHANGED getpid_vars
    BY <1>7 DEF getpid_vars
  <1> QED
    BY <1>1, <1>2, <1>3, <1>4, <1>5, <1>6, <1>7 DEF GetPidNext, Scan

\* Each iteration keeps the loop invariant; a scan that starts again has passed
\* nothing.
LEMMA ScanStep == IInv /\ [GetPidNext]_getpid_vars => ScanInv'
  <1> SUFFICES ASSUME IInv, [GetPidNext]_getpid_vars PROVE ScanInv'
    OBVIOUS
  <1>0. \A i \in 1..Len(procs) : procs[i] \in 1..MAX_PID - 1
    <2>1. procs \in Seq(1..MAX_PID - 1)
      BY DEF IInv, GetPidTypeOK
    <2> QED
      BY <2>1, ElementsTyped
  <1> USE PidAssumption DEF IInv, GetPidTypeOK
  <1>1. CASE Enter
    <2>1. CASE scan_pc' = "return"
      BY <1>0, <1>1, <2>1 DEF Enter, ScanInv, WindowFree
    <2>2. CASE scan_pc' = "scan"
      BY <1>1, <2>2 DEF Enter, ScanInv
    <2> QED
      BY <1>1, <2>1, <2>2 DEF Enter
  <1>2. CASE Taken
    <2>1. CASE last_pid + 1 >= next_safe
      BY <1>2, <2>1 DEF Taken, ScanInv
    <2>2. CASE last_pid + 1 < next_safe
      BY <1>0, <1>2, <2>2 DEF Taken, ScanInv
    <2> QED
      BY <2>1, <2>2
  <1>3. CASE Passed
    BY <1>0, <1>3 DEF Passed, ScanInv
  <1>4. CASE ScanEnd
    BY <1>4 DEF ScanEnd, ScanInv
  <1>5. CASE Return
    BY <1>5 DEF Return, ScanInv
  <1>6. CASE RemoveLinks
    BY <1>6 DEF RemoveLinks, ScanInv
  <1>7. CASE UNCHANGED getpid_vars
    BY <1>7 DEF getpid_vars, ScanInv
  <1> QED
    BY <1>1, <1>2, <1>3, <1>4, <1>5, <1>6, <1>7 DEF GetPidNext, Scan

\* When get_pid returns, its pid is in no other process and the window above it
\* is free; remove_links only frees pids.
LEMMA ListStep == IInv /\ [GetPidNext]_getpid_vars => PidsUnique' /\ WindowFree'
  <1> SUFFICES ASSUME IInv, [GetPidNext]_getpid_vars PROVE PidsUnique' /\ WindowFree'
    OBVIOUS
  <1>0. \A i \in 1..Len(procs) : procs[i] \in 1..MAX_PID - 1
    <2>1. procs \in Seq(1..MAX_PID - 1)
      BY DEF IInv, GetPidTypeOK
    <2> QED
      BY <2>1, ElementsTyped
  <1>1. CASE Enter
    BY <1>1 DEF Enter, IInv, PidsUnique, NoRepeat, WindowFree
  <1>2. CASE Taken \/ Passed \/ ScanEnd
    BY <1>2 DEF Taken, Passed, ScanEnd, IInv, PidsUnique, NoRepeat, WindowFree
  <1>3. CASE Return
    <2>1. /\ last_pid \in 1..MAX_PID - 1
          /\ next_safe \in 1..MAX_PID
          /\ \A i \in 1..Len(procs) : procs[i] < last_pid \/ procs[i] >= next_safe
          /\ last_pid < next_safe
      BY <1>3, PidAssumption DEF Return, IInv, ScanInv, GetPidTypeOK
    <2>2. procs' = <<last_pid>> \o procs /\ procs \in Seq(1..MAX_PID - 1)
      BY <1>3 DEF Return, IInv, GetPidTypeOK
    <2>3. /\ Len(procs') = Len(procs) + 1 /\ procs'[1] = last_pid
          /\ \A j \in 2..Len(procs) + 1 : procs'[j] = procs[j - 1]
      BY <2>1, <2>2, ConsFacts
    <2>4. Len(procs) \in Nat
      BY <2>2
    <2>5. \A j \in 2..Len(procs) + 1 : j - 1 \in 1..Len(procs) /\ procs'[j] # last_pid
      BY <1>0, <2>1, <2>3, <2>4
    <2>6. NoRepeat(procs')
      <3>1. SUFFICES ASSUME NEW i \in 1..Len(procs) + 1, NEW j \in 1..Len(procs) + 1,
                            procs'[i] = procs'[j]
                     PROVE  i = j
        BY <2>3 DEF NoRepeat
      <3>2. CASE i = 1 \/ j = 1
        BY <2>3, <2>4, <2>5, <3>1, <3>2
      <3>3. CASE i # 1 /\ j # 1
        <4>1. i - 1 \in 1..Len(procs) /\ j - 1 \in 1..Len(procs) /\ procs[i - 1] = procs[j - 1]
          BY <2>3, <2>4, <3>1, <3>3
        <4>2. i - 1 = j - 1
          BY <4>1 DEF IInv, PidsUnique, NoRepeat
        <4> QED
          BY <2>4, <4>2
      <3> QED
        BY <3>2, <3>3
    <2>7. \A j \in 1..Len(procs') : ~(last_pid < procs'[j] /\ procs'[j] < next_safe)
      <3>1. SUFFICES ASSUME NEW j \in 1..Len(procs) + 1
                     PROVE  ~(last_pid < procs'[j] /\ procs'[j] < next_safe)
        BY <2>3
      <3>2. CASE j = 1
        BY <2>1, <2>3, <3>2
      <3>3. CASE j # 1
        <4>1. j - 1 \in 1..Len(procs) /\ procs'[j] = procs[j - 1]
          BY <2>3, <2>4, <3>3
        <4> QED
          BY <1>0, <2>1, <4>1
      <3> QED
        BY <3>2, <3>3
    <2> QED
      BY <1>3, <2>6, <2>7 DEF Return, PidsUnique, WindowFree
  <1>4. CASE RemoveLinks
    <2>1. PICK i \in 1..Len(procs) : procs' = CutAt(procs, i)
      BY <1>4 DEF RemoveLinks
    <2>2. /\ Len(procs') = Len(procs) - 1 /\ Len(procs) \in Nat
          /\ \A j \in 1..Len(procs) - 1 : procs'[j] = (IF j < i THEN procs[j] ELSE procs[j + 1])
      <3>1. procs \in Seq(1..MAX_PID - 1) /\ Len(procs) \in Nat
        BY DEF IInv, GetPidTypeOK
      <3> QED
        BY <2>1, <3>1, WithoutIndexFacts
    <2>3. NoRepeat(procs')
      BY <2>2 DEF IInv, PidsUnique, NoRepeat
    <2>4. WindowFree'
      BY <1>4, <2>2 DEF RemoveLinks, IInv, WindowFree
    <2> QED
      BY <2>3, <2>4 DEF PidsUnique
  <1>5. CASE UNCHANGED getpid_vars
    BY <1>5 DEF getpid_vars, IInv, PidsUnique, NoRepeat, WindowFree
  <1> QED
    BY <1>1, <1>2, <1>3, <1>4, <1>5 DEF GetPidNext, Scan

\* The invariant of get_pid and of the list it searches.
THEOREM Invariance == GetPidSpec => []IInv
  <1>1. IInv /\ [GetPidNext]_getpid_vars => IInv'
    BY TypeStep, ScanStep, ListStep DEF IInv
  <1> QED
    BY InitInv, <1>1, PTL DEF GetPidSpec

\* No two processes ever have the same pid.
THEOREM UniqueCorrect == GetPidSpec => []PidsUnique
  <1>1. IInv => PidsUnique
    BY DEF IInv
  <1> QED
    BY Invariance, <1>1, PTL

\* The window that get_pid caches between two calls is free whenever it is used.
THEOREM WindowCorrect == GetPidSpec => []WindowFree
  <1>1. IInv => WindowFree
    BY DEF IInv
  <1> QED
    BY Invariance, <1>1, PTL

\* get_pid with its cache is an allocator of unused pids.
THEOREM Refinement == GetPidSpec => PidAllocSpec
  <1>1. GetPidInit => PidAlloc!Init
    BY DEF GetPidInit, PidAlloc!Init, Pids
  <1>2. IInv /\ [GetPidNext]_getpid_vars => [PidAlloc!Next]_<<Pids, Len(procs)>>
    <2> SUFFICES ASSUME IInv, [GetPidNext]_getpid_vars PROVE [PidAlloc!Next]_<<Pids, Len(procs)>>
      OBVIOUS
    <2>0. procs \in Seq(1..MAX_PID - 1) /\ Len(procs) \in Nat
      BY DEF IInv, GetPidTypeOK
    <2>1. CASE Enter \/ Taken \/ Passed \/ ScanEnd \/ UNCHANGED getpid_vars
      BY <2>1 DEF Enter, Taken, Passed, ScanEnd, getpid_vars, Pids
    <2>2. CASE Return
      <3>1. /\ last_pid \in 1..MAX_PID - 1
            /\ \A i \in 1..Len(procs) : procs[i] # last_pid
        <4>1. \A i \in 1..Len(procs) : procs[i] \in 1..MAX_PID - 1
          BY <2>0, ElementsTyped
        <4>2. /\ last_pid \in 1..MAX_PID /\ next_safe \in 1..MAX_PID /\ last_pid < next_safe
              /\ \A i \in 1..Len(procs) : procs[i] < last_pid \/ procs[i] >= next_safe
          BY <2>2 DEF Return, IInv, ScanInv, GetPidTypeOK
        <4> QED
          BY <4>1, <4>2, PidAssumption
      <3>2. /\ Len(procs') = Len(procs) + 1 /\ procs'[1] = last_pid
            /\ \A j \in 2..Len(procs) + 1 : procs'[j] = procs[j - 1]
        BY <2>0, <2>2, <3>1, ConsFacts DEF Return
      <3>3. \A i \in 1..Len(procs) : i + 1 \in 2..Len(procs) + 1 /\ procs'[i + 1] = procs[i]
        BY <2>0, <3>2
      <3>4. Pids' = Pids \cup {last_pid}
        <4>1. \A x \in Pids' : x \in Pids \cup {last_pid}
          <5>1. SUFFICES ASSUME NEW j \in 1..Len(procs) + 1 PROVE procs'[j] \in Pids \cup {last_pid}
            BY <3>2 DEF Pids
          <5>2. CASE j = 1
            BY <3>2, <5>2
          <5>3. CASE j # 1
            <6>1. j - 1 \in 1..Len(procs) /\ procs'[j] = procs[j - 1]
              BY <2>0, <3>2, <5>3
            <6> QED
              BY <6>1 DEF Pids
          <5> QED
            BY <5>2, <5>3
        <4>2. \A x \in Pids : x \in Pids'
          <5>1. SUFFICES ASSUME NEW i \in 1..Len(procs) PROVE procs[i] \in Pids'
            BY DEF Pids
          <5>2. i + 1 \in 1..Len(procs') /\ procs'[i + 1] = procs[i]
            BY <2>0, <3>2, <3>3
          <5> QED
            BY <5>2 DEF Pids
        <4>3. last_pid \in Pids'
          <5>1. 1 \in 1..Len(procs')
            BY <2>0, <3>2
          <5> QED
            BY <3>2, <5>1 DEF Pids
        <4> QED
          BY <4>1, <4>2, <4>3
      <3>5. last_pid \notin Pids
        BY <3>1 DEF Pids
      <3> QED
        BY <3>1, <3>2, <3>4, <3>5 DEF PidAlloc!Next, PidAlloc!Alloc
    <2>3. CASE RemoveLinks
      <3>1. PICK i \in 1..Len(procs) : procs' = CutAt(procs, i)
        BY <2>3 DEF RemoveLinks
      <3>2. /\ Len(procs') = Len(procs) - 1
            /\ \A j \in 1..Len(procs) - 1 : procs'[j] = (IF j < i THEN procs[j] ELSE procs[j + 1])
        BY <2>0, <3>1, WithoutIndexFacts
      <3>3. \A x \in Pids' : x \in Pids /\ x # procs[i]
        BY <2>0, <3>2 DEF Pids, IInv, PidsUnique, NoRepeat
      <3>4. ASSUME NEW x \in Pids, x # procs[i] PROVE x \in Pids'
        <4>1. PICK k \in 1..Len(procs) : procs[k] = x
          BY DEF Pids
        <4>2. CASE k < i
          BY <2>0, <3>2, <4>1, <4>2 DEF Pids
        <4>3. CASE k > i
          <5>1. k - 1 \in 1..Len(procs') /\ procs'[k - 1] = x
            BY <2>0, <3>2, <4>1, <4>3
          <5> QED
            BY <5>1 DEF Pids
        <4> QED
          BY <3>4, <4>1, <4>2, <4>3
      <3>5. Pids' = Pids \ {procs[i]} /\ procs[i] \in Pids
        BY <3>3, <3>4 DEF Pids
      <3> QED
        BY <3>2, <3>5 DEF PidAlloc!Next, PidAlloc!Free
    <2> QED
      BY <2>1, <2>2, <2>3 DEF GetPidNext, Scan
  <1> QED
    BY Invariance, <1>1, <1>2, PTL DEF GetPidSpec, PidAllocSpec, PidAlloc!Spec

---------------------------------------------------------------------------
(* A set of numbers has a least one.                                      *)
LEMMA Least ==
    ASSUME NEW S \in SUBSET Nat, S # {}
    PROVE  \E i \in S : \A j \in S : i <= j
<1>2. IsWellFoundedOn({x \in Nat \X Nat : x[1] < x[2]}, Nat)
  BY NatLessThanWellFounded, Zenon DEF OpToRel
<1>3. PICK i \in S : \A j \in S : <<j, i>> \notin {x \in Nat \X Nat : x[1] < x[2]}
  BY <1>2, WFMin
<1>4. ASSUME NEW j \in S PROVE i <= j
  <2>1. i \in Nat /\ j \in Nat /\ <<j, i>> \in Nat \X Nat
    OBVIOUS
  <2>2. ~(<<j, i>>[1] < <<j, i>>[2])
    BY <1>3, <2>1
  <2> QED
    BY <2>1, <2>2
<1> QED
  BY <1>4

(* The children of p in the order of its list are s[1], ..., s[n].  The    *)
(* first of them has no younger sibling, but while do_exit takes the list  *)
(* apart it still points to the one that has gone.                         *)
Chain(p, n, s) ==
    /\ \A i, j \in 1 .. n : s[i] = s[j] => i = j
    /\ \A q \in AllProcs : (q \in linked /\ links.parent[q] = p) <=> \E i \in 1 .. n : s[i] = q
    /\ links.cptr[p] = IF n = 0 THEN NULL ELSE s[1]
    /\ \A i \in 1 .. n : links.optr[s[i]] = IF i = n THEN NULL ELSE s[i + 1]
    /\ \A i \in 1 .. n : i > 1 => links.yptr[s[i]] = s[i - 1]
    /\ n > 0 /\ p # leaving => links.yptr[s[1]] = NULL

(* Every process has such a list.                                          *)
Lists == \A p \in AllProcs : \E n \in Nat : \E s \in [1 .. n -> AllProcs] : Chain(p, n, s)

Fields == [parent : [AllProcs -> AllProcs \cup {NULL}], cptr : [AllProcs -> AllProcs \cup {NULL}],
           optr : [AllProcs -> AllProcs \cup {NULL}], yptr : [AllProcs -> AllProcs \cup {NULL}]]

LinksType ==
    /\ links \in Fields
    /\ linked \subseteq UserProcs \cup {initproc} /\ zombie \subseteq linked
    /\ initproc \in linked \ zombie /\ links.parent[initproc] = idleproc
    /\ leaving \in zombie \cup {NULL}

LinksIInv == LinksType /\ Lists /\ ParentsAlive

(* There are finitely many proc_structs.                                   *)
LEMMA ProcsFinite == LinksAssumption => IsFiniteSet(AllProcs)
<1> SUFFICES ASSUME LinksAssumption PROVE IsFiniteSet(AllProcs)
  OBVIOUS
<1>1. IsFiniteSet(UserProcs \cup {idleproc}) 
  BY FS_AddElement DEF LinksAssumption
<1>2. IsFiniteSet((UserProcs \cup {idleproc}) \cup {initproc})
  BY <1>1, FS_AddElement
<1> QED
  BY <1>2 DEF AllProcs

(* The loop of do_wait passes the children in that order and then stops.   *)
LEMMA WalkIsChain ==
    ASSUME LinksAssumption, LinksType, NEW p \in AllProcs, NEW n \in Nat, NEW s \in [1 .. n -> AllProcs], Chain(p, n, s)
    PROVE  Walk(links, p) = [k \in 0 .. Cardinality(AllProcs) |-> IF k < n THEN s[k + 1] ELSE NULL]
<1> DEFINE C == Cardinality(AllProcs)
           Body(at) == [k \in 0 .. C |-> IF k = 0 THEN links.cptr[p]
                                         ELSE LET q == at[k - 1] IN IF q = NULL THEN NULL ELSE links.optr[q]]
           g == [k \in 0 .. C |-> IF k < n THEN s[k + 1] ELSE NULL]
           at == CHOOSE f : f = Body(f)
<1>1. C \in Nat
  BY FS_AddElement, FS_CardinalityType, ProcsFinite
<1>2. NULL \notin AllProcs
  BY DEF LinksAssumption, AllProcs
<1> HIDE DEF C
<1>3. g = Body(g)
  <2>1. ASSUME NEW k \in 0 .. C PROVE g[k] = Body(g)[k]
    <3>1. CASE k = 0
      BY <3>1, <1>1 DEF Chain
    <3>2. CASE k # 0
      <4>1. k - 1 \in 0 .. C /\ g[k - 1] = IF k - 1 < n THEN s[k] ELSE NULL
        BY <3>2, <1>1
      <4>2. Body(g)[k] = IF g[k - 1] = NULL THEN NULL ELSE links.optr[g[k - 1]]
        BY <3>2
      <4>3. CASE k - 1 < n
        <5>1. k \in 1 .. n /\ s[k] \in AllProcs
          BY <4>3, <3>2, <1>1
        <5>2. links.optr[s[k]] = IF k = n THEN NULL ELSE s[k + 1]
          BY <5>1 DEF Chain
        <5> QED
          BY <4>1, <4>2, <4>3, <5>1, <5>2, <1>2
      <4> QED
        BY <4>1, <4>2, <4>3, <1>1
    <3> QED
      BY <3>1, <3>2
  <2> QED
    BY <2>1
<1>4. at = Body(at)
  BY <1>3
<1>5. Walk(links, p) = at
  BY Zenon DEF Walk, C
<1> HIDE DEF at
<1>6. \A k \in 0 .. C : at[k] = g[k]
  <2> DEFINE Bad == {k \in 0 .. C : at[k] # g[k]}
  <2> SUFFICES ASSUME Bad # {} PROVE FALSE
    OBVIOUS
  <2>0. Bad \in SUBSET Nat
    BY <1>1
  <2>1. PICK k \in Bad : \A j \in Bad : k <= j
    <3> HIDE DEF Bad
    <3> QED
      BY <2>0, Least
  <2>2. k # 0
    BY <2>1, <1>3, <1>4, <1>1
  <2>3. k - 1 \in 0 .. C /\ at[k - 1] = g[k - 1]
    BY <2>1, <2>2, <1>1
  <2>4. at[k] = Body(at)[k] /\ g[k] = Body(g)[k]
    BY <1>3, <1>4
  <2>5. Body(at)[k] = Body(g)[k]
    BY <2>3, <2>2
  <2> QED
    BY <2>1, <2>4, <2>5
<1> QED
  BY <1>4, <1>5, <1>6 DEF C
(* Chains that a step does not touch.                                      *)
LEMMA Keep ==
    ASSUME NEW r \in AllProcs, NEW n \in Nat, NEW s \in [1 .. n -> AllProcs], Chain(r, n, s),
           \A q \in AllProcs : (q \in linked' /\ links'.parent[q] = r) <=> (q \in linked /\ links.parent[q] = r),
           links'.cptr[r] = links.cptr[r],
           \A q \in AllProcs : q \in linked /\ links.parent[q] = r =>
               links'.optr[q] = links.optr[q] /\ links'.yptr[q] = links.yptr[q],
           n = 0 \/ leaving # r \/ leaving' = r
    PROVE  Chain(r, n, s)'
<1>1. \A i \in 1 .. n : s[i] \in linked /\ links.parent[s[i]] = r
  BY DEF Chain
<1> QED
  BY <1>1 DEF Chain

(* set_links and adopt: c is put before the children of p.                 *)
LEMMA Push ==
    ASSUME NEW p \in AllProcs, NEW n \in Nat, NEW s \in [1 .. n -> AllProcs], Chain(p, n, s),
           NEW c \in AllProcs, ~(c \in linked /\ links.parent[c] = p), p # leaving, NULL \notin AllProcs,
           \A q \in AllProcs : (q \in linked' /\ links'.parent[q] = p) <=> q = c \/ (q \in linked /\ links.parent[q] = p),
           links'.cptr[p] = c, links'.optr[c] = links.cptr[p], links'.yptr[c] = NULL,
           \A q \in AllProcs : q \in linked /\ links.parent[q] = p =>
               /\ links'.optr[q] = links.optr[q]
               /\ links'.yptr[q] = IF q = links.cptr[p] THEN c ELSE links.yptr[q]
    PROVE  \E m \in Nat : \E t \in [1 .. m -> AllProcs] : Chain(p, m, t)'
<1> DEFINE m == n + 1
           t == [i \in 1 .. m |-> IF i = 1 THEN c ELSE s[i - 1]]
<1>1. m \in Nat /\ t \in [1 .. m -> AllProcs] /\ m # 0 /\ t[1] = c
  OBVIOUS
<1>2. \A i \in 1 .. n : s[i] \in linked /\ links.parent[s[i]] = p /\ s[i] # c
  BY DEF Chain
<1>3. \A i \in 1 .. m : i # 1 => i - 1 \in 1 .. n /\ t[i] = s[i - 1]
  OBVIOUS
<1>4. \A i \in 1 .. n : i + 1 \in 1 .. m /\ t[i + 1] = s[i]
  OBVIOUS
<1> HIDE DEF m, t
<1>5. \A i, j \in 1 .. m : t[i] = t[j] => i = j
  BY <1>1, <1>2, <1>3 DEF Chain
<1>6. \A q \in AllProcs : (q \in linked' /\ links'.parent[q] = p) <=> \E i \in 1 .. m : t[i] = q
  <2> SUFFICES ASSUME NEW q \in AllProcs
               PROVE  (q = c \/ \E i \in 1 .. n : s[i] = q) <=> \E i \in 1 .. m : t[i] = q
    BY DEF Chain
  <2>1. 1 \in 1 .. m
    BY <1>1
  <2> QED
    BY <1>1, <1>3, <1>4, <2>1
<1>7. \A i \in 1 .. m : links'.optr[t[i]] = IF i = m THEN NULL ELSE t[i + 1]
  <2> SUFFICES ASSUME NEW i \in 1 .. m PROVE links'.optr[t[i]] = IF i = m THEN NULL ELSE t[i + 1]
    OBVIOUS
  <2>1. CASE i = 1
    BY <2>1, <1>1, <1>4 DEF Chain, m
  <2>2. CASE i # 1
    <3>1. i - 1 \in 1 .. n /\ t[i] = s[i - 1] /\ links.optr[s[i - 1]] = IF i - 1 = n THEN NULL ELSE s[i]
      BY <2>2, <1>3 DEF Chain
    <3>2. i # m => t[i + 1] = s[i]
      BY <1>4 DEF m
    <3>3. links'.optr[s[i - 1]] = links.optr[s[i - 1]]
      BY <3>1, <1>2
    <3> QED
      BY <3>1, <3>2, <3>3 DEF m
  <2> QED
    BY <2>1, <2>2
<1>8. \A i \in 1 .. m : i > 1 => links'.yptr[t[i]] = t[i - 1]
  <2> SUFFICES ASSUME NEW i \in 1 .. m, i > 1 PROVE links'.yptr[t[i]] = t[i - 1]
    OBVIOUS
  <2>1. i - 1 \in 1 .. n /\ t[i] = s[i - 1] /\ s[i - 1] \in AllProcs
    BY <1>3
  <2>2. links'.yptr[s[i - 1]] = IF s[i - 1] = links.cptr[p] THEN c ELSE links.yptr[s[i - 1]]
    BY <2>1, <1>2
  <2>3. links.cptr[p] = s[1] /\ 1 \in 1 .. n
    BY <2>1 DEF Chain
  <2>4. CASE i = 2
    BY <2>1, <2>2, <2>3, <2>4, <1>1
  <2>5. CASE i > 2
    <3>1. s[i - 1] # s[1]
      BY <2>1, <2>3, <2>5 DEF Chain
    <3>2. links.yptr[s[i - 1]] = s[i - 2]
      BY <2>1, <2>5 DEF Chain
    <3>3. t[i - 1] = s[i - 2]
      BY <2>5, <1>3, <1>1
    <3> QED
      BY <2>1, <2>2, <2>3, <3>1, <3>2, <3>3
  <2> QED
    BY <2>4, <2>5
<1>9. Chain(p, m, t)'
  BY <1>1, <1>5, <1>6, <1>7, <1>8 DEF Chain
<1> QED
  BY <1>1, <1>9

(* adopt: the youngest child of p goes.                                    *)
LEMMA Pop ==
    ASSUME NEW p \in AllProcs, NEW n \in Nat, NEW s \in [1 .. n -> AllProcs], Chain(p, n, s), leaving' = p, n # 0,
           \A q \in AllProcs : (q \in linked' /\ links'.parent[q] = p) <=> q # s[1] /\ q \in linked /\ links.parent[q] = p,
           links'.cptr[p] = links.optr[s[1]],
           \A q \in AllProcs : q # s[1] /\ q \in linked /\ links.parent[q] = p =>
               links'.optr[q] = links.optr[q] /\ links'.yptr[q] = links.yptr[q]
    PROVE  \E m \in Nat : \E t \in [1 .. m -> AllProcs] : Chain(p, m, t)'
<1> DEFINE m == n - 1
           t == [i \in 1 .. m |-> s[i + 1]]
<1>1. m \in Nat /\ t \in [1 .. m -> AllProcs]
  OBVIOUS
<1>2. \A i \in 1 .. n : s[i] \in linked /\ links.parent[s[i]] = p /\ (i # 1 => s[i] # s[1])
  BY DEF Chain
<1>3. \A i \in 1 .. m : i + 1 \in 1 .. n /\ t[i] = s[i + 1]
  OBVIOUS
<1>4. \A i \in 1 .. n : i # 1 => i - 1 \in 1 .. m /\ t[i - 1] = s[i]
  OBVIOUS
<1>5. links'.cptr[p] = IF m = 0 THEN NULL ELSE t[1]
  BY DEF Chain
<1>6. \A i \in 1 .. m : links'.optr[t[i]] = IF i = m THEN NULL ELSE t[i + 1]
  <2> SUFFICES ASSUME NEW i \in 1 .. m PROVE links'.optr[t[i]] = IF i = m THEN NULL ELSE t[i + 1]
    OBVIOUS
  <2>1. i + 1 \in 1 .. n /\ t[i] = s[i + 1] /\ links.optr[s[i + 1]] = IF i + 1 = n THEN NULL ELSE s[i + 2]
    BY <1>3 DEF Chain
  <2>2. links'.optr[s[i + 1]] = links.optr[s[i + 1]]
    BY <2>1, <1>2
  <2> QED
    BY <2>1, <2>2
<1>7. \A i \in 1 .. m : i > 1 => links'.yptr[t[i]] = t[i - 1]
  <2> SUFFICES ASSUME NEW i \in 1 .. m, i > 1 PROVE links'.yptr[t[i]] = t[i - 1]
    OBVIOUS
  <2>1. i + 1 \in 1 .. n /\ t[i] = s[i + 1] /\ links.yptr[s[i + 1]] = s[i]
    BY <1>3 DEF Chain
  <2>2. links'.yptr[s[i + 1]] = links.yptr[s[i + 1]]
    BY <2>1, <1>2
  <2> QED
    BY <2>1, <2>2
<1> HIDE DEF m, t
<1>8. \A i, j \in 1 .. m : t[i] = t[j] => i = j
  BY <1>3, <1>1 DEF Chain
<1>9. \A q \in AllProcs : (q \in linked' /\ links'.parent[q] = p) <=> \E i \in 1 .. m : t[i] = q
  <2> SUFFICES ASSUME NEW q \in AllProcs
               PROVE  (q # s[1] /\ \E i \in 1 .. n : s[i] = q) <=> \E i \in 1 .. m : t[i] = q
    BY DEF Chain
  <2> QED
    BY <1>1, <1>2, <1>3, <1>4
<1>10. Chain(p, m, t)'
  BY <1>1, <1>5, <1>6, <1>7, <1>8, <1>9 DEF Chain
<1> QED
  BY <1>1, <1>10
(* remove_links: the child of p at place k goes.                           *)
LEMMA Cut ==
    ASSUME NEW p \in AllProcs, NEW n \in Nat, NEW s \in [1 .. n -> AllProcs], Chain(p, n, s), leaving # p,
           NULL \notin AllProcs, NEW k \in 1 .. n,
           \A q \in AllProcs : (q \in linked' /\ links'.parent[q] = p) <=> q # s[k] /\ q \in linked /\ links.parent[q] = p,
           links'.cptr[p] = IF links.yptr[s[k]] = NULL THEN links.optr[s[k]] ELSE links.cptr[p],
           \A q \in AllProcs : q # s[k] /\ q \in linked /\ links.parent[q] = p =>
               /\ links'.optr[q] = IF q = links.yptr[s[k]] THEN links.optr[s[k]] ELSE links.optr[q]
               /\ links'.yptr[q] = IF q = links.optr[s[k]] THEN links.yptr[s[k]] ELSE links.yptr[q]
    PROVE  \E m \in Nat : \E t \in [1 .. m -> AllProcs] : Chain(p, m, t)'
<1> DEFINE m == n - 1
           t == [i \in 1 .. m |-> IF i < k THEN s[i] ELSE s[i + 1]]
<1>1. m \in Nat /\ t \in [1 .. m -> AllProcs] /\ n = m + 1 /\ k \in Nat /\ 1 <= k /\ k <= n
  OBVIOUS
<1>2. \A i \in 1 .. n : s[i] \in linked /\ links.parent[s[i]] = p /\ (i # k => s[i] # s[k])
  BY DEF Chain
<1>3. \A i \in 1 .. m : /\ i < k => i \in 1 .. n /\ t[i] = s[i]
                        /\ i >= k => i + 1 \in 1 .. n /\ t[i] = s[i + 1]
  OBVIOUS
<1>4. \A i \in 1 .. n : /\ i < k => i \in 1 .. m /\ t[i] = s[i]
                        /\ i > k => i - 1 \in 1 .. m /\ t[i - 1] = s[i]
  OBVIOUS
<1> HIDE DEF m, t
<1>5. /\ links.yptr[s[k]] = IF k = 1 THEN NULL ELSE s[k - 1]
      /\ links.optr[s[k]] = IF k = n THEN NULL ELSE s[k + 1]
  BY DEF Chain
<1>6. k > 1 => k - 1 \in 1 .. n /\ s[k - 1] \in AllProcs
  BY <1>1
<1>7. k < n => k + 1 \in 1 .. n /\ s[k + 1] \in AllProcs
  BY <1>1
<1>8. links'.cptr[p] = IF m = 0 THEN NULL ELSE t[1]
  <2>1. CASE k = 1
    BY <2>1, <1>5, <1>1, <1>3
  <2>2. CASE k > 1
    <3>1. links'.cptr[p] = s[1]
      BY <2>2, <1>5, <1>6, <1>1 DEF Chain
    <3> QED
      BY <2>2, <3>1, <1>1, <1>4
  <2> QED
    BY <2>1, <2>2, <1>1
<1>9. ASSUME NEW i \in 1 .. n, i # k
      PROVE  /\ links'.optr[s[i]] = IF i = k - 1 THEN links.optr[s[k]] ELSE links.optr[s[i]]
             /\ links'.yptr[s[i]] = IF i = k + 1 THEN links.yptr[s[k]] ELSE links.yptr[s[i]]
  <2>1. /\ links'.optr[s[i]] = IF s[i] = links.yptr[s[k]] THEN links.optr[s[k]] ELSE links.optr[s[i]]
        /\ links'.yptr[s[i]] = IF s[i] = links.optr[s[k]] THEN links.yptr[s[k]] ELSE links.yptr[s[i]]
    BY <1>2, <1>9
  <2>2. s[i] = links.yptr[s[k]] <=> i = k - 1
    BY <1>5, <1>6, <1>1 DEF Chain
  <2>3. s[i] = links.optr[s[k]] <=> i = k + 1
    BY <1>5, <1>7, <1>1 DEF Chain
  <2> QED
    BY <2>1, <2>2, <2>3
<1>10. \A i \in 1 .. n : links.optr[s[i]] = IF i = n THEN NULL ELSE s[i + 1]
  BY DEF Chain
<1>11. \A i \in 1 .. n : i > 1 => links.yptr[s[i]] = s[i - 1]
  BY DEF Chain
<1>12. ASSUME NEW i \in 1 .. m PROVE links'.optr[t[i]] = IF i = m THEN NULL ELSE t[i + 1]
  <2>1. CASE i < k - 1
    <3>1. links'.optr[s[i]] = s[i + 1]
      BY <2>1, <1>9, <1>10, <1>1
    <3>2. t[i] = s[i] /\ t[i + 1] = s[i + 1] /\ i # m
      BY <2>1, <1>3, <1>1
    <3> QED
      BY <3>1, <3>2
  <2>2. CASE i = k - 1
    <3>1. links'.optr[s[i]] = IF k = n THEN NULL ELSE s[k + 1]
      BY <2>2, <1>9, <1>5, <1>1
    <3>2. t[i] = s[i] /\ (i # m => t[i + 1] = s[k + 1]) /\ (i = m <=> k = n)
      BY <2>2, <1>3, <1>1
    <3> QED
      BY <3>1, <3>2
  <2>3. CASE i >= k
    <3>1. links'.optr[s[i + 1]] = IF i + 1 = n THEN NULL ELSE s[i + 2]
      BY <2>3, <1>9, <1>10, <1>1
    <3>2. t[i] = s[i + 1] /\ (i # m => t[i + 1] = s[i + 2])
      BY <2>3, <1>3, <1>1
    <3> QED
      BY <3>1, <3>2, <1>1
  <2> QED
    BY <2>1, <2>2, <2>3, <1>1
<1>13. ASSUME NEW i \in 1 .. m, i > 1 PROVE links'.yptr[t[i]] = t[i - 1]
  <2>1. CASE i < k
    <3>1. links'.yptr[s[i]] = s[i - 1]
      BY <2>1, <1>13, <1>9, <1>11, <1>1
    <3>2. t[i] = s[i] /\ t[i - 1] = s[i - 1]
      BY <2>1, <1>13, <1>3, <1>1
    <3> QED
      BY <3>1, <3>2
  <2>2. CASE i = k
    <3>1. links'.yptr[s[k + 1]] = s[k - 1]
      BY <2>2, <1>13, <1>9, <1>5, <1>1
    <3>2. t[i] = s[k + 1] /\ t[i - 1] = s[k - 1]
      BY <2>2, <1>13, <1>3, <1>1
    <3> QED
      BY <3>1, <3>2
  <2>3. CASE i > k
    <3>1. links'.yptr[s[i + 1]] = s[i]
      BY <2>3, <1>13, <1>9, <1>11, <1>1
    <3>2. t[i] = s[i + 1] /\ t[i - 1] = s[i]
      BY <2>3, <1>13, <1>3, <1>1
    <3> QED
      BY <3>1, <3>2
  <2> QED
    BY <2>1, <2>2, <2>3, <1>1
<1>14. m > 0 => links'.yptr[t[1]] = NULL
  <2> SUFFICES ASSUME m > 0 PROVE links'.yptr[t[1]] = NULL
    OBVIOUS
  <2>1. links.yptr[s[1]] = NULL /\ 1 \in 1 .. m /\ 1 \in 1 .. n
    BY <1>1 DEF Chain
  <2>2. CASE k = 1
    <3>1. t[1] = s[2] /\ links'.yptr[s[2]] = links.yptr[s[1]]
      BY <2>1, <2>2, <1>3, <1>9, <1>1
    <3> QED
      BY <3>1, <2>1
  <2>3. CASE k > 1
    <3>1. t[1] = s[1] /\ links'.yptr[s[1]] = links.yptr[s[1]]
      BY <2>1, <2>3, <1>3, <1>9, <1>1
    <3> QED
      BY <3>1, <2>1
  <2> QED
    BY <2>2, <2>3, <1>1
<1>15. \A i, j \in 1 .. m : t[i] = t[j] => i = j
  BY <1>3, <1>1 DEF Chain
<1>16. \A q \in AllProcs : (q \in linked' /\ links'.parent[q] = p) <=> \E i \in 1 .. m : t[i] = q
  <2> SUFFICES ASSUME NEW q \in AllProcs
               PROVE  (q # s[k] /\ \E i \in 1 .. n : s[i] = q) <=> \E i \in 1 .. m : t[i] = q
    BY DEF Chain
  <2>1. ASSUME q # s[k], NEW i \in 1 .. n, s[i] = q PROVE \E j \in 1 .. m : t[j] = q
    <3>1. i < k \/ i > k
      BY <2>1, <1>1
    <3> QED
      BY <3>1, <2>1, <1>4
  <2>2. ASSUME NEW i \in 1 .. m, t[i] = q PROVE q # s[k] /\ \E j \in 1 .. n : s[j] = q
    <3>1. CASE i < k
      BY <3>1, <2>2, <1>2, <1>3
    <3>2. CASE i >= k
      <4>1. i + 1 \in 1 .. n /\ i + 1 # k /\ s[i + 1] = q
        BY <3>2, <2>2, <1>3, <1>1
      <4> QED
        BY <4>1, <1>2
    <3> QED
      BY <3>1, <3>2, <1>1
  <2> QED
    BY <2>1, <2>2
<1>17. Chain(p, m, t)'
  BY <1>1, <1>8, <1>12, <1>13, <1>14, <1>15, <1>16 DEF Chain
<1> QED
  BY <1>1, <1>17
---------------------------------------------------------------------------
(* Every parent is a process that is alive, or the one that is giving its  *)
(* children away.                                                          *)
LEMMA ParentsExist ==
    ASSUME LinksAssumption, LinksIInv, NEW q \in linked
    PROVE  /\ links.parent[q] \in AllProcs /\ q \in AllProcs
           /\ links.parent[q] = idleproc \/ links.parent[q] \in (linked \ zombie) \cup ({leaving} \ {NULL})
BY DEF LinksAssumption, LinksIInv, LinksType, ParentsAlive, AllProcs

(* The NULL pointer is no process.                                         *)
LEMMA NullApart ==
    LinksAssumption => NULL \notin AllProcs /\ UserProcs \subseteq AllProcs /\ initproc \in AllProcs /\ idleproc \in AllProcs
BY DEF LinksAssumption, AllProcs

(* The neighbours of a child are children of the same process.             *)
LEMMA Siblings ==
    ASSUME LinksAssumption, LinksIInv, NEW p \in AllProcs
    PROVE  /\ links.cptr[p] # NULL => links.cptr[p] \in linked /\ links.parent[links.cptr[p]] = p
           /\ links.cptr[p] = NULL => \A q \in linked : links.parent[q] # p
           /\ \A q \in linked : links.parent[q] = p =>
                /\ links.optr[q] # NULL => links.optr[q] \in linked /\ links.parent[links.optr[q]] = p /\ links.optr[q] # q
                /\ links.yptr[q] # NULL /\ p # leaving =>
                       links.yptr[q] \in linked /\ links.parent[links.yptr[q]] = p /\ links.yptr[q] # q
<1>1. PICK n \in Nat : \E s \in [1 .. n -> AllProcs] : Chain(p, n, s)
  BY DEF LinksIInv, Lists
<1>2. PICK s \in [1 .. n -> AllProcs] : Chain(p, n, s)
  BY <1>1
<1>3. \A i \in 1 .. n : s[i] \in linked /\ links.parent[s[i]] = p /\ s[i] # NULL
  BY <1>2, NullApart DEF Chain
<1>4. \A q \in linked : links.parent[q] = p => \E i \in 1 .. n : s[i] = q
  BY <1>2, ParentsExist DEF Chain
<1>5. links.cptr[p] = IF n = 0 THEN NULL ELSE s[1]
  BY <1>2 DEF Chain
<1>6. ASSUME NEW i \in 1 .. n
      PROVE  /\ links.optr[s[i]] # NULL =>
                    links.optr[s[i]] \in linked /\ links.parent[links.optr[s[i]]] = p /\ links.optr[s[i]] # s[i]
             /\ links.yptr[s[i]] # NULL /\ p # leaving =>
                    links.yptr[s[i]] \in linked /\ links.parent[links.yptr[s[i]]] = p /\ links.yptr[s[i]] # s[i]
  <2>1. links.optr[s[i]] = IF i = n THEN NULL ELSE s[i + 1]
    BY <1>2 DEF Chain
  <2>2. p # leaving => links.yptr[s[i]] = IF i = 1 THEN NULL ELSE s[i - 1]
    BY <1>2 DEF Chain
  <2>3. i # n => i + 1 \in 1 .. n /\ s[i + 1] # s[i]
    BY <1>2 DEF Chain
  <2>4. i # 1 => i - 1 \in 1 .. n /\ s[i - 1] # s[i]
    BY <1>2 DEF Chain
  <2> QED
    BY <1>3, <2>1, <2>2, <2>3, <2>4
<1> QED
  BY <1>3, <1>4, <1>5, <1>6

(* proc_init: one list, with initproc in it.                               *)
LEMMA LinksInitInv == LinksAssumption /\ LinksInit => LinksIInv
<1> SUFFICES ASSUME LinksAssumption, LinksInit PROVE LinksIInv
  OBVIOUS
<1> DEFINE none == [q \in AllProcs |-> NULL]
<1>0. idleproc # initproc /\ idleproc \in AllProcs /\ initproc \in AllProcs /\ idleproc \notin UserProcs /\ initproc \notin UserProcs /\ NULL \notin AllProcs
  BY DEF LinksAssumption, AllProcs
<1>1. links = [parent |-> [none EXCEPT ![initproc] = idleproc], cptr |-> [none EXCEPT ![idleproc] = initproc],
               optr |-> none, yptr |-> none]
  BY <1>0 DEF LinksInit, set_links
<1>2. linked = {initproc} /\ zombie = {} /\ leaving = NULL
  BY DEF LinksInit
<1>3. LinksType
  BY <1>0, <1>1, <1>2 DEF LinksType, Fields
<1>4. ParentsAlive
  BY <1>2 DEF ParentsAlive
<1>5. Chain(idleproc, 1, [i \in 1 .. 1 |-> initproc])
  BY <1>0, <1>1, <1>2 DEF Chain
<1>6. ASSUME NEW p \in AllProcs, p # idleproc PROVE Chain(p, 0, [i \in 1 .. 0 |-> initproc])
  BY <1>0, <1>1, <1>2, <1>6 DEF Chain
<1>7. Lists
  <2> SUFFICES ASSUME NEW p \in AllProcs PROVE \E n \in Nat : \E s \in [1 .. n -> AllProcs] : Chain(p, n, s)
    BY DEF Lists
  <2>1. CASE p = idleproc
    <3>1. [i \in 1 .. 1 |-> initproc] \in [1 .. 1 -> AllProcs] /\ 1 \in Nat
      BY <1>0
    <3> QED
      BY <3>1, <2>1, <1>5
  <2>2. CASE p # idleproc
    <3>1. [i \in 1 .. 0 |-> initproc] \in [1 .. 0 -> AllProcs] /\ 0 \in Nat
      BY <1>0
    <3> QED
      BY <3>1, <2>2, <1>6
  <2> QED
    BY <2>1, <2>2
<1> QED
  BY <1>3, <1>4, <1>7 DEF LinksIInv

(* do_fork.                                                                *)
LEMMA ForkInv ==
    ASSUME LinksAssumption, LinksIInv, NEW p \in AllProcs, NEW c \in UserProcs, Fork(p, c)
    PROVE  LinksIInv'
<1>0. /\ p \in linked \ zombie /\ leaving = NULL /\ c \notin linked /\ c # p /\ c \in AllProcs /\ c # initproc /\ c # idleproc
      /\ linked' = linked \cup {c} /\ zombie' = zombie /\ leaving' = NULL /\ NULL \notin AllProcs
  BY NullApart DEF Fork, Running, LinksAssumption
<1>1. links \in Fields
  BY DEF LinksIInv, LinksType
<1>2. links.cptr[p] # NULL => links.cptr[p] \in linked /\ links.parent[links.cptr[p]] = p /\ links.cptr[p] # c /\ links.cptr[p] \in AllProcs
  BY Siblings, ParentsExist, <1>0
<1>3. /\ links' \in Fields
      /\ \A q \in AllProcs :
           /\ links'.parent[q] = IF q = c THEN p ELSE links.parent[q]
           /\ links'.cptr[q] = IF q = p THEN c ELSE IF q = c THEN NULL ELSE links.cptr[q]
           /\ links'.optr[q] = IF q = c THEN links.cptr[p] ELSE links.optr[q]
           /\ links'.yptr[q] = IF q = c THEN NULL ELSE IF q = links.cptr[p] THEN c ELSE links.yptr[q]
  BY <1>0, <1>1, <1>2 DEF Fork, set_links, Blank, Fields
<1>4. LinksType'
  BY <1>0, <1>1, <1>3, NullApart DEF LinksIInv, LinksType
<1>5. ParentsAlive'
  BY <1>0, <1>3, NullApart DEF LinksIInv, LinksType, ParentsAlive, AllProcs
<1>6. \A q \in linked : q \in AllProcs /\ links.parent[q] # c
  BY <1>0, ParentsExist
<1>7. ASSUME NEW r \in AllProcs PROVE \E m \in Nat : \E t \in [1 .. m -> AllProcs] : Chain(r, m, t)'
  <2>1. PICK n \in Nat : \E s \in [1 .. n -> AllProcs] : Chain(r, n, s)
    BY DEF LinksIInv, Lists
  <2>2. PICK s \in [1 .. n -> AllProcs] : Chain(r, n, s)
    BY <2>1
  <2>3. CASE r = p
    BY <2>2, <2>3, <1>0, <1>3, <1>6, Push
  <2>4. CASE r # p
    <3>1. links'.cptr[r] = links.cptr[r]
      BY <2>4, <1>0, <1>3, <1>2, <1>6, Siblings
    <3>2. Chain(r, n, s)'
      BY <2>2, <2>4, <3>1, <1>0, <1>2, <1>3, <1>6, Keep
    <3> QED
      BY <3>2
  <2> QED
    BY <2>3, <2>4
<1> QED
  BY <1>4, <1>5, <1>7 DEF LinksIInv, Lists

(* do_exit up to its loop.                                                 *)
LEMMA ExitInv ==
    ASSUME LinksAssumption, LinksIInv, NEW p \in AllProcs, Exit(p)
    PROVE  LinksIInv'
<1>0. /\ p \in linked \ zombie /\ leaving = NULL /\ p # initproc /\ zombie' = zombie \cup {p} /\ leaving' = p
      /\ links' = links /\ linked' = linked
  BY DEF Exit, Running
<1>1. LinksType'
  BY <1>0 DEF LinksIInv, LinksType
<1>2. ParentsAlive'
  BY <1>0, NullApart DEF LinksIInv, ParentsAlive
<1>3. Lists'
  <2>1. ASSUME NEW r \in AllProcs, NEW n \in Nat, NEW s \in [1 .. n -> AllProcs], Chain(r, n, s) PROVE Chain(r, n, s)'
    BY <2>1, <1>0, NullApart, Keep
  <2> QED
    BY <2>1 DEF LinksIInv, Lists
<1> QED
  BY <1>1, <1>2, <1>3 DEF LinksIInv

(* An iteration of the loop of do_exit, and its end.                       *)
LEMMA ExitLoopInv ==
    ASSUME LinksAssumption, LinksIInv, ExitLoop
    PROVE  LinksIInv'
<1> DEFINE p == leaving
<1>0. /\ p \in zombie /\ p \in linked /\ p \in AllProcs /\ p # initproc /\ linked' = linked /\ zombie' = zombie
      /\ NULL \notin AllProcs /\ initproc \in linked \ zombie /\ initproc \in AllProcs /\ p # idleproc /\ initproc # idleproc
  BY NullApart DEF ExitLoop, LinksIInv, LinksType, LinksAssumption, AllProcs
<1>1. links \in Fields
  BY DEF LinksIInv, LinksType
<1>2. CASE links.cptr[p] = NULL
  <2>0. leaving' = NULL /\ links' = links
    BY <1>2 DEF ExitLoop
  <2>1. \A q \in linked : links.parent[q] # p /\ q \in AllProcs
    BY <1>0, <1>2, Siblings, ParentsExist
  <2>2. LinksType'
    BY <1>0, <2>0 DEF LinksIInv, LinksType
  <2>3. ParentsAlive'
    BY <1>0, <2>0, <2>1 DEF LinksIInv, ParentsAlive
  <2>4. ASSUME NEW r \in AllProcs, NEW n \in Nat, NEW s \in [1 .. n -> AllProcs], Chain(r, n, s) PROVE Chain(r, n, s)'
    <3>1. r = p => n = 0
      <4> SUFFICES ASSUME r = p, n # 0 PROVE FALSE
        OBVIOUS
      <4>1. s[1] \in AllProcs /\ links.cptr[p] = s[1]
        BY <2>4 DEF Chain
      <4> QED
        BY <4>1, <1>0, <1>2
    <3> QED
      BY <1>0, <2>0, <2>4, <3>1, Keep
  <2>5. Lists'
    BY <2>4 DEF LinksIInv, Lists
  <2> QED
    BY <2>2, <2>3, <2>5 DEF LinksIInv
<1>3. CASE links.cptr[p] # NULL
  <2> DEFINE c == links.cptr[p]
             head == links.cptr[initproc]
  <2>0. leaving' = p /\ links' = adopt(links, p)
    BY <1>3 DEF ExitLoop
  <2>1. c \in linked /\ links.parent[c] = p /\ c \in AllProcs /\ c # initproc
    BY <1>0, <1>3, Siblings, ParentsExist DEF LinksIInv, LinksType
  <2>2. head # NULL => head \in linked /\ links.parent[head] = initproc /\ head \in AllProcs /\ head # c
    BY <1>0, <2>1, Siblings, ParentsExist
  <2>3. links.optr[c] # NULL => links.optr[c] \in linked /\ links.parent[links.optr[c]] = p /\ links.optr[c] # c
    BY <1>0, <2>1, Siblings
  <2>4. /\ links' \in Fields
        /\ \A q \in AllProcs :
             /\ links'.parent[q] = IF q = c THEN initproc ELSE links.parent[q]
             /\ links'.cptr[q] = IF q = initproc THEN c ELSE IF q = p THEN links.optr[c] ELSE links.cptr[q]
             /\ links'.optr[q] = IF q = c THEN head ELSE links.optr[q]
             /\ links'.yptr[q] = IF q = c THEN NULL ELSE IF q = head THEN c ELSE links.yptr[q]
    BY <1>0, <1>1, <2>0, <2>1, <2>2 DEF adopt, Fields
  <2> HIDE DEF c, head
  <2>5. LinksType'
    BY <1>0, <2>0, <2>1, <2>4 DEF LinksIInv, LinksType
  <2>6. ParentsAlive'
    <3> SUFFICES ASSUME NEW q \in linked \ {initproc}
                 PROVE  links'.parent[q] \in (linked \ zombie) \cup ({p} \ {NULL})
      BY <1>0, <2>0 DEF ParentsAlive
    <3>1. q \in AllProcs
      BY ParentsExist
    <3> QED
      BY <3>1, <1>0, <2>4 DEF LinksIInv, ParentsAlive
  <2>7. ASSUME NEW r \in AllProcs PROVE \E m \in Nat : \E t \in [1 .. m -> AllProcs] : Chain(r, m, t)'
    <3>1. PICK n \in Nat : \E s \in [1 .. n -> AllProcs] : Chain(r, n, s)
      BY DEF LinksIInv, Lists
    <3>2. PICK s \in [1 .. n -> AllProcs] : Chain(r, n, s)
      BY <3>1
    <3>3. \A q \in linked : q \in AllProcs
      BY ParentsExist
    <3>4. CASE r = initproc
      <4>1. links'.cptr[initproc] = c /\ links'.optr[c] = links.cptr[initproc] /\ links'.yptr[c] = NULL
        BY <1>0, <2>1, <2>4 DEF head
      <4>2. \A q \in AllProcs : (q \in linked' /\ links'.parent[q] = initproc) <=> q = c \/ (q \in linked /\ links.parent[q] = initproc)
        BY <1>0, <2>1, <2>4
      <4>3. \A q \in AllProcs : q \in linked /\ links.parent[q] = initproc =>
               /\ links'.optr[q] = links.optr[q]
               /\ links'.yptr[q] = IF q = links.cptr[initproc] THEN c ELSE links.yptr[q]
        BY <1>0, <2>1, <2>4 DEF head
      <4> QED
        BY <3>2, <3>4, <4>1, <4>2, <4>3, <1>0, <2>1, Push
    <3>5. CASE r = p
      <4>1. n # 0 /\ s[1] = c
        BY <3>2, <3>5, <1>3 DEF Chain, c
      <4>2. links'.cptr[p] = links.optr[c]
        BY <1>0, <2>4
      <4>3. \A q \in AllProcs : (q \in linked' /\ links'.parent[q] = p) <=> q # c /\ q \in linked /\ links.parent[q] = p
        BY <1>0, <2>1, <2>4
      <4>4. \A q \in AllProcs : q # c /\ q \in linked /\ links.parent[q] = p =>
               links'.optr[q] = links.optr[q] /\ links'.yptr[q] = links.yptr[q]
        BY <1>0, <2>1, <2>2, <2>4
      <4> QED
        BY <3>2, <3>5, <4>1, <4>2, <4>3, <4>4, <2>0, <1>0, Pop
    <3>6. CASE r # initproc /\ r # p
      <4>1. links'.cptr[r] = links.cptr[r]
        BY <3>6, <2>4
      <4>2. \A q \in AllProcs : (q \in linked' /\ links'.parent[q] = r) <=> (q \in linked /\ links.parent[q] = r)
        BY <3>6, <1>0, <2>1, <2>4
      <4>3. \A q \in AllProcs : q \in linked /\ links.parent[q] = r =>
               links'.optr[q] = links.optr[q] /\ links'.yptr[q] = links.yptr[q]
        BY <3>6, <1>0, <2>1, <2>2, <2>4
      <4>4. Chain(r, n, s)'
        BY <3>2, <3>6, <4>1, <4>2, <4>3, Keep
      <4> QED
        BY <4>4
    <3> QED
      BY <3>4, <3>5, <3>6
  <2> QED
    BY <2>5, <2>6, <2>7 DEF LinksIInv, Lists
<1> QED
  BY <1>2, <1>3

(* do_wait that has found c.                                               *)
LEMMA ReapInv ==
    ASSUME LinksAssumption, LinksIInv, leaving = NULL, NEW c \in zombie, Reap(c)
    PROVE  LinksIInv'
<1> DEFINE p == links.parent[c]
<1>0. /\ c \in linked /\ c \in AllProcs /\ c # initproc /\ c # idleproc /\ p \in AllProcs /\ p # c
      /\ linked' = linked \ {c} /\ zombie' = zombie \ {c} /\ leaving' = NULL /\ NULL \notin AllProcs
  BY NullApart, ParentsExist DEF Reap, LinksIInv, LinksType, LinksAssumption, ParentsAlive
<1>1. links \in Fields
  BY DEF LinksIInv, LinksType
<1>2. links.optr[c] # NULL => links.optr[c] \in linked /\ links.parent[links.optr[c]] = p /\ links.optr[c] # c /\ links.optr[c] \in AllProcs
  BY <1>0, Siblings, ParentsExist
<1>3. links.yptr[c] # NULL => links.yptr[c] \in linked /\ links.parent[links.yptr[c]] = p /\ links.yptr[c] # c /\ links.yptr[c] \in AllProcs
  BY <1>0, Siblings, ParentsExist
<1>4. /\ links' \in Fields
      /\ \A q \in AllProcs :
           /\ links'.parent[q] = IF q = c THEN NULL ELSE links.parent[q]
           /\ links'.cptr[q] = IF q = c THEN NULL
                               ELSE IF q = p /\ links.yptr[c] = NULL THEN links.optr[c] ELSE links.cptr[q]
           /\ links'.optr[q] = IF q = c THEN NULL ELSE IF q = links.yptr[c] THEN links.optr[c] ELSE links.optr[q]
           /\ links'.yptr[q] = IF q = c THEN NULL ELSE IF q = links.optr[c] THEN links.yptr[c] ELSE links.yptr[q]
  <2> DEFINE l == remove_links(links, c)
  <2>1. /\ l \in Fields
        /\ \A q \in AllProcs :
             /\ l.parent[q] = links.parent[q]
             /\ l.cptr[q] = IF q = p /\ links.yptr[c] = NULL THEN links.optr[c] ELSE links.cptr[q]
             /\ l.optr[q] = IF q = links.yptr[c] THEN links.optr[c] ELSE links.optr[q]
             /\ l.yptr[q] = IF q = links.optr[c] THEN links.yptr[c] ELSE links.yptr[q]
    <3>1. CASE links.optr[c] = NULL
      BY <3>1, <1>0, <1>1, <1>3 DEF remove_links, Fields
    <3>2. CASE links.optr[c] # NULL /\ links.yptr[c] = NULL
      BY <3>2, <1>0, <1>1, <1>2 DEF remove_links, Fields
    <3>3. CASE links.optr[c] # NULL /\ links.yptr[c] # NULL
      BY <3>3, <1>0, <1>1, <1>2, <1>3 DEF remove_links, Fields
    <3> QED
      BY <3>1, <3>2, <3>3
  <2>2. links' = Blank(l, c)
    BY DEF Reap
  <2> HIDE DEF l, p
  <2>3. /\ links' \in Fields
        /\ \A q \in AllProcs :
             /\ links'.parent[q] = IF q = c THEN NULL ELSE l.parent[q]
             /\ links'.cptr[q] = IF q = c THEN NULL ELSE l.cptr[q]
             /\ links'.optr[q] = IF q = c THEN NULL ELSE l.optr[q]
             /\ links'.yptr[q] = IF q = c THEN NULL ELSE l.yptr[q]
    BY <1>0, <2>1, <2>2 DEF Blank, Fields
  <2> QED
    BY <2>1, <2>3
<1>5. \A q \in linked : q \in AllProcs /\ links.parent[q] # c
  <2> SUFFICES ASSUME NEW q \in linked PROVE q \in AllProcs /\ links.parent[q] # c
    OBVIOUS
  <2> QED
    BY <1>0, ParentsExist
<1> HIDE DEF p
<1>6. LinksType'
  BY <1>0, <1>4, NullApart DEF LinksIInv, LinksType
<1>7. ParentsAlive'
  BY <1>0, <1>4, <1>5 DEF LinksIInv, ParentsAlive
<1>8. ASSUME NEW r \in AllProcs PROVE \E m \in Nat : \E t \in [1 .. m -> AllProcs] : Chain(r, m, t)'
  <2>1. PICK n \in Nat : \E s \in [1 .. n -> AllProcs] : Chain(r, n, s)
    BY DEF LinksIInv, Lists
  <2>2. PICK s \in [1 .. n -> AllProcs] : Chain(r, n, s)
    BY <2>1
  <2>3. CASE r = p
    <3>1. PICK k \in 1 .. n : s[k] = c
      BY <2>2, <2>3, <1>0 DEF Chain, p
    <3>2. links'.cptr[r] = IF links.yptr[s[k]] = NULL THEN links.optr[s[k]] ELSE links.cptr[r]
      BY <3>1, <2>3, <1>0, <1>4
    <3>3. \A q \in AllProcs : (q \in linked' /\ links'.parent[q] = r) <=> q # s[k] /\ q \in linked /\ links.parent[q] = r
      BY <3>1, <1>0, <1>4
    <3>4. \A q \in AllProcs : q # s[k] /\ q \in linked /\ links.parent[q] = r =>
             /\ links'.optr[q] = IF q = links.yptr[s[k]] THEN links.optr[s[k]] ELSE links.optr[q]
             /\ links'.yptr[q] = IF q = links.optr[s[k]] THEN links.yptr[s[k]] ELSE links.yptr[q]
      BY <3>1, <1>4
    <3>5. leaving # r /\ NULL \notin AllProcs
      BY <1>0
    <3> QED
      BY <2>2, <3>5, <3>2, <3>3, <3>4, Cut, ZenonT(30)
  <2>4. CASE r # p
    <3>1. links'.cptr[r] = links.cptr[r]
      <4>1. links.cptr[c] = NULL
        BY <1>0, <1>5, Siblings
      <4> QED
        BY <4>1, <2>4, <1>4
    <3>2. \A q \in AllProcs : (q \in linked' /\ links'.parent[q] = r) <=> (q \in linked /\ links.parent[q] = r)
      BY <2>4, <1>0, <1>4 DEF p
    <3>3. \A q \in AllProcs : q \in linked /\ links.parent[q] = r =>
             links'.optr[q] = links.optr[q] /\ links'.yptr[q] = links.yptr[q]
      BY <2>4, <1>0, <1>2, <1>3, <1>4 DEF p
    <3>4. Chain(r, n, s)'
      BY <2>2, <3>1, <3>2, <3>3, <1>0, Keep
    <3> QED
      BY <3>4
  <2> QED
    BY <2>3, <2>4
<1> QED
  BY <1>6, <1>7, <1>8 DEF LinksIInv, Lists
(* Every step keeps the lists.                                             *)
LEMMA LinksStep == LinksAssumption /\ LinksIInv /\ [LinksNext]_links_vars => LinksIInv'
<1> SUFFICES ASSUME LinksAssumption, LinksIInv, [LinksNext]_links_vars PROVE LinksIInv'
  OBVIOUS
<1>1. ASSUME NEW p \in AllProcs, NEW c \in UserProcs, Fork(p, c) PROVE LinksIInv'
  BY <1>1, ForkInv
<1>2. ASSUME NEW p \in AllProcs, NEW c \in UserProcs, WaitPid(p, c) PROVE LinksIInv'
  BY <1>2, ReapInv DEF WaitPid, Running
<1>3. ASSUME NEW p \in AllProcs, Exit(p) PROVE LinksIInv'
  BY <1>3, ExitInv
<1>4. ASSUME NEW p \in AllProcs, WaitAny(p) PROVE LinksIInv'
  <2>1. PICK k \in DOMAIN Walk(links, p) : Walk(links, p)[k] \in zombie /\ Reap(Walk(links, p)[k])
    BY <1>4 DEF WaitAny
  <2>2. leaving = NULL
    BY <1>4 DEF WaitAny, Running
  <2> QED
    BY <2>1, <2>2, ReapInv
<1>5. ASSUME ExitLoop PROVE LinksIInv'
  BY <1>5, ExitLoopInv
<1>6. CASE UNCHANGED links_vars
  <2>1. links' = links /\ linked' = linked /\ zombie' = zombie /\ leaving' = leaving
    BY <1>6 DEF links_vars
  <2>2. LinksType' /\ ParentsAlive'
    BY <2>1 DEF LinksIInv, LinksType, ParentsAlive
  <2>3. ASSUME NEW r \in AllProcs, NEW n \in Nat, NEW s \in [1 .. n -> AllProcs], Chain(r, n, s) PROVE Chain(r, n, s)'
    BY <2>1, <2>3, Keep
  <2>4. Lists'
    BY <2>3 DEF LinksIInv, Lists
  <2> QED
    BY <2>2, <2>4 DEF LinksIInv
<1> QED
  BY <1>1, <1>2, <1>3, <1>4, <1>5, <1>6 DEF LinksNext

(* What the order of the children says of the walk of do_wait.             *)
LEMMA ChainsExact == LinksAssumption /\ LinksIInv => ListsExact
<1> SUFFICES ASSUME LinksAssumption, LinksIInv, NEW p \in AllProcs
             PROVE  LET at == Walk(links, p)
                    IN  /\ at[Cardinality(AllProcs)] = NULL
                        /\ {at[k] : k \in DOMAIN at} \ {NULL} = {q \in linked : links.parent[q] = p}
  BY DEF ListsExact
<1> DEFINE C == Cardinality(AllProcs)
<1>1. PICK n \in Nat : \E s \in [1 .. n -> AllProcs] : Chain(p, n, s)
  BY DEF LinksIInv, Lists
<1>2. PICK s \in [1 .. n -> AllProcs] : Chain(p, n, s)
  BY <1>1
<1>3. C \in Nat /\ n <= C
  <2>1. s \in Injection(1 .. n, AllProcs)
    BY <1>2 DEF Chain, Injection, IsInjective
  <2>2. Cardinality(1 .. n) <= C
    BY <2>1, ProcsFinite, FS_Injection
  <2>3. Cardinality(1 .. n) = n
    BY FS_Interval
  <2> QED
    BY <2>2, <2>3, ProcsFinite, FS_CardinalityType
<1>4. Walk(links, p) = [k \in 0 .. C |-> IF k < n THEN s[k + 1] ELSE NULL]
  BY <1>2, WalkIsChain DEF LinksIInv
<1> HIDE DEF C
<1>5. Walk(links, p)[C] = NULL
  BY <1>3, <1>4
<1>6. DOMAIN Walk(links, p) = 0 .. C
  BY <1>4
<1>7. \A i \in 1 .. n : s[i] \in linked /\ links.parent[s[i]] = p /\ s[i] # NULL
  BY <1>2, NullApart DEF Chain
<1>8. ASSUME NEW k \in 0 .. C, Walk(links, p)[k] # NULL
      PROVE  Walk(links, p)[k] \in linked /\ links.parent[Walk(links, p)[k]] = p
  BY <1>8, <1>3, <1>4, <1>7
<1>9. ASSUME NEW q \in linked, links.parent[q] = p
      PROVE  q # NULL /\ \E k \in 0 .. C : Walk(links, p)[k] = q
  <2>1. PICK i \in 1 .. n : s[i] = q
    BY <1>2, <1>9, ParentsExist DEF Chain
  <2>2. i - 1 \in 0 .. C /\ Walk(links, p)[i - 1] = q
    BY <2>1, <1>3, <1>4
  <2> QED
    BY <2>1, <2>2, <1>7
<1> QED
  BY <1>5, <1>6, <1>8, <1>9 DEF C

(* What it says of yptr, by which remove_links finds the neighbours.       *)
LEMMA ChainsBack == LinksAssumption /\ LinksIInv => WaysBack
<1> SUFFICES ASSUME LinksAssumption, LinksIInv, NEW q \in linked
             PROVE  /\ links.optr[q] # NULL => links.yptr[links.optr[q]] = q
                    /\ IF leaving # NULL /\ links.cptr[leaving] = q THEN TRUE
                       ELSE IF links.yptr[q] = NULL THEN links.cptr[links.parent[q]] = q
                       ELSE links.optr[links.yptr[q]] = q
  BY DEF WaysBack
<1> DEFINE p == links.parent[q]
<1>0. p \in AllProcs /\ q \in AllProcs /\ NULL \notin AllProcs
  BY ParentsExist, NullApart
<1>1. PICK n \in Nat : \E s \in [1 .. n -> AllProcs] : Chain(p, n, s)
  BY <1>0 DEF LinksIInv, Lists
<1>2. PICK s \in [1 .. n -> AllProcs] : Chain(p, n, s)
  BY <1>1
<1>3. PICK i \in 1 .. n : s[i] = q
  BY <1>0, <1>2 DEF Chain
<1>4. links.optr[q] # NULL => links.yptr[links.optr[q]] = q
  <2> SUFFICES ASSUME links.optr[q] # NULL PROVE links.yptr[links.optr[q]] = q
    OBVIOUS
  <2>1. i # n /\ links.optr[q] = s[i + 1]
    BY <1>2, <1>3 DEF Chain
  <2>2. i + 1 \in 1 .. n /\ links.yptr[s[i + 1]] = s[(i + 1) - 1]
    BY <1>2, <2>1 DEF Chain
  <2> QED
    BY <2>1, <2>2, <1>3
<1>5. CASE i = 1
  <2>1. links.cptr[p] = q
    BY <1>2, <1>3, <1>5 DEF Chain
  <2>2. p # leaving => links.yptr[q] = NULL
    BY <1>2, <1>3, <1>5 DEF Chain
  <2> QED
    BY <1>0, <1>4, <2>1, <2>2
<1>6. CASE i # 1
  <2>1. i - 1 \in 1 .. n /\ links.yptr[q] = s[i - 1] /\ s[i - 1] # NULL
    BY <1>0, <1>2, <1>3, <1>6 DEF Chain
  <2>2. links.optr[s[i - 1]] = s[(i - 1) + 1]
    BY <1>2, <2>1 DEF Chain
  <2> QED
    BY <1>3, <1>4, <2>1, <2>2
<1> QED
  BY <1>5, <1>6

(* set_links, remove_links, the loop of do_exit and the search of do_wait: *)
(* for any number of processes the list of a process ends and holds        *)
(* exactly its children, yptr leads back, and parents are alive.           *)
THEOREM FamilyListsCorrect == ASSUME LinksAssumption PROVE LinksSpec => []LinksInv
<1>1. LinksInit => LinksIInv
  BY LinksInitInv
<1>2. LinksIInv /\ [LinksNext]_links_vars => LinksIInv'
  BY LinksStep
<1>3. LinksIInv => LinksInv
  BY ChainsExact, ChainsBack DEF LinksIInv, LinksInv
<1> QED
  BY <1>1, <1>2, <1>3, PTL DEF LinksSpec
==============================================================================
