--------------------------------- MODULE GetPid ---------------------------------
(***************************************************************************)
(* get_pid of kern/process/proc.c, one action per iteration of its loop    *)
(* over proc_list, with set_links and remove_links, which change that list *)
(* between two calls.  The kernel is not preempted, and the clock handler  *)
(* leaves proc_list alone, so nothing happens in the middle of a call.     *)
(*                                                                         *)
(* The two static variables are a cache: every pid strictly between        *)
(* last_pid and next_safe is unused, so the next calls need no scan.  What *)
(* could go wrong is that the cache outlives the list it was made from.    *)
(***************************************************************************)
EXTENDS Integers, Sequences

CONSTANTS MAX_PROCESS,   \* bound on nr_process, idleproc included
          MAX_PID        \* pids are below this bound

\* The static_assert at the head of get_pid, and room for one process.
ASSUME PidAssumption ==
    MAX_PROCESS \in Nat /\ MAX_PID \in Nat /\ MAX_PID > MAX_PROCESS /\ MAX_PROCESS > 1

VARIABLES procs,       \* the pids in proc_list, head first
          last_pid,    \* static: the pid given out last
          next_safe,   \* static: the first pid above it that may be in use
          le,          \* index in proc_list of the iteration to come
          scan_pc      \* "out" between two calls, "scan" in the while loop, "return"

getpid_vars == <<procs, last_pid, next_safe, le, scan_pc>>

GetPidTypeOK ==
    /\ procs \in Seq(1..MAX_PID - 1)
    /\ last_pid \in 1..MAX_PID
    /\ next_safe \in 1..MAX_PID
    /\ le \in Nat \ {0}
    /\ scan_pc \in {"out", "scan", "return"}

GetPidInit ==
    /\ procs = <<>>
    /\ last_pid = MAX_PID
    /\ next_safe = MAX_PID
    /\ le = 1
    /\ scan_pc = "out"

\* Mutant: the pid after the last one is believed to be free.
Enter_trusts ==
    /\ scan_pc = "out"
    /\ Len(procs) + 1 < MAX_PROCESS
    /\ IF last_pid + 1 >= MAX_PID
       THEN last_pid' = 1 /\ next_safe' = MAX_PID /\ scan_pc' = "scan"
       ELSE /\ last_pid' = last_pid + 1
            /\ IF last_pid + 1 > next_safe
               THEN next_safe' = MAX_PID /\ scan_pc' = "scan"
               ELSE scan_pc' = "return" /\ UNCHANGED next_safe
    /\ le' = 1
    /\ UNCHANGED procs

\* The call, in a do_fork that found nr_process < MAX_PROCESS (nr_process also
\* counts idleproc, which is not in proc_list), up to the label repeat.
Enter ==
    /\ scan_pc = "out"
    /\ Len(procs) + 1 < MAX_PROCESS
    /\ IF last_pid + 1 >= MAX_PID
       THEN last_pid' = 1 /\ next_safe' = MAX_PID /\ scan_pc' = "scan"
       ELSE /\ last_pid' = last_pid + 1
            /\ IF last_pid + 1 >= next_safe
               THEN next_safe' = MAX_PID /\ scan_pc' = "scan"
               ELSE scan_pc' = "return" /\ UNCHANGED next_safe
    /\ le' = 1
    /\ UNCHANGED procs

\* Mutant: every new scan begins with pid 1.
Taken_restarts ==
    /\ scan_pc = "scan" /\ le <= Len(procs) /\ procs[le] = last_pid
    /\ IF last_pid + 1 >= next_safe
       THEN last_pid' = 1 /\ next_safe' = MAX_PID /\ le' = 1
       ELSE last_pid' = last_pid + 1 /\ le' = le + 1 /\ UNCHANGED next_safe
    /\ UNCHANGED <<procs, scan_pc>>

\* proc->pid == last_pid: try the next pid; when it reaches next_safe, wrap
\* around at MAX_PID, forget next_safe and scan from the head again.
Taken ==
    /\ scan_pc = "scan" /\ le <= Len(procs) /\ procs[le] = last_pid
    /\ IF last_pid + 1 >= next_safe
       THEN /\ last_pid' = IF last_pid + 1 >= MAX_PID THEN 1 ELSE last_pid + 1
            /\ next_safe' = MAX_PID
            /\ le' = 1
       ELSE last_pid' = last_pid + 1 /\ le' = le + 1 /\ UNCHANGED next_safe
    /\ UNCHANGED <<procs, scan_pc>>

\* Mutant: the last pid seen bounds the window, not the smallest.
Passed_last ==
    /\ scan_pc = "scan" /\ le <= Len(procs) /\ procs[le] # last_pid
    /\ next_safe' = IF procs[le] > last_pid THEN procs[le] ELSE next_safe
    /\ le' = le + 1
    /\ UNCHANGED <<procs, last_pid, scan_pc>>

\* Any other pid: if it lies in the window, the window ends there.
Passed ==
    /\ scan_pc = "scan" /\ le <= Len(procs) /\ procs[le] # last_pid
    /\ next_safe' = IF procs[le] > last_pid /\ next_safe > procs[le]
                    THEN procs[le] ELSE next_safe
    /\ le' = le + 1
    /\ UNCHANGED <<procs, last_pid, scan_pc>>

\* le is back at the list head.
ScanEnd ==
    /\ scan_pc = "scan" /\ le > Len(procs)
    /\ scan_pc' = "return"
    /\ UNCHANGED <<procs, last_pid, next_safe, le>>

\* get_pid returns last_pid, and set_links adds the process at the head.
Return ==
    /\ scan_pc = "return"
    /\ procs' = <<last_pid>> \o procs
    /\ scan_pc' = "out"
    /\ UNCHANGED <<last_pid, next_safe, le>>

CutAt(q, i) == [j \in 1..Len(q) - 1 |-> IF j < i THEN q[j] ELSE q[j + 1]]

\* remove_links, in do_wait.
RemoveLinks ==
    /\ scan_pc = "out"
    /\ \E i \in 1..Len(procs) : procs' = CutAt(procs, i)
    /\ UNCHANGED <<last_pid, next_safe, le, scan_pc>>

Scan == Taken \/ Passed \/ ScanEnd

GetPidNext == Enter \/ Scan \/ Return \/ RemoveLinks

GetPidSpec == GetPidInit /\ [][GetPidNext]_getpid_vars

\* The loop of get_pid runs to its end.
GetPidFairSpec == GetPidSpec /\ WF_getpid_vars(Scan \/ Return)
-------------------------------------------------------------------------------

NoRepeat(q) == \A i, j \in 1..Len(q) : q[i] = q[j] => i = j

\* No two processes have the same pid, so find_proc, do_kill and do_wait mean
\* one process.
PidsUnique == NoRepeat(procs)

\* The cached window is free: outside get_pid no process, however long ago it
\* was created, has a pid strictly between last_pid and next_safe.
WindowFree ==
    scan_pc = "out" => \A i \in 1..Len(procs) : ~(last_pid < procs[i] /\ procs[i] < next_safe)

\* The loop invariant of get_pid: the part of proc_list that the scan has passed
\* (all of it, once get_pid is about to return) has no pid from last_pid up to
\* next_safe, although both move during the scan.
ScanInv ==
    scan_pc # "out" =>
        /\ last_pid < next_safe
        /\ \A i \in 1..Len(procs) :
               (scan_pc = "return" \/ i < le) => procs[i] < last_pid \/ procs[i] >= next_safe

Pids == {procs[i] : i \in 1..Len(procs)}

\* get_pid with its cache allocates unused pids (module PidSpec).
PidAlloc == INSTANCE PidSpec WITH live <- Pids, nr <- Len(procs)
PidAllocSpec == PidAlloc!Spec

\* get_pid always finds a pid: the repeated scans end, because there are more
\* pids than processes.
GetPidReturns == (scan_pc = "scan") ~> (scan_pc = "out")
=============================================================================
