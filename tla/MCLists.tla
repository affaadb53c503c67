------------------------------ MODULE MCLists ------------------------------
(***************************************************************************)
(* The lists of processes that the kernel keeps, for TLC: proc_list as     *)
(* get_pid reads it (GetPid), the family lists (Links), timer_list (Timer) *)
(* and the wait queues of semaphores (SemLock).  They share nothing, so a  *)
(* behaviour is one of any of them: part says which, and the others stay   *)
(* in an initial state.                                                    *)
(***************************************************************************)
EXTENDS GetPid, Links, Timer, SemLock

CONSTANTS mutex, slots     \* a lock, and a semaphore with two units

LockUnits == [s \in {mutex, slots} |-> IF s = mutex THEN 1 ELSE 2]

VARIABLE part

ASSUME LinksAssumption

all == <<part, getpid_vars, links_vars, timer_vars, vars>>

MCInit ==
    /\ part \in {"getpid", "family", "timer", "lock"}
    /\ GetPidInit /\ LinksInit
    /\ TimerInit /\ (part # "timer" => adding = CHOOSE t \in Timers : TRUE)
    /\ Init /\ (part # "lock" => sem = [p \in Procs |-> mutex])

GetPidStep(A) == part = "getpid" /\ A /\ UNCHANGED <<part, links_vars, timer_vars, vars>>
LockStep(A) == part = "lock" /\ A /\ UNCHANGED <<part, getpid_vars, links_vars, timer_vars>>

MCNext ==
    \/ GetPidStep(GetPidNext)
    \/ part = "family" /\ LinksNext /\ UNCHANGED <<part, getpid_vars, timer_vars, vars>>
    \/ part = "timer" /\ TimerNext /\ UNCHANGED <<part, getpid_vars, links_vars, vars>>
    \/ LockStep(Next)

(* The fairness of GetPid and SemLock.                                     *)
MCFairness ==
    /\ WF_all(GetPidStep(Scan \/ Return))
    /\ \A p \in Procs : WF_all(LockStep(DownWoken(p))) /\ WF_all(LockStep(Up(p)))

MCSpec == MCInit /\ [][MCNext]_all /\ MCFairness
===========================================================================
