------------------------------- MODULE MCLive -------------------------------
(***************************************************************************)
(* The parts whose progress is checked under fairness, for TLC: the dining *)
(* philosophers with semaphores and with a monitor (CheckSync), and the    *)
(* inode cache (SfsInode).  They share nothing, so a behaviour is one of   *)
(* any of them: part says which, and the others stay in their initial      *)
(* states.                                                                 *)
(***************************************************************************)
EXTENDS SfsInode, CheckSync

VARIABLE part

ASSUME Sema!PhilAssumption /\ Condvar!PhilAssumption /\ SfsInodeAssumption

all == <<part, sema_vars, condvar_vars, inode_vars>>

MCInit ==
    /\ part \in {"sema", "condvar", "inode"}
    /\ Sema!Init /\ Condvar!Init /\ InodeInit

Phil(i) ==
    \/ part = "sema" /\ Sema!Phil(i) /\ UNCHANGED <<part, condvar_vars, inode_vars>>
    \/ part = "condvar" /\ i < CondvarN /\ Condvar!Phil(i) /\ UNCHANGED <<part, sema_vars, inode_vars>>
InodeStep(A) == part = "inode" /\ A /\ UNCHANGED <<part, sema_vars, condvar_vars>>

MCNext == (\E i \in 0 .. 3 : Phil(i)) \/ InodeStep(InodeNext)

(* The fairness of PhilSem, PhilMonitor and SfsInode.                      *)
MCFairness ==
    /\ \A i \in 0 .. 3 : WF_all(Phil(i))
    /\ \A p \in Proc :
        /\ SF_all(InodeStep(LookupNolock(p) \/ FsyncLock(p) \/ Reclaim(p)))
        /\ WF_all(InodeStep(LoadDone(p) \/ WriteDone(p) \/ FsyncClean(p) \/ FsyncDone(p) \/ ReclaimSynced(p)))

MCSpec == MCInit /\ [][MCNext]_all /\ MCFairness

(* Every philosopher eats all its meals and returns.                       *)
AllFinish == <>(/\ part = "sema" => Sema!AllQuit
                /\ part = "condvar" => Condvar!AllQuit)
============================================================================
