----------------------------- MODULE SfsInode -----------------------------
(***************************************************************************)
(* The in-memory inodes of the simple file system (lab8                    *)
(* kern/fs/sfs/sfs_inode.c, sfs_fs.c): sfs_load_inode, sfs_reclaim,        *)
(* sfs_fsync, sfs_sync and the reference counts of vfs/inode.c, for one    *)
(* inode number and the processes that use it.  A structure that is freed  *)
(* may be allocated again.  The disk may block its caller at each access,  *)
(* as the locks of the code assume, so a process can be overtaken at every *)
(* down and at every disk access.  The disk inode is abstracted to the     *)
(* version of its contents.                                                *)
(***************************************************************************)
EXTENDS Naturals, FiniteSets

CONSTANTS
    Proc,      \* processes
    Obj,       \* addresses kmalloc may return for a struct inode
    None,      \* no process, no inode
    MaxVer     \* bound: writes in a behaviour

SfsInodeAssumption == IsFiniteSet(Proc) /\ None \notin Proc \cup Obj

VARIABLES
    at,        \* where each process is
    my,        \* the inode it works on
    node,      \* the inodes in memory
    fsLock,    \* who holds sfs->fs_sem
    disk,      \* the version on disk
    last       \* history: the last version written through an inode

inode_vars == <<at, my, node, fsLock, disk, last>>

Freed == [linked |-> FALSE, ref |-> 0, reclaim |-> 0, dirty |-> FALSE, ver |-> 0, sem |-> None]
Linked == {o \in Obj : node[o].linked}

InodeInit ==
    /\ at = [p \in Proc |-> "idle"]
    /\ my = [p \in Proc |-> None]
    /\ node = [o \in Obj |-> Freed]
    /\ fsLock = None
    /\ disk = 0
    /\ last = 0

Goto(p, there, o) == at' = [at EXCEPT ![p] = there] /\ my' = [my EXCEPT ![p] = o]
Set(o, n) == node' = [node EXCEPT ![o] = n]

---------------------------------------------------------------------------
(* sfs_load_inode: lock_sfs_fs, then lookup_sfs_nolock; a reference taken  *)
(* from 0 answers for one more reclaim.                                    *)
Load(p) == at[p] = "idle" /\ Goto(p, "load", None) /\ UNCHANGED <<node, fsLock, disk, last>>

LookupNolock(p) ==
    /\ at[p] = "load" /\ fsLock = None
    /\ \/ \E o \in Linked :
            /\ Set(o, [node[o] EXCEPT !.ref = @ + 1,
                                      !.reclaim = IF node[o].ref = 0 THEN @ + 1 ELSE @])
            /\ Goto(p, "held", o)
            /\ UNCHANGED fsLock
       \/ /\ Linked = {}
          /\ Goto(p, "read", None)
          /\ fsLock' = p
          /\ UNCHANGED node
    /\ UNCHANGED <<disk, last>>

(* The disk inode has been read: sfs_create_inode and sfs_set_links, or no *)
(* memory for the inode.                                                   *)
LoadDone(p) ==
    /\ at[p] = "read"
    /\ \/ \E o \in {o \in Obj : node[o] = Freed} :
            /\ Set(o, [Freed EXCEPT !.linked = TRUE, !.ref = 1, !.reclaim = 1, !.ver = disk])
            /\ Goto(p, "held", o)
       \/ Goto(p, "idle", None) /\ UNCHANGED node
    /\ fsLock' = None
    /\ UNCHANGED <<disk, last>>

(* sfs_io: a write under the inode's lock; the data reach the disk before  *)
(* the inode is marked dirty.                                              *)
Write(p) ==
    /\ at[p] = "held" /\ node[my[p]].sem = None /\ last < MaxVer
    /\ Set(my[p], [node[my[p]] EXCEPT !.sem = p])
    /\ Goto(p, "write", my[p])
    /\ UNCHANGED <<fsLock, disk, last>>

WriteDone(p) ==
    /\ at[p] = "write"
    /\ Set(my[p], [node[my[p]] EXCEPT !.sem = None, !.dirty = TRUE, !.ver = last + 1])
    /\ last' = last + 1
    /\ Goto(p, "held", my[p])
    /\ UNCHANGED <<fsLock, disk>>

---------------------------------------------------------------------------
(* sfs_fsync of an inode that is dirty, called with a reference, by        *)
(* sfs_sync or by sfs_reclaim: lock_sin, and the test again.               *)
Fsync(p) ==
    /\ at[p] = "held" /\ node[my[p]].dirty
    /\ Goto(p, "fsync", my[p])
    /\ UNCHANGED <<node, fsLock, disk, last>>

Wbuf == [fsync |-> "fsync_wbuf", syncall |-> "syncall_wbuf", rsync |-> "rsync_wbuf"]

FsyncLock(p) ==
    /\ at[p] \in {"fsync", "syncall", "rsync"} /\ node[my[p]].sem = None
    /\ node[my[p]].dirty
    /\ Set(my[p], [node[my[p]] EXCEPT !.sem = p, !.dirty = FALSE])
    /\ at' = [at EXCEPT ![p] = Wbuf[@]]
    /\ UNCHANGED <<my, fsLock, disk, last>>

(* Someone else has written the inode while p waited for its lock.         *)
FsyncClean(p) ==
    /\ at[p] \in {"fsync", "syncall"} /\ node[my[p]].sem = None
    /\ ~node[my[p]].dirty
    /\ IF at[p] = "fsync" THEN Goto(p, "held", my[p]) /\ UNCHANGED fsLock
                          ELSE Goto(p, "idle", None) /\ fsLock' = None
    /\ UNCHANGED <<node, disk, last>>

(* sfs_wbuf has written the disk inode; unlock_sin.                        *)
FsyncDone(p) ==
    /\ at[p] \in {"fsync_wbuf", "syncall_wbuf"}
    /\ disk' = node[my[p]].ver
    /\ Set(my[p], [node[my[p]] EXCEPT !.sem = None])
    /\ IF at[p] = "fsync_wbuf" THEN Goto(p, "held", my[p]) /\ UNCHANGED fsLock
                               ELSE Goto(p, "idle", None) /\ fsLock' = None
    /\ UNCHANGED last

(* sfs_sync: every inode of inode_list, under the lock of the file system  *)
(* and without a reference.                                                *)
SyncAll(p) ==
    /\ at[p] = "idle" /\ fsLock = None
    /\ \E o \in Linked : node[o].dirty /\ Goto(p, "syncall", o)
    /\ fsLock' = p
    /\ UNCHANGED <<node, disk, last>>

---------------------------------------------------------------------------
(* inode_ref_dec; the last reference calls sfs_reclaim.                    *)
RefDec(p) ==
    LET o == my[p]
    IN  /\ at[p] = "held"
        /\ Set(o, [node[o] EXCEPT !.ref = @ - 1])
        /\ IF node[o].ref = 1 THEN Goto(p, "reclaim", o) ELSE Goto(p, "idle", None)
        /\ UNCHANGED <<fsLock, disk, last>>

\* Mutants: one of the two tests is dropped, or the wrong one is made.
BusyRefOnly(n) == n.ref # 0
BusyReclaimLeft(n) == n.reclaim # 1 \/ n.ref # 0

(* Whether sfs_reclaim, having counted itself, returns -E_BUSY.            *)
Busy(n) == n.reclaim # 0 \/ n.ref # 0

(* sfs_reclaim, under the lock of the file system: E_BUSY, or write a      *)
(* dirty inode first, or unlink and free the structure.                    *)
Reclaim(p) ==
    LET o == my[p]
        n == [node[o] EXCEPT !.reclaim = @ - 1]
    IN  /\ at[p] = "reclaim" /\ fsLock = None
        /\ \/ /\ Busy(n)
              /\ Set(o, n) /\ Goto(p, "idle", None) /\ UNCHANGED fsLock
           \/ /\ ~Busy(n) /\ n.dirty
              /\ Set(o, n) /\ Goto(p, "rsync", o) /\ fsLock' = p
           \/ /\ ~Busy(n) /\ ~n.dirty
              /\ Set(o, Freed) /\ Goto(p, "idle", None) /\ UNCHANGED fsLock
        /\ UNCHANGED <<disk, last>>

ReclaimSynced(p) ==
    /\ at[p] = "rsync_wbuf"
    /\ disk' = node[my[p]].ver
    /\ Set(my[p], Freed) /\ Goto(p, "idle", None) /\ fsLock' = None
    /\ UNCHANGED last

InodeNext == \E p \in Proc :
    \/ Load(p) \/ LookupNolock(p) \/ LoadDone(p)
    \/ Write(p) \/ WriteDone(p)
    \/ Fsync(p) \/ FsyncLock(p) \/ FsyncClean(p) \/ FsyncDone(p) \/ SyncAll(p)
    \/ RefDec(p) \/ Reclaim(p) \/ ReclaimSynced(p)

(* A process in a call goes on as soon as the lock or the disk lets it:    *)
(* semaphores are granted in turn (SemLock's WaiterEnters).  A process     *)
(* gives its reference back when it exits.                                 *)
InodeFairness == \A p \in Proc :
    /\ SF_inode_vars(LookupNolock(p) \/ FsyncLock(p) \/ Reclaim(p))
    /\ WF_inode_vars(LoadDone(p) \/ WriteDone(p) \/ FsyncClean(p) \/ FsyncDone(p) \/ ReclaimSynced(p))

InodeSpec == InodeInit /\ [][InodeNext]_inode_vars /\ InodeFairness

---------------------------------------------------------------------------
Holders(o) == {p \in Proc : my[p] = o /\ at[p] \in {"held", "write", "fsync", "fsync_wbuf"}}
Reclaimers(o) == {p \in Proc : my[p] = o /\ at[p] = "reclaim"}

(* The inode number has at most one structure in memory.                   *)
OneNode == Cardinality(Linked) <= 1

(* Nobody works on a freed structure.                                      *)
NoUseAfterFree == \A p \in Proc : my[p] # None => my[p] \in Linked

(* ref_count counts the holders; reclaim_count the calls of sfs_reclaim    *)
(* still to come: one for each process on its way there, and one for the   *)
(* holders together.                                                       *)
CountsExact == \A o \in Linked :
    /\ node[o].ref = Cardinality(Holders(o))
    /\ node[o].reclaim = Cardinality(Reclaimers(o)) + (IF Holders(o) # {} THEN 1 ELSE 0)

(* What was last written is what the next load will see: the structure in  *)
(* memory has it, and a clean one agrees with the disk.                    *)
NoLostUpdate ==
    /\ Linked = {} => disk = last
    /\ \A o \in Linked : /\ node[o].ver = last
                         /\ ~node[o].dirty => (disk = last \/ node[o].sem # None)

(* The cache of inodes: one structure, never freed in use, never stale     *)
(* (sfs_load_inode, sfs_reclaim).                                          *)
CacheInv == OneNode /\ NoUseAfterFree /\ CountsExact /\ NoLostUpdate

Unused(o) == o \in Linked /\ Holders(o) = {}

(* A structure without holders is reclaimed or found again, whoever won    *)
(* the race for the lock: it never stays behind in inode_list.             *)
UnusedReclaimed == \A o \in Obj : Unused(o) ~> ~ Unused(o)

============================================================================
