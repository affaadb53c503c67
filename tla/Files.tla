------------------------------- MODULE Files -------------------------------
(***************************************************************************)
(* Descriptor tables, inode reference counts and the calls that touch them *)
(* (lab8 kern/fs/file.c, fs.c, sysfile.c, vfs/vfsfile.c, vfs/inode.c,      *)
(* vfs/vfspath.c, and the parts of process/proc.c that copy and release a  *)
(* table).  Every table has one owner: no caller passes CLONE_FS.  A call  *)
(* that reaches a file system may block there, so it is a start and an end *)
(* with other processes' steps in between.  Positions, data and the text   *)
(* of paths are abstracted: a path is the inode it names, or a name that   *)
(* is not on the disk.  A failing assertion is a panic: nothing runs after *)
(* it.                                                                     *)
(***************************************************************************)
EXTENDS Naturals, FiniteSets, FiniteSetsExt

CONSTANTS
    Proc,       \* processes; slots are not reused (do_wait touches no table)
    First,      \* the process user_main runs in
    NFd,        \* FILES_STRUCT_NENTRY
    Dir,        \* inodes of the directories
    Root,       \* the root directory
    File,       \* inodes of the regular files
    InDev,      \* the inode of "stdin:", opened only for reading
    OutDev,     \* the inode of "stdout:", opened only for writing
    Missing,    \* names that are not on the disk
    OpenFlags,  \* open_flags: records [acc |-> "r" | "w" | "rw", opt |-> set of options]
    NoNode,     \* NULL
    MaxOpen,    \* bound: entries open at once, over all tables
    MaxLost     \* bound: references lost

Fd == 0 .. NFd - 1
Dev == InDev \cup OutDev
Node == Dev \cup Dir \cup File

FilesAssumption ==
    /\ First \in Proc /\ IsFiniteSet(Proc)
    /\ Root \in Dir
    /\ Dir \cap File = {}
    /\ Dev \cap (Dir \cup File) = {}
    /\ NFd \in Nat \ {0, 1, 2}
    /\ NoNode \notin Node
    /\ Missing \cap Node = {}
    /\ \A fl \in OpenFlags : /\ fl.acc \in {"r", "w", "rw"}
                             /\ fl.opt \subseteq {"CREAT", "TRUNC", "EXCL", "APPEND"}

VARIABLES
    st,     \* "none", "kernel" (user_main), "user", "zombie", or the call p is
            \* blocked in: "lookup", "trunc", "load", "io"
    mm,     \* the processes whose mm is not NULL
    tabs,   \* the processes whose files_struct is allocated
    pwd,    \* the working directory of each table
    fd,     \* fd[p][i]: the entry i of p's table
    call,   \* what a blocked process is doing
    ref,    \* ref_count of each inode; 0: not in memory, or about to be reclaimed
    opn,    \* open_count of each inode
    lost,   \* history: references that no table, call or mount holds
    panic   \* "none", or what hit an assertion

vars == <<st, mm, tabs, pwd, fd, call, ref, opn, lost, panic>>

Closed == [status |-> "NONE", node |-> NoNode, cnt |-> 0, acc |-> "r"]
RdOnly == [acc |-> "r", opt |-> {}]
NoCall == [name |-> NoNode, from |-> NoNode, fd |-> 0, flags |-> RdOnly, exec |-> FALSE]

One(b) == IF b THEN 1 ELSE 0

(* The mounts: the device list refers to each device, bootfs_node and the  *)
(* working directory of initproc to the root.                              *)
Mounted(n) == IF n = Root THEN 2 ELSE One(n \in Dev)

(* The operations a kind of inode has; __vop_op asserts that it has the    *)
(* one it is asked for.                                                    *)
HasOp(n, vop) ==
    \/ vop \in {"open", "close", "fstat", "gettype"}
    \/ n \in Dir /\ vop \in {"fsync", "namefile", "getdirentry", "reclaim", "lookup"}
    \/ n \in File /\ vop \in {"read", "write", "fsync", "reclaim", "tryseek", "truncate"}
    \/ n \in Dev /\ vop \in {"read", "write", "tryseek", "lookup", "ioctl"}

(* vop_open: sfs_opendir, sfs_openfile, dev_open with stdin_open and       *)
(* stdout_open.                                                            *)
OpenAllowed(n, fl) ==
    \/ n \in File
    \/ n \in Dir /\ fl.acc = "r" /\ "APPEND" \notin fl.opt
    \/ n \in InDev /\ fl.acc = "r" /\ fl.opt = {}
    \/ n \in OutDev /\ fl.acc = "w" /\ fl.opt = {}

Init ==
    /\ st = [p \in Proc |-> IF p = First THEN "kernel" ELSE "none"]
    /\ mm = {}
    /\ tabs = {First}
    /\ pwd = [p \in Proc |-> IF p = First THEN Root ELSE NoNode]
    /\ fd = [p \in Proc |-> [i \in Fd |-> Closed]]
    /\ call = [p \in Proc |-> NoCall]
    /\ ref = [n \in Node |-> Mounted(n) + One(n = Root)]
    /\ opn = [n \in Node |-> 0]
    /\ lost = [n \in Node |-> 0]
    /\ panic = "none"

---------------------------------------------------------------------------
Panic(why) == /\ panic' = why
              /\ UNCHANGED <<st, mm, tabs, pwd, fd, call, ref, opn, lost>>

User(p) == st[p] = "user" /\ p \in mm
Free(p) == {i \in Fd : fd[p][i].status = "NONE"}
Opened(p) == {i \in Fd : fd[p][i].status = "OPENED"}
OpenTotal == Cardinality({x \in tabs \X Fd : fd[x[1]][x[2]].status # "NONE"})
On(p, is, n) == Cardinality({i \in is : fd[p][i].node = n})

(* fd_array_close or fd_array_free on the entries is of p's table: an open *)
(* one has count 1 and gives back, through vfs_close, an open count and    *)
(* one of the references r.                                                *)
CloseFds(p, is, r) ==
    /\ fd' = [fd EXCEPT ![p] = [i \in Fd |-> IF i \in is THEN Closed ELSE @[i]]]
    /\ opn' = [n \in Node |-> opn[n] - On(p, is, n)]
    /\ ref' = [n \in Node |-> r[n] - On(p, is, n)]

(* do_exit.  put_files, and with it files_destroy, which gives back the    *)
(* working directory and every open file, is inside if (mm != NULL).  An   *)
(* exec that fails has freed its own entry before.                         *)
DoExit(p, hasMm, r) ==
    /\ st' = [st EXCEPT ![p] = "zombie"]
    /\ mm' = mm \ {p}
    /\ call' = [call EXCEPT ![p] = NoCall]
    /\ IF hasMm
       THEN /\ tabs' = tabs \ {p}
            /\ pwd' = [pwd EXCEPT ![p] = NoNode]
            /\ CloseFds(p, Opened(p) \cup {call[p].fd}, [r EXCEPT ![pwd[p]] = @ - 1])
       ELSE /\ CloseFds(p, {call[p].fd}, r)
            /\ UNCHANGED <<tabs, pwd>>

SysExit(p) ==
    /\ User(p)
    /\ DoExit(p, TRUE, ref)
    /\ UNCHANGED <<lost, panic>>

(* do_fork: copy_files makes a table and dup_files copies the open entries *)
(* into it, each with its own count of 1 (fd_array_dup).  When             *)
(* files_create fails nothing is left of the child.                        *)
SysFork(p, c) ==
    /\ User(p) /\ st[c] = "none"
    /\ OpenTotal + Cardinality(Opened(p)) <= MaxOpen
    /\ st' = [st EXCEPT ![c] = "user"]
    /\ mm' = mm \cup {c}
    /\ tabs' = tabs \cup {c}
    /\ pwd' = [pwd EXCEPT ![c] = pwd[p]]
    /\ fd' = [fd EXCEPT ![c] = [i \in Fd |-> IF i \in Opened(p) THEN fd[p][i] ELSE Closed]]
    /\ opn' = [n \in Node |-> opn[n] + On(p, Opened(p), n)]
    /\ ref' = [n \in Node |-> ref[n] + On(p, Opened(p), n) + One(n = pwd[p])]
    /\ UNCHANGED <<call, lost, panic>>

SysClose(p, i) ==
    /\ User(p) /\ i \in Opened(p)
    /\ CloseFds(p, {i}, ref)
    /\ UNCHANGED <<st, mm, tabs, pwd, call, lost, panic>>

(* file_dup: fd_array_alloc(fd2), any entry for NO_FD; then fd_array_dup.  *)
SysDup(p, i, j) ==
    LET n == fd[p][i].node
    IN  /\ User(p) /\ i \in Opened(p) /\ j \in Free(p) /\ OpenTotal < MaxOpen
        /\ fd' = [fd EXCEPT ![p][j] = fd[p][i]]
        /\ ref' = [ref EXCEPT ![n] = @ + 1]
        /\ opn' = [opn EXCEPT ![n] = @ + 1]
        /\ UNCHANGED <<st, mm, tabs, pwd, call, lost, panic>>

\* Mutant: the old working directory is not given back.
ChdirKeepsOld(p, n) ==
    /\ User(p) /\ n \in Dir \ {pwd[p]}
    /\ pwd' = [pwd EXCEPT ![p] = n]
    /\ ref' = [ref EXCEPT ![n] = @ + 1]
    /\ UNCHANGED <<st, mm, tabs, fd, call, opn, lost, panic>>

(* vfs_chdir: the lookup's reference is given back; the table takes one of *)
(* its own for a new directory and drops that of the old one.              *)
SysChdir(p, n) ==
    /\ User(p) /\ n \in Dir \ {pwd[p]}
    /\ pwd' = [pwd EXCEPT ![p] = n]
    /\ ref' = [ref EXCEPT ![n] = @ + 1, ![pwd[p]] = @ - 1]
    /\ UNCHANGED <<st, mm, tabs, fd, call, opn, lost, panic>>

---------------------------------------------------------------------------
(* get_device: the inode a lookup of name starts from, and holds: the      *)
(* working directory, or the root for a path that starts with a slash.     *)
(* "stdin:" names its inode directly.                                      *)
Starts(p, name) == IF name \in Dev THEN {NoNode} ELSE {pwd[p], Root}

(* file_open up to vop_lookup: fd_array_alloc takes the first free entry,  *)
(* in an exec after files_closeall closed all but 0 and 1.  The early      *)
(* errors (no free entry, O_TRUNC without writing) change nothing.         *)
StartOpen(p, name, from, fl, isExec) ==
    LET shut == IF isExec THEN Opened(p) \ {0, 1} ELSE {}
        is == Free(p) \cup shut
        i == CHOOSE i \in is : \A j \in is : i <= j
    IN  /\ is # {}
        /\ "TRUNC" \in fl.opt => fl.acc # "r"
        /\ from \in Starts(p, name)
        /\ st' = [st EXCEPT ![p] = "lookup"]
        /\ fd' = [fd EXCEPT ![p] = [j \in Fd |->
                    IF j = i THEN [Closed EXCEPT !.status = "INIT"]
                    ELSE IF j \in shut THEN Closed ELSE @[j]]]
        /\ opn' = [n \in Node |-> opn[n] - On(p, shut, n)]
        /\ ref' = [n \in Node |-> ref[n] - On(p, shut, n) + One(n = from)]
        /\ call' = [call EXCEPT ![p] =
                    [name |-> name, from |-> from, fd |-> i, flags |-> fl, exec |-> isExec]]
        /\ UNCHANGED <<mm, tabs, pwd, lost, panic>>

SysOpen(p, name, from, fl) ==
    /\ User(p)
    /\ OpenTotal < MaxOpen
    /\ "EXCL" \in fl.opt => Cardinality({q \in Proc : "EXCL" \in call[q].flags.opt})
                              + MapThenSumSet(LAMBDA n : lost[n], Node) < MaxLost
    /\ StartOpen(p, name, from, fl, FALSE)

(* do_execve up to sysfile_open(path, O_RDONLY)'s lookup.                  *)
SysExec(p, name, from) ==
    /\ User(p) \/ st[p] = "kernel"
    /\ StartOpen(p, name, from, RdOnly, TRUE)

(* The open fails with the references r: fd_array_free gives the entry     *)
(* back; an exec exits.                                                    *)
OpenFails(p, r) ==
    IF call[p].exec
    THEN DoExit(p, p \in mm, r)
    ELSE /\ st' = [st EXCEPT ![p] = "user"]
         /\ CloseFds(p, {call[p].fd}, r)
         /\ call' = [call EXCEPT ![p] = NoCall]
         /\ UNCHANGED <<mm, tabs, pwd>>

(* fd_array_open at the end of file_open.                                  *)
OpenDone(p) ==
    LET c == call[p]
    IN  /\ fd' = [fd EXCEPT ![p][c.fd] =
                    [status |-> "OPENED", node |-> c.name, cnt |-> 1, acc |-> c.flags.acc]]
        /\ st' = [st EXCEPT ![p] = IF c.exec THEN "load" ELSE "user"]
        /\ call' = IF c.exec THEN call ELSE [call EXCEPT ![p] = NoCall]

(* vop_lookup returns and vfs_open goes on.  sfs has no vop_create, so     *)
(* O_CREAT of a missing name hits the assertion of __vop_op.               *)
Lookup(p) ==
    LET c == call[p]
        back == [n \in Node |-> ref[n] - One(n = c.from)]
        found == [n \in Node |-> back[n] + One(n = c.name)]
        create == "CREAT" \in c.flags.opt
        exclusive == create /\ "EXCL" \in c.flags.opt
    IN  /\ st[p] = "lookup"
        /\ \/ /\ c.name \in Missing /\ create
              /\ Panic("create")
           \/ /\ c.name \in Missing /\ ~create
              /\ OpenFails(p, back)
              /\ UNCHANGED <<lost, panic>>
           \/ /\ c.name \in Node /\ exclusive
              /\ OpenFails(p, found)
              /\ lost' = [lost EXCEPT ![c.name] = @ + 1]
              /\ UNCHANGED panic
           \/ /\ c.name \in Node /\ ~exclusive /\ ~OpenAllowed(c.name, c.flags)
              /\ OpenFails(p, back)
              /\ UNCHANGED <<lost, panic>>
           \/ /\ c.name \in Node /\ ~exclusive /\ OpenAllowed(c.name, c.flags)
              /\ ref' = found
              /\ opn' = [opn EXCEPT ![c.name] = @ + 1]
              /\ IF "TRUNC" \in c.flags.opt \/ create
                 THEN st' = [st EXCEPT ![p] = "trunc"] /\ UNCHANGED <<fd, call>>
                 ELSE OpenDone(p)
              /\ UNCHANGED <<mm, tabs, pwd, lost, panic>>

(* vop_truncate(node, 0) and the rest of vfs_open and file_open.           *)
Truncate(p) ==
    /\ st[p] = "trunc"
    /\ IF HasOp(call[p].name, "truncate")
       THEN OpenDone(p) /\ UNCHANGED <<mm, tabs, pwd, ref, opn, lost, panic>>
       ELSE Panic("truncate")

---------------------------------------------------------------------------
(* load_icode: do_execve has dropped the old mm; the program is read       *)
(* through the descriptor, which is closed in every case.  A failure exits *)
(* without an mm; a bad magic number returns 0, as success does, but       *)
(* without an mm.  Seeking in a device is an error.                        *)
Load(p) ==
    LET c == call[p]
    IN  /\ st[p] = "load"
        /\ \/ /\ ~HasOp(c.name, "tryseek")
              /\ Panic("seek")
           \/ /\ HasOp(c.name, "tryseek")
              /\ DoExit(p, FALSE, ref)
              /\ UNCHANGED <<lost, panic>>
           \/ /\ c.name \in File
              /\ CloseFds(p, {c.fd}, ref)
              /\ st' = [st EXCEPT ![p] = "user"]
              /\ mm' \in {mm \cup {p}, mm \ {p}}
              /\ call' = [call EXCEPT ![p] = NoCall]
              /\ UNCHANGED <<tabs, pwd, lost, panic>>

(* A process that returns to user mode without an mm faults at once, and   *)
(* pgfault_handler panics.                                                 *)
FaultWithoutMm(p) ==
    /\ st[p] = "user" /\ p \notin mm
    /\ Panic("nomm")

---------------------------------------------------------------------------
(* file_read, file_write, file_seek, file_fstat, file_fsync and            *)
(* file_getdirentry: fd2file, the access mode, fd_array_acquire, and the   *)
(* inode's operation, in which the process may block.                      *)
IoStart(p, i, vop) ==
    /\ User(p) /\ i \in Opened(p)
    /\ vop = "read" => fd[p][i].acc # "w"
    /\ vop = "write" => fd[p][i].acc # "r"
    /\ IF HasOp(fd[p][i].node, vop)
       THEN /\ fd' = [fd EXCEPT ![p][i].cnt = @ + 1]
            /\ st' = [st EXCEPT ![p] = "io"]
            /\ call' = [call EXCEPT ![p].fd = i]
            /\ UNCHANGED <<mm, tabs, pwd, ref, opn, lost, panic>>
       ELSE Panic(vop)

(* fd_array_release; the count cannot reach 0 here, as the process that    *)
(* owns the table is the one that is in the call.                          *)
IoEnd(p) ==
    /\ st[p] = "io"
    /\ fd' = [fd EXCEPT ![p][call[p].fd].cnt = @ - 1]
    /\ st' = [st EXCEPT ![p] = "user"]
    /\ call' = [call EXCEPT ![p] = NoCall]
    /\ UNCHANGED <<mm, tabs, pwd, ref, opn, lost, panic>>

Next ==
    /\ panic = "none"
    /\ \E p \in Proc :
        \/ SysExit(p) \/ Lookup(p) \/ Truncate(p) \/ Load(p) \/ FaultWithoutMm(p) \/ IoEnd(p)
        \/ \E c \in Proc : SysFork(p, c)
        \/ \E i \in Fd : SysClose(p, i)
        \/ \E i, j \in Fd : SysDup(p, i, j)
        \/ \E n \in Dir : SysChdir(p, n)
        \/ \E name \in Node \cup Missing, from \in Node \cup {NoNode} :
              \/ SysExec(p, name, from)
              \/ \E fl \in OpenFlags : SysOpen(p, name, from, fl)
        \/ \E i \in Fd, vop \in {"read", "write", "tryseek", "fstat", "fsync", "getdirentry"} :
              IoStart(p, i, vop)

Spec == Init /\ [][Next]_vars

---------------------------------------------------------------------------
(* Who refers to n: the open entries and the working directories of every  *)
(* table, and the calls in progress.                                       *)
OpenEntries(n) == {x \in tabs \X Fd : fd[x[1]][x[2]].node = n}
InCall(s, n) == {p \in Proc : st[p] = s /\ n = IF s = "lookup" THEN call[p].from ELSE call[p].name}

(* The counts of inode.c are exact: open_count is the number of entries    *)
(* and calls that have the inode open, ref_count adds the mounts, working  *)
(* directories, lookups in progress and the references lost for good.      *)
(* With one too few an inode is reclaimed under a process that uses it.    *)
CountsExact == \A n \in Node :
    /\ opn[n] = Cardinality(OpenEntries(n)) + Cardinality(InCall("trunc", n))
    /\ ref[n] = Mounted(n) + Cardinality(OpenEntries(n)) + lost[n]
                 + Cardinality({p \in tabs : pwd[p] = n})
                 + Cardinality(InCall("trunc", n)) + Cardinality(InCall("lookup", n))

(* The states the assertions of file.c and fs.c allow: an entry is INIT    *)
(* only during its owner's open, an open entry counts itself and the call  *)
(* on it, and a released table leaves no entry behind.                     *)
EntriesLegal == \A p \in Proc, i \in Fd :
    LET f == fd[p][i]
        mine == call[p].fd = i
    IN  /\ (f.status = "INIT") <=> (st[p] \in {"lookup", "trunc"} /\ mine)
        /\ f.status = "OPENED" <=> f.node # NoNode
        /\ f.cnt = One(f.status = "OPENED") + One(st[p] = "io" /\ mine)
        /\ f.status # "NONE" => p \in tabs

(* Descriptor tables and inode counts agree, whatever calls are in         *)
(* progress (file.c, fs.c, inode.c).                                       *)
FilesInv == CountsExact /\ EntriesLegal

(* "only after do_wait function, all resources of the child proces are     *)
(* free": a process that has exited has no table.  user_main starts as a   *)
(* kernel thread; every other process was given an address space by fork.  *)
ExitFreesTable == \A p \in Proc \ {First} : st[p] = "zombie" => p \notin tabs
============================================================================
