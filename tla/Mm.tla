--------------------------------- MODULE Mm ---------------------------------
(***************************************************************************)
(* The pages of processes (lab8 kern/process/proc.c, kern/mm/pmm.c,        *)
(* vmm.c): kernel stacks, page directories, the two levels of page tables  *)
(* and the mapped pages, through fork, execve, exit and wait, with every   *)
(* place where one of them can fail.  No address space is shared (no       *)
(* caller passes CLONE_VM for a process that has one) and pages are copied *)
(* at fork.  The kernel is not preempted, so a call is one step.  An       *)
(* assertion that fails stops the kernel.                                  *)
(***************************************************************************)
EXTENDS Integers, Sequences, FiniteSets, FiniteSetsExt

CONSTANTS
    Task,       \* process slots
    First,      \* the first one, a kernel thread
    NPage,      \* number of physical pages
    NVirt,      \* number of virtual pages of a process, the last one its stack
    PerPt,      \* pages of a page table
    PerPd,      \* page tables of a level 0 directory
    KSTACKPAGE,
    Programs,   \* programs: segments <<first, end, stop>> of a file and the stack;
                \* the area is first .. end - 1, the page loop of load_icode ends
                \* before stop (one mm_map refuses fails as its vma_create does)
    Failures    \* what else may fail besides the allocation of pages

(* The loop starts at p_va and advances by whole pages: a segment that does *)
(* not start at a page boundary may end in a page the loop does not reach. *)
Segment == {a \in (0 .. NVirt) \X (0 .. NVirt) \X (0 .. NVirt) :
              a[1] < a[3] /\ (a[3] = a[2] \/ a[3] + 1 = a[2])}

MmAssumption ==
    /\ {NPage, NVirt, PerPt, PerPd, KSTACKPAGE} \subseteq Nat \ {0} /\ First \in Task
    /\ KSTACKPAGE <= NPage
    /\ \A segs \in Programs : segs \in Seq(Segment)
    /\ Failures \subseteq {"proc", "mm", "vma", "files", "symbols", "read"}

VARIABLES
    state,      \* "none", "live" or "zombie"
    kstack,     \* the pages of each kernel stack
    mm,         \* the address space of each process; pgdir is 0 if it has none
    free,       \* the pages with the page manager
    panic       \* whether an assertion failed

mm_vars == <<state, kstack, mm, free, panic>>

Frames == 1 .. NPage
Virt == 0 .. NVirt - 1
Pt(v) == v \div PerPt
Pd(t) == t \div PerPd
Pts == {Pt(v) : v \in Virt}
Pds == {Pd(t) : t \in Pts}
NoMm == [vmas |-> <<>>, pgdir |-> 0, pd |-> [d \in Pds |-> 0], pt |-> [t \in Pts |-> 0], pte |-> [v \in Virt |-> 0]]
Pages(area) == area[1] .. area[2] - 1

MmInit ==
    /\ state = [p \in Task |-> IF p = First THEN "live" ELSE "none"]
    /\ kstack = [p \in Task |-> IF p = First THEN 1 .. KSTACKPAGE ELSE {}]
    /\ mm = [p \in Task |-> NoMm]
    /\ free = Frames \ (1 .. KSTACKPAGE)
    /\ panic = FALSE

---------------------------------------------------------------------------
(* A call works on s: the address space m, the free pages, how it went.    *)
Lowest(s) == Min(s.free)
Taken(s) == s.free \ {Lowest(s)}
Fail(s, why) == [s EXCEPT !.ret = why]

(* get_pte with create: the level 0 directory d, then the page table t.    *)
GetPd(s, d) ==
    IF s.m.pd[d] # 0 THEN s
    ELSE IF s.free = {} THEN Fail(s, "E_NO_MEM")
    ELSE [s EXCEPT !.m.pd[d] = Lowest(s), !.free = Taken(s)]
GetPt(s, t) ==
    IF s.ret # "ok" \/ s.m.pt[t] # 0 THEN s
    ELSE IF s.free = {} THEN Fail(s, "E_NO_MEM")
    ELSE [s EXCEPT !.m.pt[t] = Lowest(s), !.free = Taken(s)]
GetPte(s, v) == GetPt(GetPd(s, Pd(Pt(v))), Pt(v))

(* pgdir_alloc_page: the page first, given back if it cannot be mapped.    *)
PgdirAllocPage(s, v) ==
    LET s1 == GetPte([s EXCEPT !.free = Taken(s)], v)
    IN  IF s.ret # "ok" THEN s
        ELSE IF s.free = {} THEN Fail(s, "E_NO_MEM")
        ELSE IF s1.ret # "ok" THEN [s1 EXCEPT !.free = @ \cup {Lowest(s)}]
        ELSE [s1 EXCEPT !.m.pte[v] = Lowest(s)]

\* Mutant: the child maps its parent's page.
CopyPageShares(from, s, v) ==
    LET s1 == GetPte(s, v)
    IN  IF s.ret # "ok" \/ from.pte[v] = 0 THEN s
        ELSE IF s1.ret # "ok" THEN s1
        ELSE [s1 EXCEPT !.m.pte[v] = from.pte[v]]

(* copy_range, one page: assert(npage != NULL).                            *)
CopyPage(from, s, v) ==
    LET s1 == GetPte(s, v)
    IN  IF s.ret # "ok" \/ from.pte[v] = 0 THEN s
        ELSE IF s1.ret # "ok" THEN s1
        ELSE IF s1.free = {} THEN Fail(s1, "assert")
        ELSE [s1 EXCEPT !.m.pte[v] = Lowest(s1), !.free = Taken(s1)]

CopyPages(from, s, i, j) ==
    LET to[k \in i .. j] == IF k = i THEN s ELSE CopyPage(from, to[k - 1], k - 1)
    IN  to[j]

(* dup_mmap, from the last area to the first; the i-th vma_create may fail.*)
DupArea(from, s, area, bad) ==
    IF s.ret # "ok" THEN s
    ELSE IF Len(s.m.vmas) = bad THEN Fail(s, "E_NO_MEM")
    ELSE CopyPages(from, [s EXCEPT !.m.vmas = <<area>> \o @], area[1], area[2])
DupMmap(s, from, bad) ==
    LET n == Len(from.vmas)
        to[k \in 0 .. n] == IF k = 0 THEN s ELSE DupArea(from, to[k - 1], from.vmas[n + 1 - k], bad)
    IN  to[n]

---------------------------------------------------------------------------
(* unmap_range of every area.                                              *)
UnmapAll(s) ==
    LET mapped == UNION {Pages(s.m.vmas[i]) : i \in DOMAIN s.m.vmas}
    IN  [s EXCEPT !.free = @ \cup {s.m.pte[v] : v \in {u \in mapped : s.m.pte[u] # 0}},
                  !.m.pte = [v \in Virt |-> IF v \in mapped THEN 0 ELSE s.m.pte[v]]]

(* exit_range: the page tables of the range that are empty are freed; a    *)
(* level 0 directory is freed if every entry the loop looked at was valid, *)
(* whatever its other entries are.                                         *)
ExitRange(s, area) ==
    LET ts == {Pt(v) : v \in Pages(area)}
        ds == {Pd(t) : t \in {u \in ts : s.m.pd[Pd(u)] # 0}}
        pts == {t \in ts : Pd(t) \in ds /\ s.m.pt[t] # 0 /\ \A v \in Virt : Pt(v) = t => s.m.pte[v] = 0}
        pds == {d \in ds : \A t \in ts : Pd(t) = d => s.m.pt[t] # 0}
    IN  [s EXCEPT !.free = @ \cup {s.m.pt[t] : t \in pts} \cup {s.m.pd[d] : d \in pds},
                  !.m.pt = [t \in Pts |-> IF t \in pts \/ Pd(t) \in pds THEN 0 ELSE s.m.pt[t]],
                  !.m.pd = [d \in Pds |-> IF d \in pds THEN 0 ELSE s.m.pd[d]]]

(* exit_mmap, put_pgdir and mm_destroy.                                    *)
Destroy(s) ==
    LET to[k \in 0 .. Len(s.m.vmas)] == IF k = 0 THEN UnmapAll(s) ELSE ExitRange(to[k - 1], s.m.vmas[k])
        s1 == to[Len(s.m.vmas)]
    IN  IF s.m.pgdir = 0 THEN s
        ELSE [s1 EXCEPT !.m = NoMm, !.free = @ \cup {s.m.pgdir}]

(* setup_pgdir of a new address space.                                     *)
NewMm(f) ==
    IF f = {} THEN [m |-> NoMm, free |-> f, ret |-> "E_NO_MEM"]
    ELSE [m |-> [NoMm EXCEPT !.pgdir = Min(f)], free |-> f \ {Min(f)}, ret |-> "ok"]

(* copy_mm of a process that has an address space.                         *)
CopyMm(f, from, bad) ==
    LET s == NewMm(f)
        s1 == DupMmap(s, from, bad)
    IN  IF s.ret # "ok" THEN s
        ELSE IF s1.ret \in {"ok", "assert"} THEN s1
        ELSE [Destroy(s1) EXCEPT !.ret = s1.ret]

(* A segment of a program: its area, then the pages of the loop.           *)
AllocPages(s, i, j) ==
    LET to[k \in i .. j] == IF k = i THEN s ELSE PgdirAllocPage(to[k - 1], k - 1)
    IN  to[j]
LoadSegment(s, segs, i, bad, at) ==
    LET s1 == AllocPages([s EXCEPT !.m.vmas = Append(@, <<segs[i][1], segs[i][2]>>)], segs[i][1], segs[i][3])
    IN  IF s.ret # "ok" THEN s
        ELSE IF bad = "vma" /\ i = at THEN Fail(s, "E_NO_MEM")
        ELSE IF s1.ret = "ok" /\ bad = "read" /\ i = at THEN Fail(s1, "read") ELSE s1

(* load_icode after the file header was read: symbols, segments, stack.    *)
LoadIcode(f, segs, bad, at) ==
    LET s == NewMm(f)
        to[k \in 0 .. Len(segs)] == IF k = 0 THEN s ELSE LoadSegment(to[k - 1], segs, k, bad, at)
        s1 == to[Len(segs)]
    IN  IF bad = "mm" THEN [m |-> NoMm, free |-> f, ret |-> "E_NO_MEM"]
        ELSE IF s.ret # "ok" THEN s
        ELSE IF bad = "symbols" THEN [s EXCEPT !.m = NoMm, !.ret = "E_NO_MEM"]   \* bad_mm: pgdir stays
        ELSE IF s1.ret = "ok" THEN s1
        ELSE [Destroy(s1) EXCEPT !.ret = s1.ret]

---------------------------------------------------------------------------
\* Mutant: a failing fork gives back the kernel stack and not the address space.
ForkUndoStackOnly(s, ks) == [Destroy(s) EXCEPT !.free = s.free \cup ks]

(* bad_fork_cleanup_fs.                                                    *)
ForkUndo(s, ks) == [Destroy(s) EXCEPT !.free = @ \cup ks]

(* do_fork of c by p.  alloc_pages(KSTACKPAGE) takes a run of pages.       *)
DoFork(p, c, bad, at) ==
    LET runs == {b \in free : b .. b + KSTACKPAGE - 1 \subseteq free}
        ks == Min(runs) .. Min(runs) + KSTACKPAGE - 1
        f == free \ ks
        s == IF mm[p].pgdir = 0 THEN [m |-> NoMm, free |-> f, ret |-> "ok"]
             ELSE IF bad = "mm" THEN [m |-> NoMm, free |-> f, ret |-> "E_NO_MEM"]
             ELSE CopyMm(f, mm[p], IF bad = "vma" THEN at ELSE Len(mm[p].vmas))
        ok == runs # {} /\ bad # "proc" /\ s.ret = "ok" /\ bad # "files"
    IN  /\ state[p] = "live" /\ state[c] = "none"
        /\ panic' = (bad # "proc" /\ runs # {} /\ s.ret = "assert")
        /\ state' = [state EXCEPT ![c] = IF ok THEN "live" ELSE "none"]
        /\ kstack' = [kstack EXCEPT ![c] = IF ok THEN ks ELSE {}]
        /\ mm' = [mm EXCEPT ![c] = IF ok THEN s.m ELSE NoMm]
        /\ free' = IF bad = "proc" \/ runs = {} \/ panic' THEN free
                   ELSE IF ok THEN s.free ELSE ForkUndo(s, ks).free

(* do_execve from the point where the old address space is given up; a     *)
(* failure ends in do_exit.                                                *)
DoExecve(p, segs, bad, at) ==
    LET old == Destroy([m |-> mm[p], free |-> free, ret |-> "ok"])
        s == LoadIcode(old.free, segs, bad, at)
    IN  /\ state[p] = "live"
        /\ mm' = [mm EXCEPT ![p] = IF s.ret = "ok" THEN s.m ELSE NoMm]
        /\ free' = s.free
        /\ state' = [state EXCEPT ![p] = IF s.ret = "ok" THEN "live" ELSE "zombie"]
        /\ UNCHANGED <<kstack, panic>>

(* do_exit.                                                                *)
DoExit(p) ==
    /\ state[p] = "live" /\ p # First
    /\ state' = [state EXCEPT ![p] = "zombie"]
    /\ mm' = [mm EXCEPT ![p] = NoMm]
    /\ free' = Destroy([m |-> mm[p], free |-> free, ret |-> "ok"]).free
    /\ UNCHANGED <<kstack, panic>>

(* do_wait, when it has found the zombie: put_kstack.                      *)
DoWait(c) ==
    /\ state[c] = "zombie"
    /\ state' = [state EXCEPT ![c] = "none"]
    /\ free' = free \cup kstack[c]
    /\ kstack' = [kstack EXCEPT ![c] = {}]
    /\ UNCHANGED <<mm, panic>>

MmNext ==
    /\ ~ panic
    /\ \E p \in Task :
        \/ \E c \in Task, bad \in {"none"} \cup (Failures \cap {"proc", "mm", "vma", "files"}) :
             \E at \in (IF bad = "vma" THEN 0 .. Len(mm[p].vmas) - 1 ELSE {0}) : DoFork(p, c, bad, at)
        \/ /\ p # First
           /\ \E segs \in Programs, bad \in {"none"} \cup (Failures \cap {"mm", "vma", "symbols", "read"}) :
                \E at \in (IF bad \in {"vma", "read"} THEN DOMAIN segs ELSE {1}) : DoExecve(p, segs, bad, at)
        \/ DoExit(p)
        \/ DoWait(p)

MmSpec == MmInit /\ [][MmNext]_mm_vars

---------------------------------------------------------------------------
(* The places that use a page: <<process, kind, index>>.                   *)
Uses == UNION {
    {<<p, "kstack", k, k>> : k \in kstack[p]}
    \cup {<<p, "pgdir", 0, x>> : x \in {mm[p].pgdir} \ {0}}
    \cup {<<p, "pd", d, mm[p].pd[d]>> : d \in {e \in Pds : mm[p].pd[e] # 0}}
    \cup {<<p, "pt", t, mm[p].pt[t]>> : t \in {u \in Pts : mm[p].pt[u] # 0}}
    \cup {<<p, "page", v, mm[p].pte[v]>> : v \in {u \in Virt : mm[p].pte[u] # 0}} : p \in Task}
Used == {u[4] : u \in Uses}

Required(v, area) == v = area[1] \/ v + 1 < area[2]

(* No page has two uses or is used and free at once, whatever call failed  *)
(* half-way.  A live process has its stack; its pages lie in its areas, of *)
(* which at most the last page is missing, and only if it is not the first *)
(* one; and each is mapped through tables of its own.                      *)
MmInv ==
    /\ Cardinality(Used) = Cardinality(Uses)
    /\ Used \cap free = {}
    /\ \A p \in Task : (state[p] = "none") = (kstack[p] = {})
    /\ \A p \in Task : mm[p].pgdir # 0 =>
        /\ state[p] = "live"
        /\ \A v \in Virt : mm[p].pte[v] # 0 => \E i \in DOMAIN mm[p].vmas : v \in Pages(mm[p].vmas[i])
        /\ \A i \in DOMAIN mm[p].vmas : \A v \in Pages(mm[p].vmas[i]) :
             Required(v, mm[p].vmas[i]) => mm[p].pte[v] # 0
        /\ \A v \in Virt : mm[p].pte[v] # 0 => mm[p].pt[Pt(v)] # 0 /\ mm[p].pd[Pd(Pt(v))] # 0

(* A page that nobody uses is free.                                        *)
NothingLost == free \cup Used = Frames
============================================================================
