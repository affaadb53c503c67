------------------------------ MODULE MCMemory ------------------------------
(***************************************************************************)
(* Address spaces for TLC: the pages of processes with few pages, where    *)
(* every allocation fails somewhere, and with enough of them (Mm), what    *)
(* load_icode puts into them (Load), and lab5's copy on write (Cow).  They *)
(* share nothing, so a behaviour is one of any of them: part says which.   *)
(* Cow and Mm with few pages have their own variables, which rest while    *)
(* another part runs; those of the others are x1, x2, ... in the order of  *)
(* their declarations.                                                     *)
(***************************************************************************)
EXTENDS Cow, Mm

VARIABLES part, x1, x2, x3, x4, x5, x6, x7, x8, x9, x10, x11, x12

FewPrograms == {<<<<1, 2, 2>>>>, <<<<0, 1, 1>>, <<1, 2, 2>>>>}

(* Enough pages: the stack in page tables of its own, as in every program, *)
(* and segments whose last page stays unmapped.                            *)
Many == INSTANCE Mm WITH
    NPage <- 19, NVirt <- 8,
    Programs <- {<<<<0, 2, 1>>, <<7, 8, 8>>>>, <<<<0, 1, 1>>, <<1, 2, 2>>, <<7, 8, 8>>>>},
    Failures <- {"proc", "mm", "vma", "files", "read"},
    state <- x1, kstack <- x2, mm <- x3, free <- x4, panic <- x5

(* One segment anywhere in the first two pages, then data on a page of its *)
(* own or on the last page of the first segment.                           *)
S(va, filesz, memsz) == [va |-> va, filesz |-> filesz, memsz |-> memsz]
Header == {S(va, f, m) : va \in {0, 1, 3}, f \in {0, 1, 4, 7, 9}, m \in {1, 4, 8, 9, 12}}
Files == {<<s>> : s \in Header}
         \cup {<<s, d>> : s \in {t \in Header : t.filesz \in {4, 9}}, d \in {S(16, 2, 5), S(17, 7, 7), S(12, 3, 4)}}
Ld == INSTANCE Load WITH
    PGSIZE <- 8, UserPages <- 3, StackPages <- 4, Frames <- 1 .. 5, WORD <- 2, ALIGN <- 4, ROOM <- 4,
    Programs <- Files, Args <- UNION {[1 .. n -> {2, 5}] : n \in 1 .. 2},
    prog <- x1, args <- x2, i <- x3, la <- x4, vmas <- x5, mem <- x6, frame <- x7, phys <- x8,
    sp <- x9, uargv <- x10, argv_user <- x11, ret <- x12

ASSUME MmAssumption /\ Many!MmAssumption /\ Ld!LoadAssumption /\ CowAssumption

rest6 == <<x6, x7, x8, x9, x10, x11, x12>>
rest == <<x1, x2, x3, x4, x5, rest6>>
all == <<part, rest, vars, mm_vars>>
Idle6 == x6 = 0 /\ x7 = 0 /\ x8 = 0 /\ x9 = 0 /\ x10 = 0 /\ x11 = 0 /\ x12 = 0
Idle == x1 = 0 /\ x2 = 0 /\ x3 = 0 /\ x4 = 0 /\ x5 = 0 /\ Idle6

MCInit ==
    /\ Init /\ MmInit
    /\ \/ part = "cow" /\ Idle
       \/ /\ page[Main] = [v \in V |-> v] /\ data = [g \in Page |-> Zero]
          /\ \/ part = "few" /\ Idle
             \/ part = "many" /\ Many!MmInit /\ Idle6
             \/ part = "load" /\ Ld!Init

MCNext ==
    \/ part = "few" /\ MmNext /\ UNCHANGED <<part, rest, vars>>
    \/ part = "many" /\ Many!MmNext /\ UNCHANGED <<part, rest6, vars, mm_vars>>
    \/ part = "load" /\ Ld!Next /\ UNCHANGED <<part, vars, mm_vars>>
    \/ part = "cow" /\ Next /\ UNCHANGED <<part, rest, mm_vars>>

MCSpec == MCInit /\ [][MCNext]_all

(* With enough memory, every failure path of do_fork and load_icode gives  *)
(* back all it took, but for a failing search of the symbol table, and     *)
(* copy_range gets every page it asserts (pmm.c:463).                      *)
NoPageLost == part = "many" => Many!MmInv /\ Many!NothingLost /\ ~ x5

(* load_icode (proc.c): which bytes of its file, which zeros and which     *)
(* arguments a program that starts finds in its memory, exactly, and the   *)
(* layout of the argument block that user programs read.                   *)
LoadInv == part = "load" => Ld!LoadInv
============================================================================
