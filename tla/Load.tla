-------------------------------- MODULE Load --------------------------------
(***************************************************************************)
(* What load_icode puts where (lab8 kern/process/proc.c): the loop over    *)
(* the program headers and the pages of each segment, then the argument    *)
(* block on the stack, byte by byte with small pages.  The allocation      *)
(* failures of load_icode are in Mm.  A kernel address runs on from one    *)
(* physical page to the next, so a copy that leaves its page goes to the   *)
(* next frame, whoever has it.                                             *)
(***************************************************************************)
EXTENDS Integers, Sequences

CONSTANTS
    PGSIZE,
    UserPages,  \* pages of user memory below the stack
    StackPages, \* pages of the stack
    Frames,     \* frames the stack pages may be in
    WORD,       \* sizeof(uintptr_t); an int is half of it
    ALIGN,      \* the alignment of the stack pointer
    ROOM,       \* the bytes left below the argument block
    Programs,   \* the program headers of a file, ascending: va, filesz, memsz
    Args        \* lengths of the arguments, with the final zero

LoadAssumption ==
    /\ {PGSIZE, UserPages, StackPages, WORD, ALIGN} \subseteq Nat \ {0}
    /\ Frames \subseteq Nat /\ PGSIZE % ALIGN = 0 /\ ALIGN % WORD = 0 /\ WORD % 2 = 0

VARIABLES
    prog, args, \* the file, the arguments
    i, la,      \* the segment and the address at which the loop is
    vmas,       \* areas, as intervals of addresses
    mem,        \* the bytes of user memory below the stack
    frame,      \* the frame of each stack page
    phys,       \* the bytes of the frames
    sp, uargv,  \* the stack pointer, where each argument is
    argv_user,  \* where the vector of the arguments is
    ret         \* "segments", "stack", "strings", "ok" or an error

vars == <<prog, args, i, la, vmas, mem, frame, phys, sp, uargv, argv_user, ret>>

Top == UserPages * PGSIZE
StackTop == (UserPages + StackPages) * PGSIZE
ZeroByte == <<>>
Unmapped == <<"unmapped">>
Other == <<"other">>
RoundDown(a, n) == a - (a % n)
RoundUp(a, n) == RoundDown(a + n - 1, n)
Seg == prog[i]
SegmentDone == IF i = 0 THEN TRUE ELSE la >= Seg.va + Seg.memsz

Init ==
    /\ prog \in Programs /\ args \in Args
    /\ i = 0 /\ la = 0 /\ vmas = {}
    /\ mem = [a \in 0 .. Top - 1 |-> Unmapped]
    /\ frame = <<>> /\ phys = <<>>
    /\ sp = StackTop /\ uargv = <<>> /\ argv_user = 0
    /\ ret = "segments"

(* The next program header: the checks, mm_map.  Headers ascend, so the    *)
(* areas overlap only if find_vma finds the first page of the new one.     *)
NextSegment ==
    LET s == prog[i + 1]
        start == RoundDown(s.va, PGSIZE)
    IN  /\ ret = "segments" /\ SegmentDone /\ i < Len(prog)
        /\ IF s.filesz > s.memsz \/ \E v \in vmas : v[1] <= start /\ start < v[2]
             THEN ret' = "E_INVAL" /\ UNCHANGED <<i, la, vmas>>
             ELSE /\ i' = i + 1 /\ la' = s.va
                  /\ vmas' = vmas \cup {<<start, RoundUp(s.va + s.memsz, PGSIZE)>>}
                  /\ UNCHANGED ret
        /\ UNCHANGED <<prog, args, mem, frame, phys, sp, uargv, argv_user>>

\* Mutant: a whole page is read from the file, whatever its offset in the page.
CopiedPage == PGSIZE

(* The bytes read into the page of la.                                     *)
Copied == IF Seg.va + Seg.filesz - la < PGSIZE - (la % PGSIZE)
            THEN Seg.va + Seg.filesz - la ELSE PGSIZE - (la % PGSIZE)

(* One turn of the page loop: a fresh page of zeros, the part of the file. *)
LoadPage ==
    LET page == RoundDown(la, PGSIZE)
    IN  /\ ret = "segments" /\ ~ SegmentDone
        /\ mem' = [a \in DOMAIN mem |->
                     IF a \notin page .. page + PGSIZE - 1 THEN mem[a]
                     ELSE IF la < Seg.va + Seg.filesz /\ a \in la .. la + Copied - 1
                       THEN <<"file", i, a - Seg.va>>
                     ELSE ZeroByte]
        /\ la' = la + PGSIZE
        /\ UNCHANGED <<prog, args, i, vmas, frame, phys, sp, uargv, argv_user, ret>>

(* The stack: every page of it gets a frame.                               *)
MapStack ==
    /\ ret = "segments" /\ i = Len(prog) /\ SegmentDone
    /\ \E f \in [UserPages .. UserPages + StackPages - 1 -> Frames] :
         /\ \A p, q \in DOMAIN f : f[p] = f[q] => p = q
         /\ frame' = f
         /\ phys' = [x \in 0 .. PGSIZE * (1 + CHOOSE n \in Frames : \A m \in Frames : m <= n) + PGSIZE - 1 |->
                       IF x \div PGSIZE \in {f[p] : p \in DOMAIN f} THEN ZeroByte ELSE Other]
    /\ ret' = "strings"
    /\ UNCHANGED <<prog, args, i, la, vmas, mem, sp, uargv, argv_user>>

---------------------------------------------------------------------------
PA(a) == frame[a \div PGSIZE] * PGSIZE + (a % PGSIZE)

(* memcpy of the n bytes of what[k] to page2kva(page) + PGOFF(a).         *)
Store(ph, a, what, k, n) ==
    [x \in DOMAIN ph |-> IF x \in PA(a) .. PA(a) + n - 1 THEN <<what, k, x - PA(a)>> ELSE ph[x]]

(* The next argument, from the last to the first.                          *)
PushString ==
    LET k == Len(args) - Len(uargv)
        a == sp - args[k]
    IN  /\ ret = "strings" /\ k > 0
        /\ sp' = a
        /\ IF a < Top
             THEN ret' = "E_NO_MEM" /\ UNCHANGED <<phys, uargv>>
             ELSE phys' = Store(phys, a, "arg", k, args[k]) /\ uargv' = <<a>> \o uargv /\ UNCHANGED ret
        /\ UNCHANGED <<prog, args, i, la, vmas, mem, frame, argv_user>>

(* The pointers and the null after them, argc, and the stack pointer.      *)
PushVector ==
    LET argc == Len(args)
        a == RoundDown(RoundDown(sp, WORD), ALIGN) - (argc + 1) * WORD
        ptrs[n \in 0 .. argc + 1] == IF n = 0 THEN phys ELSE Store(ptrs[n - 1], a + (n - 1) * WORD, "argv", n, WORD)
    IN  /\ ret = "strings" /\ Len(uargv) = argc
        /\ argv_user' = a
        /\ phys' = Store(ptrs[argc + 1], a - WORD \div 2, "argc", 0, WORD \div 2)
        /\ sp' = RoundDown(a - WORD \div 2 - ROOM, ALIGN)
        /\ ret' = "ok"
        /\ UNCHANGED <<prog, args, i, la, vmas, mem, frame, uargv>>

Next == NextSegment \/ LoadPage \/ MapStack \/ PushString \/ PushVector

Spec == Init /\ [][Next]_vars

---------------------------------------------------------------------------
FileByte(n, k) == mem[prog[n].va + k] = <<"file", n, k>>
BelowStart(n, k) == (prog[n].va + k) % PGSIZE < prog[n].va % PGSIZE

StackBytes(a, what, n, len) == \A k \in 0 .. len - 1 : phys[PA(a + k)] = <<what, n, k>>
ArgumentRight(n) == StackBytes(uargv[n], "arg", n, args[n])

(* The pages an argument lies in are neighbours in physical memory.        *)
Contiguous(n) == \A k \in 0 .. args[n] - 1 : PA(uargv[n] + k) = PA(uargv[n]) + k

(* What is in memory when load_icode succeeds.  A byte of the file is      *)
(* loaded exactly if its offset in its page is not below that of the start *)
(* of the segment (the loop takes whole pages from the start), and the     *)
(* bytes behind the file are zero with the same exception.  All arguments  *)
(* are right exactly if each lies in one page or in pages that are         *)
(* physical neighbours.  The vector, its null and argc are always right,   *)
(* and nothing is below the stack pointer or misaligned.                   *)
LoadInv ==
    ret = "ok" =>
      /\ \A n \in DOMAIN prog : \A k \in 0 .. prog[n].memsz - 1 :
           /\ k < prog[n].filesz => (FileByte(n, k) <=> ~ BelowStart(n, k))
           /\ k >= prog[n].filesz /\ ~ BelowStart(n, k) => mem[prog[n].va + k] = ZeroByte
      /\ (\A n \in DOMAIN args : ArgumentRight(n)) <=> \A n \in DOMAIN args : Contiguous(n)
      /\ \A n \in 1 .. Len(args) + 1 : StackBytes(argv_user + (n - 1) * WORD, "argv", n, WORD)
      /\ StackBytes(argv_user - WORD \div 2, "argc", 0, WORD \div 2)
      /\ sp + ROOM <= argv_user - WORD \div 2 /\ sp % ALIGN = 0 /\ argv_user % WORD = 0
============================================================================
