------------------------------- MODULE Stride -------------------------------
(***************************************************************************)
(* The stride scheduler that lab6 runs (lab6 kern/schedule/                *)
(* default_sched_stride.c, sched.c) with its skew heap (libs/skew_heap.h). *)
(* A stride is an unsigned counter of W bits; the heap compares two of     *)
(* them by the sign of their difference.  Processes are created, sleep,    *)
(* are woken and exit at any time, and a new one starts with the stride 0, *)
(* wherever the others are.  A zombie is none: it never runs again, and    *)
(* the next process in its slot is set up by alloc_proc.                   *)
(***************************************************************************)
EXTENDS Integers, FiniteSets

CONSTANTS
    Proc,           \* process slots
    NULL,           \* no node; as the running process, idleproc
    W,              \* width of a stride
    BIG_STRIDE,
    Priorities      \* what lab6_set_priority is called with

Half == 2^(W - 1)

StrideAssumption ==
    /\ NULL \notin Proc /\ {W, BIG_STRIDE} \subseteq Nat \ {0} /\ Priorities \subseteq Nat
    /\ BIG_STRIDE < Half

ASSUME StrideAssumption

VARIABLES
    heap,           \* the run pool: root, and left, right, parent of each node
    lab6_stride, lab6_priority,
    state,          \* "none", "RUNNABLE" or "SLEEPING"
    current,
    apart           \* history: runnable processes have been half the range apart

vars == <<heap, lab6_stride, lab6_priority, state, current, apart>>

Runnable == {p \in Proc : state[p] = "RUNNABLE"}
Queued == Runnable \ {current}
Unlinked == [p \in Proc |-> NULL]

(* What alloc_proc gives a process, in every slot.                         *)
Init ==
    /\ heap = [root |-> NULL, left |-> Unlinked, right |-> Unlinked, parent |-> Unlinked]
    /\ lab6_stride = [p \in Proc |-> 0] /\ lab6_priority = [p \in Proc |-> 1]
    /\ state = [p \in Proc |-> "none"] /\ current = NULL
    /\ apart = FALSE

---------------------------------------------------------------------------
\* Mutant: strides are compared as unsigned numbers.
LessUnsigned(s, p, q) == s[p] < s[q]

(* proc_stride_comp_f = -1: the difference, as a signed number, is < 0.    *)
Less(s, p, q) == (s[p] - s[q]) % 2^W >= Half

(* The end of skew_heap_merge: the merged rest becomes the left child of   *)
(* top, whose left child becomes the right one.                            *)
Under(m, top) ==
    [m EXCEPT !.root = top, !.left[top] = m.root, !.right[top] = m.left[top], !.parent[m.root] = top]

RECURSIVE Merge(_, _, _, _)
(* skew_heap_merge of the heaps with roots a and b.                        *)
Merge(h, a, b, s) ==
    IF a = NULL THEN [h EXCEPT !.root = b]
    ELSE IF b = NULL THEN [h EXCEPT !.root = a]
    ELSE IF Less(s, a, b) THEN Under(Merge(h, h.right[a], b, s), a) ELSE Under(Merge(h, a, h.right[b], s), b)

(* skew_heap_insert.                                                       *)
Insert(h, p, s) ==
    Merge([h EXCEPT !.left[p] = NULL, !.right[p] = NULL, !.parent[p] = NULL], h.root, p, s)

(* skew_heap_remove of the root, the only node that is ever removed.  The  *)
(* links it leaves in the node are never read (skew_heap_init at the next  *)
(* insertion): here they are gone.                                         *)
RemoveRoot(h, s) ==
    LET m == Merge([h EXCEPT !.left[h.root] = NULL, !.right[h.root] = NULL], h.left[h.root], h.right[h.root], s)
    IN  IF m.root = NULL THEN m ELSE [m EXCEPT !.parent[m.root] = NULL]

\* Mutant: the stride of the process that is picked stays.
PassNone(p) == 0
\* Mutant: a high priority makes the stride longer.
PassTimes(p) == BIG_STRIDE * lab6_priority[p]

(* What stride_pick_next adds.                                             *)
Pass(p) == BIG_STRIDE \div (IF lab6_priority[p] = 0 THEN 1 ELSE lab6_priority[p])

(* The strides of the runnable processes lie on less than half the circle. *)
Close == \E b \in 0 .. 2^W - 1 : \A p \in Runnable : (lab6_stride[p] - b) % 2^W < Half
History == apart' = (apart \/ ~ Close')

(* schedule, with h the run pool after the running process was put back    *)
(* or not: stride_pick_next, stride_dequeue.                               *)
Switch(h, strides) ==
    /\ current' = h.root
    /\ IF h.root = NULL
         THEN heap' = h /\ lab6_stride' = strides
         ELSE /\ lab6_stride' = [strides EXCEPT ![h.root] = (@ + Pass(h.root)) % 2^W]
              /\ heap' = RemoveRoot(h, lab6_stride')

(* The running process stays runnable (its slice is over, or it yields);   *)
(* idleproc is never in the run pool.                                      *)
Preempt ==
    /\ \E h \in {IF current = NULL THEN heap ELSE Insert(heap, current, lab6_stride)} : Switch(h, lab6_stride)
    /\ UNCHANGED <<lab6_priority, state>>
    /\ History

Sleep ==
    /\ current # NULL
    /\ state' = [state EXCEPT ![current] = "SLEEPING"]
    /\ Switch(heap, lab6_stride)
    /\ UNCHANGED lab6_priority
    /\ History

(* The slot is as alloc_proc will set it for the next process.             *)
Exit ==
    /\ current # NULL
    /\ state' = [state EXCEPT ![current] = "none"]
    /\ lab6_priority' = [lab6_priority EXCEPT ![current] = 1]
    /\ Switch(heap, [lab6_stride EXCEPT ![current] = 0])
    /\ History

(* wakeup_proc: stride_enqueue.                                            *)
wakeup_proc(p) ==
    /\ state' = [state EXCEPT ![p] = "RUNNABLE"]
    /\ heap' = Insert(heap, p, lab6_stride)
    /\ UNCHANGED <<lab6_stride, lab6_priority, current>>
    /\ History

Wakeup(p) == state[p] = "SLEEPING" /\ wakeup_proc(p)

(* do_fork by the running process; idleproc creates the first one.         *)
Fork(p) ==
    /\ current # NULL \/ \A q \in Proc : state[q] = "none"
    /\ state[p] = "none"
    /\ wakeup_proc(p)

SetPriority(n) ==
    /\ current # NULL
    /\ lab6_priority' = [lab6_priority EXCEPT ![current] = IF n = 0 THEN 1 ELSE n]
    /\ UNCHANGED <<heap, lab6_stride, state, current, apart>>

Next ==
    \/ Preempt
    \/ Sleep
    \/ Exit
    \/ \E p \in Proc : Wakeup(p) \/ Fork(p)
    \/ \E n \in Priorities : SetPriority(n)

(* The clock preempts a running process, and idleproc calls schedule.      *)
Spec == Init /\ [][Next]_vars /\ WF_vars(Preempt)

---------------------------------------------------------------------------
(* The run pool holds the runnable processes, each once: a child knows its *)
(* parent, a parent has its child, the root has none.                      *)
PoolExact ==
    LET child(p) == {heap.left[p], heap.right[p]} \ {NULL}
    IN  /\ (heap.root = NULL) = (Queued = {})
        /\ heap.root # NULL => heap.root \in Queued /\ heap.parent[heap.root] = NULL
        /\ \A p \in Queued :
             /\ p # heap.root => heap.parent[p] \in Queued /\ p \in child(heap.parent[p])
             /\ \A c \in child(p) : c \in Queued /\ heap.parent[c] = p
             /\ Cardinality(child(p)) = 1 => heap.left[p] # NULL

(* As long as the runnable strides have stayed on less than half the       *)
(* circle, stride_pick_next returns the first of them, though the counters *)
(* wrap around.                                                            *)
RootLeast ==
    ~ apart /\ heap.root # NULL =>
        \A q \in Queued : (lab6_stride[q] - lab6_stride[heap.root]) % 2^W < Half

(* default_sched_stride.c of lab6: the skew heap holds exactly the         *)
(* processes that wait to run, and while the comparison of strides is an   *)
(* order its root is the least.                                            *)
StrideInv == PoolExact /\ RootLeast

Joins(from) == \E p \in Proc : state[p] \in from /\ state'[p] = "RUNNABLE"

(* proc_stride_comp_f: running, sleeping, exiting and any change of        *)
(* priority keep the strides on less than half the circle; only a process  *)
(* that joins the others, with the stride 0 or an old one, can break it.   *)
OnlyJoinersApart == [][~ apart /\ apart' => Joins({"none", "SLEEPING"})]_vars

(* stride_pick_next: with no priority above BIG_STRIDE (its pass is 0), a  *)
(* process in the run pool runs in the end: when no other one joins any    *)
(* more, whatever the strides have become by then; and with sleepers that  *)
(* come and go for ever, if the strides never were half the range apart.   *)
(* The processes are interchangeable: one stands for all.                  *)
PooledRuns ==
    LET p == CHOOSE q \in Proc : TRUE
        settled == <>[][~ Joins({"none", "SLEEPING"})]_vars
        sleepers == <>[][~ Joins({"none"})]_vars /\ [](~ apart)
    IN  /\ <>[](\A q \in Proc : lab6_priority[q] <= BIG_STRIDE)
        /\ settled \/ sleepers
        => (p \in Queued ~> current = p)
============================================================================
