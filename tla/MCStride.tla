------------------------------ MODULE MCStride ------------------------------
(***************************************************************************)
(* Stride with a history variable that tells the processes whose counters  *)
(* have not overflowed.                                                    *)
(***************************************************************************)
EXTENDS Stride

VARIABLE wrapped    \* history: a stride has overflowed

varsH == <<vars, wrapped>>

InitH == Init /\ wrapped = FALSE

Overflows == \E p \in Proc : {state[p], state'[p]} = {"RUNNABLE"} /\ lab6_stride'[p] < lab6_stride[p]

NextH == Next /\ wrapped' = (wrapped \/ Overflows)

SpecH == InitH /\ [][NextH]_varsH

(* stride_pick_next: "pick the element from the ``run-queue'', with the    *)
(* minimum value of stride".  Asked only while no counter has overflowed,  *)
(* so that the least stride is the least number.                           *)
PicksMinimum ==
    ~ wrapped /\ heap.root # NULL => \A q \in Queued : lab6_stride[heap.root] <= lab6_stride[q]
============================================================================
