-------------------------------- MODULE TimerSpec --------------------------------
(***************************************************************************)
(* What the timers of sched.c promise: a countdown for each sleeper, that  *)
(* every clock tick lowers by one and that fires at the tick at which it   *)
(* reaches zero.  Module Proc uses the timers in this form.                *)
(***************************************************************************)
EXTENDS Integers

CONSTANTS Timers, MaxSleep

VARIABLES timer,   \* ticks until the timer fires, -1 when it is not set
          irq      \* the clock interrupt is being served

vars == <<timer, irq>>

Init == timer = [t \in Timers |-> -1] /\ irq = FALSE

Start(t, n) == ~irq /\ timer[t] = -1 /\ timer' = [timer EXCEPT ![t] = n] /\ UNCHANGED irq

Cancel(t) == ~irq /\ timer[t] # -1 /\ timer' = [timer EXCEPT ![t] = -1] /\ UNCHANGED irq

TickBegin ==
    /\ ~irq
    /\ irq' = TRUE
    /\ timer' = [t \in Timers |-> IF timer[t] > 0 THEN timer[t] - 1 ELSE timer[t]]

Fire(t) == irq /\ timer[t] = 0 /\ timer' = [timer EXCEPT ![t] = -1] /\ UNCHANGED irq

TickEnd == irq /\ (\A t \in Timers : timer[t] # 0) /\ irq' = FALSE /\ UNCHANGED timer

Next ==
    \/ \E t \in Timers : (\E n \in 1..MaxSleep : Start(t, n)) \/ Cancel(t) \/ Fire(t)
    \/ TickBegin \/ TickEnd

Spec == Init /\ [][Next]_vars
=============================================================================
