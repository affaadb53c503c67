--------------------------------- MODULE PidSpec ---------------------------------
(***************************************************************************)
(* What get_pid promises to do_fork: a process number that no process has. *)
(***************************************************************************)
EXTENDS Integers

CONSTANT MAX_PID

VARIABLES live,     \* the pids of the processes in proc_list
          nr        \* how many processes there are

Init == live = {} /\ nr = 0

\* do_fork: some unused pid is taken.
Alloc == \E pid \in (1..MAX_PID - 1) \ live : live' = live \cup {pid} /\ nr' = nr + 1

\* do_wait: the pid of a reaped process is free again.
Free == \E pid \in live : live' = live \ {pid} /\ nr' = nr - 1

Next == Alloc \/ Free

Spec == Init /\ [][Next]_<<live, nr>>
=============================================================================
