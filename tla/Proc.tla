---------------------------------- MODULE Proc ----------------------------------
(***************************************************************************)
(* The life of a process in the lab8 kernel: fork, exit, wait, kill, sleep *)
(* and yield (kern/process/proc.c), the scheduler with its round-robin     *)
(* class and its timers (kern/schedule/sched.c, default_sched.c) and the   *)
(* trap that enters and leaves the kernel (kern/trap/trap.c).              *)
(*                                                                         *)
(* One processor.  Only `current' executes, and control changes hands only *)
(* in schedule().  A trap from user mode runs with interrupts off up to    *)
(* its sret; interrupts are on in user mode, in cpu_idle and in the kernel *)
(* threads init_main and user_main.  pc[p] is the place where p executes,  *)
(* or where it will resume when it is next scheduled.                      *)
(*                                                                         *)
(* A process is named by its proc_struct; its pid is that name (module     *)
(* GetPid is about the numbers).  The timer list appears as one countdown  *)
(* per process (module Timer is about the delta-encoded list).             *)
(***************************************************************************)
EXTENDS Integers, Sequences, FiniteSets

CONSTANTS UserProcs,       \* the proc_structs kmalloc can hand to do_fork
          idleproc,        \* the boot thread, pid 0
          initproc,        \* the thread that runs init_main, pid 1
          AnyChild,        \* the argument 0 of do_wait
          Killable,        \* the processes user programs call kill on
          MAX_PROCESS,     \* bound on nr_process
          MAX_TIME_SLICE,  \* slice that RR_enqueue refills
          MaxSleep         \* bound on the argument of sleep

ASSUME ProcAssumption ==
    /\ idleproc \notin UserProcs /\ initproc \notin UserProcs
    /\ idleproc # initproc
    /\ AnyChild \notin UserProcs \cup {idleproc, initproc}
    /\ IsFiniteSet(UserProcs)
    /\ Killable \subseteq UserProcs \cup {initproc}
    /\ MAX_PROCESS \in Nat
    /\ MAX_TIME_SLICE \in Nat \ {0}
    /\ MaxSleep \in Nat

VARIABLES state,         \* proc->state; UNINIT also stands for a free proc_struct
          wait_state,    \* proc->wait_state
          exiting,       \* proc->flags & PF_EXITING
          parent,        \* proc->parent
          waitpid,       \* the pid argument of the do_wait in progress
          need_resched,  \* proc->need_resched
          time_slice,    \* proc->time_slice
          timer,         \* expiry of the timer do_sleep keeps on p's kernel stack
          rq,            \* rq->run_list, head first
          current,       \* the running process
          nr_process,    \* number of processes in proc_list, plus idleproc
          irq,           \* inside run_timer_list, between its entry and its end
          pc             \* control point of every process

vars == <<state, wait_state, exiting, parent, waitpid, need_resched, time_slice,
          timer, rq, current, nr_process, irq, pc>>

Procs == UserProcs \cup {idleproc, initproc}

States == {"UNINIT", "SLEEPING", "RUNNABLE", "ZOMBIE"}

WaitStates == {"none", "WT_CHILD", "WT_TIMER"}

\* A timer that is not linked in timer_list.
Unlinked == -1

PCs == {"free",        \* no process here
        "user",        \* user mode
        "trapret",     \* end of trap(), on the way back to user mode
        "trap_sched",  \* the schedule() at the end of trap()
        "wait",        \* label repeat of do_wait
        "wait_sched",  \* the schedule() of do_wait
        "wait_woken",  \* after that schedule()
        "sleep_sched", \* the schedule() of do_sleep
        "sleep_woken", \* after that schedule()
        "exit",        \* entry of do_exit
        "exit_notify", \* do_exit looks at the parent
        "exit_orphans",\* do_exit hands its children to initproc
        "exit_sched",  \* the schedule() of do_exit
        "dead",        \* never reached: do_exit will not return
        "execve",      \* user_main, before it enters user mode
        "idle",        \* the loop of cpu_idle
        "init_fork",   \* init_main creates user_main
        "init_sched",  \* the schedule() in the loop of init_main
        "init_done",   \* init_main after its loop
        "panic"}

Live == {p \in Procs : state[p] # "UNINIT"}

TypeOK ==
    /\ state \in [Procs -> States]
    /\ wait_state \in [Procs -> WaitStates]
    /\ exiting \in [Procs -> BOOLEAN]
    /\ parent \in [Procs -> Procs]
    /\ waitpid \in [Procs -> Procs \cup {AnyChild}]
    /\ need_resched \in [Procs -> BOOLEAN]
    /\ time_slice \in [Procs -> 0..MAX_TIME_SLICE]
    /\ timer \in [Procs -> -1..MaxSleep]
    /\ rq \in Seq(Procs)
    /\ current \in Procs
    /\ nr_process \in Nat
    /\ irq \in BOOLEAN
    /\ pc \in [Procs -> PCs]

-------------------------------------------------------------------------------
(* sched.c and default_sched.c                                             *)

\* RR_enqueue keeps what is left of a slice and refills an empty one.
Refill(slice) == IF slice = 0 \/ slice > MAX_TIME_SLICE THEN MAX_TIME_SLICE ELSE slice

enqueue(p) ==
    IF p = idleproc
    THEN UNCHANGED <<rq, time_slice>>
    ELSE /\ rq' = Append(rq, p)
         /\ time_slice' = [time_slice EXCEPT ![p] = Refill(@)]

\* Mutant: a process that is already runnable is queued again.
wakeup_proc_twice(p) ==
    /\ state' = [state EXCEPT ![p] = "RUNNABLE"]
    /\ wait_state' = [wait_state EXCEPT ![p] = "none"]
    /\ enqueue(p)

\* Mutant: wait_state survives the wakeup.
wakeup_proc_dirty(p) ==
    IF state[p] = "RUNNABLE"
    THEN UNCHANGED <<state, wait_state, rq, time_slice>>
    ELSE /\ state' = [state EXCEPT ![p] = "RUNNABLE"]
         /\ UNCHANGED wait_state
         /\ IF p = current THEN UNCHANGED <<rq, time_slice>> ELSE enqueue(p)

\* Only a process that is not runnable changes; current is not queued, its
\* next schedule() does that.
wakeup_proc(p) ==
    IF state[p] = "RUNNABLE"
    THEN UNCHANGED <<state, wait_state, rq, time_slice>>
    ELSE /\ state' = [state EXCEPT ![p] = "RUNNABLE"]
         /\ wait_state' = [wait_state EXCEPT ![p] = "none"]
         /\ IF p = current THEN UNCHANGED <<rq, time_slice>> ELSE enqueue(p)

\* schedule() puts a current that is still runnable at the end of the queue.
requeues(p) == state[p] = "RUNNABLE" /\ p # idleproc

\* schedule(), called by p, which resumes at `resume': queue p if it may go
\* on, take the head of the queue (idleproc when it is empty) and switch.
schedule(p, resume) ==
    LET q == IF requeues(p) THEN Append(rq, p) ELSE rq
    IN  /\ need_resched' = [need_resched EXCEPT ![p] = FALSE]
        /\ time_slice' = IF requeues(p)
                         THEN [time_slice EXCEPT ![p] = Refill(@)] ELSE time_slice
        /\ current' = IF q = <<>> THEN idleproc ELSE Head(q)
        /\ rq' = IF q = <<>> THEN q ELSE Tail(q)
        /\ pc' = [pc EXCEPT ![p] = resume]
        /\ UNCHANGED <<state, wait_state, exiting, parent, waitpid, timer,
                       nr_process, irq>>

\* p, the current process, executes at l; no interrupt is being served.
At(p, l) == ~irq /\ current = p /\ pc[p] = l

Goto(p, l) == pc' = [pc EXCEPT ![p] = l]

\* The calls of schedule(): in the loop of cpu_idle, at the end of a trap, in
\* do_wait, do_sleep and do_exit, and in the loop of init_main.
Schedule(p) ==
    \/ At(p, "idle") /\ need_resched[p] /\ schedule(p, "idle")
    \/ At(p, "trap_sched") /\ schedule(p, "user")
    \/ At(p, "wait_sched") /\ schedule(p, "wait_woken")
    \/ At(p, "sleep_sched") /\ schedule(p, "sleep_woken")
    \/ At(p, "exit_sched") /\ schedule(p, "dead")
    \/ At(p, "init_sched") /\ schedule(p, "wait")

-------------------------------------------------------------------------------
(* trap.c: the clock interrupt and the way back to user mode.              *)

\* Where interrupts are enabled: user mode and the kernel threads.
IntrOn ==
    \/ pc[current] \in {"user", "idle", "execve"}
    \/ current = initproc /\ pc[initproc] \notin {"exit", "panic"}

\* IRQ_S_TIMER, up to the entry of the loop of run_timer_list: the time to
\* every expiry shrinks by one.
TickBegin ==
    /\ ~irq /\ IntrOn
    /\ irq' = TRUE
    /\ timer' = [p \in Procs |-> IF timer[p] > 0 THEN timer[p] - 1 ELSE timer[p]]
    /\ UNCHANGED <<state, wait_state, exiting, parent, waitpid, need_resched,
                   time_slice, rq, current, nr_process, pc>>

\* Mutant: the timer is unlinked and its sleeper is not woken.
TickExpire_nowake(p) ==
    /\ irq /\ timer[p] = 0
    /\ timer' = [timer EXCEPT ![p] = Unlinked]
    /\ UNCHANGED <<state, wait_state, rq, time_slice, exiting, parent, waitpid,
                   need_resched, current, nr_process, irq, pc>>

\* One iteration of that loop: wake the sleeper, unlink its timer.
TickExpire(p) ==
    /\ irq /\ timer[p] = 0
    /\ wakeup_proc(p)
    /\ timer' = [timer EXCEPT ![p] = Unlinked]
    /\ UNCHANGED <<exiting, parent, waitpid, need_resched, current, nr_process, irq, pc>>

\* Mutant: a slice that is used up is counted down further.
TickedSlice_below(p) == IF p # idleproc THEN time_slice[p] - 1 ELSE time_slice[p]

\* sched_class_proc_tick(current): RR_proc_tick counts the slice down and asks
\* for a reschedule when it is used up; for idleproc it always asks.
TickedSlice(p) == IF p # idleproc /\ time_slice[p] > 0 THEN time_slice[p] - 1 ELSE time_slice[p]

\* Mutant: the tick that uses up the slice does not ask for a reschedule.
TickEnd_noresched ==
    /\ irq /\ \A p \in Procs : timer[p] # 0
    /\ irq' = FALSE
    /\ time_slice' = [time_slice EXCEPT ![current] = TickedSlice(current)]
    /\ need_resched' = [need_resched EXCEPT ![current] = @ \/ current = idleproc]
    /\ pc' = IF pc[current] = "user" THEN [pc EXCEPT ![current] = "trapret"] ELSE pc
    /\ UNCHANGED <<state, wait_state, exiting, parent, waitpid, timer, rq, current,
                   nr_process>>

\* The end of run_timer_list.  A tick that interrupted user mode goes on to
\* the end of trap(); one that interrupted the kernel returns at once.
TickEnd ==
    /\ irq /\ \A p \in Procs : timer[p] # 0
    /\ irq' = FALSE
    /\ time_slice' = [time_slice EXCEPT ![current] = TickedSlice(current)]
    /\ need_resched' = [need_resched EXCEPT
            ![current] = @ \/ current = idleproc \/ TickedSlice(current) = 0]
    /\ pc' = IF pc[current] = "user" THEN [pc EXCEPT ![current] = "trapret"] ELSE pc
    /\ UNCHANGED <<state, wait_state, exiting, parent, waitpid, timer, rq, current,
                   nr_process>>

\* The end of trap(): a killed process exits, otherwise need_resched is
\* honoured.  PF_EXITING is not looked at again after that schedule().
TrapRet(p) ==
    /\ At(p, "trapret")
    /\ Goto(p, IF exiting[p] THEN "exit" ELSE IF need_resched[p] THEN "trap_sched" ELSE "user")
    /\ UNCHANGED <<state, wait_state, exiting, parent, waitpid, need_resched, time_slice,
                   timer, rq, current, nr_process, irq>>

\* Every other trap from user mode (getpid, putc, brk, the file calls, an
\* exception that returns, a do_wait with a bad code_store, sleep(0)).
OtherTrap(p) ==
    /\ At(p, "user")
    /\ Goto(p, "trapret")
    /\ UNCHANGED <<state, wait_state, exiting, parent, waitpid, need_resched, time_slice,
                   timer, rq, current, nr_process, irq>>

-------------------------------------------------------------------------------
(* proc.c: do_fork                                                         *)

\* do_fork by p succeeds with child c: p continues at `next', c starts at
\* `entry' (forkret goes straight to user mode; user_main runs in the kernel).
do_fork(p, c, next, entry) ==
    /\ nr_process < MAX_PROCESS
    /\ state[c] = "UNINIT"
    /\ parent' = [parent EXCEPT ![c] = p]
    /\ state' = [state EXCEPT ![c] = "RUNNABLE"]
    /\ wait_state' = [wait_state EXCEPT ![p] = "none", ![c] = "none"]
    /\ exiting' = [exiting EXCEPT ![c] = FALSE]
    /\ need_resched' = [need_resched EXCEPT ![c] = FALSE]
    /\ time_slice' = [time_slice EXCEPT ![c] = Refill(0)]
    /\ rq' = Append(rq, c)
    /\ nr_process' = nr_process + 1
    /\ pc' = [pc EXCEPT ![p] = next, ![c] = entry]
    /\ UNCHANGED <<waitpid, timer, current, irq>>

Fork(p, c) == At(p, "user") /\ do_fork(p, c, "trapret", "user")

\* do_fork fails: nr_process is at its limit, or memory runs out on the way
\* and everything done so far is undone.
ForkFail(p) ==
    /\ At(p, "user")
    /\ wait_state' = [wait_state EXCEPT ![p] = "none"]
    /\ Goto(p, "trapret")
    /\ UNCHANGED <<state, exiting, parent, waitpid, need_resched, time_slice, timer, rq,
                   current, nr_process, irq>>

-------------------------------------------------------------------------------
(* proc.c: do_exit                                                         *)

Exit(p) ==
    /\ At(p, "user")
    /\ Goto(p, "exit")
    /\ UNCHANGED <<state, wait_state, exiting, parent, waitpid, need_resched, time_slice,
                   timer, rq, current, nr_process, irq>>

\* initproc must not exit; any other process gives its resources back and
\* becomes a zombie.
ExitZombie(p) ==
    /\ At(p, "exit")
    /\ IF p = initproc
       THEN Goto(p, "panic") /\ UNCHANGED state
       ELSE Goto(p, "exit_notify") /\ state' = [state EXCEPT ![p] = "ZOMBIE"]
    /\ UNCHANGED <<wait_state, exiting, parent, waitpid, need_resched, time_slice,
                   timer, rq, current, nr_process, irq>>

\* Mutant: the parent is not told.
ExitNotify_silent(p) ==
    /\ At(p, "exit_notify")
    /\ Goto(p, "exit_orphans")
    /\ UNCHANGED <<state, wait_state, rq, time_slice, exiting, parent, waitpid,
                   need_resched, timer, current, nr_process, irq>>

ExitNotify(p) ==
    /\ At(p, "exit_notify")
    /\ IF wait_state[parent[p]] = "WT_CHILD"
       THEN wakeup_proc(parent[p])
       ELSE UNCHANGED <<state, wait_state, rq, time_slice>>
    /\ Goto(p, "exit_orphans")
    /\ UNCHANGED <<exiting, parent, waitpid, need_resched, timer, current, nr_process, irq>>

\* Mutant: initproc is not woken for a child that is a zombie already.
ExitOrphans_nowake(p) ==
    /\ At(p, "exit_orphans")
    /\ parent' = [q \in Procs |-> IF parent[q] = p /\ state[q] # "UNINIT"
                                  THEN initproc ELSE parent[q]]
    /\ Goto(p, "exit_sched")
    /\ UNCHANGED <<state, wait_state, rq, time_slice, exiting, waitpid, need_resched,
                   timer, current, nr_process, irq>>

\* The loop over cptr: every child moves to initproc, which is woken when one
\* of them is a zombie and initproc sleeps in do_wait.
ExitOrphans(p) ==
    /\ At(p, "exit_orphans")
    /\ LET kids == {q \in Live : parent[q] = p}
       IN  /\ parent' = [q \in Procs |-> IF q \in kids THEN initproc ELSE parent[q]]
           /\ IF /\ \E q \in kids : state[q] = "ZOMBIE"
                 /\ wait_state[initproc] = "WT_CHILD"
              THEN wakeup_proc(initproc)
              ELSE UNCHANGED <<state, wait_state, rq, time_slice>>
    /\ Goto(p, "exit_sched")
    /\ UNCHANGED <<exiting, waitpid, need_resched, timer, current, nr_process, irq>>

-------------------------------------------------------------------------------
(* proc.c: do_wait                                                         *)

Wait(p, pid) ==
    /\ At(p, "user")
    /\ waitpid' = [waitpid EXCEPT ![p] = pid]
    /\ Goto(p, "wait")
    /\ UNCHANGED <<state, wait_state, exiting, parent, need_resched, time_slice, timer,
                   rq, current, nr_process, irq>>

\* The children the do_wait of p is about.
WaitedFor(p) == {c \in Live : parent[c] = p /\ waitpid[p] \in {AnyChild, c}}

\* label found: the zombie child is taken off proc_list and freed.  What a free
\* struct holds is never read (alloc_proc fills it in again): it is set to what
\* alloc_proc will put there, and the dead argument of do_wait to AnyChild.
WaitReap(p, c) ==
    /\ At(p, "wait")
    /\ c \in WaitedFor(p) /\ state[c] = "ZOMBIE"
    /\ state' = [state EXCEPT ![c] = "UNINIT"]
    /\ nr_process' = nr_process - 1
    /\ parent' = [parent EXCEPT ![c] = idleproc]
    /\ exiting' = [exiting EXCEPT ![c] = FALSE]
    /\ need_resched' = [need_resched EXCEPT ![c] = FALSE]
    /\ time_slice' = [time_slice EXCEPT ![c] = 0]
    /\ waitpid' = [waitpid EXCEPT ![p] = AnyChild, ![c] = AnyChild]
    /\ pc' = [pc EXCEPT ![c] = "free",
                        ![p] = IF p # initproc THEN "trapret" ELSE "init_sched"]
    /\ UNCHANGED <<wait_state, timer, rq, current, irq>>

\* haskid, and no zombie among them: go to sleep.
WaitSleep(p) ==
    /\ At(p, "wait")
    /\ WaitedFor(p) # {} /\ \A c \in WaitedFor(p) : state[c] # "ZOMBIE"
    /\ state' = [state EXCEPT ![p] = "SLEEPING"]
    /\ wait_state' = [wait_state EXCEPT ![p] = "WT_CHILD"]
    /\ Goto(p, "wait_sched")
    /\ UNCHANGED <<exiting, parent, waitpid, need_resched, time_slice, timer, rq, current,
                   nr_process, irq>>

\* Mutant: a child that still lives does not count.
WaitFail_nohaskid(p) ==
    /\ At(p, "wait")
    /\ \A c \in WaitedFor(p) : state[c] # "ZOMBIE"
    /\ Goto(p, IF p # initproc THEN "trapret" ELSE "init_done")
    /\ waitpid' = [waitpid EXCEPT ![p] = AnyChild]
    /\ UNCHANGED <<state, wait_state, exiting, parent, need_resched, time_slice,
                   timer, rq, current, nr_process, irq>>

\* No such child: -E_BAD_PROC.
WaitFail(p) ==
    /\ At(p, "wait")
    /\ WaitedFor(p) = {}
    /\ Goto(p, IF p # initproc THEN "trapret" ELSE "init_done")
    /\ waitpid' = [waitpid EXCEPT ![p] = AnyChild]
    /\ UNCHANGED <<state, wait_state, exiting, parent, need_resched, time_slice,
                   timer, rq, current, nr_process, irq>>

\* Mutant: PF_EXITING is not looked at.
WaitWoken_ignores(p) ==
    /\ At(p, "wait_woken")
    /\ Goto(p, "wait")
    /\ UNCHANGED <<state, wait_state, exiting, parent, waitpid, need_resched, time_slice,
                   timer, rq, current, nr_process, irq>>

WaitWoken(p) ==
    /\ At(p, "wait_woken")
    /\ Goto(p, IF exiting[p] THEN "exit" ELSE "wait")
    /\ UNCHANGED <<state, wait_state, exiting, parent, waitpid, need_resched, time_slice,
                   timer, rq, current, nr_process, irq>>

-------------------------------------------------------------------------------
(* proc.c: do_sleep, do_yield, do_kill                                     *)

Sleep(p, time) ==
    /\ At(p, "user")
    /\ state' = [state EXCEPT ![p] = "SLEEPING"]
    /\ wait_state' = [wait_state EXCEPT ![p] = "WT_TIMER"]
    /\ timer' = [timer EXCEPT ![p] = time]
    /\ Goto(p, "sleep_sched")
    /\ UNCHANGED <<exiting, parent, waitpid, need_resched, time_slice, rq, current,
                   nr_process, irq>>

\* Mutant: do_sleep returns with its timer still linked.
SleepWoken_leaves(p) ==
    /\ At(p, "sleep_woken")
    /\ Goto(p, "trapret")
    /\ UNCHANGED <<state, wait_state, exiting, parent, waitpid, need_resched, time_slice,
                   timer, rq, current, nr_process, irq>>

\* del_timer, for a sleeper that something else woke, then back to trap().
SleepWoken(p) ==
    /\ At(p, "sleep_woken")
    /\ timer' = [timer EXCEPT ![p] = Unlinked]
    /\ Goto(p, "trapret")
    /\ UNCHANGED <<state, wait_state, exiting, parent, waitpid, need_resched, time_slice,
                   rq, current, nr_process, irq>>

Yield(p) ==
    /\ At(p, "user")
    /\ need_resched' = [need_resched EXCEPT ![p] = TRUE]
    /\ Goto(p, "trapret")
    /\ UNCHANGED <<state, wait_state, exiting, parent, waitpid, time_slice, timer, rq,
                   current, nr_process, irq>>

\* wait_state & WT_INTERRUPTED: both WT_CHILD and WT_TIMER carry the bit.
kill_wakes(q) == wait_state[q] \in {"WT_CHILD", "WT_TIMER"}

\* do_kill(q): a process that is flagged already is left alone (-E_KILLED).
Kill(p, q) ==
    /\ At(p, "user")
    /\ state[q] # "UNINIT" /\ ~exiting[q]
    /\ exiting' = [exiting EXCEPT ![q] = TRUE]
    /\ IF kill_wakes(q)
       THEN wakeup_proc(q)
       ELSE UNCHANGED <<state, wait_state, rq, time_slice>>
    /\ Goto(p, "trapret")
    /\ UNCHANGED <<parent, waitpid, need_resched, timer, current, nr_process, irq>>

-------------------------------------------------------------------------------
(* proc.c: the kernel threads                                              *)

\* init_main creates user_main, then waits for any child.
InitFork(c) ==
    /\ At(initproc, "init_fork")
    /\ do_fork(initproc, c, "wait", "execve")

\* kernel_thread fails: "create user_main failed".
InitForkFail ==
    /\ At(initproc, "init_fork")
    /\ Goto(initproc, "panic")
    /\ UNCHANGED <<state, wait_state, exiting, parent, waitpid, need_resched, time_slice,
                   timer, rq, current, nr_process, irq>>

\* init_main after its loop: fs_cleanup, the final assertions, and the return
\* into do_exit, which panics for initproc.
InitDone ==
    /\ At(initproc, "init_done")
    /\ Goto(initproc, "exit")
    /\ UNCHANGED <<state, wait_state, exiting, parent, waitpid, need_resched, time_slice,
                   timer, rq, current, nr_process, irq>>

\* user_main becomes a user program, or exits when load_icode fails.
Execve(p) ==
    /\ At(p, "execve")
    /\ \/ Goto(p, "user")
       \/ Goto(p, "exit")
    /\ UNCHANGED <<state, wait_state, exiting, parent, waitpid, need_resched, time_slice,
                   timer, rq, current, nr_process, irq>>

\* panic() never returns.
Halted == pc[current] = "panic" /\ UNCHANGED vars

-------------------------------------------------------------------------------
\* The end of proc_init: idleproc runs and asks for a reschedule, initproc is
\* queued.  Everything else is free.
Init ==
    /\ state = [p \in Procs |-> IF p \in UserProcs THEN "UNINIT" ELSE "RUNNABLE"]
    /\ wait_state = [p \in Procs |-> "none"]
    /\ exiting = [p \in Procs |-> FALSE]
    /\ parent = [p \in Procs |-> idleproc]
    /\ waitpid = [p \in Procs |-> AnyChild]
    /\ need_resched = [p \in Procs |-> p = idleproc]
    /\ time_slice = [p \in Procs |-> IF p = initproc THEN MAX_TIME_SLICE ELSE 0]
    /\ timer = [p \in Procs |-> Unlinked]
    /\ rq = <<initproc>>
    /\ current = idleproc
    /\ nr_process = 2
    /\ irq = FALSE
    /\ pc = [p \in Procs |-> IF p = idleproc THEN "idle"
                             ELSE IF p = initproc THEN "init_fork" ELSE "free"]

\* The steps of the kernel once it is entered.
KernelStep(p) ==
    \/ Schedule(p)
    \/ TrapRet(p)
    \/ ExitZombie(p) \/ ExitNotify(p) \/ ExitOrphans(p)
    \/ \E c \in Procs : WaitReap(p, c)
    \/ WaitSleep(p) \/ WaitFail(p) \/ WaitWoken(p)
    \/ SleepWoken(p)
    \/ Execve(p)

\* The traps a user program makes.
UserStep(p) ==
    \/ OtherTrap(p)
    \/ \E c \in UserProcs : Fork(p, c)
    \/ ForkFail(p)
    \/ Exit(p)
    \/ \E pid \in UserProcs \cup {initproc, AnyChild} : Wait(p, pid)
    \/ \E time \in 1..MaxSleep : Sleep(p, time)
    \/ Yield(p)
    \/ \E q \in Killable : Kill(p, q)

InitStep == (\E c \in UserProcs : InitFork(c)) \/ InitForkFail \/ InitDone

TickStep == (\E p \in Procs : TickExpire(p)) \/ TickEnd

Next ==
    \/ \E p \in Procs : KernelStep(p) \/ UserStep(p)
    \/ InitStep
    \/ TickBegin \/ TickStep
    \/ Halted

Spec == Init /\ [][Next]_vars

\* The kernel does not stop in the middle of its code: clock_set_next_event
\* leaves a whole period between two ticks, so the code a tick interrupts goes
\* on (strong fairness, because irq disables it meanwhile).  A clock interrupt
\* stays pending until it is taken, so a process that keeps trapping cannot
\* avoid it for ever.  Nothing is assumed of user programs.
Fairness ==
    /\ SF_vars(\E p \in Procs : KernelStep(p))
    /\ SF_vars(InitStep)
    /\ WF_vars(TickStep)
    /\ SF_vars(TickBegin)

FairSpec == Spec /\ Fairness
-------------------------------------------------------------------------------
(* Safety                                                                  *)

Member(q, p) == \E i \in 1..Len(q) : q[i] = p

Distinct(q) == \A i, j \in 1..Len(q) : q[i] = q[j] => i = j

InQueue(p) == Member(rq, p)

\* The run queue holds exactly the processes that are RUNNABLE and not running,
\* each once, and never idleproc: schedule() and wakeup_proc() keep the state
\* field and the queue in step, so the assertion list_empty(run_link) of
\* RR_enqueue cannot fail, no runnable process is forgotten, and no sleeping or
\* dead one is resumed.
RunQueueExact ==
    /\ Distinct(rq)
    /\ \A p \in Procs : InQueue(p) <=> (state[p] = "RUNNABLE" /\ p # current /\ p # idleproc)

\* No lost wakeup in do_wait: while a process sleeps for its children, none of
\* those it waits for is a zombie, except one that is inside do_exit right
\* before it looks at the parent.
NoLostChild ==
    \A p \in Procs : wait_state[p] = "WT_CHILD" =>
        \A c \in WaitedFor(p) :
            state[c] = "ZOMBIE" => (c = current /\ pc[c] = "exit_notify")

\* Whoever do_kill, do_exit or run_timer_list may wake is not a zombie and not
\* a freed struct: the assertion at the head of wakeup_proc holds.
WakeupLegal ==
    \A p \in Procs : (wait_state[p] # "none" \/ timer[p] # Unlinked) =>
        state[p] \in {"SLEEPING", "RUNNABLE"}

\* The timer of do_sleep lives on the sleeper's kernel stack: while it is linked
\* in timer_list that frame exists, whichever of the clock and do_kill wakes
\* the sleeper first.
TimerOnStack == \A p \in Procs : timer[p] # Unlinked => pc[p] \in {"sleep_sched", "sleep_woken"}

\* A sleep that nobody interrupts lasts until its timer expires, and a sleeper
\* is never without the timer that will wake it.
SleepNotCutShort ==
    \A p \in Procs : pc[p] = "sleep_woken" =>
        /\ state[p] = "SLEEPING" => timer[p] # Unlinked
        /\ (state[p] = "RUNNABLE" /\ ~exiting[p]) => timer[p] = Unlinked

\* Outside run_timer_list no linked timer is at zero: assert(expires != 0).
NoStaleTimer == ~irq => \A p \in Procs : timer[p] # 0

\* do_sleep, do_kill and run_timer_list agree on every timer: a linked timer has
\* its stack frame, a sleeper has its timer, and none is left over by a tick.
TimerInv == TimerOnStack /\ SleepNotCutShort /\ NoStaleTimer

\* Every process has a living parent that can still wait for it: a zombie
\* has handed its children to initproc before the processor leaves it.
NoOrphan ==
    \A c \in Live : c # idleproc =>
        /\ state[parent[c]] \in {"RUNNABLE", "SLEEPING", "ZOMBIE"}
        /\ state[parent[c]] = "ZOMBIE" =>
               parent[c] = current /\ pc[current] \in {"exit_notify", "exit_orphans"}

\* Parents and children find each other: no process is without a parent that
\* can wait for it, and no parent sleeps in do_wait past the exit of a child.
FamilyInv == NoOrphan /\ NoLostChild

\* nr_process counts the processes that exist.
CountExact == nr_process = Cardinality(Live)

\* What init_main asserts once do_wait reports no more children: only idleproc
\* and initproc are left, initproc has no child and nr_process is 2.
QuitClean ==
    pc[initproc] = "init_done" =>
        /\ Live = {idleproc, initproc}
        /\ nr_process = 2

\* How pc, state, wait_state and timer of a process go together, and what may
\* hold only of the running process: the part of the inductive invariant of
\* module ProcProofs that links the control of proc.c to its data.
Fits(p, l, s, w, linked, running) ==
    /\ s = "UNINIT" <=> l = "free"
    /\ s = "ZOMBIE" <=> l \in {"exit_notify", "exit_orphans", "exit_sched", "dead"}
    /\ s = "SLEEPING" <=> w # "none"
    /\ w = "WT_CHILD" => l \in {"wait_sched", "wait_woken"}
    /\ w = "WT_TIMER" => l \in {"sleep_sched", "sleep_woken"} /\ linked
    /\ l \in {"wait_sched", "sleep_sched"} => s = "SLEEPING"
    /\ l = "idle" <=> p = idleproc
    /\ l \in {"init_fork", "init_sched", "init_done", "panic"} => p = initproc
    /\ p = initproc => l \in {"init_fork", "wait", "wait_sched", "wait_woken", "init_sched",
                              "init_done", "exit", "panic"}
    /\ running => /\ l \notin {"dead", "free"}
                  /\ l \in {"wait_woken", "sleep_woken"} => s = "RUNNABLE"
    /\ ~running => /\ l \in {"free", "user", "execve", "idle", "init_fork", "wait",
                              "wait_woken", "sleep_woken", "dead"}
                   /\ l = "wait" => p = initproc

ControlInv ==
    /\ \A p \in Procs : Fits(p, pc[p], state[p], wait_state[p], timer[p] # Unlinked, p = current)
    /\ irq => IntrOn

-------------------------------------------------------------------------------
(* Action properties                                                       *)

\* A zombie stays one until its own parent frees it, in do_wait.
ReapedByParent ==
    [][\A p \in Procs : state[p] = "ZOMBIE" /\ state'[p] # "ZOMBIE" =>
           /\ state'[p] = "UNINIT"
           /\ current = parent[p] /\ pc[current] = "wait"]_vars

-------------------------------------------------------------------------------
(* Liveness                                                                *)

Panicked == pc[current] = "panic"

\* Round robin starves nobody: a queued process gets the processor.
QueuedRuns == \A p \in Procs : InQueue(p) ~> (current = p \/ Panicked)

\* A sleeper is woken, by its timer if by nothing else.
SleeperWakes ==
    \A p \in Procs : wait_state[p] = "WT_TIMER" ~> (state[p] # "SLEEPING" \/ Panicked)

\* A do_wait whose child has died returns (or its caller is killed).
WaitReturns ==
    \A p \in Procs, c \in UserProcs :
        (pc[p] \in {"wait", "wait_sched", "wait_woken"} /\ c \in WaitedFor(p) /\ state[c] = "ZOMBIE")
            ~> (pc[p] \notin {"wait", "wait_sched", "wait_woken"} \/ Panicked)

\* A process that do_kill (or anything else) wakes inside do_wait or do_sleep
\* once it is flagged does exit.
KilledSleeperExits ==
    \A p \in UserProcs :
        (exiting[p] /\ InQueue(p) /\ pc[p] \in {"wait_woken", "sleep_woken"})
            ~> (~exiting[p] \/ state[p] = "ZOMBIE" \/ Panicked)

\* "SYS_kill : kill process -->do_kill-->proc->flags |= PF_EXITING
\*  -->wakeup_proc-->do_wait-->do_exit": a process do_kill accepted exits.
KilledExits ==
    \A p \in UserProcs : exiting[p] ~> (~exiting[p] \/ state[p] = "ZOMBIE" \/ Panicked)
=============================================================================
