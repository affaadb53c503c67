---------------------------------- MODULE Stdin ----------------------------------
(***************************************************************************)
(* The device stdin of kern/fs/devs/dev_stdin.c: a ring buffer that the    *)
(* clock interrupt fills (dev_stdin_write) and that any number of          *)
(* processes read (dev_stdin_read), blocking on one wait queue while it is *)
(* empty.  A reader keeps the processor, with interrupts off, until it     *)
(* blocks or returns, so each such section is one action.                  *)
(*                                                                         *)
(* Keys are numbered in the order in which they are typed.                 *)
(***************************************************************************)
EXTENDS Integers, Sequences

CONSTANTS Readers,         \* the processes that read
          STDIN_BUFSIZE,   \* size of the ring buffer
          MaxLen,          \* bound on the length of a read
          MaxKeys          \* bound on the keys typed

StdinAssumption ==
    STDIN_BUFSIZE \in Nat \ {0} /\ MaxLen \in Nat \ {0} /\ MaxKeys \in Nat

VARIABLES stdin_buffer, p_rpos, p_wpos,   \* the ring, and the two positions in it
          wait_queue,      \* the readers queued, first one first
          asleep,          \* PROC_SLEEPING with wait_state WT_KBD
          wakeup_flags,    \* of the wait_t on each reader's stack
          exiting,         \* proc->flags & PF_EXITING
          pc,              \* "out", or "wait" at the schedule() in dev_stdin_read
          len, ret,        \* of each read: wanted and got so far
          keys,            \* ghost: number of keys typed
          taken            \* ghost: the keys read, by whomever

ring == <<stdin_buffer, p_rpos, p_wpos>>

stdin_vars == <<stdin_buffer, p_rpos, p_wpos, wait_queue, asleep, wakeup_flags, exiting,
          pc, len, ret, keys, taken>>

\* stdin_device_init.
StdinInit ==
    /\ stdin_buffer = [i \in 0..STDIN_BUFSIZE - 1 |-> 0]
    /\ p_rpos = 0 /\ p_wpos = 0
    /\ wait_queue = <<>>
    /\ asleep = [p \in Readers |-> FALSE]
    /\ wakeup_flags = [p \in Readers |-> "WT_INTERRUPTED"]
    /\ exiting = [p \in Readers |-> FALSE]
    /\ pc = [p \in Readers |-> "out"]
    /\ len = [p \in Readers |-> 0]
    /\ ret = [p \in Readers |-> 0]
    /\ keys = 0
    /\ taken = <<>>

Member(q, p) == \E i \in 1..Len(q) : q[i] = p

\* if (p_wpos - p_rpos < STDIN_BUFSIZE) p_wpos ++
advance == IF p_wpos - p_rpos < STDIN_BUFSIZE THEN p_wpos + 1 ELSE p_wpos

\* wakeup_queue(wait_queue, WT_KBD, 1): everybody queued is woken and taken off,
\* a reader that do_kill has woken before included.
wakeup_queue ==
    /\ asleep' = [p \in Readers |-> asleep[p] /\ ~Member(wait_queue, p)]
    /\ wakeup_flags' = [p \in Readers |-> IF Member(wait_queue, p) THEN "WT_KBD" ELSE wakeup_flags[p]]
    /\ wait_queue' = <<>>

\* dev_stdin_write, at a tick at which a key is there.  A full buffer loses its
\* oldest key to the new one.
dev_stdin_write ==
    /\ keys < MaxKeys
    /\ keys' = keys + 1
    /\ stdin_buffer' = [stdin_buffer EXCEPT ![p_wpos % STDIN_BUFSIZE] = keys + 1]
    /\ p_wpos' = advance
    /\ wakeup_queue
    /\ UNCHANGED <<p_rpos, exiting, pc, len, ret, taken>>

\* The first n keys in the buffer.
Front(n) == [i \in 1..n |-> stdin_buffer[(p_rpos + i - 1) % STDIN_BUFSIZE]]

\* The loop of dev_stdin_read, with l wanted, r got and the queue q: take what
\* is there, and return or block (wait_current_set, schedule).
read_loop(p, l, r, q) ==
    LET have == p_wpos - p_rpos
        n == IF l - r < have THEN l - r ELSE have
    IN  /\ taken' = taken \o Front(n)
        /\ p_rpos' = p_rpos + n
        /\ ret' = [ret EXCEPT ![p] = r + n]
        /\ IF r + n = l
           THEN /\ pc' = [pc EXCEPT ![p] = "out"]
                /\ wait_queue' = q
                /\ UNCHANGED <<asleep, wakeup_flags>>
           ELSE /\ pc' = [pc EXCEPT ![p] = "wait"]
                /\ wait_queue' = Append(q, p)
                /\ asleep' = [asleep EXCEPT ![p] = TRUE]
                /\ wakeup_flags' = [wakeup_flags EXCEPT ![p] = "WT_INTERRUPTED"]

dev_stdin_read(p, l) ==
    /\ pc[p] = "out"
    /\ len' = [len EXCEPT ![p] = l]
    /\ read_loop(p, l, 0, wait_queue)
    /\ UNCHANGED <<stdin_buffer, p_wpos, exiting, keys>>

\* wait_current_del: the entry of p, if it is still queued.
Without(q, p) ==
    IF Member(q, p)
    THEN LET k == CHOOSE i \in 1..Len(q) : q[i] = p
         IN  [i \in 1..Len(q) - 1 |-> IF i < k THEN q[i] ELSE q[i + 1]]
    ELSE q

\* Mutant: a reader that was killed leaves its wait_t in the queue.
Interrupted_leaves(p) ==
    /\ pc' = [pc EXCEPT ![p] = "out"]
    /\ UNCHANGED <<wait_queue, p_rpos, asleep, wakeup_flags, ret, taken>>

\* Not woken by a key: break.
Interrupted(p) ==
    /\ pc' = [pc EXCEPT ![p] = "out"]
    /\ wait_queue' = Without(wait_queue, p)
    /\ UNCHANGED <<p_rpos, asleep, wakeup_flags, ret, taken>>

\* Mutant: any wakeup ends the read.
Woken_breaks(p) ==
    /\ pc[p] = "wait" /\ ~asleep[p]
    /\ Interrupted(p)
    /\ UNCHANGED <<stdin_buffer, p_wpos, exiting, len, keys>>

\* dev_stdin_read after its schedule(): wait_current_del, then try_again or break.
Woken(p) ==
    /\ pc[p] = "wait" /\ ~asleep[p]
    /\ IF wakeup_flags[p] = "WT_KBD"
       THEN read_loop(p, len[p], ret[p], Without(wait_queue, p))
       ELSE Interrupted(p)
    /\ UNCHANGED <<stdin_buffer, p_wpos, exiting, len, keys>>

\* do_kill: WT_KBD is interruptible.
Kill(p) ==
    /\ ~exiting[p]
    /\ exiting' = [exiting EXCEPT ![p] = TRUE]
    /\ asleep' = [asleep EXCEPT ![p] = FALSE]
    /\ UNCHANGED <<ring, wait_queue, wakeup_flags, pc, len, ret, keys, taken>>

StdinNext ==
    \/ dev_stdin_write
    \/ \E p \in Readers : Woken(p) \/ Kill(p) \/ \E l \in 1..MaxLen : dev_stdin_read(p, l)

StdinSpec == StdinInit /\ [][StdinNext]_stdin_vars

-------------------------------------------------------------------------------

Unread == Front(p_wpos - p_rpos)

\* Every key that was accepted is read once, in the order of typing, whoever
\* reads and however the reads interleave with the interrupts; p_wpos = keys
\* says that the buffer has never been full when a key came.
KeysInOrder == p_wpos = keys => taken \o Unread = [i \in 1..keys |-> i]

\* No reader sleeps while there is input: no wakeup is lost between the test of
\* the buffer and the sleep.
NoSleepWithInput == p_rpos < p_wpos => \A p \in Readers : ~asleep[p]

\* The queue holds exactly the readers that wait for a key, and no wait_t of a
\* frame that is gone, although do_kill wakes a reader without unlinking it.
QueueExact ==
    /\ \A i, j \in 1..Len(wait_queue) : wait_queue[i] = wait_queue[j] => i = j
    /\ \A p \in Readers :
           /\ Member(wait_queue, p) <=> pc[p] = "wait" /\ wakeup_flags[p] = "WT_INTERRUPTED"
           /\ asleep[p] => Member(wait_queue, p)

\* Together: dev_stdin_write, dev_stdin_read and do_kill lose no key, no wakeup
\* and no queue entry.
StdinInv == KeysInOrder /\ NoSleepWithInput /\ QueueExact

\* What ends a wait of dev_stdin_read: all the characters, or a kill.
ShortOnlyIfKilledStep ==
    \A p \in Readers : pc[p] = "wait" /\ pc'[p] = "out" => ret'[p] = len[p] \/ exiting[p]

\* A read of the keyboard comes back short only when its process has been
\* killed, whatever keys and other readers come between its waits.
ShortOnlyIfKilled == [][ShortOnlyIfKilledStep]_stdin_vars
=============================================================================
