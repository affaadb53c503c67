------------------------------ MODULE MemSpec -------------------------------
(***************************************************************************)
(* What fork promises about memory: every process has a private copy.  A   *)
(* child starts with what its parent has at that moment, and a write is    *)
(* seen by the process that makes it and by nobody else.  Of the memory of *)
(* a new program only the part that is loaded is determined.               *)
(***************************************************************************)
CONSTANTS Proc, V, Writable, Cleared, Value, Zero, NoMem

VARIABLE mem    \* the contents of the pages of each process

NewProgram == {m \in [V -> Value] : \A v \in Cleared : m[v] = Zero}

Init == \E p \in Proc, m \in NewProgram : mem = [q \in Proc |-> IF q = p THEN m ELSE NoMem]

Fork(p, c) ==
    /\ mem[p] # NoMem /\ mem[c] = NoMem
    /\ mem' = [mem EXCEPT ![c] = mem[p]]

Write(p, v, x) ==
    /\ mem[p] # NoMem /\ v \in Writable
    /\ mem' = [mem EXCEPT ![p][v] = x]

Exec(p) ==
    /\ mem[p] # NoMem
    /\ \E m \in NewProgram : mem' = [mem EXCEPT ![p] = m]

Exit(p) ==
    /\ mem[p] # NoMem
    /\ mem' = [mem EXCEPT ![p] = NoMem]

Next ==
    \E p \in Proc :
        \/ \E c \in Proc : Fork(p, c)
        \/ \E v \in V, x \in Value : Write(p, v, x)
        \/ Exec(p)
        \/ Exit(p)

Spec == Init /\ [][Next]_mem
============================================================================
