-------------------------------- MODULE MCFs --------------------------------
(***************************************************************************)
(* Files for TLC: descriptor tables and inode counts (Files), the blocks   *)
(* of files on disk (SfsBlocks), and the keyboard device (Stdin).  They    *)
(* share nothing, so a behaviour is one of any of them: part says which,   *)
(* and the variables of the others rest.                                   *)
(***************************************************************************)
EXTENDS Files, Stdin, SfsBlocks

VARIABLE part

Opt(acc, opt) == [acc |-> acc, opt |-> opt]
Excl == Opt("r", {"CREAT", "EXCL"})
Flags == {Opt("r", {}), Opt("w", {"CREAT", "TRUNC"}), Excl}

ASSUME FilesAssumption /\ SfsBlocksAssumption /\ StdinAssumption

MCInit == Init /\ StdinInit /\ SfsInit /\ part \in {"dirs", "devs", "stdin", "blocks"}

(* Files is taken apart by what calls are made with: two directories to    *)
(* change between; or one directory, the device and the flags with which   *)
(* open loses a reference, while only the device is opened for writing.    *)
DirsOnly == \A p \in Proc : call'[p].name \notin Dev /\ call'[p].flags # Excl
OneDir == \A p \in Proc :
    call'[p].name \notin Dir \ {Root} /\ (call'[p].flags.acc = "w" => call'[p].name \in Dev)

MCNext ==
    \/ part = "dirs" /\ Next /\ DirsOnly /\ UNCHANGED <<part, stdin_vars, sfs_vars>>
    \/ part = "devs" /\ Next /\ OneDir /\ UNCHANGED <<part, stdin_vars, sfs_vars>>
    \/ part = "stdin" /\ StdinNext /\ UNCHANGED <<part, vars, sfs_vars>>
    \/ part = "blocks" /\ SfsNext /\ UNCHANGED <<part, vars, stdin_vars>>

MCSpec == MCInit /\ [][MCNext]_<<part, vars, stdin_vars, sfs_vars>>
============================================================================
