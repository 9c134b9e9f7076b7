----------------------------- MODULE AtomicFile -----------------------------
(***************************************************************************)
(* What save_atomic promises (ledger.rs): the file is, at every moment,    *)
(* the whole of some ledger this node has had.  A save replaces it by the  *)
(* ledger in one step; a process that dies starts again from it.  The      *)
(* promise is void once two saves have overlapped: they share the name of  *)
(* the temporary file.                                                     *)
(***************************************************************************)
VARIABLES
    memory,     \* the changes the ledger contains
    durable,    \* the changes in the file
    overlapped  \* two saves have been under way at once

vars == <<memory, durable, overlapped>>

Init == memory = {} /\ durable = {} /\ overlapped = FALSE

Change ==
    /\ \E c \in memory' : memory' = memory \cup {c}
    /\ UNCHANGED <<durable, overlapped>>

Save == durable' = memory /\ UNCHANGED <<memory, overlapped>>

Restart == memory' = durable /\ UNCHANGED <<durable, overlapped>>

Next == ~overlapped /\ ~overlapped' => Change \/ Save \/ Restart

Spec == Init /\ [][Next]_vars
=============================================================================
