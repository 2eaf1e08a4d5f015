----------------------------- MODULE MCNgxServer -----------------------------
(***************************************************************************)
(* The parts of the server that are not a request's course, which share    *)
(* nothing that changes, in one run: its state space is the sum of theirs. *)
(***************************************************************************)
EXTENDS NgxConfiguration, NdgVariables, NdgShmem, TLC

VARIABLE focus   \* the part that runs

Init ==
    /\ focus \in {"configuration", "variables", "shmem"}
    /\ ConfigurationInit
    /\ VariablesInit
    /\ ShmemInit
    /\ focus = "configuration" \/ legacy            \* what does not run starts
    /\ focus = "shmem" \/ \A n \in Sizes : n <= size   \* in just one way

Next ==
    \/ /\ focus = "configuration"
       /\ ConfigurationNext
       /\ UNCHANGED <<focus, variablesVars, shmemVars>>
    \/ /\ focus = "variables"
       /\ VariablesNext
       /\ UNCHANGED <<focus, configurationVars, shmemVars>>
    \/ /\ focus = "shmem"
       /\ ShmemNext
       /\ UNCHANGED <<focus, configurationVars, variablesVars>>

Spec == Init /\ [][Next]_<<focus, configurationVars, variablesVars, shmemVars>>

\* Nothing tells one URI, worker or segment from another.
Alike == Permutations(Uris) \cup Permutations(Workers) \cup Permutations(Segments)

=============================================================================
