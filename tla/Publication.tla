---------------------------- MODULE Publication -----------------------------
(***************************************************************************)
(* What the control plane promises of a rule set: versions are committed,  *)
(* a committed version is published as a whole, in the order of commits,   *)
(* and what is in force is a published version that is never older than    *)
(* the one before it, across failures, reloads and restarts.               *)
(***************************************************************************)
EXTENDS Naturals

VARIABLES
    committed,       \* number of the newest committed version
    published,       \* the version that can be loaded
    in_force         \* the version the data plane has taken up last

Init == committed = 0 /\ published = 0 /\ in_force = 0

Commit ==
    /\ committed' = committed + 1
    /\ UNCHANGED <<published, in_force>>

Publish ==
    /\ published' \in published .. committed
    /\ UNCHANGED <<committed, in_force>>

TakeUp ==
    /\ in_force' \in in_force .. published
    /\ UNCHANGED <<committed, published>>

Next == Commit \/ Publish \/ TakeUp

Spec == Init /\ [][Next]_<<committed, published, in_force>>

=============================================================================
