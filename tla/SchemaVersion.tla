---------------------------- MODULE SchemaVersion ----------------------------
(***************************************************************************)
(* What Migrate promises: the schema of the database is a version number   *)
(* that only grows, one file at a time, and a call that succeeds has left  *)
(* it at least at the version the caller was built for.                    *)
(***************************************************************************)
EXTENDS Integers

CONSTANTS Migrators, NFiles, Embedded

VARIABLES
    version,  \* the number of the last file applied
    outcome   \* what each call has returned

Init == version \in 0 .. NFiles /\ outcome = [p \in Migrators |-> "none"]

Upgrade ==
    /\ version < NFiles
    /\ version' = version + 1
    /\ UNCHANGED outcome

Return(p) ==
    /\ outcome[p] = "none"
    /\ \/ outcome' = [outcome EXCEPT ![p] = "error"]
       \/ version >= Embedded[p] /\ outcome' = [outcome EXCEPT ![p] = "nil"]
    /\ UNCHANGED version

Next == Upgrade \/ \E p \in Migrators : Return(p)

Spec == Init /\ [][Next]_<<version, outcome>>
=============================================================================
