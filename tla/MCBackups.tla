------------------------------- MODULE MCBackups -------------------------------
(***************************************************************************)
(* Backups and ConnectionDrain on small instances: the files and rows of   *)
(* dumps, and what a dump lacks of late writes.  The two share no state: a *)
(* behaviour follows one of them, and the other stays as it begins.        *)
(***************************************************************************)
EXTENDS Backups, ConnectionDrain, TLC

VARIABLE part   \* the component this behaviour is about

PartsInit ==
    /\ Init
    /\ DrainInit
    /\ part \in {"backups", "drain"}

PartsNext ==
    /\ UNCHANGED part
    /\ \/ part = "backups" /\ Next /\ UNCHANGED drainVars
       \/ part = "drain" /\ DrainNext /\ UNCHANGED vars

PartsSpec == PartsInit /\ [][PartsNext]_<<part, vars, drainVars>>

(* Dumps are interchangeable. *)
Symmetry == Permutations(Dumps)

================================================================================
