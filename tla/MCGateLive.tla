------------------------------ MODULE MCGateLive ------------------------------
(***************************************************************************)
(* RestoreGate and Startup under fairness on small instances: a process    *)
(* that serves, and processes that start and end.  They share no state: a  *)
(* behaviour follows one of them, and the other stays as it begins.        *)
(***************************************************************************)
EXTENDS RestoreGate, Startup

VARIABLE part   \* the component this behaviour is about

(* Every process may be over. *)
AllOver ==
    /\ \A p \in Procs : phase[p] \in {"failed", "gone"}
    /\ UNCHANGED startupVars

PartsInit ==
    /\ Init
    /\ StartupInit
    /\ \/ part = "gate" /\ schema.version = HEAD
       \/ part = "startup"

PartsNext ==
    /\ UNCHANGED part
    /\ \/ part = "gate" /\ Next /\ UNCHANGED startupVars
       \/ part = "startup" /\ (StartupNext \/ AllOver) /\ UNCHANGED vars

(* Fairness, where the behaviour is about the gate. *)
PartsFairness ==
    /\ \A r \in Requests : WF_vars(part = "gate" /\ RequestStep(r) /\ UNCHANGED <<part, startupVars>>)
    /\ \A s \in Restores : WF_vars(part = "gate" /\ RestoreStep(s) /\ UNCHANGED <<part, startupVars>>)

PartsSpec ==
    /\ PartsInit
    /\ [][PartsNext]_<<part, vars, startupVars>>
    /\ PartsFairness

================================================================================
