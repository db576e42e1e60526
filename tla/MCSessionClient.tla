---------------------------- MODULE MCSessionClient ----------------------------
(***************************************************************************)
(* SessionClient and LoginLimiter on small instances: what a page does     *)
(* with its session, and what limits its logins.  They share no state: a   *)
(* behaviour follows one of them, and the other stays as it begins.        *)
(***************************************************************************)
EXTENDS SessionClient, LoginLimiter

CONSTANTS once, twice, other

VARIABLE part   \* the component this behaviour is about

(* One attempt in a window, or two. *)
Limits == [k \in Keys |-> IF k = twice THEN 2 ELSE 1]

PartsInit == Init /\ LimiterInit /\ part \in {"session", "limiter"}

PartsNext ==
    /\ UNCHANGED part
    /\ \/ part = "session" /\ Next /\ UNCHANGED limiterVars
       \/ part = "limiter" /\ LimiterNext /\ UNCHANGED vars

(* Fairness of SessionClient; the limiter has none. *)
PartsFairness ==
    /\ \A r \in Requests : WF_vars(part = "session" /\ RequestStep(r))
    /\ WF_vars(part = "session" /\ RefreshStep)

PartsSpec == PartsInit /\ [][PartsNext]_<<part, vars, limiterVars>> /\ PartsFairness

================================================================================
