----------------------------- MODULE RestorePromise -----------------------------
(***************************************************************************)
(* What the database gate and the restore promise together, without gate,  *)
(* marker, generations or crashes: answered writes stay or are in a dump,  *)
(* and a database is only ever replaced by a dumped one, when every        *)
(* answered write it holds is in one dump, and while no session is         *)
(* accepted.  A write nobody was answered for may get lost.  A session is  *)
(* accepted from the moment it is issued until it is refused for the       *)
(* first time.                                                             *)
(*                                                                         *)
(* RestoreGate implements this specification.                              *)
(***************************************************************************)
EXTENDS Naturals

CONSTANT Writes     \* the writes that may be asked for

VARIABLES
    issued,     \* sessions ever issued; each knows the era it was issued in
    accepted,   \* sessions a request would be accepted with
    era,        \* how often the database was replaced
    data,       \* the writes in the database
    dumps,      \* the writes in each completed dump
    acked       \* the writes answered with success

sessions == <<issued, accepted>>
stored == <<era, data, dumps, acked>>
vars == <<sessions, stored>>

Init ==
    /\ accepted = issued
    /\ \A t \in issued : t.era = 0
    /\ era = 0
    /\ data = {}
    /\ dumps = {{}}
    /\ acked = {}

(* A new session belongs to the present database.  It may be refused from the
   beginning. *)
SignIn ==
    /\ \E t \in issued' \ issued :
        /\ t.era = era
        /\ issued' = issued \cup {t}
        /\ accepted' \in {accepted, accepted \cup {t}}
    /\ UNCHANGED stored

(* What is refused once is refused for ever. *)
Refuse ==
    /\ accepted' \subseteq accepted
    /\ UNCHANGED <<issued, stored>>

Write(r) ==
    /\ data' = data \cup {r}
    /\ UNCHANGED <<sessions, era, dumps, acked>>

Acknowledge(r) ==
    /\ r \in data
    /\ acked' = acked \cup {r}
    /\ UNCHANGED <<sessions, era, data, dumps>>

Dump ==
    /\ dumps' = dumps \cup {data}
    /\ UNCHANGED <<sessions, era, data, acked>>

(* The database is replaced by a dumped one; what was answered is in a dump. *)
Replace ==
    /\ \E dump \in dumps : acked \cap data \subseteq dump
    /\ data' \in dumps
    /\ era' = era + 1
    /\ accepted = {}
    /\ UNCHANGED <<sessions, dumps, acked>>

Next ==
    \/ SignIn
    \/ Refuse
    \/ \E r \in Writes : Write(r) \/ Acknowledge(r)
    \/ Dump
    \/ Replace

Spec == Init /\ [][Next]_vars

================================================================================
