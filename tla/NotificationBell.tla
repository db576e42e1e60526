---------------------------- MODULE NotificationBell ----------------------------
(***************************************************************************)
(* The alerts on due decommissions: the bell and its panel with a cached   *)
(* list, the acknowledgement sent on opening and the dismissal of one      *)
(* alert (components/NotificationBell.tsx), and what the backend lists and *)
(* records of a user (api/auxiliary/reporting.rs: due, ack).               *)
(*                                                                         *)
(* The list is fetched again when the query says so, and after each        *)
(* acknowledgement; a fetch that is cancelled runs on unheard.  Others     *)
(* move dates meanwhile.  The list of duplicate addresses, which cannot be *)
(* acknowledged, is left out.                                              *)
(***************************************************************************)
EXTENDS Naturals, FiniteSets

CONSTANTS
    Vms,        \* the VMs
    Dates,      \* decommission dates that are due soon
    NotDue,     \* no such date, or the VM is decommissioned
    Unacked,    \* no acknowledgement
    MaxCalls,   \* bound: acknowledgements under way
    MaxChanges  \* bound: dates moved by others

VARIABLES
    date,       \* decommission_date of each VM
    acked,      \* decommission_acks of the user: acked_date
    cached,     \* the list in the query cache
    open,       \* the panel is open
    fetch,      \* the fetch the query waits for
    calls,      \* acknowledgements under way
    changes,    \* dates moved so far
    behind      \* history: since the last fetch others changed the backend's list, or a call
                \* the page no longer waits for did, or a fetch failed

server == <<date, acked>>
vars == <<server, cached, open, fetch, calls, changes, behind>>

NoFetch == [at |-> "none", list |-> {}]
Asked == [at |-> "asked", list |-> {}]

Init ==
    /\ date \in [Vms -> Dates \cup {NotDue}]
    /\ acked = [v \in Vms |-> Unacked]
    /\ cached = {}
    /\ open = FALSE
    /\ fetch = Asked
    /\ calls = {}
    /\ changes = 0
    /\ behind = FALSE

--------------------------------------------------------------------------------
(* The backend. *)

(* due: every due VM, read or not. *)
Due ==
    {[vm |-> v, date |-> date[v], unread |-> acked[v] # date[v]] :
        v \in {w \in Vms : date[w] # NotDue}}

(* ack reads the dates of the VMs it was sent, or of all that are due. *)
AckRead(c) ==
    /\ c.at = "sent"
    /\ calls' = (calls \ {c}) \cup
            {[c EXCEPT !.at = "read",
                       !.dates = [v \in {w \in c.vms : date[w] # NotDue} |-> date[v]]]}
    /\ UNCHANGED <<changes, server, cached, open, fetch, behind>>

(* A call whose page gave up on it ends here. *)
AckStored(c) ==
    /\ c.at = "read"
    /\ acked' = [v \in Vms |-> IF v \in DOMAIN c.dates THEN c.dates[v] ELSE acked[v]]
    /\ calls' = (calls \ {c}) \cup (IF c.heard THEN {[c EXCEPT !.at = "stored"]} ELSE {})
    /\ behind' = (behind \/ ~c.heard)
    /\ UNCHANGED <<changes, date, cached, open, fetch>>

SetDate(v, d) ==
    /\ date[v] # d
    /\ changes < MaxChanges
    /\ changes' = changes + 1
    /\ date' = [date EXCEPT ![v] = d]
    /\ behind' = TRUE
    /\ UNCHANGED <<acked, cached, open, fetch, calls>>

--------------------------------------------------------------------------------
(* The query. *)

(* On mount, by interval, and on focus, unless a fetch is under way. *)
Poll ==
    /\ fetch = NoFetch
    /\ fetch' = Asked
    /\ UNCHANGED <<changes, server, cached, open, calls, behind>>

FetchRead ==
    /\ fetch.at = "asked"
    /\ fetch' = [at |-> "read", list |-> Due]
    /\ behind' = FALSE
    /\ UNCHANGED <<changes, server, cached, open, calls>>

FetchAnswered ==
    /\ fetch.at = "read"
    /\ fetch' = NoFetch
    /\ cached' = fetch.list
    /\ UNCHANGED <<changes, server, open, calls, behind>>

FetchFails ==
    /\ fetch # NoFetch
    /\ fetch' = NoFetch
    /\ behind' = TRUE
    /\ UNCHANGED <<changes, server, cached, open, calls>>

--------------------------------------------------------------------------------
(* The bell. *)

Acking == \E c \in calls : c.heard /\ ~c.dismisses

Sent(vms, dismisses) ==
    [vms |-> vms, dismisses |-> dismisses, at |-> "sent", dates |-> <<>>,
     heard |-> TRUE, previous |-> cached]

Unread == {d \in cached : d.unread}

(* Opening acknowledges all, without naming any. *)
Open ==
    /\ ~open
    /\ open' = TRUE
    /\ IF Unread # {} /\ ~Acking
       THEN /\ Cardinality(calls) < MaxCalls
            /\ calls' = calls \cup {Sent(Vms, FALSE)}
       ELSE UNCHANGED calls
    /\ UNCHANGED <<changes, server, cached, fetch, behind>>

Close ==
    /\ open
    /\ open' = FALSE
    /\ UNCHANGED <<changes, server, cached, fetch, calls, behind>>

(* onMutate of dismiss: a fetch under way is cancelled, the alert leaves the list. *)
Dismiss(d) ==
    /\ open
    /\ d \in cached
    /\ Cardinality(calls) < MaxCalls
    /\ calls' = calls \cup {Sent({d.vm}, TRUE)}
    /\ cached' = {e \in cached : e.vm # d.vm}
    /\ fetch' = NoFetch
    /\ UNCHANGED <<changes, server, open, behind>>

(* invalidateQueries: the list is fetched anew, whatever fetch is under way. *)
Acknowledged(c) ==
    /\ c.at = "stored"
    /\ calls' = calls \ {c}
    /\ fetch' = Asked
    /\ UNCHANGED <<changes, server, cached, open, behind>>

(* Variant: a dismissal that failed only puts the list back. *)
SettledOnlyRollsBack(c) == UNCHANGED fetch

(* onSettled of dismiss; a failed acknowledgement of all does nothing. *)
Settled(c) == fetch' = IF c.dismisses THEN Asked ELSE fetch

(* A timeout, or an error before anything was stored: onError puts back the list
   from before this dismissal. *)
AckFails(c) ==
    /\ c.heard
    /\ cached' = IF c.dismisses THEN c.previous ELSE cached
    /\ Settled(c)
    /\ \/ calls' = (calls \ {c}) \cup (IF c.at = "stored" THEN {} ELSE {[c EXCEPT !.heard = FALSE]})
       \/ c.at # "stored" /\ calls' = calls \ {c}
    /\ behind' = (behind \/ (~c.dismisses /\ c.at = "stored"))
    /\ UNCHANGED <<changes, server, open>>

Next ==
    \/ Poll \/ FetchRead \/ FetchAnswered \/ FetchFails
    \/ Open \/ Close
    \/ \E d \in cached : Dismiss(d)
    \/ \E c \in calls : AckRead(c) \/ AckStored(c) \/ Acknowledged(c) \/ AckFails(c)
    \/ \E v \in Vms, d \in Dates \cup {NotDue} : SetDate(v, d)

Spec == Init /\ [][Next]_vars

--------------------------------------------------------------------------------
(* Properties. *)

Quiet == calls = {} /\ fetch = NoFetch

(* When nothing is under way the page lists what the backend lists, unless it was
   changed behind its back: no removal that was undone, no list put back from
   before another dismissal, and no fetch from before an acknowledgement stays. *)
ListIsServers == Quiet /\ ~behind => cached = Due

================================================================================
