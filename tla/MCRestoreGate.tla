----------------------------- MODULE MCRestoreGate -----------------------------
(* RestoreGate on small instances. *)
EXTENDS RestoreGate, TLC

(* Requests are interchangeable, and so are restores and accounts. *)
Symmetry == Permutations(Requests) \cup Permutations(Restores)
            \cup Permutations(Users)

(* Bound: all clients act where the process does not die, all but one where it
   does. *)
Bounded == crashes = 0 \/ \E a \in Actors : pc[a] = "new"

(* Then the last one stays away. *)
AllButOne ==
    /\ up /\ crashes > 0
    /\ \E a \in Actors : pc[a] = "new" /\ \A b \in Actors \ {a} : pc[b] = "done"
    /\ UNCHANGED vars

BoundedNext == (Next /\ Bounded') \/ AllButOne

BoundedSpec == Init /\ [][BoundedNext]_vars

================================================================================
