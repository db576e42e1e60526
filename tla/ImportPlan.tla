------------------------------ MODULE ImportPlan ------------------------------
(***************************************************************************)
(* What one row of a CSV import does to the VM it matches: curated fields  *)
(* are only filled, and the addresses a row mentions for a role take over  *)
(* the networks of that role that it does not mention, or are added        *)
(* (api/auxiliary/imports.rs: updates, ip_plans, attach_children).         *)
(*                                                                         *)
(* Networks are in the order of sort_order; a row mentions a sequence of   *)
(* addresses in the column of each role.                                   *)
(***************************************************************************)
EXTENDS Naturals, SequencesExt

CONSTANTS
    Texts,          \* what a text field may hold
    Blank,          \* an empty cell, or a field without a value
    Ips,            \* addresses
    MaxNetworks,    \* bound: networks of a VM
    MaxMentions     \* bound: addresses a row mentions, over all its columns

Flags == {"true", "false"}

ASSUME BlankIsNoText == Blank \notin Texts \cup Flags /\ Texts \cap Flags = {}
ASSUME PlanBoundsAreNatural == MaxNetworks \in Nat /\ MaxMentions \in Nat

Roles == {"private", "public", "backup"}

Network == [role: Roles, ip: Ips]

--------------------------------------------------------------------------------
(* A flag that is off counts as if it had never been set. *)
supplied(value) == value \notin {Blank, "false"}

(* Variant: a curated field of the row is written over the one of the VM. *)
FilledOverwriting(old, cell) == IF cell = Blank THEN old ELSE cell

(* updates, for a curated field: what it holds stays if it is supplied; else the
   cell takes its place, unless it is blank. *)
Filled(old, cell) == IF supplied(old) \/ cell = Blank THEN old ELSE cell

(* updates, for the others: a blank cell is no value. *)
Replaced(old, cell) == IF cell = Blank THEN old ELSE cell

--------------------------------------------------------------------------------
Addresses(nets) == {nets[i].ip : i \in DOMAIN nets}
HeldAs(nets, r) == {nets[i].ip : i \in {j \in DOMAIN nets : nets[j].role = r}}

(* What is in s and not in S, each once, in its order. *)
Fresh(s, S) ==
    LET kept[n \in 0 .. Len(s)] ==
            IF n = 0 THEN <<>>
            ELSE IF s[n] \in S \cup Range(kept[n - 1]) THEN kept[n - 1]
            ELSE Append(kept[n - 1], s[n])
    IN  kept[Len(s)]

(* The addresses a column adds: no role holds them or claims them before. *)
New(column, claimed) == Fresh(column, claimed)

(* Variant: any network of the role is taken over. *)
ReusableAny(nets, r, column) ==
    Fresh([i \in DOMAIN nets |-> i], {i \in DOMAIN nets : nets[i].role # r})

(* The networks of the role the column does not mention, in their order. *)
Reusable(nets, r, column) ==
    Fresh([i \in DOMAIN nets |-> i],
          {i \in DOMAIN nets : nets[i].role # r \/ nets[i].ip \in Range(column)})

(* Adds the plan of a role to the plans of the roles before it: new addresses
   take over reusable networks as far as there are any, the rest is inserted. *)
Plan(plan, r, nets, column) ==
    LET new == New(column, plan.claimed)
        free == Reusable(nets, r, column)
        n == IF Len(new) < Len(free) THEN Len(new) ELSE Len(free)
    IN  [claimed |-> plan.claimed \cup Range(new),
         retargets |-> plan.retargets \cup {<<free[k], new[k]>> : k \in 1 .. n},
         inserts |-> plan.inserts \o
            [k \in 1 .. Len(new) - n |-> [role |-> r, ip |-> new[n + k]]]]

(* The columns private_ip, public_ip and backup_ip are planned in this order. *)
Plans(nets, row) ==
    LET none == [claimed |-> Addresses(nets), retargets |-> {}, inserts |-> <<>>]
        private == Plan(none, "private", nets, row["private"])
        public == Plan(private, "public", nets, row["public"])
    IN  Plan(public, "backup", nets, row["backup"])

(* attach_children, for the networks. *)
Attached(nets, row) ==
    LET plans == Plans(nets, row) IN
    [i \in DOMAIN nets |->
        IF \E t \in plans.retargets : t[1] = i
        THEN [nets[i] EXCEPT !.ip = (CHOOSE t \in plans.retargets : t[1] = i)[2]]
        ELSE nets[i]]
    \o plans.inserts

--------------------------------------------------------------------------------
(* Properties of the plan. *)

(* The networks a VM may have: nothing keeps an address from being there twice. *)
NetworkLists == BoundedSeq(Network, MaxNetworks)

(* What a row may mention: one address in several columns, or twice in one. *)
MentionLists ==
    {row \in [Roles -> BoundedSeq(Ips, MaxMentions)] :
        Len(row["private"]) + Len(row["public"]) + Len(row["backup"]) <= MaxMentions}

(* A column mentions an address that another role holds. *)
Displaces(nets, row) ==
    \E r \in Roles : Range(row[r]) \cap (Addresses(nets) \ HeldAs(nets, r)) # {}

(* Two networks share an address only if they did before. *)
NoNewRepeats(nets, after) ==
    \A i, j \in DOMAIN after :
        i # j /\ after[i].ip = after[j].ip =>
            i \in DOMAIN nets /\ j \in DOMAIN nets /\ nets[i].ip = nets[j].ip

(* However the columns of a row overlap, the VM gets no address a second time, and
   an address keeps its role when the column of its role mentions it.  Unless a
   column mentions an address of another role, all that is mentioned is there, and
   a second import of the row finds nothing to do. *)
IsSound(nets, row) ==
    LET after == Attached(nets, row) IN
    /\ NoNewRepeats(nets, after)
    /\ \A r \in Roles : HeldAs(nets, r) \cap Range(row[r]) \subseteq HeldAs(after, r)
    /\ ~Displaces(nets, row) =>
        /\ \A r \in Roles : Range(row[r]) \subseteq Addresses(after)
        /\ Attached(after, row) = after

================================================================================
