------------------------------ MODULE MCAccounts ------------------------------
(* Accounts on small instances. *)
EXTENDS Accounts, TLC

(* The founders, and the accounts made later, are interchangeable among
   themselves, addresses and requests too. *)
Symmetry ==
    Permutations(Founders) \cup Permutations(Ids \ Founders)
        \cup Permutations(Emails) \cup Permutations(Requests)

================================================================================
