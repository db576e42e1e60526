------------------------------- MODULE Accounts -------------------------------
(***************************************************************************)
(* Accounts and the ways into them: first-time setup, login with a local   *)
(* password or through the directory, refresh, and the administration of   *)
(* users (api/auth.rs, core/ldap.rs, api/accounts/mod.rs, api/deps.rs).    *)
(*                                                                         *)
(* A request takes one action per statement on table users.  Setup, update *)
(* and delete lock the table until they commit and are one action; logins  *)
(* and creation do not lock, but their writes wait for whoever does.       *)
(* Between authorization and the table lock, and between the steps of a    *)
(* login, anybody else may act.                                            *)
(*                                                                         *)
(* Session generations are in RestoreGate, attempts are not counted here   *)
(* (a refusal is an Abandon), roles below administrator are alike.         *)
(***************************************************************************)
EXTENDS Integers

CONSTANTS
    Ids,            \* identifiers of accounts, each given at most once
    NoId,           \* no account
    Emails,         \* addresses
    NoEmail,        \* no address
    Founders,       \* accounts that may exist initially
    Requests,       \* requests, each sent at most once
    DirectoryRoles  \* roles a directory may be configured to give

Roles == {"admin", "viewer"}

ASSUME Sentinels == NoId \notin Ids /\ NoEmail \notin Emails
ASSUME FoundersAreAccounts == Founders \subseteq Ids
ASSUME DirectoryGivesRoles == DirectoryRoles \subseteq Roles

VARIABLES
    present,    \* the accounts in table users
    row,        \* their rows; a deleted account keeps its last one
    used,       \* identifiers given so far
    lastSecret, \* the newest password hash
    tokens,     \* sessions handed out
    pc,         \* where each request is
    claim,      \* the session a request is about to be given, or acts under
    entry,      \* the address of the directory entry a login was bound to
    mapped,     \* roles the groups of the directory give; {}: no directory
    setups      \* history: how often setup succeeded

table == <<present, row, used, lastSecret>>
vars == <<present, row, used, lastSecret, tokens, pc, claim, entry, setups, mapped>>

Sources == {"local", "ldap"}
Statuses == {"active", "inactive"}

(* secret stands for the stored hash, different for every password set. *)
Row == [email: Emails \cup {NoEmail}, role: Roles, status: Statuses,
        source: Sources, secret: Nat]

(* A session or refresh token: the account, the hash its fingerprint covers;
   history: the hash its login was checked against and the way it came in. *)
Token == [id: Ids, secret: Nat, proven: Nat, via: Sources]

Blank == [email |-> NoEmail, role |-> "viewer", status |-> "inactive",
          source |-> "local", secret |-> 0]
NoClaim == [id |-> NoId, secret |-> 0, proven |-> 0, via |-> "local"]

Stages == {"new", "bound", "inserting", "syncing", "verified", "authorized",
           "done"}

Holders(e) == {i \in present : row[i].email = e}
IsActiveAdmin(i) == row[i].role = "admin" /\ row[i].status = "active"
ActiveAdmins == {i \in present : IsActiveAdmin(i)}
Fresh == Ids \ used

(* What a login proves: the row it read, by the way it came in. *)
ClaimOf(i, way) ==
    [id |-> i, secret |-> row[i].secret, proven |-> row[i].secret, via |-> way]

(* The fingerprint covers the password hash, and the account must be active. *)
Accepted(t) ==
    /\ t.id \in present
    /\ row[t.id].status = "active"
    /\ row[t.id].secret = t.secret

(* An empty table before setup, or accounts made earlier, all logged in.  The
   directory is configured by an administrator, never before setup. *)
Founded(P) ==
    \E rows \in [P -> [email: Emails, role: Roles, status: Statuses,
                       source: Sources, secret: {0}]] :
        /\ \A i, j \in P : (rows[i].email = rows[j].email) => (i = j)
        /\ \E i \in P : rows[i].role = "admin" /\ rows[i].status = "active"
        /\ row = [i \in Ids |-> IF i \in P THEN rows[i] ELSE Blank]
        /\ tokens = {[id |-> i, secret |-> 0, proven |-> 0,
                      via |-> rows[i].source] : i \in P}

Init ==
    /\ \/ /\ mapped = {}
          /\ present = {}
          /\ row = [i \in Ids |-> Blank]
          /\ tokens = {}
          /\ setups = 0
       \/ /\ mapped \in SUBSET DirectoryRoles
          /\ present = Founders
          /\ Founded(Founders)
          /\ setups = 1
    /\ used = present
    /\ lastSecret = 0
    /\ pc = [r \in Requests |-> "new"]
    /\ claim = [r \in Requests |-> NoClaim]
    /\ entry = [r \in Requests |-> NoEmail]

Goto(r, from, to) ==
    /\ pc[r] = from
    /\ pc' = [pc EXCEPT ![r] = to]

(* A row with a new identifier and a new hash; addresses are unique. *)
Insert(i, e, ro, st, src) ==
    /\ i \in Fresh
    /\ Holders(e) = {}
    /\ present' = present \cup {i}
    /\ used' = used \cup {i}
    /\ lastSecret' = lastSecret + 1
    /\ row' = [row EXCEPT ![i] = [email |-> e, role |-> ro, status |-> st,
                                  source |-> src, secret |-> lastSecret + 1]]

(* The claim of whoever has just been inserted as i. *)
ClaimInserted(r, i, way) ==
    claim' = [claim EXCEPT ![r] = [id |-> i, secret |-> lastSecret + 1,
                                   proven |-> lastSecret + 1, via |-> way]]

--------------------------------------------------------------------------------
(* Ways in. *)

(* Variant: the table is not locked and counted again, setup is always open. *)
SetupUnchecked(r) ==
    /\ Goto(r, "new", "verified")
    /\ \E i \in Ids, e \in Emails :
        /\ Insert(i, e, "admin", "active", "local")
        /\ ClaimInserted(r, i, "local")
    /\ setups' = setups + 1
    /\ UNCHANGED <<tokens, entry, mapped>>

Setup(r) ==
    /\ Goto(r, "new", "verified")
    /\ present = {}
    /\ \E i \in Ids, e \in Emails :
        /\ Insert(i, e, "admin", "active", "local")
        /\ ClaimInserted(r, i, "local")
    /\ setups' = setups + 1
    /\ UNCHANGED <<tokens, entry, mapped>>

(* The password matches the hash that was read with the row. *)
LoginLocal(r) ==
    /\ Goto(r, "new", "verified")
    /\ \E i \in present :
        /\ row[i].source = "local"
        /\ row[i].status = "active"
        /\ claim' = [claim EXCEPT ![r] = ClaimOf(i, "local")]
    /\ UNCHANGED <<table, tokens, entry, setups, mapped>>

(* Nobody, or an active directory account, has the address typed in; the
   directory resolves it to an entry, perhaps with another address, and
   accepts the password. *)
BindDirectory(r) ==
    /\ Goto(r, "new", "bound")
    /\ mapped # {}
    /\ \E typed \in Emails : \A i \in Holders(typed) :
        row[i].status = "active" /\ row[i].source = "ldap"
    /\ \E e \in Emails : entry' = [entry EXCEPT ![r] = e]
    /\ UNCHANGED <<table, tokens, claim, setups, mapped>>

(* Variant: the row of the entry's address is linked whatever its source. *)
FindExistingAnySource(r) ==
    /\ pc[r] = "bound"
    /\ \/ /\ Holders(entry[r]) = {}
          /\ pc' = [pc EXCEPT ![r] = "inserting"]
          /\ UNCHANGED claim
       \/ \E i \in Holders(entry[r]) :
          /\ row[i].status = "active"
          /\ pc' = [pc EXCEPT ![r] = "syncing"]
          /\ claim' = [claim EXCEPT ![r] = ClaimOf(i, "ldap")]
    /\ UNCHANGED <<table, tokens, entry, setups, mapped>>

FindExisting(r) ==
    /\ pc[r] = "bound"
    /\ \/ /\ Holders(entry[r]) = {}
          /\ pc' = [pc EXCEPT ![r] = "inserting"]
          /\ UNCHANGED claim
       \/ \E i \in Holders(entry[r]) :
          /\ row[i].status = "active"
          /\ row[i].source = "ldap"
          /\ pc' = [pc EXCEPT ![r] = "syncing"]
          /\ claim' = [claim EXCEPT ![r] = ClaimOf(i, "ldap")]
    /\ UNCHANGED <<table, tokens, entry, setups, mapped>>

(* The role of the entry's groups is written to the row by its identifier,
   whatever happened to it meanwhile; a deleted row is an error. *)
SyncRole(r) ==
    /\ Goto(r, "syncing", "verified")
    /\ LET i == claim[r].id
       IN  /\ i \in present
           /\ \E ro \in mapped : row' = [row EXCEPT ![i].role = ro]
           /\ claim' = [claim EXCEPT ![r] = ClaimOf(i, "ldap")]
    /\ UNCHANGED <<present, used, lastSecret, tokens, entry, setups, mapped>>

InsertDirectory(r) ==
    /\ Goto(r, "inserting", "verified")
    /\ \E i \in Ids, ro \in mapped :
        /\ Insert(i, entry[r], ro, "active", "ldap")
        /\ ClaimInserted(r, i, "ldap")
    /\ UNCHANGED <<tokens, entry, setups, mapped>>

(* The refresh token's fingerprint is compared with the row read now. *)
Refresh(r) ==
    /\ Goto(r, "new", "verified")
    /\ \E t \in tokens :
        /\ Accepted(t)
        /\ claim' = [claim EXCEPT ![r] = t]
    /\ UNCHANGED <<table, tokens, entry, setups, mapped>>

(* Variant: the fingerprint is made of the row as it is now. *)
IssueFromCurrentRow(r) ==
    /\ Goto(r, "verified", "done")
    /\ tokens' = tokens \cup
           {[claim[r] EXCEPT !.secret = row[claim[r].id].secret]}
    /\ UNCHANGED <<table, claim, entry, setups, mapped>>

(* The cookies are made of the row the login read. *)
Issue(r) ==
    /\ Goto(r, "verified", "done")
    /\ tokens' = tokens \cup {claim[r]}
    /\ UNCHANGED <<table, claim, entry, setups, mapped>>

--------------------------------------------------------------------------------
(* Administration. *)

Authorize(r) ==
    /\ Goto(r, "new", "authorized")
    /\ \E t \in tokens :
        /\ Accepted(t)
        /\ row[t.id].role = "admin"
        /\ claim' = [claim EXCEPT ![r] = t]
    /\ UNCHANGED <<table, tokens, entry, setups, mapped>>

CreateUser(r) ==
    /\ Goto(r, "authorized", "done")
    /\ \E i \in Ids, e \in Emails, ro \in Roles, st \in Statuses :
        Insert(i, e, ro, st, "local")
    /\ UNCHANGED <<tokens, claim, entry, setups, mapped>>

(* The count of active administrators, under the lock, exceeds one. *)
MayLose(i) == IsActiveAdmin(i) => ActiveAdmins \ {i} # {}

UpdateUser(r) ==
    /\ Goto(r, "authorized", "done")
    /\ \E i \in present, ro \in Roles, st \in Statuses :
        /\ (ro # "admin" \/ st # "active") => MayLose(i)
        /\ \/ /\ row' = [row EXCEPT ![i].role = ro, ![i].status = st]
              /\ UNCHANGED lastSecret
           \/ /\ row' = [row EXCEPT ![i].role = ro, ![i].status = st,
                                    ![i].secret = lastSecret + 1]
              /\ lastSecret' = lastSecret + 1
    /\ UNCHANGED <<present, used, tokens, claim, entry, setups, mapped>>

(* Variant: who deletes is trusted to be an administrator who remains. *)
DeleteUserTrusting(r) ==
    /\ Goto(r, "authorized", "done")
    /\ \E i \in present \ {claim[r].id} : present' = present \ {i}
    /\ UNCHANGED <<row, used, lastSecret, tokens, claim, entry, setups, mapped>>

(* An account that others refer to is kept: the request is refused. *)
DeleteUser(r) ==
    /\ Goto(r, "authorized", "done")
    /\ \E i \in present \ {claim[r].id} :
        /\ MayLose(i)
        /\ present' = present \ {i}
    /\ UNCHANGED <<row, used, lastSecret, tokens, claim, entry, setups, mapped>>

(* Any refusal, any error, any client that goes away. *)
Abandon(r) ==
    /\ pc[r] # "done"
    /\ pc' = [pc EXCEPT ![r] = "done"]
    /\ UNCHANGED <<table, tokens, claim, entry, setups, mapped>>

(* Everybody has been answered. *)
Quiescent ==
    /\ \A r \in Requests : pc[r] = "done"
    /\ UNCHANGED vars

--------------------------------------------------------------------------------

Enter(r) ==
    \/ Setup(r)
    \/ LoginLocal(r)
    \/ BindDirectory(r)
    \/ FindExisting(r)
    \/ SyncRole(r)
    \/ InsertDirectory(r)
    \/ Refresh(r)
    \/ Issue(r)

Administer(r) ==
    \/ Authorize(r)
    \/ CreateUser(r)
    \/ UpdateUser(r)
    \/ DeleteUser(r)

Next ==
    \/ \E r \in Requests : Enter(r) \/ Administer(r) \/ Abandon(r)
    \/ Quiescent

Spec == Init /\ [][Next]_vars

--------------------------------------------------------------------------------
(* Properties. *)

(* Types, and what a request has at each stage. *)
TypeOK ==
    /\ used \in SUBSET Ids
    /\ present \in SUBSET used
    /\ row \in [Ids -> Row]
    /\ lastSecret \in Nat
    /\ tokens \in SUBSET Token
    /\ pc \in [Requests -> Stages]
    /\ claim \in [Requests -> Token \cup {NoClaim}]
    /\ entry \in [Requests -> Emails \cup {NoEmail}]
    /\ setups \in Nat
    /\ mapped \in SUBSET DirectoryRoles
    /\ \A r \in Requests :
        /\ pc[r] \in {"syncing", "verified", "authorized"} => claim[r] \in Token
        /\ pc[r] \in {"bound", "inserting"} => entry[r] \in Emails

(* RUNBOOK.md: "Local credentials never fall back to LDAP.  LDAP identities
   cannot claim an existing local account, even through an email alias."  Not
   even when the local account appears while the login is under way. *)
CredentialsStayApart ==
    /\ \A t \in tokens : t.via = row[t.id].source
    /\ \A r \in Requests : pc[r] = "syncing" => row[claim[r].id].source = "ldap"

(* A session that is accepted comes from a login against the password that is
   set now, also when it was reset while that login was under way. *)
SessionsProveCurrentPassword ==
    \A t \in tokens : Accepted(t) => t.proven = row[t.id].secret

(* The directory gives nobody a lower role, or there is none. *)
DemotesNobody == mapped \subseteq {"admin"}

(* While there are accounts one of them can administer, if the directory demotes
   nobody. *)
SomeActiveAdmin == DemotesNobody /\ present # {} => ActiveAdmins # {}

(* Setup makes "the first local administrator" (API.md), once: no sequence of
   requests that the count lets pass empties the table again. *)
SetupOnce == DemotesNobody => setups <= 1

(* No step but a directory's own demotion takes the last administrator away. *)
AdminsVanishOnlyByDirectory ==
    [][(ActiveAdmins # {} /\ ActiveAdmins' = {}) =>
        \E r \in Requests : pc[r] = "syncing" /\ pc'[r] = "verified"]_vars

================================================================================
