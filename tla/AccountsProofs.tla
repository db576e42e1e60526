---------------------------- MODULE AccountsProofs ----------------------------
(***************************************************************************)
(* What Accounts promises for any number of accounts, addresses and        *)
(* requests, in layers:                                                    *)
(*   TypeOK       types, and what a request has at each stage;             *)
(*   ClaimsInv    sessions, given or about to be, name accounts made, by   *)
(*                the way in their rows say, and prove their fingerprint;  *)
(*   AdminsInv    if the directory demotes nobody, accounts that exist     *)
(*                have an administrator, and they exist after setup.       *)
(* After them, the promises of LoginLimiter, which stands before a login.  *)
(***************************************************************************)
EXTENDS Accounts, LoginLimiter, TLAPS, FiniteSetTheorems, WellFoundedInduction

Claiming == {"syncing", "verified", "authorized"}

(* A session names an account that was made, by its way in, and was proven
   against the hash in its fingerprint. *)
WellFounded(t) ==
    /\ t.id \in used
    /\ t.via = row[t.id].source
    /\ t.proven = t.secret

ClaimsInv ==
    /\ \A t \in tokens : WellFounded(t)
    /\ \A r \in Requests : pc[r] \in Claiming => WellFounded(claim[r])
    /\ \A r \in Requests : pc[r] = "syncing" => claim[r].via = "ldap"

AdminsInv ==
    DemotesNobody =>
        /\ present # {} => ActiveAdmins # {}
        /\ setups # 0 => present # {}
        /\ \A r \in Requests : pc[r] = "authorized" => present # {}
        /\ setups <= 1

--------------------------------------------------------------------------------

(* An updated row is a row. *)
LEMMA RowUpdated ==
    ASSUME row \in [Ids -> Row], NEW i \in Ids, NEW ro \in Roles, NEW st \in Statuses,
           NEW h \in Nat
    PROVE  /\ [row EXCEPT ![i].role = ro, ![i].status = st] \in [Ids -> Row]
           /\ [row EXCEPT ![i].role = ro, ![i].status = st, ![i].secret = h] \in [Ids -> Row]
<1>1. ASSUME NEW f \in [Ids -> Row]
      PROVE  /\ [f EXCEPT ![i].role = ro] \in [Ids -> Row]
             /\ [f EXCEPT ![i].status = st] \in [Ids -> Row]
             /\ [f EXCEPT ![i].secret = h] \in [Ids -> Row]
  BY DEF Row
<1>2. DEFINE g == [[row EXCEPT ![i].role = ro] EXCEPT ![i].status = st]
<1>3. g \in [Ids -> Row] /\ [g EXCEPT ![i].secret = h] \in [Ids -> Row]
  BY <1>1
<1>4. QED
  BY <1>3

(* Every step keeps the variables' types. *)
THEOREM AccountsTypeCorrect == Spec => []TypeOK
<1> USE DEF Roles, Statuses, Sources, Row, Token, Stages, Blank, NoClaim
<1>1. Init => TypeOK
  <2> SUFFICES ASSUME Init PROVE TypeOK
    OBVIOUS
  <2>1. CASE present = {} /\ row = [i \in Ids |-> Blank] /\ tokens = {} /\ setups = 0
    BY <2>1 DEF Init, TypeOK
  <2>2. CASE present = Founders /\ Founded(Founders) /\ setups = 1
    BY <2>2, FoundersAreAccounts DEF Init, TypeOK, Founded
  <2>3. QED
    BY <2>1, <2>2 DEF Init
<1>2. TypeOK /\ [Next]_vars => TypeOK'
  <2> SUFFICES ASSUME TypeOK, [Next]_vars
               PROVE  TypeOK'
    OBVIOUS
  <2> USE DirectoryGivesRoles DEF TypeOK, Goto, table, Holders, Insert, Fresh, ClaimInserted, ClaimOf
  <2>1. ASSUME NEW r \in Requests, Setup(r)  PROVE TypeOK'
    BY <2>1 DEF Setup
  <2>2. ASSUME NEW r \in Requests, LoginLocal(r)  PROVE TypeOK'
    BY <2>2 DEF LoginLocal
  <2>3. ASSUME NEW r \in Requests, BindDirectory(r)  PROVE TypeOK'
    BY <2>3 DEF BindDirectory
  <2>4. ASSUME NEW r \in Requests, FindExisting(r)  PROVE TypeOK'
    BY <2>4 DEF FindExisting
  <2>5. ASSUME NEW r \in Requests, SyncRole(r)  PROVE TypeOK'
    BY <2>5 DEF SyncRole
  <2>6. ASSUME NEW r \in Requests, InsertDirectory(r)  PROVE TypeOK'
    BY <2>6 DEF InsertDirectory
  <2>7. ASSUME NEW r \in Requests, Refresh(r)  PROVE TypeOK'
    BY <2>7 DEF Refresh
  <2>8. ASSUME NEW r \in Requests, Issue(r)  PROVE TypeOK'
    BY <2>8 DEF Issue
  <2>9. ASSUME NEW r \in Requests, Authorize(r)  PROVE TypeOK'
    BY <2>9 DEF Authorize
  <2>10. ASSUME NEW r \in Requests, CreateUser(r)  PROVE TypeOK'
    BY <2>10 DEF CreateUser
  <2>11. ASSUME NEW r \in Requests, UpdateUser(r)  PROVE TypeOK'
    <3>1. PICK i \in present, ro \in Roles, st \in Statuses :
              \/ /\ row' = [row EXCEPT ![i].role = ro, ![i].status = st]
                 /\ UNCHANGED lastSecret
              \/ /\ row' = [row EXCEPT ![i].role = ro, ![i].status = st,
                                       ![i].secret = lastSecret + 1]
                 /\ lastSecret' = lastSecret + 1
      BY <2>11 DEF UpdateUser
    <3>2. row[i] \in Row /\ i \in Ids /\ lastSecret + 1 \in Nat
      OBVIOUS
    <3>3. row' \in [Ids -> Row] /\ lastSecret' \in Nat
      <4> HIDE DEF TypeOK, Roles, Statuses, Row, Token, Blank, Stages
      <4>1. row \in [Ids -> Row] /\ lastSecret \in Nat
        BY DEF TypeOK
      <4>2. /\ [row EXCEPT ![i].role = ro, ![i].status = st] \in [Ids -> Row]
            /\ [row EXCEPT ![i].role = ro, ![i].status = st,
                           ![i].secret = lastSecret + 1] \in [Ids -> Row]
        BY <3>2, <4>1, RowUpdated
      <4>3. QED
        BY <3>1, <3>2, <4>1, <4>2
    <3>4. QED
      BY <2>11, <3>3 DEF UpdateUser
  <2>12. ASSUME NEW r \in Requests, DeleteUser(r)  PROVE TypeOK'
    BY <2>12 DEF DeleteUser
  <2>13. ASSUME NEW r \in Requests, Abandon(r)  PROVE TypeOK'
    BY <2>13 DEF Abandon
  <2>14. CASE UNCHANGED vars
    BY <2>14 DEF vars
  <2>15. QED
    BY <2>1, <2>2, <2>3, <2>4, <2>5, <2>6, <2>7, <2>8, <2>9, <2>10, <2>11, <2>12, <2>13, <2>14
    DEF Next, Enter, Administer, Quiescent
<1>3. QED
  BY <1>1, <1>2, PTL DEF Spec

--------------------------------------------------------------------------------

(* An identifier is given once and its row keeps its source for good. *)
LEMMA SourcesStay ==
    ASSUME TypeOK, [Next]_vars
    PROVE  /\ used \subseteq used'
           /\ \A i \in used : row'[i].source = row[i].source
<1> USE DEF TypeOK, Row, table
<1>1. ASSUME NEW i \in Ids, NEW e, NEW ro, NEW st, NEW src, Insert(i, e, ro, st, src)
      PROVE  used \subseteq used' /\ \A j \in used : row'[j].source = row[j].source
  BY <1>1 DEF Insert, Fresh
<1>2. ASSUME UNCHANGED <<row, used>>
      PROVE  used \subseteq used' /\ \A j \in used : row'[j].source = row[j].source
  BY <1>2
<1>3. ASSUME NEW r \in Requests, SyncRole(r)
      PROVE  used \subseteq used' /\ \A j \in used : row'[j].source = row[j].source
  BY <1>3 DEF SyncRole
<1>4. ASSUME NEW r \in Requests, UpdateUser(r)
      PROVE  used \subseteq used' /\ \A j \in used : row'[j].source = row[j].source
  BY <1>4 DEF UpdateUser
<1>5. ASSUME NEW r \in Requests,
             Setup(r) \/ InsertDirectory(r) \/ CreateUser(r)
      PROVE  used \subseteq used' /\ \A j \in used : row'[j].source = row[j].source
  BY <1>1, <1>5 DEF Setup, InsertDirectory, CreateUser, Sources
<1>6. ASSUME NEW r \in Requests,
             \/ LoginLocal(r) \/ BindDirectory(r) \/ FindExisting(r) \/ Refresh(r)
             \/ Issue(r) \/ Authorize(r) \/ DeleteUser(r) \/ Abandon(r)
      PROVE  UNCHANGED <<row, used>>
  BY <1>6 DEF LoginLocal, BindDirectory, FindExisting, Refresh, Issue, Authorize,
              DeleteUser, Abandon
<1>7. QED
  BY <1>2, <1>3, <1>4, <1>5, <1>6 DEF Next, Enter, Administer, Quiescent, vars

(* What is well founded stays so. *)
LEMMA WellFoundedStays ==
    ASSUME TypeOK, [Next]_vars, NEW t, WellFounded(t)
    PROVE  WellFounded(t)'
BY SourcesStay DEF WellFounded

(* Who has just been inserted, or read from the table, has a good claim. *)
LEMMA GoodClaims ==
    ASSUME TypeOK
    PROVE  /\ \A i \in present, way \in Sources :
                  row[i].source = way => WellFounded(ClaimOf(i, way))
           /\ \A r \in Requests, i \in Ids, e \in Emails, ro \in Roles, way \in Sources :
                  (Insert(i, e, ro, "active", way) /\ ClaimInserted(r, i, way)) =>
                      WellFounded(claim[r])'
BY DEF TypeOK, WellFounded, ClaimOf, Insert, ClaimInserted, Fresh

(* Sessions are founded on the accounts they name. *)
THEOREM ClaimsFounded == Spec => []ClaimsInv
<1>1. Init => ClaimsInv
  <2> SUFFICES ASSUME Init PROVE ClaimsInv
    OBVIOUS
  <2>1. CASE tokens = {}
    BY <2>1 DEF Init, ClaimsInv, Claiming
  <2>2. CASE present = Founders /\ Founded(Founders)
    <3>1. PICK rows \in [Founders -> [email: Emails, role: Roles, status: Statuses,
                                      source: Sources, secret: {0}]] :
              /\ row = [i \in Ids |-> IF i \in Founders THEN rows[i] ELSE Blank]
              /\ tokens = {[id |-> i, secret |-> 0, proven |-> 0,
                            via |-> rows[i].source] : i \in Founders}
      BY <2>2 DEF Founded
    <3>2. ASSUME NEW i \in Founders  PROVE row[i] = rows[i]
      BY <3>1, FoundersAreAccounts
    <3>3. used = Founders
      BY <2>2 DEF Init
    <3>4. ASSUME NEW t \in tokens  PROVE WellFounded(t)
      <4>1. PICK i \in Founders :
                t = [id |-> i, secret |-> 0, proven |-> 0, via |-> rows[i].source]
        BY <3>1
      <4>2. t.id = i /\ t.proven = t.secret /\ t.via = rows[i].source
        BY <4>1
      <4>3. QED
        BY <3>2, <3>3, <4>2 DEF WellFounded
    <3>5. QED
      BY <3>4 DEF Init, ClaimsInv, Claiming
  <2>3. QED
    BY <2>1, <2>2 DEF Init
<1>2. TypeOK /\ ClaimsInv /\ [Next]_vars => ClaimsInv'
  <2> SUFFICES ASSUME TypeOK, ClaimsInv, [Next]_vars
               PROVE  ClaimsInv'
    OBVIOUS
  <2> USE DEF Claiming
  <2>1. ASSUME NEW r \in Requests,
               UNCHANGED tokens, pc' = [pc EXCEPT ![r] = pc'[r]],
               pc'[r] \in Claiming => WellFounded(claim[r])',
               pc'[r] = "syncing" => claim'[r].via = "ldap",
               \A q \in Requests \ {r} : claim'[q] = claim[q]
        PROVE  ClaimsInv'
    <3>1. \A t \in tokens' : WellFounded(t)'
      BY <2>1, WellFoundedStays DEF ClaimsInv
    <3>2. ASSUME NEW q \in Requests, pc'[q] \in Claiming
          PROVE  WellFounded(claim[q])' /\ (pc'[q] = "syncing" => claim'[q].via = "ldap")
      <4>1. CASE q = r
        BY <2>1, <3>2, <4>1
      <4>2. CASE q # r
        <5>1. claim'[q] = claim[q] /\ pc'[q] = pc[q]
          BY <2>1, <4>2 DEF TypeOK
        <5>2. WellFounded(claim[q])
          BY <3>2, <5>1 DEF ClaimsInv
        <5>3. \A t : WellFounded(t) => WellFounded(t)'
          BY WellFoundedStays
        <5>4. used \subseteq used' /\ \A i \in used : row'[i].source = row[i].source
          BY SourcesStay
        <5>5. QED
          BY <5>1, <5>2, <5>4, <3>2 DEF ClaimsInv, WellFounded
      <4>3. QED
        BY <4>1, <4>2
    <3>3. QED
      BY <3>1, <3>2 DEF ClaimsInv
  <2>2. ASSUME NEW r \in Requests, Setup(r)  PROVE ClaimsInv'
    BY <2>1, <2>2, GoodClaims DEF Setup, Goto, ClaimInserted, TypeOK, Sources, Roles
  <2>3. ASSUME NEW r \in Requests, LoginLocal(r)  PROVE ClaimsInv'
    BY <2>1, <2>3, GoodClaims DEF LoginLocal, Goto, TypeOK, Sources, WellFounded, table
  <2>4. ASSUME NEW r \in Requests, BindDirectory(r)  PROVE ClaimsInv'
    BY <2>1, <2>4 DEF BindDirectory, Goto, TypeOK
  <2>5. ASSUME NEW r \in Requests, FindExisting(r)  PROVE ClaimsInv'
    BY <2>1, <2>5, GoodClaims DEF FindExisting, TypeOK, Sources, WellFounded, table, Holders, ClaimOf
  <2>6. ASSUME NEW r \in Requests, SyncRole(r)  PROVE ClaimsInv'
    BY <2>1, <2>6, SourcesStay DEF SyncRole, Goto, TypeOK, WellFounded, ClaimOf, ClaimsInv, Row
  <2>7. ASSUME NEW r \in Requests, InsertDirectory(r)  PROVE ClaimsInv'
    BY <2>1, <2>7, GoodClaims, DirectoryGivesRoles DEF InsertDirectory, Goto, ClaimInserted, TypeOK, Sources
  <2>8. ASSUME NEW r \in Requests, Refresh(r) \/ Authorize(r)  PROVE ClaimsInv'
    BY <2>1, <2>8 DEF Refresh, Authorize, Goto, TypeOK, ClaimsInv, WellFounded, table
  <2>9. ASSUME NEW r \in Requests, Issue(r)  PROVE ClaimsInv'
    BY <2>9 DEF Issue, Goto, TypeOK, ClaimsInv, WellFounded, table
  <2>10. ASSUME NEW r \in Requests, CreateUser(r) \/ UpdateUser(r) \/ DeleteUser(r) \/ Abandon(r)
         PROVE  ClaimsInv'
    BY <2>1, <2>10 DEF CreateUser, UpdateUser, DeleteUser, Abandon, Goto, TypeOK
  <2>11. CASE UNCHANGED vars
    BY <2>11 DEF vars, ClaimsInv, WellFounded
  <2>12. QED
    BY <2>2, <2>3, <2>4, <2>5, <2>6, <2>7, <2>8, <2>9, <2>10, <2>11
    DEF Next, Enter, Administer, Quiescent
<1>3. QED
  BY <1>1, <1>2, AccountsTypeCorrect, PTL DEF Spec

(* Local passwords open local accounts, the directory opens its own. *)
THEOREM CredentialsApart == Spec => []CredentialsStayApart
<1>1. ClaimsInv => CredentialsStayApart
  BY DEF ClaimsInv, CredentialsStayApart, WellFounded, Claiming
<1>2. QED
  BY <1>1, ClaimsFounded, PTL

(* A session that is accepted was proven with the password set now. *)
THEOREM SessionsAreCurrent == Spec => []SessionsProveCurrentPassword
<1>1. ClaimsInv => SessionsProveCurrentPassword
  BY DEF ClaimsInv, SessionsProveCurrentPassword, WellFounded, Accepted
<1>2. QED
  BY <1>1, ClaimsFounded, PTL

--------------------------------------------------------------------------------

(* A row that changes after its account was made keeps its administrator when
   the handler that changes it checked. *)
LEMMA AdminsSurvive ==
    ASSUME TypeOK, [Next]_vars, ActiveAdmins # {}
    PROVE  \/ ActiveAdmins' # {}
           \/ \E r \in Requests : SyncRole(r)
<1> USE DEF TypeOK, table, Row, ActiveAdmins, IsActiveAdmin
<1>1. ASSUME NEW i \in Ids, NEW e, NEW ro, NEW st, NEW src, Insert(i, e, ro, st, src)
      PROVE  ActiveAdmins' # {}
  BY <1>1 DEF Insert, Fresh
<1>2. ASSUME NEW r \in Requests, UpdateUser(r)
      PROVE  ActiveAdmins' # {}
  <2>1. PICK i \in present, ro \in Roles, st \in Statuses :
            /\ (ro # "admin" \/ st # "active") => MayLose(i)
            /\ \/ row' = [row EXCEPT ![i].role = ro, ![i].status = st]
               \/ row' = [row EXCEPT ![i].role = ro, ![i].status = st,
                                     ![i].secret = lastSecret + 1]
    BY <1>2 DEF UpdateUser
  <2>2. present' = present
    BY <1>2 DEF UpdateUser
  <2>3. row'[i].role = ro /\ row'[i].status = st
    BY <2>1
  <2>4. \A j \in present \ {i} : row'[j] = row[j]
    BY <2>1
  <2>5. CASE ro = "admin" /\ st = "active"
    BY <2>2, <2>3, <2>5
  <2>6. CASE (ro # "admin" \/ st # "active") /\ IsActiveAdmin(i)
    BY <2>1, <2>2, <2>4, <2>6 DEF MayLose
  <2>7. CASE ~IsActiveAdmin(i)
    BY <2>2, <2>4, <2>7
  <2>8. QED
    BY <2>5, <2>6, <2>7
<1>3. ASSUME NEW r \in Requests, DeleteUser(r)
      PROVE  ActiveAdmins' # {}
  BY <1>3 DEF DeleteUser, MayLose
<1>4. ASSUME UNCHANGED <<present, row>>
      PROVE  ActiveAdmins' # {}
  BY <1>4
<1>5. ASSUME NEW r \in Requests, Setup(r) \/ InsertDirectory(r) \/ CreateUser(r)
      PROVE  ActiveAdmins' # {}
  <2>1. \E i \in Ids : \E e, ro, st, src : Insert(i, e, ro, st, src)
    BY <1>5 DEF Setup, InsertDirectory, CreateUser
  <2>2. QED
    BY <1>1, <2>1
<1>6. ASSUME NEW r \in Requests,
             \/ LoginLocal(r) \/ BindDirectory(r) \/ FindExisting(r) \/ Refresh(r)
             \/ Issue(r) \/ Authorize(r) \/ Abandon(r)
      PROVE  UNCHANGED <<present, row>>
  BY <1>6 DEF LoginLocal, BindDirectory, FindExisting, Refresh, Issue, Authorize, Abandon
<1>7. QED
  BY <1>2, <1>3, <1>4, <1>5, <1>6 DEF Next, Enter, Administer, Quiescent, vars

(* Only the directory takes the last active administrator away. *)
THEOREM OnlyDirectoryDemotesLast == Spec => AdminsVanishOnlyByDirectory
<1>1. TypeOK /\ [Next]_vars =>
          [(ActiveAdmins # {} /\ ActiveAdmins' = {}) =>
              \E r \in Requests : pc[r] = "syncing" /\ pc'[r] = "verified"]_vars
  BY AdminsSurvive DEF SyncRole, Goto, TypeOK
<1>2. QED
  BY <1>1, AccountsTypeCorrect, PTL DEF Spec, AdminsVanishOnlyByDirectory

(* Nobody configures the directory on the way. *)
LEMMA MappingStays ==
    ASSUME [Next]_vars
    PROVE  mapped' = mapped
BY DEF Next, Enter, Administer, Quiescent, vars, Setup, LoginLocal, BindDirectory,
       FindExisting, SyncRole, InsertDirectory, Refresh, Issue, Authorize, CreateUser,
       UpdateUser, DeleteUser, Abandon

(* Where the directory gives no role below administrator, or there is none, an
   installation that has accounts has an active administrator, and setup
   succeeds once. *)
THEOREM AdministratorsRemain == Spec => [](SomeActiveAdmin /\ SetupOnce)
<1>1. Init => AdminsInv
  <2> SUFFICES ASSUME Init PROVE AdminsInv
    OBVIOUS
  <2>1. CASE present = {} /\ setups = 0
    BY <2>1 DEF Init, AdminsInv
  <2>2. CASE present = Founders /\ Founded(Founders) /\ setups = 1
    <3>1. ActiveAdmins # {}
      BY <2>2, FoundersAreAccounts DEF Founded, ActiveAdmins, IsActiveAdmin
    <3>2. QED
      BY <2>2, <3>1 DEF Init, AdminsInv, ActiveAdmins
  <2>3. QED
    BY <2>1, <2>2 DEF Init
<1>2. TypeOK /\ AdminsInv /\ [Next]_vars => AdminsInv'
  <2> SUFFICES ASSUME TypeOK, AdminsInv, [Next]_vars, DemotesNobody
               PROVE  AdminsInv'
    BY MappingStays DEF AdminsInv, DemotesNobody
  <2> USE DEF TypeOK, AdminsInv, Goto, table
  <2>1. ASSUME ActiveAdmins' # {}
        PROVE  present' # {}
    BY <2>1 DEF ActiveAdmins
  <2>2. present # {} => ActiveAdmins # {}
    OBVIOUS
  <2>3. ASSUME NEW r \in Requests, Setup(r)  PROVE AdminsInv'
    <3>1. PICK i \in Ids, e \in Emails : Insert(i, e, "admin", "active", "local")
      BY <2>3 DEF Setup
    <3>2. ActiveAdmins' # {}
      BY <3>1 DEF Insert, ActiveAdmins, IsActiveAdmin
    <3>3. setups' = 1
      BY <2>3 DEF Setup
    <3>4. QED
      BY <2>1, <3>2, <3>3
  <2>4. ASSUME NEW r \in Requests, SyncRole(r)  PROVE AdminsInv'
    <3>1. ActiveAdmins' # {}
      BY <2>4, <2>2 DEF SyncRole, DemotesNobody, ActiveAdmins, IsActiveAdmin, Row
    <3>2. setups' = setups
      BY <2>4 DEF SyncRole
    <3>3. QED
      BY <2>1, <3>1, <3>2
  <2>5. ASSUME NEW r \in Requests, InsertDirectory(r)  PROVE AdminsInv'
    <3>1. PICK i \in Ids, ro \in mapped : Insert(i, entry[r], ro, "active", "ldap")
      BY <2>5 DEF InsertDirectory
    <3>2. ro = "admin"
      BY DEF DemotesNobody
    <3>3. ActiveAdmins' # {}
      BY <3>1, <3>2 DEF Insert, ActiveAdmins, IsActiveAdmin
    <3>4. setups' = setups
      BY <2>5 DEF InsertDirectory
    <3>5. QED
      BY <2>1, <3>3, <3>4
  <2>6. ASSUME NEW r \in Requests,
               CreateUser(r) \/ UpdateUser(r) \/ DeleteUser(r)
        PROVE  AdminsInv'
    <3>1. ActiveAdmins # {}
      BY <2>6, <2>2 DEF CreateUser, UpdateUser, DeleteUser
    <3>2. ActiveAdmins' # {} \/ \E q \in Requests : SyncRole(q)
      BY <3>1, AdminsSurvive
    <3>3. ASSUME NEW q \in Requests, SyncRole(q)  PROVE AdminsInv'
      BY <2>4, <3>3
    <3>4. setups' = setups
      BY <2>6 DEF CreateUser, UpdateUser, DeleteUser
    <3>5. QED
      BY <2>1, <3>2, <3>3, <3>4
  <2>7. ASSUME NEW r \in Requests, Authorize(r)  PROVE AdminsInv'
    BY <2>7 DEF Authorize, Accepted, ActiveAdmins, IsActiveAdmin
  <2>8. ASSUME NEW r \in Requests,
               \/ LoginLocal(r) \/ BindDirectory(r) \/ FindExisting(r)
               \/ Refresh(r) \/ Issue(r) \/ Abandon(r)
        PROVE  AdminsInv'
    BY <2>8 DEF LoginLocal, BindDirectory, FindExisting, Refresh, Issue, Abandon,
                ActiveAdmins, IsActiveAdmin
  <2>9. CASE UNCHANGED vars
    BY <2>9 DEF vars, ActiveAdmins, IsActiveAdmin
  <2>10. QED
    BY <2>3, <2>4, <2>5, <2>6, <2>7, <2>8, <2>9 DEF Next, Enter, Administer, Quiescent
<1>3. AdminsInv => SomeActiveAdmin /\ SetupOnce
  BY DEF AdminsInv, SomeActiveAdmin, SetupOnce
<1>4. QED
  BY <1>1, <1>2, <1>3, AccountsTypeCorrect, PTL DEF Spec

--------------------------------------------------------------------------------
(* The limiter in front of the logins keeps every budget and its own size, and
   refuses only for the reason it gives, for all keys, limits, windows and
   capacities.  The inductive invariant says that a queue is the end of the log of
   accepted attempts, and that what precedes it in the log has expired. *)

Tracks(t, q, g, limit) ==
    /\ q \in Seq(Nat)
    /\ g \in Seq(Nat)
    /\ Len(q) <= Len(g)
    /\ Len(q) <= limit
    /\ \A i \in 1..Len(q) : q[i] = g[Len(g) - Len(q) + i]
    /\ \A i \in 1..(Len(g) - Len(q)) : t - g[i] >= Window

Sorted(t, g) ==
    /\ \A i \in 1..Len(g) : g[i] <= t
    /\ \A i, j \in 1..Len(g) : i <= j => g[i] <= g[j]

Spread(g, limit) ==
    \A i \in 1..Len(g) : i + limit <= Len(g) => g[i + limit] - g[i] >= Window

LogInv == \A k \in Keys :
    /\ Tracks(now, queues[k], granted[k], Limit[k])
    /\ Sorted(now, granted[k])
    /\ Spread(granted[k], Limit[k])

SizeInv == IsFiniteSet(Entries(queues)) /\ CapacityKept

LimiterInv == LimiterTypeOK /\ LogInv /\ SizeInv /\ RefusedForAReason

--------------------------------------------------------------------------------
(* What is popped is a run of expired attempts, and what is left starts with one
   that still counts. *)
LEMMA PrunedIsSuffix ==
    ASSUME NEW q \in Seq(Nat), now \in Nat
    PROVE  \E n \in 0..Len(q) :
                /\ Pruned(q) = SubSeq(q, n + 1, Len(q))
                /\ \A j \in 1..n : Expired(q[j])
                /\ n = Len(q) \/ ~Expired(q[n + 1])
<1> DEFINE T == {i \in 0..Len(q) : i = Len(q) \/ ~Expired(q[i + 1])}
<1>1. T \subseteq Nat /\ T # {}
    <2>1. Len(q) \in T
        OBVIOUS
    <2> QED
        BY <2>1
<1>2. PICK n \in T : \A m \in T : ~(<<m, n>> \in OpToRel(<, Nat))
    <2> HIDE DEF T
    <2> QED
        BY <1>1, WFMin, NatLessThanWellFounded
<1>3. \A m \in T : ~(m < n)
    BY <1>1, <1>2 DEF OpToRel
<1>4. \A j \in 1..n : Expired(q[j])
    <2> SUFFICES ASSUME NEW j \in 1..n, ~Expired(q[j])
                 PROVE  FALSE
        OBVIOUS
    <2>1. j - 1 \in 0..Len(q) /\ (j - 1) + 1 = j
        OBVIOUS
    <2>2. j - 1 \in T
        BY <2>1
    <2>3. n \in Nat /\ j - 1 < n
        BY <1>1
    <2> HIDE DEF T
    <2> QED
        BY <2>2, <2>3, <1>3
<1>5. \E i \in 0..Len(q) :
            /\ \A j \in 1..i : Expired(q[j])
            /\ i = Len(q) \/ ~Expired(q[i + 1])
    BY <1>4
<1> QED
    BY <1>5 DEF Pruned

(* Popping keeps a queue the end of its log. *)
LEMMA PrunedTracks ==
    ASSUME NEW q, NEW g, NEW limit \in Nat, now \in Nat, Tracks(now, q, g, limit)
    PROVE  /\ Tracks(now, Pruned(q), g, limit)
           /\ Pruned(q) # <<>> => ~Expired(Pruned(q)[1])
           /\ Pruned(q) # <<>> => q # <<>>
<1>1. q \in Seq(Nat) /\ g \in Seq(Nat)
    BY DEF Tracks
<1>2. PICK n \in 0..Len(q) :
            /\ Pruned(q) = SubSeq(q, n + 1, Len(q))
            /\ \A j \in 1..n : now - q[j] >= Window
            /\ n = Len(q) \/ ~(now - q[n + 1] >= Window)
    BY <1>1, PrunedIsSuffix DEF Expired
<1>3. /\ Pruned(q) \in Seq(Nat)
      /\ Len(Pruned(q)) = Len(q) - n
      /\ \A i \in 1..(Len(q) - n) : Pruned(q)[i] = q[n + i]
    BY <1>1, <1>2
<1>4. ASSUME NEW i \in 1..Len(Pruned(q))
      PROVE  Pruned(q)[i] = g[Len(g) - Len(Pruned(q)) + i]
    <2>1. /\ Len(q) \in Nat /\ Len(g) \in Nat
          /\ \A j \in 1..Len(q) : q[j] = g[Len(g) - Len(q) + j]
        BY <1>1 DEF Tracks
    <2>2. /\ n + i \in 1..Len(q) /\ i \in 1..(Len(q) - n)
          /\ Len(g) - Len(Pruned(q)) + i = Len(g) - Len(q) + (n + i)
        BY <1>3, <2>1
    <2>3. Pruned(q)[i] = q[n + i]
        BY <1>3, <2>2
    <2> QED
        BY <2>1, <2>2, <2>3
<1>5. \A i \in 1..(Len(g) - Len(Pruned(q))) : now - g[i] >= Window
    <2> SUFFICES ASSUME NEW i \in 1..(Len(g) - Len(Pruned(q))), i > Len(g) - Len(q)
                 PROVE  now - g[i] >= Window
        BY <1>1 DEF Tracks
    <2> DEFINE j == i - (Len(g) - Len(q))
    <2>1. j \in 1..n /\ j \in 1..Len(q) /\ Len(g) - Len(q) + j = i
        BY <1>1, <1>3
    <2>2. q[j] = g[i]
        BY <2>1 DEF Tracks
    <2> QED
        BY <1>2, <2>1, <2>2
<1>6. Pruned(q) # <<>> => q # <<>> /\ ~Expired(Pruned(q)[1])
    BY <1>1, <1>2, <1>3 DEF Expired
<1> QED
    BY <1>1, <1>3, <1>4, <1>5, <1>6 DEF Tracks

(* An attempt that is accepted extends queue and log, and keeps the log spread. *)
LEMMA AppendTracks ==
    ASSUME NEW q, NEW g, NEW limit \in Nat \ {0}, NEW t \in Nat,
           Tracks(t, q, g, limit), Sorted(t, g), Spread(g, limit), Len(q) < limit
    PROVE  /\ Tracks(t, Append(q, t), Append(g, t), limit)
           /\ Sorted(t, Append(g, t))
           /\ Spread(Append(g, t), limit)
<1> DEFINE q1 == Append(q, t)
           g1 == Append(g, t)
<1>1. q \in Seq(Nat) /\ g \in Seq(Nat)
    BY DEF Tracks
<1>2. /\ q1 \in Seq(Nat) /\ Len(q1) = Len(q) + 1
      /\ \A i \in 1..Len(q) : q1[i] = q[i]
      /\ q1[Len(q) + 1] = t
    BY <1>1
<1>3. /\ g1 \in Seq(Nat) /\ Len(g1) = Len(g) + 1
      /\ \A i \in 1..Len(g) : g1[i] = g[i]
      /\ g1[Len(g) + 1] = t
    BY <1>1
<1> HIDE DEF q1, g1
<1>4. Tracks(t, q1, g1, limit)
    <2>1. Len(q) \in Nat /\ Len(g) \in Nat /\ Len(q) <= Len(g) /\ Len(q) + 1 <= limit
        BY <1>1 DEF Tracks
    <2>2. \A i \in 1..Len(q1) : q1[i] = g1[Len(g1) - Len(q1) + i]
        <3> SUFFICES ASSUME NEW i \in 1..Len(q1)
                     PROVE  q1[i] = g1[Len(g1) - Len(q1) + i]
            OBVIOUS
        <3>1. CASE i \in 1..Len(q)
            <4>1. q[i] = g[Len(g) - Len(q) + i]
                BY <3>1 DEF Tracks
            <4>2. /\ Len(g) - Len(q) + i \in 1..Len(g)
                  /\ Len(g1) - Len(q1) + i = Len(g) - Len(q) + i
                BY <3>1, <2>1, <1>2, <1>3
            <4> QED
                BY <3>1, <4>1, <4>2, <1>2, <1>3
        <3>2. CASE i = Len(q) + 1
            <4>1. Len(g1) - Len(q1) + i = Len(g) + 1
                BY <3>2, <2>1, <1>2, <1>3
            <4> QED
                BY <3>2, <4>1, <1>2, <1>3
        <3> QED
            BY <3>1, <3>2, <2>1, <1>2
    <2>3. \A i \in 1..(Len(g1) - Len(q1)) : t - g1[i] >= Window
        <3> SUFFICES ASSUME NEW i \in 1..(Len(g1) - Len(q1))
                     PROVE  t - g1[i] >= Window
            OBVIOUS
        <3>1. i \in 1..(Len(g) - Len(q)) /\ i \in 1..Len(g)
            BY <2>1, <1>2, <1>3
        <3>2. g1[i] = g[i]
            BY <3>1, <1>3
        <3> QED
            BY <3>1, <3>2 DEF Tracks
    <2> QED
        BY <2>1, <2>2, <2>3, <1>2, <1>3 DEF Tracks
<1>5. Sorted(t, g1)
    <2>1. \A i \in 1..Len(g1) : (i \in 1..Len(g) /\ g1[i] = g[i]) \/ (i = Len(g) + 1 /\ g1[i] = t)
        BY <1>1, <1>3
    <2>2. \A i \in 1..Len(g1) : g1[i] <= t
        <3> SUFFICES ASSUME NEW i \in 1..Len(g1)
                     PROVE  g1[i] <= t
            OBVIOUS
        <3>1. CASE i \in 1..Len(g) /\ g1[i] = g[i]
            BY <3>1 DEF Sorted
        <3>2. CASE g1[i] = t
            BY <3>2
        <3> QED
            BY <2>1, <3>1, <3>2
    <2>3. \A i, j \in 1..Len(g1) : i <= j => g1[i] <= g1[j]
        <3> SUFFICES ASSUME NEW i \in 1..Len(g1), NEW j \in 1..Len(g1), i <= j
                     PROVE  g1[i] <= g1[j]
            OBVIOUS
        <3>1. CASE j = Len(g) + 1
            BY <3>1, <2>2, <1>3
        <3>2. CASE j \in 1..Len(g)
            <4>1. i \in 1..Len(g)
                BY <3>2, <1>1
            <4>2. g[i] <= g[j]
                BY <4>1, <3>2 DEF Sorted
            <4> QED
                BY <4>1, <4>2, <3>2, <1>3
        <3> QED
            BY <3>1, <3>2, <2>1
    <2> QED
        BY <2>2, <2>3 DEF Sorted
<1>6. Spread(g1, limit)
    <2> SUFFICES ASSUME NEW i \in 1..Len(g1), i + limit <= Len(g1)
                 PROVE  g1[i + limit] - g1[i] >= Window
        BY DEF Spread
    <2>3. Len(g) \in Nat /\ Len(g1) = Len(g) + 1
        BY <1>1, <1>3
    <2>4. i \in Nat /\ limit \in Nat
        BY <2>3
    <2>0. i + limit <= Len(g) \/ i + limit = Len(g) + 1
        BY <2>3, <2>4
    <2>1. CASE i + limit <= Len(g)
        <3>1. i \in 1..Len(g) /\ i + limit \in 1..Len(g)
            BY <2>1, <1>1
        <3>2. g[i + limit] - g[i] >= Window
            BY <3>1, <2>1 DEF Spread
        <3> QED
            BY <3>1, <3>2, <1>3
    <2>2. CASE i + limit = Len(g) + 1
        <3>1. i \in 1..(Len(g) - Len(q)) /\ i \in 1..Len(g)
            BY <2>2, <1>1 DEF Tracks
        <3>2. t - g[i] >= Window
            BY <3>1 DEF Tracks
        <3>3. g1[i + limit] = t /\ g1[i] = g[i]
            BY <2>2, <3>1, <1>3
        <3> QED
            BY <3>2, <3>3
    <2> QED
        BY <2>0, <2>1, <2>2
<1> QED
    BY <1>4, <1>5, <1>6 DEF q1, g1

--------------------------------------------------------------------------------
(* Sweeping keeps every queue the end of its log, and adds no entry. *)
LEMMA SweptTracks ==
    ASSUME LimiterInv, NEW k \in Keys
    PROVE  /\ Tracks(now, Swept[k], granted[k], Limit[k])
           /\ Swept[k] # <<>> => queues[k] # <<>>
           /\ SweepDue /\ Swept[k] # <<>> => ~Expired(Swept[k][1])
<1>1. now \in Nat /\ Limit[k] \in Nat /\ Tracks(now, queues[k], granted[k], Limit[k])
    BY LimitsArePositive DEF LimiterInv, LimiterTypeOK, LogInv
<1>2. CASE SweepDue
    <2>1. Swept[k] = Pruned(queues[k])
        BY <1>2 DEF Swept
    <2> QED
        BY <1>1, <2>1, PrunedTracks
<1>3. CASE ~SweepDue
    BY <1>1, <1>3 DEF Swept
<1> QED
    BY <1>2, <1>3

LEMMA SweptIsFunction ==
    ASSUME LimiterInv
    PROVE  Swept \in [Keys -> Seq(Nat)]
<1>1. \A k \in Keys : Swept[k] \in Seq(Nat)
    BY SweptTracks DEF Tracks
<1>2. queues = [k \in Keys |-> queues[k]]
    BY DEF LimiterInv, LimiterTypeOK
<1> QED
    BY <1>1, <1>2 DEF Swept

LEMMA SweptEntries ==
    ASSUME LimiterInv
    PROVE  /\ Entries(Swept) \subseteq Entries(queues)
           /\ IsFiniteSet(Entries(Swept))
           /\ Cardinality(Entries(Swept)) \in Nat
           /\ Cardinality(Entries(queues)) \in Nat
           /\ Cardinality(Entries(Swept)) <= Cardinality(Entries(queues))
<1>1. Entries(Swept) \subseteq Entries(queues)
    BY SweptTracks DEF Entries
<1> QED
    BY <1>1, FS_Subset, FS_CardinalityType DEF LimiterInv, SizeInv

(* What a check leaves in the queue of its key, and in the log. *)
LEMMA CheckShape ==
    ASSUME LimiterInv, NEW k \in Keys, Check(k)
    PROVE  /\ now' = now
           /\ \A j \in Keys \ {k} : queues'[j] = Swept[j] /\ granted'[j] = granted[j]
           /\ queues' \in [Keys -> Seq(Nat)] /\ granted' \in [Keys -> Seq(Nat)]
           /\ Verdict(k) = "full" => queues' = Swept /\ granted' = granted
           /\ Verdict(k) = "limited" =>
                queues'[k] = Pruned(Swept[k]) /\ granted' = granted
           /\ Verdict(k) = "accepted" =>
                /\ queues'[k] = Append(Pruned(Swept[k]), now)
                /\ granted'[k] = Append(granted[k], now)
           /\ Verdict(k) \in {"full", "limited", "accepted"}
<1>1. Swept \in [Keys -> Seq(Nat)] /\ granted \in [Keys -> Seq(Nat)] /\ now \in Nat
    BY SweptIsFunction DEF LimiterInv, LimiterTypeOK
<1>2. Pruned(Swept[k]) \in Seq(Nat)
    BY SweptTracks, PrunedTracks, LimitsArePositive, <1>1 DEF Tracks
<1>3. Verdict(k) \in {"full", "limited", "accepted"}
    BY DEF Verdict
<1>4. CASE Verdict(k) = "full"
    BY <1>1, <1>4 DEF Check
<1>5. CASE Verdict(k) = "limited"
    BY <1>1, <1>2, <1>5 DEF Check
<1>6. CASE Verdict(k) = "accepted"
    BY <1>1, <1>2, <1>6 DEF Check
<1> QED
    BY <1>3, <1>4, <1>5, <1>6

--------------------------------------------------------------------------------
LEMMA LimiterStarts == LimiterInit => LimiterInv
<1> SUFFICES ASSUME LimiterInit
             PROVE  LimiterInv
    OBVIOUS
<1>1. LimiterTypeOK
    BY DEF LimiterInit, LimiterTypeOK
<1>2. LogInv
    BY LimitsArePositive DEF LimiterInit, LogInv, Tracks, Sorted, Spread
<1>3. Entries(queues) = {}
    BY DEF LimiterInit, Entries
<1>4. SizeInv
    BY <1>3, FS_EmptySet, CapacityIsPositive DEF SizeInv, CapacityKept
<1>5. RefusedForAReason
    BY DEF LimiterInit, RefusedForAReason, Unchecked
<1> QED
    BY <1>1, <1>2, <1>4, <1>5 DEF LimiterInv

LEMMA LimiterTicks == LimiterInv /\ Tick => LimiterInv'
<1> SUFFICES ASSUME LimiterInv, Tick
             PROVE  LimiterInv'
    OBVIOUS
<1>1. LimiterTypeOK'
    BY DEF LimiterInv, LimiterTypeOK, Tick
<1>2. now \in Nat /\ now' = now + 1 /\ queues' = queues /\ granted' = granted
    BY DEF Tick, LimiterInv, LimiterTypeOK
<1>3. LogInv'
    <2> SUFFICES ASSUME NEW k \in Keys
                 PROVE  /\ Tracks(now', queues[k], granted[k], Limit[k])
                        /\ Sorted(now', granted[k])
                        /\ Spread(granted[k], Limit[k])
        BY <1>2 DEF LogInv
    <2>1. /\ Tracks(now, queues[k], granted[k], Limit[k])
          /\ Sorted(now, granted[k])
          /\ Spread(granted[k], Limit[k])
        BY DEF LimiterInv, LogInv
    <2>2. granted[k] \in Seq(Nat) /\ queues[k] \in Seq(Nat)
        BY <2>1 DEF Tracks
    <2>3. Tracks(now', queues[k], granted[k], Limit[k])
        <3>1. \A i \in 1..(Len(granted[k]) - Len(queues[k])) : now' - granted[k][i] >= Window
            <4> SUFFICES ASSUME NEW i \in 1..(Len(granted[k]) - Len(queues[k]))
                         PROVE  now' - granted[k][i] >= Window
                OBVIOUS
            <4>1. now - granted[k][i] >= Window
                BY <2>1 DEF Tracks
            <4>2. granted[k][i] \in Nat
                BY <2>2
            <4> QED
                BY <1>2, <4>1, <4>2, TimesArePositive
        <3> QED
            BY <2>1, <3>1 DEF Tracks
    <2>4. Sorted(now', granted[k])
        BY <1>2, <2>1, <2>2 DEF Sorted
    <2> QED
        BY <2>1, <2>3, <2>4
<1>4. SizeInv'
    BY <1>2 DEF LimiterInv, SizeInv, CapacityKept, Entries
<1>5. RefusedForAReason'
    BY DEF Tick, RefusedForAReason, Unchecked
<1> QED
    BY <1>1, <1>3, <1>4, <1>5 DEF LimiterInv

LEMMA CheckKeepsLog ==
    ASSUME LimiterInv, NEW k \in Keys, Check(k)
    PROVE  LogInv'
<1> SUFFICES ASSUME NEW j \in Keys
             PROVE  /\ Tracks(now, queues'[j], granted'[j], Limit[j])
                    /\ Sorted(now, granted'[j])
                    /\ Spread(granted'[j], Limit[j])
    BY CheckShape DEF LogInv
<1>1. /\ now \in Nat /\ Limit[j] \in Nat \ {0}
      /\ Tracks(now, Swept[j], granted[j], Limit[j])
      /\ Sorted(now, granted[j])
      /\ Spread(granted[j], Limit[j])
    BY SweptTracks, LimitsArePositive DEF LimiterInv, LimiterTypeOK, LogInv
<1>2. CASE j # k \/ Verdict(k) = "full"
    BY <1>1, <1>2, CheckShape
<1>3. CASE j = k /\ Verdict(k) = "limited"
    <2>1. Tracks(now, Pruned(Swept[k]), granted[k], Limit[k])
        BY <1>1, <1>3, PrunedTracks
    <2> QED
        BY <1>1, <1>3, <2>1, CheckShape
<1>4. CASE j = k /\ Verdict(k) = "accepted"
    <2>1. Tracks(now, Pruned(Swept[k]), granted[k], Limit[k])
        BY <1>1, <1>4, PrunedTracks
    <2>2. Len(Pruned(Swept[k])) < Limit[k]
        <3>1. ~(Len(Pruned(Swept[k])) >= Limit[k])
            BY <1>4 DEF Verdict
        <3>2. Len(Pruned(Swept[k])) \in Nat
            BY <2>1 DEF Tracks
        <3> QED
            BY <1>1, <1>4, <3>1, <3>2
    <2>3. /\ Tracks(now, Append(Pruned(Swept[k]), now), Append(granted[k], now), Limit[k])
          /\ Sorted(now, Append(granted[k], now))
          /\ Spread(Append(granted[k], now), Limit[k])
        BY <1>1, <1>4, <2>1, <2>2, AppendTracks
    <2> QED
        BY <1>4, <2>3, CheckShape
<1> QED
    BY <1>2, <1>3, <1>4, CheckShape

LEMMA CheckKeepsSize ==
    ASSUME LimiterInv, NEW k \in Keys, Check(k)
    PROVE  SizeInv'
<1>1. /\ IsFiniteSet(Entries(Swept))
      /\ Cardinality(Entries(Swept)) \in Nat
      /\ Cardinality(Entries(Swept)) <= MaxKeys
    BY SweptEntries, CapacityIsPositive DEF LimiterInv, SizeInv, CapacityKept
<1>2. SUFFICES IsFiniteSet(Entries(queues')) /\ Cardinality(Entries(queues')) <= MaxKeys
    BY DEF SizeInv, CapacityKept, Entries
<1>3. CASE Verdict(k) = "full"
    BY <1>1, <1>3, CheckShape
<1>4. CASE k \in Entries(Swept)
    <2>1. Entries(queues') \subseteq Entries(Swept)
        BY <1>4, CheckShape DEF Entries
    <2> QED
        BY <1>1, <2>1, FS_Subset, FS_CardinalityType, CapacityIsPositive
<1>5. CASE Verdict(k) # "full" /\ k \notin Entries(Swept)
    <2>1. Cardinality(Entries(Swept)) < MaxKeys
        BY <1>1, <1>5, CapacityIsPositive DEF Verdict, Full
    <2>2. Entries(queues') \subseteq Entries(Swept) \cup {k}
        BY CheckShape DEF Entries
    <2>3. /\ IsFiniteSet(Entries(Swept) \cup {k})
          /\ Cardinality(Entries(Swept) \cup {k}) = Cardinality(Entries(Swept)) + 1
        BY <1>1, <1>5, FS_AddElement
    <2>4. /\ IsFiniteSet(Entries(queues'))
          /\ Cardinality(Entries(queues')) <= Cardinality(Entries(Swept)) + 1
          /\ Cardinality(Entries(queues')) \in Nat
        BY <2>2, <2>3, FS_Subset, FS_CardinalityType
    <2> QED
        BY <1>1, <2>1, <2>4, CapacityIsPositive
<1> QED
    BY <1>3, <1>4, <1>5

LEMMA CheckKeepsType ==
    ASSUME LimiterInv, NEW k \in Keys, Check(k)
    PROVE  LimiterTypeOK'
<1>1. now' \in Nat /\ queues' \in [Keys -> Seq(Nat)] /\ granted' \in [Keys -> Seq(Nat)]
    BY CheckShape DEF LimiterInv, LimiterTypeOK
<1>2. sweptAt' \in Nat
    BY DEF LimiterInv, LimiterTypeOK, Check
<1>3. last' \in [key : Keys, verdict : {"full", "limited", "accepted"}]
    BY CheckShape DEF Check
<1> QED
    BY <1>1, <1>2, <1>3 DEF LimiterTypeOK

(* After a sweep, the entries are the keys with an attempt that still counts. *)
LEMMA SweptAreRecent ==
    ASSUME LimiterInv, NEW k \in Keys
    PROVE  /\ Swept[k] = <<>> => ~Recent(k, 1)
           /\ SweepDue /\ Swept[k] # <<>> => Recent(k, 1)
<1> DEFINE q == Swept[k]
           g == granted[k]
<1>1. /\ Tracks(now, q, g, Limit[k])
      /\ Sorted(now, g)
      /\ SweepDue /\ q # <<>> => ~Expired(q[1])
    BY SweptTracks DEF LimiterInv, LogInv
<1>2. q \in Seq(Nat) /\ g \in Seq(Nat) /\ now \in Nat /\ Window \in Nat
    BY <1>1, TimesArePositive DEF Tracks, LimiterInv, LimiterTypeOK
<1> HIDE DEF q, g
<1>3. ASSUME q = <<>>
      PROVE  ~(Len(g) >= 1 /\ now - g[Len(g) - 1 + 1] < Window)
    <2> SUFFICES ASSUME Len(g) >= 1
                 PROVE  ~(now - g[Len(g) - 1 + 1] < Window)
        OBVIOUS
    <2>1. Len(g) \in 1..(Len(g) - Len(q)) /\ Len(g) - 1 + 1 = Len(g)
        BY <1>2, <1>3
    <2>2. now - g[Len(g)] >= Window
        BY <1>1, <2>1 DEF Tracks
    <2>3. g[Len(g)] \in Nat
        BY <1>2
    <2> QED
        BY <1>2, <2>1, <2>2, <2>3
<1>4. ASSUME SweepDue, q # <<>>
      PROVE  Len(g) >= 1 /\ now - g[Len(g) - 1 + 1] < Window
    <2>1. Len(q) \in Nat /\ Len(q) >= 1 /\ Len(q) <= Len(g) /\ Len(g) \in Nat
        BY <1>1, <1>2, <1>4 DEF Tracks
    <2>2. q[1] = g[Len(g) - Len(q) + 1]
        BY <1>1, <2>1 DEF Tracks
    <2>3. Len(g) - Len(q) + 1 \in 1..Len(g) /\ Len(g) \in 1..Len(g) /\ Len(g) - 1 + 1 = Len(g)
        BY <2>1
    <2>4. g[Len(g) - Len(q) + 1] <= g[Len(g)]
        BY <1>1, <2>1, <2>3 DEF Sorted
    <2>5. ~(now - q[1] >= Window)
        BY <1>1, <1>4 DEF Expired
    <2>6. q[1] \in Nat /\ g[Len(g)] \in Nat
        BY <1>2, <2>1
    <2> QED
        BY <1>2, <2>1, <2>2, <2>3, <2>4, <2>5, <2>6
<1> QED
    BY <1>3, <1>4 DEF Recent, q, g

LEMMA CheckKeepsReason ==
    ASSUME LimiterInv, NEW k \in Keys, Check(k)
    PROVE  RefusedForAReason'
<1>1. last'.key = k /\ last'.verdict = Verdict(k) /\ now' = now
    BY DEF Check
<1>2. ASSUME Verdict(k) = "limited"
      PROVE  Recent(k, Limit[k])
    <2> DEFINE p == Pruned(Swept[k])
               g == granted[k]
    <2>1. /\ now \in Nat /\ Window \in Nat /\ Limit[k] \in Nat \ {0}
          /\ Tracks(now, Swept[k], g, Limit[k])
        BY SweptTracks, LimitsArePositive, TimesArePositive DEF LimiterInv, LimiterTypeOK
    <2>2. Tracks(now, p, g, Limit[k]) /\ (p # <<>> => ~Expired(p[1]))
        BY <2>1, PrunedTracks
    <2>3. Len(p) >= Limit[k]
        BY <1>2 DEF Verdict
    <2> HIDE DEF p, g
    <2>4. p \in Seq(Nat) /\ g \in Seq(Nat) /\ Len(p) = Limit[k] /\ Len(p) <= Len(g)
        BY <2>1, <2>2, <2>3 DEF Tracks
    <2>5. p # <<>> /\ p[1] \in Nat /\ p[1] = g[Len(g) - Len(p) + 1]
        BY <2>1, <2>2, <2>4 DEF Tracks
    <2>6. now - p[1] < Window
        BY <2>1, <2>2, <2>5 DEF Expired
    <2> QED
        BY <2>4, <2>5, <2>6 DEF Recent, g
<1>3. ASSUME Verdict(k) = "full"
      PROVE  Cardinality({j \in Keys : Recent(j, 1)}) >= MaxKeys /\ ~Recent(k, 1)
    <2>1. Cardinality(Entries(Swept)) >= MaxKeys /\ k \notin Entries(Swept)
        BY <1>3 DEF Verdict, Full
    <2>2. SweepDue
        BY <2>1, SweptEntries, CapacityIsPositive DEF SweepDue
    <2>3. {j \in Keys : Recent(j, 1)} = Entries(Swept)
        BY <2>2, SweptAreRecent DEF Entries
    <2> QED
        BY <2>1, <2>3
<1>4. Verdict(k) \in {"full", "limited"} => granted' = granted
    BY CheckShape
<1>6. CASE Verdict(k) = "limited"
    <2>1. Recent(k, Limit[k])'
        BY <1>1, <1>2, <1>4, <1>6 DEF Recent
    <2> QED
        BY <1>1, <1>6, <2>1 DEF RefusedForAReason
<1>7. CASE Verdict(k) = "full"
    <2>1. {j \in Keys : Recent(j, 1)}' = {j \in Keys : Recent(j, 1)}
        BY <1>1, <1>4, <1>7 DEF Recent
    <2>2. ~Recent(k, 1)'
        BY <1>1, <1>3, <1>4, <1>7 DEF Recent
    <2> QED
        BY <1>1, <1>3, <1>7, <2>1, <2>2 DEF RefusedForAReason
<1>8. CASE Verdict(k) \notin {"limited", "full"}
    BY <1>1, <1>8 DEF RefusedForAReason
<1> QED
    BY <1>6, <1>7, <1>8

LEMMA LimiterStep == LimiterInv /\ [LimiterNext]_limiterVars => LimiterInv'
<1> SUFFICES ASSUME LimiterInv, [LimiterNext]_limiterVars
             PROVE  LimiterInv'
    OBVIOUS
<1>1. CASE Tick
    BY <1>1, LimiterTicks
<1>2. ASSUME NEW k \in Keys, Check(k)
      PROVE  LimiterInv'
    BY <1>2, CheckKeepsType, CheckKeepsLog, CheckKeepsSize, CheckKeepsReason DEF LimiterInv
<1>3. CASE UNCHANGED limiterVars
    BY <1>3 DEF limiterVars, LimiterInv, LimiterTypeOK, LogInv, SizeInv, CapacityKept, Entries,
                RefusedForAReason, Recent
<1> QED
    BY <1>1, <1>2, <1>3 DEF LimiterNext

(* The inductive invariant holds in every run of the limiter. *)
THEOREM LimiterInvariant == LimiterSpec => []LimiterInv
<1> QED
    BY LimiterStarts, LimiterStep, PTL DEF LimiterSpec

(* No window of time ever holds more accepted attempts of a key than its limit,
   however long it runs, whatever is swept and however full the table is. *)
THEOREM BudgetKept == LimiterSpec => []WithinBudget
<1>1. LimiterInv => WithinBudget
    BY DEF LimiterInv, LogInv, Spread, WithinBudget
<1> QED
    BY <1>1, LimiterInvariant, PTL

(* The table never outgrows its capacity. *)
THEOREM TableBounded == LimiterSpec => []CapacityKept
<1>1. LimiterInv => CapacityKept
    BY DEF LimiterInv, SizeInv
<1> QED
    BY <1>1, LimiterInvariant, PTL

(* A refusal is justified by attempts that were accepted within the last window:
   those of the key itself, or those of as many other keys as the table holds. *)
THEOREM RefusalsJustified == LimiterSpec => []RefusedForAReason
<1>1. LimiterInv => RefusedForAReason
    BY DEF LimiterInv
<1> QED
    BY <1>1, LimiterInvariant, PTL

================================================================================
