--------------------------- MODULE RestoreGateProofs ---------------------------
(***************************************************************************)
(* What RestoreGate promises, for any number of requests, restores, users  *)
(* and process deaths.  The invariants are proved in layers, each resting  *)
(* on those before it:                                                     *)
(*   TypeOK        the variables' types;                                   *)
(*   GateInv       where a request is decides what it holds of the gate;   *)
(*   SessionInv    a generation that may be old is behind the marker;      *)
(*   DataInv       the recovery archive holds what a restore will drop.    *)
(* On these rests that RestoreGate implements RestorePromise.              *)
(***************************************************************************)
EXTENDS RestoreGate, TLAPS

(* Who is in a handler holds the shared side, who is in a cutover holds the
   exclusive side, the sides exclude each other, a dead process runs nobody. *)
GateInv ==
    /\ \A r \in Requests : pc[r] \in RequestShared => r \in readers
    /\ \A s \in Restores : pc[s] = "check" => s \in readers
    /\ \A s \in Restores : pc[s] \in Exclusive => writer = {s}
    /\ writer = {} \/ readers = {}
    /\ ~up => \A a \in Actors : pc[a] \in {"new", "done"}

(* Tokens carry generations and eras that have existed. *)
TokensKnown ==
    \A t \in issued : t.gen <= latestGen /\ t.era <= era

(* The generation is the last one made, the epoch is set once there was a
   restore, and who has a token of it obtained it from this database. *)
Clean ==
    /\ live.gen = latestGen
    /\ era > 0 => live.epoch
    /\ \A t \in issued : t.gen # 0 /\ t.gen = live.gen => t.era = era

(* The generation was just made: nobody has a token of it. *)
Fresh ==
    /\ live.gen = latestGen
    /\ live.epoch
    /\ live.gen # 0
    /\ \A t \in issued : t.gen # live.gen

SessionInv ==
    /\ TokensKnown
    /\ Clean \/ marker
    /\ Clean \/ AuthBlocked
    /\ blocked /\ ~marker => Fresh
    /\ \A s \in Restores :
        /\ pc[s] = "block" => marker
        /\ pc[s] \in {"pgrestore", "rotateAgain"} => blocked /\ marker
        /\ pc[s] \in {"unmark", "unblock"} => blocked /\ Fresh
    /\ \A r \in Requests : pc[r] \in {"authed", "committed"} => initialized /\ ~blocked

(* A committed write is in the live database until it is answered, and nobody
   is answered for what is still under way or landed late. *)
DataInv ==
    /\ \A r \in pending \cup late : pc[r] = "done" /\ r \notin acked
    /\ \A r \in acked : pc[r] = "done"
    /\ \A r \in Requests : pc[r] = "committed" /\ op[r] = "write" => r \in live.data
    /\ RecoveryArchiveIsCurrent
    /\ AcknowledgedWritesRecoverable

--------------------------------------------------------------------------------

(* Taking somebody out of the queue leaves a queue. *)
LEMMA WithoutType ==
  ASSUME NEW S, NEW q \in Seq(S), NEW a
  PROVE  Without(q, a) \in Seq(S)
  BY DEF Without

(* Whoever leaves the gate, it stays well formed. *)
LEMMA LeaveType ==
  ASSUME TypeOK, NEW a, Leave(a)
  PROVE  /\ queue' \in Seq(Actors)
         /\ readers' \in SUBSET Actors
         /\ writer' \in SUBSET Restores
  BY WithoutType DEF TypeOK, Leave

(* A rotation leaves a database. *)
LEMMA InvalidateType ==
  ASSUME live \in Database, latestGen \in Nat, InvalidateSessions
  PROVE  live' \in Database /\ latestGen' \in Nat
<1>1. live' = [gen |-> latestGen + 1, epoch |-> TRUE, admins |-> live.admins, data |-> live.data]
  BY DEF InvalidateSessions, Database
<1>2. live.admins \in SUBSET Users /\ live.data \in SUBSET Requests
  BY DEF Database
<1>3. live' \in Database
  BY <1>1, <1>2 DEF Database
<1> QED
  BY <1>3 DEF InvalidateSessions

(* New cookies leave a database and a set of tokens. *)
LEMMA MintType ==
  ASSUME live \in Database, latestGen \in Nat, issued \in SUBSET Token, era \in Nat,
         NEW u \in Users, MintToken(u)
  PROVE  live' \in Database /\ latestGen' \in Nat /\ issued' \in SUBSET Token
<1> DEFINE gen == IF live.gen = 0 THEN latestGen + 1 ELSE live.gen
<1>1. gen \in Nat
  BY DEF Database
<1>2. live' = [live EXCEPT !.gen = gen]
  BY DEF MintToken
<1>3. issued' = issued \cup {[user |-> u, gen |-> gen, era |-> era]}
  BY DEF MintToken
<1>4. live' \in Database
  BY <1>1, <1>2 DEF Database
<1>5. latestGen' \in Nat
  BY DEF MintToken
<1> QED
  BY <1>1, <1>3, <1>4, <1>5 DEF Token

(* Looking at the marker leaves two flags. *)
LEMMA CallOnceType ==
  ASSUME blocked \in BOOLEAN, CallOnce
  PROVE  initialized' \in BOOLEAN /\ blocked' \in BOOLEAN
  BY DEF CallOnce, AuthBlocked

(* The initial state is well formed. *)
LEMMA InitType == Init => TypeOK
<1> USE DEF Init
<1>1. LegacyDatabase \in Database
  BY DEF LegacyDatabase, Database
<1>2. LegacyTokens \in SUBSET Token
  BY DEF LegacyTokens, Token
<1>3. "new" \in Stages /\ "write" \in Ops
  BY DEF Stages, Ops
<1>4. 0 \in 0 .. MaxCrashes
  BY MaxCrashesIsNat
<1>5. Init => pc \in [Actors -> Stages] /\ token \in [Actors -> Token \cup {NoToken}]
              /\ op \in [Requests -> Ops] /\ target \in [Requests -> Users]
              /\ upload \in [Restores -> Database]
  BY <1>1, <1>3
<1>6. Init => live \in Database /\ archives \in SUBSET Database /\ issued \in SUBSET Token
  BY <1>1, <1>2
<1>7. Init => queue \in Seq(Actors) /\ readers \in SUBSET Actors /\ writer \in SUBSET Restores
  OBVIOUS
<1>8. Init => up \in BOOLEAN /\ blocked \in BOOLEAN /\ initialized \in BOOLEAN /\ marker \in BOOLEAN
  OBVIOUS
<1>9. Init => /\ latestGen \in Nat /\ crashes \in 0 .. MaxCrashes /\ era \in Nat
               /\ acked \in SUBSET Requests /\ entryEra \in [Requests -> Nat]
               /\ pending \in SUBSET Requests /\ late \in SUBSET Requests
  BY <1>4
<1> QED
  BY <1>5, <1>6, <1>7, <1>8, <1>9 DEF TypeOK

(* What an ordinary handler commits leaves a database. *)
LEMMA CommitType ==
  ASSUME TypeOK, NEW r \in Requests, Commit(r)
  PROVE  /\ live' \in Database
         /\ archives' \in SUBSET Database
         /\ latestGen' \in Nat
         /\ issued' \in SUBSET Token
<1> USE DEF TypeOK
<1>1. CASE CommitWrite(r)
  BY <1>1 DEF CommitWrite, Database
<1>2. CASE CommitDemotion(r)
  BY <1>2 DEF CommitDemotion, Database
<1>3. CASE CompleteBackup(r)
  BY <1>3 DEF CompleteBackup
<1>4. CASE IssueCookies(r)
  <2>1. target[r] \in Users
    OBVIOUS
  <2> QED
    BY <1>4, <2>1, MintType DEF IssueCookies
<1> QED
  BY <1>1, <1>2, <1>3, <1>4 DEF Commit

(* What lands late leaves a database. *)
LEMMA LandType ==
  ASSUME TypeOK, NEW r \in Requests, Land(r)
  PROVE  /\ live' \in Database
         /\ archives' = archives
         /\ latestGen' \in Nat
         /\ issued' = issued
<1> USE DEF TypeOK
<1>1. CASE CommitWrite(r)
  BY <1>1 DEF CommitWrite, Database
<1>2. CASE CommitDemotion(r)
  BY <1>2 DEF CommitDemotion, Database
<1>3. CASE MakeGeneration(r)
  <2>1. latestGen + 1 \in Nat /\ live' = [live EXCEPT !.gen = latestGen + 1]
    BY <1>3 DEF MakeGeneration
  <2>2. live' \in Database
    BY <2>1 DEF Database
  <2> QED
    BY <1>3, <2>2 DEF MakeGeneration
<1> QED
  BY <1>1, <1>2, <1>3 DEF Land

(* Every variable has its type in every reachable state. *)
THEOREM TypeCorrect == Spec => []TypeOK
<1>1. Init => TypeOK
  BY InitType
<1>2. TypeOK /\ [Next]_vars => TypeOK'
  <2> SUFFICES ASSUME TypeOK, [Next]_vars
               PROVE  TypeOK'
    OBVIOUS
  <2> USE LeaveType, InvalidateType, CallOnceType, ActorsDisjoint
      DEF TypeOK, Actors, Stages, Waiting, RequestShared, Exclusive, Goto,
          authVars, gateVars, inputVars, dbVars, lateVars, histVars
  <2>1. ASSUME NEW r \in Requests, Send(r)  PROVE TypeOK'
    BY <2>1 DEF Send, Enqueue
  <2>2. ASSUME NEW r \in Requests, Enter(r)  PROVE TypeOK'
    BY <2>2 DEF Enter, AcquireShared
  <2>3. ASSUME NEW r \in Requests, Authenticate(r)  PROVE TypeOK'
    BY <2>3 DEF Authenticate
  <2>4. ASSUME NEW r \in Requests, Refuse(r)  PROVE TypeOK'
    BY <2>4 DEF Refuse
  <2>5. ASSUME NEW r \in Requests, Commit(r)  PROVE TypeOK'
    BY <2>5, CommitType DEF Commit
  <2>6. ASSUME NEW r \in Requests, Conflict(r)  PROVE TypeOK'
    BY <2>6 DEF Conflict
  <2>7. ASSUME NEW r \in Requests, Respond(r)  PROVE TypeOK'
    BY <2>7 DEF Respond
  <2>8. ASSUME NEW s \in Restores, Submit(s)  PROVE TypeOK'
    BY <2>8 DEF Submit, Enqueue
  <2>9. ASSUME NEW s \in Restores, BeginCheck(s)  PROVE TypeOK'
    BY <2>9 DEF BeginCheck, AcquireShared
  <2>10. ASSUME NEW s \in Restores, CheckAdmin(s)  PROVE TypeOK'
    BY <2>10 DEF CheckAdmin
  <2>11. ASSUME NEW s \in Restores, StageArchive(s)  PROVE TypeOK'
    BY <2>11 DEF StageArchive, Enqueue
  <2>12. ASSUME NEW s \in Restores, BeginCutover(s)  PROVE TypeOK'
    BY <2>12 DEF BeginCutover, AcquireExclusive
  <2>13. ASSUME NEW s \in Restores, RecheckAdmin(s)  PROVE TypeOK'
    BY <2>13 DEF RecheckAdmin
  <2>14. ASSUME NEW s \in Restores, RefuseRestore(s)  PROVE TypeOK'
    BY <2>14 DEF RefuseRestore
  <2>15. ASSUME NEW s \in Restores, DumpRecovery(s)  PROVE TypeOK'
    BY <2>15 DEF DumpRecovery
  <2>16. ASSUME NEW s \in Restores, Rotate(s)  PROVE TypeOK'
    BY <2>16 DEF Rotate
  <2>17. ASSUME NEW s \in Restores, CreateMarker(s)  PROVE TypeOK'
    BY <2>17 DEF CreateMarker
  <2>18. ASSUME NEW s \in Restores, MarkerExists(s)  PROVE TypeOK'
    BY <2>18 DEF MarkerExists
  <2>19. ASSUME NEW s \in Restores, BlockAuth(s)  PROVE TypeOK'
    BY <2>19 DEF BlockAuth
  <2>20. ASSUME NEW s \in Restores, PgRestore(s)  PROVE TypeOK'
    BY <2>20 DEF PgRestore
  <2>21. ASSUME NEW s \in Restores, RotateAgain(s)  PROVE TypeOK'
    BY <2>21 DEF RotateAgain
  <2>22. ASSUME NEW s \in Restores, RemoveMarker(s)  PROVE TypeOK'
    BY <2>22 DEF RemoveMarker
  <2>23. ASSUME NEW s \in Restores, UnblockAuth(s)  PROVE TypeOK'
    BY <2>23 DEF UnblockAuth
  <2>24. ASSUME NEW a \in Actors, Abort(a)  PROVE TypeOK'
    <3>1. pending' \in SUBSET Requests
      BY <2>24 DEF Abort, Lingers
    <3> QED
      BY <2>24, <3>1 DEF Abort
  <2>25. CASE Crash
    <3>1. crashes' \in 0 .. MaxCrashes
      BY <2>25, MaxCrashesIsNat DEF Crash
    <3>2. pc' \in [Actors -> Stages]
      BY <2>25 DEF Crash
    <3>3. queue' \in Seq(Actors)
      BY <2>25 DEF Crash
    <3> QED
      BY <2>25, <3>1, <3>2, <3>3 DEF Crash
  <2>26. CASE Restart
    BY <2>26 DEF Restart
  <2>27. CASE OperatorRepair
    BY <2>27 DEF OperatorRepair
  <2>28. ASSUME NEW r \in Requests, Land(r)  PROVE TypeOK'
    BY <2>28, LandType DEF Land
  <2>29. CASE UNCHANGED vars
    BY <2>29 DEF vars
  <2>30. QED
    BY <2>1, <2>2, <2>3, <2>4, <2>5, <2>6, <2>7, <2>8, <2>9, <2>10, <2>11, <2>12, <2>13, <2>14, <2>15, <2>16, <2>17, <2>18, <2>19, <2>20, <2>21, <2>22, <2>23, <2>24, <2>25, <2>26, <2>27, <2>28, <2>29
    DEF Next, RequestStep, RestoreStep, CutoverStep, Quiescent
<1>3. QED
  BY <1>1, <1>2, PTL DEF Spec

--------------------------------------------------------------------------------

(* Where a request is decides what it holds of the gate. *)
THEOREM GateHeld == Spec => []GateInv
<1>1. Init => GateInv
  BY DEF Init, GateInv, RequestShared, Exclusive, Actors
<1>2. TypeOK /\ GateInv /\ [Next]_vars => GateInv'
  <2> SUFFICES ASSUME TypeOK, GateInv, [Next]_vars
               PROVE  GateInv'
    OBVIOUS
  <2>0. pc \in [Actors -> Stages]
    BY DEF TypeOK
  <2> USE <2>0, ActorsDisjoint
      DEF GateInv, Actors, Waiting, RequestShared, Exclusive, Goto,
          authVars, gateVars, inputVars, dbVars, lateVars, histVars
  <2>1. ASSUME NEW r \in Requests, Send(r)  PROVE GateInv'
    BY <2>1 DEF Send, Enqueue
  <2>2. ASSUME NEW r \in Requests, Enter(r)  PROVE GateInv'
    BY <2>2 DEF Enter, AcquireShared
  <2>3. ASSUME NEW r \in Requests, Authenticate(r)  PROVE GateInv'
    BY <2>3 DEF Authenticate
  <2>4. ASSUME NEW r \in Requests, Refuse(r)  PROVE GateInv'
    BY <2>4 DEF Refuse, Leave
  <2>5. ASSUME NEW r \in Requests, Commit(r)  PROVE GateInv'
    BY <2>5 DEF Commit
  <2>6. ASSUME NEW r \in Requests, Conflict(r)  PROVE GateInv'
    BY <2>6 DEF Conflict, Leave
  <2>7. ASSUME NEW r \in Requests, Respond(r)  PROVE GateInv'
    BY <2>7 DEF Respond, Leave
  <2>8. ASSUME NEW s \in Restores, Submit(s)  PROVE GateInv'
    BY <2>8 DEF Submit, Enqueue
  <2>9. ASSUME NEW s \in Restores, BeginCheck(s)  PROVE GateInv'
    BY <2>9 DEF BeginCheck, AcquireShared
  <2>10. ASSUME NEW s \in Restores, CheckAdmin(s)  PROVE GateInv'
    BY <2>10 DEF CheckAdmin, Leave
  <2>11. ASSUME NEW s \in Restores, StageArchive(s)  PROVE GateInv'
    BY <2>11 DEF StageArchive, Enqueue
  <2>12. ASSUME NEW s \in Restores, BeginCutover(s)  PROVE GateInv'
    BY <2>12 DEF BeginCutover, AcquireExclusive
  <2>13. ASSUME NEW s \in Restores, RecheckAdmin(s)  PROVE GateInv'
    BY <2>13 DEF RecheckAdmin
  <2>14. ASSUME NEW s \in Restores, RefuseRestore(s)  PROVE GateInv'
    BY <2>14 DEF RefuseRestore, Leave
  <2>15. ASSUME NEW s \in Restores, DumpRecovery(s)  PROVE GateInv'
    BY <2>15 DEF DumpRecovery
  <2>16. ASSUME NEW s \in Restores, Rotate(s)  PROVE GateInv'
    BY <2>16 DEF Rotate
  <2>17. ASSUME NEW s \in Restores, CreateMarker(s)  PROVE GateInv'
    BY <2>17 DEF CreateMarker
  <2>18. ASSUME NEW s \in Restores, MarkerExists(s)  PROVE GateInv'
    BY <2>18 DEF MarkerExists, Leave
  <2>19. ASSUME NEW s \in Restores, BlockAuth(s)  PROVE GateInv'
    BY <2>19 DEF BlockAuth
  <2>20. ASSUME NEW s \in Restores, PgRestore(s)  PROVE GateInv'
    BY <2>20 DEF PgRestore
  <2>21. ASSUME NEW s \in Restores, RotateAgain(s)  PROVE GateInv'
    BY <2>21 DEF RotateAgain
  <2>22. ASSUME NEW s \in Restores, RemoveMarker(s)  PROVE GateInv'
    BY <2>22 DEF RemoveMarker
  <2>23. ASSUME NEW s \in Restores, UnblockAuth(s)  PROVE GateInv'
    BY <2>23 DEF UnblockAuth, Leave
  <2>24. ASSUME NEW a \in Actors, Abort(a)  PROVE GateInv'
    BY <2>24 DEF Abort, Leave
  <2>25. CASE Crash
    BY <2>25 DEF Crash
  <2>26. CASE Restart
    BY <2>26 DEF Restart
  <2>27. CASE OperatorRepair
    BY <2>27 DEF OperatorRepair
  <2>28. ASSUME NEW r \in Requests, Land(r)  PROVE GateInv'
    BY <2>28 DEF Land
  <2>29. CASE UNCHANGED vars
    BY <2>29 DEF vars
  <2>30. QED
    BY <2>1, <2>2, <2>3, <2>4, <2>5, <2>6, <2>7, <2>8, <2>9, <2>10, <2>11, <2>12, <2>13, <2>14, <2>15, <2>16, <2>17, <2>18, <2>19, <2>20, <2>21, <2>22, <2>23, <2>24, <2>25, <2>26, <2>27, <2>28, <2>29
    DEF Next, RequestStep, RestoreStep, CutoverStep, Quiescent
<1>3. QED
  BY <1>1, <1>2, TypeCorrect, PTL DEF Spec

--------------------------------------------------------------------------------

(* A handler runs against one database from start to end, whatever restores
   wait or are interrupted. *)
THEOREM OneDatabasePerHandler == Spec => []HandlersSeeOneDatabase
<1>1. Init => HandlersSeeOneDatabase
  BY DEF Init, HandlersSeeOneDatabase, RequestShared, Actors
<1>2. TypeOK /\ GateInv /\ HandlersSeeOneDatabase /\ [Next]_vars => HandlersSeeOneDatabase'
  <2> SUFFICES ASSUME TypeOK, GateInv, HandlersSeeOneDatabase, [Next]_vars
               PROVE  HandlersSeeOneDatabase'
    OBVIOUS
  <2>0. pc \in [Actors -> Stages] /\ entryEra \in [Requests -> Nat]
    BY DEF TypeOK
  <2> USE <2>0, ActorsDisjoint
      DEF GateInv, HandlersSeeOneDatabase, Actors, RequestShared, Exclusive, Goto,
          authVars, gateVars, inputVars, dbVars, lateVars, histVars
  <2>1. ASSUME NEW r \in Requests, Send(r)  PROVE HandlersSeeOneDatabase'
    BY <2>1 DEF Send
  <2>2. ASSUME NEW r \in Requests, Enter(r)  PROVE HandlersSeeOneDatabase'
    BY <2>2 DEF Enter
  <2>3. ASSUME NEW r \in Requests, Authenticate(r)  PROVE HandlersSeeOneDatabase'
    BY <2>3 DEF Authenticate
  <2>4. ASSUME NEW r \in Requests, Refuse(r)  PROVE HandlersSeeOneDatabase'
    BY <2>4 DEF Refuse
  <2>5. ASSUME NEW r \in Requests, Commit(r)  PROVE HandlersSeeOneDatabase'
    BY <2>5 DEF Commit
  <2>6. ASSUME NEW r \in Requests, Conflict(r)  PROVE HandlersSeeOneDatabase'
    BY <2>6 DEF Conflict
  <2>7. ASSUME NEW r \in Requests, Respond(r)  PROVE HandlersSeeOneDatabase'
    BY <2>7 DEF Respond
  <2>8. ASSUME NEW s \in Restores, Submit(s)  PROVE HandlersSeeOneDatabase'
    BY <2>8 DEF Submit
  <2>9. ASSUME NEW s \in Restores, BeginCheck(s)  PROVE HandlersSeeOneDatabase'
    BY <2>9 DEF BeginCheck
  <2>10. ASSUME NEW s \in Restores, CheckAdmin(s)  PROVE HandlersSeeOneDatabase'
    BY <2>10 DEF CheckAdmin
  <2>11. ASSUME NEW s \in Restores, StageArchive(s)  PROVE HandlersSeeOneDatabase'
    BY <2>11 DEF StageArchive
  <2>12. ASSUME NEW s \in Restores, BeginCutover(s)  PROVE HandlersSeeOneDatabase'
    BY <2>12 DEF BeginCutover
  <2>13. ASSUME NEW s \in Restores, RecheckAdmin(s)  PROVE HandlersSeeOneDatabase'
    BY <2>13 DEF RecheckAdmin
  <2>14. ASSUME NEW s \in Restores, RefuseRestore(s)  PROVE HandlersSeeOneDatabase'
    BY <2>14 DEF RefuseRestore
  <2>15. ASSUME NEW s \in Restores, DumpRecovery(s)  PROVE HandlersSeeOneDatabase'
    BY <2>15 DEF DumpRecovery
  <2>16. ASSUME NEW s \in Restores, Rotate(s)  PROVE HandlersSeeOneDatabase'
    BY <2>16 DEF Rotate
  <2>17. ASSUME NEW s \in Restores, CreateMarker(s)  PROVE HandlersSeeOneDatabase'
    BY <2>17 DEF CreateMarker
  <2>18. ASSUME NEW s \in Restores, MarkerExists(s)  PROVE HandlersSeeOneDatabase'
    BY <2>18 DEF MarkerExists
  <2>19. ASSUME NEW s \in Restores, BlockAuth(s)  PROVE HandlersSeeOneDatabase'
    BY <2>19 DEF BlockAuth
  <2>20. ASSUME NEW s \in Restores, PgRestore(s)  PROVE HandlersSeeOneDatabase'
    BY <2>20 DEF PgRestore
  <2>21. ASSUME NEW s \in Restores, RotateAgain(s)  PROVE HandlersSeeOneDatabase'
    BY <2>21 DEF RotateAgain
  <2>22. ASSUME NEW s \in Restores, RemoveMarker(s)  PROVE HandlersSeeOneDatabase'
    BY <2>22 DEF RemoveMarker
  <2>23. ASSUME NEW s \in Restores, UnblockAuth(s)  PROVE HandlersSeeOneDatabase'
    BY <2>23 DEF UnblockAuth
  <2>24. ASSUME NEW a \in Actors, Abort(a)  PROVE HandlersSeeOneDatabase'
    BY <2>24 DEF Abort
  <2>25. CASE Crash
    BY <2>25 DEF Crash
  <2>26. CASE Restart
    BY <2>26 DEF Restart
  <2>27. CASE OperatorRepair
    BY <2>27 DEF OperatorRepair
  <2>28. ASSUME NEW r \in Requests, Land(r)  PROVE HandlersSeeOneDatabase'
    BY <2>28 DEF Land
  <2>29. CASE UNCHANGED vars
    BY <2>29 DEF vars
  <2>30. QED
    BY <2>1, <2>2, <2>3, <2>4, <2>5, <2>6, <2>7, <2>8, <2>9, <2>10, <2>11, <2>12, <2>13, <2>14, <2>15, <2>16, <2>17, <2>18, <2>19, <2>20, <2>21, <2>22, <2>23, <2>24, <2>25, <2>26, <2>27, <2>28, <2>29
    DEF Next, RequestStep, RestoreStep, CutoverStep, Quiescent
<1>3. QED
  BY <1>1, <1>2, TypeCorrect, GateHeld, PTL DEF Spec

(* A rotation makes a generation nobody has a token of. *)
LEMMA RotationIsFresh ==
  ASSUME live \in Database, latestGen \in Nat, issued \in SUBSET Token,
         TokensKnown, InvalidateSessions, issued' = issued
  PROVE  /\ Fresh'
         /\ latestGen' = latestGen + 1
<1>1. live'.gen = latestGen + 1 /\ live'.epoch = TRUE
  BY DEF InvalidateSessions, Database
<1>2. \A t \in issued : t.gen \in Nat /\ t.gen <= latestGen
  BY DEF TokensKnown, Token
<1> QED
  BY <1>1, <1>2 DEF InvalidateSessions, Fresh

(* A generation nobody has a token of is as good as any. *)
LEMMA FreshIsClean == Fresh => Clean
  BY DEF Fresh, Clean

(* What SessionInv says of tokens and flags survives every step. *)
THEOREM SessionsKept == Spec => []SessionInv
<1>1. Init => SessionInv
  BY DEF Init, SessionInv, TokensKnown, Clean, AuthBlocked, LegacyDatabase, LegacyTokens, Actors
<1>2. TypeOK /\ GateInv /\ SessionInv /\ [Next]_vars => SessionInv'
  <2> SUFFICES ASSUME TypeOK, GateInv, SessionInv, [Next]_vars
               PROVE  SessionInv'
    OBVIOUS
  <2>0. /\ pc \in [Actors -> Stages]
        /\ live \in Database
        /\ latestGen \in Nat
        /\ era \in Nat
        /\ issued \in SUBSET Token
        /\ \A t \in issued : t.gen \in Nat /\ t.era \in Nat
    BY DEF TypeOK, Token
  <2> USE <2>0, ActorsDisjoint
      DEF GateInv, SessionInv, TokensKnown, Clean, Fresh, AuthBlocked,
          Actors, RequestShared, Exclusive, Goto,
          authVars, gateVars, inputVars, dbVars, lateVars, histVars
  <2>1. ASSUME NEW r \in Requests, Send(r)  PROVE SessionInv'
    BY <2>1 DEF Send, Enqueue
  <2>2. ASSUME NEW r \in Requests, Enter(r)  PROVE SessionInv'
    BY <2>2 DEF Enter, AcquireShared
  <2>3. ASSUME NEW r \in Requests, Authenticate(r)  PROVE SessionInv'
    <3>1. ~AuthBlocked
      BY <2>3 DEF Authenticate, Authenticated, SessionValid
    <3> QED
      BY <2>3, <3>1 DEF Authenticate, CallOnce
  <2>4. ASSUME NEW r \in Requests, Refuse(r)  PROVE SessionInv'
    BY <2>4 DEF Refuse, CallOnce, Leave
  <2>5. ASSUME NEW r \in Requests, Commit(r)  PROVE SessionInv'
    <3>1. ~blocked /\ writer = {} /\ UNCHANGED <<blocked, initialized, marker, writer, era>>
      BY <2>5 DEF Commit
    <3>2. \A s \in Restores : pc[s] \notin Exclusive /\ pc'[s] = pc[s]
      BY <2>5, <3>1 DEF Commit
    <3>3. TokensKnown' /\ (Clean => Clean')
      <4>1. CASE CommitWrite(r)
        BY <2>5, <3>1, <4>1 DEF Commit, CommitWrite, Database
      <4>2. CASE CommitDemotion(r)
        BY <2>5, <3>1, <4>2 DEF Commit, CommitDemotion, Database
      <4>3. CASE CompleteBackup(r)
        BY <2>5, <3>1, <4>3 DEF Commit, CompleteBackup
      <4>4. CASE IssueCookies(r)
        <5> DEFINE gen == IF live.gen = 0 THEN latestGen + 1 ELSE live.gen
                   new == [user |-> target[r], gen |-> gen, era |-> era]
        <5>1. /\ live.gen = latestGen
              /\ era > 0 => live.epoch
              /\ \A t \in issued : t.gen # 0 /\ t.gen = live.gen => t.era = era
          BY <2>5, <3>1 DEF Commit
        <5>2. live'.gen = gen /\ live'.epoch = live.epoch
          BY <4>4 DEF IssueCookies, MintToken, Database
        <5>3. issued' = issued \cup {new} /\ new.gen = gen /\ new.era = era
          BY <4>4 DEF IssueCookies, MintToken
        <5>4. latestGen' = gen
          BY <4>4, <5>1 DEF IssueCookies, MintToken
        <5>5. (gen = latestGen /\ gen # 0) \/ (gen = latestGen + 1 /\ live.gen = 0)
          BY <5>1
        <5>6. TokensKnown'
          BY <3>1, <5>3, <5>4, <5>5
        <5>7. \A t \in issued : t.gen # 0 /\ t.gen = gen => t.era = era
          BY <5>1, <5>5
        <5>8. Clean'
          BY <3>1, <5>1, <5>2, <5>3, <5>4, <5>7
        <5> QED
          BY <5>6, <5>8
      <4> QED
        BY <2>5, <4>1, <4>2, <4>3, <4>4 DEF Commit
    <3> QED
      BY <2>5, <3>1, <3>2, <3>3 DEF Commit
  <2>6. ASSUME NEW r \in Requests, Conflict(r)  PROVE SessionInv'
    BY <2>6 DEF Conflict, Leave
  <2>7. ASSUME NEW r \in Requests, Respond(r)  PROVE SessionInv'
    BY <2>7 DEF Respond, Leave
  <2>8. ASSUME NEW s \in Restores, Submit(s)  PROVE SessionInv'
    BY <2>8 DEF Submit, Enqueue
  <2>9. ASSUME NEW s \in Restores, BeginCheck(s)  PROVE SessionInv'
    BY <2>9 DEF BeginCheck, AcquireShared
  <2>10. ASSUME NEW s \in Restores, CheckAdmin(s)  PROVE SessionInv'
    BY <2>10 DEF CheckAdmin, CallOnce, Leave
  <2>11. ASSUME NEW s \in Restores, StageArchive(s)  PROVE SessionInv'
    BY <2>11 DEF StageArchive, Enqueue
  <2>12. ASSUME NEW s \in Restores, BeginCutover(s)  PROVE SessionInv'
    BY <2>12 DEF BeginCutover, AcquireExclusive
  <2>13. ASSUME NEW s \in Restores, RecheckAdmin(s)  PROVE SessionInv'
    BY <2>13 DEF RecheckAdmin, CallOnce
  <2>14. ASSUME NEW s \in Restores, RefuseRestore(s)  PROVE SessionInv'
    BY <2>14 DEF RefuseRestore, CallOnce, Leave
  <2>15. ASSUME NEW s \in Restores, DumpRecovery(s)  PROVE SessionInv'
    BY <2>15 DEF DumpRecovery
  <2>16. ASSUME NEW s \in Restores, Rotate(s)  PROVE SessionInv'
    <3>1. Fresh' /\ latestGen' = latestGen + 1
      BY <2>16, RotationIsFresh DEF Rotate
    <3> QED
      BY <2>16, <3>1 DEF Rotate
  <2>17. ASSUME NEW s \in Restores, CreateMarker(s)  PROVE SessionInv'
    BY <2>17 DEF CreateMarker
  <2>18. ASSUME NEW s \in Restores, MarkerExists(s)  PROVE SessionInv'
    BY <2>18 DEF MarkerExists, Leave
  <2>19. ASSUME NEW s \in Restores, BlockAuth(s)  PROVE SessionInv'
    BY <2>19 DEF BlockAuth
  <2>20. ASSUME NEW s \in Restores, PgRestore(s)  PROVE SessionInv'
    <3>1. TokensKnown'
      BY <2>20 DEF PgRestore
    <3> QED
      BY <2>20, <3>1 DEF PgRestore
  <2>21. ASSUME NEW s \in Restores, RotateAgain(s)  PROVE SessionInv'
    <3>1. Fresh' /\ latestGen' = latestGen + 1
      BY <2>21, RotationIsFresh DEF RotateAgain
    <3> QED
      BY <2>21, <3>1 DEF RotateAgain
  <2>22. ASSUME NEW s \in Restores, RemoveMarker(s)  PROVE SessionInv'
    BY <2>22 DEF RemoveMarker
  <2>23. ASSUME NEW s \in Restores, UnblockAuth(s)  PROVE SessionInv'
    BY <2>23 DEF UnblockAuth, Leave
  <2>24. ASSUME NEW a \in Actors, Abort(a)  PROVE SessionInv'
    BY <2>24 DEF Abort, Leave
  <2>25. CASE Crash
    BY <2>25 DEF Crash
  <2>26. CASE Restart
    BY <2>26 DEF Restart
  <2>27. CASE OperatorRepair
    <3>1. Fresh' /\ latestGen' = latestGen + 1
      BY <2>27, RotationIsFresh DEF OperatorRepair
    <3> QED
      BY <2>27, <3>1 DEF OperatorRepair
  <2>28. ASSUME NEW r \in Requests, Land(r)  PROVE SessionInv'
    <3>1. UNCHANGED <<pc, blocked, initialized, marker, era>> /\ issued' = issued
      BY <2>28, LandType DEF Land
    <3>2. CASE CommitWrite(r)
      BY <3>1, <3>2 DEF CommitWrite, Database
    <3>3. CASE CommitDemotion(r)
      BY <3>1, <3>3 DEF CommitDemotion, Database
    <3>4. CASE MakeGeneration(r)
      <4>1. live'.gen = latestGen + 1 /\ live'.epoch = live.epoch /\ latestGen' = latestGen + 1
        BY <3>4 DEF MakeGeneration, Database
      <4>2. live.gen = 0
        BY <3>4 DEF MakeGeneration
      <4>3. TokensKnown'
        BY <3>1, <4>1
      <4>4. \A t \in issued : t.gen # latestGen + 1
        BY <2>0
      <4>5. Clean => Clean'
        BY <3>1, <4>1, <4>4
      <4>6. ~Fresh
        BY <4>2
      <4> QED
        BY <3>1, <4>3, <4>5, <4>6
    <3> QED
      BY <2>28, <3>2, <3>3, <3>4 DEF Land
  <2>29. CASE UNCHANGED vars
    BY <2>29 DEF vars
  <2>30. QED
    BY <2>1, <2>2, <2>3, <2>4, <2>5, <2>6, <2>7, <2>8, <2>9, <2>10, <2>11, <2>12, <2>13, <2>14, <2>15, <2>16, <2>17, <2>18, <2>19, <2>20, <2>21, <2>22, <2>23, <2>24, <2>25, <2>26, <2>27, <2>28, <2>29
    DEF Next, RequestStep, RestoreStep, CutoverStep, Quiescent
<1>3. QED
  BY <1>1, <1>2, TypeCorrect, GateHeld, PTL DEF Spec


(* No session from before a restore is accepted after it, for any number of
   restores, failures, restarts and repairs. *)
THEOREM RevocationHolds == Spec => []RestoreRevokesSessions
<1>1. TypeOK /\ SessionInv => RestoreRevokesSessions
  BY DEF TypeOK, Token, SessionInv, Clean, RestoreRevokesSessions, SessionValid, SessionMatches
<1> QED
  BY <1>1, TypeCorrect, SessionsKept, PTL

(* A refused token is never accepted again. *)
THEOREM RefusalIsFinal == Spec => NoResurrection
<1> DEFINE Final == \A t \in issued : ~SessionValid(t) => ~SessionValid(t)'
<1>1. TypeOK /\ GateInv /\ SessionInv /\ [Next]_vars => [Final]_vars
  <2> SUFFICES ASSUME TypeOK, GateInv, SessionInv, [Next]_vars
               PROVE  Final
    OBVIOUS
  <2>0. /\ pc \in [Actors -> Stages]
        /\ live \in Database
        /\ latestGen \in Nat
        /\ issued \in SUBSET Token
        /\ \A t \in issued : t.gen \in Nat /\ t.gen <= latestGen
    BY DEF TypeOK, Token, SessionInv, TokensKnown
  <2> USE <2>0, ActorsDisjoint
      DEF GateInv, SessionInv, Fresh, SessionValid, SessionMatches, AuthBlocked,
          Actors, RequestShared, Exclusive, Goto,
          authVars, gateVars, inputVars, dbVars, lateVars, histVars
  <2>1. ASSUME NEW r \in Requests, Send(r)  PROVE Final
    BY <2>1 DEF Send, Enqueue
  <2>2. ASSUME NEW r \in Requests, Enter(r)  PROVE Final
    BY <2>2 DEF Enter, AcquireShared
  <2>3. ASSUME NEW r \in Requests, Authenticate(r)  PROVE Final
    BY <2>3 DEF Authenticate, CallOnce
  <2>4. ASSUME NEW r \in Requests, Refuse(r)  PROVE Final
    BY <2>4 DEF Refuse, CallOnce, Leave
  <2>5. ASSUME NEW r \in Requests, Commit(r)  PROVE Final
    <3>1. UNCHANGED <<blocked, initialized, marker>>
      BY <2>5 DEF Commit
    <3>2. CASE CommitWrite(r)
      BY <2>5, <3>1, <3>2 DEF CommitWrite, Database
    <3>3. CASE CommitDemotion(r)
      BY <2>5, <3>1, <3>3 DEF CommitDemotion, Database
    <3>4. CASE CompleteBackup(r)
      BY <2>5, <3>1, <3>4 DEF CompleteBackup
    <3>5. CASE IssueCookies(r)
      <4>1. live'.epoch = live.epoch /\ (live.gen # 0 => live'.gen = live.gen)
        BY <3>5 DEF IssueCookies, MintToken, Database
      <4>2. live.gen = 0 => live'.gen = latestGen + 1
        BY <3>5 DEF IssueCookies, MintToken, Database
      <4> QED
        BY <3>1, <4>1, <4>2
    <3> QED
      BY <2>5, <3>2, <3>3, <3>4, <3>5 DEF Commit
  <2>6. ASSUME NEW r \in Requests, Conflict(r)  PROVE Final
    BY <2>6 DEF Conflict, Leave
  <2>7. ASSUME NEW r \in Requests, Respond(r)  PROVE Final
    BY <2>7 DEF Respond, Leave
  <2>8. ASSUME NEW s \in Restores, Submit(s)  PROVE Final
    BY <2>8 DEF Submit, Enqueue
  <2>9. ASSUME NEW s \in Restores, BeginCheck(s)  PROVE Final
    BY <2>9 DEF BeginCheck, AcquireShared
  <2>10. ASSUME NEW s \in Restores, CheckAdmin(s)  PROVE Final
    BY <2>10 DEF CheckAdmin, CallOnce, Leave
  <2>11. ASSUME NEW s \in Restores, StageArchive(s)  PROVE Final
    BY <2>11 DEF StageArchive, Enqueue
  <2>12. ASSUME NEW s \in Restores, BeginCutover(s)  PROVE Final
    BY <2>12 DEF BeginCutover, AcquireExclusive
  <2>13. ASSUME NEW s \in Restores, RecheckAdmin(s)  PROVE Final
    BY <2>13 DEF RecheckAdmin, CallOnce
  <2>14. ASSUME NEW s \in Restores, RefuseRestore(s)  PROVE Final
    BY <2>14 DEF RefuseRestore, CallOnce, Leave
  <2>15. ASSUME NEW s \in Restores, DumpRecovery(s)  PROVE Final
    BY <2>15 DEF DumpRecovery
  <2>16. ASSUME NEW s \in Restores, Rotate(s)  PROVE Final
    <3>1. Fresh' /\ issued' = issued
      BY <2>16, RotationIsFresh DEF Rotate
    <3> QED
      BY <3>1
  <2>17. ASSUME NEW s \in Restores, CreateMarker(s)  PROVE Final
    BY <2>17 DEF CreateMarker
  <2>18. ASSUME NEW s \in Restores, MarkerExists(s)  PROVE Final
    BY <2>18 DEF MarkerExists, Leave
  <2>19. ASSUME NEW s \in Restores, BlockAuth(s)  PROVE Final
    BY <2>19 DEF BlockAuth
  <2>20. ASSUME NEW s \in Restores, PgRestore(s)  PROVE Final
    <3>1. AuthBlocked'
      BY <2>20 DEF PgRestore
    <3> QED
      BY <3>1
  <2>21. ASSUME NEW s \in Restores, RotateAgain(s)  PROVE Final
    <3>1. Fresh' /\ issued' = issued
      BY <2>21, RotationIsFresh DEF RotateAgain
    <3> QED
      BY <3>1
  <2>22. ASSUME NEW s \in Restores, RemoveMarker(s)  PROVE Final
    BY <2>22 DEF RemoveMarker
  <2>23. ASSUME NEW s \in Restores, UnblockAuth(s)  PROVE Final
    <3>1. Fresh /\ UNCHANGED <<live, issued>>
      BY <2>23 DEF UnblockAuth
    <3> QED
      BY <3>1
  <2>24. ASSUME NEW a \in Actors, Abort(a)  PROVE Final
    BY <2>24 DEF Abort, Leave
  <2>25. CASE Crash
    BY <2>25 DEF Crash
  <2>26. CASE Restart
    BY <2>26 DEF Restart
  <2>27. CASE OperatorRepair
    <3>1. Fresh' /\ issued' = issued
      BY <2>27, RotationIsFresh DEF OperatorRepair
    <3> QED
      BY <3>1
  <2>28. ASSUME NEW r \in Requests, Land(r)  PROVE Final
    <3>1. UNCHANGED <<blocked, initialized, marker>> /\ issued' = issued
      BY <2>28, LandType DEF Land
    <3>2. CASE CommitWrite(r)
      BY <3>1, <3>2 DEF CommitWrite, Database
    <3>3. CASE CommitDemotion(r)
      BY <3>1, <3>3 DEF CommitDemotion, Database
    <3>4. CASE MakeGeneration(r)
      <4>1. live'.gen = latestGen + 1 /\ live'.epoch = live.epoch
        BY <3>4 DEF MakeGeneration, Database
      <4> QED
        BY <3>1, <4>1
    <3> QED
      BY <2>28, <3>2, <3>3, <3>4 DEF Land
  <2>29. CASE UNCHANGED vars
    BY <2>29 DEF vars
  <2>30. QED
    BY <2>1, <2>2, <2>3, <2>4, <2>5, <2>6, <2>7, <2>8, <2>9, <2>10, <2>11, <2>12, <2>13, <2>14, <2>15, <2>16, <2>17, <2>18, <2>19, <2>20, <2>21, <2>22, <2>23, <2>24, <2>25, <2>26, <2>27, <2>28, <2>29
    DEF Next, RequestStep, RestoreStep, CutoverStep, Quiescent
<1>2. QED
  BY <1>1, TypeCorrect, GateHeld, SessionsKept, PTL DEF Spec, NoResurrection


(* What landed late stays so, whoever sends a request. *)
LEMMA DemotedLateKept ==
  ASSUME late \subseteq late',
         \A r \in late : op'[r] = op[r] /\ target'[r] = target[r],
         NEW u, DemotedLate(u)
  PROVE  DemotedLate(u)'
  BY DEF DemotedLate

(* An archive of the database stays one while the database is left alone. *)
LEMMA RecordedKept ==
  ASSUME live'.data = live.data, live'.admins = live.admins, late' = late,
         \A r \in late : op'[r] = op[r] /\ target'[r] = target[r]
  PROVE  \A a : RecordedBy(a) => RecordedBy(a)'
<1>1. ASSUME NEW u, DemotedLate(u)  PROVE DemotedLate(u)'
  BY <1>1, DemotedLateKept
<1> QED
  BY <1>1 DEF RecordedBy

(* The recovery archive and the acknowledged writes survive every step. *)
THEOREM DataKept == Spec => []DataInv
<1>1. Init => DataInv
  BY DEF Init, DataInv, RecoveryArchiveIsCurrent, AcknowledgedWritesRecoverable, Actors
<1>2. TypeOK /\ GateInv /\ DataInv /\ [Next]_vars => DataInv'
  <2> SUFFICES ASSUME TypeOK, GateInv, DataInv, [Next]_vars
               PROVE  DataInv'
    OBVIOUS
  <2>0. /\ pc \in [Actors -> Stages]
        /\ op \in [Requests -> Ops]
        /\ live \in Database
        /\ acked \in SUBSET Requests
        /\ pending \in SUBSET Requests
        /\ late \in SUBSET Requests
    BY DEF TypeOK
  <2> USE <2>0, ActorsDisjoint, RecordedKept
      DEF GateInv, DataInv, RecoveryArchiveIsCurrent, AcknowledgedWritesRecoverable,
          Actors, RequestShared, Exclusive, Goto,
          authVars, gateVars, inputVars, dbVars, lateVars, histVars
  <2>1. ASSUME NEW r \in Requests, Send(r)  PROVE DataInv'
    BY <2>1 DEF Send, Enqueue
  <2>2. ASSUME NEW r \in Requests, Enter(r)  PROVE DataInv'
    BY <2>2 DEF Enter, AcquireShared
  <2>3. ASSUME NEW r \in Requests, Authenticate(r)  PROVE DataInv'
    BY <2>3 DEF Authenticate, CallOnce
  <2>4. ASSUME NEW r \in Requests, Refuse(r)  PROVE DataInv'
    BY <2>4 DEF Refuse, CallOnce, Leave
  <2>5. ASSUME NEW r \in Requests, Commit(r)  PROVE DataInv'
    <3>1. writer = {}
      BY <2>5 DEF Commit
    <3>2. \A s \in Restores : pc'[s] \notin Exclusive
      BY <2>5, <3>1 DEF Commit
    <3>3. /\ live'.data = IF op[r] = "write" THEN live.data \cup {r} ELSE live.data
          /\ archives \subseteq archives'
      BY <2>5 DEF Commit, CommitWrite, CommitDemotion, CompleteBackup, IssueCookies,
                  MintToken, Database
    <3> QED
      BY <2>5, <3>2, <3>3 DEF Commit
  <2>6. ASSUME NEW r \in Requests, Conflict(r)  PROVE DataInv'
    BY <2>6 DEF Conflict, Leave
  <2>7. ASSUME NEW r \in Requests, Respond(r)  PROVE DataInv'
    BY <2>7 DEF Respond, Leave
  <2>8. ASSUME NEW s \in Restores, Submit(s)  PROVE DataInv'
    BY <2>8 DEF Submit, Enqueue
  <2>9. ASSUME NEW s \in Restores, BeginCheck(s)  PROVE DataInv'
    BY <2>9 DEF BeginCheck, AcquireShared
  <2>10. ASSUME NEW s \in Restores, CheckAdmin(s)  PROVE DataInv'
    BY <2>10 DEF CheckAdmin, CallOnce, Leave
  <2>11. ASSUME NEW s \in Restores, StageArchive(s)  PROVE DataInv'
    BY <2>11 DEF StageArchive, Enqueue
  <2>12. ASSUME NEW s \in Restores, BeginCutover(s)  PROVE DataInv'
    <3>1. \A t \in Restores : pc'[t] \notin {"rotate", "mark", "block", "pgrestore"}
      BY <2>12 DEF BeginCutover, AcquireExclusive
    <3> QED
      BY <2>12, <3>1 DEF BeginCutover
  <2>13. ASSUME NEW s \in Restores, RecheckAdmin(s)  PROVE DataInv'
    BY <2>13 DEF RecheckAdmin, CallOnce
  <2>14. ASSUME NEW s \in Restores, RefuseRestore(s)  PROVE DataInv'
    BY <2>14 DEF RefuseRestore, CallOnce, Leave
  <2>15. ASSUME NEW s \in Restores, DumpRecovery(s)  PROVE DataInv'
    <3>1. RecordedBy(live)'
      BY <2>15 DEF DumpRecovery, RecordedBy
    <3>2. live \in archives' /\ archives \subseteq archives'
      BY <2>15 DEF DumpRecovery
    <3> QED
      BY <2>15, <3>1, <3>2 DEF DumpRecovery
  <2>16. ASSUME NEW s \in Restores, Rotate(s)  PROVE DataInv'
    <3>1. live'.data = live.data /\ live'.admins = live.admins
      BY <2>16 DEF Rotate, InvalidateSessions, Database
    <3> QED
      BY <2>16, <3>1 DEF Rotate
  <2>17. ASSUME NEW s \in Restores, CreateMarker(s)  PROVE DataInv'
    BY <2>17 DEF CreateMarker
  <2>18. ASSUME NEW s \in Restores, MarkerExists(s)  PROVE DataInv'
    BY <2>18 DEF MarkerExists, Leave
  <2>19. ASSUME NEW s \in Restores, BlockAuth(s)  PROVE DataInv'
    BY <2>19 DEF BlockAuth
  <2>20. ASSUME NEW s \in Restores, PgRestore(s)  PROVE DataInv'
    <3>1. \A t \in Restores : pc'[t] \notin {"rotate", "mark", "block", "pgrestore"}
      BY <2>20 DEF PgRestore
    <3>2. PICK a \in archives : RecordedBy(a)
      BY <2>20 DEF PgRestore
    <3>3. \A r \in acked : r \in live.data => r \in a.data
      BY <3>2 DEF RecordedBy
    <3>4. AcknowledgedWritesRecoverable'
      BY <2>20, <3>2, <3>3 DEF PgRestore
    <3>5. \A r \in Requests : pc'[r] = pc[r] /\ pc[r] \notin RequestShared
      BY <2>20 DEF PgRestore
    <3> QED
      BY <2>20, <3>1, <3>4, <3>5 DEF PgRestore
  <2>21. ASSUME NEW s \in Restores, RotateAgain(s)  PROVE DataInv'
    <3>1. live'.data = live.data /\ live'.admins = live.admins
      BY <2>21 DEF RotateAgain, InvalidateSessions, Database
    <3> QED
      BY <2>21, <3>1 DEF RotateAgain
  <2>22. ASSUME NEW s \in Restores, RemoveMarker(s)  PROVE DataInv'
    BY <2>22 DEF RemoveMarker
  <2>23. ASSUME NEW s \in Restores, UnblockAuth(s)  PROVE DataInv'
    BY <2>23 DEF UnblockAuth, Leave
  <2>24. ASSUME NEW a \in Actors, Abort(a)  PROVE DataInv'
    BY <2>24 DEF Abort, Lingers, Leave
  <2>25. CASE Crash
    BY <2>25 DEF Crash, Lingers
  <2>26. CASE Restart
    BY <2>26 DEF Restart
  <2>27. CASE OperatorRepair
    BY <2>27 DEF OperatorRepair, InvalidateSessions, Database
  <2>28. ASSUME NEW r \in Requests, Land(r)  PROVE DataInv'
    <3>1. /\ UNCHANGED <<pc, op, target, archives, acked, writer>>
          /\ r \in pending /\ pending' = pending \ {r}
          /\ late' = IF writer = {} THEN late ELSE late \cup {r}
      BY <2>28, LandType DEF Land
    <3>2. /\ live.data \subseteq live'.data /\ live'.data \subseteq live.data \cup {r}
          /\ live'.admins \subseteq live.admins
          /\ live.admins \ live'.admins \subseteq {target[r]}
          /\ live'.admins # live.admins => op[r] = "demote"
      BY <2>28 DEF Land, CommitWrite, CommitDemotion, MakeGeneration, Database
    <3>3. ASSUME NEW a, writer # {}, RecordedBy(a)  PROVE RecordedBy(a)'
      <4>1. late' = late \cup {r}
        BY <3>1, <3>3
      <4>2. a.data \subseteq live'.data /\ live'.data \ a.data \subseteq late'
        BY <3>2, <3>3, <4>1 DEF RecordedBy
      <4>3. live'.admins \subseteq a.admins
        BY <3>2, <3>3 DEF RecordedBy
      <4>4. ASSUME NEW u \in a.admins \ live'.admins  PROVE DemotedLate(u)'
        <5>1. CASE u \in live.admins
          BY <3>1, <3>2, <4>1, <5>1 DEF DemotedLate
        <5>2. CASE u \notin live.admins
          <6>1. DemotedLate(u)
            BY <3>3, <5>2 DEF RecordedBy
          <6> QED
            BY <3>1, <4>1, <6>1 DEF DemotedLate
        <5> QED
          BY <5>1, <5>2
      <4> QED
        BY <4>2, <4>3, <4>4 DEF RecordedBy
    <3>4. RecoveryArchiveIsCurrent'
      <4> SUFFICES ASSUME NEW s \in Restores, pc[s] \in {"rotate", "mark", "block", "pgrestore"}
                   PROVE  \E a \in archives : RecordedBy(a)'
        BY <3>1
      <4>1. writer = {s}
        OBVIOUS
      <4>2. PICK a \in archives : RecordedBy(a)
        OBVIOUS
      <4> QED
        BY <3>3, <4>1, <4>2
    <3>5. AcknowledgedWritesRecoverable'
      BY <3>1, <3>2
    <3> QED
      BY <3>1, <3>2, <3>4, <3>5
  <2>29. CASE UNCHANGED vars
    BY <2>29 DEF vars
  <2>30. QED
    BY <2>1, <2>2, <2>3, <2>4, <2>5, <2>6, <2>7, <2>8, <2>9, <2>10, <2>11, <2>12, <2>13, <2>14, <2>15, <2>16, <2>17, <2>18, <2>19, <2>20, <2>21, <2>22, <2>23, <2>24, <2>25, <2>26, <2>27, <2>28, <2>29
    DEF Next, RequestStep, RestoreStep, CutoverStep, Quiescent
<1>3. QED
  BY <1>1, <1>2, TypeCorrect, GateHeld, PTL DEF Spec

(* A write answered with success is never lost to a restore. *)
THEOREM NoAcknowledgedWriteLost == Spec => []AcknowledgedWritesRecoverable
<1>1. DataInv => AcknowledgedWritesRecoverable
  BY DEF DataInv
<1> QED
  BY <1>1, DataKept, PTL

(* The recovery archive holds what the restore is about to drop. *)
THEOREM RecoveryArchiveComplete == Spec => []RecoveryArchiveIsCurrent
<1>1. DataInv => RecoveryArchiveIsCurrent
  BY DEF DataInv
<1> QED
  BY <1>1, DataKept, PTL

(* A restore replaces the database for a present administrator only. *)
THEOREM RestoreStaysAuthorized == Spec => []CutoverStaysAuthorized
<1>1. Init => CutoverStaysAuthorized
  BY DEF Init, CutoverStaysAuthorized, Actors
<1>2. TypeOK /\ GateInv /\ DataInv /\ CutoverStaysAuthorized /\ [Next]_vars => CutoverStaysAuthorized'
  <2> SUFFICES ASSUME TypeOK, GateInv, DataInv, CutoverStaysAuthorized, [Next]_vars
               PROVE  CutoverStaysAuthorized'
    OBVIOUS
  <2>0. /\ pc \in [Actors -> Stages]
        /\ live \in Database
        /\ late \in SUBSET Requests
        /\ \A r \in late : pc[r] = "done"
    BY DEF TypeOK, DataInv
  <2> USE <2>0, ActorsDisjoint, DemotedLateKept
      DEF GateInv, CutoverStaysAuthorized, IsAdmin, Authenticated, SessionValid,
          SessionMatches, AuthBlocked, Actors, RequestShared, Exclusive, Goto,
          authVars, gateVars, inputVars, dbVars, lateVars, histVars
  <2>1. ASSUME NEW r \in Requests, Send(r)  PROVE CutoverStaysAuthorized'
    BY <2>1 DEF Send, Enqueue
  <2>2. ASSUME NEW r \in Requests, Enter(r)  PROVE CutoverStaysAuthorized'
    BY <2>2 DEF Enter, AcquireShared
  <2>3. ASSUME NEW r \in Requests, Authenticate(r)  PROVE CutoverStaysAuthorized'
    BY <2>3 DEF Authenticate, CallOnce
  <2>4. ASSUME NEW r \in Requests, Refuse(r)  PROVE CutoverStaysAuthorized'
    BY <2>4 DEF Refuse, CallOnce, Leave
  <2>5. ASSUME NEW r \in Requests, Commit(r)  PROVE CutoverStaysAuthorized'
    <3>1. writer = {}
      BY <2>5 DEF Commit
    <3>2. \A s \in Restores : pc'[s] \notin Exclusive
      BY <2>5, <3>1 DEF Commit
    <3> QED
      BY <3>2
  <2>6. ASSUME NEW r \in Requests, Conflict(r)  PROVE CutoverStaysAuthorized'
    BY <2>6 DEF Conflict, Leave
  <2>7. ASSUME NEW r \in Requests, Respond(r)  PROVE CutoverStaysAuthorized'
    BY <2>7 DEF Respond, Leave
  <2>8. ASSUME NEW s \in Restores, Submit(s)  PROVE CutoverStaysAuthorized'
    BY <2>8 DEF Submit, Enqueue
  <2>9. ASSUME NEW s \in Restores, BeginCheck(s)  PROVE CutoverStaysAuthorized'
    BY <2>9 DEF BeginCheck, AcquireShared
  <2>10. ASSUME NEW s \in Restores, CheckAdmin(s)  PROVE CutoverStaysAuthorized'
    BY <2>10 DEF CheckAdmin, CallOnce, Leave
  <2>11. ASSUME NEW s \in Restores, StageArchive(s)  PROVE CutoverStaysAuthorized'
    BY <2>11 DEF StageArchive, Enqueue
  <2>12. ASSUME NEW s \in Restores, BeginCutover(s)  PROVE CutoverStaysAuthorized'
    <3>1. \A t \in Restores : pc'[t] \notin {"dump", "rotate", "mark", "block", "pgrestore"}
      BY <2>12 DEF BeginCutover, AcquireExclusive
    <3> QED
      BY <3>1
  <2>13. ASSUME NEW s \in Restores, RecheckAdmin(s)  PROVE CutoverStaysAuthorized'
    BY <2>13 DEF RecheckAdmin, CallOnce
  <2>14. ASSUME NEW s \in Restores, RefuseRestore(s)  PROVE CutoverStaysAuthorized'
    BY <2>14 DEF RefuseRestore, CallOnce, Leave
  <2>15. ASSUME NEW s \in Restores, DumpRecovery(s)  PROVE CutoverStaysAuthorized'
    BY <2>15 DEF DumpRecovery
  <2>16. ASSUME NEW s \in Restores, Rotate(s)  PROVE CutoverStaysAuthorized'
    <3>1. live'.admins = live.admins
      BY <2>16 DEF Rotate, InvalidateSessions, Database
    <3> QED
      BY <2>16, <3>1 DEF Rotate
  <2>17. ASSUME NEW s \in Restores, CreateMarker(s)  PROVE CutoverStaysAuthorized'
    BY <2>17 DEF CreateMarker
  <2>18. ASSUME NEW s \in Restores, MarkerExists(s)  PROVE CutoverStaysAuthorized'
    BY <2>18 DEF MarkerExists, Leave
  <2>19. ASSUME NEW s \in Restores, BlockAuth(s)  PROVE CutoverStaysAuthorized'
    BY <2>19 DEF BlockAuth
  <2>20. ASSUME NEW s \in Restores, PgRestore(s)  PROVE CutoverStaysAuthorized'
    BY <2>20 DEF PgRestore
  <2>21. ASSUME NEW s \in Restores, RotateAgain(s)  PROVE CutoverStaysAuthorized'
    BY <2>21 DEF RotateAgain, InvalidateSessions
  <2>22. ASSUME NEW s \in Restores, RemoveMarker(s)  PROVE CutoverStaysAuthorized'
    BY <2>22 DEF RemoveMarker
  <2>23. ASSUME NEW s \in Restores, UnblockAuth(s)  PROVE CutoverStaysAuthorized'
    BY <2>23 DEF UnblockAuth, Leave
  <2>24. ASSUME NEW a \in Actors, Abort(a)  PROVE CutoverStaysAuthorized'
    BY <2>24 DEF Abort, Leave
  <2>25. CASE Crash
    BY <2>25 DEF Crash
  <2>26. CASE Restart
    BY <2>26 DEF Restart
  <2>27. CASE OperatorRepair
    BY <2>27 DEF OperatorRepair, InvalidateSessions
  <2>28. ASSUME NEW r \in Requests, Land(r)  PROVE CutoverStaysAuthorized'
    <3>1. /\ UNCHANGED <<pc, op, target, token, blocked, initialized, marker, writer>>
          /\ late' = IF writer = {} THEN late ELSE late \cup {r}
      BY <2>28 DEF Land
    <3>2. /\ live'.epoch = live.epoch
          /\ live.gen # 0 => live'.gen = live.gen
          /\ live.admins \ live'.admins \subseteq {target[r]}
          /\ live'.admins # live.admins => op[r] = "demote"
      BY <2>28 DEF Land, CommitWrite, CommitDemotion, MakeGeneration, Database
    <3> SUFFICES ASSUME NEW s \in Restores,
                        pc[s] \in {"dump", "rotate", "mark", "block", "pgrestore"}
                 PROVE  /\ pc[s] \in {"dump", "rotate"} => Authenticated(s)'
                        /\ (token[s].user \in live.admins \/ DemotedLate(token[s].user))'
      BY <3>1
    <3>3. late' = late \cup {r}
      BY <3>1
    <3>4. pc[s] \in {"dump", "rotate"} => Authenticated(s)'
      BY <3>1, <3>2
    <3>5. CASE token[s].user \in live.admins /\ token[s].user \notin live'.admins
      BY <3>1, <3>2, <3>3, <3>5 DEF DemotedLate
    <3>6. CASE DemotedLate(token[s].user)
      <4>1. PICK q \in late : op[q] = "demote" /\ target[q] = token[s].user
        BY <3>6 DEF DemotedLate
      <4>2. DemotedLate(token[s].user)'
        BY <3>1, <3>3, <4>1 DEF DemotedLate
      <4> QED
        BY <3>4, <4>2
    <3>7. token[s].user \in live.admins \/ DemotedLate(token[s].user)
      OBVIOUS
    <3> QED
      BY <3>1, <3>4, <3>5, <3>6, <3>7
  <2>29. CASE UNCHANGED vars
    BY <2>29 DEF vars
  <2>30. QED
    BY <2>1, <2>2, <2>3, <2>4, <2>5, <2>6, <2>7, <2>8, <2>9, <2>10, <2>11, <2>12, <2>13, <2>14, <2>15, <2>16, <2>17, <2>18, <2>19, <2>20, <2>21, <2>22, <2>23, <2>24, <2>25, <2>26, <2>27, <2>28, <2>29
    DEF Next, RequestStep, RestoreStep, CutoverStep, Quiescent
<1>3. QED
  BY <1>1, <1>2, TypeCorrect, GateHeld, DataKept, PTL DEF Spec

--------------------------------------------------------------------------------
(* RestoreGate implements RestorePromise: every step of the gate, of a handler, of a
   restore or of an interruption is a step of the promise. *)

(* The step of NoResurrection. *)
Final == \A t \in issued : ~SessionValid(t) => ~SessionValid(t)'

(* What is uploaded was downloaded. *)
UploadsDumped == \A s \in Restores : upload[s] \in archives

(* No step removes an archive. *)
THEOREM UploadsAreDumps == Spec => []UploadsDumped
<1>1. Init => UploadsDumped
  BY DEF Init, UploadsDumped
<1>2. TypeOK /\ UploadsDumped /\ [Next]_vars => UploadsDumped'
  <2> SUFFICES ASSUME TypeOK, UploadsDumped, [Next]_vars
               PROVE  UploadsDumped'
    OBVIOUS
  <2>0. upload \in [Restores -> Database]
    BY DEF TypeOK
  <2> USE <2>0 DEF UploadsDumped, inputVars, dbVars
  <2>1. ASSUME NEW r \in Requests, Send(r) \/ RequestStep(r)
        PROVE  upload' = upload /\ archives \subseteq archives'
    BY <2>1 DEF Send, RequestStep, Enter, Authenticate, Refuse, Commit, CommitWrite,
                CommitDemotion, CompleteBackup, IssueCookies, Conflict, Respond
  <2>2. ASSUME NEW s \in Restores, Submit(s)
        PROVE  UploadsDumped'
    BY <2>2 DEF Submit
  <2>3. ASSUME NEW s \in Restores, StageArchive(s) \/ RestoreStep(s)
        PROVE  upload' = upload /\ archives \subseteq archives'
    BY <2>3 DEF StageArchive, RestoreStep, CutoverStep, BeginCheck, CheckAdmin, BeginCutover,
                RecheckAdmin, RefuseRestore, DumpRecovery, Rotate, CreateMarker,
                MarkerExists, BlockAuth, PgRestore, RotateAgain, RemoveMarker, UnblockAuth
  <2>4. ASSUME (\E a \in Actors : Abort(a)) \/ (\E r \in Requests : Land(r)) \/ Crash \/ Restart \/ OperatorRepair
                \/ UNCHANGED vars
        PROVE  upload' = upload /\ archives' = archives
    BY <2>4 DEF Abort, Land, CommitWrite, CommitDemotion, MakeGeneration, Crash, Restart,
                OperatorRepair, vars
  <2> QED
    BY <2>1, <2>2, <2>3, <2>4 DEF Next, Quiescent
<1> QED
  BY <1>1, <1>2, TypeCorrect, PTL DEF Spec

--------------------------------------------------------------------------------

(* A step that issues nothing and leaves the stored writes alone can only
   refuse sessions. *)
LEMMA QuietRefuses ==
  ASSUME Final, UNCHANGED <<issued, live.data, archives, era, acked>>
  PROVE  Promise!Refuse
  BY DEF Final, Promise!Refuse, Promise!stored

(* Sessions are judged by the generation, the epoch and the marker alone. *)
LEMMA SameSessions ==
  ASSUME UNCHANGED <<issued, blocked, initialized, marker, live.gen, live.epoch>>
  PROVE  {t \in issued : SessionValid(t)}' = {t \in issued : SessionValid(t)}
  BY DEF SessionValid, SessionMatches, AuthBlocked

(* New cookies are one new session of the present database, or one that is
   known already. *)
LEMMA CookiesSignIn ==
  ASSUME TypeOK, SessionInv, Final, NEW r \in Requests, Commit(r), IssueCookies(r)
  PROVE  Promise!SignIn \/ Promise!Refuse
<1>1. PICK t :
        /\ issued' = issued \cup {t}
        /\ t.era = era
        /\ live'.epoch = live.epoch /\ live'.data = live.data
        /\ live.gen # 0 => live'.gen = live.gen
        /\ UNCHANGED <<archives, blocked, initialized, marker, era, acked>>
  <2>1. UNCHANGED <<archives, blocked, initialized, marker, era, acked>>
    BY DEF Commit, IssueCookies, authVars, histVars
  <2>2. /\ live'.epoch = live.epoch /\ live'.data = live.data
        /\ live.gen # 0 => live'.gen = live.gen
    BY DEF IssueCookies, MintToken, TypeOK, Database
  <2>3. \E t : issued' = issued \cup {t} /\ t.era = era
    <3> DEFINE gen == IF live.gen = 0 THEN latestGen + 1 ELSE live.gen
    <3>1. issued' = issued \cup {[user |-> target[r], gen |-> gen, era |-> era]}
      BY DEF IssueCookies, MintToken
    <3>2. [user |-> target[r], gen |-> gen, era |-> era].era = era
      OBVIOUS
    <3> HIDE DEF gen
    <3> QED
      BY <3>1, <3>2
  <2> QED
    BY <2>1, <2>2, <2>3
<1>2. CASE t \in issued
  BY <1>1, <1>2, QuietRefuses
<1>3. CASE t \notin issued
  <2>1. ASSUME NEW u \in issued
        PROVE  SessionValid(u)' <=> SessionValid(u)
    <3>1. SessionValid(u) => SessionValid(u)'
      BY <1>1 DEF SessionValid, SessionMatches, AuthBlocked, TypeOK, Token, Database
    <3> QED
      BY <3>1 DEF Final
  <2>2. {u \in issued : SessionValid(u)}' \in
          {{u \in issued : SessionValid(u)}, {u \in issued : SessionValid(u)} \cup {t}}
    <3>1. CASE SessionValid(t)'
      <4>1. {u \in issued : SessionValid(u)}' = {u \in issued : SessionValid(u)} \cup {t}
        BY <1>1, <2>1, <3>1
      <4> QED
        BY <4>1
    <3>2. CASE ~SessionValid(t)'
      <4>1. {u \in issued : SessionValid(u)}' = {u \in issued : SessionValid(u)}
        BY <1>1, <2>1, <3>2
      <4> QED
        BY <4>1
    <3> QED
      BY <3>1, <3>2
  <2>3. t \in issued' \ issued /\ t.era = era
    BY <1>1, <1>3
  <2>4. UNCHANGED <<era, live.data, {a.data : a \in archives}, acked>>
    BY <1>1
  <2> QED
    BY <1>1, <2>2, <2>3, <2>4 DEF Promise!SignIn, Promise!stored
<1> QED
  BY <1>2, <1>3

(* Every step is a step of the promise or changes nothing it speaks of. *)
LEMMA StepKeepsPromise ==
  ASSUME TypeOK, GateInv, SessionInv, DataInv, UploadsDumped, Final, [Next]_vars
  PROVE  [Promise!Next]_(Promise!vars)
<1> USE DEF authVars, gateVars, inputVars, dbVars, lateVars, histVars
<1>1. ASSUME NEW r \in Requests,
             Send(r) \/ Enter(r) \/ Authenticate(r) \/ Refuse(r) \/ Conflict(r)
      PROVE  Promise!Refuse
  BY <1>1, QuietRefuses DEF Send, Enter, Authenticate, Refuse, Conflict
<1>2. ASSUME NEW r \in Requests, Commit(r)
      PROVE  Promise!Next
  <2>1. UNCHANGED <<blocked, initialized, marker, era, acked>>
    BY <1>2 DEF Commit
  <2>2. CASE CommitWrite(r)
    <3>1. /\ live'.data = live.data \cup {r}
          /\ UNCHANGED <<archives, issued, live.gen, live.epoch>>
      BY <2>2 DEF CommitWrite, TypeOK, Database
    <3>2. Promise!Write(r)
      BY <2>1, <3>1, SameSessions DEF Promise!Write, Promise!sessions
    <3> QED
      BY <3>2 DEF Promise!Next
  <2>3. CASE CommitDemotion(r)
    <3>1. UNCHANGED <<issued, live.data, archives>>
      BY <2>3 DEF CommitDemotion, TypeOK, Database
    <3> QED
      BY <2>1, <3>1, QuietRefuses DEF Promise!Next
  <2>4. CASE CompleteBackup(r)
    <3>1. UNCHANGED <<issued, live>> /\ archives' = archives \cup {live}
      BY <2>4 DEF CompleteBackup
    <3>2. {a.data : a \in archives}' = {a.data : a \in archives} \cup {live.data}
      BY <3>1
    <3>3. Promise!Dump
      BY <2>1, <3>1, <3>2, SameSessions DEF Promise!Dump, Promise!sessions
    <3> QED
      BY <3>3 DEF Promise!Next
  <2>5. CASE IssueCookies(r)
    BY <1>2, <2>5, CookiesSignIn DEF Promise!Next
  <2> QED
    BY <1>2, <2>2, <2>3, <2>4, <2>5 DEF Commit
<1>3. ASSUME NEW r \in Requests, Respond(r)
      PROVE  Promise!Next
  <2>1. UNCHANGED <<issued, live, archives, era, blocked, initialized, marker>>
    BY <1>3 DEF Respond
  <2>2. CASE op[r] = "write"
    <3>1. r \in live.data /\ acked' = acked \cup {r}
      BY <1>3, <2>2 DEF Respond, Goto, DataInv
    <3>2. Promise!Acknowledge(r)
      BY <2>1, <3>1, SameSessions DEF Promise!Acknowledge, Promise!sessions
    <3> QED
      BY <3>2 DEF Promise!Next
  <2>3. CASE op[r] # "write"
    <3>1. acked' = acked
      BY <1>3, <2>3 DEF Respond
    <3> QED
      BY <2>1, <3>1, QuietRefuses DEF Promise!Next
  <2> QED
    BY <2>2, <2>3
<1>4. ASSUME NEW s \in Restores,
             \/ Submit(s) \/ StageArchive(s) \/ BeginCheck(s) \/ CheckAdmin(s)
             \/ BeginCutover(s) \/ RecheckAdmin(s) \/ RefuseRestore(s)
             \/ CreateMarker(s) \/ MarkerExists(s) \/ BlockAuth(s)
             \/ RemoveMarker(s) \/ UnblockAuth(s)
      PROVE  Promise!Refuse
  BY <1>4, QuietRefuses
     DEF Submit, StageArchive, BeginCheck, CheckAdmin, BeginCutover, RecheckAdmin,
         RefuseRestore, CreateMarker, MarkerExists, BlockAuth, RemoveMarker, UnblockAuth
<1>5. ASSUME NEW s \in Restores, DumpRecovery(s)
      PROVE  Promise!Dump
  <2>1. /\ UNCHANGED <<issued, live, blocked, initialized, marker, era, acked>>
        /\ archives' = archives \cup {live}
    BY <1>5 DEF DumpRecovery
  <2>2. {a.data : a \in archives}' = {a.data : a \in archives} \cup {live.data}
    BY <2>1
  <2> QED
    BY <2>1, <2>2, SameSessions DEF Promise!Dump, Promise!sessions
<1>6. ASSUME InvalidateSessions, UNCHANGED <<issued, archives, era, acked>>
      PROVE  Promise!Refuse
  <2>1. live'.data = live.data
    BY <1>6 DEF InvalidateSessions, TypeOK, Database
  <2> QED
    BY <1>6, <2>1, QuietRefuses
<1>7. ASSUME NEW s \in Restores, Rotate(s) \/ RotateAgain(s)
      PROVE  Promise!Refuse
  BY <1>6, <1>7 DEF Rotate, RotateAgain
<1>8. ASSUME NEW s \in Restores, PgRestore(s)
      PROVE  Promise!Next
  <2>1. UNCHANGED <<issued, archives, acked, blocked, initialized, marker>>
    BY <1>8 DEF PgRestore
  <2>2. CASE live' = upload[s] /\ era' = era + 1
    <3>1. \E dump \in {a.data : a \in archives} : acked \cap live.data \subseteq dump
      <4>1. PICK a \in archives : RecordedBy(a)
        BY <1>8 DEF PgRestore, Goto, DataInv, RecoveryArchiveIsCurrent
      <4>2. acked \cap live.data \subseteq a.data
        BY <4>1 DEF RecordedBy, DataInv
      <4> QED
        BY <4>2
    <3>2. live'.data \in {a.data : a \in archives}
      BY <2>2 DEF UploadsDumped
    <3>3. blocked
      BY <1>8 DEF PgRestore, Goto, SessionInv
    <3>4. {t \in issued : SessionValid(t)} = {} /\ {t \in issued : SessionValid(t)}' = {}
      BY <2>1, <3>3 DEF SessionValid, AuthBlocked
    <3>5. Promise!Replace
      BY <2>1, <2>2, <3>1, <3>2, <3>4 DEF Promise!Replace, Promise!sessions
    <3> QED
      BY <3>5 DEF Promise!Next
  <2>3. CASE UNCHANGED <<live, era>>
    BY <2>1, <2>3, QuietRefuses DEF Promise!Next
  <2> QED
    BY <1>8, <2>2, <2>3 DEF PgRestore
<1>9. ASSUME NEW a \in Actors, Abort(a)
      PROVE  Promise!Refuse
  BY <1>9, QuietRefuses DEF Abort
<1>10. ASSUME NEW r \in Requests, Land(r)
       PROVE  Promise!Next
  <2>1. UNCHANGED <<archives, issued, blocked, initialized, marker, era, acked>>
    BY <1>10, LandType DEF Land
  <2>2. CASE CommitWrite(r)
    <3>1. live'.data = live.data \cup {r} /\ UNCHANGED <<live.gen, live.epoch>>
      BY <2>2 DEF CommitWrite, TypeOK, Database
    <3>2. Promise!Write(r)
      BY <2>1, <3>1, SameSessions DEF Promise!Write, Promise!sessions
    <3> QED
      BY <3>2 DEF Promise!Next
  <2>3. CASE CommitDemotion(r) \/ MakeGeneration(r)
    <3>1. UNCHANGED live.data
      BY <2>3 DEF CommitDemotion, MakeGeneration, TypeOK, Database
    <3> QED
      BY <2>1, <3>1, QuietRefuses DEF Promise!Next
  <2> QED
    BY <1>10, <2>2, <2>3 DEF Land
<1>11. CASE Crash \/ Restart
  BY <1>11, QuietRefuses DEF Crash, Restart, Promise!Next
<1>12. CASE OperatorRepair
  BY <1>6, <1>12 DEF OperatorRepair, Promise!Next
<1>13. CASE UNCHANGED vars
  BY <1>13, QuietRefuses DEF vars, Promise!Next
<1> QED
  BY <1>1, <1>2, <1>3, <1>4, <1>5, <1>7, <1>8, <1>9, <1>10, <1>11, <1>12, <1>13
  DEF Next, RequestStep, RestoreStep, CutoverStep, Quiescent, Promise!Next

(* In the beginning every session is accepted and the first dump is empty. *)
LEMMA InitKeepsPromise ==
  ASSUME Init
  PROVE  Promise!Init
<1>1. \A t \in issued : t.gen = 0 /\ t.era = 0
  BY DEF Init, LegacyTokens
<1>2. ~AuthBlocked /\ ~live.epoch
  BY DEF Init, AuthBlocked, LegacyDatabase
<1>3. {t \in issued : SessionValid(t)} = issued
  BY <1>1, <1>2 DEF SessionValid, SessionMatches
<1>4. live.data = {} /\ {a.data : a \in archives} = {{}}
  <2>1. LegacyDatabase.data = {}
    BY DEF LegacyDatabase
  <2>2. live = LegacyDatabase /\ archives = {LegacyDatabase}
    BY DEF Init
  <2> QED
    BY <2>1, <2>2
<1> QED
  BY <1>1, <1>3, <1>4 DEF Init, Promise!Init

(* The gate, the marker, the generations and the recovery archive implement
   the promise: writes stay or are dumped, and sessions that were refused are
   never accepted again. *)
THEOREM GateKeepsPromise == Spec => KeepsPromise
<1>1. Init => Promise!Init
  BY InitKeepsPromise
<1>2. TypeOK /\ GateInv /\ SessionInv /\ DataInv /\ UploadsDumped /\ [Final]_vars /\ [Next]_vars
        => [Promise!Next]_(Promise!vars)
  <2>1. UNCHANGED vars => Final
    BY DEF vars, Final, SessionValid, SessionMatches, AuthBlocked
  <2> QED
    BY <2>1, StepKeepsPromise
<1>3. Spec => [][Final]_vars
  BY RefusalIsFinal DEF NoResurrection, Final
<1> QED
  BY <1>1, <1>2, <1>3, TypeCorrect, GateHeld, SessionsKept, DataKept, UploadsAreDumps, PTL
  DEF Spec, KeepsPromise, Promise!Spec

================================================================================
