------------------------- MODULE ConnectionDrainProofs -------------------------
(***************************************************************************)
(* What ConnectionDrain promises, for any number of requests and restores  *)
(* and any size of the pool.                                               *)
(***************************************************************************)
EXTENDS ConnectionDrain, FiniteSetTheorems, TLAPS

(* A handler holds the shared side, a cutover the exclusive one, never both. *)
SidesInv ==
    /\ \A r \in Writers : at[r] \in Handling => r \in readers
    /\ \A s \in Restores : at[s] \in Cutover => writer = {s}
    /\ writer = {} \/ readers = {}

(* Whoever uses a connection has one of the pool's permits. *)
PermitInv == Busy + taken <= MaxConnections

(* A statement is pending for a handler in the present era, or for one that is
   gone and passed by roomy drains only; a drain of a full pool left none. *)
StrayInv ==
    /\ \A r \in Writers : at[r] \in {"new", "inside"} => r \notin pending /\ ~Landed(r)
    /\ \A r \in Writers : at[r] \in Handling => entryEra[r] = era
    /\ \A r \in pending : at[r] \in {"sent", "gone"} /\ entryEra[r] .. (era - 1) \subseteq roomy
    /\ \A s \in Restores : at[s] = "pgrestore" /\ MaxConnections <= wanted => pending = {}
    /\ StraysPassRoomyDrains

(* Statements are pending for those that sent them. *)
RecoveryInv ==
    /\ \A r \in pending : at[r] \in {"sent", "gone"}
    /\ RecoveryLacksOnlyAbandoned

--------------------------------------------------------------------------------

(* Every step keeps the variables' types. *)
THEOREM DrainTypeCorrect == DrainSpec => []DrainTypeOK
<1>1. DrainInit => DrainTypeOK
  BY ActorsDisjoint DEF DrainInit, DrainTypeOK, NotLanded, Actors, Places, Handling, Draining, Cutover
<1>2. DrainTypeOK /\ [DrainNext]_drainVars => DrainTypeOK'
  <2> SUFFICES ASSUME DrainTypeOK, [DrainNext]_drainVars
               PROVE  DrainTypeOK'
    OBVIOUS
  <2> USE ActorsDisjoint DEF DrainTypeOK, NotLanded, Landed, Actors, Places, Handling, Draining, Cutover, Moves, sides, pool, contents, eras
  <2>1. ASSUME NEW r \in Writers, EnterGate(r)  PROVE DrainTypeOK'
    BY <2>1 DEF EnterGate
  <2>2. ASSUME NEW r \in Writers, SendStatement(r)  PROVE DrainTypeOK'
    BY <2>2 DEF SendStatement, Acquire
  <2>3. ASSUME NEW r \in Writers, ExecuteStatement(r)  PROVE DrainTypeOK'
    BY <2>3 DEF ExecuteStatement
  <2>4. ASSUME NEW r \in Writers, Answer(r)  PROVE DrainTypeOK'
    BY <2>4 DEF Answer, LeaveGate
  <2>5. ASSUME NEW r \in Writers, Disconnect(r)  PROVE DrainTypeOK'
    BY <2>5 DEF Disconnect, LeaveGate
  <2>6. ASSUME NEW s \in Restores, TakeGate(s)  PROVE DrainTypeOK'
    BY <2>6 DEF TakeGate
  <2>7. ASSUME NEW s \in Restores, DumpFirst(s)  PROVE DrainTypeOK'
    BY <2>7 DEF DumpFirst
  <2>8. ASSUME NEW s \in Restores, CountConnections(s)  PROVE DrainTypeOK'
    <3>1. Busy \in Nat
      BY RequestsAreFinite, FS_Subset, FS_CardinalityType DEF Busy
    <3> QED
      BY <2>8, <3>1 DEF CountConnections, PoolSize
  <2>9. ASSUME NEW s \in Restores, TakeConnection(s)  PROVE DrainTypeOK'
    BY <2>9 DEF TakeConnection, Acquire
  <2>10. ASSUME NEW s \in Restores, CloseConnections(s)  PROVE DrainTypeOK'
    BY <2>10 DEF CloseConnections, LeaveGate
  <2>11. ASSUME NEW s \in Restores, PgRestoreRuns(s)  PROVE DrainTypeOK'
    <3>1. /\ (live' \in dumps /\ era' = era + 1) \/ (live' = live /\ era' = era)
          /\ roomy' = roomy \cup {era} \/ roomy' = roomy
      BY <2>11 DEF PgRestoreRuns
    <3>2. live' \in SUBSET Writers /\ era' \in Nat
      BY <3>1
    <3>3. roomy' \in SUBSET Nat
      <4>1. \A n \in roomy' : n \in roomy \/ n = era
        BY <3>1
      <4> QED
        BY <4>1
    <3>4. at' \in [Actors -> Places]
      BY <2>11 DEF PgRestoreRuns
    <3> QED
      BY <2>11, <3>2, <3>3, <3>4 DEF PgRestoreRuns
  <2>12. ASSUME NEW s \in Restores, AbandonRestore(s)  PROVE DrainTypeOK'
    BY <2>12 DEF AbandonRestore, LeaveGate
  <2>13. ASSUME Expire  PROVE DrainTypeOK'
    BY <2>13 DEF Expire
  <2>14. CASE UNCHANGED drainVars
    BY <2>14 DEF drainVars
  <2>15. QED
    BY <2>1, <2>2, <2>3, <2>4, <2>5, <2>6, <2>7, <2>8,
       <2>9, <2>10, <2>11, <2>12, <2>13, <2>14
    DEF DrainNext, RequestStep, ReplacerStep, AllQuiet
<1>3. QED
  BY <1>1, <1>2, PTL DEF DrainSpec

(* The gate keeps handlers and cutovers apart. *)
THEOREM DrainGateHeld == DrainSpec => []SidesInv
<1>1. DrainInit => SidesInv
  BY ActorsDisjoint DEF DrainInit, SidesInv, Actors, Places, Handling, Draining, Cutover
<1>2. DrainTypeOK /\ SidesInv /\ [DrainNext]_drainVars => SidesInv'
  <2> SUFFICES ASSUME DrainTypeOK, SidesInv, [DrainNext]_drainVars
               PROVE  SidesInv'
    OBVIOUS
  <2> USE ActorsDisjoint DEF DrainTypeOK, SidesInv, Actors, Places, Handling, Draining, Cutover, Moves, sides, pool, contents, eras
  <2>1. ASSUME NEW r \in Writers, EnterGate(r)  PROVE SidesInv'
    BY <2>1 DEF EnterGate
  <2>2. ASSUME NEW r \in Writers, SendStatement(r)  PROVE SidesInv'
    BY <2>2 DEF SendStatement, Acquire
  <2>3. ASSUME NEW r \in Writers, ExecuteStatement(r)  PROVE SidesInv'
    BY <2>3 DEF ExecuteStatement
  <2>4. ASSUME NEW r \in Writers, Answer(r)  PROVE SidesInv'
    BY <2>4 DEF Answer, LeaveGate
  <2>5. ASSUME NEW r \in Writers, Disconnect(r)  PROVE SidesInv'
    BY <2>5 DEF Disconnect, LeaveGate
  <2>6. ASSUME NEW s \in Restores, TakeGate(s)  PROVE SidesInv'
    BY <2>6 DEF TakeGate
  <2>7. ASSUME NEW s \in Restores, DumpFirst(s)  PROVE SidesInv'
    BY <2>7 DEF DumpFirst
  <2>8. ASSUME NEW s \in Restores, CountConnections(s)  PROVE SidesInv'
    BY <2>8 DEF CountConnections
  <2>9. ASSUME NEW s \in Restores, TakeConnection(s)  PROVE SidesInv'
    BY <2>9 DEF TakeConnection, Acquire
  <2>10. ASSUME NEW s \in Restores, CloseConnections(s)  PROVE SidesInv'
    BY <2>10 DEF CloseConnections, LeaveGate
  <2>11. ASSUME NEW s \in Restores, PgRestoreRuns(s)  PROVE SidesInv'
    BY <2>11 DEF PgRestoreRuns
  <2>12. ASSUME NEW s \in Restores, AbandonRestore(s)  PROVE SidesInv'
    BY <2>12 DEF AbandonRestore, LeaveGate
  <2>13. ASSUME Expire  PROVE SidesInv'
    BY <2>13 DEF Expire
  <2>14. CASE UNCHANGED drainVars
    BY <2>14 DEF drainVars
  <2>15. QED
    BY <2>1, <2>2, <2>3, <2>4, <2>5, <2>6, <2>7, <2>8,
       <2>9, <2>10, <2>11, <2>12, <2>13, <2>14
    DEF DrainNext, RequestStep, ReplacerStep, AllQuiet
<1>3. QED
  BY <1>1, <1>2, DrainTypeCorrect, PTL DEF DrainSpec

(* One more statement needs at most one more permit. *)
LEMMA OneMoreBusy ==
    ASSUME DrainTypeOK, NEW r \in Writers
    PROVE  /\ Busy \in Nat
           /\ Cardinality(pending \cup {r}) \in Nat
           /\ Cardinality(pending \cup {r}) <= Busy + 1
           /\ Cardinality(pending \ {r}) \in Nat
           /\ Cardinality(pending \ {r}) <= Busy
<1>1. IsFiniteSet(pending)
  BY RequestsAreFinite, FS_Subset DEF DrainTypeOK
<1>2. Busy \in Nat
  BY <1>1, FS_CardinalityType DEF Busy
<1>3. /\ IsFiniteSet(pending \cup {r})
      /\ Cardinality(pending \cup {r}) = IF r \in pending THEN Busy ELSE Busy + 1
  BY <1>1, FS_AddElement DEF Busy
<1>4. /\ IsFiniteSet(pending \ {r})
      /\ Cardinality(pending \ {r}) = IF r \in pending THEN Busy - 1 ELSE Busy
  BY <1>1, FS_RemoveElement DEF Busy
<1>5. Cardinality(pending \cup {r}) \in Nat /\ Cardinality(pending \ {r}) \in Nat
  BY <1>3, <1>4, FS_CardinalityType
<1>6. QED
  BY <1>2, <1>3, <1>4, <1>5

(* Connections in use never exceed the size of the pool (db/mod.rs create_pool). *)
THEOREM PermitsHeld == DrainSpec => []PermitInv
<1>1. DrainInit => PermitInv
  BY PoolIsPositive, FS_EmptySet DEF DrainInit, PermitInv, Busy
<1>2. DrainTypeOK /\ PermitInv /\ [DrainNext]_drainVars => PermitInv'
  <2> SUFFICES ASSUME DrainTypeOK, PermitInv, [DrainNext]_drainVars
               PROVE  PermitInv'
    OBVIOUS
  <2> USE PoolIsPositive DEF DrainTypeOK, PermitInv, sides, pool, contents, eras
  <2>0. Busy \in Nat
    BY RequestsAreFinite, FS_Subset, FS_CardinalityType DEF Busy
  <2>1. ASSUME NEW r \in Writers, EnterGate(r)  PROVE PermitInv'
    BY <2>1 DEF EnterGate, Busy
  <2>2. ASSUME NEW r \in Writers, SendStatement(r)  PROVE PermitInv'
    <3>1. Busy + taken < MaxConnections /\ taken' = taken /\ Busy' = Cardinality(pending \cup {r})
      BY <2>2 DEF SendStatement, Acquire, Busy
    <3>2. Busy \in Nat /\ Cardinality(pending \cup {r}) \in Nat
          /\ Cardinality(pending \cup {r}) <= Busy + 1
      BY OneMoreBusy
    <3> QED
      BY <3>1, <3>2
  <2>3. ASSUME NEW r \in Writers, ExecuteStatement(r)  PROVE PermitInv'
    <3>1. taken' = taken /\ Busy' = Cardinality(pending \ {r})
      BY <2>3 DEF ExecuteStatement, Busy
    <3>2. Busy \in Nat /\ Cardinality(pending \ {r}) \in Nat
          /\ Cardinality(pending \ {r}) <= Busy
      BY OneMoreBusy
    <3> QED
      BY <3>1, <3>2
  <2>4. ASSUME NEW r \in Writers, Answer(r)  PROVE PermitInv'
    BY <2>4 DEF Answer, Busy
  <2>5. ASSUME NEW r \in Writers, Disconnect(r)  PROVE PermitInv'
    BY <2>5 DEF Disconnect, Busy
  <2>6. ASSUME NEW s \in Restores, TakeGate(s)  PROVE PermitInv'
    BY <2>6 DEF TakeGate, Busy
  <2>7. ASSUME NEW s \in Restores, DumpFirst(s)  PROVE PermitInv'
    BY <2>7 DEF DumpFirst, Busy
  <2>8. ASSUME NEW s \in Restores, CountConnections(s)  PROVE PermitInv'
    BY <2>8 DEF CountConnections, Busy
  <2>9. ASSUME NEW s \in Restores, TakeConnection(s)  PROVE PermitInv'
    <3>1. Busy + taken < MaxConnections /\ taken' = taken + 1 /\ Busy' = Busy
      BY <2>9 DEF TakeConnection, Acquire, Busy
    <3> QED
      BY <2>0, <3>1
  <2>10. ASSUME NEW s \in Restores, CloseConnections(s)  PROVE PermitInv'
    <3>1. taken' = 0 /\ Busy' = Busy
      BY <2>10 DEF CloseConnections, Busy
    <3> QED
      BY <2>0, <3>1
  <2>11. ASSUME NEW s \in Restores, PgRestoreRuns(s)  PROVE PermitInv'
    BY <2>11 DEF PgRestoreRuns, Busy
  <2>12. ASSUME NEW s \in Restores, AbandonRestore(s)  PROVE PermitInv'
    <3>1. taken' = 0 /\ Busy' = Busy
      BY <2>12 DEF AbandonRestore, Busy
    <3> QED
      BY <2>0, <3>1
  <2>13. ASSUME Expire  PROVE PermitInv'
    BY <2>13 DEF Expire, Busy
  <2>14. CASE UNCHANGED drainVars
    BY <2>14 DEF drainVars, Busy
  <2>15. QED
    BY <2>1, <2>2, <2>3, <2>4, <2>5, <2>6, <2>7, <2>8,
       <2>9, <2>10, <2>11, <2>12, <2>13, <2>14
    DEF DrainNext, RequestStep, ReplacerStep, AllQuiet
<1>3. QED
  BY <1>1, <1>2, DrainTypeCorrect, PTL DEF DrainSpec

(* Whatever is still pending passed by drains of a pool that was not full. *)
THEOREM StraysAccounted == DrainSpec => []StrayInv
<1>1. DrainInit => StrayInv
  BY ActorsDisjoint DEF DrainInit, StrayInv, StraysPassRoomyDrains, NotLanded, Landed, Actors, Places, Handling, Draining, Cutover
<1>2. DrainTypeOK /\ SidesInv /\ PermitInv /\ StrayInv /\ [DrainNext]_drainVars => StrayInv'
  <2> SUFFICES ASSUME DrainTypeOK, SidesInv, PermitInv, StrayInv, [DrainNext]_drainVars
               PROVE  StrayInv'
    OBVIOUS
  <2> USE ActorsDisjoint DEF DrainTypeOK, SidesInv, StrayInv, StraysPassRoomyDrains, NotLanded, Landed,
      Actors, Places, Handling, Draining, Cutover, Moves, sides, pool, contents, eras
  <2>1. ASSUME NEW r \in Writers, EnterGate(r)  PROVE StrayInv'
    <3>1. at[r] = "new" /\ at' = [at EXCEPT ![r] = "inside"] /\ entryEra' = [entryEra EXCEPT ![r] = era]
      BY <2>1 DEF EnterGate
    <3>2. UNCHANGED <<landEra, pending, era, roomy, wanted>>
      BY <2>1 DEF EnterGate
    <3>3. r \notin pending /\ ~Landed(r)
      BY <3>1
    <3> QED
      BY <3>1, <3>2, <3>3
  <2>2. ASSUME NEW r \in Writers, SendStatement(r)  PROVE StrayInv'
    <3>1. r \in readers /\ \A s \in Restores : at[s] # "pgrestore"
      BY <2>2 DEF SendStatement
    <3>2. at[r] = "inside" /\ at' = [at EXCEPT ![r] = "sent"] /\ pending' = pending \cup {r}
      BY <2>2 DEF SendStatement
    <3>3. UNCHANGED <<landEra, entryEra, era, roomy, wanted>>
      BY <2>2 DEF SendStatement
    <3>4. entryEra[r] .. (era - 1) \subseteq roomy
      BY <3>2
    <3> QED
      BY <3>1, <3>2, <3>3, <3>4
  <2>3. ASSUME NEW r \in Writers, ExecuteStatement(r)  PROVE StrayInv'
    <3>1. r \in pending /\ pending' = pending \ {r}
      BY <2>3 DEF ExecuteStatement
    <3>2. UNCHANGED <<at, entryEra, era, roomy, wanted>>
      BY <2>3 DEF ExecuteStatement
    <3>3. landEra' = [landEra EXCEPT ![r] = era] \/ landEra' = landEra
      BY <2>3 DEF ExecuteStatement
    <3>4. at[r] \in {"sent", "gone"} /\ entryEra[r] .. (era - 1) \subseteq roomy
      BY <3>1
    <3>5. entryEra[r] # era => at[r] = "gone"
      BY <3>4
    <3> QED
      BY <3>1, <3>2, <3>3, <3>4, <3>5
  <2>4. ASSUME NEW r \in Writers, Answer(r)  PROVE StrayInv'
    BY <2>4 DEF Answer, LeaveGate
  <2>5. ASSUME NEW r \in Writers, Disconnect(r)  PROVE StrayInv'
    BY <2>5 DEF Disconnect, LeaveGate
  <2>6. ASSUME NEW s \in Restores, TakeGate(s)  PROVE StrayInv'
    BY <2>6 DEF TakeGate
  <2>7. ASSUME NEW s \in Restores, DumpFirst(s)  PROVE StrayInv'
    BY <2>7 DEF DumpFirst
  <2>8. ASSUME NEW s \in Restores, CountConnections(s)  PROVE StrayInv'
    <3>1. UNCHANGED <<pending, landEra, entryEra, era, roomy>>
      BY <2>8 DEF CountConnections
    <3>2. \A r \in Writers : at'[r] = at[r]
      BY <2>8 DEF CountConnections
    <3>3. \A t \in Restores : at'[t] # "pgrestore"
      BY <2>8 DEF CountConnections
    <3> QED
      BY <3>1, <3>2, <3>3
  <2>9. ASSUME NEW s \in Restores, TakeConnection(s)  PROVE StrayInv'
    BY <2>9 DEF TakeConnection, Acquire
  <2>10. ASSUME NEW s \in Restores, CloseConnections(s)  PROVE StrayInv'
    <3>1. taken = wanted /\ UNCHANGED <<pending, wanted, landEra, entryEra, era, roomy>>
      BY <2>10 DEF CloseConnections
    <3>2. \A r \in Writers : at'[r] = at[r]
      BY <2>10 DEF CloseConnections
    <3>3. MaxConnections <= wanted => pending = {}
      <4>1. IsFiniteSet(pending) /\ Busy \in Nat
        BY RequestsAreFinite, FS_Subset, FS_CardinalityType DEF Busy
      <4>2. MaxConnections <= wanted => Busy = 0
        BY <3>1, <4>1, PoolIsPositive DEF PermitInv
      <4> QED
        BY <4>1, <4>2, FS_EmptySet DEF Busy
    <3> QED
      BY <3>1, <3>2, <3>3
  <2>11. ASSUME NEW s \in Restores, PgRestoreRuns(s)  PROVE StrayInv'
    <3>1. /\ at[s] = "pgrestore" /\ readers = {} /\ writer = {s}
          /\ UNCHANGED <<pending, wanted, landEra, entryEra>>
      BY <2>11 DEF PgRestoreRuns
    <3>2. \A r \in Writers : at'[r] = at[r] /\ at[r] \notin Handling
      BY <2>11, <3>1 DEF PgRestoreRuns
    <3>3. \A t \in Restores : at'[t] # "pgrestore"
      BY <2>11, <3>1 DEF PgRestoreRuns
    <3>4. ASSUME NEW r \in pending  PROVE at'[r] \in {"sent", "gone"} /\ entryEra[r] .. (era' - 1) \subseteq roomy'
      <4>1. CASE era' = era /\ roomy' = roomy
        BY <3>2, <4>1
      <4>2. CASE era' = era + 1 /\ roomy' = IF wanted < MaxConnections THEN roomy \cup {era} ELSE roomy
        <5>1. wanted < MaxConnections
          BY <3>1, PoolIsPositive
        <5> QED
          BY <3>2, <4>2, <5>1
      <4> QED
        BY <2>11, <4>1, <4>2 DEF PgRestoreRuns
    <3>5. roomy \subseteq roomy'
      BY <2>11 DEF PgRestoreRuns
    <3> QED
      BY <3>1, <3>2, <3>3, <3>4, <3>5
  <2>12. ASSUME NEW s \in Restores, AbandonRestore(s)  PROVE StrayInv'
    BY <2>12 DEF AbandonRestore, LeaveGate
  <2>13. ASSUME Expire  PROVE StrayInv'
    BY <2>13 DEF Expire
  <2>14. CASE UNCHANGED drainVars
    BY <2>14 DEF drainVars
  <2>15. QED
    BY <2>1, <2>2, <2>3, <2>4, <2>5, <2>6, <2>7, <2>8,
       <2>9, <2>10, <2>11, <2>12, <2>13, <2>14
    DEF DrainNext, RequestStep, ReplacerStep, AllQuiet
<1>3. QED
  BY <1>1, <1>2, DrainTypeCorrect, DrainGateHeld, PermitsHeld, PTL DEF DrainSpec

(* A write lands in a database its handler did not see only for a client that is
   gone and past drains that had nothing to wait for: a drain of a full pool
   waits for every statement (backups.rs drain_connections). *)
THEOREM StraysOnlyPastRoomyDrains == DrainSpec => []StraysPassRoomyDrains
<1>1. StrayInv => StraysPassRoomyDrains
  BY DEF StrayInv
<1>2. QED
  BY <1>1, StraysAccounted, PTL

(* What commits after the recovery dump was sent by a handler that is gone. *)
THEOREM LateCommitsAreAbandoned == DrainSpec => []RecoveryInv
<1>1. DrainInit => RecoveryInv
  BY ActorsDisjoint DEF DrainInit, RecoveryInv, RecoveryLacksOnlyAbandoned, Actors, Places, Handling, Draining, Cutover
<1>2. DrainTypeOK /\ SidesInv /\ RecoveryInv /\ [DrainNext]_drainVars => RecoveryInv'
  <2> SUFFICES ASSUME DrainTypeOK, SidesInv, RecoveryInv, [DrainNext]_drainVars
               PROVE  RecoveryInv'
    OBVIOUS
  <2> USE ActorsDisjoint DEF DrainTypeOK, SidesInv, RecoveryInv, RecoveryLacksOnlyAbandoned,
      NotLanded, Actors, Places, Handling, Draining, Cutover, Moves, sides, pool, contents, eras
  <2>1. ASSUME NEW r \in Writers, EnterGate(r)  PROVE RecoveryInv'
    BY <2>1 DEF EnterGate
  <2>2. ASSUME NEW r \in Writers, SendStatement(r)  PROVE RecoveryInv'
    BY <2>2 DEF SendStatement, Acquire
  <2>3. ASSUME NEW r \in Writers, ExecuteStatement(r)  PROVE RecoveryInv'
    <3>1. at' = at /\ kept' = kept /\ pending' \subseteq pending /\ live' \subseteq live \cup {r}
      BY <2>3 DEF ExecuteStatement
    <3>2. at[r] \in {"sent", "gone"}
      BY <2>3 DEF ExecuteStatement
    <3>3. ASSUME NEW s \in Restores, at[s] \in {"count", "drain", "pgrestore"}  PROVE at[r] = "gone"
      BY <3>2, <3>3
    <3> QED
      BY <3>1, <3>3
  <2>4. ASSUME NEW r \in Writers, Answer(r)  PROVE RecoveryInv'
    BY <2>4 DEF Answer, LeaveGate
  <2>5. ASSUME NEW r \in Writers, Disconnect(r)  PROVE RecoveryInv'
    BY <2>5 DEF Disconnect, LeaveGate
  <2>6. ASSUME NEW s \in Restores, TakeGate(s)  PROVE RecoveryInv'
    BY <2>6 DEF TakeGate
  <2>7. ASSUME NEW s \in Restores, DumpFirst(s)  PROVE RecoveryInv'
    BY <2>7 DEF DumpFirst
  <2>8. ASSUME NEW s \in Restores, CountConnections(s)  PROVE RecoveryInv'
    BY <2>8 DEF CountConnections
  <2>9. ASSUME NEW s \in Restores, TakeConnection(s)  PROVE RecoveryInv'
    BY <2>9 DEF TakeConnection, Acquire
  <2>10. ASSUME NEW s \in Restores, CloseConnections(s)  PROVE RecoveryInv'
    BY <2>10 DEF CloseConnections, LeaveGate
  <2>11. ASSUME NEW s \in Restores, PgRestoreRuns(s)  PROVE RecoveryInv'
    <3>1. \A t \in Restores \ {s} : at[t] \notin Cutover
      BY <2>11 DEF PgRestoreRuns
    <3>2. \A t \in Restores : at'[t] \notin {"count", "drain", "pgrestore"}
      BY <2>11, <3>1 DEF PgRestoreRuns
    <3> QED
      BY <2>11, <3>2 DEF PgRestoreRuns
  <2>12. ASSUME NEW s \in Restores, AbandonRestore(s)  PROVE RecoveryInv'
    BY <2>12 DEF AbandonRestore, LeaveGate
  <2>13. ASSUME Expire  PROVE RecoveryInv'
    BY <2>13 DEF Expire
  <2>14. CASE UNCHANGED drainVars
    BY <2>14 DEF drainVars
  <2>15. QED
    BY <2>1, <2>2, <2>3, <2>4, <2>5, <2>6, <2>7, <2>8,
       <2>9, <2>10, <2>11, <2>12, <2>13, <2>14
    DEF DrainNext, RequestStep, ReplacerStep, AllQuiet
<1>3. QED
  BY <1>1, <1>2, DrainTypeCorrect, DrainGateHeld, PTL DEF DrainSpec

(* The recovery archive lacks at most abandoned writes (backups.rs restore). *)
THEOREM RecoveryAlmostExact == DrainSpec => []RecoveryLacksOnlyAbandoned
<1>1. RecoveryInv => RecoveryLacksOnlyAbandoned
  BY DEF RecoveryInv
<1>2. QED
  BY <1>1, LateCommitsAreAbandoned, PTL

================================================================================
