---------------------------- MODULE ConnectionDrain ----------------------------
(***************************************************************************)
(* What a dropped handler leaves behind in PostgreSQL, and what the drain  *)
(* of the pool does about it.  A client that goes away makes the server    *)
(* drop the handler's future and with it the guard of the gate, but a      *)
(* statement already sent is still executed; its connection returns to the *)
(* pool when PostgreSQL has answered.                                      *)
(*                                                                         *)
(* A restore takes as many connections as the pool has and closes them     *)
(* (backups.rs, drain_connections), before and after pg_restore.  Taking   *)
(* one needs one of the pool's permits, which a busy connection holds; an  *)
(* idle connection is taken first, and while the pool is below             *)
(* max_connections (db/mod.rs) a new one is opened instead of waiting for  *)
(* a busy one.                                                             *)
(*                                                                         *)
(* Sessions, the order of the gate's queue and process deaths are in       *)
(* RestoreGate.                                                            *)
(***************************************************************************)
EXTENDS Integers, FiniteSets

CONSTANTS
    Writers,        \* ordinary requests that write, each sent at most once
    Restores,       \* restores, each sent at most once
    MaxConnections  \* max_connections of the pool

ASSUME ActorsDisjoint == Writers \cap Restores = {}
ASSUME RequestsAreFinite == IsFiniteSet(Writers)
ASSUME PoolIsPositive == MaxConnections \in Nat \ {0}

VARIABLES
    at,         \* where each request and each restore is
    readers,    \* holders of the shared side of the gate
    writer,     \* holder of the exclusive side, {} or a singleton
    pending,    \* requests with a statement PostgreSQL has not finished
    idle,       \* idle connections of the pool
    taken,      \* connections the running drain holds
    wanted,     \* connections the last drain set out to take
    live,       \* the writes in the live database
    dumps,      \* completed dumps, as the writes they contain
    kept,       \* what the recovery archive of a restore contains
    acked,      \* history: writes answered with success
    era,        \* history: how often the live database was replaced
    entryEra,   \* history: era at which a handler entered the gate
    landEra,    \* history: era in which its write landed, or NotLanded
    roomy       \* history: eras that ended after a drain the pool was not full for

sides == <<readers, writer>>
pool == <<idle, taken, wanted>>
contents == <<live, dumps, kept, era>>
eras == <<entryEra, landEra, roomy>>
drainVars == <<at, sides, pending, pool, contents, acked, eras>>

Actors == Writers \cup Restores

NotLanded == -1
Landed(r) == landEra[r] # NotLanded

Handling == {"inside", "sent"}
Draining == {"drain", "drainAgain"}
Cutover == {"dump", "pgrestore", "count", "countAgain"} \cup Draining
Places == {"new", "gone", "done"} \cup Handling \cup Cutover

(* A busy connection holds its permit until its statement is over, also when
   nobody waits for the answer. *)
Busy == Cardinality(pending)
PoolSize == idle + Busy + taken

(* The pool starts with one connection. *)
DrainInit ==
    /\ at = [a \in Actors |-> "new"]
    /\ readers = {}
    /\ writer = {}
    /\ pending = {}
    /\ idle = 1
    /\ taken = 0
    /\ wanted = 0
    /\ live = {}
    /\ dumps = {{}}
    /\ kept = [s \in Restores |-> {}]
    /\ acked = {}
    /\ era = 0
    /\ entryEra = [r \in Writers |-> 0]
    /\ landEra = [r \in Writers |-> NotLanded]
    /\ roomy = {}

Moves(a, from, to) ==
    /\ at[a] = from
    /\ at' = [at EXCEPT ![a] = to]

LeaveGate(a) ==
    /\ readers' = readers \ {a}
    /\ writer' = writer \ {a}

(* acquire: a permit, then an idle connection or a new one. *)
Acquire ==
    /\ Busy + taken < MaxConnections
    /\ idle' = IF idle > 0 THEN idle - 1 ELSE 0

--------------------------------------------------------------------------------
(* Ordinary requests. *)

EnterGate(r) ==
    /\ Moves(r, "new", "inside")
    /\ writer = {}
    /\ readers' = readers \cup {r}
    /\ entryEra' = [entryEra EXCEPT ![r] = era]
    /\ UNCHANGED <<writer, pending, pool, contents, acked, landEra, roomy>>

SendStatement(r) ==
    /\ Moves(r, "inside", "sent")
    /\ Acquire
    /\ pending' = pending \cup {r}
    /\ UNCHANGED <<sides, taken, wanted, contents, acked, eras>>

(* PostgreSQL commits the statement, or refuses it. *)
ExecuteStatement(r) ==
    /\ r \in pending
    /\ pending' = pending \ {r}
    /\ idle' = idle + 1
    /\ \/ /\ live' = live \cup {r}
          /\ landEra' = [landEra EXCEPT ![r] = era]
       \/ UNCHANGED <<live, landEra>>
    /\ UNCHANGED <<at, sides, taken, wanted, dumps, kept, acked, era, entryEra, roomy>>

Answer(r) ==
    /\ Moves(r, "sent", "done")
    /\ r \notin pending
    /\ acked' = IF Landed(r) THEN acked \cup {r} ELSE acked
    /\ LeaveGate(r)
    /\ UNCHANGED <<pending, pool, contents, eras>>

(* The future is dropped at an await; what was sent stays sent. *)
Disconnect(r) ==
    /\ at[r] \in Handling
    /\ at' = [at EXCEPT ![r] = "gone"]
    /\ LeaveGate(r)
    /\ UNCHANGED <<pending, pool, contents, acked, eras>>

--------------------------------------------------------------------------------
(* A restore, from the exclusive side on. *)

(* Variant: the handlers inside are not waited for. *)
TakeGateAtOnce(s) ==
    /\ Moves(s, "new", "dump")
    /\ writer = {}
    /\ writer' = {s}
    /\ UNCHANGED <<readers, pending, pool, contents, acked, eras>>

TakeGate(s) ==
    /\ Moves(s, "new", "dump")
    /\ writer = {}
    /\ readers = {}
    /\ writer' = {s}
    /\ UNCHANGED <<readers, pending, pool, contents, acked, eras>>

DumpFirst(s) ==
    /\ Moves(s, "dump", "count")
    /\ dumps' = dumps \cup {live}
    /\ kept' = [kept EXCEPT ![s] = live]
    /\ UNCHANGED <<sides, pending, pool, live, era, acked, eras>>

(* pool.size() is read once. *)
CountConnections(s) ==
    /\ Moves(s, "count", "drain") \/ Moves(s, "countAgain", "drainAgain")
    /\ wanted' = PoolSize
    /\ UNCHANGED <<sides, pending, idle, taken, contents, acked, eras>>

TakeConnection(s) ==
    /\ at[s] \in Draining
    /\ taken < wanted
    /\ Acquire
    /\ taken' = taken + 1
    /\ UNCHANGED <<at, sides, pending, wanted, contents, acked, eras>>

(* Variant: an acquire that times out ends the drain as if all were taken. *)
CloseConnectionsSoFar(s) ==
    /\ Moves(s, "drain", "pgrestore") \/ Moves(s, "drainAgain", "done")
    /\ taken' = 0
    /\ IF at'[s] = "done" THEN LeaveGate(s) ELSE UNCHANGED sides
    /\ UNCHANGED <<pending, idle, wanted, contents, acked, eras>>

(* All that were counted are taken, then closed. *)
CloseConnections(s) ==
    /\ taken = wanted
    /\ Moves(s, "drain", "pgrestore") \/ Moves(s, "drainAgain", "done")
    /\ taken' = 0
    /\ IF at'[s] = "done" THEN LeaveGate(s) ELSE UNCHANGED sides
    /\ UNCHANGED <<pending, idle, wanted, contents, acked, eras>>

PgRestoreRuns(s) ==
    /\ Moves(s, "pgrestore", "countAgain")
    /\ \/ /\ live' \in dumps
          /\ era' = era + 1
          /\ roomy' = IF wanted < MaxConnections THEN roomy \cup {era} ELSE roomy
       \/ UNCHANGED <<live, era, roomy>>
    /\ UNCHANGED <<sides, pending, pool, dumps, kept, acked, entryEra, landEra>>

(* An error, as the timeout of an acquire, or a client that goes away: what the
   drain had taken returns to the pool. *)
AbandonRestore(s) ==
    /\ at[s] \in Cutover
    /\ at' = [at EXCEPT ![s] = "done"]
    /\ idle' = idle + taken
    /\ taken' = 0
    /\ LeaveGate(s)
    /\ UNCHANGED <<pending, wanted, contents, acked, eras>>

(* An idle connection reaches its idle timeout or its maximal lifetime. *)
Expire ==
    /\ idle > 0
    /\ idle' = idle - 1
    /\ UNCHANGED <<at, sides, pending, taken, wanted, contents, acked, eras>>

(* Everybody has been answered and PostgreSQL is idle. *)
AllQuiet ==
    /\ \A a \in Actors : at[a] \in {"done", "gone"}
    /\ pending = {}
    /\ UNCHANGED drainVars

--------------------------------------------------------------------------------

RequestStep(r) ==
    \/ EnterGate(r)
    \/ SendStatement(r)
    \/ ExecuteStatement(r)
    \/ Answer(r)
    \/ Disconnect(r)

ReplacerStep(s) ==
    \/ TakeGate(s)
    \/ DumpFirst(s)
    \/ CountConnections(s)
    \/ TakeConnection(s)
    \/ CloseConnections(s)
    \/ PgRestoreRuns(s)
    \/ AbandonRestore(s)

DrainNext ==
    \/ \E r \in Writers : RequestStep(r)
    \/ \E s \in Restores : ReplacerStep(s)
    \/ Expire
    \/ AllQuiet

DrainSpec == DrainInit /\ [][DrainNext]_drainVars

--------------------------------------------------------------------------------
(* Properties. *)

DrainTypeOK ==
    /\ at \in [Actors -> Places]
    /\ readers \in SUBSET Writers
    /\ writer \in SUBSET Restores
    /\ pending \in SUBSET Writers
    /\ idle \in Nat /\ taken \in Nat /\ wanted \in Nat
    /\ live \in SUBSET Writers
    /\ dumps \in SUBSET SUBSET Writers
    /\ kept \in [Restores -> SUBSET Writers]
    /\ acked \in SUBSET Writers
    /\ era \in Nat
    /\ entryEra \in [Writers -> Nat]
    /\ landEra \in [Writers -> Nat \cup {NotLanded}]
    /\ roomy \in SUBSET Nat

(* A write lands in a database that was restored after its handler had entered
   the gate only if nobody was answered for it, and only past drains that found
   the pool below its limit: a drain of a full pool waits for every statement. *)
StraysPassRoomyDrains ==
    \A r \in Writers :
        Landed(r) /\ landEra[r] # entryEra[r] =>
            at[r] = "gone" /\ entryEra[r] .. (landEra[r] - 1) \subseteq roomy

(* When a restore is about to replace the database, the recovery archive lacks
   at most writes whose clients had gone away without an answer. *)
RecoveryLacksOnlyAbandoned ==
    \A s \in Restores : at[s] \in {"count", "drain", "pgrestore"} =>
        \A r \in live \ kept[s] : at[r] = "gone"

(* RUNBOOK.md: "The recovery archive retains the state immediately before
   restore."  The dump is made before the connections are drained, so that a
   statement left in flight by a dropped handler may commit in between. *)
RecoveryArchiveIsExact ==
    \A s \in Restores : at[s] = "pgrestore" => live = kept[s]

================================================================================
