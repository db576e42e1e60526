------------------------------ MODULE RestoreGate ------------------------------
(***************************************************************************)
(* The database gate of the Axum backend and the API restore that takes it *)
(* exclusively.  Ordinary handlers run under the shared side of a fair     *)
(* reader/writer lock (main.rs, database_access); a restore authorizes     *)
(* itself under the shared side, uploads and stages its archive outside    *)
(* the gate, and then replaces the live database under the exclusive side  *)
(* (backups.rs, restore).  Sessions are bound to a generation that is      *)
(* stored in the very database a restore replaces (deps.rs), so a restore  *)
(* rotates it before and after, with a marker file in between that blocks  *)
(* authentication across restarts.                                         *)
(*                                                                         *)
(* A handler future may be dropped at every await (the client went away)   *)
(* or leave early through an error: Abort.  What it had already sent to    *)
(* PostgreSQL is still executed, at a time the gate knows nothing of:      *)
(* Land.  The process may die at any moment: Crash.                        *)
(***************************************************************************)
EXTENDS Naturals, Sequences

CONSTANTS
    Requests,    \* ordinary requests, each sent at most once
    Restores,    \* restore requests, each sent at most once
    Users,       \* accounts that exist in every database considered
    NoToken,     \* what a request without a session cookie presents
    MaxCrashes   \* bound on the number of process deaths

ASSUME ActorsDisjoint == Requests \cap Restores = {}
ASSUME SomeUser == Users # {}
ASSUME MaxCrashesIsNat == MaxCrashes \in Nat
ASSUME NoTokenIsNoToken == NoToken \notin [user : Users, gen : Nat, era : Nat]

VARIABLES
    up,           \* the process is running
    blocked,      \* RESTORE_AUTH_BLOCKED
    initialized,  \* RESTORE_AUTH_INITIALIZED has run in this process
    marker,       \* the file .restore-auth-blocked exists
    live,         \* the live database
    archives,     \* completed dumps, as the databases they contain
    latestGen,    \* the last session generation made (a fresh UUID each time)
    issued,       \* every token ever handed out
    queue,        \* the waiters of the gate, in arrival order
    readers,      \* holders of the shared side
    writer,       \* holder of the exclusive side, {} or a singleton
    pc,           \* where each request is
    op,           \* what an ordinary request asks for
    token,        \* the token a request presents
    target,       \* the account a login or demotion is about
    upload,       \* the database in the archive a restore uploads
    crashes,      \* number of process deaths so far
    pending,      \* dropped requests whose last statement is still under way
    late,         \* history: those of them that landed under the last
                  \* exclusive guard
    era,          \* history: how often the live database was replaced
    acked,        \* history: writes answered with success
    entryEra      \* history: era at which a handler entered the gate

authVars == <<blocked, initialized>>
gateVars == <<queue, readers, writer>>
inputVars == <<op, token, target, upload>>
dbVars == <<live, archives, latestGen, issued, era>>
lateVars == <<pending, late>>
histVars == <<acked, entryEra>>
vars == <<up, blocked, initialized, marker, live, archives, latestGen, issued,
          queue, readers, writer, pc, op, token, target, upload, crashes,
          pending, late, era, acked, entryEra>>

--------------------------------------------------------------------------------

Actors == Requests \cup Restores

Ops == {"write", "demote", "backup", "login", "refresh"}
AdminOps == {"demote", "backup"}

Token == [user : Users, gen : Nat, era : Nat]

(* The rows of a database the gate's promises tell apart: the generation
   (0: no row), whether session_epoch is set, the active administrators, and
   the writes committed by ordinary requests. *)
Database == [gen : Nat, epoch : BOOLEAN, admins : SUBSET Users, data : SUBSET Requests]

(* A database that predates generations. *)
LegacyDatabase == [gen |-> 0, epoch |-> FALSE, admins |-> Users, data |-> {}]

(* Its sessions carry no generation; no later one is issued without. *)
LegacyTokens == [user : Users, gen : {0}, era : {0}]

Waiting == {"queued", "checkWait", "cutoverWait"}
RequestShared == {"inside", "authed", "committed"}
Exclusive == {"recheck", "dump", "rotate", "mark", "block", "pgrestore",
              "rotateAgain", "unmark", "unblock"}
Stages == {"new", "done", "check", "upload"} \cup Waiting \cup RequestShared \cup Exclusive

Init ==
    /\ up = TRUE
    /\ blocked = FALSE
    /\ initialized = FALSE
    /\ marker = FALSE
    /\ live = LegacyDatabase
    /\ archives = {LegacyDatabase}
    /\ latestGen = 0
    /\ issued = LegacyTokens
    /\ queue = <<>>
    /\ readers = {}
    /\ writer = {}
    /\ pc = [a \in Actors |-> "new"]
    /\ op = [r \in Requests |-> "write"]
    /\ token = [a \in Actors |-> NoToken]
    /\ target \in [Requests -> Users]
    /\ upload = [s \in Restores |-> LegacyDatabase]
    /\ crashes = 0
    /\ pending = {}
    /\ late = {}
    /\ era = 0
    /\ acked = {}
    /\ entryEra = [r \in Requests |-> 0]

--------------------------------------------------------------------------------
(* Sessions. *)

(* What auth_available answers: the marker is looked at once per process. *)
AuthBlocked == blocked \/ (~initialized /\ marker)

(* The Once of auth_available, run by every authentication. *)
CallOnce ==
    /\ initialized' = TRUE
    /\ blocked' = AuthBlocked

(* A token carries the current generation; one without a generation is good
   until a rotation has set the epoch cutoff, as all such tokens are older. *)
SessionMatches(t) ==
    IF t.gen = 0 THEN ~live.epoch ELSE t.gen = live.gen

SessionValid(t) == ~AuthBlocked /\ SessionMatches(t)

Authenticated(a) == token[a] # NoToken /\ SessionValid(token[a])

IsAdmin(a) == Authenticated(a) /\ token[a].user \in live.admins

(* New session cookies: session_generation makes the row if there is none. *)
MintToken(u) ==
    LET gen == IF live.gen = 0 THEN latestGen + 1 ELSE live.gen
    IN  /\ live' = [live EXCEPT !.gen = gen]
        /\ latestGen' = IF live.gen = 0 THEN gen ELSE latestGen
        /\ issued' = issued \cup {[user |-> u, gen |-> gen, era |-> era]}

InvalidateSessions ==
    /\ latestGen' = latestGen + 1
    /\ live' = [live EXCEPT !.gen = latestGen + 1, !.epoch = TRUE]

--------------------------------------------------------------------------------
(* The gate: tokio's RwLock, whose waiters are served first come first served. *)

Without(q, a) ==
    LET k == CHOOSE i \in 1 .. Len(q) : q[i] = a
    IN  IF \E i \in 1 .. Len(q) : q[i] = a
        THEN SubSeq(q, 1, k - 1) \o SubSeq(q, k + 1, Len(q))
        ELSE q

Enqueue(a) ==
    /\ queue' = Append(queue, a)
    /\ UNCHANGED <<readers, writer>>

(* Variant: a writer that does not wait for the readers inside. *)
AcquireExclusiveAtOnce(a) ==
    /\ queue # <<>>
    /\ Head(queue) = a
    /\ writer = {}
    /\ queue' = Tail(queue)
    /\ writer' = {a}
    /\ UNCHANGED readers

AcquireExclusive(a) ==
    /\ queue # <<>>
    /\ Head(queue) = a
    /\ writer = {}
    /\ readers = {}
    /\ queue' = Tail(queue)
    /\ writer' = {a}
    /\ UNCHANGED readers

AcquireShared(a) ==
    /\ queue # <<>>
    /\ Head(queue) = a
    /\ writer = {}
    /\ queue' = Tail(queue)
    /\ readers' = readers \cup {a}
    /\ UNCHANGED writer

(* Variant: a shared guard that outlives its handler. *)
LeaveLeaking(a) ==
    /\ queue' = Without(queue, a)
    /\ readers' = readers
    /\ writer' = writer \ {a}

(* Dropping the guard, or the pending acquisition. *)
Leave(a) ==
    /\ queue' = Without(queue, a)
    /\ readers' = readers \ {a}
    /\ writer' = writer \ {a}

Goto(a, from, to) ==
    /\ pc[a] = from
    /\ pc' = [pc EXCEPT ![a] = to]

--------------------------------------------------------------------------------
(* Ordinary requests. *)

(* The body is read before the gate is asked for. *)
Send(r) ==
    /\ up
    /\ Goto(r, "new", "queued")
    /\ \E o \in Ops, t \in issued \cup {NoToken}, u \in Users :
        /\ o = "login" <=> t = NoToken
        /\ o \notin {"login", "demote"} => u = t.user
        /\ op' = [op EXCEPT ![r] = o]
        /\ token' = [token EXCEPT ![r] = t]
        /\ target' = [target EXCEPT ![r] = u]
    /\ Enqueue(r)
    /\ UNCHANGED <<up, authVars, marker, dbVars, upload, crashes, lateVars, histVars>>

Enter(r) ==
    /\ Goto(r, "queued", "inside")
    /\ AcquireShared(r)
    /\ entryEra' = [entryEra EXCEPT ![r] = era]
    /\ UNCHANGED <<up, authVars, marker, dbVars, inputVars, crashes, lateVars, acked>>

(* The extractors AuthUser and Admin; a login checks a password instead. *)
Authenticate(r) ==
    /\ Goto(r, "inside", "authed")
    /\ IF op[r] = "login" THEN ~AuthBlocked ELSE Authenticated(r)
    /\ op[r] \in AdminOps => IsAdmin(r)
    /\ CallOnce
    /\ UNCHANGED <<up, marker, dbVars, gateVars, inputVars, crashes, lateVars, histVars>>

(* 401 or 403 before anything is done. *)
Refuse(r) ==
    /\ Goto(r, "inside", "done")
    /\ ~(IF op[r] = "login" THEN ~AuthBlocked ELSE Authenticated(r))
         \/ (op[r] \in AdminOps /\ ~IsAdmin(r))
    /\ CallOnce
    /\ Leave(r)
    /\ UNCHANGED <<up, marker, dbVars, inputVars, crashes, lateVars, histVars>>

(* The handler's transaction, by operation. *)
CommitWrite(r) ==
    /\ op[r] = "write"
    /\ live' = [live EXCEPT !.data = @ \cup {r}]
    /\ UNCHANGED <<archives, latestGen, issued>>

CommitDemotion(r) ==
    /\ op[r] = "demote"
    /\ live.admins \ {target[r]} # {}
    /\ live' = [live EXCEPT !.admins = @ \ {target[r]}]
    /\ UNCHANGED <<archives, latestGen, issued>>

CompleteBackup(r) ==
    /\ op[r] = "backup"
    /\ archives' = archives \cup {live}
    /\ UNCHANGED <<live, latestGen, issued>>

IssueCookies(r) ==
    /\ op[r] \in {"login", "refresh"}
    /\ MintToken(target[r])
    /\ UNCHANGED archives

(* session_generation's row alone: nobody receives a token of it. *)
MakeGeneration(r) ==
    /\ op[r] \in {"login", "refresh"}
    /\ live.gen = 0
    /\ latestGen' = latestGen + 1
    /\ live' = [live EXCEPT !.gen = latestGen + 1]
    /\ UNCHANGED <<archives, issued>>

Commit(r) ==
    /\ Goto(r, "authed", "committed")
    /\ \/ CommitWrite(r)
       \/ CommitDemotion(r)
       \/ CompleteBackup(r)
       \/ IssueCookies(r)
    /\ UNCHANGED <<up, authVars, marker, gateVars, inputVars, crashes, lateVars, era, histVars>>

(* 409: the last active administrator stays. *)
Conflict(r) ==
    /\ op[r] = "demote"
    /\ live.admins \ {target[r]} = {}
    /\ Goto(r, "authed", "done")
    /\ Leave(r)
    /\ UNCHANGED <<up, authVars, marker, dbVars, inputVars, crashes, lateVars, histVars>>

Respond(r) ==
    /\ Goto(r, "committed", "done")
    /\ acked' = IF op[r] = "write" THEN acked \cup {r} ELSE acked
    /\ Leave(r)
    /\ UNCHANGED <<up, authVars, marker, dbVars, inputVars, crashes, lateVars, entryEra>>

--------------------------------------------------------------------------------
(* A restore. *)

Submit(s) ==
    /\ up
    /\ Goto(s, "new", "checkWait")
    /\ \E t \in issued, a \in archives :
        /\ token' = [token EXCEPT ![s] = t]
        /\ upload' = [upload EXCEPT ![s] = a]
    /\ Enqueue(s)
    /\ UNCHANGED <<up, authVars, marker, dbVars, op, target, crashes, lateVars, histVars>>

BeginCheck(s) ==
    /\ Goto(s, "checkWait", "check")
    /\ AcquireShared(s)
    /\ UNCHANGED <<up, authVars, marker, dbVars, inputVars, crashes, lateVars, histVars>>

(* Authorized before the upload; the shared guard is dropped with the block. *)
CheckAdmin(s) ==
    /\ Goto(s, "check", "upload")
    /\ IsAdmin(s)
    /\ CallOnce
    /\ Leave(s)
    /\ UNCHANGED <<up, marker, dbVars, inputVars, crashes, lateVars, histVars>>

(* Upload, and validation in a database of its own; then ask for the gate.
   Nothing live is touched, and a bad archive is an Abort. *)
StageArchive(s) ==
    /\ Goto(s, "upload", "cutoverWait")
    /\ Enqueue(s)
    /\ UNCHANGED <<up, authVars, marker, dbVars, inputVars, crashes, lateVars, histVars>>

BeginCutover(s) ==
    /\ Goto(s, "cutoverWait", "recheck")
    /\ AcquireExclusive(s)
    /\ late' = {}
    /\ UNCHANGED <<up, authVars, marker, dbVars, inputVars, crashes, pending, histVars>>

(* Variant: the check made before the upload is trusted. *)
RecheckNothing(s) ==
    /\ Goto(s, "recheck", "dump")
    /\ UNCHANGED <<up, authVars, marker, dbVars, gateVars, inputVars, crashes, lateVars, histVars>>

RecheckAdmin(s) ==
    /\ Goto(s, "recheck", "dump")
    /\ IsAdmin(s)
    /\ CallOnce
    /\ UNCHANGED <<up, marker, dbVars, gateVars, inputVars, crashes, lateVars, histVars>>

RefuseRestore(s) ==
    /\ pc[s] \in {"check", "recheck"}
    /\ ~IsAdmin(s)
    /\ pc' = [pc EXCEPT ![s] = "done"]
    /\ CallOnce
    /\ Leave(s)
    /\ UNCHANGED <<up, marker, dbVars, inputVars, crashes, lateVars, histVars>>

(* Variant: no recovery archive is made. *)
DumpNothing(s) ==
    /\ Goto(s, "dump", "rotate")
    /\ UNCHANGED <<up, authVars, marker, dbVars, gateVars, inputVars, crashes, lateVars, histVars>>

(* dump(pre_restore): the recovery archive. *)
DumpRecovery(s) ==
    /\ Goto(s, "dump", "rotate")
    /\ archives' = archives \cup {live}
    /\ UNCHANGED <<up, authVars, marker, live, latestGen, issued, era, gateVars,
                   inputVars, crashes, lateVars, histVars>>

Rotate(s) ==
    /\ Goto(s, "rotate", "mark")
    /\ InvalidateSessions
    /\ UNCHANGED <<up, authVars, marker, archives, issued, era, gateVars,
                   inputVars, crashes, lateVars, histVars>>

(* Variant: authentication is blocked in memory only. *)
CreateNoMarker(s) ==
    /\ Goto(s, "mark", "block")
    /\ UNCHANGED <<up, authVars, marker, dbVars, gateVars, inputVars, crashes, lateVars, histVars>>

(* create_new: an existing marker is an error. *)
CreateMarker(s) ==
    /\ Goto(s, "mark", "block")
    /\ ~marker
    /\ marker' = TRUE
    /\ UNCHANGED <<up, authVars, dbVars, gateVars, inputVars, crashes, lateVars, histVars>>

MarkerExists(s) ==
    /\ Goto(s, "mark", "done")
    /\ marker
    /\ Leave(s)
    /\ UNCHANGED <<up, authVars, marker, dbVars, inputVars, crashes, lateVars, histVars>>

BlockAuth(s) ==
    /\ Goto(s, "block", "pgrestore")
    /\ blocked' = TRUE
    /\ UNCHANGED <<up, initialized, marker, dbVars, gateVars, inputVars, crashes, lateVars, histVars>>

(* pg_restore --single-transaction replaces everything or nothing, and the
   handler goes on in the same way after a failure. *)
PgRestore(s) ==
    /\ Goto(s, "pgrestore", "rotateAgain")
    /\ \/ /\ live' = upload[s]
          /\ era' = era + 1
       \/ UNCHANGED <<live, era>>
    /\ UNCHANGED <<up, authVars, marker, archives, latestGen, issued, gateVars,
                   inputVars, crashes, lateVars, histVars>>

(* Variant: the rotation before the restore is thought to be enough. *)
RotateOnce(s) ==
    /\ Goto(s, "rotateAgain", "unmark")
    /\ UNCHANGED <<up, authVars, marker, dbVars, gateVars, inputVars, crashes, lateVars, histVars>>

RotateAgain(s) ==
    /\ Goto(s, "rotateAgain", "unmark")
    /\ InvalidateSessions
    /\ UNCHANGED <<up, authVars, marker, archives, issued, era, gateVars,
                   inputVars, crashes, lateVars, histVars>>

RemoveMarker(s) ==
    /\ Goto(s, "unmark", "unblock")
    /\ marker' = FALSE
    /\ UNCHANGED <<up, authVars, dbVars, gateVars, inputVars, crashes, lateVars, histVars>>

UnblockAuth(s) ==
    /\ Goto(s, "unblock", "done")
    /\ blocked' = FALSE
    /\ Leave(s)
    /\ UNCHANGED <<up, initialized, marker, dbVars, inputVars, crashes, lateVars, histVars>>

--------------------------------------------------------------------------------
(* Interruptions. *)

(* A handler with a statement under way that would be its last; pg_dump dies
   with its handler. *)
Lingers(a) == a \in Requests /\ pc[a] = "authed" /\ op[a] # "backup"

(* An error leaves through `?`, or the client disconnects and the future is
   dropped: the guard goes, whatever was already done stays, and a statement
   already sent is still executed. *)
Abort(a) ==
    /\ pc[a] \notin {"new", "done"}
    /\ pc' = [pc EXCEPT ![a] = "done"]
    /\ pending' = IF Lingers(a) THEN pending \cup {a} ELSE pending
    /\ Leave(a)
    /\ UNCHANGED <<up, authVars, marker, dbVars, inputVars, crashes, late, histVars>>

(* PostgreSQL executes what a dropped handler had sent: the last statement of
   its transaction, or the row session_generation makes.  This may be at any
   time, also under a later restore's exclusive guard, whose drains of the pool
   need not wait for it (ConnectionDrain), or never.  A demotion has locked the
   table of users, so pg_restore waits for it. *)
Land(r) ==
    /\ r \in pending
    /\ pending' = pending \ {r}
    /\ late' = IF writer = {} THEN late ELSE late \cup {r}
    /\ \/ CommitWrite(r)
       \/ entryEra[r] = era /\ CommitDemotion(r)
       \/ MakeGeneration(r)
    /\ UNCHANGED <<up, authVars, marker, gateVars, pc, inputVars, crashes, era, histVars>>

Crash ==
    /\ up
    /\ crashes < MaxCrashes
    /\ crashes' = crashes + 1
    /\ up' = FALSE
    /\ blocked' = FALSE
    /\ initialized' = FALSE
    /\ pc' = [a \in Actors |-> IF pc[a] = "new" THEN "new" ELSE "done"]
    /\ queue' = <<>>
    /\ readers' = {}
    /\ writer' = {}
    /\ pending' = pending \cup {r \in Requests : Lingers(r)}
    /\ UNCHANGED <<marker, dbVars, inputVars, late, histVars>>

Restart ==
    /\ ~up
    /\ up' = TRUE
    /\ UNCHANGED <<authVars, marker, dbVars, gateVars, pc, inputVars, crashes, lateVars, histVars>>

(* The documented recovery, with the service stopped: rotate the generation
   and the epoch, then remove the marker. *)
OperatorRepair ==
    /\ ~up
    /\ marker
    /\ InvalidateSessions
    /\ marker' = FALSE
    /\ UNCHANGED <<up, authVars, archives, issued, era, gateVars, pc, inputVars,
                   crashes, lateVars, histVars>>

(* Every client has been answered: the server waits for the next one. *)
Quiescent ==
    /\ up
    /\ \A a \in Actors : pc[a] = "done"
    /\ UNCHANGED vars

--------------------------------------------------------------------------------

RequestStep(r) ==
    \/ Enter(r)
    \/ Authenticate(r)
    \/ Refuse(r)
    \/ Commit(r)
    \/ Conflict(r)
    \/ Respond(r)

CutoverStep(s) ==
    \/ BeginCutover(s)
    \/ RecheckAdmin(s)
    \/ RefuseRestore(s)
    \/ DumpRecovery(s)
    \/ Rotate(s)
    \/ CreateMarker(s)
    \/ MarkerExists(s)
    \/ BlockAuth(s)
    \/ PgRestore(s)
    \/ RotateAgain(s)
    \/ RemoveMarker(s)
    \/ UnblockAuth(s)

RestoreStep(s) ==
    \/ BeginCheck(s)
    \/ CheckAdmin(s)
    \/ CutoverStep(s)

Next ==
    \/ \E r \in Requests : Send(r) \/ RequestStep(r) \/ Land(r)
    \/ \E s \in Restores : Submit(s) \/ StageArchive(s) \/ RestoreStep(s)
    \/ \E a \in Actors : Abort(a)
    \/ Crash
    \/ Restart
    \/ OperatorRepair
    \/ Quiescent

(* A runnable task is polled; PostgreSQL and the dump tools answer or time out.
   Nothing makes clients send, uploads finish or operators act. *)
Fairness ==
    /\ \A r \in Requests : WF_vars(RequestStep(r))
    /\ \A s \in Restores : WF_vars(RestoreStep(s))

Spec == Init /\ [][Next]_vars

FairSpec == Spec /\ Fairness

--------------------------------------------------------------------------------
(* Properties. *)

TypeOK ==
    /\ up \in BOOLEAN
    /\ blocked \in BOOLEAN
    /\ initialized \in BOOLEAN
    /\ marker \in BOOLEAN
    /\ live \in Database
    /\ archives \in SUBSET Database
    /\ latestGen \in Nat
    /\ issued \in SUBSET Token
    /\ queue \in Seq(Actors)
    /\ readers \in SUBSET Actors
    /\ writer \in SUBSET Restores
    /\ pc \in [Actors -> Stages]
    /\ op \in [Requests -> Ops]
    /\ token \in [Actors -> Token \cup {NoToken}]
    /\ target \in [Requests -> Users]
    /\ upload \in [Restores -> Database]
    /\ crashes \in 0 .. MaxCrashes
    /\ pending \in SUBSET Requests
    /\ late \in SUBSET Requests
    /\ era \in Nat
    /\ acked \in SUBSET Requests
    /\ entryEra \in [Requests -> Nat]

(* A handler runs from start to end against one database: a restore waits for
   the handlers inside the gate, and none enters while it replaces the
   database (main.rs database_access, backups.rs restore). *)
HandlersSeeOneDatabase ==
    \A r \in Requests : pc[r] \in RequestShared => entryEra[r] = era

(* No session obtained before the live database was replaced is accepted
   afterwards, although the archive brings back the generation that was current
   when it was made, and wherever the restore was interrupted. *)
RestoreRevokesSessions ==
    \A t \in issued : t.era < era => ~SessionValid(t)

(* A token that is refused stays refused for ever: no step of a restore, no
   failure, restart or repair brings a session back. *)
NoResurrection ==
    [][\A t \in issued : ~SessionValid(t) => ~SessionValid(t)']_vars

(* A write answered with success is in the live database or in a completed
   dump, also when it was in flight while a restore was authorized. *)
AcknowledgedWritesRecoverable ==
    \A r \in acked : r \in live.data \/ \E a \in archives : r \in a.data

(* The account was demoted by a statement that outlived its handler. *)
DemotedLate(u) == \E r \in late : op[r] = "demote" /\ target[r] = u

(* An archive of the live database, but for what such statements did. *)
RecordedBy(a) ==
    /\ a.data \subseteq live.data
    /\ live.data \ a.data \subseteq late
    /\ live.admins \subseteq a.admins
    /\ \A u \in a.admins \ live.admins : DemotedLate(u)

(* The recovery archive holds the state that the restore is about to drop,
   except for what dropped handlers' statements did under the guard. *)
RecoveryArchiveIsCurrent ==
    \A s \in Restores : pc[s] \in {"rotate", "mark", "block", "pgrestore"} =>
        \E a \in archives : RecordedBy(a)

(* Until it replaces the database a restore acts for someone who is an
   administrator now, not only when the upload began; until it rotates the
   generation itself, with a session that is valid now.  Only the statement of
   a handler dropped before may demote that someone in between. *)
CutoverStaysAuthorized ==
    \A s \in Restores :
        /\ pc[s] \in {"dump", "rotate"} => Authenticated(s)
        /\ pc[s] \in {"dump", "rotate", "mark", "block", "pgrestore"} =>
            token[s].user \in live.admins \/ DemotedLate(token[s].user)

(* Whoever waits at the gate gets through it or leaves, restores included: no
   stream of readers keeps a restore out, no interrupted restore keeps the gate. *)
GateServesEveryone ==
    \A a \in Actors : (pc[a] \in Waiting) ~> (pc[a] \notin Waiting)

--------------------------------------------------------------------------------
(* The promise this module implements. *)

Promise == INSTANCE RestorePromise WITH
    Writes <- Requests,
    accepted <- {t \in issued : SessionValid(t)},
    data <- live.data,
    dumps <- {a.data : a \in archives}

(* Gate, marker, generations and recovery archive together keep what
   RestorePromise promises of sessions and writes, whatever is interrupted. *)
KeepsPromise == Promise!Spec

================================================================================
