-------------------------------- MODULE Startup --------------------------------
(***************************************************************************)
(* What main() does with the database before, while and after it serves:   *)
(* migrate under an advisory lock (db/mod.rs), own the database through a  *)
(* lock on a connection that is kept and probed (main.rs), and drop the    *)
(* staging databases an earlier process left (initialize_backups); a       *)
(* restore makes and drops them (StagingDatabase, api/auxiliary/backups.rs).*)
(*                                                                         *)
(* Each process runs once: a restart is another one.  A process may die at *)
(* any time, its sessions end at once or later; the connection of the      *)
(* lease may break while the process goes on.  Time passes in ticks of one *)
(* second for whoever serves.                                              *)
(***************************************************************************)
EXTENDS Integers, Sequences

CONSTANTS
    Procs,      \* processes, each started at most once
    NoProc,     \* nobody
    Stagings,   \* names of staging databases, each given at most once
    Interval,   \* ticks between two probes of the lease
    Patience    \* ticks a probe may take

ASSUME NoProcIsNobody == NoProc \notin Procs
ASSUME TimesAreNatural == Interval \in Nat /\ Patience \in Nat

VARIABLES
    schema,     \* what is committed of the revision chain
    locked,     \* who migrates
    pos,        \* the next line of the script
    tx,         \* the transaction a migration has open
    phase,      \* where each process is
    lease,      \* whose session holds the instance lock
    link,       \* the connection of the lease, as its process finds it
    todo,       \* staging databases still to drop
    staging,    \* the staging databases there are
    maker,      \* who made each
    probing,    \* the probe: none, sent, or answered with the answer on its way
    elapsed,    \* ticks since the probe was sent, or the last was answered
    overtime    \* history: ticks served without the lease

migration == <<schema, locked, pos, tx>>
owning == <<lease, link>>
reclaim == <<todo, staging, maker>>
monitor == <<probing, elapsed, overtime>>
startupVars == <<migration, phase, owning, reclaim, monitor>>

--------------------------------------------------------------------------------
(* The revision chain. *)

Line(op) == [op |-> op, n |-> 0]
Revision(n) == [op |-> "revision", n |-> n]

(* SCHEMA: of the revisions between two transaction lines there are two.  The
   revision after the enum value was added uses it. *)
Script ==
    <<Line("begin"), Revision(1), Revision(2), Line("commit"),
      Revision(3), Revision(4), Line("commit"), Line("add"),
      Line("begin"), Revision(5), Revision(6), Line("commit")>>
HEAD == 6
Uses == 5

NoTx == [version |-> 0, added |-> FALSE, ok |-> FALSE]

IsTransactionLine(i) == Script[i].op \in {"begin", "commit"}

(* A revision fails where it was applied before, and a value cannot be used in
   the transaction that adds it. *)
Apply(db, line) ==
    IF line.op = "add" THEN [db EXCEPT !.added = TRUE]
    ELSE [db EXCEPT !.version = line.n,
                    !.ok = @ /\ db.version = line.n - 1
                             /\ (line.n = Uses => schema.added)]

(* execute_migration: a transaction line, or all up to the next one. *)
BatchEnd(i) ==
    IF IsTransactionLine(i) THEN i
    ELSE CHOOSE j \in i .. Len(Script) :
            /\ j = Len(Script) \/ IsTransactionLine(j + 1)
            /\ \A k \in i .. j : ~IsTransactionLine(k)

(* The lines from i to j, one after the other. *)
Ran(base, i, j) ==
    LET db[k \in (i - 1) .. j] == IF k < i THEN base ELSE Apply(db[k - 1], Script[k])
    IN  db[j]

(* A batch outside of a transaction is one of its own. *)
Executed(p) ==
    LET base == IF tx[p] = NoTx THEN schema ELSE tx[p]
        after == Ran(base, pos[p], BatchEnd(pos[p]))
        op == Script[pos[p]].op
    IN  CASE op = "begin" -> [schema |-> schema, tx |-> base]
          [] op = "commit" -> [schema |-> base, tx |-> NoTx]
          [] op \notin {"begin", "commit"} /\ tx[p] = NoTx -> [schema |-> after, tx |-> NoTx]
          [] op \notin {"begin", "commit"} /\ tx[p] # NoTx -> [schema |-> schema, tx |-> after]

StartupInit ==
    /\ \E v \in 0 .. HEAD, a \in BOOLEAN :
        /\ v < 4 => ~a
        /\ v > 4 => a
        /\ schema = [version |-> v, added |-> a, ok |-> TRUE]
    /\ locked = NoProc
    /\ pos = [p \in Procs |-> 1]
    /\ tx = [p \in Procs |-> NoTx]
    /\ phase = [p \in Procs |-> "new"]
    /\ lease = NoProc
    /\ link = [p \in Procs |-> "none"]
    /\ todo = [p \in Procs |-> {}]
    /\ staging = {}
    /\ maker = [s \in Stagings |-> NoProc]
    /\ probing = [p \in Procs |-> "no"]
    /\ elapsed = [p \in Procs |-> 0]
    /\ overtime = [p \in Procs |-> 0]

Proceeds(p, from, to) ==
    /\ phase[p] = from
    /\ phase' = [phase EXCEPT ![p] = to]

--------------------------------------------------------------------------------
(* migrate. *)

(* Variant: nobody waits for the advisory lock. *)
LockFreeAlways == TRUE

LockFree == locked = NoProc

(* The lock, the revision, and BEGIN where the chain goes on. *)
Migrate(p) ==
    /\ Proceeds(p, "new", "migrating")
    /\ LockFree
    /\ locked' = p
    /\ LET v == schema.version IN
        /\ pos' = [pos EXCEPT ![p] =
                IF v = 0 THEN 1
                ELSE IF v = HEAD THEN Len(Script) + 1
                ELSE 1 + CHOOSE i \in DOMAIN Script : Script[i] = Revision(v)]
        /\ tx' = [tx EXCEPT ![p] = IF v \in 1 .. (HEAD - 1) THEN schema ELSE NoTx]
    /\ UNCHANGED <<schema, owning, reclaim, monitor>>

(* An error ends the start: ROLLBACK and unlock. *)
Execute(p) ==
    /\ phase[p] = "migrating"
    /\ pos[p] <= Len(Script)
    /\ LET done == Executed(p)
           fine == done.schema.ok /\ (done.tx = NoTx \/ done.tx.ok)
       IN  /\ schema' = IF fine THEN done.schema ELSE schema
           /\ tx' = [tx EXCEPT ![p] = IF fine THEN done.tx ELSE NoTx]
           /\ phase' = [phase EXCEPT ![p] = IF fine THEN @ ELSE "failed"]
           /\ locked' = IF fine THEN locked ELSE NoProc
    /\ pos' = [pos EXCEPT ![p] = BatchEnd(@) + 1]
    /\ UNCHANGED <<owning, reclaim, monitor>>

Unlock(p) ==
    /\ Proceeds(p, "migrating", "leasing")
    /\ pos[p] > Len(Script)
    /\ locked' = NoProc
    /\ UNCHANGED <<schema, pos, tx, owning, reclaim, monitor>>

--------------------------------------------------------------------------------
(* initialize_backups. *)

TryLease(p) ==
    /\ \/ /\ lease = NoProc
          /\ Proceeds(p, "leasing", "listing")
          /\ lease' = p
          /\ link' = [link EXCEPT ![p] = "ok"]
       \/ /\ lease # NoProc
          /\ Proceeds(p, "leasing", "gone")
          /\ UNCHANGED owning
    /\ UNCHANGED <<migration, reclaim, monitor>>

(* Variant: what startup asks of the database goes through the pool. *)
OnAnySession(p) == TRUE

(* What startup asks of the database goes through the connection of the lease. *)
OnLeaseSession(p) == link[p] = "ok"

ListStagings(p) ==
    /\ Proceeds(p, "listing", "reclaiming")
    /\ OnLeaseSession(p)
    /\ todo' = [todo EXCEPT ![p] = staging]
    /\ UNCHANGED <<migration, owning, staging, maker, monitor>>

ReclaimStaging(p, s) ==
    /\ phase[p] = "reclaiming"
    /\ OnLeaseSession(p)
    /\ todo' = [todo EXCEPT ![p] = @ \ {s}]
    /\ staging' = staging \ {s}
    /\ UNCHANGED <<migration, phase, owning, maker, monitor>>

(* The jobs are closed through the pool (see Backups); then it serves. *)
Serve(p) ==
    /\ Proceeds(p, "reclaiming", "serving")
    /\ todo[p] = {}
    /\ UNCHANGED <<migration, owning, reclaim, monitor>>

--------------------------------------------------------------------------------
(* Serving. *)

Serving(p) == phase[p] \in {"serving", "draining"}

(* stage_archive, of a restore. *)
Stage(p, s) ==
    /\ Serving(p)
    /\ maker[s] = NoProc
    /\ maker' = [maker EXCEPT ![s] = p]
    /\ staging' = staging \cup {s}
    /\ UNCHANGED <<migration, phase, owning, todo, monitor>>

(* remove, or Drop. *)
Unstage(p, s) ==
    /\ Serving(p)
    /\ s \in staging
    /\ maker[s] = p
    /\ staging' = staging \ {s}
    /\ UNCHANGED <<migration, phase, owning, todo, maker, monitor>>

Signal(p) ==
    /\ Proceeds(p, "serving", "draining")
    /\ UNCHANGED <<migration, owning, reclaim, monitor>>

(* Variant: the lease is not watched while requests drain. *)
WatchedServing(p) == phase[p] = "serving"

(* serve and lease_monitor are awaited together until the drain has ended. *)
Watched(p) == Serving(p)

Probe(p) ==
    /\ Watched(p)
    /\ probing[p] = "no"
    /\ elapsed[p] = Interval
    /\ probing' = [probing EXCEPT ![p] = "sent"]
    /\ elapsed' = [elapsed EXCEPT ![p] = 0]
    /\ UNCHANGED <<migration, phase, owning, reclaim, overtime>>

(* The server answers while the session lives; the answer is then on its way,
   whatever becomes of the session. *)
ServerAnswers(p) ==
    /\ probing[p] = "sent"
    /\ link[p] = "ok"
    /\ probing' = [probing EXCEPT ![p] = "answered"]
    /\ UNCHANGED <<migration, phase, owning, reclaim, elapsed, overtime>>

ProbeAnswered(p) ==
    /\ probing[p] = "answered"
    /\ probing' = [probing EXCEPT ![p] = "no"]
    /\ elapsed' = [elapsed EXCEPT ![p] = 0]
    /\ UNCHANGED <<migration, phase, owning, reclaim, overtime>>

(* The session of the lease ends with its process, or only when the server
   notices. *)
Ends(p) ==
    /\ phase' = [phase EXCEPT ![p] = "gone"]
    /\ lease' \in {lease, IF lease = p THEN NoProc ELSE lease}
    /\ link' = [link EXCEPT ![p] = "none"]
    /\ todo' = [todo EXCEPT ![p] = {}]
    /\ probing' = [probing EXCEPT ![p] = "no"]
    /\ elapsed' = [elapsed EXCEPT ![p] = 0]
    /\ overtime' = [overtime EXCEPT ![p] = 0]
    /\ UNCHANGED <<staging, maker>>

(* The monitor's error ends the server, whatever it is doing. *)
ProbeFails(p) ==
    /\ probing[p] # "no"
    /\ link[p] = "reset" \/ elapsed[p] = Patience
    /\ Ends(p)
    /\ UNCHANGED migration

DrainEnds(p) ==
    /\ phase[p] = "draining"
    /\ Ends(p)
    /\ UNCHANGED migration

--------------------------------------------------------------------------------
(* Faults and time. *)

(* Killed, or a statement of the start fails; the server may still execute the
   last one. *)
Dies(p) ==
    /\ phase[p] \notin {"new", "failed", "gone"}
    /\ Ends(p)
    /\ schema' \in {schema} \cup
        (IF phase[p] = "migrating" /\ pos[p] <= Len(Script) /\ Executed(p).schema.ok
         THEN {Executed(p).schema} ELSE {})
    /\ tx' = [tx EXCEPT ![p] = NoTx]
    /\ locked' = IF locked = p THEN NoProc ELSE locked
    /\ UNCHANGED pos

(* The connection of the lease breaks: its use is an error, or has no answer.  The
   server may have ended the session. *)
Breaks(p) ==
    /\ link[p] = "ok"
    /\ \E l \in {"reset", "hung"} : link' = [link EXCEPT ![p] = l]
    /\ lease' \in {p, NoProc}
    /\ UNCHANGED <<migration, phase, reclaim, monitor>>

ServerNotices ==
    /\ lease # NoProc
    /\ link[lease] # "ok"
    /\ lease' = NoProc
    /\ UNCHANGED <<migration, phase, link, reclaim, monitor>>

(* The monitor is scheduled when it is due. *)
Punctual(p) ==
    Watched(p) => elapsed[p] < (IF probing[p] = "no" THEN Interval ELSE Patience)

Tick ==
    /\ \E p \in Procs : Serving(p)
    /\ \A p \in Procs : Punctual(p)
    /\ elapsed' = [p \in Procs |-> IF Watched(p) THEN elapsed[p] + 1 ELSE elapsed[p]]
    /\ overtime' = [p \in Procs |->
            IF Serving(p) /\ lease # p THEN overtime[p] + 1 ELSE overtime[p]]
    /\ UNCHANGED <<migration, phase, owning, reclaim, probing>>

StartupNext ==
    \/ \E p \in Procs :
        \/ Migrate(p) \/ Execute(p) \/ Unlock(p)
        \/ TryLease(p) \/ ListStagings(p) \/ Serve(p)
        \/ Signal(p) \/ DrainEnds(p)
        \/ Probe(p) \/ ServerAnswers(p) \/ ProbeAnswered(p) \/ ProbeFails(p)
        \/ Dies(p) \/ Breaks(p)
    \/ \E p \in Procs, s \in Stagings : Stage(p, s) \/ Unstage(p, s)
    \/ \E p \in Procs : \E s \in todo[p] : ReclaimStaging(p, s)
    \/ ServerNotices
    \/ Tick

StartupSpec == StartupInit /\ [][StartupNext]_startupVars

--------------------------------------------------------------------------------
(* Properties. *)

Migrated == {"leasing", "listing", "reclaiming", "serving", "draining"}

(* Whatever revision a start finds, also one between two transactions that a dead
   process left, and whoever starts with it: no start fails in the chain, and who
   is past it has the newest schema. *)
StartsUpgrade ==
    /\ \A p \in Procs : phase[p] # "failed"
    /\ \A p \in Procs : phase[p] \in Migrated => schema.version = HEAD

(* A process that has lost the lease stops serving, also when it is draining and when
   nobody answers its probe.  The answer to the last probe may have been sent just
   before the loss and take as long as a probe may; then come an interval and a
   probe nobody answers. *)
ServesBrieflyWithoutLease ==
    \A p \in Procs : overtime[p] <= Patience + Interval + Patience

(* A start never drops the staging database of a restore that runs in the process
   which owns the database, also when it has lost the lease on the way. *)
OwnersStagingKept ==
    [][\A s \in staging \ staging' :
        lease # NoProc /\ maker[s] = lease => UNCHANGED todo]_startupVars

================================================================================
