-------------------------------- MODULE Backups --------------------------------
(***************************************************************************)
(* Dumps, their job rows and their files (backups.rs).  A dump inserts a   *)
(* row 'running', lets pg_dump write a hidden .dump.partial, renames it    *)
(* and records the row as success; manual and scheduled dumps then prune.  *)
(* The rows live in the database that is dumped, so an archive contains    *)
(* its own row as 'running', and a restore brings back the rows of the     *)
(* archive's day while the files stay.  Nothing orders concurrent manual   *)
(* dumps and prunes; the gate (module RestoreGate) only keeps a restore    *)
(* apart from them, and is abstracted here to that exclusion.              *)
(***************************************************************************)
EXTENDS Naturals, FiniteSets

CONSTANTS
    Dumps,       \* dump identities (job id, file name), each used once
    Retention,   \* backup_retention
    MaxCrashes   \* bound on the number of process deaths

ASSUME RetentionIsPositive == Retention \in Nat \ {0}
ASSUME MaxCrashesIsNat == MaxCrashes \in Nat

VARIABLES
    proc,        \* "down", "reclaimed" (startup half done) or "up"
    pc,          \* where each dump is
    kind,        \* why it is made
    jobs,        \* backup_jobs.status by dump, "none" without a row
    partials,    \* the .dump.partial files
    files,       \* the finished archives in the directory
    snapshot,    \* the rows inside the archive of a dump
    mtime,       \* modification time of the archive, 0 before pg_dump ends
    clock,       \* the latest such time
    view,        \* what the prune after a dump has listed, then what it dooms
    pruned,      \* history: archives removed by a prune
    deleted,     \* history: archives removed by an administrator
    closed,      \* history: dumps whose failure pg_dump reported
    crashes

vars == <<proc, pc, kind, jobs, partials, files, snapshot, mtime, clock, view,
          pruned, deleted, closed, crashes>>

histVars == <<pruned, deleted, closed>>

Statuses == {"none", "running", "failed", "success"}
(* A scheduled dump goes like a manual one, and prunes like it. *)
Kinds == {"manual", "pre_restore"}

NoRows == [e \in Dumps |-> "none"]

Writing == {"begun", "dumping", "dumped", "failing"}
Pruning == {"list", "query", "remove"}
Stages == {"new", "done", "renamed", "replace"} \cup Writing \cup Pruning

Active(d) == pc[d] \notin {"new", "done"}

Completed == files \cup pruned \cup deleted

Init ==
    /\ proc = "up"
    /\ pc = [d \in Dumps |-> "new"]
    /\ kind = [d \in Dumps |-> "manual"]
    /\ jobs = NoRows
    /\ partials = {}
    /\ files = {}
    /\ snapshot = [d \in Dumps |-> NoRows]
    /\ mtime = [d \in Dumps |-> 0]
    /\ clock = 0
    /\ view = [d \in Dumps |-> {}]
    /\ pruned = {}
    /\ deleted = {}
    /\ closed = {}
    /\ crashes = 0

Goto(d, from, to) ==
    /\ pc[d] = from
    /\ pc' = [pc EXCEPT ![d] = to]

(* The drop of TempFile takes the partial file, if it is there, and its content;
   the locals of the handler go as well. *)
Drop(d) ==
    /\ partials' = partials \ {d}
    /\ snapshot' = IF d \in partials THEN [snapshot EXCEPT ![d] = NoRows] ELSE snapshot
    /\ kind' = [kind EXCEPT ![d] = "manual"]
    /\ view' = [view EXCEPT ![d] = {}]

SetStatus(d, status) == jobs' = [jobs EXCEPT ![d] = status]

--------------------------------------------------------------------------------
(* dump *)

(* create and tick run under the shared side of the gate, the recovery dump of
   a restore under the exclusive side. *)
MayBegin(k) ==
    \A e \in Dumps : Active(e) => k = "manual" /\ kind[e] = "manual"

(* The row comes first. *)
Begin(d) ==
    /\ proc = "up"
    /\ Goto(d, "new", "begun")
    /\ \E k \in Kinds :
        /\ MayBegin(k)
        /\ kind' = [kind EXCEPT ![d] = k]
    /\ SetStatus(d, "running")
    /\ UNCHANGED <<proc, partials, files, snapshot, mtime, clock, view, histVars, crashes>>

(* pg_dump opens its file and takes its snapshot of the database. *)
StartPgDump(d) ==
    /\ Goto(d, "begun", "dumping")
    /\ partials' = partials \cup {d}
    /\ snapshot' = [snapshot EXCEPT ![d] = jobs]
    /\ UNCHANGED <<proc, kind, jobs, files, mtime, clock, view, histVars, crashes>>

FinishPgDump(d) ==
    /\ Goto(d, "dumping", "dumped")
    /\ clock' = clock + 1
    /\ mtime' = [mtime EXCEPT ![d] = clock + 1]
    /\ UNCHANGED <<proc, kind, jobs, partials, files, snapshot, view, histVars, crashes>>

(* pg_dump fails or times out: the row is closed, the partial file goes when
   the handler returns. *)
FailPgDump(d) ==
    /\ pc[d] \in {"begun", "dumping"}
    /\ pc' = [pc EXCEPT ![d] = "failing"]
    /\ SetStatus(d, "failed")
    /\ closed' = closed \cup {d}
    /\ UNCHANGED <<proc, kind, partials, files, snapshot, mtime, clock, view,
                   pruned, deleted, crashes>>

ReturnFailure(d) ==
    /\ Goto(d, "failing", "done")
    /\ Drop(d)
    /\ UNCHANGED <<proc, jobs, files, mtime, clock, histVars, crashes>>

(* Variant: an error of the rename is ignored. *)
RenameIgnored(d) ==
    /\ Goto(d, "dumped", "renamed")
    /\ partials' = partials \ {d}
    /\ files' \in {files, files \cup {d}}
    /\ UNCHANGED <<proc, kind, jobs, snapshot, mtime, clock, view, histVars, crashes>>

Rename(d) ==
    /\ Goto(d, "dumped", "renamed")
    /\ partials' = partials \ {d}
    /\ files' = files \cup {d}
    /\ UNCHANGED <<proc, kind, jobs, snapshot, mtime, clock, view, histVars, crashes>>

Record(d) ==
    /\ Goto(d, "renamed", IF kind[d] = "pre_restore" THEN "replace" ELSE "list")
    /\ SetStatus(d, "success")
    /\ UNCHANGED <<proc, kind, partials, files, snapshot, mtime, clock, view,
                   histVars, crashes>>

--------------------------------------------------------------------------------
(* prune *)

PruneList(d) ==
    /\ Goto(d, "list", "query")
    /\ view' = [view EXCEPT ![d] = files]
    /\ UNCHANGED <<proc, kind, jobs, partials, files, snapshot, mtime, clock,
                   histVars, crashes>>

(* Variant: one archive too few is kept. *)
BeyondLess(n, S) ==
    {f \in S : Cardinality({g \in S : mtime[g] > mtime[f]}) >= n - 1}

(* All but the newest. *)
Beyond(n, S) ==
    {f \in S : Cardinality({g \in S : mtime[g] > mtime[f]}) >= n}

(* Variant: the rows are not looked at. *)
PruneQueryNothing(d) ==
    /\ Goto(d, "query", "remove")
    /\ view' = [view EXCEPT ![d] = Beyond(Retention, @)]
    /\ UNCHANGED <<proc, kind, jobs, partials, files, snapshot, mtime, clock,
                   histVars, crashes>>

(* Archives whose row says running are neither counted nor removed. *)
PruneQuery(d) ==
    /\ Goto(d, "query", "remove")
    /\ view' = [view EXCEPT ![d] = Beyond(Retention, {f \in @ : jobs[f] # "running"})]
    /\ UNCHANGED <<proc, kind, jobs, partials, files, snapshot, mtime, clock,
                   histVars, crashes>>

PruneRemove(d) ==
    /\ Goto(d, "remove", "done")
    /\ files' = files \ view[d]
    /\ pruned' = pruned \cup (files \cap view[d])
    /\ Drop(d)
    /\ UNCHANGED <<proc, jobs, mtime, clock, deleted, closed, crashes>>

--------------------------------------------------------------------------------
(* Everything else that touches rows and files. *)

(* DELETE /api/backups/{name}, whatever the row says. *)
Delete(f) ==
    /\ proc = "up"
    /\ \A e \in Dumps : Active(e) => kind[e] # "pre_restore"
    /\ f \in files
    /\ files' = files \ {f}
    /\ deleted' = deleted \cup {f}
    /\ UNCHANGED <<proc, pc, kind, jobs, partials, snapshot, mtime, clock, view,
                   pruned, closed, crashes>>

(* pg_restore of an archive made earlier, kept or downloaded: all rows are
   those of its snapshot, or the restore fails and nothing changes. *)
Replace(d) ==
    /\ Goto(d, "replace", "done")
    /\ \/ \E a \in Completed \ {d} : jobs' = snapshot[a]
       \/ UNCHANGED jobs
    /\ Drop(d)
    /\ UNCHANGED <<proc, files, mtime, clock, histVars, crashes>>

(* An error leaves through `?`, or the client's disconnect drops the future:
   the partial file is unlinked, the row stays as it is. *)
Abort(d) ==
    /\ Active(d)
    /\ pc' = [pc EXCEPT ![d] = "done"]
    /\ Drop(d)
    /\ UNCHANGED <<proc, jobs, files, mtime, clock, histVars, crashes>>

(* Nobody unlinks anything. *)
Crash ==
    /\ proc # "down"
    /\ crashes < MaxCrashes
    /\ crashes' = crashes + 1
    /\ proc' = "down"
    /\ pc' = [d \in Dumps |-> IF Active(d) THEN "done" ELSE pc[d]]
    /\ kind' = [d \in Dumps |-> "manual"]
    /\ view' = [d \in Dumps |-> {}]
    /\ UNCHANGED <<jobs, partials, files, snapshot, mtime, clock, histVars>>

(* Variant: the rows are closed before their files are looked for. *)
ReclaimNothing ==
    /\ proc = "down"
    /\ proc' = "reclaimed"
    /\ UNCHANGED <<pc, kind, jobs, partials, files, snapshot, mtime, clock, view,
                   histVars, crashes>>

(* initialize_backups: first the files of interrupted jobs, then their rows. *)
Reclaim ==
    /\ proc = "down"
    /\ proc' = "reclaimed"
    /\ partials' = {d \in partials : jobs[d] # "running"}
    /\ UNCHANGED <<pc, kind, jobs, files, snapshot, mtime, clock, view, histVars, crashes>>

FailInterrupted ==
    /\ proc = "reclaimed"
    /\ proc' = "up"
    /\ jobs' = [d \in Dumps |-> IF jobs[d] = "running" THEN "failed" ELSE jobs[d]]
    /\ UNCHANGED <<pc, kind, partials, files, snapshot, mtime, clock, view, histVars, crashes>>

(* Every dump has been asked for and is over. *)
Quiescent ==
    /\ proc = "up"
    /\ \A d \in Dumps : pc[d] = "done"
    /\ UNCHANGED vars

--------------------------------------------------------------------------------

DumpStep(d) ==
    \/ StartPgDump(d)
    \/ FinishPgDump(d)
    \/ FailPgDump(d)
    \/ ReturnFailure(d)
    \/ Rename(d)
    \/ Record(d)
    \/ PruneList(d)
    \/ PruneQuery(d)
    \/ PruneRemove(d)
    \/ Replace(d)

Next ==
    \/ \E d \in Dumps : Begin(d) \/ DumpStep(d) \/ Abort(d) \/ Delete(d)
    \/ Crash
    \/ Reclaim
    \/ FailInterrupted
    \/ Quiescent

Spec == Init /\ [][Next]_vars

--------------------------------------------------------------------------------
(* Properties. *)

TypeOK ==
    /\ proc \in {"down", "reclaimed", "up"}
    /\ pc \in [Dumps -> Stages]
    /\ kind \in [Dumps -> Kinds]
    /\ jobs \in [Dumps -> Statuses]
    /\ partials \in SUBSET Dumps
    /\ files \in SUBSET Dumps
    /\ snapshot \in [Dumps -> [Dumps -> Statuses]]
    /\ mtime \in [Dumps -> Nat]
    /\ clock \in Nat
    /\ view \in [Dumps -> SUBSET Dumps]
    /\ pruned \in SUBSET Dumps
    /\ deleted \in SUBSET Dumps
    /\ closed \in SUBSET Dumps
    /\ crashes \in 0 .. MaxCrashes

(* A prune that lists the directory while another dump is between its rename
   and its last row update does not take that dump's archive away. *)
InFlightArchiveKept ==
    \A d \in Dumps : pc[d] = "renamed" => d \in files \cup deleted

(* However prunes, dumps, restores and crashes interleave, an archive is pruned
   only if as many newer ones as the retention asks for are kept, or were
   deleted by hand. *)
NewestArchivesKept ==
    \A f \in pruned :
        Cardinality({g \in files \cup deleted : mtime[g] > mtime[f]}) >= Retention

(* A job that says success had a complete archive, also when the row came back
   with a restored database. *)
SuccessHadArchive ==
    \A d \in Dumps : jobs[d] = "success" => d \in Completed

(* A serving process has no partial file but those being written and those
   whose dump pg_dump had already reported as failed: what a crash or a restored
   database leaves behind is found again at the next start. *)
PartialsReclaimed ==
    proc = "up" => \A d \in partials : pc[d] \in Writing \/ d \in closed

================================================================================
