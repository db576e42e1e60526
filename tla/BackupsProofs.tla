----------------------------- MODULE BackupsProofs -----------------------------
(***************************************************************************)
(* What Backups promises, for any number of dumps, any retention and any   *)
(* number of process deaths, in layers:                                    *)
(*   TypeOK       the variables' types;                                    *)
(*   JobsInv      where a dump is decides its row and its exclusion;       *)
(*   ArchivesInv  a prune has only archives in view that are not being     *)
(*                recorded;                                                *)
(*   SuccessInv   success, in the live rows or in an archive's, is earned; *)
(*   PartialsInv  a partial file has somebody who will remove it;          *)
(*   KeptInv      what is pruned, or about to be, has enough newer         *)
(*                archives: of those a prune takes as well, the newest has *)
(*                enough of its own.                                       *)
(***************************************************************************)
EXTENDS Backups, TLAPS, FiniteSetTheorems, WellFoundedInduction

(* An unfinished dump has a running row, whatever was restored meanwhile: a
   restore runs alone, and a dead process runs nobody. *)
JobsInv ==
    /\ \A d \in Dumps : pc[d] \in {"begun", "dumping", "dumped", "renamed"} => jobs[d] = "running"
    /\ \A d \in Dumps : pc[d] = "replace" => kind[d] = "pre_restore"
    /\ \A d \in Dumps : Active(d) /\ kind[d] = "pre_restore" =>
           \A e \in Dumps \ {d} : ~Active(e)
    /\ proc # "up" => \A d \in Dumps : ~Active(d)

(* The directory holds finished archives, a prune has listed such, and after
   its query none of them is between rename and record. *)
ArchivesInv ==
    /\ \A f \in Completed : pc[f] \notin {"new"} \cup Writing
    /\ \A p \in Dumps : view[p] \subseteq Completed
    /\ \A p \in Dumps : pc[p] = "remove" => \A f \in view[p] : pc[f] # "renamed"
    /\ InFlightArchiveKept

(* Success is earned, in the rows and in every copy of them. *)
SuccessInv ==
    /\ SuccessHadArchive
    /\ \A a, d \in Dumps : snapshot[a][d] = "success" => d \in Completed

(* A partial file is being written, or is reported as failed, or has the row
   that makes the next start remove it. *)
PartialsInv ==
    /\ \A d \in Dumps : pc[d] = "failing" => d \in closed
    /\ \A d \in partials : pc[d] \in Writing \/ d \in closed \/ (proc = "down" /\ jobs[d] = "running")

--------------------------------------------------------------------------------

(* Every step keeps the variables' types. *)
THEOREM BackupsTypeCorrect == Spec => []TypeOK
<1>1. Init => TypeOK
  BY MaxCrashesIsNat DEF Init, TypeOK, Statuses, Kinds, Writing, Pruning, Stages, Active, NoRows
<1>2. TypeOK /\ [Next]_vars => TypeOK'
  <2> SUFFICES ASSUME TypeOK, [Next]_vars
               PROVE  TypeOK'
    OBVIOUS
  <2> USE MaxCrashesIsNat DEF TypeOK, Statuses, Kinds, Writing, Pruning, Stages, Active, NoRows, Goto, histVars
  <2>1. ASSUME NEW d \in Dumps, Begin(d)  PROVE TypeOK'
    BY <2>1 DEF Begin, MayBegin, SetStatus
  <2>2. ASSUME NEW d \in Dumps, StartPgDump(d)  PROVE TypeOK'
    BY <2>2 DEF StartPgDump
  <2>3. ASSUME NEW d \in Dumps, FinishPgDump(d)  PROVE TypeOK'
    BY <2>3 DEF FinishPgDump
  <2>4. ASSUME NEW d \in Dumps, FailPgDump(d)  PROVE TypeOK'
    BY <2>4 DEF FailPgDump, SetStatus
  <2>5. ASSUME NEW d \in Dumps, ReturnFailure(d)  PROVE TypeOK'
    BY <2>5 DEF ReturnFailure, Drop
  <2>6. ASSUME NEW d \in Dumps, Rename(d)  PROVE TypeOK'
    BY <2>6 DEF Rename
  <2>7. ASSUME NEW d \in Dumps, Record(d)  PROVE TypeOK'
    BY <2>7 DEF Record, SetStatus
  <2>8. ASSUME NEW d \in Dumps, PruneList(d)  PROVE TypeOK'
    BY <2>8 DEF PruneList
  <2>9. ASSUME NEW d \in Dumps, PruneQuery(d)  PROVE TypeOK'
    BY <2>9 DEF PruneQuery, Beyond
  <2>10. ASSUME NEW d \in Dumps, PruneRemove(d)  PROVE TypeOK'
    BY <2>10 DEF PruneRemove, Drop
  <2>11. ASSUME NEW d \in Dumps, Delete(d)  PROVE TypeOK'
    BY <2>11 DEF Delete
  <2>12. ASSUME NEW d \in Dumps, Replace(d)  PROVE TypeOK'
    BY <2>12 DEF Replace, Drop, Completed
  <2>13. ASSUME NEW d \in Dumps, Abort(d)  PROVE TypeOK'
    BY <2>13 DEF Abort, Drop
  <2>14. CASE Crash
    BY <2>14 DEF Crash
  <2>15. CASE Reclaim
    BY <2>15 DEF Reclaim
  <2>16. CASE FailInterrupted
    BY <2>16 DEF FailInterrupted
  <2>17. CASE UNCHANGED vars
    BY <2>17 DEF vars
  <2>18. QED
    BY <2>1, <2>2, <2>3, <2>4, <2>5, <2>6, <2>7, <2>8, <2>9, <2>10, <2>11, <2>12, <2>13, <2>14, <2>15, <2>16, <2>17
    DEF Next, DumpStep, Quiescent
<1>3. QED
  BY <1>1, <1>2, PTL DEF Spec

(* An unfinished dump has a running row, also after a restore replaced the rows. *)
THEOREM UnfinishedRowsRun == Spec => []JobsInv
<1>1. Init => JobsInv
  BY DEF Init, JobsInv, Statuses, Kinds, Writing, Pruning, Stages, Active, NoRows
<1>2. TypeOK /\ JobsInv /\ [Next]_vars => JobsInv'
  <2> SUFFICES ASSUME TypeOK, JobsInv, [Next]_vars
               PROVE  JobsInv'
    OBVIOUS
  <2>0. pc \in [Dumps -> Stages] /\ kind \in [Dumps -> Kinds] /\ jobs \in [Dumps -> Statuses]
    BY DEF TypeOK
  <2> USE <2>0 DEF JobsInv, Statuses, Kinds, Writing, Pruning, Stages, Active, NoRows, Goto, histVars
  <2>1. ASSUME NEW d \in Dumps, Begin(d)  PROVE JobsInv'
    BY <2>1 DEF Begin, MayBegin, SetStatus
  <2>2. ASSUME NEW d \in Dumps, StartPgDump(d)  PROVE JobsInv'
    BY <2>2 DEF StartPgDump
  <2>3. ASSUME NEW d \in Dumps, FinishPgDump(d)  PROVE JobsInv'
    BY <2>3 DEF FinishPgDump
  <2>4. ASSUME NEW d \in Dumps, FailPgDump(d)  PROVE JobsInv'
    BY <2>4 DEF FailPgDump, SetStatus
  <2>5. ASSUME NEW d \in Dumps, ReturnFailure(d)  PROVE JobsInv'
    BY <2>5 DEF ReturnFailure, Drop
  <2>6. ASSUME NEW d \in Dumps, Rename(d)  PROVE JobsInv'
    BY <2>6 DEF Rename
  <2>7. ASSUME NEW d \in Dumps, Record(d)  PROVE JobsInv'
    BY <2>7 DEF Record, SetStatus
  <2>8. ASSUME NEW d \in Dumps, PruneList(d)  PROVE JobsInv'
    BY <2>8 DEF PruneList
  <2>9. ASSUME NEW d \in Dumps, PruneQuery(d)  PROVE JobsInv'
    BY <2>9 DEF PruneQuery, Beyond
  <2>10. ASSUME NEW d \in Dumps, PruneRemove(d)  PROVE JobsInv'
    BY <2>10 DEF PruneRemove, Drop
  <2>11. ASSUME NEW d \in Dumps, Delete(d)  PROVE JobsInv'
    BY <2>11 DEF Delete
  <2>12. ASSUME NEW d \in Dumps, Replace(d)  PROVE JobsInv'
    BY <2>12 DEF Replace, Drop
  <2>13. ASSUME NEW d \in Dumps, Abort(d)  PROVE JobsInv'
    BY <2>13 DEF Abort, Drop
  <2>14. CASE Crash
    BY <2>14 DEF Crash
  <2>15. CASE Reclaim
    BY <2>15 DEF Reclaim
  <2>16. CASE FailInterrupted
    BY <2>16 DEF FailInterrupted
  <2>17. CASE UNCHANGED vars
    BY <2>17 DEF vars
  <2>18. QED
    BY <2>1, <2>2, <2>3, <2>4, <2>5, <2>6, <2>7, <2>8, <2>9, <2>10, <2>11, <2>12, <2>13, <2>14, <2>15, <2>16, <2>17
    DEF Next, DumpStep, Quiescent
<1>3. QED
  BY <1>1, <1>2, BackupsTypeCorrect, PTL DEF Spec

(* A prune, begun before or after another dump's rename, never has the archive in
   view that this dump is about to record. *)
THEOREM PruneSparesUnrecorded == Spec => []ArchivesInv
<1>1. Init => ArchivesInv
  BY DEF Init, ArchivesInv, InFlightArchiveKept, Completed, Statuses, Kinds, Writing, Pruning, Stages, Active, NoRows
<1>2. TypeOK /\ JobsInv /\ ArchivesInv /\ [Next]_vars => ArchivesInv'
  <2> SUFFICES ASSUME TypeOK, JobsInv, ArchivesInv, [Next]_vars
               PROVE  ArchivesInv'
    OBVIOUS
  <2>0. pc \in [Dumps -> Stages] /\ kind \in [Dumps -> Kinds] /\ jobs \in [Dumps -> Statuses]
    BY DEF TypeOK
  <2> USE <2>0 DEF ArchivesInv, InFlightArchiveKept, Completed, JobsInv, Statuses, Kinds, Writing, Pruning, Stages, Active, NoRows, Goto, histVars
  <2>1. ASSUME NEW d \in Dumps, Begin(d)  PROVE ArchivesInv'
    BY <2>1 DEF Begin, MayBegin, SetStatus
  <2>2. ASSUME NEW d \in Dumps, StartPgDump(d)  PROVE ArchivesInv'
    BY <2>2 DEF StartPgDump
  <2>3. ASSUME NEW d \in Dumps, FinishPgDump(d)  PROVE ArchivesInv'
    BY <2>3 DEF FinishPgDump
  <2>4. ASSUME NEW d \in Dumps, FailPgDump(d)  PROVE ArchivesInv'
    BY <2>4 DEF FailPgDump, SetStatus
  <2>5. ASSUME NEW d \in Dumps, ReturnFailure(d)  PROVE ArchivesInv'
    BY <2>5 DEF ReturnFailure, Drop
  <2>6. ASSUME NEW d \in Dumps, Rename(d)  PROVE ArchivesInv'
    BY <2>6 DEF Rename
  <2>7. ASSUME NEW d \in Dumps, Record(d)  PROVE ArchivesInv'
    BY <2>7 DEF Record, SetStatus
  <2>8. ASSUME NEW d \in Dumps, PruneList(d)  PROVE ArchivesInv'
    BY <2>8 DEF PruneList
  <2>9. ASSUME NEW d \in Dumps, PruneQuery(d)  PROVE ArchivesInv'
    <3>1. view \in [Dumps -> SUBSET Dumps]
      BY DEF TypeOK
    <3>2. \A f \in view'[d] : f \in view[d] /\ jobs[f] # "running"
      BY <2>9, <3>1 DEF PruneQuery, Beyond
    <3>3. \A e \in Dumps \ {d} : view'[e] = view[e] /\ pc'[e] = pc[e]
      BY <2>9, <3>1 DEF PruneQuery
    <3>4. pc[d] = "query" /\ pc' = [pc EXCEPT ![d] = "remove"] /\ UNCHANGED <<files, pruned, deleted, jobs>>
      BY <2>9 DEF PruneQuery
    <3>5. view[d] \subseteq Dumps
      BY <3>1
    <3>6. \A f \in view'[d] : pc'[f] # "renamed"
      BY <3>2, <3>4, <3>5
    <3>7. \A p \in Dumps : view'[p] \subseteq Completed
      BY <3>2, <3>3
    <3>8. \A f \in Completed : pc'[f] \notin {"new"} \cup Writing
      BY <3>4 DEF TypeOK
    <3>9. \A p \in Dumps : pc'[p] = "remove" => \A f \in view'[p] : pc'[f] # "renamed"
      BY <3>1, <3>3, <3>4, <3>6
    <3> QED
      BY <3>4, <3>7, <3>8, <3>9
  <2>10. ASSUME NEW d \in Dumps, PruneRemove(d)  PROVE ArchivesInv'
    BY <2>10 DEF PruneRemove, Drop
  <2>11. ASSUME NEW d \in Dumps, Delete(d)  PROVE ArchivesInv'
    BY <2>11 DEF Delete
  <2>12. ASSUME NEW d \in Dumps, Replace(d)  PROVE ArchivesInv'
    BY <2>12 DEF Replace, Drop
  <2>13. ASSUME NEW d \in Dumps, Abort(d)  PROVE ArchivesInv'
    BY <2>13 DEF Abort, Drop
  <2>14. CASE Crash
    <3>1. \A d \in Dumps : pc'[d] \in {"new", "done"} /\ (pc'[d] = "new" => pc[d] = "new")
      BY <2>14 DEF Crash
    <3>2. view' = [d \in Dumps |-> {}] /\ UNCHANGED <<files, pruned, deleted>>
      BY <2>14 DEF Crash
    <3>3. Completed \subseteq Dumps
      BY DEF TypeOK
    <3> QED
      BY <3>1, <3>2, <3>3
  <2>15. CASE Reclaim
    BY <2>15 DEF Reclaim
  <2>16. CASE FailInterrupted
    BY <2>16 DEF FailInterrupted
  <2>17. CASE UNCHANGED vars
    BY <2>17 DEF vars
  <2>18. QED
    BY <2>1, <2>2, <2>3, <2>4, <2>5, <2>6, <2>7, <2>8, <2>9, <2>10, <2>11, <2>12, <2>13, <2>14, <2>15, <2>16, <2>17
    DEF Next, DumpStep, Quiescent
<1>3. QED
  BY <1>1, <1>2, BackupsTypeCorrect, UnfinishedRowsRun, PTL DEF Spec

(* An archive that is renamed and not yet recorded is not pruned (backups.rs prune
   lists the directory before it asks for the running rows). *)
THEOREM UnrecordedArchivesKept == Spec => []InFlightArchiveKept
<1>1. ArchivesInv => InFlightArchiveKept
  BY DEF ArchivesInv
<1>2. QED
  BY <1>1, PruneSparesUnrecorded, PTL

(* Success rows, live or inside an archive, belong to archives that were complete. *)
THEOREM SuccessEarned == Spec => []SuccessInv
<1>1. Init => SuccessInv
  BY DEF Init, SuccessInv, SuccessHadArchive, Statuses, Kinds, Writing, Pruning, Stages, Active, NoRows
<1>2. TypeOK /\ ArchivesInv /\ SuccessInv /\ [Next]_vars => SuccessInv'
  <2> SUFFICES ASSUME TypeOK, ArchivesInv, SuccessInv, [Next]_vars
               PROVE  SuccessInv'
    OBVIOUS
  <2>0. pc \in [Dumps -> Stages] /\ kind \in [Dumps -> Kinds] /\ jobs \in [Dumps -> Statuses]
    BY DEF TypeOK
  <2> USE <2>0 DEF SuccessInv, SuccessHadArchive, ArchivesInv, InFlightArchiveKept, Completed, Statuses, Kinds, Writing, Pruning, Stages, Active, NoRows, Goto, histVars
  <2>1. ASSUME NEW d \in Dumps, Begin(d)  PROVE SuccessInv'
    BY <2>1 DEF Begin, MayBegin, SetStatus
  <2>2. ASSUME NEW d \in Dumps, StartPgDump(d)  PROVE SuccessInv'
    BY <2>2 DEF StartPgDump
  <2>3. ASSUME NEW d \in Dumps, FinishPgDump(d)  PROVE SuccessInv'
    BY <2>3 DEF FinishPgDump
  <2>4. ASSUME NEW d \in Dumps, FailPgDump(d)  PROVE SuccessInv'
    BY <2>4 DEF FailPgDump, SetStatus
  <2>5. ASSUME NEW d \in Dumps, ReturnFailure(d)  PROVE SuccessInv'
    BY <2>5 DEF ReturnFailure, Drop
  <2>6. ASSUME NEW d \in Dumps, Rename(d)  PROVE SuccessInv'
    BY <2>6 DEF Rename
  <2>7. ASSUME NEW d \in Dumps, Record(d)  PROVE SuccessInv'
    BY <2>7 DEF Record, SetStatus
  <2>8. ASSUME NEW d \in Dumps, PruneList(d)  PROVE SuccessInv'
    BY <2>8 DEF PruneList
  <2>9. ASSUME NEW d \in Dumps, PruneQuery(d)  PROVE SuccessInv'
    BY <2>9 DEF PruneQuery, Beyond
  <2>10. ASSUME NEW d \in Dumps, PruneRemove(d)  PROVE SuccessInv'
    BY <2>10 DEF PruneRemove, Drop
  <2>11. ASSUME NEW d \in Dumps, Delete(d)  PROVE SuccessInv'
    BY <2>11 DEF Delete
  <2>12. ASSUME NEW d \in Dumps, Replace(d)  PROVE SuccessInv'
    <3>1. CASE UNCHANGED jobs
      BY <2>12, <3>1 DEF Replace, Drop, TypeOK
    <3>2. ASSUME NEW a \in Completed \ {d}, jobs' = snapshot[a]  PROVE SuccessInv'
      BY <2>12, <3>2 DEF Replace, Drop, TypeOK
    <3> QED
      BY <2>12, <3>1, <3>2 DEF Replace
  <2>13. ASSUME NEW d \in Dumps, Abort(d)  PROVE SuccessInv'
    BY <2>13 DEF Abort, Drop
  <2>14. CASE Crash
    BY <2>14 DEF Crash
  <2>15. CASE Reclaim
    BY <2>15 DEF Reclaim
  <2>16. CASE FailInterrupted
    BY <2>16 DEF FailInterrupted
  <2>17. CASE UNCHANGED vars
    BY <2>17 DEF vars
  <2>18. QED
    BY <2>1, <2>2, <2>3, <2>4, <2>5, <2>6, <2>7, <2>8, <2>9, <2>10, <2>11, <2>12, <2>13, <2>14, <2>15, <2>16, <2>17
    DEF Next, DumpStep, Quiescent
<1>3. QED
  BY <1>1, <1>2, BackupsTypeCorrect, PruneSparesUnrecorded, PTL DEF Spec

(* A job that says success had a complete archive, whatever was restored. *)
THEOREM SuccessIsTrue == Spec => []SuccessHadArchive
<1>1. SuccessInv => SuccessHadArchive
  BY DEF SuccessInv
<1>2. QED
  BY <1>1, SuccessEarned, PTL

(* Every partial file has somebody who will remove it, or a reported failure. *)
THEOREM PartialsOwned == Spec => []PartialsInv
<1>1. Init => PartialsInv
  BY DEF Init, PartialsInv, Statuses, Kinds, Writing, Pruning, Stages, Active, NoRows
<1>2. TypeOK /\ JobsInv /\ PartialsInv /\ [Next]_vars => PartialsInv'
  <2> SUFFICES ASSUME TypeOK, JobsInv, PartialsInv, [Next]_vars
               PROVE  PartialsInv'
    OBVIOUS
  <2>0. pc \in [Dumps -> Stages] /\ kind \in [Dumps -> Kinds] /\ jobs \in [Dumps -> Statuses]
    BY DEF TypeOK
  <2> USE <2>0 DEF PartialsInv, JobsInv, Statuses, Kinds, Writing, Pruning, Stages, Active, NoRows, Goto, histVars
  <2>1. ASSUME NEW d \in Dumps, Begin(d)  PROVE PartialsInv'
    BY <2>1 DEF Begin, MayBegin, SetStatus
  <2>2. ASSUME NEW d \in Dumps, StartPgDump(d)  PROVE PartialsInv'
    BY <2>2 DEF StartPgDump
  <2>3. ASSUME NEW d \in Dumps, FinishPgDump(d)  PROVE PartialsInv'
    BY <2>3 DEF FinishPgDump
  <2>4. ASSUME NEW d \in Dumps, FailPgDump(d)  PROVE PartialsInv'
    BY <2>4 DEF FailPgDump, SetStatus
  <2>5. ASSUME NEW d \in Dumps, ReturnFailure(d)  PROVE PartialsInv'
    BY <2>5 DEF ReturnFailure, Drop
  <2>6. ASSUME NEW d \in Dumps, Rename(d)  PROVE PartialsInv'
    BY <2>6 DEF Rename
  <2>7. ASSUME NEW d \in Dumps, Record(d)  PROVE PartialsInv'
    BY <2>7 DEF Record, SetStatus
  <2>8. ASSUME NEW d \in Dumps, PruneList(d)  PROVE PartialsInv'
    BY <2>8 DEF PruneList
  <2>9. ASSUME NEW d \in Dumps, PruneQuery(d)  PROVE PartialsInv'
    BY <2>9 DEF PruneQuery, Beyond
  <2>10. ASSUME NEW d \in Dumps, PruneRemove(d)  PROVE PartialsInv'
    BY <2>10 DEF PruneRemove, Drop
  <2>11. ASSUME NEW d \in Dumps, Delete(d)  PROVE PartialsInv'
    BY <2>11 DEF Delete
  <2>12. ASSUME NEW d \in Dumps, Replace(d)  PROVE PartialsInv'
    BY <2>12 DEF Replace, Drop
  <2>13. ASSUME NEW d \in Dumps, Abort(d)  PROVE PartialsInv'
    BY <2>13 DEF Abort, Drop
  <2>14. CASE Crash
    <3>1. \A d \in Dumps : ~(pc'[d] \in Writing)
      BY <2>14 DEF Crash
    <3>2. \A d \in partials : pc[d] \in Writing => d \in closed \/ jobs[d] = "running"
      BY TypeOK DEF TypeOK
    <3>3. partials' = partials /\ jobs' = jobs /\ closed' = closed /\ proc' = "down" /\ partials \subseteq Dumps
      BY <2>14 DEF Crash, TypeOK
    <3>4. proc # "down"
      BY <2>14 DEF Crash
    <3>5. \A d \in Dumps : pc'[d] # "failing"
      BY <2>14 DEF Crash
    <3> QED
      BY <3>1, <3>2, <3>3, <3>4, <3>5
  <2>15. CASE Reclaim
    BY <2>15 DEF Reclaim
  <2>16. CASE FailInterrupted
    BY <2>16 DEF FailInterrupted
  <2>17. CASE UNCHANGED vars
    BY <2>17 DEF vars
  <2>18. QED
    BY <2>1, <2>2, <2>3, <2>4, <2>5, <2>6, <2>7, <2>8, <2>9, <2>10, <2>11, <2>12, <2>13, <2>14, <2>15, <2>16, <2>17
    DEF Next, DumpStep, Quiescent
<1>3. QED
  BY <1>1, <1>2, BackupsTypeCorrect, UnfinishedRowsRun, PTL DEF Spec

(* A serving process has no partial file it will not remove, except after a
   reported failure (backups.rs initialize_backups). *)
THEOREM StartReclaimsPartials == Spec => []PartialsReclaimed
<1>1. PartialsInv => PartialsReclaimed
  BY DEF PartialsInv, PartialsReclaimed
<1>2. QED
  BY <1>1, PartialsOwned, PTL

--------------------------------------------------------------------------------
(* The archives newer than f that are there, or that an administrator deleted. *)
Newer(f) == {g \in files \cup deleted : mtime[g] > mtime[f]}

Spared(f) == Cardinality(Newer(f)) >= Retention

(* What is pruned, and what a prune is about to remove, has enough newer archives;
   no archive is of the future. *)
KeptInv ==
    /\ IsFiniteSet(Completed)
    /\ \A d \in Dumps : mtime[d] <= clock
    /\ \A f \in pruned : Spared(f)
    /\ \A p \in Dumps : pc[p] = "remove" => \A f \in view[p] : Spared(f)

(* A nonempty set of archives has one that is as new as any. *)
LEMMA NewestExists ==
    ASSUME TypeOK, \A d \in Dumps : mtime[d] <= clock,
           NEW S \in SUBSET Dumps, S # {}
    PROVE  \E g \in S : \A h \in S : ~(mtime[h] > mtime[g])
<1> DEFINE T == {clock - mtime[g] : g \in S}
<1>1. /\ \A g \in S : mtime[g] \in Nat /\ clock - mtime[g] \in Nat
      /\ clock \in Nat
  BY DEF TypeOK
<1>2. T \subseteq Nat /\ T # {}
  BY <1>1
<1>3. PICK t \in T : \A u \in T : ~(<<u, t>> \in OpToRel(<, Nat))
  BY <1>2, WFMin, NatLessThanWellFounded
<1>4. \A u \in T : ~(u < t)
  BY <1>2, <1>3 DEF OpToRel
<1>5. PICK g \in S : t = clock - mtime[g]
  OBVIOUS
<1>6. ASSUME NEW h \in S
      PROVE  ~(mtime[h] > mtime[g])
  <2>1. ~(clock - mtime[h] < clock - mtime[g])
    BY <1>4, <1>5
  <2>2. QED
    BY <1>1, <2>1
<1>7. QED
  BY <1>6

(* More archives spare no fewer. *)
LEMMA MoreSpare ==
    ASSUME NEW A, NEW B, IsFiniteSet(B), A \subseteq B, Cardinality(A) >= Retention
    PROVE  Cardinality(B) >= Retention
<1>1. IsFiniteSet(A) /\ Cardinality(A) <= Cardinality(B)
  BY FS_Subset
<1>2. Cardinality(A) \in Nat /\ Cardinality(B) \in Nat
  BY <1>1, FS_CardinalityType
<1>3. QED
  BY <1>1, <1>2, RetentionIsPositive

(* A finished archive has the time it had, and there are finitely many of them. *)
LEMMA ArchivesStay ==
    ASSUME TypeOK, ArchivesInv, KeptInv, [Next]_vars
    PROVE  /\ IsFiniteSet(Completed)'
           /\ \A d \in Dumps : mtime'[d] <= clock'
           /\ \A f \in Completed : mtime'[f] = mtime[f]
<1> USE DEF TypeOK, Goto, histVars
<1>1. ASSUME NEW d \in Dumps, FinishPgDump(d)
      PROVE  /\ Completed' = Completed
             /\ \A e \in Dumps : mtime'[e] <= clock'
             /\ \A f \in Completed : mtime'[f] = mtime[f]
  <2>1. d \notin Completed /\ Completed \subseteq Dumps
    BY <1>1 DEF FinishPgDump, ArchivesInv, Writing, Completed
  <2>2. \A e \in Dumps : mtime[e] <= clock
    BY DEF KeptInv
  <2>3. clock' = clock + 1 /\ mtime' = [mtime EXCEPT ![d] = clock + 1]
        /\ Completed' = Completed
    BY <1>1 DEF FinishPgDump, Completed
  <2>4. QED
    BY <2>1, <2>2, <2>3
<1>2. ASSUME NEW d \in Dumps, Rename(d)
      PROVE  Completed' = Completed \cup {d} /\ UNCHANGED <<mtime, clock>>
  BY <1>2 DEF Rename, Completed
<1>3. ASSUME NEW d \in Dumps, PruneRemove(d) \/ Delete(d)
      PROVE  Completed' = Completed /\ UNCHANGED <<mtime, clock>>
  BY <1>3 DEF PruneRemove, Delete, Completed
<1>4. CASE UNCHANGED <<files, pruned, deleted, mtime, clock>>
  BY <1>4 DEF KeptInv, Completed
<1>5. ASSUME NEW d \in Dumps,
             Begin(d) \/ StartPgDump(d) \/ FailPgDump(d) \/ ReturnFailure(d) \/ Record(d)
             \/ PruneList(d) \/ PruneQuery(d) \/ Replace(d) \/ Abort(d)
      PROVE  UNCHANGED <<files, pruned, deleted, mtime, clock>>
  BY <1>5 DEF Begin, StartPgDump, FailPgDump, ReturnFailure, Record, PruneList,
     PruneQuery, Replace, Abort
<1>6. CASE Crash \/ Reclaim \/ FailInterrupted \/ UNCHANGED vars
  BY <1>6, <1>4 DEF Crash, Reclaim, FailInterrupted, vars
<1>7. CASE \E d \in Dumps : Begin(d) \/ DumpStep(d) \/ Abort(d) \/ Delete(d)
  <2>1. IsFiniteSet(Completed) /\ \A d \in Dumps : mtime[d] <= clock
    BY DEF KeptInv
  <2>2. PICK d \in Dumps : Begin(d) \/ DumpStep(d) \/ Abort(d) \/ Delete(d)
    BY <1>7
  <2>3. CASE FinishPgDump(d)
    BY <2>1, <2>3, <1>1
  <2>4. CASE Rename(d)
    <3>1. IsFiniteSet(Completed \cup {d})
      BY <2>1, FS_AddElement
    <3>2. QED
      BY <2>1, <2>4, <3>1, <1>2
  <2>5. CASE PruneRemove(d) \/ Delete(d)
    BY <2>1, <2>5, <1>3
  <2>6. QED
    BY <2>2, <2>3, <2>4, <2>5, <1>4, <1>5 DEF DumpStep
<1>8. QED
  BY <1>6, <1>7 DEF Next, Quiescent

(* Unless a prune removes something, what was spared is. *)
LEMMA SparedStays ==
    ASSUME TypeOK, ArchivesInv, KeptInv, [Next]_vars,
           files \cup deleted \subseteq (files \cup deleted)',
           NEW f \in Completed, Spared(f)
    PROVE  Spared(f)'
<1>1. /\ IsFiniteSet(Completed)' /\ mtime'[f] = mtime[f]
      /\ \A g \in files \cup deleted : mtime'[g] = mtime[g]
  BY ArchivesStay DEF Completed
<1>2. Newer(f) \subseteq Newer(f)'
  BY <1>1 DEF Newer
<1>3. Newer(f)' \subseteq Completed'
  BY DEF Newer, Completed
<1>4. IsFiniteSet(Newer(f)')
  BY <1>1, <1>3, FS_Subset
<1>5. QED
  BY <1>2, <1>4, MoreSpare DEF Spared

(* Of the archives listed, those beyond the newest have enough newer ones, also when
   some of these have been pruned meanwhile: then they had enough themselves. *)
LEMMA QuerySpares ==
    ASSUME TypeOK, ArchivesInv, KeptInv, NEW d \in Dumps, PruneQuery(d), NEW f \in view'[d]
    PROVE  f \in Completed /\ Spared(f)
<1> DEFINE S == {g \in view[d] : jobs[g] # "running"}
           N == {g \in S : mtime[g] > mtime[f]}
<1>1. f \in S /\ Cardinality(N) >= Retention
  BY DEF PruneQuery, Beyond, TypeOK
<1>2. S \subseteq Completed /\ Completed \subseteq Dumps
  BY DEF ArchivesInv, Completed, TypeOK
<1>3. IsFiniteSet(Newer(f))
  <2>1. Newer(f) \subseteq Completed
    BY DEF Newer, Completed
  <2>2. QED
    BY <2>1, FS_Subset DEF KeptInv
<1>4. CASE N \cap pruned = {}
  <2>1. N \subseteq Newer(f)
    BY <1>2, <1>4 DEF Newer, Completed
  <2>2. QED
    BY <1>1, <1>2, <1>3, <2>1, MoreSpare DEF Spared
<1>5. CASE N \cap pruned # {}
  <2>1. PICK g \in N : g \in pruned
    BY <1>5
  <2>2. Spared(g)
    BY <2>1 DEF KeptInv
  <2>3. Newer(g) \subseteq Newer(f)
    <3>1. mtime[f] \in Nat /\ mtime[g] \in Nat /\ mtime[g] > mtime[f]
      BY <1>1, <1>2, <2>1 DEF TypeOK
    <3>2. \A h \in files \cup deleted : mtime[h] \in Nat
      BY DEF TypeOK
    <3>3. QED
      BY <3>1, <3>2 DEF Newer
  <2>4. QED
    BY <1>1, <1>2, <1>3, <2>2, <2>3, MoreSpare DEF Spared
<1>6. QED
  BY <1>4, <1>5

(* Of the archives newer than f that a prune removes, the newest has enough newer
   ones, which are newer than f and stay. *)
LEMMA RemovalSpares ==
    ASSUME TypeOK, ArchivesInv, KeptInv, NEW d \in Dumps, PruneRemove(d),
           NEW f \in Completed, Spared(f)
    PROVE  Spared(f)'
<1> DEFINE L == Newer(f) \cap view[d] \cap files
<1>1. /\ files' = files \ view[d] /\ deleted' = deleted /\ mtime' = mtime
      /\ pc[d] = "remove"
  BY DEF PruneRemove, Goto
<1>2. IsFiniteSet(Newer(f)')
  <2>1. Newer(f)' \subseteq Completed
    BY <1>1 DEF Newer, Completed
  <2>2. QED
    BY <2>1, FS_Subset DEF KeptInv
<1>3. f \in Dumps /\ mtime[f] \in Nat
  BY DEF Completed, TypeOK
<1>4. CASE L = {}
  <2>1. Newer(f) \subseteq Newer(f)'
    BY <1>1, <1>4 DEF Newer
  <2>2. QED
    BY <1>2, <2>1, MoreSpare DEF Spared
<1>5. CASE L # {}
  <2>1. L \in SUBSET Dumps /\ \A e \in Dumps : mtime[e] <= clock
    BY DEF TypeOK, KeptInv
  <2>2. PICK g \in L : \A h \in L : ~(mtime[h] > mtime[g])
    BY <1>5, <2>1, NewestExists
  <2>3. Spared(g)
    BY <1>1, <2>2 DEF KeptInv
  <2>4. Newer(g) \subseteq Newer(f)'
    <3> SUFFICES ASSUME NEW h \in files \cup deleted, mtime[h] > mtime[g]
                 PROVE  h \in Newer(f)'
      BY DEF Newer
    <3>1. mtime[h] \in Nat /\ mtime[g] \in Nat /\ mtime[g] > mtime[f]
      BY <2>1, <2>2 DEF TypeOK, Newer
    <3>2. mtime[h] > mtime[f]
      BY <1>3, <3>1
    <3>3. h \in Newer(f)
      BY <3>2 DEF Newer
    <3>4. h \notin view[d] \cap files
      BY <2>2, <3>3
    <3>5. QED
      BY <1>1, <3>2, <3>4 DEF Newer
  <2>5. QED
    BY <1>2, <2>3, <2>4, MoreSpare DEF Spared
<1>6. QED
  BY <1>4, <1>5

(* Whatever a step does, who was spared is, and who comes into danger is spared. *)
LEMMA StepSpares ==
    ASSUME TypeOK, ArchivesInv, KeptInv, [Next]_vars
    PROVE  KeptInv'
<1> USE DEF Goto, histVars
<1>1. /\ IsFiniteSet(Completed)'
      /\ \A d \in Dumps : mtime'[d] <= clock'
  BY ArchivesStay
<1>2. pruned \subseteq Completed /\ \A p \in Dumps : view[p] \subseteq Completed
  BY DEF Completed, ArchivesInv
<1>3. ASSUME NEW d \in Dumps, PruneRemove(d)
      PROVE  /\ \A f \in pruned' : Spared(f)'
             /\ \A p \in Dumps : pc'[p] = "remove" => \A f \in view'[p] : Spared(f)'
  <2>1. /\ pruned' \subseteq pruned \cup view[d]
        /\ pc[d] = "remove"
        /\ \A p \in Dumps : pc'[p] = "remove" => pc[p] = "remove" /\ view'[p] = view[p]
    BY <1>3 DEF PruneRemove, Drop, TypeOK
  <2>2. QED
    BY <1>2, <1>3, <2>1, RemovalSpares DEF KeptInv
<1>4. ASSUME NEW d \in Dumps, PruneQuery(d)
      PROVE  /\ \A f \in pruned' : Spared(f)'
             /\ \A p \in Dumps : pc'[p] = "remove" => \A f \in view'[p] : Spared(f)'
  <2>1. /\ UNCHANGED <<files, pruned, deleted, mtime>>
        /\ \A p \in Dumps \ {d} : pc'[p] = pc[p] /\ view'[p] = view[p]
    BY <1>4 DEF PruneQuery, TypeOK
  <2>2. \A f \in Dumps : Spared(f) => Spared(f)'
    BY <2>1 DEF Spared, Newer
  <2>3. \A f \in view'[d] : Spared(f)
    BY <1>4, QuerySpares
  <2>4. Completed \subseteq Dumps
    BY DEF Completed, TypeOK
  <2>5. \A f \in view'[d] : Spared(f)'
    BY <1>4, <2>2, <2>3, <2>4, QuerySpares
  <2>6. \A f \in pruned' : Spared(f)'
    BY <1>2, <2>1, <2>2, <2>4 DEF KeptInv
  <2>7. ASSUME NEW p \in Dumps \ {d}, pc'[p] = "remove", NEW f \in view'[p]
        PROVE  Spared(f)'
    <3>1. pc[p] = "remove" /\ f \in view[p] /\ f \in Dumps
      BY <1>2, <2>1, <2>4, <2>7
    <3>2. QED
      BY <2>2, <3>1 DEF KeptInv
  <2>8. QED
    BY <2>5, <2>6, <2>7
<1>5. ASSUME /\ pruned' = pruned
             /\ files \cup deleted \subseteq (files \cup deleted)'
             /\ \A p \in Dumps : pc'[p] = "remove" => pc[p] = "remove" /\ view'[p] = view[p]
      PROVE  /\ \A f \in pruned' : Spared(f)'
             /\ \A p \in Dumps : pc'[p] = "remove" => \A f \in view'[p] : Spared(f)'
  BY <1>2, <1>5, SparedStays DEF KeptInv
<1>6. ASSUME NEW d \in Dumps,
             Begin(d) \/ StartPgDump(d) \/ FinishPgDump(d) \/ FailPgDump(d)
             \/ ReturnFailure(d) \/ Rename(d) \/ Record(d) \/ PruneList(d) \/ Replace(d)
             \/ Abort(d) \/ Delete(d)
      PROVE  /\ pruned' = pruned
             /\ files \cup deleted \subseteq (files \cup deleted)'
             /\ \A p \in Dumps : pc'[p] = "remove" => pc[p] = "remove" /\ view'[p] = view[p]
  <2>1. pruned' = pruned /\ files \cup deleted \subseteq (files \cup deleted)'
    BY <1>6 DEF Begin, StartPgDump, FinishPgDump, FailPgDump, ReturnFailure, Rename, Record,
       PruneList, Replace, Abort, Delete
  <2>2. /\ \A p \in Dumps \ {d} : pc'[p] = pc[p] /\ view'[p] = view[p]
        /\ pc'[d] = "remove" => pc[d] = "remove" /\ view'[d] = view[d]
    BY <1>6 DEF Begin, StartPgDump, FinishPgDump, FailPgDump, ReturnFailure, Rename, Record,
       PruneList, Replace, Abort, Delete, Drop, TypeOK
  <2>3. QED
    BY <2>1, <2>2
<1>7. CASE Crash
  <2>1. pruned' = pruned /\ files' = files /\ deleted' = deleted
        /\ \A p \in Dumps : pc'[p] # "remove"
    BY <1>7 DEF Crash, Active
  <2>2. QED
    BY <2>1, <1>1, <1>5 DEF KeptInv
<1>8. CASE Reclaim \/ FailInterrupted \/ UNCHANGED vars
  <2>1. UNCHANGED <<pruned, files, deleted, pc, view>>
    BY <1>8 DEF Reclaim, FailInterrupted, vars
  <2>2. QED
    BY <2>1, <1>1, <1>5 DEF KeptInv
<1>9. CASE \E d \in Dumps : Begin(d) \/ DumpStep(d) \/ Abort(d) \/ Delete(d)
  <2>1. /\ \A f \in pruned' : Spared(f)'
        /\ \A p \in Dumps : pc'[p] = "remove" => \A f \in view'[p] : Spared(f)'
    BY <1>9, <1>3, <1>4, <1>5, <1>6 DEF DumpStep
  <2>2. QED
    BY <1>1, <2>1 DEF KeptInv
<1>10. QED
  BY <1>7, <1>8, <1>9 DEF Next, Quiescent

(* However prunes, dumps, restores and crashes interleave, an archive is pruned only
   if enough newer ones are kept or were deleted by hand (backups.rs prune). *)
THEOREM NewestKept == Spec => []NewestArchivesKept
<1>1. Init => KeptInv
  BY FS_EmptySet DEF Init, KeptInv, Completed
<1>2. TypeOK /\ ArchivesInv /\ KeptInv /\ [Next]_vars => KeptInv'
  BY StepSpares
<1>3. KeptInv => NewestArchivesKept
  BY DEF KeptInv, NewestArchivesKept, Spared, Newer
<1>4. QED
  BY <1>1, <1>2, <1>3, BackupsTypeCorrect, PruneSparesUnrecorded, PTL DEF Spec

================================================================================
