---------------------------- MODULE InventoryProofs ----------------------------
(***************************************************************************)
(* What Inventory promises for any number of VMs, requests and disks:      *)
(*   TypeOK            types, with Placed, what a request has at each      *)
(*                     stage;                                              *)
(*   RowLocksExclude   no two requests hold the row of a VM;               *)
(*   NoWriteIsLost     the fields hold what was last asked for: inductive  *)
(*                     with Based, which says that the row an edit has     *)
(*                     written is the committed one with its own fields,   *)
(*                     and with RowLocksExclude, which keeps that true;    *)
(*   ScoreIsCurrent    the score says what is so: by CountsCurrent, which  *)
(*                     says that what a snapshot has counted is still so   *)
(*                     at the commit, for those who could change it are    *)
(*                     excluded by the row's lock or told of in crossed;   *)
(*   BulkReportIsTrue  a report names every VM selected: by Progresses;    *)
(*   LogAccountsForRow the log tells the history of a field: from all of   *)
(*                     the above but the score.                            *)
(***************************************************************************)
EXTENDS Inventory, TLAPS

(* A request at work is at a VM; the tag it mixes in is a tag; a disk is inserted
   or deleted on its own by the handlers for that. *)
Placed ==
    \A r \in Requests :
        /\ pc[r] \notin {"new", "picking", "end"} => at[r] \in Vms
        /\ pc[r] = "mixing" => tag[r] \in Tags
        /\ pc[r] = "inserting" => kind[r] = "attach"
        /\ pc[r] = "detaching" => kind[r] = "detach"

Holding == {"clearing", "scoring", "settling"}

(* The row an edit has written differs from the committed one only in the
   fields of its payload. *)
Based ==
    \A r \in Requests :
        (Writes(r) /\ pc[r] \in Holding) =>
            mine[r] = Apply(payload[r], row[at[r]])

--------------------------------------------------------------------------------
(* The fields of a payload and a row make a row. *)
LEMMA AppliedIsRow ==
    ASSUME NEW p \in Payloads, NEW values \in Values
    PROVE  Apply(p, values) \in Values
<1>1. "owner" \in Names(p) => p.owner \in Owners
  BY DEF Payloads, Names, Fields
<1>2. "tags" \in Names(p) => p.tags \in SUBSET Tags
  BY DEF Payloads, Names, Fields
<1>3. values.owner \in Owners /\ values.tags \in SUBSET Tags
  BY DEF Values
<1>4. QED
  BY <1>1, <1>2, <1>3 DEF Values, Apply

(* A sequence of one entry is a sequence of entries, and so is one after another. *)
LEMMA EntrySequences ==
    /\ <<>> \in Seq(Entry)
    /\ \A e \in Entry : <<e>> \in Seq(Entry)
    /\ \A s, t \in Seq(Entry) : s \o t \in Seq(Entry)
  OBVIOUS

(* What audit writes are entries of the log. *)
LEMMA EntriesTyped ==
    ASSUME TypeOK, NEW r \in Requests, NEW f \in Fields
    PROVE  Entries(r, f) \in Seq(Entry)
<1>1. seen[r] \in Values /\ mine[r] \in Values
  BY DEF TypeOK
<1>2. [who |-> r, old |-> seen[r][f], new |-> mine[r][f]] \in Entry
  BY <1>1 DEF Entry, Values, Fields
<1>3. QED
  BY <1>2, EntrySequences DEF Entries

(* A request that waits is at a statement. *)
LEMMA WaitersWork ==
    ASSUME NEW r \in Requests, InCycle(r)
    PROVE  pc[r] \notin {"new", "picking", "end", "mixing"}
  BY DEF InCycle, IsFree, WaitsFor

--------------------------------------------------------------------------------
(* A request that answers, or goes on with its next VM, keeps its place. *)
LEMMA FinishesTyped ==
    ASSUME TypeOK, Placed, NEW r \in Requests, NEW a \in Answers,
           Answer(r, a) \/ Finishes(r, a), UNCHANGED <<kind, tag>>
    PROVE  /\ pc' \in [Requests -> Stages] /\ answer' \in [Requests -> Answers]
           /\ at' \in [Requests -> Vms \cup {NoVm}]
           /\ Placed'
<1>1. /\ pc \in [Requests -> Stages] /\ answer \in [Requests -> Answers]
      /\ at \in [Requests -> Vms \cup {NoVm}]
  BY DEF TypeOK
<1>2. CASE Answer(r, a)
  BY <1>1, <1>2 DEF Answer, Placed, Stages
<1>3. CASE ~Answer(r, a)
  <2>1. pc' = [pc EXCEPT ![r] = "picking"] /\ at' = [at EXCEPT ![r] = NoVm]
        /\ answer' = answer
    BY <1>3 DEF Finishes
  <2>2. QED
    BY <1>1, <2>1 DEF Placed, Stages
<1>4. QED
  BY <1>2, <1>3

(* A rollback keeps the variables' types. *)
LEMMA FailTyped ==
    ASSUME TypeOK, Placed, NEW r \in Requests, Fail(r), at[r] \in Vms
    PROVE  TypeOK' /\ Placed'
<1> USE DEF TypeOK, Fail
<1>1. /\ seen' \in [Requests -> Values] /\ mine' \in [Requests -> Values]
      /\ made' \in [Requests -> SUBSET DiskIds] /\ gone' \in [Requests -> SUBSET DiskIds]
      /\ counted' \in [Requests -> BOOLEAN]
  BY SentinelsAreNew DEF ForgetTxn, Blank, Values
<1>2. /\ pc' \in [Requests -> Stages] /\ answer' \in [Requests -> Answers]
      /\ at' \in [Requests -> Vms \cup {NoVm}]
      /\ Placed'
  <2>1. "error" \in Answers
    BY DEF Answers
  <2>2. QED
    BY <2>1, FinishesTyped
<1>3. failed' \in [Requests -> SUBSET Vms]
  OBVIOUS
<1>4. QED
  BY <1>1, <1>2, <1>3 DEF tables, history

(* Every step keeps the variables' types and the places of the requests. *)
LEMMA StepTyped ==
    ASSUME TypeOK, Placed, [Next]_vars
    PROVE  TypeOK' /\ Placed'
<1> USE DEF TypeOK, Placed, Goto, Starts, tables, txn, report, history, Stages, Kinds, Answers
<1>1. ASSUME NEW r \in Requests, EditStarts(r)  PROVE TypeOK' /\ Placed'
  BY <1>1, EditsArePayloads DEF EditStarts
<1>2. ASSUME NEW r \in Requests, BulkStarts(r)  PROVE TypeOK' /\ Placed'
  BY <1>2, EditsArePayloads DEF BulkStarts
<1>3. ASSUME NEW r \in Requests, PickNext(r)  PROVE TypeOK' /\ Placed'
  BY <1>3 DEF PickNext
<1>4. ASSUME NEW r \in Requests, BulkAnswers(r)  PROVE TypeOK' /\ Placed'
  BY <1>4 DEF BulkAnswers, Answer
<1>5. ASSUME NEW r \in Requests, MixTags(r)  PROVE TypeOK' /\ Placed'
  <2>1. CASE at[r] \in present
    <3>1. [payload EXCEPT ![r].tags = row[at[r]].tags \cup {tag[r]}] \in [Requests -> Payloads]
      <4>1. /\ row[at[r]].tags \cup {tag[r]} \in SUBSET Tags
            /\ payload[r] \in Payloads
        BY <1>5, <2>1 DEF MixTags, Values
      <4>2. [payload[r] EXCEPT !.tags = row[at[r]].tags \cup {tag[r]}] \in Payloads
        BY <4>1 DEF Payloads
      <4>3. QED
        BY <4>2
    <3>2. QED
      BY <1>5, <2>1, <3>1 DEF MixTags
  <2>2. CASE at[r] \notin present
    <3>1. Answer(r, "error") /\ UNCHANGED payload
      BY <1>5, <2>2 DEF MixTags
    <3>2. pc' \in [Requests -> Stages] /\ answer' \in [Requests -> Answers]
          /\ at' \in [Requests -> Vms \cup {NoVm}] /\ Placed'
      BY <1>5, <3>1, FinishesTyped DEF MixTags
    <3>3. QED
      BY <1>5, <3>1, <3>2 DEF MixTags
  <2>3. QED
    BY <2>1, <2>2
<1>6. ASSUME NEW r \in Requests, ReadRow(r)  PROVE TypeOK' /\ Placed'
  BY <1>6 DEF ReadRow
<1>7. ASSUME NEW r \in Requests, WriteRow(r)  PROVE TypeOK' /\ Placed'
  <2>1. Apply(payload[r], row[at[r]]) \in Values
    BY <1>7, AppliedIsRow DEF WriteRow
  <2>2. QED
    BY <1>7, <2>1 DEF WriteRow
<1>8. ASSUME NEW r \in Requests, ReplaceDisks(r)  PROVE TypeOK' /\ Placed'
  BY <1>8 DEF ReplaceDisks, CrossedBy, DiskIds
<1>9. ASSUME NEW r \in Requests, EditFails(r)  PROVE TypeOK' /\ Placed'
  <2>1. Fail(r) /\ at[r] \in Vms
    BY <1>9 DEF EditFails
  <2>2. QED
    BY <2>1, FailTyped
<1>10. ASSUME NEW r \in Requests, CountChildren(r)  PROVE TypeOK' /\ Placed'
  BY <1>10 DEF CountChildren
<1>11. ASSUME NEW r \in Requests, CommitEdit(r)  PROVE TypeOK' /\ Placed'
  <2>1. at[r] \in Vms
    BY <1>11 DEF CommitEdit
  <2>2. log' \in [Vms -> [Fields -> Seq(Entry)]]
    <3>1. \A f \in Fields : log[at[r]][f] \o Entries(r, f) \in Seq(Entry)
      BY <2>1, EntriesTyped, EntrySequences
    <3>2. [f \in Fields |-> log[at[r]][f] \o Entries(r, f)] \in [Fields -> Seq(Entry)]
      BY <3>1
    <3>3. QED
      BY <1>11, <2>1, <3>2 DEF CommitEdit
  <2>3. written' \in [Vms -> Values]
    <3>1. Apply(payload[r], written[at[r]]) \in Values
      BY <2>1, AppliedIsRow
    <3>2. QED
      BY <1>11, <2>1, <3>1 DEF CommitEdit
  <2>4. score' \in [Vms -> SUBSET Facts] /\ disks' \in [Vms -> SUBSET DiskIds]
    BY <1>11, <2>1 DEF CommitEdit, OwnerFact, DiskFact, Facts, DisksSeenBy
  <2>5. /\ seen' \in [Requests -> Values] /\ mine' \in [Requests -> Values]
        /\ made' \in [Requests -> SUBSET DiskIds] /\ gone' \in [Requests -> SUBSET DiskIds]
        /\ counted' \in [Requests -> BOOLEAN]
    BY <1>11, SentinelsAreNew DEF CommitEdit, ForgetTxn, Blank, Values
  <2>6. /\ pc' \in [Requests -> Stages] /\ answer' \in [Requests -> Answers]
        /\ at' \in [Requests -> Vms \cup {NoVm}]
        /\ Placed'
    <3>1. Finishes(r, "done") /\ UNCHANGED <<kind, tag>>
      BY <1>11 DEF CommitEdit
    <3>2. QED
      BY <3>1, FinishesTyped
  <2>7. row' \in [Vms -> Values] /\ raced' \subseteq Vms
        /\ updated' \in [Requests -> SUBSET Vms]
    BY <1>11, <2>1 DEF CommitEdit
  <2>8. UNCHANGED <<present, kind, todo, payload, tag, disk, failed, chosen, first, crossed>>
    BY <1>11 DEF CommitEdit
  <2>9. QED
    BY <2>2, <2>3, <2>4, <2>5, <2>6, <2>7, <2>8
<1>12. ASSUME NEW r \in Requests, AttachStarts(r)  PROVE TypeOK' /\ Placed'
  BY <1>12 DEF AttachStarts
<1>13. ASSUME NEW r \in Requests, InsertDisk(r)  PROVE TypeOK' /\ Placed'
  BY <1>13 DEF InsertDisk, CrossedBy, DiskIds
<1>14. ASSUME NEW r \in Requests, InsertFails(r)  PROVE TypeOK' /\ Placed'
  <2>1. Fail(r) /\ at[r] \in Vms
    BY <1>14 DEF InsertFails
  <2>2. QED
    BY <2>1, FailTyped
<1>15. ASSUME NEW r \in Requests, DetachStarts(r)  PROVE TypeOK' /\ Placed'
  BY <1>15 DEF DetachStarts
<1>16. ASSUME NEW r \in Requests, DeleteDisk(r)  PROVE TypeOK' /\ Placed'
  BY <1>16 DEF DeleteDisk, CrossedBy
<1>17. ASSUME NEW r \in Requests, CommitChild(r)  PROVE TypeOK' /\ Placed'
  <2>1. at[r] \in Vms
    BY <1>17 DEF CommitChild
  <2>2. score' \in [Vms -> SUBSET Facts] /\ disks' \in [Vms -> SUBSET DiskIds]
    BY <1>17, <2>1 DEF CommitChild, OwnerFact, DiskFact, Facts, DisksSeenBy
  <2>3. QED
    BY <1>17, <2>1, <2>2, SentinelsAreNew DEF CommitChild, ForgetTxn, Answer, Blank, Values
<1>18. ASSUME NEW r \in Requests, RemoveStarts(r)  PROVE TypeOK' /\ Placed'
  BY <1>18 DEF RemoveStarts
<1>19. ASSUME NEW r \in Requests, DeleteRow(r)  PROVE TypeOK' /\ Placed'
  <2>1. CASE at[r] \in present
    BY <1>19, <2>1 DEF DeleteRow
  <2>2. CASE at[r] \notin present
    <3>1. Answer(r, "done")
      BY <1>19, <2>2 DEF DeleteRow
    <3>2. pc' \in [Requests -> Stages] /\ answer' \in [Requests -> Answers]
          /\ at' \in [Requests -> Vms \cup {NoVm}] /\ Placed'
      BY <1>19, <3>1, FinishesTyped DEF DeleteRow
    <3>3. QED
      BY <1>19, <3>2 DEF DeleteRow
  <2>3. QED
    BY <2>1, <2>2
<1>20. ASSUME NEW r \in Requests, CommitRemoval(r)  PROVE TypeOK' /\ Placed'
  <2>1. NoEntries \in [Fields -> Seq(Entry)]
    BY EntrySequences DEF NoEntries
  <2>2. QED
    BY <1>20, <2>1 DEF CommitRemoval, Answer
<1>21. ASSUME NEW r \in Requests, DeadlockVictim(r)  PROVE TypeOK' /\ Placed'
  <2>1. Fail(r) /\ at[r] \in Vms
    BY <1>21, WaitersWork DEF DeadlockVictim
  <2>2. QED
    BY <2>1, FailTyped
<1>22. ASSUME NEW r \in Requests, Dropped(r)  PROVE TypeOK' /\ Placed'
  BY <1>22, SentinelsAreNew DEF Dropped, ForgetTxn, Answer, Blank, Values
<1>23. CASE UNCHANGED vars
  BY <1>23 DEF vars
<1>24. QED
  BY <1>1, <1>2, <1>3, <1>4, <1>5, <1>6, <1>7, <1>8, <1>9, <1>10, <1>11, <1>12, <1>13,
     <1>14, <1>15, <1>16, <1>17, <1>18, <1>19, <1>20, <1>21, <1>22, <1>23
     DEF Next, Begins, Step, Finished

(* The initial state is well typed. *)
LEMMA InitTyped ==
    ASSUME Init
    PROVE  TypeOK /\ Placed
<1>1. NoEntries \in [Fields -> Seq(Entry)]
  BY EntrySequences DEF NoEntries
<1>2. Blank \in Values /\ NoPayload \in Payloads
  BY SentinelsAreNew DEF Blank, Values, NoPayload, Payloads
<1>3. disks \in [Vms -> SUBSET DiskIds]
  BY DEF Init, DiskIds
<1>4. score \in [Vms -> SUBSET Facts]
  BY <1>3 DEF Init, DiskFact, Facts
<1>5. QED
  BY <1>1, <1>2, <1>3, <1>4 DEF Init, TypeOK, Placed, Kinds, Stages, Answers

(* Every reachable state is well typed. *)
THEOREM InventoryTypeCorrect == Spec => []TypeOK
<1>1. Init => TypeOK /\ Placed
  BY InitTyped
<1>2. (TypeOK /\ Placed) /\ [Next]_vars => (TypeOK /\ Placed)'
  BY StepTyped
<1>3. QED
  BY <1>1, <1>2, PTL DEF Spec

--------------------------------------------------------------------------------
(* Nobody but r moves, and r comes to hold no row that another holds. *)
LEMMA OneMoves ==
    ASSUME RowLocksExclude, NEW r \in Requests,
           \A q \in Requests \ {r}, v \in Vms : HoldsRow(q, v)' <=> HoldsRow(q, v),
           \A v \in Vms : HoldsRow(r, v)' =>
                \/ HoldsRow(r, v)
                \/ \A q \in Requests \ {r} : ~HoldsRow(q, v)
    PROVE  RowLocksExclude'
<1> SUFFICES ASSUME NEW v \in Vms, NEW p \in Requests, NEW q \in Requests,
                    HoldsRow(p, v)', HoldsRow(q, v)', p # q
             PROVE  FALSE
  BY DEF RowLocksExclude
<1>1. CASE p # r /\ q # r
  BY <1>1 DEF RowLocksExclude
<1>2. CASE p = r
  BY <1>2 DEF RowLocksExclude
<1>3. CASE q = r
  BY <1>3 DEF RowLocksExclude
<1>4. QED
  BY <1>1, <1>2, <1>3

(* A request that starts, rolls back or ends, or goes on to its next VM, holds
   no row; one that comes to hold a row has found it free. *)
LEMMA StepExcludes ==
    ASSUME TypeOK, Placed, RowLocksExclude, [Next]_vars
    PROVE  RowLocksExclude'
<1> USE DEF TypeOK
<1>1. ASSUME NEW r \in Requests, Begins(r) \/ Step(r) \/ Dropped(r)
      PROVE  \A q \in Requests \ {r}, v \in Vms : HoldsRow(q, v)' <=> HoldsRow(q, v)
  <2>1. \A q \in Requests \ {r} : pc'[q] = pc[q] /\ at'[q] = at[q] /\ kind'[q] = kind[q]
    BY <1>1 DEF Begins, Step, Starts, Goto, Finishes, Answer, Fail, EditStarts, BulkStarts,
       AttachStarts, DetachStarts, RemoveStarts, PickNext, BulkAnswers, MixTags, ReadRow,
       WriteRow, ReplaceDisks, EditFails, CountChildren, CommitEdit, InsertDisk, InsertFails,
       DeleteDisk, CommitChild, DeleteRow, CommitRemoval, DeadlockVictim, Dropped
  <2>2. QED
    BY <2>1 DEF HoldsRow, Writes
<1>2. ASSUME NEW r \in Requests,
             \/ Begins(r) \/ PickNext(r) \/ BulkAnswers(r) \/ MixTags(r) \/ ReadRow(r)
             \/ EditFails(r) \/ CommitEdit(r) \/ InsertDisk(r) \/ InsertFails(r)
             \/ DeleteDisk(r) \/ CommitChild(r) \/ CommitRemoval(r) \/ DeadlockVictim(r)
             \/ Dropped(r)
      PROVE  \A v \in Vms : ~HoldsRow(r, v)'
  <2>1. \/ pc'[r] \notin {"clearing", "scoring", "settling", "cascading"}
        \/ kind'[r] \in {"attach", "detach"}
    BY <1>2
    DEF Begins, Starts, Goto, Finishes, Answer, Fail, EditStarts, BulkStarts,
       AttachStarts, DetachStarts, RemoveStarts, PickNext, BulkAnswers, MixTags, ReadRow,
       EditFails, CommitEdit, InsertDisk, InsertFails,
       DeleteDisk, CommitChild, CommitRemoval, DeadlockVictim, Dropped, Placed
  <2>2. QED
    BY <2>1 DEF HoldsRow, Writes
<1>3. ASSUME NEW r \in Requests, WriteRow(r) \/ DeleteRow(r)
      PROVE  \A v \in Vms : HoldsRow(r, v)' =>
                \A q \in Requests \ {r} : ~HoldsRow(q, v)
  <2>1. \A v \in Vms : HoldsRow(r, v)' => v = at[r]
    BY <1>3 DEF HoldsRow, WriteRow, DeleteRow, Answer
  <2>2. \A q \in Requests \ {r} : ~HoldsRow(q, at[r])
    BY <1>3 DEF WriteRow, DeleteRow, IsFree, WaitsFor, RowHolders
  <2>3. QED
    BY <2>1, <2>2
<1>4. ASSUME NEW r \in Requests, ReplaceDisks(r) \/ CountChildren(r)
      PROVE  \A v \in Vms : HoldsRow(r, v)' => HoldsRow(r, v)
  BY <1>4 DEF ReplaceDisks, CountChildren, Goto, HoldsRow, Writes
<1>5. CASE \E r \in Requests : Begins(r) \/ Step(r) \/ Dropped(r)
  <2>1. PICK r \in Requests : Begins(r) \/ Step(r) \/ Dropped(r)
    BY <1>5
  <2>2. \A v \in Vms : HoldsRow(r, v)' =>
            \/ HoldsRow(r, v)
            \/ \A q \in Requests \ {r} : ~HoldsRow(q, v)
    BY <2>1, <1>2, <1>3, <1>4 DEF Step
  <2>3. QED
    BY <2>1, <2>2, <1>1, OneMoves
<1>6. CASE UNCHANGED vars
  BY <1>6 DEF vars, RowLocksExclude, HoldsRow, Writes
<1>7. QED
  BY <1>5, <1>6 DEF Next, Finished

--------------------------------------------------------------------------------
NothingLost == TypeOK /\ Placed /\ RowLocksExclude /\ Based /\ NoWriteIsLost

(* Taking a payload over a row is the same wherever the row came from. *)
LEMMA StepLosesNothing ==
    ASSUME NothingLost, [Next]_vars
    PROVE  Based' /\ NoWriteIsLost'
<1> USE DEF NothingLost, TypeOK
<1>1. ASSUME NEW r \in Requests, WriteRow(r)
      PROVE  Based' /\ NoWriteIsLost'
  BY <1>1 DEF WriteRow, Based, NoWriteIsLost, tables, history, Writes, Holding
<1>2. ASSUME NEW r \in Requests, CommitEdit(r)
      PROVE  Based' /\ NoWriteIsLost'
  <2>1. /\ at[r] \in Vms /\ HoldsRow(r, at[r])
        /\ mine[r] = Apply(payload[r], row[at[r]])
        /\ pc'[r] \notin Holding
    BY <1>2 DEF CommitEdit, Placed, HoldsRow, Based, Writes, Holding, Finishes, Answer
  <2>2. ASSUME NEW q \in Requests \ {r}, (Writes(q) /\ pc[q] \in Holding)'
        PROVE  mine'[q] = Apply(payload[q], row[at[q]])' /\ at'[q] = at[q]
    <3>1. /\ pc'[q] = pc[q] /\ at'[q] = at[q] /\ mine'[q] = mine[q]
          /\ kind' = kind /\ payload' = payload
      BY <1>2 DEF CommitEdit, Finishes, Answer, ForgetTxn
    <3>2. /\ HoldsRow(q, at[q]) /\ at[q] \in Vms
          /\ mine[q] = Apply(payload[q], row[at[q]])
      BY <2>2, <3>1 DEF Placed, HoldsRow, Based, Writes, Holding
    <3>3. at[q] # at[r]
      BY <2>1, <3>2 DEF RowLocksExclude
    <3>4. row'[at[q]] = row[at[q]]
      BY <1>2, <3>3, <3>2, <2>1 DEF CommitEdit
    <3>5. QED
      BY <3>1, <3>2, <3>4 DEF Apply, Names
  <2>3. Based'
    BY <2>1, <2>2 DEF Based
  <2>4. NoWriteIsLost'
    BY <1>2, <2>1 DEF CommitEdit, NoWriteIsLost
  <2>5. QED
    BY <2>3, <2>4
<1>3. ASSUME NEW r \in Requests,
             \/ Begins(r) \/ PickNext(r) \/ BulkAnswers(r) \/ MixTags(r) \/ ReadRow(r)
             \/ EditFails(r) \/ InsertDisk(r) \/ InsertFails(r)
             \/ DeleteDisk(r) \/ CommitChild(r) \/ DeleteRow(r) \/ CommitRemoval(r)
             \/ DeadlockVictim(r) \/ Dropped(r)
      PROVE  Based' /\ NoWriteIsLost'
  <2>1. /\ row' = row /\ written' = written
        /\ \A q \in Requests \ {r} :
            /\ pc'[q] = pc[q] /\ at'[q] = at[q] /\ kind'[q] = kind[q]
            /\ mine'[q] = mine[q] /\ payload'[q] = payload[q]
    BY <1>3 DEF Begins, Starts, Goto, Finishes, Answer, Fail, ForgetTxn, EditStarts, BulkStarts,
       AttachStarts, DetachStarts, RemoveStarts, PickNext, BulkAnswers, MixTags, ReadRow,
       EditFails, InsertDisk, InsertFails, DeleteRow,
       DeleteDisk, CommitChild, CommitRemoval, DeadlockVictim, Dropped, tables, history, txn
  <2>2. ~(Writes(r) /\ pc[r] \in Holding)'
    BY <1>3 DEF Begins, Starts, Goto, Finishes, Answer, Fail, EditStarts, BulkStarts,
       AttachStarts, DetachStarts, RemoveStarts, PickNext, BulkAnswers, MixTags, ReadRow,
       EditFails, InsertDisk, InsertFails, DeleteRow,
       DeleteDisk, CommitChild, CommitRemoval, DeadlockVictim, Dropped, Writes, Holding, Placed
  <2>3. Based'
    BY <2>1, <2>2 DEF Based, Writes
  <2>4. QED
    BY <2>1, <2>3 DEF NoWriteIsLost
<1>4. ASSUME NEW r \in Requests, ReplaceDisks(r) \/ CountChildren(r)
      PROVE  Based' /\ NoWriteIsLost'
  <2>1. /\ row' = row /\ written' = written /\ at' = at /\ kind' = kind
        /\ mine' = mine /\ payload' = payload
        /\ \A q \in Requests : pc'[q] \in Holding => pc[q] \in Holding
    BY <1>4 DEF ReplaceDisks, CountChildren, Goto, tables, history, Holding
  <2>2. QED
    BY <2>1 DEF Based, Writes, NoWriteIsLost
<1>5. CASE UNCHANGED vars
  BY <1>5 DEF vars, Based, Writes, NoWriteIsLost
<1>6. QED
  BY <1>1, <1>2, <1>3, <1>4, <1>5 DEF Next, Step, Finished

(* No committed write of a field is undone by somebody who did not name it,
   whatever the order in which requests read and wait (mutate_vm and write). *)
THEOREM InventoryLosesNothing == Spec => []NoWriteIsLost
<1>1. Init => NothingLost
  <2> SUFFICES ASSUME Init PROVE NothingLost
    OBVIOUS
  <2>1. RowLocksExclude /\ Based /\ NoWriteIsLost
    BY DEF Init, RowLocksExclude, HoldsRow, Based, Holding, NoWriteIsLost
  <2>2. QED
    BY <2>1, InitTyped DEF NothingLost
<1>2. NothingLost /\ [Next]_vars => NothingLost'
  BY StepTyped, StepExcludes, StepLosesNothing DEF NothingLost
<1>3. NothingLost => NoWriteIsLost
  BY DEF NothingLost
<1>4. QED
  BY <1>1, <1>2, <1>3, PTL DEF Spec

--------------------------------------------------------------------------------
(* Nobody but r moves. *)
OnlyMoves(r) ==
    \A q \in Requests \ {r} :
        /\ pc'[q] = pc[q] /\ at'[q] = at[q] /\ kind'[q] = kind[q]
        /\ todo'[q] = todo[q] /\ payload'[q] = payload[q] /\ chosen'[q] = chosen[q]
        /\ mine'[q] = mine[q] /\ made'[q] = made[q] /\ gone'[q] = gone[q]
        /\ counted'[q] = counted[q] /\ answer'[q] = answer[q]
        /\ updated'[q] = updated[q] /\ failed'[q] = failed[q]

(* What a step does to the table of requests it does to one of them. *)
LEMMA OthersStay ==
    ASSUME TypeOK, NEW r \in Requests, Begins(r) \/ Step(r) \/ Dropped(r)
    PROVE  OnlyMoves(r)
<1> USE DEF TypeOK, OnlyMoves, txn, report, history
<1>1. CASE Begins(r)
  BY <1>1 DEF Begins, Starts, Goto, EditStarts, BulkStarts, AttachStarts, DetachStarts,
     RemoveStarts
<1>2. CASE Fail(r)
  BY <1>2 DEF Fail, ForgetTxn, Finishes, Answer
<1>3. CASE PickNext(r) \/ BulkAnswers(r) \/ MixTags(r) \/ DeleteRow(r) \/ CommitRemoval(r)
  BY <1>3 DEF PickNext, BulkAnswers, MixTags, DeleteRow, CommitRemoval, Answer
<1>4. CASE ReadRow(r) \/ WriteRow(r) \/ ReplaceDisks(r) \/ CountChildren(r)
           \/ InsertDisk(r) \/ DeleteDisk(r)
  BY <1>4 DEF ReadRow, WriteRow, ReplaceDisks, CountChildren, InsertDisk, DeleteDisk, Goto
<1>5. CASE CommitEdit(r) \/ CommitChild(r)
  BY <1>5 DEF CommitEdit, CommitChild, ForgetTxn, Finishes, Answer
<1>6. CASE Dropped(r)
  BY <1>6 DEF Dropped, ForgetTxn, Answer
<1>7. QED
  BY <1>1, <1>2, <1>3, <1>4, <1>5, <1>6
     DEF Step, EditFails, InsertFails, DeadlockVictim

(* Which handlers come to which stages, and what they come there for. *)
Staged ==
    \A r \in Requests :
        /\ pc[r] \in {"writing", "clearing"} => Writes(r)
        /\ pc[r] = "clearing" => payload[r].disks # "kept"
        /\ pc[r] \in {"scoring", "settling"} => kind[r] # "remove"
        /\ kind[r] = "bulk" => payload[r].disks = "kept"

(* r has changed disks and not committed. *)
Changing(r) ==
    /\ pc[r] \in {"scoring", "settling"}
    /\ kind[r] \in {"attach", "detach"} \/ payload[r].disks # "kept"

(* Of two requests that change the disks of a VM at a time, history tells. *)
ChangersCross ==
    \A q, r \in Requests :
        (q # r /\ Changing(q) /\ Changing(r) /\ at[q] = at[r]) => at[r] \in crossed

(* Only those that change disks have some inserted or deleted. *)
ChangersHold ==
    \A r \in Requests : ~Changing(r) => (gone[r] = {} /\ made[r] = {})

(* What a snapshot has counted is still so when its request comes to commit. *)
CountsCurrent ==
    \A r \in Requests :
        (pc[r] = "settling" /\ at[r] \in present \ crossed) =>
            (counted[r] <=> DisksSeenBy(r, at[r]) # {})

ScoreInv ==
    /\ TypeOK /\ Placed /\ RowLocksExclude /\ Staged
    /\ ChangersCross /\ ChangersHold /\ CountsCurrent /\ ScoreIsCurrent

(* Requests keep to their stages. *)
LEMMA StepStaged ==
    ASSUME TypeOK, Placed, Staged, [Next]_vars
    PROVE  Staged'
<1> USE DEF TypeOK, Staged, Writes
<1>1. ASSUME NEW r \in Requests, Begins(r) \/ Step(r) \/ Dropped(r)
      PROVE  /\ pc'[r] \in {"writing", "clearing"} => Writes(r)'
             /\ pc'[r] = "clearing" => payload'[r].disks # "kept"
             /\ pc'[r] \in {"scoring", "settling"} => kind'[r] # "remove"
             /\ kind'[r] = "bulk" => payload'[r].disks = "kept"
  <2>1. CASE Begins(r)
    BY <2>1 DEF Begins, Starts, Goto, EditStarts, BulkStarts, AttachStarts, DetachStarts,
       RemoveStarts
  <2>2. CASE Fail(r) \/ Dropped(r)
    BY <2>2 DEF Fail, Dropped, Finishes, Answer
  <2>3. CASE MixTags(r)
    <3>1. payload'[r].disks = payload[r].disks /\ kind' = kind
          /\ pc'[r] \in {"reading", "end"}
      BY <2>3 DEF MixTags, Answer, Payloads
    <3>2. QED
      BY <3>1
  <2>4. CASE PickNext(r) \/ BulkAnswers(r) \/ DeleteRow(r) \/ CommitRemoval(r)
    BY <2>4 DEF PickNext, BulkAnswers, DeleteRow, CommitRemoval, Answer
  <2>5. CASE ReadRow(r) \/ WriteRow(r) \/ ReplaceDisks(r) \/ CountChildren(r)
             \/ InsertDisk(r) \/ DeleteDisk(r)
    BY <2>5 DEF Placed, ReadRow, WriteRow, ReplaceDisks, CountChildren, InsertDisk,
       DeleteDisk, Goto
  <2>6. CASE CommitEdit(r) \/ CommitChild(r)
    BY <2>6 DEF CommitEdit, CommitChild, Finishes, Answer
  <2>7. QED
    BY <1>1, <2>1, <2>2, <2>3, <2>4, <2>5, <2>6
       DEF Step, EditFails, InsertFails, DeadlockVictim
<1>2. CASE \E r \in Requests : Begins(r) \/ Step(r) \/ Dropped(r)
  <2>1. PICK r \in Requests : Begins(r) \/ Step(r) \/ Dropped(r)
    BY <1>2
  <2>2. OnlyMoves(r)
    BY <2>1, OthersStay
  <2>3. QED
    BY <1>1, <2>1, <2>2 DEF OnlyMoves
<1>3. CASE UNCHANGED vars
  BY <1>3 DEF vars
<1>4. QED
  BY <1>2, <1>3 DEF Next, Finished

(* A step of a request that afterwards has no disks changed and is not about to
   commit, and that touches at most the tables of a VM it deletes. *)
LEMMA QuietSteps ==
    ASSUME ScoreInv, NEW r \in Requests, OnlyMoves(r),
           pc'[r] # "settling", ~Changing(r)', gone'[r] = {}, made'[r] = {},
           crossed' = crossed, present' \subseteq present,
           \A v \in present' :
                row'[v] = row[v] /\ score'[v] = score[v] /\ disks'[v] = disks[v]
    PROVE  (ChangersCross /\ ChangersHold /\ CountsCurrent /\ ScoreIsCurrent)'
<1> USE DEF ScoreInv, OnlyMoves
<1>1. \A q \in Requests \ {r} : Changing(q)' <=> Changing(q)
  BY DEF Changing
<1>2. ChangersCross'
  BY <1>1 DEF ChangersCross
<1>3. ChangersHold'
  BY <1>1 DEF ChangersHold
<1>4. CountsCurrent'
  BY DEF CountsCurrent, DisksSeenBy
<1>5. ScoreIsCurrent'
  BY DEF ScoreIsCurrent
<1>6. QED
  BY <1>2, <1>3, <1>4, <1>5

(* A request that changes disks at a VM where another has, crosses it. *)
LEMMA ChangeSteps ==
    ASSUME ScoreInv, NEW r \in Requests,
           ReplaceDisks(r) \/ InsertDisk(r) \/ DeleteDisk(r)
    PROVE  (ChangersCross /\ ChangersHold /\ CountsCurrent /\ ScoreIsCurrent)'
<1> USE DEF ScoreInv
<1>1. OnlyMoves(r)
  BY OthersStay DEF Step
<1>2. /\ pc'[r] = "scoring" /\ UNCHANGED <<at, kind, payload, tables>>
      /\ crossed' = crossed \cup CrossedBy(r)
      /\ at[r] \in Vms
  BY DEF ReplaceDisks, InsertDisk, DeleteDisk, Goto, TypeOK, Placed
<1>3. Changing(r)'
  <2>1. kind[r] \in {"attach", "detach"} \/ payload[r].disks # "kept"
    BY DEF ReplaceDisks, InsertDisk, DeleteDisk, Goto, Placed, Staged
  <2>2. QED
    BY <1>2, <2>1 DEF Changing
<1>4. \A q \in Requests \ {r} : Changing(q)' <=> Changing(q)
  BY <1>1 DEF Changing, OnlyMoves
<1>5. \A q \in Requests \ {r} : (Changing(q) /\ at[q] = at[r]) => at[r] \in CrossedBy(r)
  BY DEF Changing, CrossedBy
<1>6. ChangersCross'
  BY <1>2, <1>4, <1>5 DEF ChangersCross
<1>7. ChangersHold'
  BY <1>1, <1>3, <1>4 DEF ChangersHold, OnlyMoves
<1>8. CountsCurrent'
  BY <1>1, <1>2 DEF CountsCurrent, OnlyMoves, DisksSeenBy, tables
<1>9. ScoreIsCurrent'
  BY <1>2 DEF ScoreIsCurrent, tables
<1>10. QED
  BY <1>6, <1>7, <1>8, <1>9

(* The snapshot sees what the request will commit. *)
LEMMA CountSteps ==
    ASSUME ScoreInv, NEW r \in Requests, CountChildren(r)
    PROVE  (ChangersCross /\ ChangersHold /\ CountsCurrent /\ ScoreIsCurrent)'
<1> USE DEF ScoreInv, CountChildren, Goto, TypeOK, txn, history, tables
<1>1. \A q \in Requests : Changing(q)' <=> Changing(q)
  BY DEF Changing
<1>2. ChangersCross' /\ ChangersHold' /\ ScoreIsCurrent'
  BY <1>1 DEF ChangersCross, ChangersHold, ScoreIsCurrent
<1>3. CountsCurrent'
  BY DEF CountsCurrent, DisksSeenBy
<1>4. QED
  BY <1>2, <1>3

(* A commit of r finds no other request at its VM whose count it could make
   stale: those that hold the row exclude it, and of those that change disks
   history tells. *)
LEMMA CommitsAlone ==
    ASSUME ScoreInv, NEW r \in Requests, CommitEdit(r) \/ CommitChild(r),
           at[r] \in present \ crossed,
           NEW q \in Requests \ {r}, pc[q] = "settling", at[q] = at[r]
    PROVE  DisksSeenBy(r, at[r]) = disks[at[r]]
<1> USE DEF ScoreInv, TypeOK
<1>1. at[r] \in Vms
  OBVIOUS
<1>2. CASE ~Changing(r)
  BY <1>2 DEF ChangersHold, DisksSeenBy
<1>3. CASE Changing(r) /\ Changing(q)
  BY <1>3 DEF ChangersCross
<1>4. CASE Changing(r) /\ ~Changing(q)
  <2>1. Writes(q) /\ HoldsRow(q, at[r])
    BY <1>4, <1>1 DEF Changing, Staged, Writes, HoldsRow, Kinds
  <2>2. CASE CommitEdit(r)
    BY <1>1, <2>1, <2>2 DEF CommitEdit, HoldsRow, RowLocksExclude
  <2>3. CASE CommitChild(r)
    BY <2>1, <2>3 DEF CommitChild, IsFree, WaitsFor, RowHolders
  <2>4. QED
    BY <2>2, <2>3
<1>5. QED
  BY <1>2, <1>3, <1>4

(* What a commit writes as the score is what is so. *)
LEMMA CommitSteps ==
    ASSUME ScoreInv, NEW r \in Requests, CommitEdit(r) \/ CommitChild(r)
    PROVE  (ChangersCross /\ ChangersHold /\ CountsCurrent /\ ScoreIsCurrent)'
<1> USE DEF ScoreInv, TypeOK
<1>1. OnlyMoves(r)
  BY OthersStay DEF Step
<1>2. /\ at[r] \in Vms /\ pc[r] = "settling"
      /\ pc'[r] \in {"picking", "end"} /\ gone'[r] = {} /\ made'[r] = {}
      /\ crossed' = crossed /\ present' = present
      /\ disks' = [disks EXCEPT ![at[r]] = DisksSeenBy(r, at[r])]
  <2>1. at[r] \in Vms /\ pc[r] = "settling"
    BY DEF CommitEdit, CommitChild, Placed
  <2>2. /\ ForgetTxn(r) /\ crossed' = crossed /\ present' = present
        /\ disks' = [disks EXCEPT ![at[r]] = DisksSeenBy(r, at[r])]
        /\ Finishes(r, "done") \/ Answer(r, "done")
    BY DEF CommitEdit, CommitChild, history
  <2>3. pc'[r] \in {"picking", "end"}
    BY <2>2 DEF Finishes, Answer
  <2>4. gone'[r] = {} /\ made'[r] = {}
    BY <2>2 DEF ForgetTxn
  <2>5. QED
    BY <2>1, <2>2, <2>3, <2>4
<1>3. \A q \in Requests \ {r} : Changing(q)' <=> Changing(q)
  BY <1>1 DEF Changing, OnlyMoves
<1>4. ~Changing(r)'
  BY <1>2 DEF Changing
<1>5. ChangersCross' /\ ChangersHold'
  BY <1>1, <1>2, <1>3, <1>4 DEF ChangersCross, ChangersHold, OnlyMoves
<1>6. CountsCurrent'
  <2> SUFFICES ASSUME NEW q \in Requests, pc'[q] = "settling", at'[q] \in present \ crossed
               PROVE  counted'[q] <=> DisksSeenBy(q, at[q])' # {}
    BY <1>2 DEF CountsCurrent
  <2>1. q # r /\ pc[q] = "settling" /\ at'[q] = at[q] /\ at[q] \in present \ crossed
        /\ counted'[q] = counted[q] /\ gone'[q] = gone[q] /\ made'[q] = made[q]
    BY <1>1, <1>2 DEF OnlyMoves
  <2>2. disks'[at[q]] = disks[at[q]]
    BY <1>2, <2>1, CommitsAlone
  <2>3. QED
    BY <2>1, <2>2 DEF CountsCurrent, DisksSeenBy
<1>7. ScoreIsCurrent'
  <2>1. /\ \A v \in present \ {at[r]} :
            row'[v] = row[v] /\ score'[v] = score[v] /\ disks'[v] = disks[v]
        /\ at[r] \in present =>
            score'[at[r]] = OwnerFact(row'[at[r]]) \cup DiskFact(counted[r])
    BY <1>2 DEF CommitEdit, CommitChild
  <2>2. at[r] \in present \ crossed => (counted[r] <=> disks'[at[r]] # {})
    BY <1>2 DEF CountsCurrent
  <2>3. QED
    BY <1>2, <2>1, <2>2 DEF ScoreIsCurrent, OwnerFact, DiskFact
<1>8. QED
  BY <1>5, <1>6, <1>7

(* Every other step is quiet. *)
LEMMA StepScores ==
    ASSUME ScoreInv, [Next]_vars
    PROVE  (ChangersCross /\ ChangersHold /\ CountsCurrent /\ ScoreIsCurrent)'
<1> USE DEF ScoreInv
<1>1. ASSUME NEW r \in Requests, Fail(r) \/ Dropped(r), OnlyMoves(r)
      PROVE  (ChangersCross /\ ChangersHold /\ CountsCurrent /\ ScoreIsCurrent)'
  <2>1. pc'[r] \in {"picking", "end"} /\ gone'[r] = {} /\ made'[r] = {}
        /\ UNCHANGED tables /\ crossed' = crossed
    BY <1>1 DEF Fail, Dropped, ForgetTxn, Finishes, Answer, TypeOK, history
  <2>2. QED
    BY <1>1, <2>1, QuietSteps DEF Changing, tables
<1>2. ASSUME NEW r \in Requests, OnlyMoves(r),
             \/ Begins(r) \/ PickNext(r) \/ BulkAnswers(r) \/ MixTags(r) \/ ReadRow(r)
             \/ DeleteRow(r) \/ CommitRemoval(r)
      PROVE  (ChangersCross /\ ChangersHold /\ CountsCurrent /\ ScoreIsCurrent)'
  <2>1. /\ pc[r] \notin {"scoring", "settling"} /\ pc'[r] \notin {"scoring", "settling"}
        /\ gone' = gone /\ made' = made /\ crossed' = crossed
    BY <1>2 DEF Begins, Starts, Goto, EditStarts, BulkStarts, AttachStarts, DetachStarts,
       RemoveStarts, PickNext, BulkAnswers, MixTags, ReadRow, DeleteRow, CommitRemoval,
       Answer, TypeOK, txn, history
  <2>2. /\ present' \subseteq present
        /\ \A v \in present' :
            row'[v] = row[v] /\ score'[v] = score[v] /\ disks'[v] = disks[v]
    BY <1>2 DEF Begins, EditStarts, BulkStarts, AttachStarts, DetachStarts,
       RemoveStarts, PickNext, BulkAnswers, MixTags, ReadRow, DeleteRow, CommitRemoval,
       TypeOK, tables
  <2>3. gone[r] = {} /\ made[r] = {}
    BY <2>1 DEF ChangersHold, Changing
  <2>4. QED
    BY <1>2, <2>1, <2>2, <2>3, QuietSteps DEF Changing
<1>3. ASSUME NEW r \in Requests, OnlyMoves(r), WriteRow(r)
      PROVE  (ChangersCross /\ ChangersHold /\ CountsCurrent /\ ScoreIsCurrent)'
  <2>1. /\ pc'[r] \in {"scoring", "clearing"} /\ ~Changing(r)' /\ ~Changing(r)
        /\ gone' = gone /\ made' = made /\ crossed' = crossed /\ UNCHANGED tables
    BY <1>3 DEF WriteRow, Changing, Staged, Writes, TypeOK, history
  <2>2. QED
    BY <1>3, <2>1, QuietSteps DEF ChangersHold, tables
<1>4. CASE \E r \in Requests : Begins(r) \/ Step(r) \/ Dropped(r)
  <2>1. PICK r \in Requests : Begins(r) \/ Step(r) \/ Dropped(r)
    BY <1>4
  <2>2. OnlyMoves(r)
    BY <2>1, OthersStay
  <2>3. QED
    BY <2>1, <2>2, <1>1, <1>2, <1>3, ChangeSteps, CountSteps, CommitSteps
       DEF Step, EditFails, InsertFails, DeadlockVictim
<1>5. CASE UNCHANGED vars
  BY <1>5 DEF vars, ChangersCross, ChangersHold, CountsCurrent, ScoreIsCurrent, Changing,
     DisksSeenBy
<1>6. QED
  BY <1>4, <1>5 DEF Next, Finished

(* The score a VM shows says of its owner what is so, and of its disks unless
   two requests changed them at a time (write::health, create_child,
   delete_child). *)
THEOREM InventoryScores == Spec => []ScoreIsCurrent
<1>1. Init => ScoreInv
  <2> SUFFICES ASSUME Init PROVE ScoreInv
    OBVIOUS
  <2>1. RowLocksExclude /\ Staged /\ ChangersCross /\ ChangersHold /\ CountsCurrent
    BY DEF Init, RowLocksExclude, HoldsRow, Staged, Writes, NoPayload, ChangersCross,
       ChangersHold, CountsCurrent, Changing
  <2>2. ScoreIsCurrent
    BY DEF Init, ScoreIsCurrent, Blank, DiskFact
  <2>3. QED
    BY <2>1, <2>2, InitTyped DEF ScoreInv
<1>2. ScoreInv /\ [Next]_vars => ScoreInv'
  BY StepTyped, StepExcludes, StepStaged, StepScores DEF ScoreInv
<1>3. ScoreInv => ScoreIsCurrent
  BY DEF ScoreInv
<1>4. QED
  BY <1>1, <1>2, <1>3, PTL DEF Spec

--------------------------------------------------------------------------------
(* A bulk edit at work has reported, has still to pick, or is at, each VM it
   selected, and each in one way only. *)
Progresses(r) ==
    /\ pc[r] = "new" => (updated[r] = {} /\ failed[r] = {})
    /\ pc[r] \in {"picking", "mixing"} => kind[r] = "bulk"
    /\ (kind[r] = "bulk" /\ pc[r] \notin {"new", "end"}) =>
        /\ chosen[r] = updated[r] \cup failed[r] \cup todo[r] \cup
                (IF pc[r] = "picking" THEN {} ELSE {at[r]})
        /\ updated[r] \cap failed[r] = {}
        /\ todo[r] \cap (updated[r] \cup failed[r]) = {}
        /\ pc[r] # "picking" => at[r] \notin todo[r] \cup updated[r] \cup failed[r]
    /\ answer[r] = "report" =>
        /\ pc[r] = "end"
        /\ updated[r] \cup failed[r] = chosen[r]
        /\ updated[r] \cap failed[r] = {}

BulkProgress == \A r \in Requests : Progresses(r)

(* Whoever left an entry in the log of a VM counts the VM as updated. *)
TracesAreUpdates ==
    \A v \in Vms, f \in Fields : \A i \in 1 .. Len(log[v][f]) :
        v \in updated[log[v][f][i].who]

(* A rollback makes a bulk edit report the VM it was at. *)
LEMMA FailProgresses ==
    ASSUME TypeOK, NEW r \in Requests, Progresses(r), Fail(r),
           pc[r] \notin {"new", "picking", "mixing", "end"}
    PROVE  Progresses(r)'
<1> USE DEF TypeOK, Progresses
<1>1. UNCHANGED <<kind, todo, chosen, updated>>
  BY DEF Fail, history
<1>2. CASE kind[r] = "bulk"
  <2>1. pc'[r] = "picking" /\ answer'[r] = answer[r]
        /\ failed'[r] = failed[r] \cup {at[r]}
    BY <1>2 DEF Fail, Finishes
  <2>2. QED
    BY <1>1, <1>2, <2>1
<1>3. CASE kind[r] # "bulk"
  <2>1. pc'[r] = "end" /\ answer'[r] = "error"
    BY <1>3 DEF Fail, Finishes, Answer
  <2>2. QED
    BY <1>1, <1>3, <2>1
<1>4. QED
  BY <1>2, <1>3

(* A step within the work on a VM, or one that answers otherwise than with a
   report, leaves the report alone. *)
LEMMA WorkProgresses ==
    ASSUME TypeOK, NEW r \in Requests, Progresses(r),
           pc[r] \notin {"new", "picking", "end"},
           pc'[r] \notin {"new", "picking", "mixing"},
           UNCHANGED <<kind, todo, chosen, updated, failed>>,
           \/ pc'[r] = "end" /\ answer'[r] # "report"
           \/ pc'[r] # "end" /\ at' = at /\ answer' = answer
    PROVE  Progresses(r)'
  BY DEF TypeOK, Progresses

(* Every step keeps the account of a bulk edit. *)
LEMMA StepProgresses ==
    ASSUME TypeOK, Placed, Staged, BulkProgress, [Next]_vars
    PROVE  BulkProgress'
<1> USE DEF TypeOK, BulkProgress
<1>1. ASSUME NEW r \in Requests, Begins(r)
      PROVE  Progresses(r)'
  <2>1. CASE BulkStarts(r)
    BY <2>1 DEF BulkStarts, Starts, Goto, Progresses, report, history
  <2>2. CASE ~BulkStarts(r)
    <3>1. pc'[r] \in {"reading", "inserting", "detaching", "removing"}
          /\ kind'[r] # "bulk" /\ pc[r] = "new" /\ answer' = answer
      BY <1>1, <2>2 DEF Begins, Starts, Goto, EditStarts, AttachStarts, DetachStarts,
         RemoveStarts
    <3>2. QED
      BY <3>1 DEF Progresses
  <2>3. QED
    BY <2>1, <2>2
<1>2. ASSUME NEW r \in Requests, PickNext(r)
      PROVE  Progresses(r)'
  <2>1. PICK v \in todo[r] : todo'[r] = todo[r] \ {v} /\ at'[r] = v
    BY <1>2 DEF PickNext
  <2>2. /\ pc[r] = "picking" /\ pc'[r] \in {"reading", "mixing"}
        /\ UNCHANGED <<kind, chosen, updated, failed, answer>>
    BY <1>2 DEF PickNext, report, history
  <2>3. /\ kind[r] = "bulk" /\ answer[r] # "report"
        /\ chosen[r] = updated[r] \cup failed[r] \cup todo[r]
        /\ updated[r] \cap failed[r] = {}
        /\ todo[r] \cap (updated[r] \cup failed[r]) = {}
    BY <2>2 DEF Progresses
  <2>4. /\ chosen[r] = updated[r] \cup failed[r] \cup todo'[r] \cup {at'[r]}
        /\ todo'[r] \cap (updated[r] \cup failed[r]) = {}
        /\ at'[r] \notin todo'[r] \cup updated[r] \cup failed[r]
    BY <2>1, <2>3
  <2>5. QED
    BY <2>2, <2>3, <2>4 DEF Progresses
<1>3. ASSUME NEW r \in Requests, BulkAnswers(r)
      PROVE  Progresses(r)'
  <2>1. /\ pc[r] = "picking" /\ pc'[r] = "end" /\ todo[r] = {}
        /\ UNCHANGED <<kind, chosen, updated, failed>>
    BY <1>3 DEF BulkAnswers, Answer, report, history
  <2>2. QED
    BY <2>1 DEF Progresses
<1>4. ASSUME NEW r \in Requests,
             \/ MixTags(r) \/ ReadRow(r) \/ WriteRow(r) \/ ReplaceDisks(r)
             \/ CountChildren(r) \/ InsertDisk(r) \/ DeleteDisk(r) \/ CommitChild(r)
             \/ DeleteRow(r) \/ CommitRemoval(r)
      PROVE  Progresses(r)'
  <2>1. UNCHANGED <<kind, todo, chosen, updated, failed>>
    BY <1>4 DEF MixTags, ReadRow, WriteRow, ReplaceDisks, CountChildren, InsertDisk,
       DeleteDisk, CommitChild, DeleteRow, CommitRemoval, report, history
  <2>2. /\ pc[r] \notin {"new", "picking", "end"}
        /\ \/ Answer(r, "done") \/ Answer(r, "error")
           \/ /\ pc'[r] \notin {"new", "picking", "mixing", "end"}
              /\ at' = at /\ answer' = answer
    BY <1>4 DEF MixTags, ReadRow, WriteRow, ReplaceDisks, CountChildren, InsertDisk,
       DeleteDisk, CommitChild, DeleteRow, CommitRemoval, Goto
  <2>3. \/ pc'[r] = "end" /\ answer'[r] # "report"
        \/ /\ pc'[r] \notin {"new", "picking", "mixing", "end"}
           /\ at' = at /\ answer' = answer
    BY <2>2 DEF Answer
  <2>4. QED
    BY <2>1, <2>2, <2>3, WorkProgresses
<1>5. ASSUME NEW r \in Requests, EditFails(r) \/ InsertFails(r) \/ DeadlockVictim(r)
      PROVE  Progresses(r)'
  <2>1. Fail(r) /\ pc[r] \notin {"new", "picking", "mixing", "end"}
    BY <1>5, WaitersWork DEF EditFails, InsertFails, DeadlockVictim
  <2>2. QED
    BY <2>1, FailProgresses
<1>6. ASSUME NEW r \in Requests, CommitEdit(r)
      PROVE  Progresses(r)'
  <2>1. /\ pc[r] = "settling" /\ updated'[r] = updated[r] \cup {at[r]}
        /\ UNCHANGED <<kind, todo, chosen, failed>>
        /\ Finishes(r, "done")
    BY <1>6 DEF CommitEdit
  <2>2. CASE kind[r] = "bulk"
    <3>1. pc'[r] = "picking" /\ answer' = answer
      BY <2>1, <2>2 DEF Finishes
    <3>2. /\ answer[r] # "report"
          /\ chosen[r] = updated[r] \cup failed[r] \cup todo[r] \cup {at[r]}
          /\ updated[r] \cap failed[r] = {}
          /\ todo[r] \cap (updated[r] \cup failed[r]) = {}
          /\ at[r] \notin todo[r] \cup updated[r] \cup failed[r]
      BY <2>1, <2>2 DEF Progresses
    <3>3. /\ chosen[r] = updated'[r] \cup failed[r] \cup todo[r]
          /\ updated'[r] \cap failed[r] = {}
          /\ todo[r] \cap (updated'[r] \cup failed[r]) = {}
      BY <2>1, <3>2
    <3>4. QED
      BY <2>1, <2>2, <3>1, <3>2, <3>3 DEF Progresses
  <2>3. CASE kind[r] # "bulk"
    <3>1. pc'[r] = "end" /\ answer'[r] = "done"
      BY <2>1, <2>3 DEF Finishes, Answer
    <3>2. QED
      BY <2>1, <2>3, <3>1 DEF Progresses
  <2>4. QED
    BY <2>2, <2>3
<1>7. ASSUME NEW r \in Requests, Dropped(r)
      PROVE  Progresses(r)'
  BY <1>7 DEF Dropped, Answer, Progresses, report, history
<1>8. CASE \E r \in Requests : Begins(r) \/ Step(r) \/ Dropped(r)
  <2>1. PICK r \in Requests : Begins(r) \/ Step(r) \/ Dropped(r)
    BY <1>8
  <2>2. Progresses(r)'
    BY <2>1, <1>1, <1>2, <1>3, <1>4, <1>5, <1>6, <1>7 DEF Step
  <2>3. \A q \in Requests \ {r} : Progresses(q)'
    <3>1. OnlyMoves(r)
      BY <2>1, OthersStay
    <3>2. QED
      BY <3>1 DEF OnlyMoves, Progresses
  <2>4. QED
    BY <2>2, <2>3
<1>9. CASE UNCHANGED vars
  BY <1>9 DEF vars, Progresses
<1>10. QED
  BY <1>8, <1>9 DEF Next, Finished

(* The log holds entries. *)
LEMMA LogHoldsEntries ==
    ASSUME TypeOK, NEW v \in Vms, NEW f \in Fields
    PROVE  /\ log[v][f] \in Seq(Entry)
           /\ \A i \in 1 .. Len(log[v][f]) : log[v][f][i].who \in Requests
<1>1. log[v][f] \in Seq(Entry)
  BY DEF TypeOK
<1>2. ASSUME NEW i \in 1 .. Len(log[v][f])
      PROVE  log[v][f][i] \in Entry
  BY <1>1
<1>3. QED
  BY <1>1, <1>2 DEF Entry

(* What an edit appends to the log of a field: nothing, or one entry. *)
LEMMA Appended ==
    ASSUME TypeOK, NEW r \in Requests, NEW v \in Vms, NEW f \in Fields
    PROVE  LET es == log[v][f]
               new == log[v][f] \o Entries(r, f)
           IN
           /\ seen[r][f] = mine[r][f] => new = es
           /\ seen[r][f] # mine[r][f] =>
                /\ Len(new) = Len(es) + 1
                /\ \A i \in 1 .. Len(es) : new[i] = es[i]
                /\ new[Len(es) + 1] = [who |-> r, old |-> seen[r][f], new |-> mine[r][f]]
<1>1. log[v][f] \in Seq(Entry)
  BY DEF TypeOK
<1>2. CASE seen[r][f] = mine[r][f]
  BY <1>1, <1>2 DEF Entries
<1>3. CASE seen[r][f] # mine[r][f]
  <2> DEFINE e == [who |-> r, old |-> seen[r][f], new |-> mine[r][f]]
  <2> HIDE DEF e
  <2>1. Entries(r, f) = <<e>>
    BY <1>3 DEF Entries, e
  <2>2. <<e>> \in Seq({e}) /\ Len(<<e>>) = 1 /\ <<e>>[1] = e
    OBVIOUS
  <2>3. /\ Len(log[v][f] \o <<e>>) = Len(log[v][f]) + 1
        /\ \A i \in 1 .. Len(log[v][f]) : (log[v][f] \o <<e>>)[i] = log[v][f][i]
        /\ (log[v][f] \o <<e>>)[Len(log[v][f]) + 1] = e
    BY <1>1, <2>2
  <2>4. QED
    BY <1>3, <2>1, <2>3 DEF e
<1>4. QED
  BY <1>2, <1>3

(* A commit changes the log of one VM, at which its request is; a removal
   empties it; nothing else touches the log, the first rows, or the rows. *)
LEMMA WhoTouchesTheLog ==
    ASSUME TypeOK, NEW r \in Requests, Begins(r) \/ Step(r) \/ Dropped(r)
    PROVE  \/ CommitEdit(r)
           \/ CommitRemoval(r)
           \/ UNCHANGED <<present, row, log, first, raced, updated>>
<1>1. CASE Begins(r)
  BY <1>1 DEF Begins, EditStarts, BulkStarts, AttachStarts, DetachStarts,
     RemoveStarts, tables, history, report
<1>2. CASE Fail(r) \/ Dropped(r)
  BY <1>2 DEF Fail, Dropped, tables, history, report
<1>3. CASE \/ PickNext(r) \/ BulkAnswers(r) \/ MixTags(r) \/ ReadRow(r) \/ WriteRow(r)
           \/ ReplaceDisks(r) \/ CountChildren(r) \/ InsertDisk(r) \/ DeleteDisk(r)
           \/ CommitChild(r) \/ DeleteRow(r)
  BY <1>3 DEF PickNext, BulkAnswers, MixTags, ReadRow, WriteRow, ReplaceDisks,
     CountChildren, InsertDisk, DeleteDisk, CommitChild, DeleteRow, tables, history, report
<1>4. QED
  BY <1>1, <1>2, <1>3 DEF Step, EditFails, InsertFails, DeadlockVictim

(* Who leaves an entry reports the VM as updated, and goes on doing so. *)
LEMMA StepTraces ==
    ASSUME TypeOK, Placed, TracesAreUpdates, [Next]_vars
    PROVE  TracesAreUpdates'
<1>1. ASSUME NEW v \in Vms, NEW f \in Fields, log'[v][f] = log[v][f],
             \A q \in Requests : updated[q] \subseteq updated'[q]
      PROVE  \A i \in 1 .. Len(log'[v][f]) : v \in updated'[log'[v][f][i].who]
  BY <1>1, LogHoldsEntries DEF TracesAreUpdates
<1>2. ASSUME NEW r \in Requests, CommitEdit(r)
      PROVE  TracesAreUpdates'
  <2> SUFFICES ASSUME NEW v \in Vms, NEW f \in Fields, NEW i \in 1 .. Len(log'[v][f])
               PROVE  v \in updated'[log'[v][f][i].who]
    BY DEF TracesAreUpdates
  <2>1. /\ at[r] \in Vms
        /\ updated' = [updated EXCEPT ![r] = @ \cup {at[r]}]
        /\ log' = [log EXCEPT ![at[r]] = [g \in Fields |-> @[g] \o Entries(r, g)]]
    BY <1>2 DEF CommitEdit, Placed, TypeOK
  <2>2. /\ \A q \in Requests : updated[q] \subseteq updated'[q]
        /\ at[r] \in updated'[r]
    BY <2>1 DEF TypeOK
  <2>3. CASE log'[v][f] = log[v][f]
    BY <2>2, <2>3, <1>1
  <2>4. CASE log'[v][f] # log[v][f]
    <3>1. v = at[r] /\ log'[v][f] = log[v][f] \o Entries(r, f)
      BY <2>1, <2>4 DEF TypeOK
    <3>2. /\ Len(log'[v][f]) = Len(log[v][f]) + 1
          /\ \A j \in 1 .. Len(log[v][f]) : log'[v][f][j] = log[v][f][j]
          /\ log'[v][f][Len(log[v][f]) + 1] =
                [who |-> r, old |-> seen[r][f], new |-> mine[r][f]]
      <4> DEFINE longer == log[v][f] \o Entries(r, f)
      <4>1. /\ seen[r][f] = mine[r][f] => longer = log[v][f]
            /\ seen[r][f] # mine[r][f] =>
                /\ Len(longer) = Len(log[v][f]) + 1
                /\ \A j \in 1 .. Len(log[v][f]) : longer[j] = log[v][f][j]
                /\ longer[Len(log[v][f]) + 1] =
                        [who |-> r, old |-> seen[r][f], new |-> mine[r][f]]
        BY Appended
      <4>2. log'[v][f] = longer
        BY <3>1
      <4> HIDE DEF longer
      <4>3. seen[r][f] # mine[r][f]
        BY <2>4, <4>1, <4>2
      <4> QED
        BY <4>1, <4>2, <4>3
    <3>3. Len(log[v][f]) \in Nat /\ log'[v][f][Len(log[v][f]) + 1].who = r
      BY <3>2, LogHoldsEntries
    <3>4. CASE i = Len(log'[v][f])
      BY <2>2, <3>1, <3>2, <3>3, <3>4
    <3>5. CASE i # Len(log'[v][f])
      <4>1. i \in 1 .. Len(log[v][f]) /\ log'[v][f][i] = log[v][f][i]
        BY <3>2, <3>3, <3>5
      <4>2. QED
        BY <2>2, <4>1, LogHoldsEntries DEF TracesAreUpdates
    <3>6. QED
      BY <3>4, <3>5
  <2>5. QED
    BY <2>3, <2>4
<1>3. ASSUME NEW r \in Requests, CommitRemoval(r)
      PROVE  TracesAreUpdates'
  <2> SUFFICES ASSUME NEW v \in Vms, NEW f \in Fields, NEW i \in 1 .. Len(log'[v][f])
               PROVE  v \in updated'[log'[v][f][i].who]
    BY DEF TracesAreUpdates
  <2>1. /\ updated' = updated
        /\ log' = [log EXCEPT ![at[r]] = NoEntries]
    BY <1>3 DEF CommitRemoval, report
  <2>2. v = at[r] => log'[v][f] = <<>>
    BY <2>1 DEF NoEntries, TypeOK
  <2>3. v # at[r] => log'[v][f] = log[v][f]
    BY <2>1 DEF TypeOK
  <2>4. QED
    BY <2>1, <2>2, <2>3, <1>1
<1>4. CASE UNCHANGED <<log, updated>>
  BY <1>4 DEF TracesAreUpdates
<1>5. CASE \E r \in Requests : Begins(r) \/ Step(r) \/ Dropped(r)
  BY <1>2, <1>3, <1>4, <1>5, WhoTouchesTheLog
<1>6. QED
  BY <1>4, <1>5 DEF Next, Finished, vars

ReportInv ==
    TypeOK /\ Placed /\ Staged /\ BulkProgress /\ TracesAreUpdates

(* A bulk edit that reports names every VM it selected, once, and left nothing
   at one it does not report as updated (bulk_edit). *)
THEOREM InventoryReports == Spec => []BulkReportIsTrue
<1>1. Init => ReportInv
  <2> SUFFICES ASSUME Init PROVE ReportInv
    OBVIOUS
  <2>1. Staged /\ BulkProgress
    BY DEF Init, Staged, Writes, NoPayload, BulkProgress, Progresses
  <2>2. TracesAreUpdates
    BY DEF Init, TracesAreUpdates, NoEntries
  <2>3. QED
    BY <2>1, <2>2, InitTyped DEF ReportInv
<1>2. ReportInv /\ [Next]_vars => ReportInv'
  BY StepTyped, StepStaged, StepProgresses, StepTraces DEF ReportInv
<1>3. ReportInv => BulkReportIsTrue
  <2> SUFFICES ASSUME ReportInv, NEW r \in Requests
               PROVE  /\ answer[r] = "report" =>
                        /\ updated[r] \cup failed[r] = chosen[r]
                        /\ updated[r] \cap failed[r] = {}
                      /\ \A v \in Vms \ updated[r], f \in Fields :
                            \A i \in 1 .. Len(log[v][f]) : log[v][f][i].who # r
    BY DEF BulkReportIsTrue
  <2>1. answer[r] = "report" =>
            updated[r] \cup failed[r] = chosen[r] /\ updated[r] \cap failed[r] = {}
    BY DEF ReportInv, BulkProgress, Progresses
  <2>2. \A v \in Vms \ updated[r], f \in Fields :
            \A i \in 1 .. Len(log[v][f]) : log[v][f][i].who # r
    BY DEF ReportInv, TracesAreUpdates
  <2>3. QED
    BY <2>1, <2>2
<1>4. QED
  BY <1>1, <1>2, <1>3, PTL DEF Spec

--------------------------------------------------------------------------------
LogInv ==
    NothingLost /\ ReportInv /\ LogAccountsForRow

(* The history of a field stays an account while log and row of it are left alone
   and nobody who has an entry forgets having asked. *)
LEMMA AccountStays ==
    ASSUME TypeOK, NEW v \in Vms, NEW f \in Fields, Accounts(v, f),
           log'[v][f] = log[v][f], row'[v][f] = row[v][f], first'[v][f] = first[v][f],
           \A i \in 1 .. Len(log[v][f]) :
                Names(payload[log[v][f][i].who]) \subseteq Names(payload'[log[v][f][i].who])
    PROVE  Accounts(v, f)'
<1> DEFINE es == log[v][f]
<1>1. log'[v][f] = es
  OBVIOUS
<1>2. \A i \in 1 .. Len(es) : f \in Names(payload'[es[i].who])
  BY DEF Accounts
<1>3. \A i \in 1 .. Len(es) :
        /\ es[i].old = (IF i = 1 THEN first'[v][f] ELSE es[i - 1].new)
        /\ es[i].new # es[i].old
  BY DEF Accounts
<1>4. row'[v][f] = (IF es = <<>> THEN first'[v][f] ELSE es[Len(es)].new)
  BY DEF Accounts
<1>5. \A i \in 1 .. Len(es) : Names(payload[es[i].who])' = Names(payload'[es[i].who])
  BY DEF Names, Fields
<1>6. QED
  BY <1>1, <1>2, <1>3, <1>4 DEF Accounts, Names

(* Nobody who has left an entry takes a field back: payloads are chosen before
   the first step, and only the tags are added to one later. *)
LEMMA AskersRemember ==
    ASSUME LogInv, [Next]_vars, NEW v \in Vms, NEW q \in Requests, v \in updated[q]
    PROVE  Names(payload[q]) \subseteq Names(payload'[q])
<1> USE DEF LogInv, ReportInv, TypeOK
<1>1. CASE payload'[q] = payload[q]
  BY <1>1
<1>2. CASE MixTags(q)
  <2>1. CASE at[q] \in present
    <3>1. /\ payload[q] \in Payloads
          /\ row[at[q]].tags \subseteq Tags /\ tag[q] \in Tags
          /\ payload'[q] = [payload[q] EXCEPT !.tags = row[at[q]].tags \cup {tag[q]}]
      BY <1>2, <2>1 DEF MixTags, Placed, Values
    <3>2. payload'[q].owner = payload[q].owner
          /\ payload'[q].tags = row[at[q]].tags \cup {tag[q]}
      BY <3>1 DEF Payloads
    <3>3. tag[q] \in payload'[q].tags /\ tag[q] # Same
      BY <3>1, <3>2, SentinelsAreNew
    <3>4. payload'[q].tags # {Same}
      BY <3>3
    <3>5. QED
      BY <3>2, <3>4 DEF Names
  <2>2. CASE at[q] \notin present
    BY <1>2, <2>2, <1>1 DEF MixTags
  <2>3. QED
    BY <2>1, <2>2
<1>3. CASE \E r \in Requests : Begins(r) \/ Step(r) \/ Dropped(r)
  <2>1. PICK r \in Requests : Begins(r) \/ Step(r) \/ Dropped(r)
    BY <1>3
  <2>2. CASE q # r
    BY <2>1, <2>2, <1>1, OthersStay DEF OnlyMoves
  <2>3. CASE q = r
    <3>1. pc[r] # "new"
      BY <2>3 DEF BulkProgress, Progresses
    <3>2. ~Begins(r)
      BY <3>1 DEF Begins, Starts, Goto, EditStarts, BulkStarts, AttachStarts,
         DetachStarts, RemoveStarts
    <3>3. MixTags(r) \/ payload' = payload
      BY <2>1, <3>2 DEF Step, Fail, Dropped, PickNext, BulkAnswers, ReadRow, WriteRow,
         ReplaceDisks, EditFails, CountChildren, CommitEdit, InsertDisk, InsertFails,
         DeleteDisk, CommitChild, DeleteRow, CommitRemoval, DeadlockVictim
    <3>4. QED
      BY <2>3, <3>3, <1>1, <1>2
  <2>4. QED
    BY <2>2, <2>3
<1>4. QED
  BY <1>1, <1>3 DEF Next, Finished, vars

(* The entry of an edit that read the row as it is at the commit leads on from the
   last one; the edit named the field, or the row would not differ there. *)
LEMMA EditAccounts ==
    ASSUME LogInv, NEW r \in Requests, CommitEdit(r),
           NEW v \in present \ raced', v = at[r], NEW f \in Fields
    PROVE  Accounts(v, f)'
<1> DEFINE es == log[v][f]
<1>1. TypeOK /\ v \in Vms /\ v \notin raced /\ seen[r] = row[v]
  BY DEF CommitEdit, LogInv, NothingLost, TypeOK
<1>2. Accounts(v, f) /\ es \in Seq(Entry)
  BY <1>1, LogHoldsEntries DEF LogAccountsForRow, LogInv
<1>3. /\ row'[v][f] = mine[r][f]
      /\ log'[v][f] = es \o Entries(r, f)
      /\ first' = first /\ payload' = payload
  BY <1>1 DEF CommitEdit, TypeOK
<1>4. mine[r] = Apply(payload[r], row[v])
  BY DEF CommitEdit, Based, Holding, LogInv, NothingLost
<1>5. CASE seen[r][f] = mine[r][f]
  <2>1. log'[v][f] = log[v][f]
    BY <1>1, <1>3, <1>5, Appended
  <2>2. QED
    BY <1>1, <1>2, <1>3, <1>5, <2>1, AccountStays
<1>6. CASE seen[r][f] # mine[r][f]
  <2> DEFINE new == log'[v][f]
  <2>1. /\ Len(new) = Len(es) + 1
        /\ \A i \in 1 .. Len(es) : new[i] = es[i]
        /\ new[Len(new)] = [who |-> r, old |-> seen[r][f], new |-> mine[r][f]]
    BY <1>1, <1>3, <1>6, Appended
  <2>2. f \in Names(payload[r])
    BY <1>1, <1>4, <1>6 DEF Apply, Fields
  <2>3. row[v][f] = IF es = <<>> THEN first[v][f] ELSE es[Len(es)].new
    BY <1>2 DEF Accounts
  <2>4. /\ new[Len(new)].who = r /\ new[Len(new)].old = row[v][f]
        /\ new[Len(new)].new = row'[v][f] /\ row'[v][f] # row[v][f]
    BY <1>1, <1>3, <1>6, <2>1
  <2> HIDE DEF new
  <2>5. \A i \in 1 .. Len(es) :
            /\ es[i].old = (IF i = 1 THEN first[v][f] ELSE es[i - 1].new)
            /\ es[i].new # es[i].old
            /\ f \in Names(payload[es[i].who])
    BY <1>2 DEF Accounts
  <2>6. Len(es) \in Nat /\ (es = <<>> <=> Len(es) = 0)
    BY <1>2
  <2> HIDE DEF es
  <2>7. ASSUME NEW i \in 1 .. Len(new)
        PROVE  /\ new[i].old = (IF i = 1 THEN first[v][f] ELSE new[i - 1].new)
               /\ new[i].new # new[i].old
               /\ f \in Names(payload[new[i].who])
    <3>1. CASE i = Len(new)
      <4>1. i = 1 => es = <<>>
        BY <2>1, <2>6, <3>1
      <4>2. i # 1 => i - 1 = Len(es) /\ new[i - 1] = es[i - 1]
        BY <2>1, <2>6, <3>1
      <4>3. i # 1 => es # <<>>
        BY <2>1, <2>6, <3>1
      <4>4. QED
        BY <2>2, <2>3, <2>4, <3>1, <4>1, <4>2, <4>3
    <3>2. CASE i # Len(new)
      <4>1. i \in 1 .. Len(es) /\ new[i] = es[i]
        BY <2>1, <2>6, <3>2
      <4>2. i # 1 => new[i - 1] = es[i - 1]
        BY <2>1, <2>6, <4>1
      <4>3. QED
        BY <2>5, <4>1, <4>2
    <3>3. QED
      BY <3>1, <3>2
  <2>8. new # <<>>
    BY <2>1, <2>6
  <2>9. row'[v][f] = IF new = <<>> THEN first[v][f] ELSE new[Len(new)].new
    BY <2>4, <2>8
  <2>10. QED
    BY <1>3, <2>7, <2>9 DEF Accounts, new, Names
<1>7. QED
  BY <1>5, <1>6

(* Every other step leaves the accounts of the VMs there are. *)
LEMMA StepAccounts ==
    ASSUME LogInv, [Next]_vars
    PROVE  LogAccountsForRow'
<1> USE DEF LogInv, NothingLost, TypeOK
<1>1. ASSUME NEW v \in present \ raced, NEW f \in Fields,
             log'[v][f] = log[v][f], row'[v] = row[v], first' = first
      PROVE  Accounts(v, f)'
  <2>1. ASSUME NEW i \in 1 .. Len(log[v][f])
        PROVE  Names(payload[log[v][f][i].who]) \subseteq
                    Names(payload'[log[v][f][i].who])
    <3>1. log[v][f][i].who \in Requests
      BY LogHoldsEntries
    <3>2. v \in updated[log[v][f][i].who]
      BY DEF ReportInv, TracesAreUpdates
    <3>3. QED
      BY <3>1, <3>2, AskersRemember
  <2>2. v \in Vms /\ Accounts(v, f)
    BY DEF LogAccountsForRow
  <2>3. QED
    BY <1>1, <2>1, <2>2, AccountStays
<1>2. ASSUME NEW r \in Requests, CommitEdit(r)
      PROVE  LogAccountsForRow'
  <2> SUFFICES ASSUME NEW v \in present \ raced', NEW f \in Fields
               PROVE  Accounts(v, f)'
    BY <1>2 DEF CommitEdit, LogAccountsForRow
  <2>1. CASE v = at[r]
    BY <1>2, <2>1, EditAccounts
  <2>2. CASE v # at[r]
    <3>1. /\ v \in present \ raced /\ log'[v][f] = log[v][f] /\ row'[v] = row[v]
          /\ first' = first
      BY <1>2, <2>2 DEF CommitEdit
    <3>2. QED
      BY <3>1, <1>1
  <2>3. QED
    BY <2>1, <2>2
<1>3. ASSUME NEW r \in Requests, CommitRemoval(r)
      PROVE  LogAccountsForRow'
  <2>1. /\ present' = present \ {at[r]} /\ raced' = raced /\ first' = first /\ row' = row
        /\ \A v \in present' : log'[v] = log[v]
    BY <1>3 DEF CommitRemoval, history
  <2>2. QED
    BY <2>1, <1>1 DEF LogAccountsForRow
<1>4. CASE UNCHANGED <<present, row, log, first, raced>>
  BY <1>4, <1>1 DEF LogAccountsForRow
<1>5. CASE \E r \in Requests : Begins(r) \/ Step(r) \/ Dropped(r)
  BY <1>2, <1>3, <1>4, <1>5, WhoTouchesTheLog
<1>6. QED
  BY <1>4, <1>5 DEF Next, Finished, vars

(* While nobody updates a VM between the read and the update of another edit, its
   audit log tells its whole history (audit, mutate_vm). *)
THEOREM InventoryLogAccounts == Spec => []LogAccountsForRow
<1>1. Init => LogInv
  <2> SUFFICES ASSUME Init PROVE LogInv
    OBVIOUS
  <2>1. RowLocksExclude /\ Based /\ NoWriteIsLost /\ Staged /\ BulkProgress
    BY DEF Init, RowLocksExclude, HoldsRow, Based, Holding, NoWriteIsLost, Staged, Writes,
       NoPayload, BulkProgress, Progresses
  <2>2. TracesAreUpdates /\ LogAccountsForRow
    BY DEF Init, TracesAreUpdates, NoEntries, LogAccountsForRow, Accounts
  <2>3. QED
    BY <2>1, <2>2, InitTyped DEF LogInv, NothingLost, ReportInv
<1>2. LogInv /\ [Next]_vars => LogInv'
  BY StepTyped, StepExcludes, StepLosesNothing, StepStaged, StepProgresses, StepTraces,
     StepAccounts DEF LogInv, NothingLost, ReportInv
<1>3. LogInv => LogAccountsForRow
  BY DEF LogInv
<1>4. QED
  BY <1>1, <1>2, <1>3, PTL DEF Spec

================================================================================
