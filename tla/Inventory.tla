------------------------------ MODULE Inventory -------------------------------
(***************************************************************************)
(* Edits of virtual machines (api/inventory/mod.rs, service.rs): one VM    *)
(* edited, many edited in bulk, a disk added or deleted, a VM deleted; the *)
(* audit log and the health score that each of them must keep true.        *)
(*                                                                         *)
(* PostgreSQL runs every transaction at READ COMMITTED.  A request takes   *)
(* one action per statement; a statement that meets a row another          *)
(* transaction has locked waits for it, and a cycle of waiting requests is *)
(* broken by aborting one of them.  A row lock is not a variable: who      *)
(* holds it follows from the statement a request has reached.              *)
(*                                                                         *)
(* Two fields stand for all: an owner, which the score counts, and the     *)
(* tags, which a bulk edit reads before it writes.  Disks stand for all    *)
(* children whose presence the score counts.                               *)
(***************************************************************************)
EXTENDS Integers, Sequences, Relation

CONSTANTS
    Vms,        \* identifiers of virtual machines
    NoVm,       \* none of them
    Requests,   \* requests, each sent at most once
    Owners,     \* what field owner may hold
    NoOwner,    \* the empty owner
    Tags,       \* tags a VM may carry
    NoTag,      \* no tag
    Same,       \* a field the payload does not name
    FirstDisks, \* the disks there are initially
    NoDisk,     \* no disk
    Edits       \* what the requests may ask to write: a set of payloads

Values == [owner: Owners, tags: SUBSET Tags]
Payloads == [owner: Owners \cup {Same}, tags: (SUBSET Tags) \cup {{Same}},
             disks: {"kept", "none", "one"}]

ASSUME SentinelsAreNew ==
    /\ NoVm \notin Vms
    /\ NoTag \notin Tags
    /\ Same \notin Owners \cup Tags
    /\ NoOwner \in Owners
ASSUME EditsArePayloads == Edits \subseteq Payloads

VARIABLES
    present,    \* the rows of table vms
    row,        \* their fields; a deleted VM keeps its last ones
    score,      \* health_score: the facts it counts
    disks,      \* table vm_disks, by VM
    log,        \* table audit_log, by VM and field, oldest entry first
    kind,       \* which handler runs each request
    pc,         \* the statement it comes to next
    todo,       \* the VMs a bulk edit has still to work on
    at,         \* the VM being worked on
    payload,    \* what is to be written
    disk,       \* the disk to delete
    tag,        \* the tag a bulk edit adds
    seen,       \* the row as read before the update
    mine,       \* the row as written, not yet committed
    made,       \* disks inserted, not yet committed
    gone,       \* disks deleted, not yet committed
    counted,    \* whether the snapshot of the health statement has a disk
    updated,    \* VMs a bulk edit reports as updated
    failed,     \* VMs it reports as failed
    answer,     \* the kind of answer given
    chosen,     \* history: the VMs a bulk edit selected
    first,      \* history: the fields each VM began with
    written,    \* history: the last committed value asked for, by field
    raced,      \* history: VMs whose row changed between a read and its update
    crossed     \* history: VMs whose disks two requests changed at a time

tables == <<present, row, score, disks, log>>
txn == <<seen, mine, made, gone, counted>>
report == <<updated, failed>>
history == <<chosen, first, written, raced, crossed>>
vars == <<present, row, score, disks, log, kind, pc, todo, at, payload, disk, tag,
          seen, mine, made, gone, counted, updated, failed, answer,
          chosen, first, written, raced, crossed>>

Kinds == {"edit", "bulk", "attach", "detach", "remove"}
Stages == {"new", "picking", "mixing", "reading", "writing", "clearing",
           "inserting", "detaching", "removing", "cascading", "scoring",
           "settling", "end"}
Answers == {"none", "done", "report", "error", "dropped"}
Fields == {"owner", "tags"}
Facts == {"owner", "disk"}

(* A disk is named by the request that inserts it. *)
DiskIds == FirstDisks \cup Requests

Entry == [who: Requests, old: Owners \cup (SUBSET Tags), new: Owners \cup (SUBSET Tags)]

NoEntries == [f \in Fields |-> <<>>]

Blank == [owner |-> NoOwner, tags |-> {}]
NoPayload == [owner |-> Same, tags |-> {Same}, disks |-> "kept"]

(* The fields a payload names. *)
Names(p) ==
    {f \in Fields : IF f = "owner" THEN p.owner # Same ELSE p.tags # {Same}}

(* The facts the score counts. *)
OwnerFact(values) == {f \in {"owner"} : values.owner # NoOwner}
DiskFact(some) == {f \in {"disk"} : some}

Init ==
    /\ present = Vms
    /\ row = [v \in Vms |-> Blank]
    /\ disks \in {[v \in Vms |-> IF v = w THEN FirstDisks ELSE {}] : w \in Vms}
    /\ score = [v \in Vms |-> DiskFact(disks[v] # {})]
    /\ log = [v \in Vms |-> NoEntries]
    /\ kind = [r \in Requests |-> "edit"]
    /\ pc = [r \in Requests |-> "new"]
    /\ todo = [r \in Requests |-> {}]
    /\ at = [r \in Requests |-> NoVm]
    /\ payload = [r \in Requests |-> NoPayload]
    /\ tag = [r \in Requests |-> NoTag]
    /\ disk = [r \in Requests |-> NoDisk]
    /\ seen = [r \in Requests |-> Blank]
    /\ mine = [r \in Requests |-> Blank]
    /\ made = [r \in Requests |-> {}]
    /\ gone = [r \in Requests |-> {}]
    /\ counted = [r \in Requests |-> FALSE]
    /\ updated = [r \in Requests |-> {}]
    /\ failed = [r \in Requests |-> {}]
    /\ answer = [r \in Requests |-> "none"]
    /\ chosen = [r \in Requests |-> {}]
    /\ first = row
    /\ written = row
    /\ raced = {}
    /\ crossed = {}

--------------------------------------------------------------------------------
(* Locks. *)

Writes(r) == kind[r] \in {"edit", "bulk"}

(* An update locks the row until the end of the transaction, and so does a
   deletion, which in addition waits for whoever refers to the row. *)
HoldsRow(r, v) ==
    /\ at[r] = v
    /\ \/ Writes(r) /\ pc[r] \in {"clearing", "scoring", "settling"}
       \/ kind[r] = "remove" /\ pc[r] = "cascading"

RefersTo(r, v) == at[r] = v /\ kind[r] = "attach" /\ pc[r] \in {"scoring", "settling"}

RowHolders(r) == {q \in Requests \ {r} : HoldsRow(q, at[r])}
Removers(r) == {q \in RowHolders(r) : kind[q] = "remove"}
DiskHolders(r, D) == {q \in Requests \ {r} : gone[q] \cap D # {}}

(* The requests a request waits for. *)
WaitsFor(r) ==
    CASE pc[r] \in {"writing", "settling"} -> RowHolders(r)
      [] pc[r] = "removing" ->
            RowHolders(r) \cup {q \in Requests \ {r} : RefersTo(q, at[r])}
      [] pc[r] \in {"clearing", "cascading"} -> DiskHolders(r, disks[at[r]])
      [] pc[r] = "inserting" -> Removers(r)
      [] pc[r] = "detaching" -> DiskHolders(r, {disk[r]})
      [] OTHER -> {}

IsFree(r) == WaitsFor(r) = {}

(* r waits for itself through others. *)
InCycle(r) ==
    /\ ~IsFree(r)
    /\ TransitiveClosure([q \in Requests \X Requests |->
            q[2] \in WaitsFor(q[1])], Requests)[<<r, r>>]

--------------------------------------------------------------------------------
(* Steps common to the handlers. *)

Goto(r, from, to) ==
    /\ pc[r] = from
    /\ pc' = [pc EXCEPT ![r] = to]

Starts(r, k, stage) ==
    /\ Goto(r, "new", stage)
    /\ kind' = [kind EXCEPT ![r] = k]

(* What the transaction has not committed is forgotten. *)
ForgetTxn(r) ==
    /\ seen' = [seen EXCEPT ![r] = Blank]
    /\ mine' = [mine EXCEPT ![r] = Blank]
    /\ made' = [made EXCEPT ![r] = {}]
    /\ gone' = [gone EXCEPT ![r] = {}]
    /\ counted' = [counted EXCEPT ![r] = FALSE]

(* The answer is given, and its request forgets what it was about. *)
Answer(r, a) ==
    /\ pc' = [pc EXCEPT ![r] = "end"]
    /\ answer' = [answer EXCEPT ![r] = a]
    /\ at' = [at EXCEPT ![r] = NoVm]

(* A bulk edit goes on with its next VM, another handler answers. *)
Finishes(r, a) ==
    IF kind[r] = "bulk"
    THEN /\ pc' = [pc EXCEPT ![r] = "picking"]
         /\ at' = [at EXCEPT ![r] = NoVm]
         /\ UNCHANGED answer
    ELSE Answer(r, a)

(* Variant: a bulk edit passes over the VM. *)
FailUnreported(r) ==
    /\ ForgetTxn(r)
    /\ Finishes(r, "error")
    /\ UNCHANGED <<tables, kind, todo, payload, tag, disk, report, history>>

(* The transaction of r is rolled back; a bulk edit notes the VM as failed. *)
Fail(r) ==
    /\ ForgetTxn(r)
    /\ Finishes(r, "error")
    /\ failed' = [failed EXCEPT ![r] = IF kind[r] = "bulk" THEN @ \cup {at[r]} ELSE @]
    /\ UNCHANGED <<tables, kind, todo, payload, tag, disk, updated, history>>

(* The row with the fields the payload names replaced. *)
Apply(p, values) ==
    [owner |-> IF "owner" \in Names(p) THEN p.owner ELSE values.owner,
     tags |-> IF "tags" \in Names(p) THEN p.tags ELSE values.tags]

(* The disks of VM v that r sees: the committed ones and its own. *)
DisksSeenBy(r, v) == (disks[v] \ gone[r]) \cup made[r]

(* History: the VM of r, while another request has changed its disks and not
   committed. *)
CrossedBy(r) ==
    {v \in {at[r]} : \E q \in Requests \ {r} :
        /\ at[q] = v
        /\ pc[q] \in {"scoring", "settling"}
        /\ kind[q] \in {"attach", "detach"} \/ payload[q].disks # "kept"}

--------------------------------------------------------------------------------
(* An edit: patch_vm, and each turn of a bulk edit, by mutate_vm. *)

EditStarts(r) ==
    /\ Starts(r, "edit", "reading")
    /\ \E v \in Vms, p \in Edits :
        /\ at' = [at EXCEPT ![r] = v]
        /\ payload' = [payload EXCEPT ![r] = p]
    /\ UNCHANGED <<tables, todo, tag, disk, txn, report, answer, history>>

(* selected_ids; a bulk edit replaces no disks. *)
BulkStarts(r) ==
    /\ Starts(r, "bulk", "picking")
    /\ \E V \in SUBSET present :
        /\ todo' = [todo EXCEPT ![r] = V]
        /\ chosen' = [chosen EXCEPT ![r] = V]
    /\ \E p \in Edits, t \in Tags \cup {NoTag} :
        /\ p.disks = "kept" /\ p.tags = {Same}
        /\ payload' = [payload EXCEPT ![r] = p]
        /\ tag' = [tag EXCEPT ![r] = t]
    /\ UNCHANGED <<tables, at, disk, txn, report, answer, first, written, raced,
                   crossed>>

(* Variant: the VM picked is not taken off the list. *)
PickForever(r) ==
    /\ pc[r] = "picking"
    /\ \E v \in todo[r] : at' = [at EXCEPT ![r] = v]
    /\ pc' = [pc EXCEPT ![r] = IF tag[r] = NoTag THEN "reading" ELSE "mixing"]
    /\ UNCHANGED <<tables, kind, todo, payload, tag, disk, txn, report, answer,
                   history>>

PickNext(r) ==
    /\ pc[r] = "picking"
    /\ \E v \in todo[r] :
        /\ todo' = [todo EXCEPT ![r] = @ \ {v}]
        /\ at' = [at EXCEPT ![r] = v]
    /\ pc' = [pc EXCEPT ![r] = IF tag[r] = NoTag THEN "reading" ELSE "mixing"]
    /\ UNCHANGED <<tables, kind, payload, tag, disk, txn, report, answer, history>>

BulkAnswers(r) ==
    /\ pc[r] = "picking"
    /\ todo[r] = {}
    /\ Answer(r, "report")
    /\ UNCHANGED <<tables, kind, todo, payload, tag, disk, txn, report, history>>

(* The tags to write are computed from a row read outside the transaction;
   when there is no row, the whole bulk edit is answered with an error. *)
MixTags(r) ==
    /\ pc[r] = "mixing"
    /\ IF at[r] \in present
       THEN /\ pc' = [pc EXCEPT ![r] = "reading"]
            /\ payload' = [payload EXCEPT ![r].tags = row[at[r]].tags \cup {tag[r]}]
            /\ UNCHANGED <<at, answer>>
       ELSE /\ Answer(r, "error")
            /\ UNCHANGED payload
    /\ UNCHANGED <<tables, kind, todo, tag, disk, txn, report, history>>

(* The old row, without a lock. *)
ReadRow(r) ==
    /\ Writes(r)
    /\ at[r] \in present
    /\ Goto(r, "reading", "writing")
    /\ seen' = [seen EXCEPT ![r] = row[at[r]]]
    /\ UNCHANGED <<tables, kind, todo, at, payload, tag, disk, mine, made, gone,
                   counted, report, answer, history>>

(* Variant: every field is written back, those the payload does not name as
   they were read. *)
WriteRowWhole(r) ==
    /\ IsFree(r)
    /\ at[r] \in present
    /\ pc[r] = "writing"
    /\ pc' = [pc EXCEPT ![r] =
            IF payload[r].disks = "kept" THEN "scoring" ELSE "clearing"]
    /\ mine' = [mine EXCEPT ![r] = Apply(payload[r], seen[r])]
    /\ UNCHANGED <<tables, kind, todo, at, payload, tag, disk, seen, made, gone,
                   counted, report, answer, history>>

(* The update names the fields of the payload and returns the whole row. *)
WriteRow(r) ==
    /\ IsFree(r)
    /\ at[r] \in present
    /\ pc[r] = "writing"
    /\ pc' = [pc EXCEPT ![r] =
            IF payload[r].disks = "kept" THEN "scoring" ELSE "clearing"]
    /\ mine' = [mine EXCEPT ![r] = Apply(payload[r], row[at[r]])]
    /\ UNCHANGED <<tables, kind, todo, at, payload, tag, disk, seen, made, gone,
                   counted, report, answer, history>>

(* The disks of the VM are deleted and those of the payload inserted. *)
ReplaceDisks(r) ==
    /\ IsFree(r)
    /\ Goto(r, "clearing", "scoring")
    /\ gone' = [gone EXCEPT ![r] = disks[at[r]]]
    /\ made' = [made EXCEPT ![r] = IF payload[r].disks = "one" THEN {r} ELSE {}]
    /\ crossed' = crossed \cup CrossedBy(r)
    /\ UNCHANGED <<tables, kind, todo, at, payload, tag, disk, seen, mine, counted,
                   report, answer, chosen, first, written, raced>>

(* The row is not there when the edit reads it or comes to update it. *)
EditFails(r) ==
    /\ Writes(r)
    /\ pc[r] \in {"reading", "writing"}
    /\ IsFree(r)
    /\ at[r] \notin present
    /\ Fail(r)

(* The statement of health takes its snapshot, then may wait for the row. *)
CountChildren(r) ==
    /\ Goto(r, "scoring", "settling")
    /\ counted' = [counted EXCEPT ![r] = DisksSeenBy(r, at[r]) # {}]
    /\ UNCHANGED <<tables, kind, todo, at, payload, tag, disk, seen, mine, made, gone,
                   report, answer, history>>

(* Variant: an entry for every field of the payload, from the row as it is when
   the entry is written, never from the one that was read. *)
EntriesOfPayload(r, f) ==
    IF f \in Names(payload[r])
    THEN <<[who |-> r, old |-> row[at[r]][f], new |-> mine[r][f]]>>
    ELSE <<>>

(* audit: an entry for every field in which the row read and the row written
   differ. *)
Entries(r, f) ==
    IF seen[r][f] # mine[r][f]
    THEN <<[who |-> r, old |-> seen[r][f], new |-> mine[r][f]]>>
    ELSE <<>>

(* Variant: the score is left to changes of the disks. *)
CommitEditUnscored(r) ==
    LET v == at[r] IN
    /\ Writes(r)
    /\ pc[r] = "settling"
    /\ row' = [row EXCEPT ![v] = mine[r]]
    /\ disks' = [disks EXCEPT ![v] = DisksSeenBy(r, v)]
    /\ log' = [log EXCEPT ![v] = [f \in Fields |-> @[f] \o Entries(r, f)]]
    /\ written' = [written EXCEPT ![v] = Apply(payload[r], @)]
    /\ raced' = IF seen[r] = row[v] THEN raced ELSE raced \cup {v}
    /\ updated' = [updated EXCEPT ![r] = @ \cup {v}]
    /\ ForgetTxn(r)
    /\ Finishes(r, "done")
    /\ UNCHANGED <<present, score, kind, todo, payload, tag, disk, failed, chosen,
                   first, crossed>>

(* health writes the score and the transaction commits. *)
CommitEdit(r) ==
    LET v == at[r] IN
    /\ Writes(r)
    /\ pc[r] = "settling"
    /\ row' = [row EXCEPT ![v] = mine[r]]
    /\ score' = [score EXCEPT ![v] = OwnerFact(mine[r]) \cup DiskFact(counted[r])]
    /\ disks' = [disks EXCEPT ![v] = DisksSeenBy(r, v)]
    /\ log' = [log EXCEPT ![v] = [f \in Fields |-> @[f] \o Entries(r, f)]]
    /\ written' = [written EXCEPT ![v] = Apply(payload[r], @)]
    /\ raced' = IF seen[r] = row[v] THEN raced ELSE raced \cup {v}
    /\ updated' = [updated EXCEPT ![r] = @ \cup {v}]
    /\ ForgetTxn(r)
    /\ Finishes(r, "done")
    /\ UNCHANGED <<present, kind, todo, payload, tag, disk, failed, chosen,
                   first, crossed>>

--------------------------------------------------------------------------------
(* Disks one by one: create_child and delete_child. *)

AttachStarts(r) ==
    /\ Starts(r, "attach", "inserting")
    /\ \E v \in present : at' = [at EXCEPT ![r] = v]
    /\ UNCHANGED <<tables, todo, payload, tag, disk, txn, report, answer, history>>

(* The foreign key holds the row against deletion, not against updates. *)
InsertDisk(r) ==
    /\ IsFree(r)
    /\ Goto(r, "inserting", "scoring")
    /\ at[r] \in present
    /\ made' = [made EXCEPT ![r] = {r}]
    /\ crossed' = crossed \cup CrossedBy(r)
    /\ UNCHANGED <<tables, kind, todo, at, payload, tag, disk, seen, mine, gone,
                   counted, report, answer, chosen, first, written, raced>>

(* The foreign key finds the VM deleted. *)
InsertFails(r) ==
    /\ pc[r] = "inserting"
    /\ IsFree(r)
    /\ at[r] \notin present
    /\ Fail(r)

(* The disk is found; its deletion is the next statement. *)
DetachStarts(r) ==
    /\ Starts(r, "detach", "detaching")
    /\ \E v \in present : \E d \in disks[v] :
        /\ at' = [at EXCEPT ![r] = v]
        /\ disk' = [disk EXCEPT ![r] = d]
    /\ UNCHANGED <<tables, todo, payload, tag, txn, report, answer, history>>

(* Nobody looks whether the statement deleted anything. *)
DeleteDisk(r) ==
    /\ IsFree(r)
    /\ Goto(r, "detaching", "scoring")
    /\ gone' = [gone EXCEPT ![r] = {disk[r]} \cap disks[at[r]]]
    /\ crossed' = crossed \cup CrossedBy(r)
    /\ UNCHANGED <<tables, kind, todo, at, payload, tag, disk, seen, mine, made,
                   counted, report, answer, chosen, first, written, raced>>

(* health waits for the row, writes the score from the row as it then is and
   the children as its snapshot has them, and the transaction commits.  When
   the VM has been deleted the statement finds no row. *)
CommitChild(r) ==
    LET v == at[r] IN
    /\ kind[r] \in {"attach", "detach"}
    /\ pc[r] = "settling"
    /\ IsFree(r)
    /\ disks' = [disks EXCEPT ![v] = DisksSeenBy(r, v)]
    /\ score' = IF v \in present
                THEN [score EXCEPT ![v] = OwnerFact(row[v]) \cup DiskFact(counted[r])]
                ELSE score
    /\ ForgetTxn(r)
    /\ Answer(r, "done")
    /\ UNCHANGED <<present, row, log, kind, todo, payload, tag, disk, report,
                   history>>

--------------------------------------------------------------------------------
(* A VM deleted: delete_vm. *)

RemoveStarts(r) ==
    /\ Starts(r, "remove", "removing")
    /\ \E v \in present : at' = [at EXCEPT ![r] = v]
    /\ UNCHANGED <<tables, todo, payload, tag, disk, txn, report, answer, history>>

(* The row is deleted, or another request has deleted it already. *)
DeleteRow(r) ==
    /\ pc[r] = "removing"
    /\ IsFree(r)
    /\ IF at[r] \in present
       THEN /\ pc' = [pc EXCEPT ![r] = "cascading"]
            /\ UNCHANGED <<at, answer>>
       ELSE Answer(r, "done")
    /\ UNCHANGED <<tables, kind, todo, payload, tag, disk, txn, report, history>>

(* The foreign keys delete the disks and the audit entries with the row. *)
CommitRemoval(r) ==
    /\ pc[r] = "cascading"
    /\ IsFree(r)
    /\ present' = present \ {at[r]}
    /\ disks' = [disks EXCEPT ![at[r]] = {}]
    /\ log' = [log EXCEPT ![at[r]] = NoEntries]
    /\ Answer(r, "done")
    /\ UNCHANGED <<row, score, kind, todo, payload, tag, disk, txn, report, history>>

--------------------------------------------------------------------------------
(* Whatever the handler. *)

(* PostgreSQL aborts a transaction that waits for itself. *)
DeadlockVictim(r) ==
    /\ InCycle(r)
    /\ Fail(r)

(* The client goes away, or gives up after its ten seconds: the handler is
   dropped where it waits and its transaction rolled back. *)
Dropped(r) ==
    /\ pc[r] \notin {"new", "end"}
    /\ ForgetTxn(r)
    /\ Answer(r, "dropped")
    /\ UNCHANGED <<tables, kind, todo, payload, tag, disk, report, history>>

Begins(r) ==
    \/ EditStarts(r) \/ BulkStarts(r) \/ AttachStarts(r)
    \/ DetachStarts(r) \/ RemoveStarts(r)

Step(r) ==
    \/ PickNext(r) \/ BulkAnswers(r) \/ MixTags(r)
    \/ ReadRow(r) \/ WriteRow(r) \/ ReplaceDisks(r) \/ EditFails(r)
    \/ CountChildren(r) \/ CommitEdit(r)
    \/ InsertDisk(r) \/ InsertFails(r) \/ DeleteDisk(r) \/ CommitChild(r)
    \/ DeleteRow(r) \/ CommitRemoval(r)
    \/ DeadlockVictim(r)

(* Every request is answered or dropped. *)
Finished ==
    /\ \A r \in Requests : pc[r] = "end"
    /\ UNCHANGED vars

Next == (\E r \in Requests : Begins(r) \/ Step(r) \/ Dropped(r)) \/ Finished

Spec == Init /\ [][Next]_vars

(* The database runs every statement it can, and handlers are polled. *)
FairSpec == Spec /\ \A r \in Requests : WF_vars(Step(r))

--------------------------------------------------------------------------------
TypeOK ==
    /\ present \subseteq Vms
    /\ row \in [Vms -> Values]
    /\ score \in [Vms -> SUBSET Facts]
    /\ disks \in [Vms -> SUBSET DiskIds]
    /\ log \in [Vms -> [Fields -> Seq(Entry)]]
    /\ kind \in [Requests -> Kinds]
    /\ pc \in [Requests -> Stages]
    /\ todo \in [Requests -> SUBSET Vms]
    /\ at \in [Requests -> Vms \cup {NoVm}]
    /\ payload \in [Requests -> Payloads]
    /\ tag \in [Requests -> Tags \cup {NoTag}]
    /\ disk \in [Requests -> DiskIds \cup {NoDisk}]
    /\ seen \in [Requests -> Values]
    /\ mine \in [Requests -> Values]
    /\ made \in [Requests -> SUBSET DiskIds]
    /\ gone \in [Requests -> SUBSET DiskIds]
    /\ counted \in [Requests -> BOOLEAN]
    /\ updated \in [Requests -> SUBSET Vms]
    /\ failed \in [Requests -> SUBSET Vms]
    /\ answer \in [Requests -> Answers]
    /\ chosen \in [Requests -> SUBSET Vms]
    /\ first \in [Vms -> Values]
    /\ written \in [Vms -> Values]
    /\ raced \subseteq Vms
    /\ crossed \subseteq Vms

(* No committed write of a field is undone by somebody who did not name the
   field: edits of different fields of one VM both survive. *)
NoWriteIsLost == row = written

(* The history of a field leads from what it was to what it is, each entry
   from where the last one ended, naming somebody who asked for the change. *)
Accounts(v, f) ==
    LET es == log[v][f] IN
    /\ \A i \in 1 .. Len(es) :
        /\ es[i].old = (IF i = 1 THEN first[v][f] ELSE es[i - 1].new)
        /\ es[i].new # es[i].old
        /\ f \in Names(payload[es[i].who])
    /\ row[v][f] = (IF es = <<>> THEN first[v][f] ELSE es[Len(es)].new)

(* While nobody updated the VM between the read and the update of another
   edit, the audit log tells its whole history. *)
LogAccountsForRow ==
    \A v \in present \ raced, f \in Fields : Accounts(v, f)

(* The report of a bulk edit names every VM it selected, as updated or as
   failed; one that failed bears no trace of it. *)
BulkReportIsTrue ==
    \A r \in Requests :
        /\ answer[r] = "report" =>
            /\ updated[r] \cup failed[r] = chosen[r]
            /\ updated[r] \cap failed[r] = {}
        /\ \A v \in Vms \ updated[r], f \in Fields :
            \A i \in 1 .. Len(log[v][f]) : log[v][f][i].who # r

(* Unless two requests changed the disks of a VM at a time, its score says
   whether it has any; and whether it has an owner, whoever overtook whom. *)
ScoreIsCurrent ==
    \A v \in present :
        /\ "owner" \in score[v] <=> row[v].owner # NoOwner
        /\ v \notin crossed => ("disk" \in score[v] <=> disks[v] # {})

(* No two requests hold the row of a VM. *)
RowLocksExclude ==
    \A v \in Vms, q, r \in Requests :
        (HoldsRow(q, v) /\ HoldsRow(r, v)) => q = r

(* Whatever waits for whatever, every request ends. *)
EveryRequestEnds == \A r \in Requests : (pc[r] # "new") ~> (pc[r] = "end")
================================================================================
