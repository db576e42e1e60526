------------------------------- MODULE CsvImport -------------------------------
(***************************************************************************)
(* A CSV import from the page to the inventory: the page previews a file   *)
(* and commits the batch it shows (routes/ImportCsvPage.tsx), the backend  *)
(* stores each preview as a batch of rows and applies it in one            *)
(* transaction (api/auxiliary/imports.rs: preview, commit, commit_row),    *)
(* while others edit, move and delete VMs.                                 *)
(*                                                                         *)
(* A call may be answered after the page has gone on, or time out while    *)
(* the backend carries it out.  A VM's case-insensitive name and cluster   *)
(* are values; owner stands for the curated texts and dates and monitoring *)
(* for the curated flags (monitoring_enabled, pmp_enabled).  What a row    *)
(* does to networks is in ImportPlan.                                      *)
(***************************************************************************)
EXTENDS ImportPlan, Sequences, FiniteSets, FiniteSetsExt

CONSTANTS
    Ids,            \* bound: ids for VMs; a row to create that finds none left fails
    Inventories,    \* the inventories to start from: [Ids -> VM or NoVm]
    Files,          \* the files a user may choose: sequences of rows
    Clusters,       \* where a VM may be
    Owners,         \* the owners others give to a VM
    NoVm, Gone,     \* an id not used yet, or of a VM that was deleted
    NoFile,         \* no file is chosen
    MaxPreviews,    \* bound: previews sent
    MaxCommits,     \* bound: commits sent
    MaxEdits        \* bound: edits by others

(* normalize: a row has a name, a platform of two and a cluster. *)
Platforms == {"proxmox", "vmware"}

CsvRow ==
    [platform : Platforms, name : Texts, cluster : Clusters,
     ext : Texts \cup {Blank}, owner : Texts \cup {Blank},
     monitoring : Flags \cup {Blank}]

Vm ==
    [platform : Platforms, name : Texts, cluster : Clusters,
     ext : Texts \cup {Blank}, owner : Texts \cup {Blank}, monitoring : Flags,
     status : {"running", "unknown", "decommissioned"}]

ASSUME NoVmIsNone == NoVm # Gone /\ NoVm \notin Vm /\ Gone \notin Vm
ASSUME IdsAreFinite == IsFiniteSet(Ids)
ASSUME OwnersAreTexts == Owners \subseteq Texts
ASSUME FilesHoldRows == Files \subseteq Seq(CsvRow)
ASSUME InventoriesHoldVms == Inventories \subseteq [Ids -> Vm \cup {NoVm, Gone}]
ASSUME BoundsAreNatural ==
    MaxPreviews \in Nat /\ MaxCommits \in Nat /\ MaxEdits \in Nat

VARIABLES
    vms,        \* table vms
    batches,    \* tables csv_import_batches and csv_import_rows, in order
    page,       \* the state of the page
    previews,   \* preview calls
    commits,    \* commit calls
    edits,      \* edits by others so far
    applied,    \* history: how often each batch was applied
    ticked      \* history: batches whose majority the user confirmed

vars == <<vms, batches, page, previews, commits, edits, applied, ticked>>

Live == {v \in Ids : vms[v] \notin {NoVm, Gone}}

Init ==
    /\ vms \in Inventories
    /\ batches = <<>>
    /\ page = [file |-> NoFile, batch |-> 0, shown |-> "none", tick |-> FALSE]
    /\ previews = <<>>
    /\ commits = <<>>
    /\ edits = 0
    /\ applied = <<>>
    /\ ticked = {}

--------------------------------------------------------------------------------
(* Rows and the VMs they match. *)

(* identity: an external id counts for Proxmox, and only with the name. *)
Identity(x) ==
    IF x.platform = "proxmox" THEN <<x.platform, x.ext, x.name, x.cluster>>
    ELSE <<x.platform, x.name, x.cluster>>

Scope(x) == <<x.cluster, x.platform>>

(* updates: the owner and the flag are curated, the external id is not. *)
Updated(vm, row) ==
    [vm EXCEPT !.owner = Filled(@, row.owner), !.monitoring = Filled(@, row.monitoring),
               !.ext = Replaced(@, row.ext)]

Created(row) ==
    [platform |-> row.platform, name |-> row.name, cluster |-> row.cluster,
     ext |-> row.ext, owner |-> row.owner, monitoring |-> Replaced("false", row.monitoring),
     status |-> "unknown"]

(* The unique indexes of vms: an external id, but for Proxmox, and the name of a VM
   without one. *)
IsUnique(table, v) ==
    \A w \in Ids \ {v} :
        table[w] \notin {NoVm, Gone} /\ table[w].platform = table[v].platform
                /\ table[w].ext = table[v].ext =>
            IF table[v].ext = Blank THEN table[w].name # table[v].name
            ELSE table[v].platform = "proxmox"

(* One VM for each identity: the first that the query happens to return. *)
Firsts ==
    {S \in SUBSET Live :
        /\ \A s, t \in S : Identity(vms[s]) = Identity(vms[t]) => s = t
        /\ \A v \in Live : \E s \in S : Identity(vms[s]) = Identity(vms[v])}

Row(action, target, cells) == [action |-> action, target |-> target, cells |-> cells]

(* preview: the action of the row at i, and its target among the VMs of S. *)
Classified(file, i, S) ==
    LET row == file[i]
        match == {v \in S : Identity(vms[v]) = Identity(row)}
        v == CHOOSE m \in match : TRUE
    IN  IF \E j \in 1..(i - 1) : Identity(file[j]) = Identity(row)
        THEN Row("conflict", NoVm, row)
        ELSE IF match = {} THEN Row("create", NoVm, row)
        ELSE Row(IF Updated(vms[v], row) = vms[v] THEN "unchanged" ELSE "update", v, row)

(* preview: the VMs that a full inventory misses in the scopes it covers. *)
Missing(file, matched) ==
    {v \in Live :
        /\ vms[v].status # "decommissioned"
        /\ v \notin matched
        /\ Scope(vms[v]) \in {Scope(file[i]) : i \in DOMAIN file}}

Batch(file, full, S) ==
    LET named == [i \in DOMAIN file |-> Classified(file, i, S)]
        matched == {named[i].target : i \in DOMAIN named} \ {NoVm}
        missing == IF full THEN Missing(file, matched) ELSE {}
        gone == SetToSeq(missing)
    IN  [file |-> file, status |-> "previewed",
         rows |-> named \o [n \in DOMAIN gone |-> Row("decommission", gone[n], NoFile)],
         total |-> IF full THEN Cardinality(missing \cup matched) ELSE 0]

Count(b, action) == Cardinality({i \in DOMAIN b.rows : b.rows[i].action = action})

(* More than half of the VMs in the scopes of the file. *)
IsMajority(b) ==
    /\ Count(b, "decommission") > 0
    /\ b.total > 0
    /\ Count(b, "decommission") * 2 > b.total

--------------------------------------------------------------------------------
(* The page. *)

Previewing == \E i \in DOMAIN previews : previews[i].open /\ previews[i].bound

(* commit.reset and preview.reset: the call goes on, but no longer follows the
   page; what it does with its answer is what the page was then. *)
Reset(calls) == [i \in DOMAIN calls |-> [calls[i] EXCEPT !.bound = FALSE]]

(* A call that follows the page has the latest batch in its onSuccess. *)
Following(calls, b) ==
    [i \in DOMAIN calls |-> IF calls[i].bound THEN [calls[i] EXCEPT !.seen = b] ELSE calls[i]]

(* handleFileChange. *)
ChooseFile(f) ==
    /\ page.file # f
    /\ page' = [file |-> f, batch |-> 0, shown |-> "none", tick |-> FALSE]
    /\ previews' = Reset(previews)
    /\ commits' = Reset(commits)
    /\ UNCHANGED <<vms, batches, edits, applied, ticked>>

Preview(full) ==
    /\ page.file # NoFile
    /\ ~Previewing
    /\ Len(previews) < MaxPreviews
    /\ page' = [page EXCEPT !.batch = 0, !.shown = "none", !.tick = FALSE]
    /\ previews' = Append(Reset(previews),
            [file |-> page.file, full |-> full, batch |-> 0, open |-> TRUE, bound |-> TRUE])
    /\ commits' = Reset(commits)
    /\ UNCHANGED <<vms, batches, edits, applied, ticked>>

Tick ==
    /\ page.shown = "previewed"
    /\ IsMajority(batches[page.batch])
    /\ page' = [page EXCEPT !.tick = ~@]
    /\ ticked' = IF page'.tick THEN ticked \cup {page.batch} ELSE ticked
    /\ UNCHANGED <<vms, batches, previews, commits, edits, applied>>

(* cannotCommit. *)
CannotCommit ==
    \/ \E i \in DOMAIN commits : commits[i].open /\ commits[i].bound
    \/ Count(batches[page.batch], "conflict") > 0
    \/ page.shown = "committed"
    \/ IsMajority(batches[page.batch]) /\ ~page.tick

Commit ==
    /\ page.batch # 0
    /\ ~CannotCommit
    /\ Len(commits) < MaxCommits
    /\ commits' = Append(Reset(commits),
            [batch |-> page.batch, confirm |-> page.tick, at |-> "sent",
             open |-> TRUE, bound |-> TRUE, seen |-> page.batch])
    /\ UNCHANGED <<vms, batches, page, previews, edits, applied, ticked>>

(* Variant: the tick is kept when another batch is shown. *)
TickForNewBatchKept == page.tick

(* setConfirmDecommission(false). *)
TickForNewBatch == FALSE

(* onSuccess of the preview, also when another file has been chosen meanwhile. *)
PreviewAnswered(i) ==
    /\ previews[i].open
    /\ previews[i].batch # 0
    /\ previews' = [previews EXCEPT ![i].open = FALSE]
    /\ page' = [page EXCEPT !.batch = previews[i].batch, !.shown = "previewed",
                             !.tick = TickForNewBatch]
    /\ commits' = Following(commits, page'.batch)
    /\ UNCHANGED <<vms, batches, edits, applied, ticked>>

(* onSuccess of the commit marks the batch that the page shows, or, after a reset,
   the one it showed then. *)
CommitAnswered(i) ==
    /\ commits[i].open
    /\ commits[i].at = "done"
    /\ page' = [page EXCEPT !.batch = commits[i].seen, !.shown = "committed"]
    /\ commits' = Following([commits EXCEPT ![i].open = FALSE], page'.batch)
    /\ UNCHANGED <<vms, batches, previews, edits, applied, ticked>>

(* A timeout or an error answer: the page can preview or commit again. *)
PreviewFails(i) ==
    /\ previews[i].open
    /\ previews' = [previews EXCEPT ![i].open = FALSE]
    /\ UNCHANGED <<vms, batches, page, commits, edits, applied, ticked>>

CommitFails(i) ==
    /\ commits[i].open
    /\ commits' = [commits EXCEPT ![i].open = FALSE]
    /\ UNCHANGED <<vms, batches, page, previews, edits, applied, ticked>>

--------------------------------------------------------------------------------
(* The backend. *)

PreviewMade(i) ==
    /\ previews[i].batch = 0
    /\ \E S \in Firsts : batches' = Append(batches, Batch(previews[i].file, previews[i].full, S))
    /\ applied' = Append(applied, 0)
    /\ previews' = [previews EXCEPT ![i].batch = Len(batches')]
    /\ UNCHANGED <<vms, page, commits, edits, ticked>>

(* Variant: the batch is not locked. *)
LockFreeUnlocked(i) == TRUE

(* SELECT .. FOR UPDATE of the batch. *)
LockFree(i) ==
    \A j \in DOMAIN commits : commits[j].at = "checked" => commits[j].batch # commits[i].batch

MayApply(b, confirm) ==
    /\ b.status = "previewed"
    /\ Count(b, "conflict") = 0
    /\ IsMajority(b) => confirm

CommitChecks(i) ==
    /\ commits[i].at = "sent"
    /\ LockFree(i)
    /\ commits' = [commits EXCEPT ![i].at =
            IF MayApply(batches[commits[i].batch], commits[i].confirm) THEN "checked"
            ELSE "refused"]
    /\ UNCHANGED <<vms, batches, page, previews, edits, applied, ticked>>

(* Variant: the target of an update is not looked at again. *)
StillMatchesAny(table, row) == table[row.target] \notin {NoVm, Gone}

(* A target that was deleted is gone; one to update must still match its row. *)
StillMatches(table, row) ==
    /\ table[row.target] \notin {NoVm, Gone}
    /\ row.action = "update" => Identity(table[row.target]) = Identity(row.cells)

Unused(table) == {v \in Ids : table[v] = NoVm}

(* commit_row and write_vm: the row is read again when its lock is taken. *)
RowApplied(table, row) ==
    CASE row.action = "create" ->
            [table EXCEPT ![CHOOSE v \in Unused(table) : TRUE] = Created(row.cells)]
      [] row.action = "update" ->
            [table EXCEPT ![row.target] = Updated(@, row.cells)]
      [] row.action = "decommission" ->
            [table EXCEPT ![row.target].status = "decommissioned"]

(* A row that fails rolls all back: there is no more ok. *)
AfterRow(done, row) ==
    IF row.action = "unchanged" \/ ~done.ok THEN done
    ELSE IF IF row.action = "create" THEN Unused(done.vms) = {}
            ELSE ~StillMatches(done.vms, row)
        THEN [ok |-> FALSE, vms |-> done.vms]
    ELSE LET table == RowApplied(done.vms, row)
             touched == {v \in Ids : table[v] # done.vms[v]}
         IN  [ok |-> \A v \in touched : IsUnique(table, v), vms |-> table]

(* Rows are applied in order. *)
Applied(rows) ==
    LET done[n \in 0 .. Len(rows)] ==
            IF n = 0 THEN [ok |-> TRUE, vms |-> vms] ELSE AfterRow(done[n - 1], rows[n])
    IN  done[Len(rows)]

CommitApplies(i) ==
    LET b == commits[i].batch
        done == Applied(batches[b].rows)
    IN  /\ commits[i].at = "checked"
        /\ done.ok
        /\ vms' = done.vms
        /\ batches' = [batches EXCEPT ![b].status = "committed"]
        /\ applied' = [applied EXCEPT ![b] = @ + 1]
        /\ commits' = [commits EXCEPT ![i].at = "done"]
        /\ UNCHANGED <<page, previews, edits, ticked>>

CommitRollsBack(i) ==
    /\ commits[i].at = "checked"
    /\ ~Applied(batches[commits[i].batch].rows).ok
    /\ commits' = [commits EXCEPT ![i].at = "refused"]
    /\ UNCHANGED <<vms, batches, page, previews, edits, applied, ticked>>

--------------------------------------------------------------------------------
(* Others edit the inventory. *)

EditBy(table) ==
    /\ edits < MaxEdits
    /\ table # vms
    /\ vms' = table
    /\ edits' = edits + 1
    /\ UNCHANGED <<batches, page, previews, commits, applied, ticked>>

SetOwner(v, t) == EditBy([vms EXCEPT ![v].owner = t])
SetMonitoring(v, flag) == EditBy([vms EXCEPT ![v].monitoring = flag])
Move(v, c) == EditBy([vms EXCEPT ![v].cluster = c])
Delete(v) == EditBy([vms EXCEPT ![v] = Gone])

Next ==
    \/ \E f \in Files \cup {NoFile} : ChooseFile(f)
    \/ \E full \in BOOLEAN : Preview(full)
    \/ Tick
    \/ Commit
    \/ \E i \in DOMAIN previews : PreviewAnswered(i) \/ PreviewFails(i) \/ PreviewMade(i)
    \/ \E i \in DOMAIN commits :
        \/ CommitAnswered(i) \/ CommitFails(i)
        \/ CommitChecks(i) \/ CommitApplies(i) \/ CommitRollsBack(i)
    \/ \E v \in Live :
        \/ \E t \in Owners : SetOwner(v, t)
        \/ \E flag \in Flags : SetMonitoring(v, flag)
        \/ \E c \in Clusters : Move(v, c)
        \/ Delete(v)

Spec == Init /\ [][Next]_vars

--------------------------------------------------------------------------------
(* Properties. *)

(* A batch is applied at most once, however often its commit is sent again after
   a timeout. *)
AppliedOnce == \A b \in DOMAIN applied : applied[b] <= 1

(* More than half of a scope is only decommissioned when the user ticked the
   confirmation for that very batch, not for one shown before. *)
MajorityConfirmed ==
    \A b \in DOMAIN batches :
        batches[b].status = "committed" /\ IsMajority(batches[b]) => b \in ticked

(* An import never overwrites an owner that is set or a flag that is on, also one
   set between the preview and the commit. *)
CuratedKept ==
    [][edits' = edits =>
        \A v \in Live :
            /\ supplied(vms[v].owner) => vms'[v].owner = vms[v].owner
            /\ supplied(vms[v].monitoring) => vms'[v].monitoring = vms[v].monitoring]_vars

(* What an import writes to a VM comes from a row with the identity the VM has
   now, whatever became of it since the preview. *)
UpdatesMatchTheirRow ==
    [][edits' = edits =>
        \A v \in Live :
            <<vms'[v].owner, vms'[v].monitoring, vms'[v].ext>>
                    # <<vms[v].owner, vms[v].monitoring, vms[v].ext>> =>
                \E b \in DOMAIN batches :
                    /\ batches'[b].status = "committed"
                    /\ \E i \in DOMAIN batches[b].file :
                        Identity(batches[b].file[i]) = Identity(vms[v])]_vars

(* The page says of owner, monitoring_enabled and others that an import never
   overwrites a value already set there (routes/ImportCsvPage.tsx). *)
SetValuesKept ==
    [][edits' = edits =>
        \A v \in Live :
            /\ vms[v].owner # Blank => vms'[v].owner = vms[v].owner
            /\ vms'[v].monitoring = vms[v].monitoring]_vars

(* The page says of the external id that, when present, it is what matches a row to
   an existing VM instead of the name (routes/ImportCsvPage.tsx). *)
MatchedByExternalId ==
    [][\A b \in DOMAIN batches' \ DOMAIN batches :
        \A i \in DOMAIN batches'[b].file :
            LET row == batches'[b].file[i] IN
            (\E v \in Live :
                row.ext # Blank /\ vms[v].ext = row.ext /\ Scope(vms[v]) = Scope(row)) =>
                batches'[b].rows[i].action # "create"]_vars

================================================================================
