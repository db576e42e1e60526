# InventoryMGR: specifications

TLA+ models of the InventoryMGR backend and of the parts of its frontend that keep
state of the backend, the TLC runs that check them on small instances and the
TLAPS proofs that hold for every value of the constants.

    tlc -config MCRestoreGate.cfg MCRestoreGate.tla     # one line per run below
    tlapm RestoreGateProofs.tla

## 1. The system

InventoryMGR keeps a manual inventory of virtual machines, storage and clusters.
What is deployed is the Rust backend (`src/backend-rust`: Axum, SQLx,
PostgreSQL 17), one process per database, behind a Next.js frontend
(`src/frontend`). `src/backend` is the former Python implementation and serves
the parity tests as an oracle; `src/.github/skills` is vendored. The models are
about the Rust backend and the frontend. Paths below are relative to
`src/backend-rust/src`, or to `src/frontend/src` for `.ts` and `.tsx` files.

| Component | State | Operations | Hard about it | Correct when |
|---|---|---|---|---|
| Database gate, `main.rs` | a fair `RwLock` in memory | every request takes the shared side after its body is read; a restore takes the exclusive side | a waiting restore blocks readers behind it; futures are dropped at any await | a handler sees one database; everybody gets through |
| Restore, `api/auxiliary/backups.rs` | live database, archives, marker file | check, upload, stage, check again, recovery dump, drain, rotate, marker, `pg_restore`, drain, migrate, rotate, unmark | a crash, error or disconnect between any two steps | no old session survives, no acknowledged write is lost, the actor is an administrator now |
| Sessions, `api/deps.rs`, `api/auth.rs` | `session_generation`, `session_epoch` rows; two statics | validate, issue, invalidate | the rows live in the database that is replaced | a refused token stays refused |
| Connection pool | up to 20 connections | handlers execute, a restore drains | a dropped handler's statement goes on; a drain below the limit opens connections instead of waiting | only what nobody was answered for outlives a drain |
| Backups, `backups.rs` | `backup_jobs` rows, archives, `.dump.partial` files | dump, prune, delete, settings, startup recovery | the rows are part of what is dumped and restored; prunes run concurrently | the newest archives stay, rows tell the truth, partial files go |
| Scheduler, `backups.rs` | last success | `tick` every 5 minutes, `should_run` | boundaries of 23 and 36 hours, failures | at most one dump a day, none skipped for long |
| Staging databases, instance lease, `backups.rs`, `main.rs` | databases by name, advisory lock | create, drop, reclaim; acquire, probe | detection takes up to 9 s; migrations run before it | one owner; only own leftovers are dropped |
| Migrations, `db/mod.rs` | revision row | run the rest of the chain | several transactions | a crash resumes |
| Login limiter, `api/auth.rs` | queues of attempts by key | `check` | capacity, window | the limit holds in every window |
| Accounts, setup, LDAP, `api/accounts`, `core/ldap.rs` | `users` | create, update, delete, setup, login | authorization before the lock, role synchronisation at login | there is an active administrator |
| Inventory, `api/inventory` | rows, tags, disks, audit, health score | edit, bulk edit, child rows, delete | read committed: what is read is stale when it is written | no field lost, history and score right, reports true |
| Import, `api/auxiliary/imports.rs`, `routes/ImportCsvPage.tsx` | batches and rows; the batch on the page | preview, commit | long time between both, late answers, timeouts | applied once, nothing curated lost, only rows that still match |
| Alerts, `api/auxiliary/reporting.rs`, `components/NotificationBell.tsx` | acknowledgements; the cached list | due, ack; open, dismiss | a list is changed before it is saved, fetches overlap | page and backend agree in the end |
| Session client, `api/core.ts` | cookie jar, one refresh in flight | request, refresh, retry, logout | the jar changes between header and cookie; timeouts | one execution, a true outcome, a final logout |
| Preferences, `accounts/preferences.rs`, `hooks/useColumnPreferences.ts`, `AccentProvider.tsx` | columns and accent, on the page and in the table | load, change, save | debounce, optimistic display, saves out of order | the last change wins |

They interact through the database, through the gate (every handler and the
scheduler below it, `/api/health` and the restore handler around it), through
the backup directory (archives, partial files, marker) and through the two
statics of `deps.rs`. The frontend meets the backend only through requests and
the browser's cookies. `PROJECT.json` lists the components with their status and
every hazard at its line.

## 2. Modules

| Module | Contents |
|---|---|
| `RestoreGate` | gate, sessions, restore; crash, restart and repair |
| `RestoreGateProofs` | its theorems |
| `MCRestoreGate` | instance for safety |
| `MCGateLive` | instance for liveness and the refinement, with `Startup` |
| `ConnectionDrain` | dropped handlers and the drain of the pool |
| `ConnectionDrainProofs` | its theorems; its instance is in `MCBackups`, and `ConnectionDrainExact.cfg` |
| `Backups` | dumps, job rows, files, prune, startup recovery |
| `BackupsProofs`, `MCBackups` | its theorems; instance, with `ConnectionDrain` |
| `Accounts` | setup, logins, directory, administration of users |
| `AccountsProofs`, `MCAccounts` | its theorems; instance |
| `RestorePromise` | the abstract restore that `RestoreGate` implements; the refinement is proved in `RestoreGateProofs` |
| `Inventory`, `InventoryProofs`, `MCInventory` | edits of VMs under row locks; theorems; instance |
| `ImportPlan` | what one row of an import does to one VM: operators only |
| `CsvImport`, `MCCsvImport`, `CsvImportProofs` | page, preview and commit, with `ImportPlan`; instance, with four configurations; theorems about both |
| `SessionClient`, `MCSessionClient` | the page's session; instance, with `LoginLimiter` |
| `LoginLimiter` | attempts in a window; its theorems are in `AccountsProofs` |
| `Startup`, `StartupProofs` | migrations, instance lease, staging databases; theorems; its instance is in `MCGateLive` |
| `Accent`, `ColumnPreferences`, `NotificationBell` | three parts of the page that show what is not saved yet |
| `MCPages` | composes these three; instance |
| `FrontendProofs` | theorems about `SessionClient` and the parts of `MCPages` |

Components that share no state are checked by one run where that saves one: its
module has a variable `part` that says which of them a behaviour follows, while the
others stay as they begin. Each is checked as if it were alone.

Operators whose comment begins with *Variant* are not part of a specification:
each is a plausible mistake in the code, and the property named with it in
`PROJECT.json` ("mutants") fails when it takes the place of the operator after it.

### RestoreGate

The core. A request is sent, waits in the gate's queue, authenticates, commits,
responds; a restore is submitted, checks under the shared side, uploads
outside the gate, waits for the exclusive side and goes through the cutover.
`pc` says where each one is and has one value per await that matters; each
action is the code from that await to the next.

- `queue`, `readers`, `writer` are tokio's `RwLock`: waiters are served in
  arrival order, a reader behind a waiting writer waits too, a dropped waiter
  leaves the queue (`Leave`, `Without`).
- `live` is the database, reduced to what the promises tell apart: generation
  (0: no row), whether the epoch is set, the active administrators, the writes
  committed. `archives` are completed dumps, each the database it was taken of.
- A generation is a number that is made only once (`latestGen`), as the UUIDs
  of the code are. A token carries a generation, or 0 when it was issued before
  generations existed; such tokens are good as long as no epoch is set,
  because all of them are older than any epoch.
- `blocked`, `initialized` and `marker` are `RESTORE_AUTH_BLOCKED`,
  `RESTORE_AUTH_INITIALIZED` and the file. `CallOnce` is part of every
  authentication, as in `auth_available`.
- `Abort` is every `?` and every dropped future: the guard goes, what was done
  stays done, authentication may stay blocked. What a dropped handler had sent to
  PostgreSQL is `pending`: `Land` executes it at any later time, before or after a
  restore has the gate, or never. What lands under a restore's guard is in `late`. `Crash` forgets memory and keeps
  the disk; `OperatorRepair` is the procedure of `docs/RUNBOOK.md`.
- `era`, `acked`, `entryEra` and the eras in tokens are history and guard nothing.

Abstracted: roles below administrator, presence of accounts, credential
fingerprints, CSRF (derived from the token). The second drain and the migration
are part of `RotateAgain`, and the job row of the restore of `UnblockAuth`;
when one of them fails that is `Abort` before it. `pg_restore` runs in one
transaction under table locks: it replaces everything or nothing, also when the
handler is dropped meanwhile. It waits for a demotion under way, which has locked
the table of users, so that a demotion does not land in the database that replaced
its own; a write may. The drains are no steps here, because they do not keep a
statement from landing: `ConnectionDrain` takes them apart. A cutover may so act for
an administrator whom a dropped handler demoted after the second check
(`DemotedLate`). A `pg_restore` that outlives a killed server process is not modelled.

### ConnectionDrain

Handler, PostgreSQL and pool as three parties. A handler that is dropped
(`Disconnect`) releases the gate, but its statement stays `pending` and is
executed, and its connection stays busy until then. The pool is its permits: an
acquire (`Acquire`) needs one of `MaxConnections` that is neither with a busy
connection nor with the drain, and takes an idle connection or opens a new one. So
`drain_connections`, which counts the pool's connections once and acquires as many,
waits for a busy one only where it needs the last permit: with a pool at its limit
of 20. Below it the drain is *roomy*: it takes new connections and closes them, and
a statement may outlive it and `pg_restore` too. The five seconds an acquire may take
end in `AbandonRestore`. Only handlers that write matter here; authorization and the
queue are left out, a death of the process too.

### Backups

Each dump goes through insert of its row, `pg_dump` into a hidden file, rename,
update of the row, and, unless it is the recovery dump of a restore, the three
steps of `prune`: list, query of running rows, removal. `snapshot[d]` are the
rows inside archive `d`, which a restore (`Replace`) makes the live rows while
the files stay. `Abort` leaves at any step, `Crash` keeps rows and files, and
startup removes the partial files of running rows before it closes these rows.

Abstracted: retention is a constant, modification times are distinct numbers in
the order in which dumps end, deletions and prunes of files succeed. A scheduled
dump is a manual one here: it runs under the shared side and prunes in the
same way, and the model already lets any number run at once. The gate is
reduced to what it guarantees the backups: a restore runs alone.

### Accounts

Table `users` (`present`, `row`) and the requests that read and write it. A
request is one action per statement: what a login read is its `claim`, the
session it will be given (`Issue`), while anybody may change the row meanwhile.
`UpdateUser` and `DeleteUser` lock the table before they read and are one action
each, but come after `Authorize`, which does not lock. A directory login looks
up the address typed in, binds, looks up the address of the entry it got
(perhaps another one), then writes the role by the account's identifier or
inserts an account. `Insert` fails where an address is taken, as the unique
constraint makes it.

`secret` is a number per stored password hash; a session carries the number its
fingerprint covers and is `Accepted` only with the number in the row. `proven`
and `via` are history. Abstracted: a wrong password, an exhausted limiter, a
refused bind, a row that others refer to are all `Abandon`. `mapped`, chosen once,
is the set of roles that the directory's groups give, empty where none is
configured. An account exists before a directory is configured, because an
administrator configures it.

### RestorePromise

The restore as its users know it, without gate, marker, generations or crashes:
a database is replaced by one that was dumped, in one step, after all its answered
writes were dumped together and while no session is accepted; what is refused once
stays refused; what is answered is in the database or in a dump. A write that nobody
was answered for may be lost. `RestoreGate` instantiates it
(`Promise`) with accepted sessions being the tokens that would be valid now, and
`KeepsPromise` says that it implements it: a dozen steps of the cutover, an abort
or a death between any two of them, and the repair are each a step of the promise
or a stutter.

### Inventory

Every request is one transaction at READ COMMITTED (a bulk edit one for each VM)
and one action per statement. Locks are no variable: who holds a row or a
disk follows from the statement reached (`HoldsRow`, `gone`), and `WaitsFor` says
whom a statement would wait for. A statement that is `IsFree` runs on the newest
row, as PostgreSQL runs an update after a wait; a request in a cycle
(`InCycle`) may be the victim of the deadlock detector, and then fails as its
handler lets it: alone, or as one VM of a bulk report.

An edit reads the old row without a lock (`ReadRow`), writes the named fields
only (`WriteRow`), replaces the disks, computes the score from a snapshot of
them taken before the row was locked (`CountChildren`), and logs what differs
from the row read (`CommitEdit`). A bulk edit that adds tags reads the tags of
each VM in a statement outside the transaction (`MixTags`). Owner stands for the
fields the score counts, disks for all children. `written`, `raced` and `crossed`
are history: what the writes that name a field make of it, VMs updated under
an edit that had read them, VMs whose disks two requests changed at a time.

### ImportPlan and CsvImport

`ImportPlan` has no state. `Attached` is what `ip_plans` and `attach_children` make
of a VM's networks for a row: addresses of a role are matched, networks of the
role that its column does not mention are taken over, the rest is added. `Fresh` is
the filter over a list that keeps what is not in a set, each once. `Filled` and
`Replaced` are the two ways in which a field of a row reaches a VM; a curated flag
that is off is not `supplied`, so that it is filled. Nothing keeps a VM from having an
address twice, and `NetworkLists` has such VMs too. `MCCsvImport`
has behaviours (`part = "networks"`) that import one row to one VM repeatedly, for
every VM and row within the bounds.

`CsvImport` is the page and the backend with calls between them that are open,
answered late or given up. `Classified` is the preview's decision for a row
(`create`, `update`, `unchanged`, or `conflict` with an earlier row), `Missing`
the VMs a full import would decommission. A commit is one transaction in two
steps: `CommitChecks` takes the batch with `FOR UPDATE` and decides whether it may
be applied, `CommitApplies` applies all rows or `CommitRollsBack` none, with what
is there now: `StillMatches` is asked again for every row. Others edit,
move and delete VMs in between. Which answer is still bound to the page (`bound`)
is what its callbacks close over. Disks and applications of a row, parsing
and error texts are left out.

### SessionClient

`apiRequest` from the header it reads, over the cookies the browser attaches
afterwards, to its outcome; the shared refresh is a request of its own with
cookies of its own. The server answers by the session in the cookie: 401 when it
expired, 403 when the header is another session's, or it executes. `Expire` and
`Revoke` happen at any time. The timer runs for a request but not while it
awaits a refresh, as in the code. `crossed` and `overlapped` are history.

### LoginLimiter

`Attempts::check` as one action (`Check`): sweep, look up, refuse or record. Time is
the number of ticks since the start. The paths of a key (account, address,
directory) are keys here, each with its limit.

### Startup

`main` from the migration to the end. `Script` is the revision chain as the file
has it: transaction lines, revisions, and the one enum value that must be
committed before it is used; a process may find any revision, take the lock, die at
any batch, and resume. The lease is a lock of a connection's session: the
connection may break in a way the process notices or not, and the server may end
the session at once, later or never; an answer to the probe that was sent before
(`ServerAnswers`) still arrives. Ticks of a second count how long a process
serves without it; `Tick` waits for who is due, that is, the monitor is assumed to
be polled in time. Staging databases are names with a maker.

### Accent, ColumnPreferences, NotificationBell

Each is a piece of page state that runs ahead of the backend, with the requests
that bring both together again. A fetch reads and answers in two steps, a save is
stored and answered in two steps, and each may fail in either. A save of the accent
that is answered cancels the load under way and starts another, but joins it when it is
the first and there is no data yet, as TanStack Query does. A stored layout may be of
an older version: with an old name of a column, without one, with one twice, or with
one that the page no longer has, which `set_columns` refuses (`Refuse`). That such
layouts exist is inferred: `COLUMNS` skips the order 10, and migration 0022 dropped
`lifecycle`. They share
no state; `MCPages` lets a behaviour follow one of them. The histories
(`overtaken`, `joined`, `raced`, `behind`, `failed`, `lost`) name exactly the orders in
which the code does lose something; see "Divergences".

## 3. Runs

| Run | Instance | Shows |
|---|---|---|
| `gate` | 2 requests, 2 restores, 2 users; 1 death while only three of the four clients have come | `HandlersSeeOneDatabase`, `RestoreRevokesSessions`, `NoResurrection`, `AcknowledgedWritesRecoverable`, `CutoverStaysAuthorized` |
| `gate_live` | 2 requests, 1 restore, 1 user, 2 deaths | `GateServesEveryone`; `KeepsPromise`, the refinement of `RestorePromise` |
| | `Startup`: 2 processes, 1 staging database, probes every 5 ticks, 2 to answer | `StartsUpgrade`, `ServesBrieflyWithoutLease`, `OwnersStagingKept` |
| `backups` | 3 dumps, retention 1, 1 death | `InFlightArchiveKept`, `NewestArchivesKept`, `SuccessHadArchive`, `PartialsReclaimed` |
| | `ConnectionDrain`: 2 requests, 2 restores, at most 2 connections | `StraysPassRoomyDrains`, `RecoveryLacksOnlyAbandoned` |
| `accounts` | 2 founders of any kind or an empty table, 4 identifiers, 3 addresses, 3 requests, any directory | `CredentialsStayApart`, `SessionsProveCurrentPassword`, `SetupOnce`, `AdminsVanishOnlyByDirectory` |
| `drain_exact` | 1 request, 1 restore | `RecoveryArchiveIsExact` is violated |
| `inventory` | 2 requests of any kind on 2 VMs with 2 disks, 6 payloads | `NoWriteIsLost`, `LogAccountsForRow`, `BulkReportIsTrue`, `ScoreIsCurrent`, `EveryRequestEnds` |
| `session_client` | a read, a write, a logout | `OutcomesAreTrue`, `RefusedOnlyAcrossChange`, `LogoutEndsSession`, `EveryRequestEnds` |
| | `LoginLimiter`: 3 keys, room for 2, limits 1 and 2, window of 3 ticks | `WithinBudget`, `RefusedForAReason` |
| `csv_import` | 2 files, 2 previews, 2 commits, 1 edit; plans for 2 networks and 2 addresses | `AppliedOnce`, `MajorityConfirmed`, `CuratedKept`, `UpdatesMatchTheirRow`, `PlanIsSound` |
| `csv_adds` | the same | `AddressesOnlyAdded` is violated |
| `csv_curated` | the same | `SetValuesKept` is violated |
| `csv_external_id` | the same | `MatchedByExternalId` is violated |
| `pages` | 3 choices of 3 accents; 2 edits in 2 visits of 3 columns; 2 alerts, 2 calls, 1 change | `ChoiceSettles`, `EveryColumnOnce`, `EditsAreSaved`, `ListIsServers` |

The type invariants are proved and run with no configuration. Those of `CsvImport`,
`Startup` and the pages are the first parts of the inductive invariants in their
proof modules (`CallsTyped`, `LeaseTyped`, `ChainTyped`, `AccentTyped`,
`ColumnsTyped`, `BellTyped`).

Why these bounds are enough to meet the hazards:

- `gate`: a second restore is needed to bring back an archive that was made
  between two rotations and to invalidate an upload's authorization; two users
  let one demote the other; two requests put a reader before and behind a
  waiting writer; one death is enough to separate any two steps, and the restart
  after it starts a second restore behind an old marker. Where it occurs one of
  the four clients stays away (`Bounded`): two restores and a request, or two
  requests and a restore. What all four do with deaths is covered by the proofs alone.
- `gate_live`: liveness allows no symmetry. The promise does not mention users, so that
  one is enough, and a second death interrupts what the first left behind.
- `backups`: the dump that prunes, the one in flight, and one older to restore.
  Retention 1 makes a prune with two finished archives remove one.
- `accounts`: three requests are a login caught between two administrators, or
  two administrators against each other and a directory login; two identifiers
  are left for accounts made during a login, and a third address is an alias.
- `inventory`: an anomaly of read committed needs two transactions; two VMs and
  two disks are needed for a cycle of waiting and for a bulk edit of which a
  part fails.
- `csv_import`: a second preview is the one answered late, a second commit is the
  repetition after a timeout, one edit falls between any two steps. Overlaps of
  roles need two addresses of two roles.
- `LoginLimiter`: the third key meets a full table; seven ticks are two windows
  and a tick, with sweeps inside and between.
- `Startup`: the second process is a restart or a competitor; the values of
  the probe are those of the code. One staging database is listed by one process while
  it is made or dropped by the other; a second one would be treated like the first.
- `ConnectionDrain`: two connections are a pool below its limit and at it; a second
  restore is needed for a statement to outlive the drains of a first.
- `pages`: two saves under way may be stored in either order; with the third
  choice one more is made between any two of their steps.
- The symmetry sets are interchangeable: no action names a member. Runs with a
  liveness property use none, as TLC does not allow it there. `gate` permutes
  requests, restores and users: any account may be anybody's target.
- `MaxCrashes` bounds process deaths. `Nat` counters (`latestGen`, `era`)
  grow only with steps of actors that each run once, and repairs
  need a death.

Deadlock is checked, with `Quiescent`, `AllButOne`, `Finished`, `Idle`, `AllQuiet` or `AllOver` as the
server waiting for the next client, or being down, when all have been answered or are
over, except in `csv_import` and `pages`: there the bounded user is an end.

**Fairness.** `gate_live`: weak fairness for the steps of each request and each
restore that tokio, PostgreSQL and the dump tools drive: a ready task is polled,
`pg_dump` and `pg_restore` run under a timeout. Not fair: sending, the upload
(`StageArchive` is the client's), disconnects, deaths, restarts, repairs.
`inventory`: weak fairness for the statements of each request: PostgreSQL runs a
statement that waits for nobody and its detector ends a cycle; sending and
disconnects are not fair. `session_client`: weak fairness for each request, which
has a timer, and for the refresh, which has none: its fetch is answered or fails
in the end. Without the latter `EveryRequestEnds` fails, because whoever awaits
the refresh has cleared its own timer.

**Findings.** Four runs expect a violation of what a text of the repository says.

- `drain_exact`. `docs/RUNBOOK.md` says that the recovery archive retains the state
  immediately before restore. The dump (`backups.rs:323`) comes before the drain
  (`backups.rs:324`), so the write of a handler whose client has gone away may
  commit after the dump, and is then in no database. It was never answered;
  `RecoveryLacksOnlyAbandoned` says that nothing else can be missing.
- `csv_adds`. The import page says that importing only ever adds disks and IPs
  (`ImportCsvPage.tsx:224`). An address in the column of a role takes over a network of
  that role whose address the row does not name (`imports.rs:92`, `imports.rs:222`),
  and the VM loses that address.
- `csv_curated`. The page says that an import never overwrites a value already set in
  a curated column, `monitoring_enabled` and `pmp_enabled` among them
  (`ImportCsvPage.tsx:214`). A flag that was switched off counts as empty
  (`imports.rs:75`) and is switched on again; a test asserts it (`imports.rs:286`).
  `CuratedKept` says what is kept: an owner that is set, a flag that is on.
- `csv_external_id`. The page says that an external identifier, when present, is what
  matches a row instead of the name (`ImportCsvPage.tsx:219`). For Proxmox both must
  match, for VMware only the name counts (`imports.rs:71`), so that a row with another
  name makes a second VM.

**Divergences.** What the models show besides, where no document of the
repository promises otherwise, so that it is an exception named in a
property and not a finding:

- An edit overtaken between its read and its update logs from what it read, so
  that the audit history has a gap (`service.rs:44`; `raced`). Two
  requests that change the last disks of one VM leave a score that counts a disk
  (`service.rs:17`; `crossed`).
- A bulk edit with tags writes tags it read before (`mod.rs:74`), and answers 404
  when a VM disappears, after other VMs were committed (`mod.rs:73`).
- A full import decommissions a VM that was moved into another scope after the
  preview (`imports.rs:264`); a row that names one address in columns of two roles
  retargets the network that has it (`imports.rs:223`; `Displaces`).
- A preview answered after a commit was sent is shown as committed
  (`ImportCsvPage.tsx:106`).
- A logout answered during a refresh leaves the browser signed in (`overlapped`).
- Saves of accents and columns may be stored in another order (`overtaken`, `lost`).
  An edit before the columns are loaded replaces the saved layout
  (`useColumnPreferences.ts:112`; `raced`).
- An accent chosen during the first load of the preference may be shown as the old one
  until the next load, because its save joins that load (`SettingsPage.tsx:30`;
  `joined`).
- A layout that was saved with a column of which the backend knows no more is shown
  with it, and every save of it is refused (`preferences.rs:145`) until it is reset.
- Opening the bell acknowledges alerts fetched since (`NotificationBell.tsx:31`),
  and a dismissed alert reappears with the fetch that follows, and with every later
  one, as long as its VM is due (`NotificationBell.tsx:45`): `ListIsServers` only says
  that the page lists what the backend lists.
- A demotion whose client has gone away may commit after a restore has checked its
  administrator for the second time (`backups.rs:321`); the restore then goes on
  (`DemotedLate`). A write left behind like that may also outlive both drains and commit
  in the restored database, unless the pool was at its limit (`roomy`).
- `docs/RUNBOOK.md:52` estimates that losing the lease is detected in about seven
  seconds. With an answer on its way when the session ends it takes nine
  (`main.rs:113`): two for the answer, five of sleep, two for the next probe.
- A newer release migrates the database of a serving older one and is refused only
  then (`main.rs:82`). A process that has lost its lease while it starts may
  close running jobs of the next owner, as it does so through the pool.

## 4. Proofs

For every value of the constants that satisfies the assumptions the modules name:
kinds of requests are disjoint and there is a user; sentinels are no members of what
they stand beside; bounds, times and limits are natural numbers, retention and
limits at least 1; inventories, files and default columns have the form the schema,
the parser and `DEFAULT_VM_COLUMNS` give them; there are finitely many VMs and
writing requests, and the pool allows at least one connection.

`RestoreGateProofs`, in layers, each using the ones before:

1. `TypeCorrect`: the types, one step per action.
2. `GateHeld`: a handler is among the readers, a cutover is the writer, and
   never both sides are held. `OneDatabasePerHandler` follows: `era` changes
   only in `pgrestore`, where nobody else is inside.
3. `SessionsKept`. "Old tokens are not valid" is not inductive: between
   `pg_restore` and the second rotation they match. The invariant says that the
   generation is *clean* (the last one made, known only to tokens of this era)
   or else the marker exists and authentication is blocked, and that after the
   marker is removed and before the flag is cleared the generation is *fresh*
   (nobody has it). `RevocationHolds` and `RefusalIsFinal` follow; the latter is
   an action property and needs that a rotation makes a generation never issued.
4. `DataKept`: a committed write is live until it is answered, and until
   `pg_restore` an archive has the live database but for what landed `late`: writes
   and demotions of dropped handlers. `NoAcknowledgedWriteLost` and
   `RecoveryArchiveComplete` are parts of it.
5. `RestoreStaysAuthorized`: the administrators of the second check are still that, but
   for those demoted late. Both exemptions are used: without `late` TLC refutes the
   invariants.
6. `GateKeepsPromise`, the refinement. Each action of `RestoreGate` is mapped to its
   abstract step. `NoResurrection` makes what happens to sessions a `Refuse` or a
   `SignIn`; a statement that lands is a `Write` or a stutter; `SessionsKept` gives
   that nobody is accepted at `pgrestore`, `DataKept` that what was answered of the live
   database is in one dump there, `UploadsAreDumps` that what
   replaces it is a dump.

`BackupsProofs`: `UnfinishedRowsRun` (an unfinished dump has a running row, also
after rows were replaced, because a restore runs alone) makes the filter of
`prune` reliable; `PruneSparesUnrecorded` follows because the directory is
listed before the rows are asked for. `SuccessEarned` carries success through
the copies of the rows inside archives; `PartialsOwned` says that a partial
file is being written, or reported as failed, or has a running row while the
process is down. The exemption in `PartialsReclaimed` is real: a death between
closing a failed row and unlinking its file leaves that file for good.
`NewestKept` counts: whatever is pruned, or listed for it by a prune that is at
work (`KeptInv`), is `Spared`: at least as many newer archives as the retention asks
for are there or were deleted by an administrator. Of the newer archives that a prune
removes, the newest has enough newer ones, and these stay (`NewestExists`,
`RemovalSpares`); that an archive in a prune's list was itself pruned by another one
meanwhile is harmless for the same reason (`QuerySpares`).

`ConnectionDrainProofs`: `PermitsHeld` (connections in use never exceed the limit)
gives that a drain which took as many as the limit left no statement pending;
`StraysAccounted` carries that over the eras: whatever is pending passed roomy drains
only, and its client is gone. `StraysOnlyPastRoomyDrains` is a part of it.
`RecoveryAlmostExact` rests on the gate alone (`DrainGateHeld`).

`AccountsProofs`: `ClaimsInv` (a session, also one about to be given, names an
account made, by that account's way in, and its fingerprint is of the hash
proven) rests on `SourcesStay`: identifiers are given once and nobody writes
`auth_source`. `AdminsSurvive` shows for each step that one active administrator
remains or that the step is `SyncRole`. `AdministratorsRemain` assumes that the
directory gives no role below administrator, which is more than the code
asks: the role synchronisation (`ldap.rs:236`) has no check for the last active
administrator, so that with lower roles only `AdminsVanishOnlyByDirectory` holds.

The same module has the theorems about `LoginLimiter`: a queue is the end of the log
of accepted attempts, and what precedes it has expired (`Tracks`). The lemma
`PrunedIsSuffix` says what the loop that pops expired attempts returns. Then the
limit holds in every window, for every limit, window, interval of the sweep and
capacity.

`InventoryProofs`: `InventoryLosesNothing` rests on `RowLocksExclude` (no two
requests hold a row, though there is no lock variable: the proof goes through
every statement that begins or ends to hold one) and on `Based`: what a request
is about to commit differs from the row only in the fields it names.

- `InventoryScores`. `ScoreIsCurrent` says nothing of the statements between a change
  of disks and its commit. The invariant does: `Staged` (who comes to which
  statement, and for what), `ChangersCross` (two requests that change the disks of a
  VM at a time are in the history `crossed`) and `CountsCurrent` (what a snapshot has
  counted is still so when its request comes to commit).
- `InventoryReports`: at each moment, the VMs a bulk edit selected are those updated,
  those failed, those still to pick and the one it is at, and these are disjoint
  (`Progresses`); an entry in the log of a VM is by a request that counts it as
  updated (`TracesAreUpdates`).
- `InventoryLogAccounts`: with these two, the log of each field is a chain from the
  first value to the current one, extended by the request that holds the row.

`CsvImportProofs`:

- `ImportAppliedOnce`, `ImportMajorityConfirmed`: who has checked a batch has it
  alone and before it is applied (`LockHeld`); the tick of the page, of a commit sent
  and of a batch applied was set for that very batch (`TicksTrue`).
- `ImportKeepsCurated`, `ImportMatchesRows`: each row of a batch is one of its file
  or names a VM to decommission (`FromFile`). `Applied` is a recursive function over
  the rows, so the lemmas about it go from row to row (`Keeps`, `Follows`): a
  smallest row after which the claim fails would have a predecessor.
- `ImportPlansSound`. `FreshIs` says what the filter returns, `PlanStep` carries
  `PlanInv` from the plans of some roles to those of one more: retargets are of
  networks that the column of their role does not mention (`Moves`), no address is
  given out twice, though a VM may begin with one twice (`Adds`, `Apart`), and what is
  mentioned is claimed (`Claims`).
  What a second import finds claimed it neither adds nor moves (`NothingToAttach`).

`StartupProofs`:

- `LeaseLossEnds` from `LeaseInv`: what a process has served without its lease is
  bounded by the time an answer on its way may still take, then in addition by the time
  of the wait for the next probe, and then by that of the probe: an interval and two
  timeouts.
- `OwnerKeepsStagings` from `MakerInv`: who made a staging database is past its own
  start.
- `EveryStartUpgrades` from `ChainInv`: one process migrates, and `At` says for each
  line of the script what is committed and what its transaction holds there,
  also for a migration that began in the middle because another one died.

`FrontendProofs`:

- The session client has a part of the invariant per promise. What was executed can
  be read off the server's answer; a header is the jar's until the jar changes; a
  refresh that starts after a logout has no token to offer.
- `AccentSettles` and `BellLists`: a copy that is not the backend's will still be
  replaced, because of a save or call on its way whose answer reloads, unless it joins
  the first load (`AccentReloads`, `BellRefetches`); `LastIsStored` is the order of the saves.
- `ColumnsComplete` and `ColumnEditsSaved`: the loops of `mergeWithDefaults` and of the
  backend's `columns` are recursive functions, and `MergeCompletes` and `FirstsAreOnce`
  say what they return for any layout; a removed column is kept by both. `LastIsSaved` follows an edit: it waits for a
  timer, or is in the last save, or is stored.

Induction over the naturals is not available to the provers as a rule with an operator
in it, so `Counting`, with a set in its place, is proved from the well-foundedness of
`<`; `LoopRuns` derives from it that a loop has a value after each step. The provers
instantiate it with one loop after the other.

Only model-checked: `GateServesEveryone` and `EveryRequestEnds` of `inventory` and
`session_client`. They are liveness properties under fairness, and `ENABLED` is out of
the prover's reach. `RecoveryArchiveIsExact`,
`AddressesOnlyAdded`, `SetValuesKept` and `MatchedByExternalId` are false. Every other property of the runs
is a theorem.

## 5. Not modelled

- When a scheduled dump is due (`should_run`, `tick`: hour, zone, gaps of 23 and
  36 hours) and the retention setting. A scheduled dump itself is a dump of
  `Backups`.
- The order of archives by the text of their modification times: `Backups` has
  distinct times.
- Loading, migrating and dumping an archive inside a staging database; a
  `pg_restore` that outlives its process; power failures that lose a synced file's
  directory entry.
- Creation and cloning of VMs, changes of a child row, storage and clusters; disks
  and applications of an imported row.
- The key-value settings and the saving of directory settings.
- Request validation, formatting, filters, exports and reports (no state, or queries
  only), cryptography and configuration (no state), the directory protocol,
  rendering and forms.
- The Python backend, which is not deployed, and deployment scripts.

The map of `PROJECT.json` names the lines each definition stands for. They are in
`src/backend-rust/src` and `src/frontend/src`; by far the most lines of code in
the repository are the vendored design tools under `src/.github/skills`
(JavaScript, about 64000 lines), which are no part of InventoryMGR.
