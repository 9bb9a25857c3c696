# Personal workbench (个人工作台): verification project

TLA+ models of the desktop application in this repository: a Tauri host (Rust) that supervises one
sidecar process `workbenchd` (Go), which serves the page (React) over loopback HTTP from a workspace
directory that holds an SQLite database and attachment files. The modules are translated from the
code; every definition names its lines in `PROJECT.json` (`map`). The repository also has command-line
tools and development scripts, whose state lives in files; they are modelled too.

## 1. The system

| Part | Code | State it keeps | Operations |
|---|---|---|---|
| Job manager | `internal/job/manager.go` | `jobs`, `cancels`, `listeners` under one mutex; a wait group; table `background_jobs` | Start and its goroutine, update/persist, Cancel, Subscribe, Shutdown, load |
| Service | `internal/app/service.go` | `dataOperationActive` (one backup or restore at a time) | StartBackup, StartRestore, StartAttachmentImport, StartSearchRebuild, ScheduleAutomaticBackup |
| Event stream | `internal/api/server.go` `jobEvents` | one channel of capacity one per connection | send until terminal, disconnect |
| Attachments | `internal/attachment/manager.go` | `attachments/<id>/payload`, table `attachments` | Import (copy, rename, record), Delete, List, OpenTarget |
| Backup, retention | `internal/backup/manager.go` | table `backup_runs`, setting `backup_directory`, ZIPs in that directory, `.operation-active` | Configure, Create, pruneSuccessful, NeedsAutomaticBackup, List, Preflight |
| Restore | `internal/backup/restore.go` | the new workspace directory | validateBackup, RestoreToNewWorkspace |
| Store | `internal/storage/sqlite` | the database: archives, collections, fields, tasks, relations, trash, search index, preferences | CRUD in transactions; open: lock, migrate, seed, descriptor |
| Workspace lock | `internal/workspace/lock*.go` | OS file lock | Acquire, Close |
| `workbenchd` main | `cmd/workbenchd/main.go` | the process | bootstrap, ready line, serve, graceful shutdown |
| HTTP API | `internal/api` | none | decode, call the service, encode; token, origin, size checks |
| Sidecar manager | `src-tauri/src/sidecar_manager.rs` | `Inner`: public state, child, connection, terminated flag, start token, restart count | start, start_once, event task, recover, retry, stop, mark_failed |
| Host startup, commands, exit | `lifecycle.rs`, `commands.rs`, `lib.rs` | the registry's current workspace | start_backend, retry_backend, open_workspace, close and exit |
| Workspace registry | `workspace_registry.rs` | `workspaces.json` (ten newest) | initialize, record, replace_file |
| Page: connection | `app/BackendContext.tsx`, `api/client.ts`, recovery and settings screens | the gate, a generation, the client's address and token | connect, retry, open a workspace, host events, a refused token |
| Page: jobs | `features/jobs/useJob.ts`, the event-stream client | one query cache entry per job | poll, stream, cancel |
| Page: editors | `stores/layout.ts`, `features/tasks`, `features/archives`, `InspectorPanel.tsx` | selection, `editorDirty`, drafts, query cache | edit, save, toggle, undo, delete, navigate |
| Page: preferences | `AppShell.tsx`, `stores/layout.ts`, legacy local storage | layout, recent searches | hydrate, migrate, delayed save |
| Page: collections | `ArchiveTypesPage.tsx` | two drafts, a choice, five mutations | create, save and remove collections and fields |
| Upstream sync | `upstream-fork-sync/scripts/upstream-sync.mjs` | root state, a state file per change | assess, record-integration |
| Source archive | `source-code-zip/scripts/zip_source_code.js` | a temporary and an output file | scan, stream, install |
| Scripts | `scripts/dev-web.mjs`, `e2e-server.mjs`, `smoke-sidecar.mjs`, `global-teardown.ts` | workspaces, marker and state files, child processes | start, stop, reclaim, tear down |
| Issue transport | `github-npm-ops/scripts/issue-transport.mjs` | none; comments of the tracker | create, comment and close, read |
| Prototype files | `materialize-prototype.mjs` | three files | extract, write, check |

**How they interact.** The page asks the host for the connection (Tauri commands) and then talks HTTP
to the sidecar. Handlers call the service; long operations run as jobs whose progress is read by
polling and by an SSE stream. The host spawns the sidecar, reads its ready line from stdout, learns of
its end from the event task, restarts it with a backoff, and asks it to exit by `POST
/internal/shutdown` before it kills it. Backup reads the database (online backup) and attachment
files while handlers change both. The host reads `.operation-active` to decide whether a crash may be
followed by a restart.

**What is hard.** (1) Jobs: delivery to streams outside the lock, a row written after the map has
changed, cancellation and shutdown at any point, restarts that must repair rows, a reservation
released on three paths. (2) Supervision: setup, commands, quitting and one recovery thread per dead
process share one mutex that every one of them releases in the middle. (3) Files and rows change
without a common transaction, with failures and crashes between any two steps. (4) Retention works
from rows, clock time and a setting that changes; restored workspaces inherit all of that. (5) Checks
in the store that run outside the transaction they protect. (6) The page holds copies: a query cache that
several requests refresh out of order, drafts made from a copy, one flag and one client that the whole page
shares. (7) Tools read and rewrite files without a lock, are interrupted, and are run again when they fail.

**What makes each part correct.** Jobs: at most one backup or restore, the reservation never leaks, an
ended job stays ended, nothing stays active without a thread, streams lose nothing and never go back,
the table lives as an abstract job does. Supervision: what the page is given belongs to a process the
host can end, restarts are bounded, every thread returns. Attachments: no row without payload, a failed batch leaves nothing. Backups: the
retained archives exist, a restore never overwrites, what was live is in the backup. Page: when everything
has settled it shows what the service has, edits go where they were made and are not thrown away unasked,
nobody waits for ever. Registry: a kill leaves the old or the new list. Tools: a checkpoint tells the truth,
an archive is whole and decodes, nothing is left running, a retry repeats nothing.

`PROJECT.json` lists the hazards at the line where each bites.

## 2. Modules

| Module | Models | Built on |
|---|---|---|
| `JobLifecycle` | abstract specification: the life of a row of `background_jobs` | |
| `JobManager` | job manager, reservation, event streams | refines `JobLifecycle` |
| `JobManagerProofs` | its theorems | `JobManager` |
| `Supervisor` | the host's supervision, its threads, the sidecar processes as the host sees them | |
| `Attachments` | import batches, trash and restore of attachments, crashes, change of workspace | |
| `AttachmentsProofs` | its theorems | `Attachments` |
| `Backups` | backup, retention, restore, composed with attachments that change meanwhile | INSTANCE `Attachments` |
| `Archives` | collections, field definitions, archives with values, their trash and search index | |
| `ArchivesProofs` | its theorems | `Archives` |
| `BackupsProofs` | its theorems | `Backups`, `AttachmentsProofs` |
| `SupervisorProofs` | the supervision's theorems | `Supervisor` |
| `WorkspaceRegistry` | the list of recent workspaces and the files it moves through | |
| `PageEditing` | tasks and records, their editors, mutations and views, over the query cache | |
| `PageProofs` | its theorems | `PageEditing` |
| `PageSession` | the page's connection to the host, beside its recoveries and commands | |
| `JobView` | what a screen shows of a job | |
| `PagePreferences` | hydration, migration and saving of the layout | |
| `SchemaPage` | the screen of collections and fields | |
| `Desktop` | what is asked of more than one of the desktop's small parts | `PageSession`, `JobView`, `PagePreferences`, `SchemaPage`, `WorkspaceRegistry` |
| `DesktopProofs` | the theorems of these five parts | `Desktop` |
| `UpstreamSync`, `SourceZip`, `DevStack`, `IssueTransport`, `PrototypeFiles` | one tool or group of scripts each | |
| `Tools` | what is asked of the output of more than one tool | the five tools |
| `ToolsProofs` | the theorems of the five tools | `Tools` |
| `MCJobManager`, `MCSupervisor`, `MCAttachments`, `MCBackups`, `MCArchives`, `MCPageEditing` | model values and small sets for TLC | |
| `MCPage` | the page: its editors, or its connection | `MCPageEditing`, `PageSession` |
| `MCDesktop` | the small parts of the desktop: session (for liveness), jobs, preferences, schema, registry | `Desktop` |
| `MCTools` | the five tools | `Tools` |

Definitions called `X_Something` preceded by "Mutant" are plausible bugs of the definition `X` that
follows them; no specification uses them. For each property of a passing run, `PROJECT.json` names one
that must break it.

`MCDesktop` and `MCTools` put parts that share no state into one run: every behaviour chooses one part and
leaves the others in their initial states, so the reachable states are the union of the parts' and not their
product, and each part's properties are conjoined to the run's. `MCBackups` chooses between two scopes
of one specification in the same way.

### JobManager
`pc[j]` is the thread of control of job `j`: first the handler (`persisting` .. `starting`), then the
goroutine. `memory`, `cancels`, `wg`, `rows`, `gate` are `Manager.jobs`, `Manager.cancels`,
`Manager.wg`, `background_jobs`, `Service.dataOperationActive`. `update` is split where the code
releases the mutex: `Publish` (the map, the listeners copied), `WriteRow` (persist, whose error is
dropped), `Send`, and for a full channel `Drain` and `Resend`. Between any two of them streams read,
new ones subscribe, clients cancel, the process shuts down or crashes (`ProcessEnds`), and `Load`
brings up the next process with its repairing UPDATE and its LIMIT. Progress and stage are one number.
An operation that fails, succeeds or is cancelled is a choice of `Return`; it can only be cancelled when
its context has been.

### Supervisor
Threads are `setup`, `ui` (one command at a time), `quit`, and for each process `p` the thread that
runs `recover` after `p` has ended. A step is a mutex section or an effect outside it. `inner` has the
fields of `Inner`, with process numbers for child, connection, flag and token. `proc` are the
processes: booting (which takes the workspace lock, `Boot`), serving, dead. The event task of a process
is `DeliverReady` and `Terminated`. Waits with a time limit may end at any moment (`AwaitFails`), as
may sleeps. Not modelled: the fallback of `start_backend` to a fresh workspace when a legacy install has
an unknown schema, commands that overlap one another, the fields of the ready line beyond accepted or
refused. The registry's file has a module of its own.

### Attachments
`task[i]` is the local state of one import; `files`, `temps`, `status` are the directory and the rows of
each workspace. One step per rename, transaction or removal. A cancelled context and an I/O error are
both a failure that may come at any step. `os.Remove` in the cleanup is assumed to succeed, and a failed
Commit to have committed nothing. `inherited` records what earlier processes left in the open
workspace; it is a history variable that only the properties and `Open` read.

### Backups
`op` is the one backup or restore in progress (service reservation and manager mutex): setting read,
row inserted, snapshot taken, files collected one by one, archive renamed into place, row updated
(the error is dropped, so it may not happen), old archives and rows removed one by one. `content[r]`
is what archive `r` holds: rows, history and setting of the snapshot, and the files. A restore clears an
empty destination, renames the extracted directory, and the new workspace starts with the snapshot's
rows, `backup_runs` and setting. `Elsewhere` is another program that fills the destination meanwhile;
`Tick` the wall clock. Every step of `Attachments` interleaves. Not modelled: a regular file under the name of a restore's destination, which
`os.Remove` (`restore.go:122`) would delete; archives damaged after
publication and the refusals of `validateBackup`, temporary files that a crash leaves, replaced ZIPs,
`NeedsAutomaticBackup` (reads only), the removal of `.operation-active` (the host's use of it is in
`Supervisor`).

### Archives
A request reads outside any transaction what it validates its input against (`Begin...`, its findings go
to `request[h]`) and writes in one transaction (`CreateField`, `UpdateField`, `Create`, `Update`), which
may fail. Deletions, trash, restore and the rebuild of the index are one transaction with their checks in it.
`ForeignKeys` says whether the connection a write gets enforces references: only one of the four pooled
connections has had the PRAGMA. `value[a][f]` is the type the value was checked against, or `DefaultValue`
for a default, which nothing checks. `index[a]` is the sequence of rows that the index has of archive `a`. Each trigger of
`001_core.sql` is an operator of its own and each statement's triggers run on what the one before has left; the property compares the
outcome of a transaction with what a rebuild writes. The triggers on a deleted record and on a changed value never fire, as no statement
of the program deletes or changes such a row. `serial` is a history variable that is true until
two requests overlap; only `UsedSchemaStays` reads it. Not modelled: texts, colours, orders, keys and
their uniqueness, options of select fields, the change log, and the seeded templates.

### WorkspaceRegistry
`entries` is the list in memory, `file`, `backup` and `temporary` are `workspaces.json`, `.json.bak` and
`.json.tmp`. `record` is one action per file operation (`Write`, `ClearBackup`, `MoveAside`, `MoveIn`,
`Finish`), each of which may fail or be the last before the host is killed; `Initialize` reads the file or
else the backup and leaves out directories that are away. `saved` and `target` are what the property compares.

### PageEditing
Rows have two columns: `text`, the number of the edit that wrote it, and `done`. `entry[q]` is the query cache
(external, modelled from how the page uses it): data, whether a fetch is in flight and what it was answered. An invalidation
restarts a mounted query that has data, joins the first load of one that has none, and passes by one that is not mounted; what such a fetch was
answered before the write is `late`. A record's tasks are fetched in two requests, of the open and of the completed ones, each answered at a moment of its own
(`LinkedBegins`, `LinkedEnds`). `request[s]` is a mutation: sent, read by the service (outside its transaction, as in
`UpdateTask`), applied, and the invalidations its handler awaits. `taskEditor` and `recordEditor` are drafts
with the row they were mounted with; a newer `updatedAt` mounts a new editor. `editorDirty`, `selection`,
`inspectorOpen` are the layout store; `asked` is the last step's confirmation. `crowded` is a
history variable; `next` counts the tasks created for a next occurrence. Not modelled: the calendar arithmetic of the next occurrence, the filters of the lists.

### PageSession
`host` and `wire` are what the page can see of `SidecarManager`: its state, and what it has sent and the page
has not handled, in order. `life[p]` is a published process and then the thread its end starts in `recover`: its places
are the head of the loop, the sleep, `start_once` and the event still to be sent. Threads run beside one another and beside
`call`, the one command of the page (`retry_backend`, `open_workspace`) with the places of `stop`, of `start`'s two
attempts and of the rollbacks: a command does not end a recovery that sleeps, and each overwrites the state another has
left. How often a recovery tries and why a start fails is left open here (`Supervisor` has counter, handles and tokens).
`generation`, `gate`, `load` and `api` are BackendContext and the API client;
the query function of an older generation runs on after it was replaced. A refused token starts a new generation. `untold` is a
history variable: an event came before the listeners, or a command failed, and no answer has followed.

### JobView
`shown` is the cache entry of one job. `poll`, `stream` and `cancel` write it, each with what the service answered
earlier; `list` is the screen's list that is read again at an end. Requests and streams fail as often as
`failures` allows. The three screens differ in what they start and when they read again.

### PagePreferences
`server`, `legacy`, `store` are the database, the local storage and the page's layout; `cached` and `fetch` the query
of the preferences. Hydration merges them once per mount (`ready`), changes before it are `early`; `timer` is the
delayed save, `saves` the requests under way, which are applied in any order. `disturbed` and `touched` are history variables.

### SchemaPage
`types` is the cached list, `selectedId`, `typeDraft`, `editingField`, `fieldDraft` the screen, `op` the five
mutations with their success handlers in two halves around the awaited refetch. A draft remembers the
collection it was shown under (`of`), which the code does not; only the properties read it. `hurried` is a history variable: the
user has edited settings in one of the ways the screen mistakes for another (section 5).

### UpstreamSync
A run of the tool is a process that reads the map, the root state and the change's file, asks git, and writes
file by file; runs interleave and die between those. `graph` is the commit graph with its ancestry, `refs` the branches.
Rewrites of history, resets and edits of the files are mishaps. Not modelled: lists of changed files, the simulated
merge, the text of reports. The reads of `record-integration` are one step.

### SourceZip
Scan, second look, open, streaming, headers and central directory with their ZIP64 escapes, the temporary
file, and the installation by link, rename or exclusive copy; files change while they are read. Sizes count in units in which each header is
one long. `Reader` is the reference definition of what a reader makes of a header. Not modelled: command
line, patterns, checksums, times, and platforms without `O_NOFOLLOW`, where a link that takes a file's place between look and open is followed.

### DevStack
Launchers (`dev-web`, `e2e-server`, `smoke-sidecar`), their sidecars and development servers, the teardown. A step is a handler
or a stretch between awaits. `markers` and `stateFile` are `.dev-web.pid` and `.e2e-server.json`; processes may die and
launchers be killed at any time. Every wait has its deadline (`DeadlinePasses`), and a late sidecar may outlive it for ever: the smoke
test then starts its second sidecar beside the first (`lingers`), which holds the lock and, on Windows, the files of the workspace.
A marker's process number stands for its launcher; a number used again has no state.

### IssueTransport and PrototypeFiles
One-shot programs whose steps are calls of `gh`, or reads and writes of the files. An answer may be lost and the command
given again; files and document are edited while the program runs.

## 3. Runs

| Run | Instance | Shows |
|---|---|---|
| `job_reservation` | 2 jobs, a reserving and a plain kind, 1 restart, 1 row read back, writes may fail | `OneDataOperation`, `ReservationMatchesHolder`: neither doubled nor leaked on any path; `RowsFollowLifecycle`: the table implements `JobLifecycle` |
| `job_streams` | 1 job, 2 streams, 1 restart, writes succeed, fairness | `StreamIsCurrent`, `StreamMovesForward`; `JobsEnd`, `StreamsEnd` |
| `supervisor_commands` | 1 workspace, 2 processes, 1 crash, 1 command | `ReadyOwnsItsProcess`, `StopEndsItsProcess` |
| `supervisor_recoveries` | 4 processes that fail to boot or time out, restart limit 1, fairness | `SpawnsAreBounded`, `ThreadsReturn`, `StartingEnds` |
| `attachment_imports` | 2 imports, 3 attachments, batches of 2, 2 workspaces | `RecordsHaveFiles`, `FailuresLeaveNothing` |
| `backups` | 3 backups, 2 directories, keep 1, clock forward and back; or 2 workspaces, 1 attachment, 2 backups, restores | `RetainedBackupsExist`, `RemovalLeavesEnough`, `OnlyTrashIsLost`, `SnapshotStaysCollectable`, `RestoreOverwritesNothing` |
| `backup_trash` | 2 workspaces, 1 attachment, 2 backups | expected violation of `LiveAttachmentsHaveFiles` |
| `archive_requests` | 2 requests, 2 collections, 2 fields, 2 types, 1 archive, connections with and without foreign keys | `TrashAgrees`, `SearchIsCurrent`, `UsedSchemaStays` |
| `page` | editing: 1 repeating task of 1 record, 3 screens, 2 mutations at a time; two mutations, or three clicks with a draft, or one of each with a failure; session: 2 processes with a command and a refused token, or 3 with either | `QuietDraftsSurvive`, `QuietUpdateIsExact`, `SettledViewsAreCurrent`, `QuietGateAgrees` |
| `page_guard` | 1 task, 1 record | expected violation of `TransitionsAreGuarded` |
| `desktop_parts` | session: 2 processes with a command, or 3 with a refused token; job: 2 screens, 1 or 2 failures; preferences: 2 fields, 4 legacies; collections: 3 with 2 fields; registry: 3 directories, list of 2, 3 records, 2 mishaps; fairness | `QuietPageAgrees`, `MigrationIsFaithful`, `SchemaEditsLand`, `RecentWorkspacesSurvive`, `WaitsEnd` |
| `tools` | upstream: 2 runs, up to 5 commits, 2 mishaps; archive: 2 files, 2 runs, sizes around the limit of the format; scripts: 2 launchers; issues: 2 runs, 3 commands; prototype: 2 files, 2 runs; fairness | `CheckpointIsTrue`, `CheckpointMovesForward`, `EntriesDecode`, `OutputIsWhole`, `UnforcedNeverReplaces`, `NothingIsLeft`, `StopsEnd`, `RetriesDoNotRepeat` |

Type invariants, and the invariants `ActiveJobsRun`, `RowsMatchAtRest`, `TerminalIsFinal`, are theorems and are not repeated in the
runs. Properties of the composed runs are conjunctions: `QuietPageAgrees` (`Desktop`) is
`EndedJobsAreListed` (`JobView`) with `QuietLayoutIsSaved` (`PagePreferences`); `WaitsEnd` is `GateOpens` and
`EndedJobsShow`; the parts of those of `tools` stand in the tools' modules and in `Tools`.

`CHECK_DEADLOCK FALSE` everywhere: every bound (jobs, restarts, spawns, commands, identifiers, backups, clicks)
lets the system stop, and a quit application has stopped for good.

**Why the bounds are enough.** Two jobs are needed for one to take what the other releases; the
reservation is a boolean and a third adds nobody to tell apart. Two streams are needed for one to be
served while the other's channel is replaced; a channel holds one event, and the sequence queued,
running, progress, end already overruns it. One restart is one repair of the rows. In `Supervisor`, two
processes make a stop and a start overlap; `2 + RestartLimit = 3` is the bound that `SpawnsAreBounded`
claims, so the run has room for a fourth. The restart limit is 1 (2 in the code). The crash of a ready process is in
`supervisor_commands`; in `supervisor_recoveries` processes die by failing to boot and by time limits. Attachments: two
batches of two let one fail in the middle while the other commits; three identifiers suffice as they are
issued once. Retention: with Keep 1, three backups and two directories give a newest, a doomed and an
elsewhere one, and a directory that changes under a running backup. Restore: one attachment is live, in the trash, restored or
gone independently of others; two backups let the copy of a copy exist. Archives: two requests overlap in every
way that matters, since a third can only repeat one of them; two collections let an archive move, two types let a
field change, and properties speak of one archive at a time. Of the four combinations of default and requirement
two are used. `job_reservation` has no streams and `job_streams` no second job; streams never write job state, and jobs share
nothing with one another's streams. Page editing: with one task every view of it can be stale against every
other, and two mutations overlap in every order; the walk needs three clicks to leave an editor, come back and save.
Session: with three
processes (in `page`) two recoveries and a command overlap, and one publishes while the answer about the one before is on its way; the
generations never reach their bound, as each is one event, command or refused token. Preferences: two
fields make a partial update differ from a whole one. Collections: two exist and one is created, so that the shown, the
chosen and the new one differ. Registry: the list is full after two of three directories, and the property claims
nothing beyond one mishap, which the run exceeds. Tools: two runs overlap; five commits make a merge, a merge of a merge and
a criss-cross; sizes 0, 3 and 5 lie below, at and beyond the limit 4 with headers counted.

**Fairness.** `JobManager!FairSpec`: weak fairness of each job's thread and of each stream handler with
an event in its channel. Goroutines are scheduled and never wait for a lock for ever; operations are
loops over finitely many files or rows. Nobody has to cancel, disconnect or restart.
`Supervisor!FairSpec`: weak fairness of host threads and of event tasks. Nothing is asked of the
sidecar: each wait for it has a time limit in the code. `MCDesktop`: the host answers and its messages are
delivered, polls, cancellations and stream events are answered and handled; nothing is asked of users, crashes or of a stream's staying open.
A job has ended when `EndedJobsShow` begins to oblige the page. `MCTools`: handlers of a launcher's event loop run, timed waits end, and a sidecar
that was asked to close ends unless the scene is late. There is no liveness claim for backups, editing or the tools' file operations.

## 4. Theorems

tlapm proves these for every value of the constants.

| Theorem | Statement |
|---|---|
| `TypeCorrect` | `JobManager!Spec => []TypeOK` |
| `ActiveJobsAlwaysRun`, `RowsAlwaysMatchAtRest` | an active job has a thread, and between two updates the row agrees with the map, when writes succeed |
| `OneDataOperationAlways`, `ReservationAlwaysMatchesHolder` | the reservation, with failing writes, crashes and any number of jobs |
| `TerminalStaysFinal` | the action property, from `JobsInv` |
| `RowsImplementLifecycle` | every initial state and step of `JobManager` is one of `JobLifecycle` or a stutter |
| `StreamsAlwaysCurrent` | no update is lost, for any number of connections |
| `StreamsMoveForward` | a stream never goes back to an earlier state or a smaller progress |
| `SupervisorTypes` | `Supervisor!Spec => []TypeOK` |
| `ReadyAlwaysOwnsItsProcess` | connection, child and terminated flag belong to one process |
| `StopAlwaysEndsItsProcess` | a stop that has returned has ended its process |
| `SpawnsAlwaysBounded` | until the page gives a command, at most `2 + RestartLimit` processes are spawned |
| `AttachmentTypes` | `Attachments!Spec => []TypeOK` |
| `RecordsAlwaysHaveFiles` | no row is without its payload |
| `FailuresAlwaysLeaveNothing` | only an ended process leaves files without rows |
| `BackupTypes` | `Backups!Spec => []TypeOK` |
| `OnlyTrashIsEverLost`, `SnapshotsStayCollectable` | a missing payload was in the trash of a snapshot that was restored; what a running backup has yet to collect stays on the disk |
| `RestoresOverwriteNothing` | a restore changes no directory that holds anything |
| `RemovalAlwaysLeavesEnough`, `NewBackupsSurvive`, `RetainedBackupsAlwaysExist` | retention, for any number of workspaces, directories and backups and any movement of the clock |
| `ArchiveTypes` | `Archives!Spec => []TypeOK` |
| `TrashAlwaysAgrees`, `SearchIsAlwaysCurrent` | rows, trash entries and search index agree, for any number of overlapping requests |
| `UsedSchemaAlwaysStays` | until requests overlap, archives keep their collection and values their field and type |
| `RecentWorkspacesAlwaysSurvive` | after one kill or failure the next start reads the old or the new list |
| `SchemaEditsAlwaysLand` | edits reach the collection and the field they were made on; the settled screen is current |
| `QuietGateAlwaysAgrees` | `SessionSpec => []QuietGateAgrees`: gate and client follow the host, whatever recoveries and commands overlapped |
| `QuietPageAlwaysAgrees` | `ViewSpec /\ PreferencesSpec => []QuietPageAgrees` |
| `EndedJobsAlwaysListed`, `QuietLayoutAlwaysSaved` | its two parts: the list follows the ended job, the database the layout |
| `MigrationAlwaysFaithful` | legacy preferences replace only defaults or what the user has set, and are cleared only when the database has them |
| `PageTypes` | `PageEditing!Spec => []TypeOK` |
| `QuietViewsAreCurrent` | the settled page shows what the service has in every view that is not late |
| `QuietUpdatesAreExact` | an update that nothing overlaps changes only what it means to change |
| `QuietDraftsAlwaysSurvive` | a settled page with one editor discards no draft unasked |
| `RetriesNeverRepeat` | until two closing commands overlap, there is one comment, for any number of runs, commands and lost answers |
| `SuccessAlwaysMeansCurrent` | an undisturbed success leaves every file equal to its block |
| `CheckpointsAreAlwaysTrue`, `CheckpointsMoveForward` | checkpoints are backed by the commit graph whatever overlaps or dies, targets stay frozen, and while neither happens no checkpoint loses a commit |
| `EntriesAlwaysDecode`, `OutputsAreAlwaysWhole` | a reader finds every entry of an installed archive; only a copy that is being made or was killed is unfinished |
| `UnforcedRunsNeverReplace` | without --force the file of another stays |
| `NothingIsEverLeft` | scripts stop their sidecars, reclaim what is abandoned, and leave neither workspace nor state file |

Assumptions: the named `ASSUME` of each module, all evaluated by TLC in a passing run: bounds are naturals, the "no" values lie outside
their sets, batch limit, load limit, progress and list length are positive. Those of the page name its screens and views
(`PageAssumption`) and keep "no editor" apart from editors (`EditorAssumption`); those of the desktop's parts bound the generations by a natural (`SessionAssumption`),
keep "no job" and "no value" apart from jobs, layouts and legacy keys, and say that legacy keys hold fields of a layout (`ViewAssumption`, `PreferencesAssumption`); those of the tools say that file names, targets and sizes
are what their comments say (`ArchiveInputs`, `TargetsAssumption`), that "none" is neither a checkpoint nor a ZIP64 record (`NullIsNoCheckpoint`,
`NoneIsNoRecord`), and that a Playwright run starts one server (`ScenesAreScenes`, from `playwright.config.ts`). The commit graph, the bounds of a
behaviour and the sizes of the format are arbitrary.

**Argument, jobs.** `TypeOK` is inductive. The other invariants are not: each speaks of the map, the row
or the gate, while what a step may do depends on where the thread is. `JobsInv` adds for each job what
its place says about its map entry and its row: a thread that delivers has in `work` the very value the
map holds, an active entry belongs to a thread that is not at rest, a job at rest has the row its map has unless a write
failed. `ReservationInv` adds that the gate is closed exactly while one job is entitled; entitlement is
defined by the place, so each action is checked to move the gate and the entitlement together, and to
leave other jobs' places alone (`OthersKept`). `StreamsInv` adds what a stream's topic and
its job's list of listeners say of each other: a stream that
has not been served is in `pending`, only the job's own streams are, and the one whose channel is being
replaced is `target`. Termination follows because no enabled step publishes for
a job whose entry is terminal. `OrderInv` orders what a stream has sent, what is in its channel and the map (`Before`); the value in
hand equals the map by `JobsInv`, so that a refilled channel is not behind what was read from it. The refinement maps `JobLifecycle!row` to `rows[j].state`; each write of a
row is Enqueue, Run or End or repeats the state, and `Load` is InterruptAll.

**Argument, supervision.** Threads keep process numbers in local variables across sections without the mutex, so what they
may do with them must be part of the invariant. `ThreadsSound` says for each place of a thread what its locals hold:
a start that awaits has a process that was spawned, a stop the child together with the child's own flag. `HandleSound` says that
the published child, connection and flag are of one spawned process, `ProcsSound` that a raised flag means a dead process and that
exactly the spawned processes have a life, `BootKnown` that a retry has a workspace to start on. `StopEndsItsProcess` is strengthened to
death, which is permanent, so that no later step of another thread can undo it (`StopsAreDone`). The frame arguments are lemmas of
their own (`ThreadMoves`, `QuietStep`, `OutsideStep`), and each action has one that cites them. That spawns are bounded is an
account (`Budget`): the processes spawned, the restarts counted whose process is still owed (`Owing`, a set whose cardinality the steps move by one)
and the attempts the first start has left (`Credit`) never exceed the restarts counted plus two.

**Argument, attachments.** That a row has its file is not inductive: another batch's cleanup might remove
the file, or its identifier might be used twice. `FilesInv` adds that recorded identifiers are issued ones, that
a task's targets and its current item are issued, unrecorded and on disk at the right name (`Owns`), and that
two tasks own disjoint sets (`Apart`). `LeftoverInv` adds that every file and temporary file is issued, that the
item an import is writing has no final name yet, and that its targets are no temporary files (`Placed`).

**Argument, backups.** The attachments' steps are steps of `Attachments`, so `AttachmentsProofs` is instantiated and its invariant (`OwnInv`)
and its frame (`NothingLost`: a step of the attachments loses no recorded payload) are cited. `BInv` adds that an archive holds every live payload
of its snapshot and names issued identifiers only (`ContentSound`), and what an operation may rely on in each phase (`OpSound`);
`OnlyTrashIsLost` is then inductive. Retention is an argument about ranks. `EnoughWithout`: if two elements of a set both have `Keep` newer ones in it, one still has them when the
other is taken out. With it `KInv` shows for a directory, whatever rows there are, that every archive once put into it is there or has
`Keep` newer ones there; the newest of the missing ones carries the others. `PInv` shows the same for the rows of the open workspace that pruning is about to
delete, with rows and snapshots naming begun runs only, and `RInv` for the rows of every workspace as
long as no two workspaces share a run. The first restore ends that, and nothing else does.

**Argument, archives.** `TrashAgrees` and `SearchIsCurrent` need that what a request writes has an owner and that
a missing row is not in the trash (`RowsInv`). `UsedSchemaStays` needs that what a request found out is
still true when it writes. `SerialInv` says so for every request while `serial` holds (`Pending`), and the history variable
itself gives that no other request is under way (`Alone`). Dropping `serial` breaks exactly that step.

**Argument, registry.** Before the first mishap the place of the saved list follows from where `record` is (`Whole`): every
configuration has the old or the new list where `initialize` looks, so that a mishap may come at any of them. `Written` says that what is on
its way in, and what has been moved in, is the new list.

**Argument, collections.** That settings are saved where they were edited needs that a draft belongs to the collection that was
chosen, or to the one that is about to be chosen because it was created (`DraftBelongs`, `DraftIsChosen`). That the settled
screen is current needs that whenever the list is old some fetch or some success handler has yet to ask for a newer
one (`ListFollows`).

**Argument, connection.** A change of the host reaches the page in pieces: an event, a new generation, a question, its answer, the answer of the
new process. `Follows` says that one of these is always there, unless the host has told nobody or is not done: a recovery that no
stop has cancelled, or a command, may still overwrite the state but then tells the page after it (`Busy`). Otherwise a message that makes the page ask again is on
the wire, or the query function of the newest generation is about to ask, or its answer is on the wire and everything after it is true as well
(`TrueFrom`), or it has the connection of the process that is ready. Answers to older generations still configure the one client, so that
`TrueFrom` speaks of all of them. A state that says ready was left by the last publication, and its process is alive or has a recovery at its head
(`HostTypes`), which makes the answer of that process good. `AnswersAwaited` (one answer for each question) lets an answer that has been taken leave the others as they were.

**Argument, jobs on screens.** Everything the page holds of a job is a copy of what it was (`Copies`), and a copy that has ended is the job, as
jobs end once. `EffectIsOfEnd` ties the rows a job writes to its end, so that a list read after an end was shown has them (`ListFollowsJob`).

**Argument, preferences.** Requests are applied in any order, so the invariants speak of each alone: it carries only values that
the page shows for fields that were read or set (`SavesAreFaithful`), and one that clears the legacy keys still carries each value that the database lacks
(`ClearsAreFaithful`). `LayoutFollows` says that, until saves overlap, fail or are interrupted, the one layout request completes the database to the page, and `PageKnows` that
the query's data is the database when no request is under way. They hold of partial updates of any fields, as the update is merged field by field.

**Argument, page editing.** A view may be stale only if somebody owes it an invalidation. `Owes` names the mutation that wrote the row, has
not come to the key of that view in its handler, and whose answer will not be an error; `Fresh` says that every idle view and every answer under way agrees with the service on
each row, or is owed for it, or is late. Of a record's tasks, half an answer agrees on the rows it has and lacks none of its half (`ShowsHalf`). `Coherent` is inductive because a write creates the debts of its kind, an invalidation pays them by a new
fetch, and no other step takes one away (`DebtsStay`). Updates are exact by `Mirrors` (an editor shows the version in the cache),
`Versions` (a copy with the row's `updatedAt` is the row) and `Carries` (a request that is alone carries the row's values in the columns it
does not mean). Drafts survive because the flag is up over every one (`FlagFollows`): `Together` says that a draft beside a second editor is
recorded in the history, `Saves` what the save of an editor has done so far, and `Replaced` that a newer row is on its way and
will mount the editor anew, which is the one time the flag may be down early.

**Argument, tools.** Upstream: the graph only grows, so ancestry once proved stays (`ReachKept`); `AtRecord` and its siblings say what each place of
a run holds, and `CalmInv`, while no run has died or overlapped another, that what a run has read is still so (`Current`) and that
every recorded merge is in the root (`AllRecorded`). Archive: `Between` and `Inside` give the entries of an archive under construction, of which only the
last may be open; `Closed` that a finished one has the headers of its entries, which `HeadersDecode` shows readable; `OutputOK` who may own an unfinished output.
Scripts: `SidecarsFollow` (a script that has ended has told its sidecar), `ServersFollow` (a development server beyond the stop was started during it), `ReclaimGoesOn` (what was abandoned at the launch is gone or still to be looked at)
and `StateFileHolds` (whom the state file names, and what the teardown has read of it). Issues: the command under way is alone and what it read of the marker is still so
(`TransportInv`). Prototype: the files before the loop's index are done, for a run that nothing has disturbed (`FilesDone`).

**What the proofs corrected.** `QuietUpdateIsExact` had been stated too widely. An invalidation passes by a query no screen has mounted, whose fetch
may still be in flight, and joins a first load; such an answer is `late`, a screen shows it, and an update from such a copy writes old columns back. The
property now asks for a page on which no view is late (`OnTime`), and an undo means all the columns its toast shows. `AbandonedAreReclaimed` speaks of development launchers only, as the others do not reclaim.

**Only model-checked.** Liveness (`JobsEnd`, `StreamsEnd`, `ThreadsReturn`, `StartingEnds`, `WaitsEnd`, `StopsEnd`): out of the
prover's reach. Every other property of a passing run is a theorem.

## 5. Findings

Two runs are expected to find a violation:

- **Trash does not survive a restore** (`backup_trash`). A backup has rows and trash entries of deleted
  attachments, not their files; `RestoreTrash` later makes such a row live, and backups of that workspace
  fail from then on. `OnlyTrashIsLost` shows that nothing else can be lost this way.
- **Unsaved changes do not guard every transition** (`page_guard`). All editors write the one flag `editorDirty`; while one has
  unsaved changes another lowers the flag when it is mounted, unmounted or becomes clean, and the next transition discards the draft unasked.
  `layout.test.ts:37` promises the guard; `QuietDraftsSurvive` shows that it holds with one editor.

The other places where code and expectation part are conditions in the properties named, or parts of the
models' comments:

- Jobs: `update` changes the map, releases the lock and only then writes the row. A stream opened in between is given the
  ending by `Subscribe`; a crash then leaves a row that the next process turns into `failed`.
- Supervision: a stop does not wait for a start in progress. `recover` clears `child` without looking whose
  it is (`sidecar_manager.rs:297`), which leaves a live sidecar without a handle, where ADR-001 speaks of supervising one.
- Exit: a recovery that sleeps while the shutdown thread stops the sidecar is refused when it wakes, but its own `mark_failed`
  overwrites `Stopped` (`sidecar_manager.rs:325`), so that its next round starts a process after the stop has returned, where
  `V2_ACCEPTANCE.md:43` says that recovery leaves an exit alone. It takes an exit that lasts longer than the backoff; on Windows `lib.rs` allows
  two seconds. The model has these steps; no property excludes them.
- Tasks: `UpdateTask` decides by a row read before its transaction (`tasks.go:144,174`): two requests that both complete a
  repeating task both create the next occurrence, where `store_test.go:298` expects one of a single request.
- Development server: `dev-web.mjs` removes workspaces without a marker, also one that another launch has just made and not yet
  marked (`dev-web.mjs:66-67`), where its comment (39-40) speaks of abandoned ones. Off Windows the removal also succeeds under a sidecar that has
  outlived its killed script. `NothingIsLeft` shows what holds: whatever was abandoned is reclaimed.
- Retention: with the clock set back, a successful backup ranks behind older ones and removes its own archive
  (`NewBackupSurvives` speaks of a backup that is the latest by the clock). A restored workspace inherits `backup_runs` and the
  directory and prunes its original's archives; `RetainedBackupsExist` holds until a workspace is restored.
- Archives: overlapping requests may leave a value of a type its field no longer has, which `data-safety.md` rules
  out ("已有值的字段不可改变值类型"), and on connections without foreign keys an archive without its collection;
  `UsedSchemaStays` is claimed until requests overlap. A field accepts a default of any type, `CreateArchive` stores it as it is, and a
  later update that sends it back is refused.
- Store: every open inserts another row of `workspace_meta`, as its new id makes `INSERT OR IGNORE` never ignore (`store.go:107`); the
  identity is the least id, so that a clock set back can change it. The seed recreates a deleted template collection at the next open.
- Page, connection: when `open_workspace` fails, its rollback starts a process with a new address (`commands.rs:79-89`) and
  tells nobody, while the settings screen says "工作区无法打开，已恢复原连接。" (`SettingsPage.tsx:148`); the page keeps the client of the ended process
  until the next event (`untold`).
- Page, preferences: a change made before hydration saves the whole page layout over values of the database that are not defaults
  (`AppShell.tsx:138-148`), where `V2_ACCEPTANCE.md:32` says that these come first; `touched` excepts it. A remount after a refused token hydrates from a stale cache; once the query of the
  preferences has failed for good, changes are never saved; one refused item of the legacy recent searches makes every migration fail;
  an invalid legacy key is never cleared; two palette selections over a stale list lose one.
- Page, jobs: a cancelled backup is not read into the list of the backup screen (excepted in `EndedJobsAreListed`). When the first poll
  fails twice and the stream breaks, the job stays unknown (`EndedJobsShow` asks for a first answer).
- Page, collections: the success handler of a creation sets the draft before and the choice after it has awaited the refetch
  (`ArchiveTypesPage.tsx:65-75`): in between, saving writes the new collection's settings to the old one, and choosing another leaves its draft under
  the new one. Without an explicit choice a save that reorders the list moves the collection shown while the draft stays. These are what `hurried` records.
  Removing the field being edited leaves the form on it; a field removed takes all its values without confirmation.
- Page, editing: deleting a task in the inspector does not invalidate `archive-tasks` (`TaskEditor.tsx:52`); the undo toast
  sends an older copy over later edits (`TodayPage.tsx:151`). `SettledViewsAreCurrent` and `QuietUpdateIsExact` except the two.
  A write during the first load of a view leaves the view old until something else refetches it, since its invalidation joins that load (`late` excepts it).
- Registry: `replace_file` removes the backup first even when the file is missing after an earlier kill
  (`workspace_registry.rs:165`), so that a second kill loses the list; directories away at a start are dropped for good by the next record.
- Scripts: a ready line that is read during the stop starts a development server that nothing stops (`dev-web.mjs:161`; `raced` excepts it from
  `EndedScriptsStopServers`). The smoke test kills a first sidecar that is late without waiting (`smoke-sidecar.mjs:137`), and the second one finds the
  workspace locked.
- Source archive: a size or an offset of exactly the escape marker is written without its ZIP64 field, since the code compares with `>`
  (`OnTheMarker` excepts it).

## 6. Not modelled

- The five seconds that `server.Shutdown` and `jobs.Shutdown` share: one running job with an open stream uses them up. Which outcome
  happens depends on time alone; `JobManager` lets Shutdown expire and the process end at any step.
- Migrations, integrity checks and SQLite itself; ZIP writing and digests of backups, and the refusals of damaged archives; the
  parsing of the bootstrap message and the ready line; log rotation.
- Relations and activity: single statements on rows of their own. The recurrence calendar and the lists' filters.
- HTTP handlers other than the stream: one call of the service each. Token, origin and size checks keep no state.
- `validate-specdev.mjs`, the standards and configuration audits: predicates over one snapshot of files, without state or steps. (With
  `--repo`, `validate-specdev.mjs:2154` asks every integrated ticket of the current workspace for the parent's HEAD, while `goal-plan-template.md:93` gives each
  ticket a commit of its own.)
- Generated clients and servers, build and release scripts, vendored assets: no behaviour of their own. They are most of the
  repository's script lines.

## 7. What is left

1. Tasks without the page: overlapping updates over the calendar of recurrences, with `nextOccurrence` as a function.
