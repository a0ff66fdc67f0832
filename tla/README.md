# codexm in TLA+

codexm manages several Codex accounts ("profiles") on one machine: it keeps one
`CODEX_HOME` per profile, copies a project's Codex sessions between those homes
and a mirror inside the project, runs one `codex app-server` daemon per profile,
shares MCP servers between the homes and shows everything in a monitor. This
directory holds TLA+ specifications of the parts in which processes, goroutines
and crashes meet, TLC configurations that check them on small instances, and
proofs for all instances. Paths below are relative to the repository root.

    tlc -config SessionSync.cfg MCSessionSync.tla     one run
    tlapm SessionSyncProofs.tla                       the proofs of one module

## 1. Inventory

| Component | State | Operations | What is hard | What makes it correct |
|---|---|---|---|---|
| Session synchronization, `internal/session` | mirror `.codexm/` (rollouts, metadata, tombstones), the profiles' rollouts and names, one registry per profile, backups, a lock file per project | `Sync`, `Resolve`, `Init` | three-way merge without a base copy; many files changed one by one; processes that die in between; Codex appending meanwhile | no line lost silently, conflicts stop everything, deletions are final, convergence |
| Session audit, `internal/session/audit*.go`, `inspect.go` | none | scans | heuristics over text | - |
| Daemon manager, `internal/appserver/manager.go` | `manager.lock`, `state.json`, `capability.token`, the daemon process | `Start`, `Stop`, `Status` | processes outlive commands, PIDs are reused, threads run while a stop decides | no second daemon on one home, no stranger signalled, busy daemons spared |
| RPC client, `internal/appserver/client.go` | pending table, notification queue, connection | `Call`, `readLoop`, `shutdown` | concurrent calls, retries, timeouts, late answers, a full queue | each call gets its own answer |
| Monitor service, `internal/monitor/service.go`, `types.go` | data per profile, last snapshot, a channel per subscriber | connect, refresh, apply, publish | notifications against lists, several publishers, a slow subscriber | the viewer ends with the truth and never goes back in time |
| Snapshot construction, `internal/monitor/snapshot.go`, `cache.go` | a cache with a time to live | pure functions | subagent trees with orphans, cycles and ids two profiles share | each subagent placed where its ancestors end |
| Manager configuration, `internal/config` | `config.json` and its lock | the updating commands | load, side effects and save under a lock, failures between them | whole updates only, references valid |
| Shared MCP servers, `internal/sharedmcp` | managed block of each home's `config.toml`, its temporary file | `Sync` | no lock, one temporary name for all, edits by Codex | drift repaired before use, settings kept |
| `codexm run` and `shell`, `internal/cli/run.go` | which sessions there were before Codex | sync, snapshot, start daemon, Codex, snapshot, sync | several terminals and checkouts, lock contention at the end, a killed codexm, renamed checkouts | new sessions exported, private ones never, nothing taken for deleted, paths mapped |
| Codex launcher, `internal/codex` | credential settings of a new home | launch | process I/O | - |
| Dashboard, `internal/dashboard` with `static/app.js` | the page's snapshot, controls, list of sessions and outstanding requests; token files | serve, stream, ask, show | dropped snapshots, broken streams, requests that overtake each other | list and snapshot of one age, list answers the controls, the page catches up |
| Terminal UI, `internal/tui` | snapshot, tab, cursor, filter | keys, snapshots | rows that vanish under the cursor | cursor on a row, the screen catches up |
| Command line, `internal/cli` | none | parse, print | - | - |

The components meet in files, not in memory: every `codexm` command is a process
of its own. The locks are advisory, taken with `TryLock` (session, daemon) or with
a bounded wait (configuration), released by the operating system when a process
dies. Codex and the app-server write the same homes without taking any of them.
Inside the monitor, goroutines share the service's data and the snapshot store.

`PROJECT.json` lists the hazards of this code with their lines and the
properties that would catch each.

## 2. Modules

| Module | Models | Uses |
|---|---|---|
| `SessionMerge` | `compareSessions`, `compareCanonical` and the decision of `reconcileState` for one session, as operators | - |
| `SessionReplica` | the abstract promise: a synchronization is one indivisible three-way merge | `SessionMerge` |
| `SessionSync` | `Sync` and `Resolve`, one file operation per action | `SessionMerge`; implements `SessionReplica` |
| `ProjectRuns` | `run`, `shell`, `session sync`, `status` and `init` in several checkouts, with git in between | `SessionMerge`; its synchronization is the indivisible one |
| `DaemonManager` | `Start`, `Stop` and `Status` of one profile's daemon | - |
| `ConfigStore` | the abstract promise: a `config.json` whose updates are indivisible | - |
| `ProfileConfig` | the commands that load, save and synchronize, with the lock | implements `ConfigStore` |
| `SnapshotStore` | `publish` and the store with its subscriber | - |
| `MonitorService` | one profile's goroutine, the RPC client, the app-server as environment | extends `SnapshotStore` |
| `SnapshotViews` | operators: status of a thread, tasks, tree of subagents, filters and pages | - |
| `SnapshotFeed` | the store with one subscription, whatever the viewer | extends `SnapshotViews` |
| `TerminalUI` | the model of `codexm ui` | extends `SnapshotFeed` |
| `Dashboard` | the handlers and the page of `codexm dashboard` | extends `SnapshotFeed` |
| `Viewers` | a process with the store and one of the two viewers | extends `TerminalUI` and `Dashboard` |
| `MC*` | constants and initial states for TLC | |
| `*Proofs` | theorems and their proofs | |

### SessionSync

One process per profile. `Begin` takes the lock and reads the mirror (a mirror
with a torn session refuses, as `scanProject` does), the profile's two
directories are scanned one after the other (`ScanLive`, then the scan of the
archived ones within `PlanSync`), `PlanSync` decides every session, and then the
plan is carried out in the order of the session ids, one action for each file
that `writeRollout`, `os.Remove` or `writeJSONFile` changes; `SaveRegistry` ends
the command. `Abort` is the death of the process or a file operation that fails.
A rollout is the sequence of its JSONL lines once `portableCWD` has taken the
checkout's path out; a checksum is the sequence itself. Names and archive state
are fields of a copy. Codex creates, appends, moves, renames and deletes in its
own home; `CodexConcurrent` says whether it does so while its profile
synchronizes.

### ProjectRuns

A terminal works with one profile in one checkout; `stage` is where its command
is. `Take` is `acquireLock`, `FinishSync` a whole `Sync` (whose file operations
are in `SessionSync`) with the verdicts of `SessionMerge`, `FailSync` one that
ends with an error or a conflict. A run goes from `StartRun` through its first
synchronization, `SnapshotBefore`, Codex, `CodexExit` (the second snapshot and
`NewSessions`) to `StartPostRun` or, when another process holds the lock,
`PostRunRefused`; `LaunchFails` stands for everything between the snapshot and
Codex that can end it, the daemon's start included, and `Kill` for a codexm
that dies, with Codex alive or not. `InitProject` is `session init` with and
without `--import-existing`. `Exchange` is a pull and a push: of two versions of
a session the user takes one, as `.gitattributes` (`ensureAttributes`) asks.
`Move` renames a checkout's directory.

A rollout is a sequence of turns, each with the directory its line names
(`cwd`), the first being the one Codex started in, and with what that directory
was to its writer (`meant`, history: the root of its own checkout or another
place). The mirror of a checkout has, as in the code, the exporter's raw lines
with their absolute paths and beside them the mapping of the metadata
(`Exported`); what is compared are canonical lines, which a profile's scan finds
by the root of its checkout (`Canonical`) and the mirror's by the stored mapping
(`Stored`). An import rewrites the mapped lines and copies the others
(`Materialized`). So raw paths do travel with git, and no property says they do
not; the properties are about what the mapping makes of them. `Visited` is where
the user of a profile goes besides its checkout, the root of another checkout
included. Directories below the root behave like the root and are left out. Names
and archive moves do not matter here (`Name = {}`), nor does `session resolve`;
`SessionSync` has them.

### DaemonManager

A command's `stage` is where it is inside `Start` or `Stop`, `state` and `token`
the two files, `daemon` the life of every process that can be spawned. The
processes can hang, become ready, exit; their PIDs come round
(`PidReused`), but not within the 30 seconds `processMatchesState` allows and
not while a command works with them. `stranger` says whether the process that
has a PID now tells when it was created: if it does not, `processMatchesState`
takes it for the daemon (manager.go:389-395), `Start` finds it unhealthy and
`Stop` goes on, a normal one as far as the dial. A signal or a token that fails
ends the command. Two profiles share nothing but the choice of a free port, so
one profile is modelled.

### ConfigStore and ProfileConfig

`ConfigStore` applies one `Update` at a time. `ProfileConfig` performs them as
the code does: lock, load, prepare (a new home, or the rewriting of a managed
block), commit; `run`, `mcp sync`, `mcp add` and `mcp remove` load without
holding the lock. A `config.toml` is the set of servers in its block and the
set of settings outside; `stale` and `disturbed` are history variables for the
properties. `Fail` ends a command anywhere.

`SyncRead` is the read of a `config.toml`; it goes on to a write whenever the
bytes may differ, which they can with the same servers (`Changed`). `SyncOpen`
and `SyncWrite` are the two halves of `os.WriteFile` on the temporary name all
processes share: it truncates for everybody, then writes. `link` says by which
name the file that is open is known by then, since another process may have
renamed it to `config.toml` or removed it; what several have written, or one in
part, may be `mixed`. `SyncRename` publishes whatever has the temporary name.
Edits are outside the block; the one-time migration of the OAuth store and
`ensureCredentialStores` of a new home, which use that temporary name too, are
left out.

### SnapshotStore and MonitorService

`SnapshotStore` separates the copy (`PublishCopy`) from the hand-over
(`PublishStore`), with `publishMu` held in between, and has a subscriber with
room for one snapshot. Its copy is shallow: `shared` names the publishers whose
copy still shares its slice with the service, and a notification applied
meanwhile reaches any part of it (`Mixed`), which is what the data race on
`item.threads` can do. That takes a second publisher, so `monitor` has such
snapshots and `monitor_fair` has not; no property speaks of them yet. `MonitorService` adds the reader goroutine (answers by
id, queue of `QueueSize` notifications, drop when full), the two concurrent
`thread/list` calls with overloads, repeats and time-outs, and the profile's
goroutine: down, account, list, select. The app-server may list the threads in
any order (`Listings`): what it is asked for, the latest first, says nothing of
those it changed at one time. Fields of an account other than its
health, token counts and MCP status are left out; the corresponding race on the
token map, which can end the program with "concurrent map read and map write",
is a hazard no property states.

### SnapshotViews, SnapshotFeed, TerminalUI, Dashboard and Viewers

`SnapshotStore` has the order in which snapshots are made; here a snapshot is an
index into `feed`, a sequence of what app-servers report, and `Publish` is the
next one or, by the ticker of five seconds, the same again. `channel` is that of
`Store.Subscribe`, `wire` what `waitSnapshot` or the handler `events` has taken
out of it and the viewer has not shown yet.

`TerminalUI` has one action for each message of `Update`; `Update` is the part
all of them share, with `clampCursor`. In `Dashboard` an action is a handler of
the server (`ServeSnapshot`, `Serve`, `Connect`), a callback of the page or an
event of its user; `requests` are the fetches for the list that are on their
way, each with what it asks for and the snapshot its answer was made from, and
`awaited` says whether the last of them is the one `sessionsRequest` counts.
`Receive` is the rest of `loadSessions` with `populateFacets`, where `setOptions`
resets the choice of a profile that is gone. The controls are the profile and
the search; the other four filters work like the profile.

`buildSnapshotWithCache` sorts the sessions by time with `sort.Slice`, which keeps no
order among those of one time, and later takes the last of several sessions
with one id. `Orders` therefore is the set of all orders the sort may leave, and
`SubagentsPlaced` is about each of them. `Walk` takes as many steps as there are
sessions and one more, enough for every walk to end, and `Ancestors` and `Placed`
say without walking what the tree is.

## 3. Runs

| Run | Instance | Shows |
|---|---|---|
| `session_sync` | 2 profiles, 2 sessions, 4 Codex steps, 3 lines | `TombstoneFinal`, `TombstonesOnlyDeleted`, `NoSilentLoss`, `SyncConverges`, `ConflictStopsAll`, and that `SessionSync` implements `SessionReplica` (`ReplicaSpec`) |
| `session_fair` | 2 profiles, 1 session, two names, resolutions for the project, fairness | `StaleSideNeverWins`, `RenamesMerge`, `EventuallyInSync` |
| `session_crash` | 2 deaths, Codex concurrent | `AtMostOneTorn`, `UnmanagedSurvives` |
| `session_crash_loss` | 1 death | violation, see findings |
| `session_live_codex` | Codex concurrent | violation |
| `daemon` | 2 commands, 3 daemons, 1 death, fairness | `LostOnlyByCrash`, `TokenFitsState`, `RunFindsToken`, `NeverSignalsStranger`, `NormalStopSparesBusy`, `ForcedStopStops` |
| `profiles` | 2 processes, 3 commands, 2 profiles, 2 homes, 1 server, 1 edit | `ReferencesValid`, `SyncsBeforeUse`, `SyncKeepsSettings`, and that `ProfileConfig` implements `ConfigStore` (`StoreSpec`) |
| `monitor` | 2 publishers, 1 thread, queue of 1, 1 repeat, 2 events | `AnswersMatch`, `SnapshotsInOrder` |
| `monitor_fair` | 1 publisher, fairness | `MonitorConverges` |
| `project_runs` | 3 terminals, 2 profiles, 2 checkouts, 1 session, 2 lines, 3 Codex steps, 1 death | `TombstonesOnlyDeleted`, `SharedByChoice`, `PathsMapped`, `NewShared`, `SyncIdempotent` |
| `project_moved` | 1 terminal, 1 renamed checkout | violation |
| `viewers` | either viewer, feeds of 2 snapshots or every table of 3 threads, 2 requests, 3 events, fairness | `CursorOnRow`, `ListNotOlder`, `ListAnswersControls`, `SubagentsPlaced`, `ViewersCatchUp` |

Every passing run with a type invariant checks that too; every property of a
passing run is violated when one of the mutated definitions of the modules
("A mistake: ...") takes the place of the right one.

### Bounds

* **Sessions.** Two profiles are the smallest number for which one's registry is
  out of date; two sessions let one be in conflict or torn while the other is
  written. Four Codex steps create two sessions and diverge one of them, or
  create, archive, delete and recreate; three lines are a common prefix and two
  different continuations. Profiles and lines are interchangeable, sessions are
  not (they are ordered). `session_fair` uses no symmetry: it checks liveness.
* **Daemons.** Two commands meet in the lock; a third daemon lets a lost one, a
  recorded one and a starting one exist together.
* **Profiles.** Three commands let one process carry out two while the other is
  inside one. `MCCommands` has one command of each kind that can disturb another
  (include and unbind change the same parts as exclude and bind and are in the
  module and the proofs); `mcp sync` and `shell` do what `run` and `mcp add` do.
  `MCInit` starts with one or two profiles in their own homes, the second one in
  line. Processes are interchangeable.
* **Monitor.** An event is a change of a thread or a fault (overload, time-out,
  lost connection, missed probe, outage). Two events are the smallest number
  that fills a queue of one and drops a notification, or that has a late answer
  and a change. Request ids are reused once nothing refers to them; six are
  enough for two abandoned calls. `MaxVersion` exceeds the largest count a
  behaviour of `monitor` reaches, and is 1 in the runs that do not use it. One
  thread, open at the start: two meet only in the order of a list, on which no
  property depends, and take a run past the time a team would wait for it; the
  theorems are about any number.
* **Projects.** Two terminals share a profile and a checkout (concurrent runs and
  shells), the third has both of its own (exchange through git, foreign paths).
  The first profile's user goes to a directory outside both checkouts, the
  other's into the first checkout (`MCVisited`). `PathsMapped` says nothing of
  such a line; that it ends in a conflict is part of `SyncIdempotent` (`Foreign`).
  Three Codex steps create a session, continue it elsewhere and change or delete
  the other copy; the second line of a rollout is one no header tells of. One
  session: verdicts on several differ only in that one stops the others, which
  `session_sync` checks. Terminals 1 and 2 are interchangeable.
* **Viewers.** A snapshot and its successor are enough for a dropped one, an
  older answer and a list that shrinks; the second has one session of another
  profile, so that a page, a profile and a row vanish. Pages hold two of four
  sessions. Two requests overtake each other; when a third is sent, the oldest,
  whose answer would be ignored, is forgotten. An event is an input to the page,
  a failed request or a lost connection; keys of the terminal are not bounded.
  `Tables` has every table of parents of three threads of one profile; `Tangle`
  has two sessions of one id and one time in two profiles.

Deadlock is not checked where the system may stop: all edits made and the mirror
torn, every daemon gone, all commands issued, no viewer left to update.

### Fairness

* `session_fair`: a running command goes on; every user synchronizes again and
  again and resolves the conflicts met. `TryLock` fails at once when another
  process holds the lock, hence strong fairness of beginning. Users settle for
  the project; with both choices two users may undo each other's choice for
  ever: a profile that still holds the older, longer copy wins again.
* `daemon`: each wait of a command has a timeout in the code, and a process sent
  SIGKILL exits. Nothing else is fair: a daemon may hang for ever.
* `monitor_fair`: the app-server answers what it has received, goroutines run,
  timers fire. Strong fairness for the cases of the `select` in
  `consumeProfile`, since Go chooses among ready cases at random, and for
  `publishMu`. That answers come is an assumption; the code's time-outs cover the
  rest (`GiveUp` may happen but need not).

* `viewers`: the service's ticker fires, goroutines run, the page handles what has
  arrived and the browser connects again to a lost stream. Strong fairness of
  `ServeLatest` and `ReceiveLatest`: each snapshot supersedes the request that is
  on its way, so that only again and again is one answered before the next
  snapshot, five seconds later, comes. Users owe nothing.

## 4. Findings

1. `session_crash_loss` - a process that dies in `importProjectSession` after
   removing the previous rollout and before writing the new one (`sync.go:410-419`)
   leaves an owned session without a profile copy; the next sync tombstones the
   mirror's copy as "deleted profile session".
2. `session_live_codex` - `Sync` writes what an earlier scan decided; lines Codex
   appended since then are in no copy and no backup.
3. `project_moved` - the registry is keyed by profile and project id
   (`sync.go:479`) but a scan sees only the sessions below the current root
   (`scan.go:159`): once a checkout's directory is renamed, the next sync
   tombstones the sessions its profile owns and still has. The same happens in a
   second checkout that uses the same profile.

Five more were met while modelling and are not kept as runs of their own:

* A turn that begins after a normal stop has listed the threads is interrupted,
  although README.md:276 says a normal stop refuses (`NormalStopSparesBusy` is
  what holds).
* The next `thread/list` forgets the model a notification supplied
  (README.md:241-242).
* A copy chosen with `resolve --use profile` that the loser extends is undone by
  the next sync of another profile that still has the longer one
  (`sync.go:313-317`), without a conflict, although README.md:438 says "Choose a
  winner explicitly". `StaleSideNeverWins` is stated and checked for users who
  choose the project's copy; with `ResolveChoices = {"project", "profile"}` TLC
  refutes it.
* `atomicWrite` (`sharedmcp.go:228`) truncates a temporary file whose name all
  processes share; another process that renames it before it is written publishes
  an empty or partial `config.toml`, and settings nobody edited are gone, although
  README.md:349 says they are preserved. `SyncKeepsSettings` excepts such torn
  files and nothing else but edits made after the read.
* A user of one checkout works for a turn in the root of another: the line is
  exported unmapped (`io.go:239`), read from the mirror by the stored mapping
  (`io.go:173-182`) and imported raw (`io.go:338-341`), but the scan of the
  profile in that other checkout maps it. The sync right after a successful one
  stops with "both copies contain independent JSONL appends", although
  README.md:437 stops only copies that did. `SyncIdempotent` says exactly when,
  and `NothingLeftToSync` proves it.

README.md:436 says the longer copy wins when one extends the other; `compareSessions`
raises a conflict if the other side's name or archive state has changed as well.
`SessionMerge` follows the code, and `CompareIsThreeWayMerge` says in which sense
it is right.

## 5. Proofs

All theorems hold for every value of the constants that satisfies the modules'
assumptions (distinct "none" values, bounds that are naturals). The modules that
are proved about use recursive functions and folds only.

* **SessionMergeProofs.** `CompareIsThreeWayMerge`: if both copies have only
  grown since the base, `compareSessions`, which never sees the base's lines,
  decides as a three-way merge of content, place and name would.
  `WinnerExtendsLoser`: whatever the base, the copy that wins without a conflict
  extends the other one.
* **SessionSyncProofs.** `TypeCorrect`, then `TombstonesAreFinal`,
  `CrashesTearOneSession` and `TornOnlyWhileWritten` from the inductive
  invariant `MirrorInv`: the lock is held exactly by a process that works
  (`LockInv`); while scanning, what it saw is the mirror and is readable
  (`ScanInv`); outside the application nothing is planned (`WorkInv`); each
  session still pending has in the mirror what was scanned, each in progress is
  half done in the way its action and stage say (`ApplyInv`); at rest without
  crashes the mirror is readable (`RestInv`). The properties themselves do not say
  why the next file operation is harmless, hence the strengthening.
* **SessionReplicaProofs.** `PlanIsCarriedOut`: `PlanInv` reads the plan of a
  command off what it has scanned (`Planned`) and says of every session where
  carrying it out has got to, for a sync as for a resolution. Most of the rest
  follows from what then holds when the registry is saved: `SyncsConverge`,
  `ConflictsStopSyncs`, and with `ReplicaInv` (`HomesInv`: the files of a profile
  are those of one copy per session, unless its command is applying a plan; `BornInv`: nothing is known of a
  session nobody created) the refinement `SyncImplementsReplica`, in which
  `SaveRegistry` is the merge and every other operation a stutter. `MergeInv`
  adds that what a synchronization would take for a deletion was one
  (`Deletions`) and that a profile's copy extends what its registry recorded of
  it (`CopiesGrow`):
  hence `OnlyDeletedAreTombstoned`, `LinesAreNeverLost`. `OverwritesKeepLines` is
  what `session_live_codex` refutes when Codex does run meanwhile. `ThreeWayInv` adds that
  the mirror extends what every registry recorded (`MirrorExtends`): hence
  `StaleSidesNeverWin` and `RenamesMergeThreeWays`.

  Their hypotheses are what the violation runs show to be needed. All but one
  assume `CodexConcurrent = FALSE` (`session_live_codex`); those about lines and
  deletions and the refinement also `MaxCrashes = 0` (`session_crash_loss`); the
  last two also that users resolve for the project (section 4).
  `UnmanagedRolloutsSurvive` assumes nothing.
* **DaemonManagerProofs.** `DaemonInv` (lock, what `Start` and `Stop` know about
  files and daemon at each stage, files agree) gives `DaemonTypeCorrect`,
  `TokenAgrees`, `RunConnectsToItsDaemon`; with `LostInv`, `StrangerInv` and
  `BusyInv` on top it gives `DaemonsAreLostByCrashes`, `StrangersAreSpared` and
  `NormalStopsSpareBusyDaemons`. The first counts: each step adds at most one
  lost daemon, and only a death adds one.
* **ProfileConfigProofs.** `ConfigInv`: a process between its load and its commit
  holds the lock and what it loaded is still what `config.json` holds
  (`ProcInv`, `Holding`). Lemmas say that others keep that (`OthersKeep`), that moving on
  or ending keeps it (`GotoKeeps`, `FinishKeeps`) and that a commit is an
  `Update` of the store (`CommitUpdates`). Hence `ReferencesStayValid` and the
  refinement `ConfigIsAtomic`, `Spec => StoreSpec`. `ConfigTypes` needs `TaskInv`:
  the homes and profiles a command still has to visit are those of what it has
  loaded. `SettingsAreKept` rests on `SettingsInv`: what a process has read, and
  what a whole temporary file holds, has the settings of the file unless the file
  was edited since or is torn. `ProfilesAreSynced` rests on `DriftInv`: an undisturbed home is
  in line with what its command wants (`InLine`) once it is synchronized.
* **MonitorServiceProofs.** `OrderInv`: the one publisher that builds has a copy
  at least as new as the store's snapshot and not newer than the data
  (`BuildInv`), and the snapshot in the channel lies between the viewer's and the
  store's (`ChannelInv`). All steps but three are `Quiet`, the race on the
  threads included; hence `ViewsNeverGoBack`. `MonitorTypes` needs `StoreInv`,
  `LinkInv` and `CallInv`; `AnswersReachTheirCalls` needs `AnswerInv`: whoever
  waits for a request or an answer under way owns it and has not been given up.
  Both assume that `Ids` is infinite, so that an id nobody uses is left: the
  code's is a 64-bit counter (`client.go:150`).
* **ProjectRunsProofs.** `TypeCorrect`. `TombstonesOnlyForDeleted`, under the
  assumption `StayPut` that a profile works in one checkout and for `Spec`, in
  which no checkout is renamed: `project_moved` shows that the theorem is false
  without the latter. Its invariant `Steady` says why a scan finds
  what a registration manages (`ManagedFound`), that a registered deletion was
  one (`RegisteredDeleted`), that what a mirror holds begins with `Portable` and
  so is found again after an import (`MirrorPortable`), and that only sessions
  somebody created are anywhere (`BornFirst`). `SessionsStayPrivate` needs
  neither assumption: `Private` relates what is eligible, what Codex had before a
  run and what any repository knows to `born` and `optedIn`. `PathsAreMapped`,
  again under `StayPut`: an export maps a line exactly if it names the
  exporter's root (`ExportMaps`), an import keeps what a turn meant
  (`ImportMaps`), and with both the property is inductive line by line
  (`Mapped`). `NothingLeftToSync`, for `RenamingSpec` and any users: what a
  verdict leaves behind, decided again, gives no work (`DecideTwice`), an export
  reads back as it was scanned (`ExportReadsBack`), and an import scans as the
  mirror reads (`ImportScansBack`), unless it has a `Foreign` line. Only an
  import leaves one (`ForeignByImport`), and the scan of it then differs from the
  mirror at the same length (`ForeignScansDifferently`), which is a conflict
  (`ForeignConflicts`).
  `RunsShareWhatTheyCreate`, under `StayPut`, from `Fresh`: whatever a run finds that was not there
  before, it created; it finds all of it (`CreatedFound`); and until the
  synchronization it stays eligible.
* **ViewersProofs.** `TypeCorrect`; `CursorStaysOnRow`; `ListIsNotOlder` from
  `Ordered`: nothing on its way to the page is newer than the store's snapshot
  (`ChannelOrder`, `PageOrder`), so that the answer to a request the page makes
  with a snapshot in hand is not older than that (`AnswerNotOlder`);
  `ListAnswersWhatIsChosen` from `Controlled`: unless the timer of the search
  runs, the request that counts asks for what the controls say.
  `SessionsOnOnePage` is about the arithmetic of `sessions.go:67-82`.
  `WalksPlaceSubagents` is about the loop that walks up from a subagent: its
  invariant `WalkInv` holds at the start and is kept by each step; the visited
  threads are listed ones and each step visits another, so that the loop has
  ended within as many steps as there are sessions and one more; then the
  visited threads are the least set closed under parents, `Ancestors`. Induction
  on the steps is by the first that fails (`Induction`, from the well-foundedness
  of the naturals). `SubagentsArePlaced` follows for every table.

So every safety invariant and every action property of the passing runs is a
theorem, and so are both refinements. Only model-checked are the liveness
properties (`EventuallyInSync`, `ForcedStopStops`, `MonitorConverges`,
`ViewersCatchUp`): fairness is defined with ENABLED, which is out of the prover's
reach. For `session_crash`, `monitor` and the other runs with deaths or
concurrent writers the theorems have the hypotheses named above and no others.

## 6. Not modelled

Compressed rollouts; sessions whose first directory is below the root of a
checkout but not the root; symbolic links; an unreadable `state.json` or
registry; two teams that initialize the same project apart; name validation and
path normalisation; `ResolveProfile`; the arguments Codex gets; paging of RPC
results; an app-server that never answers, answers twice or sends requests of its
own (`client.go:211` takes any message with an id for an answer); tokens, accounts,
warnings, projects that come from a binding, sorting and the cache in snapshots;
the dashboard's authentication and certificates; drawing; environment and exit
codes of Codex; the audit, which only reads and reports by heuristics over text;
the build scripts. `PROJECT.json` gives the reason for each component.

## 7. Plan

Order of importance; 1-8 exist.

1. `SessionMerge`, `SessionReplica`, `SessionSync` and their proofs.
2. `DaemonManager` and its proofs.
3. `ConfigStore`, `ProfileConfig` and their proofs.
4. `SnapshotStore`, `MonitorService` and their proofs.
5. Proofs of the safety properties of 1-3.
6. `ProjectRuns` and its proofs.
7. `SnapshotViews`, `SnapshotFeed`, `TerminalUI`, `Dashboard`, `Viewers` and their
   proofs.
8. Proofs of what the runs check besides: the refinement of `SessionReplica`,
   the action properties, the types.
9. Two profiles racing for a port in `DaemonManager`; `ResolveProfile` as an
   operator; properties for the hazards `PROJECT.json` lists without one.
