---------------------------- MODULE ProjectRuns ----------------------------
(***************************************************************************)
(* `codexm run`, `codexm shell`, `session sync` and `session init` over    *)
(* several checkouts of one project: internal/cli/run.go, the commands of  *)
(* internal/cli/session.go and internal/session/project.go.                *)
(*                                                                         *)
(* Every terminal works with one profile in one checkout.  The mirror of a *)
(* checkout travels with git; the profiles and the registries stay on the  *)
(* machine.  A synchronization is one step here: SessionSync, which has    *)
(* its file operations, implements the indivisible one.                    *)
(*                                                                         *)
(* What a rollout holds is abstracted to the directory each of its turns   *)
(* names: the first is the directory Codex was started in.  The mirror has *)
(* the lines as their exporter had them, with absolute paths, and beside   *)
(* them which of those paths are the exporter's root.  What is compared    *)
(* are the canonical lines, in which these are Portable.                   *)
(***************************************************************************)
EXTENDS SessionMerge

CONSTANTS
    Checkouts,   \* working copies of the project
    Origin,      \* the git repository they exchange commits with
    Profiles, Sessions, Terminals,
    CheckoutOf,  \* where each terminal works
    ProfileOf,   \* which profile it uses
    Free,        \* the value of the lock when no process holds it
    Paths,       \* directories
    Portable,    \* "$CODEXM_PROJECT_ROOT"
    HomePath,    \* where each checkout is at first
    Elsewhere,   \* directories that are never a checkout
    Visited,     \* the directories, besides its checkout, each profile's user goes to
    MaxLines,    \* bound on the length of a rollout
    MaxEdits,    \* bound on the number of Codex steps
    MaxMoves,    \* bound on the number of checkouts renamed
    MaxCrashes   \* bound on the number of processes that die

ASSUME LineAssumption == Line = Paths \cup {Portable} /\ Portable \notin Paths
ASSUME PlacesAssumption ==
    /\ Origin \notin Checkouts
    /\ HomePath \in [Checkouts -> Paths]
    /\ Elsewhere \subseteq Paths /\ Visited \in [Profiles -> SUBSET Paths]
    /\ \A c \in Checkouts : HomePath[c] \notin Elsewhere
ASSUME TerminalsAssumption ==
    /\ CheckoutOf \in [Terminals -> Checkouts]
    /\ ProfileOf \in [Terminals -> Profiles]
    /\ Free \notin Terminals
ASSUME BoundsAssumption ==
    MaxLines \in Nat /\ MaxEdits \in Nat /\ MaxMoves \in Nat /\ MaxCrashes \in Nat

VARIABLES
    root,         \* the directory each checkout is in
    initialized,  \* repositories that hold .codexm/project.json
    mirror,       \* .codexm/ of each repository: [Sessions -> Entry]
    pulled,       \* what each checkout last exchanged with Origin
    home,         \* the rollouts of each profile: [Sessions -> turns]
    registry,     \* session-projects/<project>/<profile>.json
    lock,         \* holder of session-locks/<project>.lock
    stage,        \* where each terminal's command is
    before,       \* beforeSessions of its run
    eligible,     \* Eligible of its post-run synchronization
    created,      \* project sessions Codex created in its run
    born,         \* when Codex created a session: not yet, before or after InitializedAt
    optedIn,      \* sessions an --import-existing has taken
    deleted,      \* sessions some user has deleted in Codex
    edits, moves, crashes

repoVars     == <<root, initialized, mirror, pulled>>
profileVars  == <<home, registry>>
terminalVars == <<lock, stage, before, eligible, created>>
historyVars  == <<born, optedIn, deleted>>
countVars    == <<edits, moves, crashes>>
vars == <<repoVars, profileVars, terminalVars, historyVars, countVars>>

Repositories == Checkouts \cup {Origin}

(***************************************************************************)
(* A turn names a directory.  meant is history: Portable if Codex was in   *)
(* the root of its checkout, otherwise that directory.                     *)
(***************************************************************************)
Turn == [cwd : Paths, meant : Line]

(***************************************************************************)
(* A session in a mirror: the lines of its rollout, each with whether the  *)
(* metadata beside it maps its directory, or the canonical lines its       *)
(* tombstone stands for.                                                   *)
(***************************************************************************)
MirrorLine == [turn : Turn, mapped : BOOLEAN]
Entry == [lines : Seq(MirrorLine), tombstone : Seq(Line)]
NoEntry == [lines |-> <<>>, tombstone |-> <<>>]
Known(entry) == entry # NoEntry

\* The stages in which a terminal synchronizes, holding the lock of the project.
Syncing == {"preRun", "postRun", "sync", "import"}
\* In these it runs Codex: under codexm run, or without a synchronization to follow.
InCodex == {"codex", "bare"}
Stage == {"idle", "snapshot", "leaving"} \cup Syncing \cup InCodex

TypeOK ==
    /\ root \in [Checkouts -> Paths]
    /\ initialized \subseteq Repositories
    /\ mirror \in [Repositories -> [Sessions -> Entry]]
    /\ pulled \in [Checkouts -> [Sessions -> Entry]]
    /\ home \in [Profiles -> [Sessions -> Seq(Turn)]]
    /\ registry \in [Profiles -> [Sessions -> Registration]]
    /\ lock \in Terminals \cup {Free}
    /\ stage \in [Terminals -> Stage]
    /\ before \in [Terminals -> SUBSET Sessions]
    /\ eligible \in [Terminals -> SUBSET Sessions]
    /\ created \in [Terminals -> SUBSET Sessions]
    /\ born \in [Sessions -> {"no", "before", "after"}]
    /\ optedIn \subseteq Sessions
    /\ deleted \subseteq Sessions
    /\ edits \in Nat /\ moves \in Nat /\ crashes \in Nat

Init ==
    /\ root = HomePath
    /\ initialized = {}
    /\ mirror = [r \in Repositories |-> [s \in Sessions |-> NoEntry]]
    /\ pulled = [c \in Checkouts |-> [s \in Sessions |-> NoEntry]]
    /\ home = [p \in Profiles |-> [s \in Sessions |-> <<>>]]
    /\ registry = [p \in Profiles |-> [s \in Sessions |-> NoRegistration]]
    /\ lock = Free
    /\ stage = [t \in Terminals |-> "idle"]
    /\ before = [t \in Terminals |-> {}]
    /\ eligible = [t \in Terminals |-> {}]
    /\ created = [t \in Terminals |-> {}]
    /\ born = [s \in Sessions |-> "no"]
    /\ optedIn = {} /\ deleted = {}
    /\ edits = 0 /\ moves = 0 /\ crashes = 0
-----------------------------------------------------------------------------
(***************************************************************************)
(* portableCWD: the lines whose directory is the root of the checkout the  *)
(* profile is scanned for, and the canonical lines.                        *)
(***************************************************************************)
\* A mistake: only the first line, the session_meta, is made portable.
HeaderIsPortable(lines, dir) == {i \in DOMAIN lines : i = 1 /\ lines[i].cwd = dir}

PortableLines(lines, dir) == {i \in DOMAIN lines : lines[i].cwd = dir}

Canonical(lines, dir) ==
    [i \in DOMAIN lines |-> IF i \in PortableLines(lines, dir) THEN Portable ELSE lines[i].cwd]

(***************************************************************************)
(* An export writes the raw lines and which of them are portable; whoever  *)
(* reads the mirror goes by that, wherever its own checkout is.            *)
(***************************************************************************)
Exported(lines, dir) ==
    [i \in DOMAIN lines |-> [turn |-> lines[i], mapped |-> i \in PortableLines(lines, dir)]]

Stored(entry) ==
    [i \in DOMAIN entry.lines |->
       IF entry.lines[i].mapped THEN Portable ELSE entry.lines[i].turn.cwd]

(***************************************************************************)
(* materializeLines: an import puts the root of its own checkout where the *)
(* mirror says so, and keeps the other lines as they are.                  *)
(***************************************************************************)
\* A mistake: the exporter's path is written into the importer's profile.
MaterializeNothing(entry, dir) == [i \in DOMAIN entry.lines |-> entry.lines[i].turn]

Materialized(entry, dir) ==
    [i \in DOMAIN entry.lines |->
       IF entry.lines[i].mapped THEN [entry.lines[i].turn EXCEPT !.cwd = dir]
                                ELSE entry.lines[i].turn]

(***************************************************************************)
(* scanProfile keeps the sessions that were started within the checkout.   *)
(***************************************************************************)
\* A mistake: the directory of the latest turn counts.
InProjectByLastTurn(lines, dir) == lines # <<>> /\ Last(lines).cwd = dir

InProject(lines, dir) == lines # <<>> /\ Head(lines).cwd = dir

ScanProfile(p, c, s) ==
    IF InProject(home[p][s], root[c]) THEN Canonical(home[p][s], root[c]) ELSE <<>>

SnapshotProfile(p, c) == {s \in Sessions : InProject(home[p][s], root[c])}

\* A mistake: the two snapshots are taken for each other.
GoneSessions(earlier, later) == earlier \ later

NewSessions(earlier, later) == later \ earlier

\* A mistake: InitializedAt is forgotten.
EligibleAtAnyTime(t, s) == stage[t] \in {"import", "sync"} \/ s \in eligible[t]

(***************************************************************************)
(* eligibleProfileSession: --import-existing takes every session of the    *)
(* project, a run those that are new in it, session sync those that are    *)
(* not older than the project.                                             *)
(***************************************************************************)
EligibleSession(t, s) ==
    \/ stage[t] = "import"
    \/ s \in eligible[t]
    \/ stage[t] = "sync" /\ born[s] = "after"

CopyOf(lines) == [NoCopy EXCEPT !.lines = lines]

Decision(p, c, s, isEligible) ==
    Decide(CopyOf(Stored(mirror[c][s])), CopyOf(ScanProfile(p, c, s)),
           mirror[c][s].tombstone, registry[p][s], isEligible)

VerdictOn(t, s) == Decision(ProfileOf[t], CheckoutOf[t], s, EligibleSession(t, s))

Refused(t) == \E s \in Sessions : VerdictOn(t, s).action \in {"error", "conflict"}

EntryAfter(entry, lines, dir, action) ==
    IF action = "export" THEN [lines |-> Exported(lines, dir), tombstone |-> <<>>]
    ELSE IF action = "tombstone" THEN [lines |-> <<>>, tombstone |-> Stored(entry)]
    ELSE entry

LinesAfter(lines, entry, dir, action) ==
    IF action = "import" THEN Materialized(entry, dir)
    ELSE IF action = "delete" THEN <<>>
    ELSE lines
-----------------------------------------------------------------------------
(***************************************************************************)
(* Taking the lock is a TryLock: who finds it taken does not wait.         *)
(***************************************************************************)
\* A mistake: the lock is the profile's, not the terminal's.
TakeForProfile(t, syncing) ==
    /\ lock = Free
    /\ lock' = ProfileOf[t]
    /\ stage' = [stage EXCEPT ![t] = syncing]

Take(t, syncing) ==
    /\ lock = Free
    /\ lock' = t
    /\ stage' = [stage EXCEPT ![t] = syncing]

(***************************************************************************)
(* A command goes on to its next stage; one that ends forgets its run.     *)
(***************************************************************************)
Continue(t, next) ==
    /\ stage' = [stage EXCEPT ![t] = next]
    /\ lock' = IF lock = t THEN Free ELSE lock
    /\ before' = [before EXCEPT ![t] = {}]
    /\ eligible' = [eligible EXCEPT ![t] = {}]
    /\ created' = [created EXCEPT ![t] = {}]

(***************************************************************************)
(* codexm run in an initialized project first synchronizes what it already *)
(* manages.  When another synchronization is running it ends at once,      *)
(* having done nothing.                                                    *)
(***************************************************************************)
StartRun(t) ==
    /\ stage[t] = "idle"
    /\ CheckoutOf[t] \in initialized
    /\ Take(t, "preRun")
    /\ UNCHANGED <<repoVars, profileVars, before, eligible, created, historyVars, countVars>>

(***************************************************************************)
(* codexm shell, and codexm run in a project that is not initialized.      *)
(***************************************************************************)
OpenShell(t) ==
    /\ stage[t] = "idle"
    /\ stage' = [stage EXCEPT ![t] = "bare"]
    /\ UNCHANGED <<repoVars, profileVars, lock, before, eligible, created,
                   historyVars, countVars>>

(***************************************************************************)
(* session sync, or session status, its dry run, which ends as it began.   *)
(***************************************************************************)
StartSync(t) ==
    /\ stage[t] = "idle"
    /\ CheckoutOf[t] \in initialized
    /\ Take(t, "sync")
    /\ UNCHANGED <<repoVars, profileVars, before, eligible, created, historyVars, countVars>>

EndStatus(t) ==
    /\ stage[t] = "sync"
    /\ Continue(t, "idle")
    /\ UNCHANGED <<repoVars, profileVars, historyVars, countVars>>

(***************************************************************************)
(* session init creates the project; with --import-existing it goes on to  *)
(* a synchronization, unless that finds the lock taken.  A team creates    *)
(* its project once, further checkouts clone it.                           *)
(***************************************************************************)
InitProject(t) ==
    LET c == CheckoutOf[t]
    IN  /\ stage[t] = "idle"
        /\ c \in initialized \/ initialized = {}
        /\ initialized' = initialized \cup {c}
        /\ \/ Take(t, "import")
           \/ c \notin initialized /\ UNCHANGED <<lock, stage>>
        /\ UNCHANGED <<root, mirror, pulled, profileVars, before, eligible, created,
                       historyVars, countVars>>

(***************************************************************************)
(* Sync, once it has the lock: without an error or a conflict it applies   *)
(* every verdict and saves the registry; otherwise nothing is written.     *)
(* After the synchronization before Codex comes the snapshot.              *)
(***************************************************************************)
FinishSync(t) ==
    LET p == ProfileOf[t]
        c == CheckoutOf[t]
        action(s) == VerdictOn(t, s).action
    IN  /\ stage[t] \in Syncing
        /\ ~Refused(t)
        /\ mirror' = [mirror EXCEPT
             ![c] = [s \in Sessions |->
                       EntryAfter(mirror[c][s], home[p][s], root[c], action(s))]]
        /\ home' = [home EXCEPT
             ![p] = [s \in Sessions |->
                       LinesAfter(home[p][s], mirror[c][s], root[c], action(s))]]
        /\ registry' = [registry EXCEPT
             ![p] = [s \in Sessions |-> VerdictOn(t, s).registration]]
        /\ optedIn' = IF stage[t] = "import"
                      THEN optedIn \cup SnapshotProfile(p, c) ELSE optedIn
        /\ Continue(t, IF stage[t] = "preRun" THEN "snapshot" ELSE "idle")
        /\ UNCHANGED <<root, initialized, pulled, born, deleted, countVars>>

(***************************************************************************)
(* A refused synchronization ends the command: Codex is not started, and   *)
(* codexm run reports the failure of the one after it in its exit code.    *)
(***************************************************************************)
FailSync(t) ==
    /\ stage[t] \in Syncing
    /\ Refused(t)
    /\ Continue(t, "idle")
    /\ UNCHANGED <<repoVars, profileVars, historyVars, countVars>>

(***************************************************************************)
(* SnapshotProfile before Codex, and after it: codexm run waits through    *)
(* interrupts for Codex to end.                                            *)
(***************************************************************************)
SnapshotBefore(t) ==
    /\ stage[t] = "snapshot"
    /\ stage' = [stage EXCEPT ![t] = "codex"]
    /\ before' = [before EXCEPT ![t] = SnapshotProfile(ProfileOf[t], CheckoutOf[t])]
    /\ UNCHANGED <<repoVars, profileVars, lock, eligible, created, historyVars, countVars>>

\* Codex is not found, or the daemon cannot be started or connected to.
LaunchFails(t) ==
    /\ stage[t] = "snapshot"
    /\ Continue(t, "idle")
    /\ UNCHANGED <<repoVars, profileVars, historyVars, countVars>>

CodexExit(t) ==
    /\ stage[t] = "codex"
    /\ stage' = [stage EXCEPT ![t] = "leaving"]
    /\ eligible' = [eligible EXCEPT
         ![t] = NewSessions(before[t], SnapshotProfile(ProfileOf[t], CheckoutOf[t]))]
    /\ UNCHANGED <<repoVars, profileVars, lock, before, created, historyVars, countVars>>

CloseShell(t) ==
    /\ stage[t] = "bare"
    /\ stage' = [stage EXCEPT ![t] = "idle"]
    /\ UNCHANGED <<repoVars, profileVars, lock, before, eligible, created,
                   historyVars, countVars>>

StartPostRun(t) ==
    /\ stage[t] = "leaving"
    /\ Take(t, "postRun")
    /\ UNCHANGED <<repoVars, profileVars, before, eligible, created, historyVars, countVars>>

PostRunRefused(t) ==
    /\ stage[t] = "leaving"
    /\ lock # Free
    /\ Continue(t, "idle")
    /\ UNCHANGED <<repoVars, profileVars, historyVars, countVars>>

(***************************************************************************)
(* codexm dies.  Its lock is released; Codex may live on without it.       *)
(***************************************************************************)
Kill(t) ==
    /\ stage[t] \notin {"idle", "bare"}
    /\ crashes < MaxCrashes
    /\ crashes' = crashes + 1
    /\ \/ Continue(t, "idle")
       \/ stage[t] = "codex" /\ Continue(t, "bare")
    /\ UNCHANGED <<repoVars, profileVars, historyVars, edits, moves>>
-----------------------------------------------------------------------------
(***************************************************************************)
(* Codex, external to codexm.  Its user may have changed to a directory    *)
(* outside the project, that of another checkout included.                 *)
(***************************************************************************)
Directories(t) == {root[CheckoutOf[t]]} \cup Visited[ProfileOf[t]]

TurnIn(t, dir) ==
    [cwd |-> dir, meant |-> IF dir = root[CheckoutOf[t]] THEN Portable ELSE dir]

CodexStep(t) ==
    /\ stage[t] \in InCodex
    /\ edits < MaxEdits
    /\ edits' = edits + 1
    /\ UNCHANGED <<repoVars, registry, lock, stage, before, eligible, optedIn,
                   moves, crashes>>

CodexCreate(t, s) ==
    LET c == CheckoutOf[t]
    IN  /\ born[s] = "no"
        /\ CodexStep(t)
        /\ \E dir \in Directories(t) :
             /\ home' = [home EXCEPT ![ProfileOf[t]][s] = <<TurnIn(t, dir)>>]
             /\ created' = IF stage[t] = "codex" /\ dir = root[c]
                           THEN [created EXCEPT ![t] = @ \cup {s}] ELSE created
        /\ born' = [born EXCEPT ![s] = IF initialized = {} THEN "before" ELSE "after"]
        /\ UNCHANGED deleted

CodexAppend(t, s) ==
    LET p == ProfileOf[t]
    IN  /\ home[p][s] # <<>>
        /\ Len(home[p][s]) < MaxLines
        /\ CodexStep(t)
        /\ \E dir \in Directories(t) : home' = [home EXCEPT ![p][s] = Append(@, TurnIn(t, dir))]
        /\ UNCHANGED <<created, born, deleted>>

CodexDelete(t, s) ==
    LET p == ProfileOf[t]
    IN  /\ home[p][s] # <<>>
        /\ CodexStep(t)
        /\ home' = [home EXCEPT ![p][s] = <<>>]
        /\ deleted' = deleted \cup {s}
        /\ UNCHANGED <<created, born>>
-----------------------------------------------------------------------------
(***************************************************************************)
(* git, external to codexm: a pull with its merge, and the push of the     *)
(* result.  .gitattributes keeps git from merging the text of two          *)
(* versions, so that the user picks one where both sides changed.          *)
(***************************************************************************)
Contested(c) ==
    {s \in Sessions : /\ mirror[c][s] # pulled[c][s]
                      /\ mirror[Origin][s] # pulled[c][s]
                      /\ mirror[c][s] # mirror[Origin][s]}

Merge(c, ours) ==
    [s \in Sessions |->
       IF s \in ours \/ mirror[Origin][s] = pulled[c][s]
       THEN mirror[c][s] ELSE mirror[Origin][s]]

Exchange(c) ==
    /\ c \in initialized \/ Origin \in initialized
    /\ initialized' = initialized \cup {c, Origin}
    /\ \E ours \in SUBSET Contested(c) :
         /\ mirror' = [mirror EXCEPT ![c] = Merge(c, ours), ![Origin] = Merge(c, ours)]
         /\ pulled' = [pulled EXCEPT ![c] = Merge(c, ours)]
    /\ UNCHANGED <<root, profileVars, terminalVars, historyVars, countVars>>

(***************************************************************************)
(* The user renames the directory of a checkout nobody works in.           *)
(***************************************************************************)
Move(c) ==
    /\ \A t \in Terminals : CheckoutOf[t] = c => stage[t] = "idle"
    /\ moves < MaxMoves
    /\ moves' = moves + 1
    /\ \E dir \in Paths \ ({root[d] : d \in Checkouts} \cup Elsewhere) :
         root' = [root EXCEPT ![c] = dir]
    /\ UNCHANGED <<initialized, mirror, pulled, profileVars, terminalVars, historyVars,
                   edits, crashes>>

Command(t) ==
    \/ EndStatus(t)
    \/ FinishSync(t)
    \/ FailSync(t)
    \/ SnapshotBefore(t)
    \/ LaunchFails(t)
    \/ CodexExit(t)
    \/ CloseShell(t)
    \/ StartPostRun(t)
    \/ PostRunRefused(t)

Codex(t) ==
    \E s \in Sessions : CodexCreate(t, s) \/ CodexAppend(t, s) \/ CodexDelete(t, s)

Start(t) == StartRun(t) \/ OpenShell(t) \/ StartSync(t) \/ InitProject(t)

Next ==
    \/ \E t \in Terminals : Start(t) \/ Command(t) \/ Codex(t) \/ Kill(t)
    \/ \E c \in Checkouts : Exchange(c)

Spec == Init /\ [][Next]_vars

\* The same with users who rename checkouts.
RenamingNext == Next \/ \E c \in Checkouts : Move(c)

RenamingSpec == Init /\ [][RenamingNext]_vars
-----------------------------------------------------------------------------
(***************************************************************************)
(* sync.go:247 tombstones a "deleted profile session": a session gets its  *)
(* tombstone, in any repository, only after some user deleted it in Codex. *)
(***************************************************************************)
TombstonesOnlyDeleted ==
    \A r \in Repositories, s \in Sessions :
        mirror[r][s].tombstone # <<>> => s \in deleted

(***************************************************************************)
(* Sessions are private until their user shares them: no repository ever   *)
(* gets to know one that is older than the project unless --import-existing*)
(* took it (README.md:390), nor one started outside the project, whatever  *)
(* shells, synchronizations and runs of other terminals went on.           *)
(***************************************************************************)
SharedByChoice ==
    \A r \in Repositories, s \in Sessions :
        Known(mirror[r][s]) =>
            /\ born[s] = "after" \/ s \in optedIn
            /\ \A lines \in {Stored(mirror[r][s]), mirror[r][s].tombstone} \ {<<>>} :
                 Head(lines) = Portable

(***************************************************************************)
(* Directories travel by what they mean (README.md:463), through any chain *)
(* of exports, merges and imports: a turn at the root of its checkout is   *)
(* mapped in every mirror and names the root of its own checkout in every  *)
(* profile; a turn elsewhere is never mapped and keeps its directory.  Not *)
(* so a turn about the root of another checkout, which reads as one at the *)
(* root when it gets there (SyncIdempotent).                               *)
(***************************************************************************)
PathsMapped ==
    /\ \A r \in Repositories, s \in Sessions : \A line \in ToSet(mirror[r][s].lines) :
         /\ line.turn.meant = Portable => line.mapped
         /\ line.turn.meant \in Elsewhere => ~line.mapped /\ line.turn.cwd = line.turn.meant
    /\ \A t \in Terminals, s \in Sessions : \A turn \in ToSet(home[ProfileOf[t]][s]) :
         /\ turn.meant = Portable => turn.cwd = root[CheckoutOf[t]]
         /\ turn.meant \in Elsewhere => turn.cwd = turn.meant

(***************************************************************************)
(* A run whose last synchronization succeeds has shared every session it   *)
(* created (README.md:396): one that is not shared is still reported by    *)
(* the exit code.                                                          *)
(***************************************************************************)
NewShared ==
    [][\A t \in Terminals :
         stage[t] = "postRun" /\ FinishSync(t) =>
             \A s \in created[t] \ deleted : mirror'[CheckoutOf[t]][s].lines # <<>>]_vars

(***************************************************************************)
(* After a synchronization there is nothing left to synchronize: what it   *)
(* wrote for this checkout reads back as what the mirror holds, so that no *)
(* file is rewritten and no conflict appears without a change.  With one   *)
(* exception: a line of another checkout's user who was in this one's root *)
(* is not mapped by the mirror, but is by the scan of this profile.  Once  *)
(* imported, the rollout is in conflict (sync.go:307: "both copies contain *)
(* independent JSONL appends"), although nobody has appended (README.md:   *)
(* 436-438).                                                               *)
(***************************************************************************)
Foreign(entry, dir) ==
    \E line \in ToSet(entry.lines) : ~line.mapped /\ line.turn.cwd = dir

SyncIdempotent ==
    [][\A t \in Terminals :
         FinishSync(t) =>
             \A s \in Sessions :
                 Decision(ProfileOf[t], CheckoutOf[t], s, FALSE)'.action =
                   IF Foreign(mirror'[CheckoutOf[t]][s], root[CheckoutOf[t]])
                   THEN "conflict" ELSE "none"]_vars
=============================================================================
