---------------------------- MODULE SessionSync ----------------------------
(***************************************************************************)
(* internal/session: the synchronization of the project mirror .codexm/    *)
(* with the CODEX_HOME of each profile, one file operation per step.       *)
(*                                                                         *)
(* One codexm process per profile runs `session sync` or `session          *)
(* resolve`; the processes share one lock file per project, taken with     *)
(* TryLock.  Codex itself works on the rollouts of its profile and takes   *)
(* no lock.  A process that dies, or whose file operation fails, leaves    *)
(* the files as they are and its lock is released.                         *)
(***************************************************************************)
EXTENDS SessionMerge

CONSTANTS
    Profiles,         \* the codexm profiles bound to this project
    Sessions,         \* Codex session ids, ordered as sort.Strings orders them
    Free,             \* the value of the lock when no process holds it
    EligibleChoices,  \* sets of sessions the options of a sync can make eligible
    ResolveChoices,   \* values of resolve --use that users pick
    CodexConcurrent,  \* whether Codex may run while its profile synchronizes
    MaxLines,         \* bound on the length of a rollout
    MaxEdits,         \* bound on the number of Codex steps
    MaxCrashes        \* bound on the number of processes that die

ASSUME SessionsAssumption == Sessions \subseteq Nat
ASSUME FreeAssumption == Free \notin Profiles
ASSUME ChoicesAssumption ==
    /\ EligibleChoices \subseteq SUBSET Sessions
    /\ ResolveChoices \subseteq {"project", "profile"}
ASSUME BoundsAssumption ==
    /\ CodexConcurrent \in BOOLEAN
    /\ MaxLines \in Nat /\ MaxEdits \in Nat /\ MaxCrashes \in Nat

VARIABLES
    rollouts,    \* .codexm/{sessions,archived_sessions}: [Sessions -> [Place -> lines]]
    metadata,    \* .codexm/metadata/<id>.json: [Sessions -> Copy]
    tombstones,  \* .codexm/tombstones/<id>.json: [Sessions -> lines]
    homes,       \* rollouts under each CODEX_HOME: [Profiles -> [Sessions -> [Place -> lines]]]
    names,       \* session_index.jsonl of each profile, last entry per session
    registry,    \* session-projects/<project>/<profile>.json
    backups,     \* copies under session-backups
    lock,        \* holder of session-locks/<project>.lock
    pc,          \* stage of each profile's process
    job,         \* the command it runs
    seenProject, \* what its scanProject returned
    seenProfile, \* what its scanProfile returned
    work,        \* file changes it has still to make, per session
    newRegistry, \* the registry it will save
    born,        \* sessions Codex has created so far
    deleted,     \* sessions some user has deleted in Codex
    edits,       \* Codex steps so far
    crashes      \* processes that have died so far

mirrorVars  == <<rollouts, metadata, tombstones>>
profileVars == <<homes, names>>
syncVars    == <<lock, pc, job, seenProject, seenProfile, work, newRegistry>>
codexVars   == <<born, deleted, edits>>
vars == <<mirrorVars, profileVars, registry, backups, syncVars, codexVars, crashes>>

NoFiles == [place \in Place |-> <<>>]
OnlyAt(place, lines) == [NoFiles EXCEPT ![place] = lines]

Stage == {"idle", "scanLive", "scanArchived", "backup", "apply", "write", "finish"}
Scanning(p) == pc[p] \in {"scanLive", "scanArchived"}
Applying(p) == pc[p] \in {"backup", "apply", "write", "finish"}

(***************************************************************************)
(* A job is a sync, whose scope is the set of sessions its options make    *)
(* eligible for a first export, or the resolution of the one session of    *)
(* its scope in favour of the project or of the profile.                   *)
(***************************************************************************)
Job == [kind : {"none", "sync", "project", "profile"}, scope : SUBSET Sessions]
NoJob == [kind |-> "none", scope |-> {}]
SyncJob(eligible) == [kind |-> "sync", scope |-> eligible]
ResolveJob(s, use) == [kind |-> use, scope |-> {s}]

NoWork == [s \in Sessions |-> "none"]
NothingSeen == [s \in Sessions |-> NoCopy]
NothingRegistered == [s \in Sessions |-> NoRegistration]

TypeOK ==
    /\ rollouts \in [Sessions -> [Place -> Seq(Line)]]
    /\ metadata \in [Sessions -> Copy]
    /\ tombstones \in [Sessions -> Seq(Line)]
    /\ homes \in [Profiles -> [Sessions -> [Place -> Seq(Line)]]]
    /\ names \in [Profiles -> [Sessions -> ThreadName]]
    /\ registry \in [Profiles -> [Sessions -> Registration]]
    /\ backups \subseteq [session : Sessions, lines : Seq(Line)]
    /\ lock \in Profiles \cup {Free}
    /\ pc \in [Profiles -> Stage]
    /\ job \in [Profiles -> Job]
    /\ seenProject \in [Profiles -> [Sessions -> Copy]]
    /\ seenProfile \in [Profiles -> [Sessions -> Copy]]
    /\ work \in [Profiles -> [Sessions -> FileAction]]
    /\ newRegistry \in [Profiles -> [Sessions -> Registration]]
    /\ born \subseteq Sessions
    /\ deleted \subseteq Sessions
    /\ edits \in Nat
    /\ crashes \in Nat

Init ==
    /\ rollouts = [s \in Sessions |-> NoFiles]
    /\ metadata = [s \in Sessions |-> NoCopy]
    /\ tombstones = [s \in Sessions |-> <<>>]
    /\ homes = [p \in Profiles |-> [s \in Sessions |-> NoFiles]]
    /\ names = [p \in Profiles |-> [s \in Sessions |-> NoName]]
    /\ registry = [p \in Profiles |-> NothingRegistered]
    /\ backups = {}
    /\ lock = Free
    /\ pc = [p \in Profiles |-> "idle"]
    /\ job = [p \in Profiles |-> NoJob]
    /\ seenProject = [p \in Profiles |-> NothingSeen]
    /\ seenProfile = [p \in Profiles |-> NothingSeen]
    /\ work = [p \in Profiles |-> NoWork]
    /\ newRegistry = [p \in Profiles |-> NothingRegistered]
    /\ born = {} /\ deleted = {} /\ edits = 0 /\ crashes = 0
-----------------------------------------------------------------------------
(***************************************************************************)
(* Codex, external to codexm, changes the rollouts of its own profile.     *)
(***************************************************************************)
CodexStep(p) ==
    /\ CodexConcurrent \/ pc[p] = "idle"
    /\ edits < MaxEdits
    /\ edits' = edits + 1
    /\ UNCHANGED <<mirrorVars, registry, backups, syncVars, crashes>>

CodexCreate(p, s) ==
    /\ s \notin born
    /\ CodexStep(p)
    /\ \E line \in Line :
         homes' = [homes EXCEPT ![p][s] = OnlyAt("sessions", <<line>>)]
    /\ born' = born \cup {s}
    /\ UNCHANGED <<names, deleted>>

CodexAppend(p, s) ==
    /\ homes[p][s]["sessions"] # <<>>
    /\ Len(homes[p][s]["sessions"]) < MaxLines
    /\ CodexStep(p)
    /\ \E line \in Line :
         homes' = [homes EXCEPT ![p][s]["sessions"] = Append(@, line)]
    /\ UNCHANGED <<names, born, deleted>>

CodexMove(p, s, from, to) ==
    /\ from # to
    /\ homes[p][s][from] # <<>>
    /\ homes[p][s][to] = <<>>
    /\ CodexStep(p)
    /\ homes' = [homes EXCEPT ![p][s] = OnlyAt(to, homes[p][s][from])]
    /\ UNCHANGED <<names, born, deleted>>

CodexRename(p, s, name) ==
    /\ homes[p][s] # NoFiles
    /\ names[p][s] # name
    /\ CodexStep(p)
    /\ names' = [names EXCEPT ![p][s] = name]
    /\ UNCHANGED <<homes, born, deleted>>

CodexDelete(p, s) ==
    /\ homes[p][s] # NoFiles
    /\ CodexStep(p)
    /\ homes' = [homes EXCEPT ![p][s] = NoFiles]
    /\ deleted' = deleted \cup {s}
    /\ UNCHANGED <<names, born>>
-----------------------------------------------------------------------------
(***************************************************************************)
(* scanProject accepts a session whose rollout and sidecar describe each   *)
(* other and that has no tombstone, and a session with neither file.       *)
(***************************************************************************)
Readable(s) ==
    IF Exists(metadata[s])
    THEN /\ rollouts[s] = OnlyAt(metadata[s].place, metadata[s].lines)
         /\ tombstones[s] = <<>>
    ELSE rollouts[s] = NoFiles

MirrorReadable == \A s \in Sessions : Readable(s)

(***************************************************************************)
(* Begin is acquireLock, scanProject and readSessionNames.  A process that *)
(* finds the lock taken or the mirror unreadable gives up and has changed  *)
(* nothing.  The names are kept with the copies, still without rollouts.   *)
(***************************************************************************)
Enter(p, j) ==
    /\ pc[p] = "idle"
    /\ lock' = p
    /\ pc' = [pc EXCEPT ![p] = "scanLive"]
    /\ job' = [job EXCEPT ![p] = j]
    /\ seenProject' = [seenProject EXCEPT ![p] = metadata]
    /\ seenProfile' = [seenProfile EXCEPT
                         ![p] = [s \in Sessions |-> [NoCopy EXCEPT !.name = names[p][s]]]]
    /\ UNCHANGED <<mirrorVars, profileVars, registry, backups, codexVars,
                   work, newRegistry, crashes>>

\* A mistake: a torn mirror is not noticed.
BeginUnread(p, j) == lock = Free /\ Enter(p, j)

Begin(p, j) == lock = Free /\ MirrorReadable /\ Enter(p, j)

(***************************************************************************)
(* scanProfile walks sessions/ and then archived_sessions/.                *)
(***************************************************************************)
ScanLive(p) ==
    /\ pc[p] = "scanLive"
    /\ pc' = [pc EXCEPT ![p] = "scanArchived"]
    /\ seenProfile' = [seenProfile EXCEPT
                         ![p] = [s \in Sessions |->
                            [seenProfile[p][s] EXCEPT !.lines = homes[p][s]["sessions"]]]]
    /\ UNCHANGED <<mirrorVars, profileVars, registry, backups, codexVars,
                   lock, job, seenProject, work, newRegistry, crashes>>

\* A mistake: archived_sessions/ is forgotten.
ProfileScanLiveOnly(p) ==
    [s \in Sessions |-> IF Exists(seenProfile[p][s]) THEN seenProfile[p][s] ELSE NoCopy]

ProfileScan(p) ==
    [s \in Sessions |->
       LET archived == homes[p][s]["archived_sessions"]
           live     == seenProfile[p][s]
       IN  IF archived # <<>>
           THEN [live EXCEPT !.place = "archived_sessions", !.lines = archived]
           ELSE IF Exists(live) THEN live ELSE NoCopy]

DuplicateFound(p) ==
    \E s \in Sessions : /\ Exists(seenProfile[p][s])
                        /\ homes[p][s]["archived_sessions"] # <<>>

(***************************************************************************)
(* The preflight: reconcileState without apply over the scanned state.     *)
(***************************************************************************)
Decision(p) ==
    [s \in Sessions |->
       Decide(seenProject[p][s], ProfileScan(p)[s], tombstones[s],
              registry[p][s], s \in job[p].scope)]

\* A mistake: conflicts are listed but the other sessions are still written.
BlockedByError(p) == \E s \in Sessions : Decision(p)[s].action = "error"

Blocked(p) ==
    \E s \in Sessions : Decision(p)[s].action \in {"error", "conflict"}

\* A mistake: the lock outlives the command.
ReleaseKeepingLock(p) ==
    /\ pc' = [pc EXCEPT ![p] = "idle"]
    /\ UNCHANGED <<lock, job, seenProject, seenProfile, work, newRegistry>>

Release(p) ==
    /\ lock' = Free
    /\ pc' = [pc EXCEPT ![p] = "idle"]
    /\ job' = [job EXCEPT ![p] = NoJob]
    /\ seenProject' = [seenProject EXCEPT ![p] = NothingSeen]
    /\ seenProfile' = [seenProfile EXCEPT ![p] = NothingSeen]
    /\ work' = [work EXCEPT ![p] = NoWork]
    /\ newRegistry' = [newRegistry EXCEPT ![p] = NothingRegistered]

PlanSync(p) ==
    /\ pc[p] = "scanArchived"
    /\ job[p].kind = "sync"
    /\ ~DuplicateFound(p)
    /\ ~Blocked(p)
    /\ pc' = [pc EXCEPT ![p] = "apply"]
    /\ seenProfile' = [seenProfile EXCEPT ![p] = ProfileScan(p)]
    /\ work' = [work EXCEPT ![p] = [s \in Sessions |-> Decision(p)[s].action]]
    /\ newRegistry' = [newRegistry EXCEPT
                         ![p] = [s \in Sessions |-> Decision(p)[s].registration]]
    /\ UNCHANGED <<mirrorVars, profileVars, registry, backups, codexVars,
                   lock, job, seenProject, crashes>>

Conflicted(p, s) ==
    /\ Exists(seenProject[p][s])
    /\ Exists(ProfileScan(p)[s])
    /\ CompareSessions(seenProject[p][s], ProfileScan(p)[s], registry[p][s]) = "conflict"

PlanResolve(p, s) ==
    LET winner == IF job[p].kind = "project" THEN seenProject[p][s] ELSE ProfileScan(p)[s]
    IN  /\ pc[p] = "scanArchived"
        /\ job[p].kind \in {"project", "profile"}
        /\ s \in job[p].scope
        /\ ~DuplicateFound(p)
        /\ Conflicted(p, s)
        /\ pc' = [pc EXCEPT ![p] = "backup"]
        /\ seenProfile' = [seenProfile EXCEPT ![p] = ProfileScan(p)]
        /\ work' = [work EXCEPT ![p][s] =
                      IF job[p].kind = "project" THEN "import" ELSE "export"]
        /\ newRegistry' = [newRegistry EXCEPT
                             ![p] = [registry[p] EXCEPT ![s] = RegistrationFor(winner)]]
        /\ UNCHANGED <<mirrorVars, profileVars, registry, backups, codexVars,
                       lock, job, seenProject, crashes>>

(***************************************************************************)
(* An error or a conflict: the command returns before it changes a file.   *)
(***************************************************************************)
Reject(p) ==
    /\ pc[p] = "scanArchived"
    /\ \/ DuplicateFound(p)
       \/ job[p].kind = "sync" /\ Blocked(p)
       \/ /\ job[p].kind \in {"project", "profile"}
          /\ \E s \in job[p].scope : ~Conflicted(p, s)
    /\ Release(p)
    /\ UNCHANGED <<mirrorVars, profileVars, registry, backups, codexVars, crashes>>
-----------------------------------------------------------------------------
(***************************************************************************)
(* The apply phase: sessions in ascending order, each one's file           *)
(* operations in the order of the code.                                    *)
(***************************************************************************)
Current(p, s) ==
    /\ work[p][s] # "none"
    /\ \A t \in Sessions : t < s => work[p][t] = "none"

At(p, s, action, stage) ==
    /\ pc[p] = stage
    /\ Current(p, s)
    /\ work[p][s] = action

Then(p, stage) ==
    /\ pc' = [pc EXCEPT ![p] = stage]
    /\ UNCHANGED <<registry, backups, codexVars, crashes,
                   lock, job, seenProject, seenProfile, work, newRegistry>>

Done(p, s) ==
    /\ pc' = [pc EXCEPT ![p] = "apply"]
    /\ work' = [work EXCEPT ![p][s] = "none"]
    /\ UNCHANGED <<registry, backups, codexVars, crashes,
                   lock, job, seenProject, seenProfile, newRegistry>>

(***************************************************************************)
(* Whether the copy that is replaced lies where the new one will not.      *)
(***************************************************************************)
Moves(source, previous) == Exists(previous) /\ previous.place # source.place

\* A mistake: the copy that survives is the one that is saved.
BackupWinner(p, s) ==
    LET winner == IF job[p].kind = "project" THEN seenProject[p][s] ELSE seenProfile[p][s]
    IN  /\ pc[p] = "backup"
        /\ Current(p, s)
        /\ backups' = backups \cup {[session |-> s, lines |-> winner.lines]}
        /\ pc' = [pc EXCEPT ![p] = "apply"]
        /\ UNCHANGED <<mirrorVars, profileVars, registry, codexVars, crashes,
                       lock, job, seenProject, seenProfile, work, newRegistry>>

BackupLoser(p, s) ==
    LET loser == IF job[p].kind = "project" THEN seenProfile[p][s] ELSE seenProject[p][s]
    IN  /\ pc[p] = "backup"
        /\ Current(p, s)
        /\ backups' = backups \cup {[session |-> s, lines |-> loser.lines]}
        /\ pc' = [pc EXCEPT ![p] = "apply"]
        /\ UNCHANGED <<mirrorVars, profileVars, registry, codexVars, crashes,
                       lock, job, seenProject, seenProfile, work, newRegistry>>

ExportRemovePrevious(p, s) ==
    /\ At(p, s, "export", "apply")
    /\ Moves(seenProfile[p][s], seenProject[p][s])
    /\ rollouts' = [rollouts EXCEPT ![s][seenProject[p][s].place] = <<>>]
    /\ Then(p, "write")
    /\ UNCHANGED <<metadata, tombstones, profileVars>>

ExportWriteRollout(p, s) ==
    /\ \/ At(p, s, "export", "apply") /\ ~Moves(seenProfile[p][s], seenProject[p][s])
       \/ At(p, s, "export", "write")
    /\ rollouts' = [rollouts EXCEPT ![s][seenProfile[p][s].place] = seenProfile[p][s].lines]
    /\ Then(p, "finish")
    /\ UNCHANGED <<metadata, tombstones, profileVars>>

ExportWriteMetadata(p, s) ==
    /\ At(p, s, "export", "finish")
    /\ metadata' = [metadata EXCEPT ![s] = seenProfile[p][s]]
    /\ Done(p, s)
    /\ UNCHANGED <<rollouts, tombstones, profileVars>>

ImportRemovePrevious(p, s) ==
    /\ At(p, s, "import", "apply")
    /\ Moves(seenProject[p][s], seenProfile[p][s])
    /\ homes' = [homes EXCEPT ![p][s][seenProfile[p][s].place] = <<>>]
    /\ Then(p, "write")
    /\ UNCHANGED <<mirrorVars, names>>

ImportWriteRollout(p, s) ==
    /\ \/ At(p, s, "import", "apply") /\ ~Moves(seenProject[p][s], seenProfile[p][s])
       \/ At(p, s, "import", "write")
    /\ homes' = [homes EXCEPT ![p][s][seenProject[p][s].place] = seenProject[p][s].lines]
    /\ Then(p, "finish")
    /\ UNCHANGED <<mirrorVars, names>>

\* A mistake: an empty name is never written, even over another one.
ImportGivenName(p, s) ==
    /\ At(p, s, "import", "finish")
    /\ names' = IF seenProject[p][s].name = NoName THEN names
                ELSE [names EXCEPT ![p][s] = seenProject[p][s].name]
    /\ Done(p, s)
    /\ UNCHANGED <<mirrorVars, homes>>

ImportAppendName(p, s) ==
    /\ At(p, s, "import", "finish")
    /\ names' = [names EXCEPT ![p][s] = seenProject[p][s].name]
    /\ Done(p, s)
    /\ UNCHANGED <<mirrorVars, homes>>

TombstoneRemoveRollout(p, s) ==
    /\ At(p, s, "tombstone", "apply")
    /\ rollouts' = [rollouts EXCEPT ![s][seenProject[p][s].place] = <<>>]
    /\ Then(p, "write")
    /\ UNCHANGED <<metadata, tombstones, profileVars>>

TombstoneRemoveMetadata(p, s) ==
    /\ At(p, s, "tombstone", "write")
    /\ metadata' = [metadata EXCEPT ![s] = NoCopy]
    /\ Then(p, "finish")
    /\ UNCHANGED <<rollouts, tombstones, profileVars>>

TombstoneWrite(p, s) ==
    /\ At(p, s, "tombstone", "finish")
    /\ tombstones' = [tombstones EXCEPT ![s] = seenProject[p][s].lines]
    /\ Done(p, s)
    /\ UNCHANGED <<rollouts, metadata, profileVars>>

DeleteProfileRollout(p, s) ==
    /\ At(p, s, "delete", "apply")
    /\ homes' = [homes EXCEPT ![p][s][seenProfile[p][s].place] = <<>>]
    /\ Done(p, s)
    /\ UNCHANGED <<mirrorVars, names>>

SaveRegistry(p) ==
    /\ pc[p] = "apply"
    /\ work[p] = NoWork
    /\ registry' = [registry EXCEPT ![p] = newRegistry[p]]
    /\ Release(p)
    /\ UNCHANGED <<mirrorVars, profileVars, backups, codexVars, crashes>>

(***************************************************************************)
(* The process dies, or a file operation fails and the command returns.    *)
(***************************************************************************)
Abort(p) ==
    /\ pc[p] # "idle"
    /\ crashes < MaxCrashes
    /\ crashes' = crashes + 1
    /\ Release(p)
    /\ UNCHANGED <<mirrorVars, profileVars, registry, backups, codexVars>>
-----------------------------------------------------------------------------
Codex(p) ==
    \E s \in Sessions :
        \/ CodexCreate(p, s)
        \/ CodexAppend(p, s)
        \/ \E from, to \in Place : CodexMove(p, s, from, to)
        \/ \E name \in Name : CodexRename(p, s, name)
        \/ CodexDelete(p, s)

BeginSync(p) == \E eligible \in EligibleChoices : Begin(p, SyncJob(eligible))

BeginResolve(p, s) == \E use \in ResolveChoices : Begin(p, ResolveJob(s, use))

Apply(p, s) ==
    \/ BackupLoser(p, s)
    \/ ExportRemovePrevious(p, s)
    \/ ExportWriteRollout(p, s)
    \/ ExportWriteMetadata(p, s)
    \/ ImportRemovePrevious(p, s)
    \/ ImportWriteRollout(p, s)
    \/ ImportAppendName(p, s)
    \/ TombstoneRemoveRollout(p, s)
    \/ TombstoneRemoveMetadata(p, s)
    \/ TombstoneWrite(p, s)
    \/ DeleteProfileRollout(p, s)

Work(p) ==
    \/ ScanLive(p)
    \/ PlanSync(p)
    \/ Reject(p)
    \/ SaveRegistry(p)
    \/ \E s \in Sessions : PlanResolve(p, s) \/ Apply(p, s)

Next ==
    \E p \in Profiles :
        \/ Codex(p)
        \/ BeginSync(p)
        \/ \E s \in Sessions : BeginResolve(p, s)
        \/ Work(p)
        \/ Abort(p)

Spec == Init /\ [][Next]_vars
-----------------------------------------------------------------------------
(***************************************************************************)
(* What codexm would find now.                                             *)
(***************************************************************************)
ProfileCopy(p, s) ==
    IF \E place \in Place : homes[p][s] = OnlyAt(place, homes[p][s][place])
                            /\ homes[p][s][place] # <<>>
    THEN LET place == CHOOSE place \in Place : homes[p][s][place] # <<>>
         IN  [place |-> place, lines |-> homes[p][s][place], name |-> names[p][s]]
    ELSE NoCopy

LinesOf(s) ==
    {rollouts[s][place] : place \in Place}
    \cup {homes[p][s][place] : p \in Profiles, place \in Place}
    \cup {b.lines : b \in {b \in backups : b.session = s}}

(***************************************************************************)
(* The mirror is unreadable for later synchronizations only while the      *)
(* process that holds the lock is between two file operations of that very *)
(* session: scanProject accepts whatever a finished command leaves.        *)
(***************************************************************************)
TornOnlyInFlight ==
    \A s \in Sessions :
        Readable(s) \/ \E p \in Profiles : /\ lock = p
                                           /\ pc[p] \in {"write", "finish"}
                                           /\ Current(p, s)

(***************************************************************************)
(* However many processes die in the middle of their file operations, at   *)
(* most one session of the mirror is left torn: sessions are written one   *)
(* after the other, and no command starts on a mirror it cannot read.      *)
(***************************************************************************)
AtMostOneTorn ==
    \A s, t \in Sessions : ~Readable(s) /\ ~Readable(t) => s = t

(***************************************************************************)
(* A tombstone is final: no synchronization of any profile, not even of    *)
(* one that still holds the session, brings its rollout or its sidecar     *)
(* back into the mirror.                                                   *)
(***************************************************************************)
TombstoneFinal ==
    \A s \in Sessions :
        tombstones[s] # <<>> => rollouts[s] = NoFiles /\ ~Exists(metadata[s])

(***************************************************************************)
(* sync.go:247 reports "tombstone deleted profile session": a session is   *)
(* tombstoned only after some user deleted it in Codex.                    *)
(***************************************************************************)
TombstonesOnlyDeleted ==
    \A s \in Sessions : tombstones[s] # <<>> => s \in deleted

(***************************************************************************)
(* No line is lost silently: as long as nobody deletes the session, every  *)
(* rollout that exists before a step is, after it, a prefix of a rollout   *)
(* that the mirror, a profile or session-backups still holds.              *)
(***************************************************************************)
NoSilentLoss ==
    [][\A s \in Sessions \ deleted' :
         \A before \in LinesOf(s) : \E after \in LinesOf(s)' : IsPrefix(before, after)]_vars

(***************************************************************************)
(* A completed synchronization leaves profile, mirror and registry in      *)
(* agreement on every session: content, archive state and name, and        *)
(* deletions.                                                              *)
(***************************************************************************)
InSync(p) ==
    /\ MirrorReadable
    /\ \A s \in Sessions :
         LET copy == ProfileCopy(p, s)
             base == registry[p][s]
         IN  /\ Exists(metadata[s]) => /\ copy = metadata[s]
                                       /\ base = RegistrationFor(copy)
             /\ Owned(base) /\ ~base.tombstone => Exists(metadata[s])
             /\ Owned(base) /\ tombstones[s] # <<>> => /\ ~Exists(copy)
                                                       /\ base.tombstone

SyncConverges ==
    [][\A p \in Profiles : job[p].kind = "sync" /\ SaveRegistry(p) => InSync(p)']_vars

(***************************************************************************)
(* While one session of the project is in conflict, a synchronization      *)
(* changes no file of any session (README: synchronization stops before    *)
(* Codex starts).  The session being written is between its own two        *)
(* states and is not looked at.                                            *)
(***************************************************************************)
InConflict(p, s) ==
    /\ Exists(metadata[s])
    /\ Exists(ProfileCopy(p, s))
    /\ CompareSessions(metadata[s], ProfileCopy(p, s), registry[p][s]) = "conflict"

ConflictStopsAll ==
    [][\A p \in Profiles, s \in Sessions :
         job[p].kind = "sync" /\ Apply(p, s)
           => \A t \in Sessions \ {s} : ~InConflict(p, t)]_vars

(***************************************************************************)
(* A synchronization renames a managed session on one side only if that    *)
(* side still has the name of the last synchronization: a rename made on   *)
(* both sides is never settled silently.                                   *)
(***************************************************************************)
RenamesMerge ==
    [][\A p \in Profiles, s \in Sessions :
         job[p].kind = "sync" /\ Applying(p) /\ Owned(registry[p][s])
           => /\ names[p][s]' # names[p][s]
                   => names[p][s] = registry[p][s].copy.name
              /\ lock = p /\ Exists(metadata[s]) /\ Exists(metadata[s])'
                   /\ metadata[s].name # metadata[s].name'
                   => metadata[s].name = registry[p][s].copy.name]_vars

(***************************************************************************)
(* A synchronization never lets a side that has not changed since the last *)
(* one of a managed session overwrite the other, as long as resolve takes  *)
(* the project's copy: then the mirror only grows.  It is not so after     *)
(* `resolve --use profile` with a shorter copy, which README.md:438 offers *)
(* too: a profile that still holds the longer one, and has not changed it, *)
(* undoes that choice without a conflict (sync.go:313-317).                *)
(***************************************************************************)
StaleSideNeverWins ==
    \A p \in Profiles, s \in Sessions :
        job[p].kind = "sync" /\ Owned(registry[p][s])
          => /\ work[p][s] = "export" => seenProfile[p][s] # registry[p][s].copy
             /\ work[p][s] = "import" => seenProject[p][s] # registry[p][s].copy

(***************************************************************************)
(* A synchronization never deletes a rollout its profile has not managed   *)
(* before, whatever tombstones the mirror holds (session_test.go:233).     *)
(***************************************************************************)
UnmanagedSurvives ==
    [][\A p \in Profiles, s \in Sessions :
         /\ Applying(p) /\ homes[p][s] # NoFiles /\ ~Owned(registry[p][s])
         /\ edits' = edits /\ homes[p][s]' = NoFiles
         => work[p][s]' = "import"]_vars

(***************************************************************************)
(* README.md:445: before the mirror's copy takes the place of the copy of  *)
(* the profile, every line of the latter is in the former or backed up.    *)
(***************************************************************************)
OverwriteKeepsLines ==
    \A p \in Profiles, s \in Sessions :
        LET source == seenProject[p][s]
            kept   == {source.lines} \cup {b.lines : b \in {b \in backups : b.session = s}}
        IN  \/ At(p, s, "import", "apply") /\ ~Moves(source, seenProfile[p][s])
            \/ At(p, s, "import", "write")
            => \E lines \in kept : IsPrefix(homes[p][s][source.place], lines)

-----------------------------------------------------------------------------
(***************************************************************************)
(* Fairness of the environment: a command that runs goes on; every user    *)
(* keeps synchronizing the profile and resolves the conflicts met.  The    *)
(* lock is only now and then free and TryLock does not wait, hence strong  *)
(* fairness.                                                               *)
(***************************************************************************)
Fairness ==
    \A p \in Profiles :
        /\ WF_vars(Work(p))
        /\ SF_vars(BeginSync(p))
        /\ \A s \in Sessions : SF_vars(BeginResolve(p, s))

FairSpec == Spec /\ Fairness

(***************************************************************************)
(* Once the users stop editing, every profile and the mirror end up in     *)
(* agreement and stay so (README: new sessions, continued conversations,   *)
(* names, archive state, restores and deletions round-trip).               *)
(***************************************************************************)
EventuallyInSync ==
    <>[](edits = MaxEdits) => <>[](\A p \in Profiles : InSync(p))

(***************************************************************************)
(* The implementation of the indivisible synchronization: as long as a     *)
(* process applies its plan, the abstract state is the state it scanned;   *)
(* saving the registry is the moment the whole plan takes effect.          *)
(***************************************************************************)
Replica == INSTANCE SessionReplica WITH
    mirror <- [s \in Sessions |->
                 IF lock = Free THEN metadata[s] ELSE seenProject[lock][s]],
    tombstones <- [s \in Sessions |->
                     IF lock # Free /\ Exists(seenProject[lock][s])
                     THEN <<>> ELSE tombstones[s]],
    profile <- [p \in Profiles |->
                  IF Applying(p) THEN seenProfile[p]
                                 ELSE [s \in Sessions |-> ProfileCopy(p, s)]]

ReplicaSpec == Replica!Spec
=============================================================================
