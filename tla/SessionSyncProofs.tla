------------------------- MODULE SessionSyncProofs -------------------------
(***************************************************************************)
(* What every synchronization of a project mirror preserves, for any       *)
(* number of profiles, sessions, lines, Codex steps and crashes.           *)
(***************************************************************************)
EXTENDS SessionSync, SessionMergeProofs

LEMMA PlaceFiles ==
    ASSUME NEW place \in Place, NEW lines \in Seq(Line)
    PROVE  /\ NoFiles \in [Place -> Seq(Line)]
           /\ OnlyAt(place, lines) \in [Place -> Seq(Line)]
<1>1. <<>> \in Seq(Line)
  OBVIOUS
<1>2. NoFiles \in [Place -> Seq(Line)]
  BY <1>1 DEF NoFiles
<1> QED
  BY <1>2 DEF OnlyAt

LEMMA InitType == Init => TypeOK
<1> SUFFICES ASSUME Init PROVE TypeOK
  OBVIOUS
<1>1. NoFiles \in [Place -> Seq(Line)]
  BY DEF NoFiles
<1>2. NoName \in ThreadName
  BY DEF ThreadName
<1> QED
  BY <1>1, <1>2, NoCopyType
     DEF Init, TypeOK, NothingRegistered, NothingSeen, NoWork, NoJob, Job, Stage, FileAction

(***************************************************************************)
(* Codex of profile p: its rollouts, its names and the counters.           *)
(***************************************************************************)
LEMMA CodexKeeps ==
    ASSUME TypeOK, NEW p \in Profiles, Codex(p)
    PROVE  /\ homes' \in [Profiles -> [Sessions -> [Place -> Seq(Line)]]]
           /\ names' \in [Profiles -> [Sessions -> ThreadName]]
           /\ born' \subseteq Sessions /\ deleted' \subseteq Sessions
           /\ edits' \in Nat
           /\ UNCHANGED <<mirrorVars, registry, backups, syncVars, crashes>>
<1> USE DEF TypeOK
<1>1. PICK s \in Sessions :
        \/ CodexCreate(p, s)
        \/ CodexAppend(p, s)
        \/ \E from, to \in Place : CodexMove(p, s, from, to)
        \/ \E name \in Name : CodexRename(p, s, name)
        \/ CodexDelete(p, s)
  BY DEF Codex
<1>2. NoFiles \in [Place -> Seq(Line)] /\ "sessions" \in Place
  BY DEF NoFiles, Place
<1>3. CASE CodexCreate(p, s)
  <2>1. \A line \in Line : OnlyAt("sessions", <<line>>) \in [Place -> Seq(Line)]
    <3> SUFFICES ASSUME NEW line \in Line
                 PROVE  OnlyAt("sessions", <<line>>) \in [Place -> Seq(Line)]
      OBVIOUS
    <3>1. <<line>> \in Seq(Line)
      OBVIOUS
    <3> QED
      BY <1>2, <3>1, PlaceFiles
  <2> QED
    BY <1>3, <2>1 DEF CodexCreate, CodexStep
<1>4. CASE CodexAppend(p, s)
  <2>1. PICK line \in Line :
          homes' = [homes EXCEPT ![p][s]["sessions"] = Append(@, line)]
    BY <1>4 DEF CodexAppend
  <2>2. homes[p][s]["sessions"] \in Seq(Line)
    BY <1>2
  <2>3. Append(homes[p][s]["sessions"], line) \in Seq(Line)
    BY <2>2
  <2> QED
    BY <1>2, <1>4, <2>1, <2>3 DEF CodexAppend, CodexStep
<1>5. CASE \E from, to \in Place : CodexMove(p, s, from, to)
  <2>1. PICK from \in Place, to \in Place : CodexMove(p, s, from, to)
    BY <1>5
  <2>2. OnlyAt(to, homes[p][s][from]) \in [Place -> Seq(Line)]
    <3>1. homes[p][s][from] \in Seq(Line)
      OBVIOUS
    <3> QED
      BY <3>1, PlaceFiles
  <2> QED
    BY <2>1, <2>2 DEF CodexMove, CodexStep
<1>6. CASE \E name \in Name : CodexRename(p, s, name)
  BY <1>6 DEF CodexRename, CodexStep, ThreadName
<1>7. CASE CodexDelete(p, s)
  BY <1>2, <1>7 DEF CodexDelete, CodexStep
<1> QED
  BY <1>1, <1>3, <1>4, <1>5, <1>6, <1>7

LEMMA CopyUpdate ==
    ASSUME NEW copy \in Copy
    PROVE  /\ \A lines \in Seq(Line), place \in Place :
                [copy EXCEPT !.place = place, !.lines = lines] \in Copy
           /\ \A name \in ThreadName : [copy EXCEPT !.name = name] \in Copy
BY DEF Copy

LEMMA ProfileScanType ==
    ASSUME TypeOK, NEW p \in Profiles
    PROVE  ProfileScan(p) \in [Sessions -> Copy]
<1>1. \A s \in Sessions : /\ homes[p][s]["archived_sessions"] \in Seq(Line)
                          /\ seenProfile[p][s] \in Copy
  BY DEF TypeOK, Place
<1>2. "archived_sessions" \in Place
  BY DEF Place
<1>3. SUFFICES ASSUME NEW s \in Sessions PROVE ProfileScan(p)[s] \in Copy
  BY DEF ProfileScan
<1>4. [seenProfile[p][s] EXCEPT !.place = "archived_sessions",
                                !.lines = homes[p][s]["archived_sessions"]] \in Copy
  BY <1>1, <1>2, CopyUpdate, NoCopyType DEF ThreadName
<1> QED
  BY <1>1, <1>4, NoCopyType DEF ProfileScan

LEMMA DecisionType ==
    ASSUME TypeOK, NEW p \in Profiles
    PROVE  Decision(p) \in [Sessions -> Verdict]
<1>1. \A s \in Sessions : /\ seenProject[p][s] \in Copy
                          /\ ProfileScan(p)[s] \in Copy
                          /\ tombstones[s] \in Seq(Line)
                          /\ registry[p][s] \in Registration
  BY ProfileScanType DEF TypeOK
<1> QED
  BY <1>1, DecideType DEF Decision

(***************************************************************************)
(* One command, from taking the lock to releasing it, keeps the types.     *)
(***************************************************************************)
LEMMA BeginType ==
    ASSUME TypeOK, NEW p \in Profiles, NEW j \in Job, Begin(p, j)
    PROVE  TypeOK'
<1> DEFINE named == [s \in Sessions |-> [NoCopy EXCEPT !.name = names[p][s]]]
<1>1. named \in [Sessions -> Copy]
  <2>1. \A s \in Sessions : names[p][s] \in ThreadName
    BY DEF TypeOK
  <2>2. "sessions" \in Place /\ <<>> \in Seq(Line)
    BY DEF Place
  <2> QED
    BY <2>1, <2>2, CopyUpdate, NoCopyType
<1>2. /\ lock' = p
      /\ pc' = [pc EXCEPT ![p] = "scanLive"]
      /\ job' = [job EXCEPT ![p] = j]
      /\ seenProject' = [seenProject EXCEPT ![p] = metadata]
      /\ seenProfile' = [seenProfile EXCEPT ![p] = named]
      /\ UNCHANGED <<mirrorVars, profileVars, registry, backups, codexVars,
                     work, newRegistry, crashes>>
  BY DEF Begin, Enter
<1>3. "scanLive" \in Stage
  BY DEF Stage
<1> HIDE DEF named
<1> QED
  BY <1>1, <1>2, <1>3 DEF TypeOK, mirrorVars, profileVars, codexVars

LEMMA ScanLiveType ==
    ASSUME TypeOK, NEW p \in Profiles, ScanLive(p)
    PROVE  TypeOK'
<1> DEFINE scan == [s \in Sessions |->
                      [seenProfile[p][s] EXCEPT !.lines = homes[p][s]["sessions"]]]
<1>1. scan \in [Sessions -> Copy]
  <2>1. \A s \in Sessions : /\ seenProfile[p][s] \in Copy
                            /\ homes[p][s]["sessions"] \in Seq(Line)
    BY DEF TypeOK, Place
  <2>2. \A s \in Sessions :
          [seenProfile[p][s] EXCEPT !.lines = homes[p][s]["sessions"]] \in Copy
    BY <2>1 DEF Copy
  <2> QED
    BY <2>2
<1>2. /\ pc' = [pc EXCEPT ![p] = "scanArchived"]
      /\ seenProfile' = [seenProfile EXCEPT ![p] = scan]
      /\ UNCHANGED <<mirrorVars, profileVars, registry, backups, codexVars,
                     lock, job, seenProject, work, newRegistry, crashes>>
  BY DEF ScanLive
<1>3. "scanArchived" \in Stage
  BY DEF Stage
<1> HIDE DEF scan
<1> QED
  BY <1>1, <1>2, <1>3 DEF TypeOK, mirrorVars, profileVars, codexVars

LEMMA PlanSyncType ==
    ASSUME TypeOK, NEW p \in Profiles, PlanSync(p)
    PROVE  TypeOK'
<1> DEFINE action == [s \in Sessions |-> Decision(p)[s].action]
           registered == [s \in Sessions |-> Decision(p)[s].registration]
<1>1. action \in [Sessions -> FileAction] /\ registered \in [Sessions -> Registration]
  <2>1. \A s \in Sessions : Decision(p)[s] \in Verdict
    BY DecisionType
  <2>2. \A s \in Sessions : Decision(p)[s].action \notin {"error", "conflict"}
    BY DEF PlanSync, Blocked
  <2> QED
    BY <2>1, <2>2 DEF Verdict
<1>2. /\ pc' = [pc EXCEPT ![p] = "apply"]
      /\ seenProfile' = [seenProfile EXCEPT ![p] = ProfileScan(p)]
      /\ work' = [work EXCEPT ![p] = action]
      /\ newRegistry' = [newRegistry EXCEPT ![p] = registered]
      /\ UNCHANGED <<mirrorVars, profileVars, registry, backups, codexVars,
                     lock, job, seenProject, crashes>>
  BY DEF PlanSync
<1>3. "apply" \in Stage
  BY DEF Stage
<1> HIDE DEF action, registered
<1> QED
  BY <1>1, <1>2, <1>3, ProfileScanType DEF TypeOK, mirrorVars, profileVars, codexVars

LEMMA PlanResolveType ==
    ASSUME TypeOK, NEW p \in Profiles, NEW s \in Sessions, PlanResolve(p, s)
    PROVE  TypeOK'
<1> DEFINE winner == IF job[p].kind = "project" THEN seenProject[p][s] ELSE ProfileScan(p)[s]
           action == IF job[p].kind = "project" THEN "import" ELSE "export"
<1>1. RegistrationFor(winner) \in Registration
  <2>1. winner \in Copy
    BY ProfileScanType DEF TypeOK
  <2>2. <<>> \in Seq(Line)
    OBVIOUS
  <2> QED
    BY <2>1, <2>2, RegistrationType
<1>2. action \in FileAction
  BY DEF FileAction
<1>3. /\ pc' = [pc EXCEPT ![p] = "backup"]
      /\ seenProfile' = [seenProfile EXCEPT ![p] = ProfileScan(p)]
      /\ work' = [work EXCEPT ![p][s] = action]
      /\ newRegistry' = [newRegistry EXCEPT
                           ![p] = [registry[p] EXCEPT ![s] = RegistrationFor(winner)]]
      /\ UNCHANGED <<mirrorVars, profileVars, registry, backups, codexVars,
                     lock, job, seenProject, crashes>>
  BY DEF PlanResolve
<1>4. "backup" \in Stage
  BY DEF Stage
<1> HIDE DEF winner, action
<1> QED
  BY <1>1, <1>2, <1>3, <1>4, ProfileScanType DEF TypeOK, mirrorVars, profileVars, codexVars

LEMMA ReleaseType ==
    ASSUME TypeOK, NEW p \in Profiles, Release(p), registry' \in [Profiles -> [Sessions -> Registration]],
           crashes' \in Nat, UNCHANGED <<mirrorVars, profileVars, backups, codexVars>>
    PROVE  TypeOK'
<1>1. /\ NoJob \in Job
      /\ "idle" \in Stage
      /\ NothingSeen \in [Sessions -> Copy]
      /\ NoWork \in [Sessions -> FileAction]
      /\ NothingRegistered \in [Sessions -> Registration]
  BY NoCopyType DEF NoJob, Job, Stage, NothingSeen, NoWork, FileAction, NothingRegistered
<1> QED
  BY <1>1 DEF Release, TypeOK, mirrorVars, profileVars, codexVars

(***************************************************************************)
(* The ways an apply step can end: in another stage, or done with s.       *)
(***************************************************************************)
LEMMA ThenType ==
    ASSUME TypeOK, NEW p \in Profiles, NEW s \in Sessions,
           \/ \E stage \in Stage : Then(p, stage)
           \/ Done(p, s),
           rollouts' \in [Sessions -> [Place -> Seq(Line)]],
           metadata' \in [Sessions -> Copy],
           tombstones' \in [Sessions -> Seq(Line)],
           homes' \in [Profiles -> [Sessions -> [Place -> Seq(Line)]]],
           names' \in [Profiles -> [Sessions -> ThreadName]]
    PROVE  TypeOK'
<1>1. "none" \in FileAction /\ "apply" \in Stage
  BY DEF FileAction, Stage
<1>2. CASE \E stage \in Stage : Then(p, stage)
  BY <1>2 DEF Then, TypeOK, codexVars
<1>3. CASE Done(p, s)
  BY <1>1, <1>3 DEF Done, TypeOK, codexVars
<1> QED
  BY <1>2, <1>3

LEMMA ApplyType ==
    ASSUME TypeOK, NEW p \in Profiles, NEW s \in Sessions, Apply(p, s)
    PROVE  TypeOK'
<1>1. {"write", "finish", "apply"} \subseteq Stage
  BY DEF Stage
<1>2. /\ seenProject[p][s] \in Copy /\ seenProfile[p][s] \in Copy
      /\ seenProject[p][s].lines \in Seq(Line) /\ seenProfile[p][s].lines \in Seq(Line)
      /\ seenProject[p][s].place \in Place /\ seenProfile[p][s].place \in Place
      /\ seenProject[p][s].name \in ThreadName
  BY CopyFields DEF TypeOK
<1>3. <<>> \in Seq(Line)
  OBVIOUS
<1>4. CASE BackupLoser(p, s)
  <2>1. backups' \subseteq [session : Sessions, lines : Seq(Line)]
    BY <1>2, <1>4 DEF BackupLoser, TypeOK
  <2> QED
    BY <1>1, <1>4, <2>1 DEF BackupLoser, TypeOK, mirrorVars, profileVars, codexVars
<1>5. CASE ExportRemovePrevious(p, s)
  BY <1>1, <1>2, <1>3, <1>5, ThenType DEF ExportRemovePrevious, TypeOK, profileVars
<1>6. CASE ExportWriteRollout(p, s)
  BY <1>1, <1>2, <1>6, ThenType DEF ExportWriteRollout, TypeOK, profileVars
<1>7. CASE ExportWriteMetadata(p, s)
  BY <1>2, <1>7, ThenType DEF ExportWriteMetadata, TypeOK, profileVars
<1>8. CASE ImportRemovePrevious(p, s)
  BY <1>1, <1>2, <1>3, <1>8, ThenType DEF ImportRemovePrevious, TypeOK, mirrorVars
<1>9. CASE ImportWriteRollout(p, s)
  BY <1>1, <1>2, <1>9, ThenType DEF ImportWriteRollout, TypeOK, mirrorVars
<1>10. CASE ImportAppendName(p, s)
  BY <1>2, <1>10, ThenType DEF ImportAppendName, TypeOK, mirrorVars
<1>11. CASE TombstoneRemoveRollout(p, s)
  BY <1>1, <1>2, <1>3, <1>11, ThenType DEF TombstoneRemoveRollout, TypeOK, profileVars
<1>12. CASE TombstoneRemoveMetadata(p, s)
  BY <1>1, <1>12, ThenType, NoCopyType DEF TombstoneRemoveMetadata, TypeOK, profileVars
<1>13. CASE TombstoneWrite(p, s)
  BY <1>2, <1>13, ThenType DEF TombstoneWrite, TypeOK, profileVars
<1>14. CASE DeleteProfileRollout(p, s)
  BY <1>2, <1>3, <1>14, ThenType DEF DeleteProfileRollout, TypeOK, mirrorVars
<1> QED
  BY <1>4, <1>5, <1>6, <1>7, <1>8, <1>9, <1>10, <1>11, <1>12, <1>13, <1>14 DEF Apply

(***************************************************************************)
(* The steps of the system by kind: Codex, the start of a command, the     *)
(* scans and plans, the file operations, and the end of a command.         *)
(***************************************************************************)
LEMMA StepKinds ==
    ASSUME Next
    PROVE  \E p \in Profiles :
             \/ Codex(p)
             \/ \E j \in Job : Begin(p, j)
             \/ ScanLive(p)
             \/ PlanSync(p)
             \/ \E s \in Sessions : PlanResolve(p, s)
             \/ \E s \in Sessions : Apply(p, s)
             \/ Reject(p) \/ Abort(p) \/ SaveRegistry(p)
<1>1. \A eligible \in EligibleChoices : SyncJob(eligible) \in Job
  BY ChoicesAssumption DEF SyncJob, Job
<1>2. \A s \in Sessions, use \in ResolveChoices : ResolveJob(s, use) \in Job
  BY ChoicesAssumption DEF ResolveJob, Job
<1> QED
  BY <1>1, <1>2 DEF Next, BeginSync, BeginResolve, Work

LEMMA StepType == TypeOK /\ [Next]_vars => TypeOK'
<1> SUFFICES ASSUME TypeOK, [Next]_vars PROVE TypeOK'
  OBVIOUS
<1>1. CASE UNCHANGED vars
  BY <1>1 DEF TypeOK, vars, mirrorVars, profileVars, syncVars, codexVars
<1>2. CASE Next
  <2>1. PICK p \in Profiles :
             \/ Codex(p)
             \/ \E j \in Job : Begin(p, j)
             \/ ScanLive(p)
             \/ PlanSync(p)
             \/ \E s \in Sessions : PlanResolve(p, s)
             \/ \E s \in Sessions : Apply(p, s)
             \/ Reject(p) \/ Abort(p) \/ SaveRegistry(p)
    BY <1>2, StepKinds
  <2>2. CASE Codex(p)
    BY <2>2, CodexKeeps DEF TypeOK, mirrorVars, syncVars
  <2>3. CASE \E j \in Job : Begin(p, j)
    BY <2>3, BeginType
  <2>4. CASE ScanLive(p)
    BY <2>4, ScanLiveType
  <2>5. CASE PlanSync(p)
    BY <2>5, PlanSyncType
  <2>6. CASE \E s \in Sessions : PlanResolve(p, s)
    BY <2>6, PlanResolveType
  <2>7. CASE \E s \in Sessions : Apply(p, s)
    BY <2>7, ApplyType
  <2>8. CASE Reject(p)
    BY <2>8, ReleaseType DEF Reject, TypeOK
  <2>9. CASE Abort(p)
    BY <2>9, ReleaseType DEF Abort, TypeOK
  <2>10. CASE SaveRegistry(p)
    BY <2>10, ReleaseType DEF SaveRegistry, TypeOK
  <2> QED
    BY <2>1, <2>2, <2>3, <2>4, <2>5, <2>6, <2>7, <2>8, <2>9, <2>10
<1> QED
  BY <1>1, <1>2

(***************************************************************************)
(* Every variable of the synchronization keeps its type.                   *)
(***************************************************************************)
THEOREM TypeCorrect == Spec => []TypeOK
<1>1. Init => TypeOK
  BY InitType
<1>2. TypeOK /\ [Next]_vars => TypeOK'
  BY StepType
<1> QED
  BY <1>1, <1>2, PTL DEF Spec
-----------------------------------------------------------------------------
(***************************************************************************)
(* The mirror.  A process that changes it holds the lock, works on one     *)
(* session at a time, and has seen every other session readable.           *)
(***************************************************************************)

\* What the mirror holds between two file operations on s.
HalfDone(p, s) ==
    IF work[p][s] = "export"
    THEN rollouts[s] = IF pc[p] = "write" THEN NoFiles
                       ELSE OnlyAt(seenProfile[p][s].place, seenProfile[p][s].lines)
    ELSE IF work[p][s] = "tombstone"
    THEN /\ rollouts[s] = NoFiles
         /\ tombstones[s] = <<>>
         /\ pc[p] = "finish" => ~Exists(metadata[s])
    ELSE Readable(s)

InProgress(p, s) == pc[p] \in {"write", "finish"} /\ Current(p, s)

Pending(p, s) ==
    /\ work[p][s] = "export" => Exists(seenProfile[p][s]) /\ tombstones[s] = <<>>
    /\ work[p][s] = "tombstone" => Exists(seenProject[p][s])
    /\ InProgress(p, s) => HalfDone(p, s)
    /\ ~InProgress(p, s) => /\ Readable(s)
                            /\ work[p][s] # "none" => metadata[s] = seenProject[p][s]

LockInv == \A p \in Profiles : lock = p <=> pc[p] # "idle"
ScanInv == \A p \in Profiles : Scanning(p) => MirrorReadable /\ seenProject[p] = metadata
WorkInv == \A p \in Profiles : ~Applying(p) => work[p] = NoWork
ApplyInv == \A p \in Profiles : Applying(p) => \A s \in Sessions : Pending(p, s)
RestInv == MaxCrashes = 0 /\ lock = Free => MirrorReadable

(***************************************************************************)
(* The inductive invariant.  TombstoneFinal and AtMostOneTorn alone do not *)
(* say why the next file operation is harmless; the rest does.             *)
(***************************************************************************)
MirrorInv ==
    /\ TypeOK /\ LockInv /\ ScanInv /\ WorkInv /\ ApplyInv /\ RestInv
    /\ TombstoneFinal /\ AtMostOneTorn

LEMMA InitMirror == Init => MirrorInv
<1> SUFFICES ASSUME Init PROVE MirrorInv
  OBVIOUS
<1>1. TypeOK
  BY InitType
<1>2. \A s \in Sessions : Readable(s)
  BY DEF Init, Readable, Exists, NoCopy
<1>3. \A p \in Profiles : ~Scanning(p) /\ ~Applying(p)
  BY DEF Init, Scanning, Applying
<1>4. LockInv
  BY FreeAssumption DEF Init, LockInv
<1>5. WorkInv
  BY DEF Init, WorkInv
<1>6. TombstoneFinal
  BY DEF Init, TombstoneFinal
<1> QED
  BY <1>1, <1>2, <1>3, <1>4, <1>5, <1>6
     DEF MirrorInv, ScanInv, ApplyInv, RestInv, AtMostOneTorn, MirrorReadable

(***************************************************************************)
(* The holder of the lock is the only process that is not idle.            *)
(***************************************************************************)
LEMMA OneProcess ==
    ASSUME TypeOK, LockInv, NEW p \in Profiles, pc[p] # "idle", NEW q \in Profiles, q # p
    PROVE  pc[q] = "idle" /\ ~Scanning(q) /\ ~Applying(q) /\ lock = p
BY DEF LockInv, Scanning, Applying

LEMMA CurrentUnique ==
    ASSUME NEW p \in Profiles, NEW s \in Sessions, NEW t \in Sessions,
           Current(p, s), Current(p, t)
    PROVE  s = t
<1>1. s \in Nat /\ t \in Nat
  BY SessionsAssumption
<1>2. s < t \/ t < s \/ s = t
  BY <1>1
<1> QED
  BY <1>2 DEF Current

(***************************************************************************)
(* A step that leaves the mirror alone, and the process that applies a     *)
(* plan too, keeps what depends on the mirror alone.                       *)
(***************************************************************************)
LEMMA MirrorUnchanged ==
    ASSUME TombstoneFinal, AtMostOneTorn, UNCHANGED mirrorVars
    PROVE  /\ TombstoneFinal' /\ AtMostOneTorn'
           /\ \A s \in Sessions : Readable(s)' <=> Readable(s)
           /\ MirrorReadable' <=> MirrorReadable
<1>1. \A s \in Sessions : Readable(s)' <=> Readable(s)
  BY DEF mirrorVars, Readable
<1> QED
  BY <1>1 DEF mirrorVars, TombstoneFinal, AtMostOneTorn, MirrorReadable

LEMMA HolderMoves ==
    ASSUME TypeOK, LockInv, WorkInv, NEW p \in Profiles, pc[p] # "idle", lock' = lock,
           NEW stage, stage # "idle", pc' = [pc EXCEPT ![p] = stage]
    PROVE  /\ LockInv' /\ lock' = p /\ pc'[p] = stage
           /\ \A q \in Profiles : q # p => work[q] = NoWork
<1>1. \A q \in Profiles : q # p => pc[q] = "idle" /\ ~Applying(q)
  BY OneProcess
<1>2. lock = p
  BY DEF LockInv
<1> QED
  BY <1>1, <1>2 DEF TypeOK, LockInv, WorkInv

(***************************************************************************)
(* While p holds the lock the invariant is what p needs.                   *)
(***************************************************************************)
LEMMA HolderInv ==
    ASSUME NEW p \in Profiles, TypeOK', LockInv', lock' = p,
           (Scanning(p) => MirrorReadable /\ seenProject[p] = metadata)',
           (~Applying(p) => work[p] = NoWork)',
           (Applying(p) => \A s \in Sessions : Pending(p, s))',
           \A q \in Profiles : q # p => work'[q] = NoWork,
           TombstoneFinal', AtMostOneTorn'
    PROVE  MirrorInv'
<1>1. \A q \in Profiles : q # p => (pc[q] = "idle")'
  BY DEF LockInv
<1>2. \A q \in Profiles : q # p => ~Scanning(q)' /\ ~Applying(q)'
  BY <1>1 DEF Scanning, Applying
<1>3. ScanInv' /\ WorkInv' /\ ApplyInv'
  BY <1>2 DEF ScanInv, WorkInv, ApplyInv
<1>4. RestInv'
  BY FreeAssumption DEF RestInv
<1> QED
  BY <1>3, <1>4 DEF MirrorInv

LEMMA CodexMirror ==
    ASSUME MirrorInv, TypeOK', UNCHANGED <<mirrorVars, syncVars>>
    PROVE  MirrorInv'
<1>1. /\ TombstoneFinal' /\ AtMostOneTorn'
      /\ \A s \in Sessions : Readable(s)' <=> Readable(s)
      /\ MirrorReadable' <=> MirrorReadable
  BY MirrorUnchanged DEF MirrorInv
<1>2. UNCHANGED <<rollouts, metadata, tombstones, lock, pc, seenProject, seenProfile, work>>
  BY DEF mirrorVars, syncVars
<1>3. \A p \in Profiles, s \in Sessions : Pending(p, s)' <=> Pending(p, s)
  BY <1>1, <1>2 DEF Pending, InProgress, Current, HalfDone
<1>4. LockInv' /\ ScanInv' /\ WorkInv' /\ ApplyInv' /\ RestInv'
  BY <1>1, <1>2, <1>3
     DEF MirrorInv, LockInv, ScanInv, WorkInv, ApplyInv, RestInv, Scanning, Applying
<1> QED
  BY <1>1, <1>4 DEF MirrorInv

LEMMA BeginMirror ==
    ASSUME MirrorInv, TypeOK', NEW p \in Profiles, NEW j, Begin(p, j)
    PROVE  MirrorInv'
<1>1. /\ lock = Free /\ MirrorReadable /\ lock' = p
      /\ pc' = [pc EXCEPT ![p] = "scanLive"]
      /\ seenProject' = [seenProject EXCEPT ![p] = metadata]
      /\ UNCHANGED <<mirrorVars, work>>
  BY DEF Begin, Enter
<1>2. \A q \in Profiles : pc[q] = "idle" /\ work[q] = NoWork
  BY <1>1, FreeAssumption DEF MirrorInv, LockInv, WorkInv, Applying
<1>3. LockInv' /\ Scanning(p)' /\ ~Applying(p)'
  BY <1>1, <1>2 DEF MirrorInv, TypeOK, LockInv, Scanning, Applying
<1>4. TombstoneFinal' /\ AtMostOneTorn' /\ MirrorReadable'
  BY <1>1, MirrorUnchanged DEF MirrorInv
<1>5. (seenProject[p] = metadata)'
  BY <1>1 DEF MirrorInv, TypeOK, mirrorVars
<1> QED
  BY <1>1, <1>2, <1>3, <1>4, <1>5, HolderInv

LEMMA ScanLiveMirror ==
    ASSUME MirrorInv, TypeOK', NEW p \in Profiles, ScanLive(p)
    PROVE  MirrorInv'
<1>1. /\ pc[p] = "scanLive"
      /\ pc' = [pc EXCEPT ![p] = "scanArchived"]
      /\ UNCHANGED <<mirrorVars, metadata, lock, seenProject, work>>
  BY DEF ScanLive, mirrorVars
<1>2. /\ LockInv' /\ lock' = p /\ pc'[p] = "scanArchived"
      /\ \A q \in Profiles : q # p => work[q] = NoWork
  BY <1>1, HolderMoves DEF MirrorInv
<1>3. /\ MirrorReadable /\ seenProject[p] = metadata /\ work[p] = NoWork
  BY <1>1 DEF MirrorInv, ScanInv, WorkInv, Scanning, Applying
<1>4. TombstoneFinal' /\ AtMostOneTorn' /\ MirrorReadable'
  BY <1>1, <1>3, MirrorUnchanged DEF MirrorInv
<1>5. ~Applying(p)' /\ (seenProject[p] = metadata)'
  BY <1>1, <1>2, <1>3 DEF Applying
<1> QED
  BY <1>1, <1>2, <1>3, <1>4, <1>5, HolderInv

(***************************************************************************)
(* A plan starts from a readable mirror that it has seen as it is.         *)
(***************************************************************************)
LEMMA PlanSyncMirror ==
    ASSUME MirrorInv, TypeOK', NEW p \in Profiles, PlanSync(p)
    PROVE  MirrorInv'
<1>1. /\ pc[p] = "scanArchived"
      /\ pc' = [pc EXCEPT ![p] = "apply"]
      /\ seenProfile' = [seenProfile EXCEPT ![p] = ProfileScan(p)]
      /\ work' = [work EXCEPT ![p] = [s \in Sessions |-> Decision(p)[s].action]]
      /\ UNCHANGED <<mirrorVars, rollouts, metadata, tombstones, lock, seenProject>>
  BY DEF PlanSync, mirrorVars
<1>2. /\ LockInv' /\ lock' = p /\ pc'[p] = "apply"
      /\ \A q \in Profiles : q # p => work[q] = NoWork
  BY <1>1, HolderMoves DEF MirrorInv
<1>3. MirrorReadable /\ seenProject[p] = metadata
  BY <1>1 DEF MirrorInv, ScanInv, Scanning
<1>4. TombstoneFinal' /\ AtMostOneTorn' /\ MirrorReadable'
  BY <1>1, <1>3, MirrorUnchanged DEF MirrorInv
<1>5. /\ ~Scanning(p)' /\ Applying(p)'
      /\ \A q \in Profiles : q # p => work'[q] = NoWork
  BY <1>1, <1>2 DEF Scanning, Applying, MirrorInv, TypeOK
<1>6. \A s \in Sessions :
        /\ work'[p][s] = Decision(p)[s].action
        /\ seenProfile'[p][s] = ProfileScan(p)[s]
        /\ metadata'[s] = seenProject'[p][s]
  BY <1>1, <1>3 DEF MirrorInv, TypeOK
<1>7. ASSUME NEW s \in Sessions PROVE Pending(p, s)'
  <2>1. Decision(p)[s] = Decide(seenProject[p][s], ProfileScan(p)[s], tombstones[s],
                                registry[p][s], s \in job[p].scope)
    BY DEF Decision
  <2>2. /\ work'[p][s] = "export" => Exists(seenProfile'[p][s]) /\ tombstones'[s] = <<>>
        /\ work'[p][s] = "tombstone" => Exists(seenProject'[p][s])
    BY <1>1, <1>6, <2>1, DecideActsOnCopies
  <2>3. ~InProgress(p, s)'
    BY <1>2 DEF InProgress
  <2> QED
    BY <1>4, <1>6, <2>2, <2>3 DEF Pending, MirrorReadable
<1> QED
  BY <1>2, <1>4, <1>5, <1>7, HolderInv

LEMMA PlanResolveMirror ==
    ASSUME MirrorInv, TypeOK', NEW p \in Profiles, NEW s \in Sessions, PlanResolve(p, s)
    PROVE  MirrorInv'
<1>1. /\ pc[p] = "scanArchived"
      /\ Conflicted(p, s)
      /\ pc' = [pc EXCEPT ![p] = "backup"]
      /\ seenProfile' = [seenProfile EXCEPT ![p] = ProfileScan(p)]
      /\ work' = [work EXCEPT ![p][s] =
                    IF job[p].kind = "project" THEN "import" ELSE "export"]
      /\ UNCHANGED <<mirrorVars, rollouts, metadata, tombstones, lock, seenProject>>
  BY DEF PlanResolve, mirrorVars
<1>2. /\ LockInv' /\ lock' = p /\ pc'[p] = "backup"
      /\ \A q \in Profiles : q # p => work[q] = NoWork
  BY <1>1, HolderMoves DEF MirrorInv
<1>3. MirrorReadable /\ seenProject[p] = metadata /\ work[p] = NoWork
  BY <1>1 DEF MirrorInv, ScanInv, WorkInv, Scanning, Applying
<1>4. TombstoneFinal' /\ AtMostOneTorn' /\ MirrorReadable'
  BY <1>1, <1>3, MirrorUnchanged DEF MirrorInv
<1>5. /\ ~Scanning(p)' /\ Applying(p)'
      /\ \A q \in Profiles : q # p => work'[q] = NoWork
  BY <1>1, <1>2 DEF Scanning, Applying, MirrorInv, TypeOK
<1>6. /\ Exists(ProfileScan(p)[s])
      /\ tombstones[s] = <<>>
  BY <1>1, <1>3 DEF Conflicted, MirrorReadable, Readable
<1>7. ASSUME NEW t \in Sessions PROVE Pending(p, t)'
  <2>1. /\ work'[p][t] # "tombstone"
        /\ work'[p][t] = "export" => t = s
        /\ seenProfile'[p][t] = ProfileScan(p)[t]
        /\ metadata'[t] = seenProject'[p][t]
    BY <1>1, <1>3 DEF MirrorInv, TypeOK, NoWork
  <2>2. ~InProgress(p, t)'
    BY <1>2 DEF InProgress
  <2> QED
    BY <1>1, <1>4, <1>6, <2>1, <2>2 DEF Pending, MirrorReadable
<1> QED
  BY <1>2, <1>4, <1>5, <1>7, HolderInv

(***************************************************************************)
(* A command ends: rejected, dead, or with the registry saved.             *)
(***************************************************************************)
LEMMA ReleaseMirror ==
    ASSUME MirrorInv, TypeOK', NEW p \in Profiles, pc[p] # "idle", Release(p),
           UNCHANGED mirrorVars, MaxCrashes = 0 => MirrorReadable
    PROVE  MirrorInv'
<1>1. /\ lock' = Free
      /\ pc' = [pc EXCEPT ![p] = "idle"]
      /\ work' = [work EXCEPT ![p] = NoWork]
  BY DEF Release
<1>2. \A q \in Profiles : q # p => pc[q] = "idle" /\ ~Applying(q)
  BY OneProcess DEF MirrorInv
<1>3. \A q \in Profiles : pc'[q] = "idle" /\ work'[q] = NoWork
  BY <1>1, <1>2 DEF MirrorInv, TypeOK, WorkInv
<1>4. \A q \in Profiles : ~Scanning(q)' /\ ~Applying(q)'
  BY <1>3 DEF Scanning, Applying
<1>5. LockInv'
  BY <1>1, <1>3, FreeAssumption DEF LockInv
<1>6. TombstoneFinal' /\ AtMostOneTorn' /\ (MaxCrashes = 0 => MirrorReadable')
  BY MirrorUnchanged DEF MirrorInv
<1> QED
  BY <1>3, <1>4, <1>5, <1>6 DEF MirrorInv, ScanInv, WorkInv, ApplyInv, RestInv

(***************************************************************************)
(* A file operation on s leaves the other sessions of the mirror alone.    *)
(***************************************************************************)
OthersKept(s) ==
    \A t \in Sessions : t # s => /\ rollouts'[t] = rollouts[t]
                                /\ metadata'[t] = metadata[t]
                                /\ tombstones'[t] = tombstones[t]

LEMMA OthersReadable ==
    ASSUME MirrorInv, NEW p \in Profiles, NEW s \in Sessions, Applying(p), Current(p, s),
           OthersKept(s),
           tombstones'[s] # <<>> => rollouts'[s] = NoFiles /\ ~Exists(metadata'[s])
    PROVE  /\ \A t \in Sessions : t # s => ~Current(p, t) /\ Readable(t) /\ Readable(t)'
           /\ AtMostOneTorn' /\ TombstoneFinal'
<1>1. ASSUME NEW t \in Sessions, t # s
      PROVE  ~Current(p, t) /\ Readable(t) /\ Readable(t)'
  <2>1. ~Current(p, t)
    BY <1>1, CurrentUnique
  <2>2. Readable(t)
    BY <2>1 DEF MirrorInv, ApplyInv, Pending, InProgress
  <2> QED
    BY <1>1, <2>1, <2>2 DEF OthersKept, Readable
<1> QED
  BY <1>1 DEF MirrorInv, OthersKept, AtMostOneTorn, TombstoneFinal

LEMMA ThenMirror ==
    ASSUME MirrorInv, TypeOK', NEW p \in Profiles, NEW s \in Sessions, Applying(p),
           Current(p, s), OthersKept(s), NEW stage \in {"write", "finish"}, Then(p, stage),
           HalfDone(p, s)', work[p][s] = "export" => tombstones'[s] = <<>>,
           tombstones'[s] # <<>> => rollouts'[s] = NoFiles /\ ~Exists(metadata'[s])
    PROVE  MirrorInv'
<1>1. /\ pc[p] # "idle" /\ stage # "idle"
      /\ pc' = [pc EXCEPT ![p] = stage]
      /\ UNCHANGED <<lock, seenProject, seenProfile, work>>
  BY DEF Applying, Then
<1>2. /\ LockInv' /\ lock' = p /\ pc'[p] = stage
      /\ \A q \in Profiles : q # p => work[q] = NoWork
  BY <1>1, HolderMoves DEF MirrorInv
<1>3. /\ \A t \in Sessions : t # s => ~Current(p, t) /\ Readable(t) /\ Readable(t)'
      /\ AtMostOneTorn' /\ TombstoneFinal'
  BY OthersReadable
<1>4. Applying(p)' /\ ~Scanning(p)'
  BY <1>2 DEF Applying, Scanning
<1>5. \A t \in Sessions : Current(p, t)' <=> Current(p, t)
  BY <1>1 DEF Current
<1>6. Pending(p, s)'
  <2>1. InProgress(p, s)'
    BY <1>2, <1>5 DEF InProgress
  <2> QED
    BY <1>1, <2>1 DEF MirrorInv, ApplyInv, Pending
<1>7. ASSUME NEW t \in Sessions, t # s PROVE Pending(p, t)'
  <2>1. ~InProgress(p, t) /\ ~InProgress(p, t)'
    BY <1>3, <1>5, <1>7 DEF InProgress
  <2> QED
    BY <1>1, <1>3, <1>7, <2>1 DEF MirrorInv, ApplyInv, Pending, OthersKept
<1> QED
  BY <1>1, <1>2, <1>3, <1>4, <1>6, <1>7, HolderInv

LEMMA DoneMirror ==
    ASSUME MirrorInv, TypeOK', NEW p \in Profiles, NEW s \in Sessions, Applying(p),
           Current(p, s), OthersKept(s), Done(p, s), Readable(s)',
           tombstones'[s] # <<>> => rollouts'[s] = NoFiles /\ ~Exists(metadata'[s])
    PROVE  MirrorInv'
<1>1. /\ pc[p] # "idle"
      /\ pc' = [pc EXCEPT ![p] = "apply"]
      /\ work' = [work EXCEPT ![p][s] = "none"]
      /\ UNCHANGED <<lock, seenProject, seenProfile>>
  BY DEF Applying, Done
<1>2. /\ LockInv' /\ lock' = p /\ pc'[p] = "apply"
      /\ \A q \in Profiles : q # p => work'[q] = NoWork
  BY <1>1, HolderMoves DEF MirrorInv, TypeOK
<1>3. /\ \A t \in Sessions : t # s => ~Current(p, t) /\ Readable(t) /\ Readable(t)'
      /\ AtMostOneTorn' /\ TombstoneFinal'
  BY OthersReadable
<1>4. Applying(p)' /\ ~Scanning(p)' /\ \A t \in Sessions : ~InProgress(p, t)'
  BY <1>2 DEF Applying, Scanning, InProgress
<1>5. Pending(p, s)'
  BY <1>1, <1>4 DEF Pending, MirrorInv, TypeOK
<1>6. ASSUME NEW t \in Sessions, t # s PROVE Pending(p, t)'
  <2>1. ~InProgress(p, t)
    BY <1>3, <1>6 DEF InProgress
  <2>2. work'[p][t] = work[p][t]
    BY <1>1, <1>6 DEF MirrorInv, TypeOK
  <2> QED
    BY <1>1, <1>3, <1>4, <1>6, <2>1, <2>2 DEF MirrorInv, ApplyInv, Pending, OthersKept
<1> QED
  BY <1>2, <1>3, <1>4, <1>5, <1>6, HolderInv

LEMMA ExportMirror ==
    ASSUME MirrorInv, TypeOK', NEW p \in Profiles, NEW s \in Sessions,
           ExportRemovePrevious(p, s) \/ ExportWriteRollout(p, s) \/ ExportWriteMetadata(p, s)
    PROVE  MirrorInv'
<1> DEFINE project == seenProject[p][s]
           profile == seenProfile[p][s]
<1>1. /\ Applying(p) /\ Current(p, s) /\ work[p][s] = "export"
      /\ Pending(p, s) /\ Exists(profile) /\ tombstones[s] = <<>>
  BY DEF ExportRemovePrevious, ExportWriteRollout, ExportWriteMetadata, At, Applying,
         MirrorInv, ApplyInv, Pending
<1>2. pc[p] = "apply" =>
        /\ metadata[s] = project
        /\ rollouts[s] = IF Exists(project) THEN OnlyAt(project.place, project.lines)
                                            ELSE NoFiles
  BY <1>1 DEF Pending, InProgress, Readable
<1>3. pc[p] = "write" => rollouts[s] = NoFiles
  BY <1>1 DEF Pending, InProgress, HalfDone
<1>4. pc[p] = "finish" => rollouts[s] = OnlyAt(profile.place, profile.lines)
  BY <1>1 DEF Pending, InProgress, HalfDone
<1>5. /\ rollouts \in [Sessions -> [Place -> Seq(Line)]]
      /\ project.place \in Place /\ profile.place \in Place
  BY CopyFields DEF MirrorInv, TypeOK
<1>6. CASE ExportRemovePrevious(p, s)
  <2>1. /\ pc[p] = "apply" /\ Exists(project)
        /\ rollouts' = [rollouts EXCEPT ![s][project.place] = <<>>]
        /\ Then(p, "write") /\ UNCHANGED <<metadata, tombstones, seenProfile, work>>
    BY <1>6 DEF ExportRemovePrevious, At, Moves, Then
  <2>2. rollouts'[s] = NoFiles
    BY <1>2, <1>5, <2>1 DEF OnlyAt, NoFiles
  <2>3. HalfDone(p, s)' /\ OthersKept(s)
    BY <1>1, <2>1, <2>2, <1>5 DEF HalfDone, OthersKept, Then, MirrorInv, TypeOK
  <2> QED
    BY <1>1, <2>1, <2>3, ThenMirror
<1>7. CASE ExportWriteRollout(p, s)
  <2>1. /\ \/ pc[p] = "apply" /\ ~Moves(profile, project)
           \/ pc[p] = "write"
        /\ rollouts' = [rollouts EXCEPT ![s][profile.place] = profile.lines]
        /\ Then(p, "finish") /\ UNCHANGED <<metadata, tombstones, seenProfile, work>>
    BY <1>7 DEF ExportWriteRollout, At, Then
  <2>2. rollouts[s] = NoFiles \/ \E lines : rollouts[s] = OnlyAt(profile.place, lines)
    BY <1>2, <1>3, <2>1 DEF Moves
  <2>3. rollouts'[s] = OnlyAt(profile.place, profile.lines)
    BY <1>5, <2>1, <2>2 DEF OnlyAt, NoFiles
  <2>4. HalfDone(p, s)' /\ OthersKept(s)
    BY <1>1, <2>1, <2>3, <1>5 DEF HalfDone, OthersKept, Then, MirrorInv, TypeOK
  <2> QED
    BY <1>1, <2>1, <2>4, ThenMirror
<1>8. CASE ExportWriteMetadata(p, s)
  <2>1. /\ pc[p] = "finish"
        /\ metadata' = [metadata EXCEPT ![s] = profile]
        /\ Done(p, s) /\ UNCHANGED <<rollouts, tombstones>>
    BY <1>8 DEF ExportWriteMetadata, At
  <2>2. metadata'[s] = profile
    BY <2>1 DEF MirrorInv, TypeOK
  <2>3. Readable(s)' /\ OthersKept(s)
    BY <1>1, <1>4, <2>1, <2>2 DEF Readable, OthersKept, MirrorInv, TypeOK
  <2> QED
    BY <1>1, <2>1, <2>3, DoneMirror
<1> QED
  BY <1>6, <1>7, <1>8

LEMMA TombstoneMirror ==
    ASSUME MirrorInv, TypeOK', NEW p \in Profiles, NEW s \in Sessions,
           TombstoneRemoveRollout(p, s) \/ TombstoneRemoveMetadata(p, s) \/ TombstoneWrite(p, s)
    PROVE  MirrorInv'
<1> DEFINE project == seenProject[p][s]
<1>1. /\ Applying(p) /\ Current(p, s) /\ work[p][s] = "tombstone"
      /\ Pending(p, s) /\ Exists(project)
  BY DEF TombstoneRemoveRollout, TombstoneRemoveMetadata, TombstoneWrite, At, Applying,
         MirrorInv, ApplyInv, Pending
<1>2. pc[p] = "apply" => /\ tombstones[s] = <<>>
                         /\ rollouts[s] = OnlyAt(project.place, project.lines)
  BY <1>1 DEF Pending, InProgress, Readable
<1>3. pc[p] \in {"write", "finish"} => tombstones[s] = <<>> /\ rollouts[s] = NoFiles
  BY <1>1 DEF Pending, InProgress, HalfDone
<1>4. pc[p] = "finish" => ~Exists(metadata[s])
  BY <1>1 DEF Pending, InProgress, HalfDone
<1>5. rollouts \in [Sessions -> [Place -> Seq(Line)]] /\ project.place \in Place
  BY CopyFields DEF MirrorInv, TypeOK
<1>6. CASE TombstoneRemoveRollout(p, s)
  <2>1. /\ pc[p] = "apply"
        /\ rollouts' = [rollouts EXCEPT ![s][project.place] = <<>>]
        /\ Then(p, "write") /\ UNCHANGED <<metadata, tombstones, work>>
    BY <1>6 DEF TombstoneRemoveRollout, At, Then
  <2>2. rollouts'[s] = NoFiles
    BY <1>2, <1>5, <2>1 DEF OnlyAt, NoFiles
  <2>3. HalfDone(p, s)' /\ OthersKept(s)
    BY <1>1, <1>2, <2>1, <2>2, <1>5 DEF HalfDone, OthersKept, Then, MirrorInv, TypeOK
  <2> QED
    BY <1>1, <1>2, <2>1, <2>3, ThenMirror
<1>7. CASE TombstoneRemoveMetadata(p, s)
  <2>1. /\ pc[p] = "write"
        /\ metadata' = [metadata EXCEPT ![s] = NoCopy]
        /\ Then(p, "finish") /\ UNCHANGED <<rollouts, tombstones, work>>
    BY <1>7 DEF TombstoneRemoveMetadata, At, Then
  <2>2. ~Exists(metadata'[s])
    BY <2>1 DEF MirrorInv, TypeOK, Exists, NoCopy
  <2>3. HalfDone(p, s)' /\ OthersKept(s)
    BY <1>1, <1>3, <2>1, <2>2 DEF HalfDone, OthersKept, Then, MirrorInv, TypeOK
  <2> QED
    BY <1>1, <1>3, <2>1, <2>3, ThenMirror
<1>8. CASE TombstoneWrite(p, s)
  <2>1. /\ pc[p] = "finish"
        /\ tombstones' = [tombstones EXCEPT ![s] = project.lines]
        /\ Done(p, s) /\ UNCHANGED <<rollouts, metadata>>
    BY <1>8 DEF TombstoneWrite, At
  <2>2. rollouts'[s] = NoFiles /\ ~Exists(metadata'[s])
    BY <1>3, <1>4, <2>1
  <2>3. Readable(s)' /\ OthersKept(s)
    BY <2>1, <2>2 DEF Readable, OthersKept, MirrorInv, TypeOK
  <2> QED
    BY <1>1, <2>1, <2>2, <2>3, DoneMirror
<1> QED
  BY <1>6, <1>7, <1>8

(***************************************************************************)
(* The operations on the profile do not touch the mirror.                  *)
(***************************************************************************)
LEMMA ProfileMirror ==
    ASSUME MirrorInv, TypeOK', NEW p \in Profiles, NEW s \in Sessions,
           \/ ImportRemovePrevious(p, s) \/ ImportWriteRollout(p, s)
           \/ ImportAppendName(p, s) \/ DeleteProfileRollout(p, s)
    PROVE  MirrorInv'
<1>1. /\ Applying(p) /\ Current(p, s) /\ work[p][s] \in {"import", "delete"}
      /\ UNCHANGED <<rollouts, metadata, tombstones>>
  BY DEF ImportRemovePrevious, ImportWriteRollout, ImportAppendName, DeleteProfileRollout,
         At, Applying, mirrorVars
<1>2. Readable(s) /\ OthersKept(s)
  BY <1>1 DEF MirrorInv, ApplyInv, Pending, HalfDone, OthersKept
<1>3. Readable(s)'
  BY <1>1, <1>2 DEF Readable
<1>4. tombstones'[s] # <<>> => rollouts'[s] = NoFiles /\ ~Exists(metadata'[s])
  BY <1>1 DEF MirrorInv, TombstoneFinal
<1>5. CASE \E stage \in {"write", "finish"} : Then(p, stage)
  <2>1. PICK stage \in {"write", "finish"} : Then(p, stage)
    BY <1>5
  <2>2. HalfDone(p, s)'
    BY <1>1, <1>3, <2>1 DEF HalfDone, Then
  <2> QED
    BY <1>1, <1>2, <1>4, <2>1, <2>2, ThenMirror
<1>6. CASE Done(p, s)
  BY <1>1, <1>2, <1>3, <1>4, <1>6, DoneMirror
<1> QED
  BY <1>5, <1>6 DEF ImportRemovePrevious, ImportWriteRollout, ImportAppendName,
                    DeleteProfileRollout

LEMMA BackupMirror ==
    ASSUME MirrorInv, TypeOK', NEW p \in Profiles, NEW s \in Sessions, BackupLoser(p, s)
    PROVE  MirrorInv'
<1>1. /\ pc[p] = "backup"
      /\ pc' = [pc EXCEPT ![p] = "apply"]
      /\ UNCHANGED <<mirrorVars, rollouts, metadata, tombstones,
                     lock, seenProject, seenProfile, work>>
  BY DEF BackupLoser, mirrorVars
<1>2. /\ LockInv' /\ lock' = p /\ pc'[p] = "apply"
      /\ \A q \in Profiles : q # p => work[q] = NoWork
  BY <1>1, HolderMoves DEF MirrorInv
<1>3. /\ TombstoneFinal' /\ AtMostOneTorn'
      /\ \A t \in Sessions : Readable(t)' <=> Readable(t)
  BY <1>1, MirrorUnchanged DEF MirrorInv
<1>4. /\ Applying(p) /\ Applying(p)' /\ ~Scanning(p)'
      /\ \A t \in Sessions : ~InProgress(p, t) /\ ~InProgress(p, t)'
  BY <1>1, <1>2 DEF Applying, Scanning, InProgress
<1>5. \A t \in Sessions : Pending(p, t)'
  BY <1>1, <1>3, <1>4 DEF MirrorInv, ApplyInv, Pending
<1> QED
  BY <1>1, <1>2, <1>3, <1>4, <1>5, HolderInv

LEMMA StepMirror == MirrorInv /\ [Next]_vars => MirrorInv'
<1> SUFFICES ASSUME MirrorInv, [Next]_vars PROVE MirrorInv'
  OBVIOUS
<1>1. TypeOK'
  BY StepType DEF MirrorInv
<1>2. CASE UNCHANGED vars
  BY <1>1, <1>2, CodexMirror DEF vars
<1>3. CASE Next
  <2>1. PICK p \in Profiles :
             \/ Codex(p)
             \/ \E j \in Job : Begin(p, j)
             \/ ScanLive(p)
             \/ PlanSync(p)
             \/ \E s \in Sessions : PlanResolve(p, s)
             \/ \E s \in Sessions : Apply(p, s)
             \/ Reject(p) \/ Abort(p) \/ SaveRegistry(p)
    BY <1>3, StepKinds
  <2>2. CASE Codex(p)
    BY <1>1, <2>2, CodexKeeps, CodexMirror DEF MirrorInv
  <2>3. CASE \E j \in Job : Begin(p, j)
    BY <1>1, <2>3, BeginMirror
  <2>4. CASE ScanLive(p)
    BY <1>1, <2>4, ScanLiveMirror
  <2>5. CASE PlanSync(p)
    BY <1>1, <2>5, PlanSyncMirror
  <2>6. CASE \E s \in Sessions : PlanResolve(p, s)
    BY <1>1, <2>6, PlanResolveMirror
  <2>7. CASE \E s \in Sessions : Apply(p, s)
    BY <1>1, <2>7, ExportMirror, TombstoneMirror, ProfileMirror, BackupMirror DEF Apply
  <2>8. CASE Reject(p)
    <3>1. pc[p] = "scanArchived" /\ MirrorReadable
      BY <2>8 DEF Reject, MirrorInv, ScanInv, Scanning
    <3> QED
      BY <1>1, <2>8, <3>1, ReleaseMirror DEF Reject
  <2>9. CASE Abort(p)
    <3>1. MaxCrashes # 0
      BY <2>9 DEF Abort, MirrorInv, TypeOK
    <3> QED
      BY <1>1, <2>9, <3>1, ReleaseMirror DEF Abort
  <2>10. CASE SaveRegistry(p)
    <3>1. \A s \in Sessions : ~Current(p, s)
      BY <2>10 DEF SaveRegistry, Current, NoWork
    <3>2. MirrorReadable
      BY <2>10, <3>1
         DEF SaveRegistry, Applying, MirrorInv, ApplyInv, Pending, InProgress, MirrorReadable
    <3> QED
      BY <1>1, <2>10, <3>2, ReleaseMirror DEF SaveRegistry
  <2> QED
    BY <2>1, <2>2, <2>3, <2>4, <2>5, <2>6, <2>7, <2>8, <2>9, <2>10
<1> QED
  BY <1>2, <1>3

(***************************************************************************)
(* While a process synchronizes, the mirror is what it scanned, but for the *)
(* sessions it has written and the one it is writing.                      *)
(***************************************************************************)
THEOREM MirrorInvariant == Spec => []MirrorInv
<1> QED
  BY InitMirror, StepMirror, PTL DEF Spec

(***************************************************************************)
(* No deletion recorded in the mirror is ever undone, whatever processes   *)
(* interleave or die.                                                      *)
(***************************************************************************)
THEOREM TombstonesAreFinal == Spec => []TombstoneFinal
<1>1. MirrorInv => TombstoneFinal
  BY DEF MirrorInv
<1> QED
  BY <1>1, MirrorInvariant, PTL

(***************************************************************************)
(* However many processes die, one session at most needs repair by hand.   *)
(***************************************************************************)
THEOREM CrashesTearOneSession == Spec => []AtMostOneTorn
<1>1. MirrorInv => AtMostOneTorn
  BY DEF MirrorInv
<1> QED
  BY <1>1, MirrorInvariant, PTL

(***************************************************************************)
(* If no process dies, a session is torn only while the holder of the lock *)
(* is between two operations on it.                                        *)
(***************************************************************************)
THEOREM TornOnlyWhileWritten ==
    ASSUME MaxCrashes = 0
    PROVE  Spec => []TornOnlyInFlight
<1>1. ASSUME MirrorInv PROVE TornOnlyInFlight
  <2> SUFFICES ASSUME NEW s \in Sessions, ~Readable(s)
               PROVE  \E p \in Profiles : /\ lock = p
                                          /\ pc[p] \in {"write", "finish"}
                                          /\ Current(p, s)
    BY DEF TornOnlyInFlight
  <2>1. PICK p \in Profiles : lock = p
    BY <1>1 DEF MirrorInv, TypeOK, RestInv, MirrorReadable
  <2>2. pc[p] \in Stage /\ pc[p] # "idle" /\ ~Scanning(p)
    BY <1>1, <2>1 DEF MirrorInv, TypeOK, LockInv, ScanInv, MirrorReadable
  <2>3. Applying(p)
    BY <2>2 DEF Stage, Scanning, Applying
  <2>4. InProgress(p, s)
    BY <1>1, <2>3 DEF MirrorInv, ApplyInv, Pending
  <2> QED
    BY <2>1, <2>4 DEF InProgress
<1>2. MirrorInv => TornOnlyInFlight
  BY <1>1
<1> QED
  BY <1>2, MirrorInvariant, PTL
=============================================================================
