------------------------ MODULE SessionReplicaProofs ------------------------
(***************************************************************************)
(* A synchronization that works file by file implements the indivisible    *)
(* merge of SessionReplica, and what follows from its plan, for any number *)
(* of profiles, sessions, lines and Codex steps.                           *)
(***************************************************************************)
EXTENDS SessionSyncProofs

(***************************************************************************)
(* What the files of profile p hold of session s is exactly the copy.      *)
(***************************************************************************)
FilesOf(copy) == IF Exists(copy) THEN OnlyAt(copy.place, copy.lines) ELSE NoFiles
Proper(copy) == Exists(copy) \/ copy = NoCopy

Holds(p, s, copy) ==
    /\ homes[p][s] = FilesOf(copy)
    /\ Exists(copy) => names[p][s] = copy.name

(***************************************************************************)
(* The plan of the command p runs, read off what p has scanned.  A         *)
(* tombstone that the plan itself writes is not part of what it started    *)
(* from.                                                                   *)
(***************************************************************************)
TombstoneSeen(p, s) == IF Exists(seenProject[p][s]) THEN <<>> ELSE tombstones[s]

Winner(p, s) == IF job[p].kind = "project" THEN seenProject[p][s] ELSE seenProfile[p][s]
Loser(p, s) == IF job[p].kind = "project" THEN seenProfile[p][s] ELSE seenProject[p][s]

Planned(p, s) ==
    IF job[p].kind = "sync"
    THEN Decide(seenProject[p][s], seenProfile[p][s], TombstoneSeen(p, s), registry[p][s],
                s \in job[p].scope)
    ELSE IF s \in job[p].scope
    THEN Do(IF job[p].kind = "project" THEN "import" ELSE "export", RegistrationFor(Winner(p, s)))
    ELSE Do("none", registry[p][s])

(***************************************************************************)
(* What the mirror and the profile hold once the plan is carried out.      *)
(***************************************************************************)
MirrorResult(p, s) == MirrorAfter(Planned(p, s).action, seenProject[p][s], seenProfile[p][s])
ProfileResult(p, s) == ProfileAfter(Planned(p, s).action, seenProject[p][s], seenProfile[p][s])

Finished(p, s) ==
    /\ metadata[s] = MirrorResult(p, s)
    /\ Holds(p, s, ProfileResult(p, s))
    /\ Planned(p, s).action = "tombstone" => tombstones[s] = seenProject[p][s].lines

Untouched(p, s) == Holds(p, s, seenProfile[p][s])

HalfImported(p, s) ==
    homes[p][s] = IF pc[p] = "write" THEN NoFiles
                  ELSE OnlyAt(seenProject[p][s].place, seenProject[p][s].lines)

\* What the mirror holds while the session waits for its turn, or is being written.
MirrorWaits(p, s) ==
    /\ work[p][s] = "import" => metadata[s] = seenProject[p][s]
    /\ work[p][s] = "tombstone" /\ InProgress(p, s) /\ pc[p] = "finish" => metadata[s] = NoCopy

Progress(p, s) ==
    /\ Proper(seenProfile[p][s])
    /\ MirrorWaits(p, s)
    /\ newRegistry[p][s] = Planned(p, s).registration
    /\ Planned(p, s).action \in FileAction
    /\ work[p][s] \in {"none", Planned(p, s).action}
    /\ work[p][s] = "none" => Finished(p, s)
    /\ work[p][s] # "none" =>
         IF work[p][s] = "import" /\ InProgress(p, s) THEN HalfImported(p, s) ELSE Untouched(p, s)

(***************************************************************************)
(* A resolution is about one conflict, and has saved the losing copy       *)
(* before it touches a file.                                               *)
(***************************************************************************)
Resolving(p) == Applying(p) /\ job[p].kind \in {"project", "profile"}

ResolvePlan(p) ==
    \A s \in job[p].scope :
        /\ Exists(seenProject[p][s]) /\ Exists(seenProfile[p][s])
        /\ CompareSessions(seenProject[p][s], seenProfile[p][s], registry[p][s]) = "conflict"
        /\ pc[p] # "backup" => [session |-> s, lines |-> Loser(p, s).lines] \in backups

JobKnown(p) ==
    \/ job[p].kind = "sync"
    \/ job[p].kind \in {"project", "profile"} /\ \E s \in Sessions : job[p].scope = {s}

ScanSeen(p) ==
    /\ pc[p] = "scanLive" => \A s \in Sessions :
         seenProfile[p][s] = [place |-> "sessions", lines |-> <<>>, name |-> names[p][s]]
    /\ pc[p] = "scanArchived" => \A s \in Sessions :
         seenProfile[p][s] =
           [place |-> "sessions", lines |-> homes[p][s]["sessions"], name |-> names[p][s]]

(***************************************************************************)
(* While Codex does not run, what p has scanned of its profile stays true  *)
(* but for what p itself does to it.                                       *)
(***************************************************************************)
PlanOf(p) ==
    /\ pc[p] # "idle" => JobKnown(p)
    /\ pc[p] = "backup" => job[p].kind # "sync"
    /\ ScanSeen(p)
    /\ Applying(p) => \A s \in Sessions : Progress(p, s)
    /\ Resolving(p) => ResolvePlan(p)

PlanInv == \A p \in Profiles : PlanOf(p)

LEMMA InitPlan == Init => PlanInv
BY DEF Init, PlanInv, PlanOf, ScanSeen, Applying, Resolving

(***************************************************************************)
(* A process that does not run has no plan; one whose variables and files  *)
(* stay the same keeps the one it has.                                     *)
(***************************************************************************)
LEMMA IdlePlan ==
    ASSUME NEW p \in Profiles, pc[p] = "idle"
    PROVE  PlanOf(p)
BY DEF PlanOf, ScanSeen, Applying, Resolving

LEMMA SamePlan ==
    ASSUME NEW p \in Profiles, NEW s \in Sessions,
           job'[p] = job[p], registry'[p] = registry[p],
           seenProject'[p] = seenProject[p], seenProfile'[p] = seenProfile[p],
           TombstoneSeen(p, s)' = TombstoneSeen(p, s)
    PROVE  /\ Planned(p, s)' = Planned(p, s)
           /\ MirrorResult(p, s)' = MirrorResult(p, s)
           /\ ProfileResult(p, s)' = ProfileResult(p, s)
<1>1. Planned(p, s)' = Planned(p, s)
  BY DEF Planned, Winner
<1> QED
  BY <1>1 DEF MirrorResult, ProfileResult

LEMMA FramePlan ==
    ASSUME PlanInv, NEW q \in Profiles,
           pc'[q] = pc[q], job'[q] = job[q], work'[q] = work[q],
           seenProject'[q] = seenProject[q], seenProfile'[q] = seenProfile[q],
           registry'[q] = registry[q], newRegistry'[q] = newRegistry[q],
           homes'[q] = homes[q], names'[q] = names[q],
           UNCHANGED <<metadata, tombstones, backups>>
    PROVE  PlanOf(q)'
<1>1. PlanOf(q)
  BY DEF PlanInv
<1>2. (JobKnown(q)' <=> JobKnown(q)) /\ (ScanSeen(q)' <=> ScanSeen(q))
  BY DEF JobKnown, ScanSeen
<1>3. ASSUME NEW s \in Sessions PROVE Progress(q, s)' <=> Progress(q, s)
  <2>1. /\ Planned(q, s)' = Planned(q, s)
        /\ MirrorResult(q, s)' = MirrorResult(q, s)
        /\ ProfileResult(q, s)' = ProfileResult(q, s)
    BY SamePlan DEF TombstoneSeen
  <2>2. \A copy : Holds(q, s, copy)' <=> Holds(q, s, copy)
    BY DEF Holds
  <2>3. /\ InProgress(q, s)' <=> InProgress(q, s)
        /\ MirrorWaits(q, s)' <=> MirrorWaits(q, s)
    BY DEF InProgress, Current, MirrorWaits
  <2>4. HalfImported(q, s)' <=> HalfImported(q, s)
    BY DEF HalfImported
  <2>5. Finished(q, s)' <=> Finished(q, s)
    BY <2>1 DEF Finished, Holds
  <2>6. Untouched(q, s)' <=> Untouched(q, s)
    BY DEF Untouched, Holds
  <2> QED
    BY <2>1, <2>3, <2>4, <2>5, <2>6 DEF Progress
<1>4. (Applying(q)' <=> Applying(q)) /\ (Resolving(q)' <=> Resolving(q))
  BY DEF Applying, Resolving
<1>5. ResolvePlan(q)' <=> ResolvePlan(q)
  BY DEF ResolvePlan, Loser
<1> QED
  BY <1>1, <1>2, <1>3, <1>4, <1>5 DEF PlanOf
-----------------------------------------------------------------------------
(***************************************************************************)
(* From the lock to the plan.                                              *)
(***************************************************************************)

\* Steps of p: everybody else is idle.
LEMMA OnlyHolder ==
    ASSUME NEW p \in Profiles, TypeOK, LockInv, NEW stage, pc' = [pc EXCEPT ![p] = stage],
           pc[p] # "idle" \/ lock = Free, PlanOf(p)'
    PROVE  PlanInv'
<1>1. ASSUME NEW q \in Profiles, q # p PROVE PlanOf(q)'
  <2>1. pc[q] = "idle"
    BY <1>1, FreeAssumption DEF LockInv
  <2>2. pc'[q] = "idle"
    BY <1>1, <2>1 DEF TypeOK
  <2> QED
    BY <2>2, IdlePlan DEF PlanOf, ScanSeen, Applying, Resolving
<1> QED
  BY <1>1 DEF PlanInv

LEMMA BeginPlan ==
    ASSUME MirrorInv, NEW p \in Profiles, NEW j \in Job, Begin(p, j),
           \/ j.kind = "sync"
           \/ j.kind \in {"project", "profile"} /\ \E s \in Sessions : j.scope = {s}
    PROVE  PlanInv'
<1>1. /\ lock = Free /\ pc' = [pc EXCEPT ![p] = "scanLive"]
      /\ job' = [job EXCEPT ![p] = j] /\ names' = names
      /\ seenProfile' = [seenProfile EXCEPT
                           ![p] = [s \in Sessions |-> [NoCopy EXCEPT !.name = names[p][s]]]]
  BY DEF Begin, Enter, profileVars
<1>2. pc'[p] = "scanLive" /\ job'[p] = j
  BY <1>1 DEF MirrorInv, TypeOK
<1>3. JobKnown(p)'
  BY <1>2 DEF JobKnown
<1>4. ScanSeen(p)'
  BY <1>1, <1>2 DEF ScanSeen, MirrorInv, TypeOK, NoCopy
<1>5. PlanOf(p)'
  BY <1>2, <1>3, <1>4 DEF PlanOf, Applying, Resolving
<1> QED
  BY <1>1, <1>5, OnlyHolder DEF MirrorInv

LEMMA ScanLivePlan ==
    ASSUME MirrorInv, PlanInv, NEW p \in Profiles, ScanLive(p)
    PROVE  PlanInv'
<1>1. /\ pc[p] = "scanLive" /\ pc' = [pc EXCEPT ![p] = "scanArchived"]
      /\ UNCHANGED <<job, names, homes>>
      /\ seenProfile' = [seenProfile EXCEPT
                           ![p] = [s \in Sessions |->
                              [seenProfile[p][s] EXCEPT !.lines = homes[p][s]["sessions"]]]]
  BY DEF ScanLive, profileVars
<1>2. pc'[p] = "scanArchived"
  BY <1>1 DEF MirrorInv, TypeOK
<1>3. JobKnown(p)'
  BY <1>1 DEF JobKnown, PlanInv, PlanOf
<1>4. \A s \in Sessions :
        seenProfile[p][s] = [place |-> "sessions", lines |-> <<>>, name |-> names[p][s]]
  BY <1>1 DEF PlanInv, PlanOf, ScanSeen
<1>5. ScanSeen(p)'
  <2>1. \A s \in Sessions :
          seenProfile'[p][s] = [seenProfile[p][s] EXCEPT !.lines = homes[p][s]["sessions"]]
    BY <1>1 DEF MirrorInv, TypeOK
  <2>2. \A s \in Sessions : seenProfile'[p][s]
          = [place |-> "sessions", lines |-> homes[p][s]["sessions"], name |-> names[p][s]]
    <3> TAKE s \in Sessions
    <3> DEFINE scanned == seenProfile[p][s]
    <3>1. scanned = [place |-> "sessions", lines |-> <<>>, name |-> names[p][s]]
      BY <1>4
    <3>2. seenProfile'[p][s] = [scanned EXCEPT !.lines = homes[p][s]["sessions"]]
      BY <2>1
    <3> HIDE DEF scanned
    <3> QED
      BY <3>1, <3>2
  <2> QED
    BY <1>1, <1>2, <2>2 DEF ScanSeen
<1>6. PlanOf(p)'
  BY <1>2, <1>3, <1>5 DEF PlanOf, Applying, Resolving
<1> QED
  BY <1>1, <1>6, OnlyHolder DEF MirrorInv

(***************************************************************************)
(* A scan that finds no rollout twice finds what there is.                 *)
(***************************************************************************)
LEMMA ScanIsTrue ==
    ASSUME TypeOK, NEW p \in Profiles, pc[p] = "scanArchived", ScanSeen(p), ~DuplicateFound(p),
           NEW s \in Sessions
    PROVE  Holds(p, s, ProfileScan(p)[s]) /\ Proper(ProfileScan(p)[s])
<1> DEFINE live == homes[p][s]["sessions"]
           archived == homes[p][s]["archived_sessions"]
<1>1. seenProfile[p][s] = [place |-> "sessions", lines |-> live, name |-> names[p][s]]
  BY DEF ScanSeen
<1>2. /\ homes[p][s] \in [Place -> Seq(Line)]
      /\ Place = {"sessions", "archived_sessions"}
  BY DEF TypeOK, Place
<1>3. live = <<>> \/ archived = <<>>
  BY <1>1 DEF DuplicateFound, Exists
<1>4. CASE archived # <<>>
  <2>1. ProfileScan(p)[s] = [place |-> "archived_sessions", lines |-> archived, name |-> names[p][s]]
    <3> DEFINE scanned == seenProfile[p][s]
    <3>1. ProfileScan(p)[s]
            = [scanned EXCEPT !.place = "archived_sessions", !.lines = archived]
      BY <1>4 DEF ProfileScan
    <3>2. scanned = [place |-> "sessions", lines |-> live, name |-> names[p][s]]
      BY <1>1
    <3> DEFINE moved == [scanned EXCEPT !.place = "archived_sessions"]
    <3>3. [scanned EXCEPT !.place = "archived_sessions", !.lines = archived]
            = [moved EXCEPT !.lines = archived]
      OBVIOUS
    <3> HIDE DEF scanned
    <3>4. moved = [place |-> "archived_sessions", lines |-> live, name |-> names[p][s]]
      BY <3>2
    <3> HIDE DEF moved
    <3>5. [moved EXCEPT !.lines = archived]
            = [place |-> "archived_sessions", lines |-> archived, name |-> names[p][s]]
      BY <3>4
    <3> QED
      BY <3>1, <3>3, <3>5
  <2>2. homes[p][s] = OnlyAt("archived_sessions", archived)
    BY <1>2, <1>3, <1>4 DEF OnlyAt, NoFiles
  <2> QED
    BY <1>4, <2>1, <2>2 DEF Holds, Proper, FilesOf, Exists
<1>5. CASE archived = <<>> /\ live # <<>>
  <2>1. ProfileScan(p)[s] = [place |-> "sessions", lines |-> live, name |-> names[p][s]]
    BY <1>1, <1>5 DEF ProfileScan, Exists
  <2>2. homes[p][s] = OnlyAt("sessions", live)
    BY <1>2, <1>5 DEF OnlyAt, NoFiles
  <2> QED
    BY <1>5, <2>1, <2>2 DEF Holds, Proper, FilesOf, Exists
<1>6. CASE archived = <<>> /\ live = <<>>
  <2>1. ProfileScan(p)[s] = NoCopy
    BY <1>1, <1>6 DEF ProfileScan, Exists
  <2>2. homes[p][s] = NoFiles
    BY <1>2, <1>6 DEF NoFiles
  <2> QED
    BY <2>1, <2>2 DEF Holds, Proper, FilesOf, Exists, NoCopy
<1> QED
  BY <1>3, <1>4, <1>5, <1>6

(***************************************************************************)
(* A plan that has just been made.                                         *)
(***************************************************************************)
LEMMA FreshProgress ==
    ASSUME NEW p \in Profiles, NEW s \in Sessions, pc'[p] \notin {"write", "finish"},
           Proper(seenProfile[p][s])', Untouched(p, s)', metadata'[s] = seenProject'[p][s],
           newRegistry'[p][s] = Planned(p, s)'.registration,
           Planned(p, s)'.action \in FileAction,
           work'[p][s] = Planned(p, s)'.action
    PROVE  Progress(p, s)'
<1>1. ~InProgress(p, s)'
  BY DEF InProgress
<1>2. work'[p][s] = "none" => Finished(p, s)'
  BY DEF Finished, Untouched, MirrorResult, ProfileResult, MirrorAfter, ProfileAfter
<1>3. MirrorWaits(p, s)'
  BY <1>1 DEF MirrorWaits
<1> QED
  BY <1>1, <1>2, <1>3 DEF Progress

LEMMA PlanSyncPlan ==
    ASSUME MirrorInv, TypeOK', PlanInv, NEW p \in Profiles, PlanSync(p)
    PROVE  PlanInv'
<1>1. /\ pc[p] = "scanArchived" /\ job[p].kind = "sync" /\ ~DuplicateFound(p) /\ ~Blocked(p)
      /\ pc' = [pc EXCEPT ![p] = "apply"]
      /\ seenProfile' = [seenProfile EXCEPT ![p] = ProfileScan(p)]
      /\ work' = [work EXCEPT ![p] = [s \in Sessions |-> Decision(p)[s].action]]
      /\ newRegistry' = [newRegistry EXCEPT
                           ![p] = [s \in Sessions |-> Decision(p)[s].registration]]
      /\ UNCHANGED <<homes, names, metadata, tombstones, registry, job, seenProject>>
  BY DEF PlanSync, mirrorVars, profileVars
<1>2. MirrorReadable /\ seenProject[p] = metadata
  BY <1>1 DEF MirrorInv, ScanInv, Scanning
<1>3. /\ pc'[p] = "apply" /\ seenProfile'[p] = ProfileScan(p)
      /\ work'[p] = [s \in Sessions |-> Decision(p)[s].action]
      /\ newRegistry'[p] = [s \in Sessions |-> Decision(p)[s].registration]
  BY <1>1 DEF MirrorInv, TypeOK
<1>4. ASSUME NEW s \in Sessions PROVE Progress(p, s)'
  <2>1. Holds(p, s, ProfileScan(p)[s]) /\ Proper(ProfileScan(p)[s])
    BY <1>1, ScanIsTrue DEF MirrorInv, PlanInv, PlanOf
  <2>2. TombstoneSeen(p, s)' = tombstones[s]
    BY <1>1, <1>2 DEF TombstoneSeen, MirrorReadable, Readable
  <2>3. Planned(p, s)' = Decision(p)[s]
    BY <1>1, <1>3, <2>2 DEF Planned, Decision
  <2>4. Decision(p)[s].action \in FileAction
    BY <1>1, DecisionType DEF Blocked, Verdict, MirrorInv
  <2>5. Proper(seenProfile[p][s])' /\ Untouched(p, s)'
    BY <1>1, <1>3, <2>1 DEF Untouched, Holds
  <2>6. (metadata[s] = seenProject[p][s])'
    BY <1>1, <1>2
  <2> QED
    BY <1>3, <2>3, <2>4, <2>5, <2>6, FreshProgress
<1>5. JobKnown(p)'
  BY <1>1 DEF JobKnown
<1>6. PlanOf(p)'
  BY <1>1, <1>3, <1>4, <1>5 DEF PlanOf, ScanSeen, Resolving
<1> QED
  BY <1>1, <1>6, OnlyHolder DEF MirrorInv

LEMMA PlanResolvePlan ==
    ASSUME MirrorInv, TypeOK', PlanInv, NEW p \in Profiles, NEW s \in Sessions, PlanResolve(p, s)
    PROVE  PlanInv'
<1> DEFINE winner == IF job[p].kind = "project" THEN seenProject[p][s] ELSE ProfileScan(p)[s]
           action == IF job[p].kind = "project" THEN "import" ELSE "export"
<1>1. /\ pc[p] = "scanArchived" /\ job[p].kind \in {"project", "profile"} /\ s \in job[p].scope
      /\ ~DuplicateFound(p) /\ Conflicted(p, s)
      /\ pc' = [pc EXCEPT ![p] = "backup"]
      /\ seenProfile' = [seenProfile EXCEPT ![p] = ProfileScan(p)]
      /\ work' = [work EXCEPT ![p][s] = action]
      /\ newRegistry' = [newRegistry EXCEPT
                           ![p] = [registry[p] EXCEPT ![s] = RegistrationFor(winner)]]
      /\ UNCHANGED <<homes, names, metadata, tombstones, registry, job, seenProject>>
  BY DEF PlanResolve, mirrorVars, profileVars
<1>2. MirrorReadable /\ seenProject[p] = metadata /\ work[p] = NoWork
  BY <1>1 DEF MirrorInv, ScanInv, WorkInv, Scanning, Applying
<1>3. job[p].scope = {s}
  BY <1>1 DEF PlanInv, PlanOf, JobKnown
<1>4. /\ pc'[p] = "backup" /\ seenProfile'[p] = ProfileScan(p)
      /\ \A t \in Sessions : work'[p][t] = IF t = s THEN action ELSE "none"
      /\ \A t \in Sessions :
           newRegistry'[p][t] = IF t = s THEN RegistrationFor(winner) ELSE registry[p][t]
  BY <1>1, <1>2 DEF MirrorInv, TypeOK, NoWork
<1>5. \A t \in Sessions :
        Planned(p, t)' = IF t = s THEN Do(action, RegistrationFor(winner))
                         ELSE Do("none", registry[p][t])
  BY <1>1, <1>3, <1>4 DEF Planned, Winner
<1>6. ASSUME NEW t \in Sessions PROVE Progress(p, t)'
  <2>1. Holds(p, t, ProfileScan(p)[t]) /\ Proper(ProfileScan(p)[t])
    BY <1>1, ScanIsTrue DEF MirrorInv, PlanInv, PlanOf
  <2>2. /\ newRegistry'[p][t] = Planned(p, t)'.registration
        /\ Planned(p, t)'.action \in FileAction
        /\ work'[p][t] = Planned(p, t)'.action
    BY <1>4, <1>5 DEF Do, FileAction
  <2>3. Proper(seenProfile[p][t])' /\ Untouched(p, t)'
    BY <1>1, <1>4, <2>1 DEF Untouched, Holds
  <2>4. (metadata[t] = seenProject[p][t])'
    BY <1>1, <1>2
  <2> QED
    BY <1>4, <2>2, <2>3, <2>4, FreshProgress
<1>7. ResolvePlan(p)'
  <2>1. \A t \in job'[p].scope : t = s
    BY <1>1, <1>3
  <2>2. /\ Exists(seenProject[p][s]) /\ Exists(ProfileScan(p)[s])
        /\ CompareSessions(seenProject[p][s], ProfileScan(p)[s], registry[p][s]) = "conflict"
    BY <1>1 DEF Conflicted
  <2> QED
    BY <1>1, <1>4, <2>1, <2>2 DEF ResolvePlan
<1>8. JobKnown(p)' /\ job'[p].kind # "sync"
  BY <1>1, <1>3 DEF JobKnown
<1>9. PlanOf(p)'
  BY <1>4, <1>6, <1>7, <1>8 DEF PlanOf, ScanSeen
<1> QED
  BY <1>1, <1>9, OnlyHolder DEF MirrorInv
-----------------------------------------------------------------------------
(***************************************************************************)
(* The file operations.  A step on s leaves the progress of the other      *)
(* sessions as it is.                                                      *)
(***************************************************************************)
OthersWait(p, s) ==
    \A t \in Sessions : t # s => /\ homes'[p][t] = homes[p][t]
                                /\ names'[p][t] = names[p][t]
                                /\ metadata'[t] = metadata[t]
                                /\ tombstones'[t] = tombstones[t]
                                /\ work'[p][t] = work[p][t]

PlanKept == UNCHANGED <<job, registry, seenProject, seenProfile, newRegistry>>

LEMMA OtherProgress ==
    ASSUME NEW p \in Profiles, NEW t \in Sessions, Progress(p, t), PlanKept,
           homes'[p][t] = homes[p][t], names'[p][t] = names[p][t],
           metadata'[t] = metadata[t], tombstones'[t] = tombstones[t], work'[p][t] = work[p][t],
           ~InProgress(p, t), ~InProgress(p, t)'
    PROVE  Progress(p, t)'
<1>1. UNCHANGED <<job, registry, seenProject, seenProfile, newRegistry>>
  BY DEF PlanKept
<1>2. /\ Planned(p, t)' = Planned(p, t)
      /\ MirrorResult(p, t)' = MirrorResult(p, t)
      /\ ProfileResult(p, t)' = ProfileResult(p, t)
  BY <1>1, SamePlan DEF TombstoneSeen
<1>3. \A copy : Holds(p, t, copy)' <=> Holds(p, t, copy)
  BY DEF Holds
<1>4. Finished(p, t)' <=> Finished(p, t)
  BY <1>1, <1>2 DEF Finished, Holds
<1>5. Untouched(p, t)' <=> Untouched(p, t)
  BY <1>1 DEF Untouched, Holds
<1>6. MirrorWaits(p, t)'
  BY <1>1 DEF Progress, MirrorWaits
<1> QED
  BY <1>1, <1>2, <1>4, <1>5, <1>6 DEF Progress

LEMMA ApplyKeepsPlan ==
    ASSUME MirrorInv, PlanInv, NEW p \in Profiles, NEW s \in Sessions,
           Applying(p), Current(p, s), OthersWait(p, s), PlanKept, backups \subseteq backups',
           NEW stage \in {"apply", "write", "finish"}, pc' = [pc EXCEPT ![p] = stage],
           stage = "apply" \/ work' = work,
           pc[p] = "backup" => \A t \in job[p].scope :
                                 [session |-> t, lines |-> Loser(p, t).lines] \in backups',
           Progress(p, s)'
    PROVE  PlanInv'
<1>1. UNCHANGED <<job, registry, seenProject, seenProfile, newRegistry>>
  BY DEF PlanKept
<1>2. pc'[p] = stage /\ Applying(p)'
  BY DEF MirrorInv, TypeOK, Applying
<1>3. ASSUME NEW t \in Sessions, t # s PROVE Progress(p, t)'
  <2>1. ~Current(p, t)
    BY <1>3, CurrentUnique
  <2>2. ~InProgress(p, t)
    BY <2>1 DEF InProgress
  <2>3. ~InProgress(p, t)'
    BY <1>2, <2>1 DEF InProgress, Current
  <2>4. Progress(p, t)
    BY DEF PlanInv, PlanOf
  <2> QED
    BY <1>3, <2>2, <2>3, <2>4, OtherProgress DEF OthersWait
<1>4. JobKnown(p)'
  BY <1>1 DEF PlanInv, PlanOf, JobKnown, Applying
<1>5. Resolving(p)' => ResolvePlan(p)'
  <2>1. Resolving(p)' => ResolvePlan(p)
    BY <1>1 DEF Resolving, PlanInv, PlanOf
  <2> QED
    BY <1>1, <2>1 DEF ResolvePlan, Loser
<1>6. PlanOf(p)'
  BY <1>2, <1>3, <1>4, <1>5 DEF PlanOf, ScanSeen
<1> QED
  BY <1>6, OnlyHolder DEF MirrorInv, Applying

(***************************************************************************)
(* What is known when the turn of s comes.                                 *)
(***************************************************************************)
LEMMA TurnFacts ==
    ASSUME MirrorInv, PlanInv, NEW p \in Profiles, NEW s \in Sessions, Applying(p), Current(p, s)
    PROVE  /\ Progress(p, s) /\ Planned(p, s).action = work[p][s]
           /\ pc[p] \in {"write", "finish"} <=> InProgress(p, s)
           /\ ~InProgress(p, s) => metadata[s] = seenProject[p][s]
           /\ work[p][s] = "import" => Exists(seenProject[p][s])
<1>1. Progress(p, s) /\ JobKnown(p)
  BY DEF PlanInv, PlanOf, Applying
<1>2. Planned(p, s).action = work[p][s] /\ work[p][s] # "none"
  BY <1>1 DEF Progress, Current
<1>3. pc[p] \in {"write", "finish"} <=> InProgress(p, s)
  BY DEF InProgress
<1>4. Pending(p, s)
  BY DEF MirrorInv, ApplyInv
<1>5. work[p][s] = "import" => Exists(seenProject[p][s])
  <2>1. CASE job[p].kind = "sync"
    BY <1>2, <2>1, DecideReadsProject DEF Planned
  <2>2. CASE job[p].kind \in {"project", "profile"}
    <3>1. s \in job[p].scope
      BY <1>2, <2>2 DEF Planned, Do
    <3> QED
      BY <2>2, <3>1 DEF PlanInv, PlanOf, Resolving, ResolvePlan
  <2> QED
    BY <1>1, <2>1, <2>2 DEF JobKnown
<1> QED
  BY <1>1, <1>2, <1>3, <1>4, <1>5 DEF Pending

LEMMA ExportPlan ==
    ASSUME MirrorInv, PlanInv, NEW p \in Profiles, NEW s \in Sessions,
           ExportRemovePrevious(p, s) \/ ExportWriteRollout(p, s) \/ ExportWriteMetadata(p, s)
    PROVE  PlanInv'
<1>1. /\ Applying(p) /\ Current(p, s) /\ work[p][s] = "export"
      /\ pc[p] # "backup"
      /\ UNCHANGED <<homes, names, tombstones, job, registry, seenProject, seenProfile,
                     newRegistry, backups>>
  BY DEF ExportRemovePrevious, ExportWriteRollout, ExportWriteMetadata, At, Applying, Then, Done,
         profileVars
<1>2. /\ Progress(p, s) /\ Planned(p, s).action = "export"
  BY <1>1, TurnFacts
<1>3. PlanKept
  BY <1>1 DEF PlanKept
<1>4. /\ Planned(p, s)' = Planned(p, s)
      /\ MirrorResult(p, s)' = MirrorResult(p, s)
      /\ ProfileResult(p, s)' = ProfileResult(p, s)
  BY <1>1, SamePlan DEF TombstoneSeen
<1>5. Untouched(p, s) /\ Untouched(p, s)'
  BY <1>1, <1>2 DEF Progress, Untouched, Holds
<1>6. CASE ExportWriteMetadata(p, s)
  <2>1. /\ metadata' = [metadata EXCEPT ![s] = seenProfile[p][s]]
        /\ pc' = [pc EXCEPT ![p] = "apply"]
        /\ work' = [work EXCEPT ![p][s] = "none"]
    BY <1>6 DEF ExportWriteMetadata, Done
  <2>2. /\ metadata'[s] = seenProfile[p][s] /\ work'[p][s] = "none"
        /\ \A t \in Sessions : t # s => metadata'[t] = metadata[t] /\ work'[p][t] = work[p][t]
    BY <2>1 DEF MirrorInv, TypeOK
  <2>3. Finished(p, s)'
    BY <1>1, <1>2, <1>4, <1>5, <2>2
       DEF Finished, Untouched, MirrorResult, ProfileResult, MirrorAfter, ProfileAfter
  <2>4. Progress(p, s)'
    BY <1>1, <1>2, <1>4, <2>2, <2>3 DEF Progress, MirrorWaits
  <2>5. OthersWait(p, s)
    BY <1>1, <2>2 DEF OthersWait
  <2> QED
    BY <1>1, <1>3, <2>1, <2>4, <2>5, ApplyKeepsPlan
<1>7. CASE ExportRemovePrevious(p, s) \/ ExportWriteRollout(p, s)
  <2>1. /\ UNCHANGED <<metadata, work>>
        /\ \E stage \in {"write", "finish"} : pc' = [pc EXCEPT ![p] = stage]
    BY <1>7 DEF ExportRemovePrevious, ExportWriteRollout, Then
  <2>2. Progress(p, s)'
    BY <1>1, <1>2, <1>4, <1>5, <2>1 DEF Progress, MirrorWaits
  <2>3. OthersWait(p, s)
    BY <1>1, <2>1 DEF OthersWait
  <2> QED
    BY <1>1, <1>3, <2>1, <2>2, <2>3, ApplyKeepsPlan
<1> QED
  BY <1>6, <1>7

LEMMA ImportPlan ==
    ASSUME MirrorInv, PlanInv, NEW p \in Profiles, NEW s \in Sessions,
           ImportRemovePrevious(p, s) \/ ImportWriteRollout(p, s) \/ ImportAppendName(p, s)
    PROVE  PlanInv'
<1> DEFINE project == seenProject[p][s]
           profile == seenProfile[p][s]
<1>1. /\ Applying(p) /\ Current(p, s) /\ work[p][s] = "import"
      /\ pc[p] # "backup"
      /\ UNCHANGED <<metadata, tombstones, job, registry, seenProject, seenProfile,
                     newRegistry, backups>>
  BY DEF ImportRemovePrevious, ImportWriteRollout, ImportAppendName, At, Applying, Then, Done,
         mirrorVars
<1>2. /\ Progress(p, s) /\ Planned(p, s).action = "import" /\ Exists(project)
      /\ pc[p] \in {"write", "finish"} <=> InProgress(p, s)
  BY <1>1, TurnFacts
<1>3. PlanKept
  BY <1>1 DEF PlanKept
<1>4. /\ Planned(p, s)' = Planned(p, s)
      /\ MirrorResult(p, s)' = MirrorResult(p, s)
      /\ ProfileResult(p, s)' = ProfileResult(p, s)
  BY <1>1, SamePlan DEF TombstoneSeen
<1>5. /\ homes \in [Profiles -> [Sessions -> [Place -> Seq(Line)]]]
      /\ names \in [Profiles -> [Sessions -> ThreadName]]
      /\ work \in [Profiles -> [Sessions -> FileAction]]
      /\ pc \in [Profiles -> Stage]
      /\ project.place \in Place /\ profile.place \in Place
  BY CopyFields DEF MirrorInv, TypeOK
<1>6. pc[p] = "apply" => homes[p][s] = FilesOf(profile)
  BY <1>1, <1>2 DEF Progress, Untouched, Holds
<1>7. CASE ImportRemovePrevious(p, s)
  <2>1. /\ pc[p] = "apply" /\ Exists(profile)
        /\ homes' = [homes EXCEPT ![p][s][profile.place] = <<>>]
        /\ pc' = [pc EXCEPT ![p] = "write"] /\ UNCHANGED <<work, names>>
    BY <1>7 DEF ImportRemovePrevious, At, Moves, Then
  <2>2. homes'[p][s] = NoFiles
    BY <1>5, <1>6, <2>1 DEF FilesOf, OnlyAt, NoFiles
  <2>3. InProgress(p, s)'
    BY <1>1, <1>5, <2>1 DEF InProgress, Current
  <2>4. Progress(p, s)'
    BY <1>1, <1>2, <1>4, <1>5, <2>1, <2>2, <2>3 DEF Progress, MirrorWaits, HalfImported
  <2>5. OthersWait(p, s)
    BY <1>1, <1>5, <2>1 DEF OthersWait
  <2> QED
    BY <1>1, <1>3, <2>1, <2>4, <2>5, ApplyKeepsPlan
<1>8. CASE ImportWriteRollout(p, s)
  <2>1. /\ \/ pc[p] = "apply" /\ ~Moves(project, profile)
           \/ pc[p] = "write"
        /\ homes' = [homes EXCEPT ![p][s][project.place] = project.lines]
        /\ pc' = [pc EXCEPT ![p] = "finish"] /\ UNCHANGED <<work, names>>
    BY <1>8 DEF ImportWriteRollout, At, Then
  <2>2. homes[p][s] = NoFiles \/ \E lines : homes[p][s] = OnlyAt(project.place, lines)
    <3>1. CASE pc[p] = "apply"
      BY <1>6, <2>1, <3>1 DEF FilesOf, Moves
    <3>2. CASE pc[p] = "write"
      BY <1>1, <1>2, <3>2 DEF Progress, HalfImported
    <3> QED
      BY <2>1, <3>1, <3>2
  <2>3. homes'[p][s] = OnlyAt(project.place, project.lines)
    BY <1>5, <2>1, <2>2 DEF OnlyAt, NoFiles
  <2>4. InProgress(p, s)' /\ pc'[p] = "finish"
    BY <1>1, <1>5, <2>1 DEF InProgress, Current
  <2>5. Progress(p, s)'
    BY <1>1, <1>2, <1>4, <2>1, <2>3, <2>4 DEF Progress, MirrorWaits, HalfImported
  <2>6. OthersWait(p, s)
    BY <1>1, <1>5, <2>1 DEF OthersWait
  <2> QED
    BY <1>1, <1>3, <2>1, <2>5, <2>6, ApplyKeepsPlan
<1>9. CASE ImportAppendName(p, s)
  <2>1. /\ pc[p] = "finish"
        /\ names' = [names EXCEPT ![p][s] = project.name]
        /\ pc' = [pc EXCEPT ![p] = "apply"]
        /\ work' = [work EXCEPT ![p][s] = "none"] /\ homes' = homes
    BY <1>9 DEF ImportAppendName, At, Done
  <2>2. homes[p][s] = OnlyAt(project.place, project.lines) /\ metadata[s] = project
    BY <1>1, <1>2, <2>1 DEF Progress, HalfImported, MirrorWaits
  <2>3. /\ names'[p][s] = project.name /\ work'[p][s] = "none"
        /\ \A t \in Sessions : t # s => names'[p][t] = names[p][t] /\ work'[p][t] = work[p][t]
    BY <1>5, <2>1
  <2>4. Finished(p, s)'
    BY <1>1, <1>2, <1>4, <2>1, <2>2, <2>3
       DEF Finished, Holds, FilesOf, MirrorResult, ProfileResult, MirrorAfter, ProfileAfter
  <2>5. Progress(p, s)'
    BY <1>1, <1>2, <1>4, <2>3, <2>4 DEF Progress, MirrorWaits
  <2>6. OthersWait(p, s)
    BY <1>1, <2>1, <2>3 DEF OthersWait
  <2> QED
    BY <1>1, <1>3, <2>1, <2>5, <2>6, ApplyKeepsPlan
<1> QED
  BY <1>7, <1>8, <1>9

LEMMA TombstonePlan ==
    ASSUME MirrorInv, PlanInv, NEW p \in Profiles, NEW s \in Sessions,
           TombstoneRemoveRollout(p, s) \/ TombstoneRemoveMetadata(p, s) \/ TombstoneWrite(p, s)
    PROVE  PlanInv'
<1>1. /\ Applying(p) /\ Current(p, s) /\ work[p][s] = "tombstone"
      /\ pc[p] # "backup"
      /\ UNCHANGED <<homes, names, job, registry, seenProject, seenProfile, newRegistry, backups>>
  BY DEF TombstoneRemoveRollout, TombstoneRemoveMetadata, TombstoneWrite, At, Applying, Then, Done,
         profileVars
<1>2. /\ Progress(p, s) /\ Planned(p, s).action = "tombstone" /\ Exists(seenProject[p][s])
      /\ pc[p] \in {"write", "finish"} <=> InProgress(p, s)
  BY <1>1, TurnFacts DEF MirrorInv, ApplyInv, Pending
<1>3. PlanKept
  BY <1>1 DEF PlanKept
<1>4. /\ Planned(p, s)' = Planned(p, s)
      /\ MirrorResult(p, s)' = MirrorResult(p, s)
      /\ ProfileResult(p, s)' = ProfileResult(p, s)
  BY <1>1, <1>2, SamePlan DEF TombstoneSeen
<1>5. Untouched(p, s) /\ Untouched(p, s)'
  BY <1>1, <1>2 DEF Progress, Untouched, Holds
<1>6. CASE TombstoneWrite(p, s)
  <2>1. /\ pc[p] = "finish" /\ metadata' = metadata
        /\ tombstones' = [tombstones EXCEPT ![s] = seenProject[p][s].lines]
        /\ pc' = [pc EXCEPT ![p] = "apply"]
        /\ work' = [work EXCEPT ![p][s] = "none"]
    BY <1>6 DEF TombstoneWrite, At, Done
  <2>2. /\ tombstones'[s] = seenProject[p][s].lines /\ work'[p][s] = "none"
        /\ \A t \in Sessions : t # s => tombstones'[t] = tombstones[t] /\ work'[p][t] = work[p][t]
    BY <2>1 DEF MirrorInv, TypeOK
  <2>3. metadata[s] = NoCopy
    BY <1>1, <1>2, <2>1 DEF Progress, MirrorWaits
  <2>4. Finished(p, s)'
    BY <1>1, <1>2, <1>4, <1>5, <2>1, <2>2, <2>3
       DEF Finished, Untouched, MirrorResult, ProfileResult, MirrorAfter, ProfileAfter
  <2>5. Progress(p, s)'
    BY <1>1, <1>2, <1>4, <2>2, <2>4 DEF Progress, MirrorWaits
  <2>6. OthersWait(p, s)
    BY <1>1, <2>1, <2>2 DEF OthersWait
  <2> QED
    BY <1>1, <1>3, <2>1, <2>5, <2>6, ApplyKeepsPlan
<1>7. CASE TombstoneRemoveRollout(p, s) \/ TombstoneRemoveMetadata(p, s)
  <2>1. /\ UNCHANGED <<tombstones, work>>
        /\ \/ pc' = [pc EXCEPT ![p] = "write"] /\ metadata' = metadata
           \/ pc' = [pc EXCEPT ![p] = "finish"] /\ metadata' = [metadata EXCEPT ![s] = NoCopy]
    BY <1>7 DEF TombstoneRemoveRollout, TombstoneRemoveMetadata, Then
  <2>2. /\ pc'[p] \in {"write", "finish"}
        /\ pc'[p] = "finish" => metadata'[s] = NoCopy
        /\ \A t \in Sessions : t # s => metadata'[t] = metadata[t]
    BY <2>1 DEF MirrorInv, TypeOK
  <2>3. Progress(p, s)'
    BY <1>1, <1>2, <1>4, <1>5, <2>1, <2>2 DEF Progress, MirrorWaits
  <2>4. OthersWait(p, s)
    BY <1>1, <2>1, <2>2 DEF OthersWait
  <2> QED
    BY <1>1, <1>3, <2>1, <2>3, <2>4, ApplyKeepsPlan
<1> QED
  BY <1>6, <1>7

LEMMA DeletePlan ==
    ASSUME MirrorInv, PlanInv, NEW p \in Profiles, NEW s \in Sessions, DeleteProfileRollout(p, s)
    PROVE  PlanInv'
<1> DEFINE profile == seenProfile[p][s]
<1>1. /\ Applying(p) /\ Current(p, s) /\ work[p][s] = "delete" /\ pc[p] = "apply"
      /\ homes' = [homes EXCEPT ![p][s][profile.place] = <<>>]
      /\ pc' = [pc EXCEPT ![p] = "apply"]
      /\ work' = [work EXCEPT ![p][s] = "none"]
      /\ UNCHANGED <<metadata, tombstones, names, job, registry, seenProject, seenProfile,
                     newRegistry, backups>>
  BY DEF DeleteProfileRollout, At, Applying, Done, mirrorVars
<1>2. /\ Progress(p, s) /\ Planned(p, s).action = "delete" /\ ~InProgress(p, s)
      /\ metadata[s] = seenProject[p][s]
  BY <1>1, TurnFacts
<1>3. PlanKept
  BY <1>1 DEF PlanKept
<1>4. /\ Planned(p, s)' = Planned(p, s)
      /\ MirrorResult(p, s)' = MirrorResult(p, s)
      /\ ProfileResult(p, s)' = ProfileResult(p, s)
  BY <1>1, SamePlan DEF TombstoneSeen
<1>5. homes[p][s] = FilesOf(profile) /\ profile.place \in Place
  BY <1>1, <1>2, CopyFields DEF Progress, Untouched, Holds, MirrorInv, TypeOK
<1>6. homes'[p][s] = NoFiles
  BY <1>1, <1>5 DEF FilesOf, OnlyAt, NoFiles, MirrorInv, TypeOK
<1>7. /\ work'[p][s] = "none"
      /\ \A t \in Sessions : t # s => homes'[p][t] = homes[p][t] /\ work'[p][t] = work[p][t]
  BY <1>1 DEF MirrorInv, TypeOK
<1>8. Finished(p, s)'
  BY <1>1, <1>2, <1>4, <1>6
     DEF Finished, Holds, FilesOf, Exists, NoCopy, MirrorResult, ProfileResult, MirrorAfter, ProfileAfter
<1>9. Progress(p, s)'
  BY <1>1, <1>2, <1>4, <1>7, <1>8 DEF Progress, MirrorWaits
<1>10. OthersWait(p, s)
  BY <1>1, <1>7 DEF OthersWait
<1> QED
  BY <1>1, <1>3, <1>9, <1>10, ApplyKeepsPlan

LEMMA BackupPlan ==
    ASSUME MirrorInv, PlanInv, NEW p \in Profiles, NEW s \in Sessions, BackupLoser(p, s)
    PROVE  PlanInv'
<1>1. /\ pc[p] = "backup" /\ Applying(p) /\ Current(p, s)
      /\ backups' = backups \cup {[session |-> s, lines |-> Loser(p, s).lines]}
      /\ pc' = [pc EXCEPT ![p] = "apply"]
      /\ UNCHANGED <<metadata, tombstones, homes, names, job, registry, seenProject, seenProfile,
                     work, newRegistry>>
  BY DEF BackupLoser, Applying, Loser, mirrorVars, profileVars
<1>2. Progress(p, s) /\ JobKnown(p) /\ job[p].kind # "sync"
  BY <1>1 DEF PlanInv, PlanOf
<1>3. job[p].scope = {s}
  <2>1. Planned(p, s).action # "none"
    BY <1>1, <1>2 DEF Progress, Current
  <2> QED
    BY <1>2, <2>1 DEF Planned, Do, JobKnown
<1>4. PlanKept /\ OthersWait(p, s)
  BY <1>1 DEF PlanKept, OthersWait
<1>5. Progress(p, s)'
  <2>1. ~InProgress(p, s) /\ ~InProgress(p, s)'
    BY <1>1 DEF InProgress, MirrorInv, TypeOK
  <2> QED
    BY <1>1, <1>2, <1>4, <2>1, OtherProgress
<1> QED
  BY <1>1, <1>3, <1>4, <1>5, ApplyKeepsPlan
-----------------------------------------------------------------------------
(***************************************************************************)
(* The other steps, and the invariant.                                     *)
(***************************************************************************)
LEMMA CodexLocal ==
    ASSUME TypeOK, NEW p \in Profiles, Codex(p)
    PROVE  /\ CodexConcurrent \/ pc[p] = "idle"
           /\ \A q \in Profiles : q # p => homes'[q] = homes[q] /\ names'[q] = names[q]
<1>1. PICK s \in Sessions :
        \/ CodexCreate(p, s)
        \/ CodexAppend(p, s)
        \/ \E from, to \in Place : CodexMove(p, s, from, to)
        \/ \E name \in Name : CodexRename(p, s, name)
        \/ CodexDelete(p, s)
  BY DEF Codex
<1>2. CodexStep(p)
  BY <1>1 DEF CodexCreate, CodexAppend, CodexMove, CodexRename, CodexDelete
<1>3. /\ homes' = homes \/ \E files : homes' = [homes EXCEPT ![p] = files]
      /\ names' = names \/ \E all : names' = [names EXCEPT ![p] = all]
  BY <1>1 DEF CodexCreate, CodexAppend, CodexMove, CodexRename, CodexDelete
<1>4. \A q \in Profiles : q # p => homes'[q] = homes[q] /\ names'[q] = names[q]
  BY <1>3 DEF TypeOK
<1> QED
  BY <1>2, <1>4 DEF CodexStep

LEMMA CodexPlan ==
    ASSUME CodexConcurrent = FALSE, MirrorInv, PlanInv, NEW p \in Profiles, Codex(p)
    PROVE  PlanInv'
<1>1. /\ pc[p] = "idle"
      /\ \A q \in Profiles : q # p => homes'[q] = homes[q] /\ names'[q] = names[q]
  BY CodexLocal DEF MirrorInv
<1>2. UNCHANGED <<metadata, tombstones, registry, backups, pc, job, seenProject, seenProfile,
                  work, newRegistry>>
  BY CodexKeeps DEF MirrorInv, mirrorVars, syncVars
<1>3. \A q \in Profiles : q # p => PlanOf(q)'
  BY <1>1, <1>2, FramePlan
<1>4. PlanOf(p)'
  BY <1>1, <1>2 DEF PlanOf, ScanSeen, Applying, Resolving
<1> QED
  BY <1>3, <1>4 DEF PlanInv

LEMMA ReleasePlan ==
    ASSUME MirrorInv, NEW p \in Profiles, pc[p] # "idle", Release(p)
    PROVE  PlanInv'
<1>1. pc' = [pc EXCEPT ![p] = "idle"]
  BY DEF Release
<1>2. pc'[p] = "idle"
  BY <1>1 DEF MirrorInv, TypeOK
<1>3. PlanOf(p)'
  BY <1>2 DEF PlanOf, ScanSeen, Applying, Resolving
<1> QED
  BY <1>1, <1>3, OnlyHolder DEF MirrorInv

(***************************************************************************)
(* The steps by kind, with what is known of the job of a new command.      *)
(***************************************************************************)
JobShape(j) ==
    \/ j.kind = "sync"
    \/ j.kind \in {"project", "profile"} /\ \E s \in Sessions : j.scope = {s}

LEMMA JobKinds ==
    ASSUME Next
    PROVE  \E p \in Profiles :
             \/ Codex(p)
             \/ \E j \in Job : Begin(p, j) /\ JobShape(j)
             \/ ScanLive(p)
             \/ PlanSync(p)
             \/ \E s \in Sessions : PlanResolve(p, s)
             \/ \E s \in Sessions : Apply(p, s)
             \/ Reject(p) \/ Abort(p) \/ SaveRegistry(p)
<1>1. \A eligible \in EligibleChoices : SyncJob(eligible) \in Job /\ JobShape(SyncJob(eligible))
  BY ChoicesAssumption DEF SyncJob, Job, JobShape
<1>2. \A s \in Sessions, use \in ResolveChoices :
        ResolveJob(s, use) \in Job /\ JobShape(ResolveJob(s, use))
  BY ChoicesAssumption DEF ResolveJob, Job, JobShape
<1> QED
  BY <1>1, <1>2 DEF Next, BeginSync, BeginResolve, Work

LEMMA StepPlan ==
    ASSUME CodexConcurrent = FALSE, MirrorInv, PlanInv, [Next]_vars
    PROVE  PlanInv'
<1>1. TypeOK'
  BY StepType DEF MirrorInv
<1>2. CASE UNCHANGED vars
  <2>1. UNCHANGED <<metadata, tombstones, homes, names, registry, backups, pc, job, seenProject,
                    seenProfile, work, newRegistry>>
    BY <1>2 DEF vars, mirrorVars, profileVars, syncVars
  <2>2. \A q \in Profiles : PlanOf(q)'
    BY <2>1, FramePlan
  <2> QED
    BY <2>2 DEF PlanInv
<1>3. CASE Next
  <2>1. PICK p \in Profiles :
             \/ Codex(p)
             \/ \E j \in Job : Begin(p, j) /\ JobShape(j)
             \/ ScanLive(p)
             \/ PlanSync(p)
             \/ \E s \in Sessions : PlanResolve(p, s)
             \/ \E s \in Sessions : Apply(p, s)
             \/ Reject(p) \/ Abort(p) \/ SaveRegistry(p)
    BY <1>3, JobKinds
  <2>2. CASE Codex(p)
    BY <2>2, CodexPlan
  <2>3. CASE \E j \in Job : Begin(p, j) /\ JobShape(j)
    BY <2>3, BeginPlan DEF JobShape
  <2>4. CASE ScanLive(p)
    BY <2>4, ScanLivePlan
  <2>5. CASE PlanSync(p)
    BY <1>1, <2>5, PlanSyncPlan
  <2>6. CASE \E s \in Sessions : PlanResolve(p, s)
    BY <1>1, <2>6, PlanResolvePlan
  <2>7. CASE \E s \in Sessions : Apply(p, s)
    BY <2>7, ExportPlan, TombstonePlan, ImportPlan, DeletePlan, BackupPlan DEF Apply
  <2>8. CASE Reject(p) \/ Abort(p) \/ SaveRegistry(p)
    <3>1. pc[p] # "idle" /\ Release(p)
      BY <2>8 DEF Reject, Abort, SaveRegistry
    <3> QED
      BY <3>1, ReleasePlan
  <2> QED
    BY <2>1, <2>2, <2>3, <2>4, <2>5, <2>6, <2>7, <2>8
<1> QED
  BY <1>2, <1>3

(***************************************************************************)
(* While Codex does not run during a synchronization, the files of the     *)
(* profile and of the mirror are at every step what the plan says.         *)
(***************************************************************************)
THEOREM PlanIsCarriedOut ==
    ASSUME CodexConcurrent = FALSE
    PROVE  Spec => [](MirrorInv /\ PlanInv)
<1>1. Init => MirrorInv /\ PlanInv
  BY InitMirror, InitPlan
<1>2. MirrorInv /\ PlanInv /\ [Next]_vars => MirrorInv' /\ PlanInv'
  BY StepMirror, StepPlan
<1> QED
  BY <1>1, <1>2, PTL DEF Spec
-----------------------------------------------------------------------------
(***************************************************************************)
(* A synchronization that ends leaves everything in agreement.             *)
(***************************************************************************)
\* ProfileCopy as a function of the files and the name, in any state.
CopyOf(files, name) ==
    IF \E place \in Place : files = OnlyAt(place, files[place]) /\ files[place] # <<>>
    THEN LET place == CHOOSE place \in Place : files[place] # <<>>
         IN  [place |-> place, lines |-> files[place], name |-> name]
    ELSE NoCopy

LEMMA CopyOfFiles ==
    ASSUME NEW copy \in Copy, Proper(copy), NEW files \in [Place -> Seq(Line)],
           files = FilesOf(copy), NEW name, Exists(copy) => name = copy.name
    PROVE  CopyOf(files, name) = copy
<1>1. copy.place \in Place
  BY CopyFields
<1>2. CASE Exists(copy)
  <2>1. files = OnlyAt(copy.place, copy.lines) /\ name = copy.name
    BY <1>2 DEF FilesOf
  <2>2. \A place \in Place : files[place] = IF place = copy.place THEN copy.lines ELSE <<>>
    BY <1>1, <2>1 DEF OnlyAt, NoFiles
  <2>3. \A place \in Place : files[place] # <<>> <=> place = copy.place
    BY <1>1, <1>2, <2>2 DEF Exists
  <2>4. (CHOOSE place \in Place : files[place] # <<>>) = copy.place
    BY <1>1, <2>3
  <2>5. files = OnlyAt(copy.place, files[copy.place]) /\ files[copy.place] # <<>>
    BY <1>1, <2>1, <2>2, <2>3
  <2>6. CopyOf(files, name) = [place |-> copy.place, lines |-> copy.lines, name |-> copy.name]
    BY <1>1, <2>1, <2>2, <2>4, <2>5 DEF CopyOf
  <2> QED
    BY <2>6 DEF Copy
<1>3. CASE ~Exists(copy)
  <2>1. files = NoFiles /\ copy = NoCopy
    BY <1>3 DEF FilesOf, Proper
  <2>2. \A place \in Place : files[place] = <<>>
    BY <2>1 DEF NoFiles
  <2> QED
    BY <2>1, <2>2 DEF CopyOf
<1> QED
  BY <1>2, <1>3

LEMMA HeldCopy ==
    ASSUME TypeOK, NEW p \in Profiles, NEW s \in Sessions, NEW copy \in Copy,
           Proper(copy), Holds(p, s, copy)
    PROVE  ProfileCopy(p, s) = copy
<1>1. homes[p][s] \in [Place -> Seq(Line)]
  BY DEF TypeOK
<1>2. ProfileCopy(p, s) = CopyOf(homes[p][s], names[p][s])
  BY DEF ProfileCopy, CopyOf
<1> QED
  BY <1>1, <1>2, CopyOfFiles DEF Holds

LEMMA PlanFacts ==
    ASSUME MirrorInv, PlanInv, NEW p \in Profiles, Applying(p), NEW s \in Sessions
    PROVE  /\ seenProject[p][s] \in Copy /\ seenProfile[p][s] \in Copy
           /\ MirrorResult(p, s) \in Copy /\ ProfileResult(p, s) \in Copy
           /\ Proper(ProfileResult(p, s))
<1>1. /\ seenProject[p][s] \in Copy /\ seenProfile[p][s] \in Copy
      /\ Proper(seenProfile[p][s]) /\ Proper(NoCopy) /\ JobKnown(p)
  BY DEF MirrorInv, TypeOK, PlanInv, PlanOf, Progress, Proper, Applying
<1>2. Planned(p, s).action = "import" => Exists(seenProject[p][s])
  <2>1. CASE job[p].kind = "sync"
    BY <2>1, DecideReadsProject DEF Planned
  <2>2. CASE job[p].kind \in {"project", "profile"}
    <3>1. Planned(p, s).action = "import" => s \in job[p].scope
      BY <2>2 DEF Planned, Do
    <3> QED
      BY <2>2, <3>1 DEF PlanInv, PlanOf, Resolving, ResolvePlan
  <2> QED
    BY <1>1, <2>1, <2>2 DEF JobKnown
<1> QED
  BY <1>1, <1>2, NoCopyType DEF MirrorResult, ProfileResult, MirrorAfter, ProfileAfter, Proper

LEMMA SaveFacts ==
    ASSUME MirrorInv, PlanInv, NEW p \in Profiles, SaveRegistry(p), NEW s \in Sessions
    PROVE  /\ Applying(p) /\ Progress(p, s) /\ Finished(p, s) /\ Readable(s)
           /\ ProfileCopy(p, s) = ProfileResult(p, s)
           /\ registry'[p][s] = Planned(p, s).registration
           /\ Planned(p, s).action # "tombstone" => tombstones[s] = TombstoneSeen(p, s)
           /\ seenProject[p][s] \in Copy
<1>1. pc[p] = "apply" /\ Applying(p) /\ work[p][s] = "none"
  BY DEF SaveRegistry, Applying, NoWork
<1>2. Progress(p, s) /\ Finished(p, s)
  BY <1>1 DEF PlanInv, PlanOf, Progress
<1>3. Readable(s)
  BY <1>1 DEF MirrorInv, ApplyInv, Pending, InProgress
<1>4. ProfileCopy(p, s) = ProfileResult(p, s)
  BY <1>1, <1>2, PlanFacts, HeldCopy DEF Finished, MirrorInv
<1>5. registry'[p][s] = Planned(p, s).registration
  BY <1>2 DEF SaveRegistry, Progress, MirrorInv, TypeOK
<1>6. ASSUME Planned(p, s).action # "tombstone", Exists(seenProject[p][s])
      PROVE  tombstones[s] = <<>>
  <2>1. CASE Planned(p, s).action = "export"
    <3>1. Pending(p, s)
      BY <1>1 DEF MirrorInv, ApplyInv
    <3>2. Exists(metadata[s])
      <4>1. CASE job[p].kind = "sync"
        <5>1. Exists(seenProfile[p][s])
          BY <2>1, <4>1, DecideActsOnCopies DEF Planned
        <5> QED
          BY <1>2, <2>1, <5>1 DEF Finished, MirrorResult, MirrorAfter
      <4>2. CASE job[p].kind \in {"project", "profile"}
        <5>1. s \in job[p].scope
          BY <2>1, <4>2 DEF Planned, Do
        <5>2. Exists(seenProfile[p][s])
          BY <1>1, <4>2, <5>1 DEF PlanInv, PlanOf, Resolving, ResolvePlan
        <5> QED
          BY <1>2, <2>1, <5>2 DEF Finished, MirrorResult, MirrorAfter
      <4> QED
        BY <1>1, <4>1, <4>2 DEF PlanInv, PlanOf, JobKnown
    <3> QED
      BY <1>3, <3>2 DEF Readable
  <2>2. CASE Planned(p, s).action # "export"
    <3>1. metadata[s] = seenProject[p][s]
      BY <1>2, <1>6, <2>2 DEF Finished, MirrorResult, MirrorAfter
    <3> QED
      BY <1>3, <1>6, <3>1 DEF Readable
  <2> QED
    BY <2>1, <2>2
<1>7. Planned(p, s).action # "tombstone" => tombstones[s] = TombstoneSeen(p, s)
  BY <1>6 DEF TombstoneSeen
<1> QED
  BY <1>1, <1>2, <1>3, <1>4, <1>5, <1>7, PlanFacts

(***************************************************************************)
(* When a synchronization ends, content, archive state, names, deletions   *)
(* and the registry agree on every session, whatever other commands died   *)
(* before it.                                                              *)
(***************************************************************************)
THEOREM SyncsConverge ==
    ASSUME CodexConcurrent = FALSE
    PROVE  Spec => SyncConverges
<1>1. ASSUME MirrorInv, PlanInv, NEW p \in Profiles, job[p].kind = "sync", SaveRegistry(p)
      PROVE  InSync(p)'
  <2>1. UNCHANGED <<rollouts, metadata, tombstones, homes, names>>
    BY <1>1 DEF SaveRegistry, mirrorVars, profileVars
  <2>2. MirrorReadable'
    BY <1>1, <2>1, SaveFacts DEF MirrorReadable, Readable
  <2>3. ASSUME NEW s \in Sessions
        PROVE  LET copy == ProfileCopy(p, s)'
                   base == registry'[p][s]
               IN  /\ Exists(metadata'[s]) => /\ copy = metadata'[s]
                                              /\ base = RegistrationFor(copy)
                   /\ Owned(base) /\ ~base.tombstone => Exists(metadata'[s])
                   /\ Owned(base) /\ tombstones'[s] # <<>> => /\ ~Exists(copy)
                                                              /\ base.tombstone
    <3> DEFINE project == seenProject[p][s]
               profile == seenProfile[p][s]
               verdict == Decide(project, profile, TombstoneSeen(p, s), registry[p][s],
                                 s \in job[p].scope)
    <3>1. ProfileCopy(p, s)' = ProfileCopy(p, s)
      BY <2>1 DEF ProfileCopy
    <3>2. /\ Progress(p, s) /\ Finished(p, s)
          /\ ProfileCopy(p, s) = ProfileResult(p, s)
          /\ registry'[p][s] = Planned(p, s).registration
          /\ Planned(p, s).action # "tombstone" => tombstones[s] = TombstoneSeen(p, s)
      BY <1>1, SaveFacts
    <3>3. Planned(p, s) = verdict /\ verdict.action \in FileAction
      BY <1>1, <3>2 DEF Planned, Progress
    <3>4. Exists(project) => TombstoneSeen(p, s) = <<>>
      BY DEF TombstoneSeen
    <3>5. /\ metadata[s] = MirrorAfter(verdict.action, project, profile)
          /\ ProfileCopy(p, s) = ProfileAfter(verdict.action, project, profile)
      BY <3>2, <3>3 DEF Finished, MirrorResult, ProfileResult
    <3>6. /\ Exists(metadata[s]) => /\ ProfileCopy(p, s) = metadata[s]
                                    /\ verdict.registration = RegistrationFor(ProfileCopy(p, s))
          /\ Owned(verdict.registration) /\ ~verdict.registration.tombstone => Exists(metadata[s])
          /\ Owned(verdict.registration) /\ (TombstoneSeen(p, s) # <<>> \/ verdict.action = "tombstone")
               => ~Exists(ProfileCopy(p, s)) /\ verdict.registration.tombstone
      BY <3>3, <3>4, <3>5, DecideAgrees
    <3> HIDE DEF verdict
    <3> QED
      BY <2>1, <3>1, <3>2, <3>3, <3>6
  <2> QED
    BY <2>2, <2>3 DEF InSync
<1>2. MirrorInv /\ PlanInv /\ [Next]_vars =>
        [\A p \in Profiles : job[p].kind = "sync" /\ SaveRegistry(p) => InSync(p)']_vars
  BY <1>1
<1> QED
  BY <1>2, PlanIsCarriedOut, PTL DEF Spec, SyncConverges

(***************************************************************************)
(* While one session is in conflict, a synchronization writes no other.    *)
(***************************************************************************)
THEOREM ConflictsStopSyncs ==
    ASSUME CodexConcurrent = FALSE
    PROVE  Spec => ConflictStopsAll
<1>1. ASSUME MirrorInv, PlanInv, NEW p \in Profiles, NEW s \in Sessions,
             job[p].kind = "sync", Apply(p, s), NEW t \in Sessions, t # s
      PROVE  ~InConflict(p, t)
  <2> DEFINE project == seenProject[p][t]
             profile == seenProfile[p][t]
             verdict == Decide(project, profile, TombstoneSeen(p, t), registry[p][t],
                               t \in job[p].scope)
  <2>1. Applying(p) /\ Current(p, s)
    BY <1>1 DEF Apply, BackupLoser, ExportRemovePrevious, ExportWriteRollout, ExportWriteMetadata,
         ImportRemovePrevious, ImportWriteRollout, ImportAppendName, TombstoneRemoveRollout,
         TombstoneRemoveMetadata, TombstoneWrite, DeleteProfileRollout, At, Applying
  <2>2. ~Current(p, t) /\ ~InProgress(p, t)
    BY <1>1, <2>1, CurrentUnique DEF InProgress
  <2>3. Progress(p, t) /\ Pending(p, t)
    BY <1>1, <2>1 DEF PlanInv, PlanOf, MirrorInv, ApplyInv
  <2>4. Planned(p, t) = verdict /\ verdict.action \in FileAction
    BY <1>1, <2>3 DEF Planned, Progress
  <2>5. Exists(project) => TombstoneSeen(p, t) = <<>>
    BY DEF TombstoneSeen
  <2>6. \A copy \in Copy : CompareSessions(copy, copy, registry[p][t]) # "conflict"
    BY DEF CompareSessions
  <2>7. CASE work[p][t] = "none"
    <3>1. metadata[t] = MirrorResult(p, t) /\ ProfileCopy(p, t) = ProfileResult(p, t)
      BY <1>1, <2>1, <2>3, <2>7, PlanFacts, HeldCopy DEF Progress, Finished, MirrorInv
    <3>2. /\ metadata[t] = MirrorAfter(verdict.action, project, profile)
          /\ ProfileCopy(p, t) = ProfileAfter(verdict.action, project, profile)
      BY <2>4, <3>1 DEF MirrorResult, ProfileResult
    <3>3. Exists(metadata[t]) => ProfileCopy(p, t) = metadata[t]
      BY <2>4, <2>5, <3>2, DecideAgrees
    <3> QED
      BY <1>1, <2>6, <3>3 DEF InConflict, MirrorInv, TypeOK
  <2>8. CASE work[p][t] # "none"
    <3>1. metadata[t] = project /\ Untouched(p, t)
      BY <2>2, <2>3, <2>8 DEF Pending, Progress
    <3>2. ProfileCopy(p, t) = profile
      BY <1>1, <2>1, <2>3, <3>1, PlanFacts, HeldCopy DEF Progress, Untouched, MirrorInv
    <3>3. SUFFICES ASSUME Exists(project), Exists(profile),
                          CompareSessions(project, profile, registry[p][t]) = "conflict"
                   PROVE  FALSE
      BY <3>1, <3>2 DEF InConflict
    <3>4. verdict \in {Do("error", registry[p][t]), DecideBoth(project, profile, registry[p][t])}
      BY <2>5, <3>3 DEF Decide
    <3>5. DecideBoth(project, profile, registry[p][t]).action = "conflict"
      BY <3>3 DEF DecideBoth, Do
    <3> QED
      BY <2>4, <3>4, <3>5 DEF Do, FileAction
  <2> QED
    BY <2>7, <2>8
<1>2. MirrorInv /\ PlanInv /\ [Next]_vars =>
        [\A p \in Profiles, s \in Sessions :
           job[p].kind = "sync" /\ Apply(p, s)
             => \A t \in Sessions \ {s} : ~InConflict(p, t)]_vars
  BY <1>1
<1> QED
  BY <1>2, PlanIsCarriedOut, PTL DEF Spec, ConflictStopsAll
-----------------------------------------------------------------------------
(***************************************************************************)
(* Deletions.  Whatever Codex does meanwhile, and whatever processes die.  *)
(***************************************************************************)
DeletesOwned ==
    \A p \in Profiles, s \in Sessions : work[p][s] = "delete" => Owned(registry[p][s])

LEMMA StepDeletes ==
    ASSUME TypeOK, DeletesOwned, [Next]_vars
    PROVE  DeletesOwned'
<1>1. CASE UNCHANGED <<work, registry>>
  BY <1>1 DEF DeletesOwned
<1>2. ASSUME NEW p \in Profiles, PlanSync(p) PROVE DeletesOwned'
  <2>1. /\ work' = [work EXCEPT ![p] = [s \in Sessions |-> Decision(p)[s].action]]
        /\ registry' = registry
    BY <1>2 DEF PlanSync
  <2>2. \A s \in Sessions : Decision(p)[s].action = "delete" => Owned(registry[p][s])
    BY DecideReadsProject DEF Decision
  <2> QED
    BY <2>1, <2>2 DEF DeletesOwned, TypeOK
<1>3. ASSUME NEW p \in Profiles, NEW s \in Sessions, PlanResolve(p, s) PROVE DeletesOwned'
  BY <1>3 DEF PlanResolve, DeletesOwned, TypeOK
<1>4. ASSUME NEW p \in Profiles, NEW s \in Sessions, Done(p, s) PROVE DeletesOwned'
  BY <1>4 DEF Done, DeletesOwned, TypeOK
<1>5. ASSUME NEW p \in Profiles, Release(p),
             registry' = registry \/ \E r : registry' = [registry EXCEPT ![p] = r]
      PROVE  DeletesOwned'
  BY <1>5 DEF Release, NoWork, DeletesOwned, TypeOK
<1>6. CASE UNCHANGED vars
  BY <1>1, <1>6 DEF vars, syncVars
<1>7. CASE Next
  <2>1. PICK p \in Profiles :
             \/ Codex(p)
             \/ \E j \in Job : Begin(p, j)
             \/ ScanLive(p)
             \/ PlanSync(p)
             \/ \E s \in Sessions : PlanResolve(p, s)
             \/ \E s \in Sessions : Apply(p, s)
             \/ Reject(p) \/ Abort(p) \/ SaveRegistry(p)
    BY <1>7, StepKinds
  <2>2. CASE Codex(p)
    BY <1>1, <2>2, CodexKeeps DEF syncVars
  <2>3. CASE \E j \in Job : Begin(p, j)
    BY <1>1, <2>3 DEF Begin, Enter
  <2>4. CASE ScanLive(p)
    BY <1>1, <2>4 DEF ScanLive
  <2>5. CASE \E s \in Sessions : Apply(p, s)
    <3>1. PICK s \in Sessions : Apply(p, s)
      BY <2>5
    <3>2. UNCHANGED <<work, registry>> \/ Done(p, s)
      BY <3>1 DEF Apply, BackupLoser, ExportRemovePrevious, ExportWriteRollout, ExportWriteMetadata,
           ImportRemovePrevious, ImportWriteRollout, ImportAppendName, TombstoneRemoveRollout,
           TombstoneRemoveMetadata, TombstoneWrite, DeleteProfileRollout, Then
    <3> QED
      BY <1>1, <1>4, <3>2
  <2>6. CASE Reject(p) \/ Abort(p) \/ SaveRegistry(p)
    BY <1>5, <2>6 DEF Reject, Abort, SaveRegistry
  <2> QED
    BY <1>2, <1>3, <2>1, <2>2, <2>3, <2>4, <2>5, <2>6
<1> QED
  BY <1>6, <1>7

(***************************************************************************)
(* No synchronization deletes a rollout that its profile has not managed   *)
(* before.                                                                 *)
(***************************************************************************)
THEOREM UnmanagedRolloutsSurvive == Spec => UnmanagedSurvives
<1>1. ASSUME TypeOK, DeletesOwned, Next, NEW p \in Profiles, NEW s \in Sessions,
             homes[p][s] # NoFiles, ~Owned(registry[p][s]), edits' = edits,
             homes'[p][s] = NoFiles
      PROVE  work'[p][s] = "import"
  <2>1. PICK q \in Profiles :
             \/ Codex(q)
             \/ \E j \in Job : Begin(q, j)
             \/ ScanLive(q)
             \/ PlanSync(q)
             \/ \E t \in Sessions : PlanResolve(q, t)
             \/ \E t \in Sessions : Apply(q, t)
             \/ Reject(q) \/ Abort(q) \/ SaveRegistry(q)
    BY <1>1, StepKinds
  <2>2. homes' # homes
    BY <1>1
  <2>3. ~Codex(q)
    BY <1>1 DEF Codex, CodexCreate, CodexAppend, CodexMove, CodexRename, CodexDelete, CodexStep, TypeOK
  <2>4. PICK t \in Sessions : Apply(q, t)
    BY <2>1, <2>2, <2>3
       DEF Begin, Enter, ScanLive, PlanSync, PlanResolve, Reject, Abort, SaveRegistry, profileVars
  <2>5. ImportRemovePrevious(q, t) \/ ImportWriteRollout(q, t) \/ DeleteProfileRollout(q, t)
    BY <2>2, <2>4
       DEF Apply, BackupLoser, ExportRemovePrevious, ExportWriteRollout, ExportWriteMetadata,
           ImportAppendName, TombstoneRemoveRollout, TombstoneRemoveMetadata, TombstoneWrite,
           profileVars
  <2>6. \E place, lines : homes' = [homes EXCEPT ![q][t][place] = lines]
    BY <2>5 DEF ImportRemovePrevious, ImportWriteRollout, DeleteProfileRollout
  <2>7. q = p /\ t = s
    BY <1>1, <2>6 DEF TypeOK
  <2>8. ~DeleteProfileRollout(p, s)
    BY <1>1 DEF DeleteProfileRollout, At, DeletesOwned
  <2> QED
    BY <2>5, <2>7, <2>8 DEF ImportRemovePrevious, ImportWriteRollout, At, Then
<1>2. Init => TypeOK /\ DeletesOwned
  BY InitType DEF Init, NoWork, DeletesOwned
<1>3. TypeOK /\ DeletesOwned /\ [Next]_vars => TypeOK' /\ DeletesOwned'
  BY StepType, StepDeletes
<1>4. TypeOK /\ DeletesOwned /\ [Next]_vars =>
        [\A p \in Profiles, s \in Sessions :
           /\ Applying(p) /\ homes[p][s] # NoFiles /\ ~Owned(registry[p][s])
           /\ edits' = edits /\ homes[p][s]' = NoFiles
           => work[p][s]' = "import"]_vars
  BY <1>1
<1> QED
  BY <1>2, <1>3, <1>4, PTL DEF Spec, UnmanagedSurvives
-----------------------------------------------------------------------------
(***************************************************************************)
(* The abstract merge.  Between two commands the files of a profile are    *)
(* those of one copy per session, and of a session that Codex has not      *)
(* created there is nothing anywhere.                                      *)
(***************************************************************************)
HomesInv ==
    \A p \in Profiles, s \in Sessions :
        ~Applying(p) => \E copy \in Copy : Proper(copy) /\ Holds(p, s, copy)

BornInv ==
    \A s \in Sessions \ born :
        /\ ~Exists(metadata[s])
        /\ \A p \in Profiles : /\ homes[p][s] = NoFiles /\ names[p][s] = NoName
                               /\ ~Exists(seenProject[p][s]) /\ ~Exists(seenProfile[p][s])

ReplicaInv == MirrorInv /\ PlanInv /\ HomesInv /\ BornInv

LEMMA RestCopy ==
    ASSUME TypeOK, HomesInv, NEW p \in Profiles, NEW s \in Sessions, ~Applying(p)
    PROVE  /\ ProfileCopy(p, s) \in Copy /\ Proper(ProfileCopy(p, s))
           /\ Holds(p, s, ProfileCopy(p, s))
BY HeldCopy DEF HomesInv

(***************************************************************************)
(* What a step of Codex makes of the copy of one session.                  *)
(***************************************************************************)
CodexMakes(p, s, copy) ==
    LET old == ProfileCopy(p, s)
    IN  \/ /\ s \notin born
           /\ \E line \in Line : copy = [NoCopy EXCEPT !.lines = <<line>>]
           /\ born' = born \cup {s} /\ deleted' = deleted
        \/ /\ Exists(old)
           /\ \/ \E line \in Line : copy = [old EXCEPT !.lines = Append(@, line)]
              \/ \E place \in Place : copy = [old EXCEPT !.place = place]
              \/ \E name \in Name : copy = [old EXCEPT !.name = name]
           /\ UNCHANGED <<born, deleted>>
        \/ /\ Exists(old)
           /\ copy = NoCopy
           /\ deleted' = deleted \cup {s} /\ born' = born

CodexTurns(p, s, copy) ==
    /\ copy \in Copy /\ Proper(copy)
    /\ CodexMakes(p, s, copy)
    /\ Holds(p, s, copy)'
    /\ s \in born'
    /\ \A q \in Profiles, t \in Sessions :
         q # p \/ t # s => homes'[q][t] = homes[q][t] /\ names'[q][t] = names[q][t]

LEMMA FilesPresent ==
    ASSUME TypeOK, HomesInv, BornInv, NEW p \in Profiles, NEW s \in Sessions, ~Applying(p),
           homes[p][s] # NoFiles
    PROVE  LET old == ProfileCopy(p, s)
           IN  /\ old \in Copy /\ Exists(old) /\ s \in born
               /\ old.lines \in Seq(Line) /\ old.place \in Place
               /\ homes[p][s] = OnlyAt(old.place, old.lines) /\ names[p][s] = old.name
               /\ \A place \in Place :
                    homes[p][s][place] = IF place = old.place THEN old.lines ELSE <<>>
<1>1. /\ ProfileCopy(p, s) \in Copy /\ Proper(ProfileCopy(p, s))
      /\ Holds(p, s, ProfileCopy(p, s))
  BY RestCopy
<1>2. Exists(ProfileCopy(p, s))
  BY <1>1 DEF Holds, FilesOf
<1>3. /\ homes[p][s] = OnlyAt(ProfileCopy(p, s).place, ProfileCopy(p, s).lines)
      /\ names[p][s] = ProfileCopy(p, s).name
  BY <1>1, <1>2 DEF Holds, FilesOf
<1>4. s \in born
  BY DEF BornInv
<1>5. \A place \in Place : homes[p][s][place]
        = IF place = ProfileCopy(p, s).place THEN ProfileCopy(p, s).lines ELSE <<>>
  BY <1>1, <1>3, CopyFields DEF OnlyAt, NoFiles
<1> QED
  BY <1>1, <1>2, <1>3, <1>4, <1>5, CopyFields

LEMMA CodexCopy ==
    ASSUME TypeOK, TypeOK', HomesInv, BornInv, NEW p \in Profiles, ~Applying(p), Codex(p)
    PROVE  \E s \in Sessions, copy \in Copy : CodexTurns(p, s, copy)
<1>1. PICK s \in Sessions :
        \/ CodexCreate(p, s)
        \/ CodexAppend(p, s)
        \/ \E from, to \in Place : CodexMove(p, s, from, to)
        \/ \E name \in Name : CodexRename(p, s, name)
        \/ CodexDelete(p, s)
  BY DEF Codex
<1> DEFINE old == ProfileCopy(p, s)
<1>2. /\ homes \in [Profiles -> [Sessions -> [Place -> Seq(Line)]]]
      /\ names \in [Profiles -> [Sessions -> ThreadName]]
      /\ Place = {"sessions", "archived_sessions"}
  BY DEF TypeOK, Place
<1>3. homes[p][s] # NoFiles =>
               /\ old \in Copy /\ Exists(old) /\ s \in born
               /\ old.lines \in Seq(Line) /\ old.place \in Place
               /\ homes[p][s] = OnlyAt(old.place, old.lines) /\ names[p][s] = old.name
               /\ \A place \in Place :
                    homes[p][s][place] = IF place = old.place THEN old.lines ELSE <<>>
  BY FilesPresent
<1> HIDE DEF old
<1>4. CASE CodexCreate(p, s)
  <2>1. PICK line \in Line : homes' = [homes EXCEPT ![p][s] = OnlyAt("sessions", <<line>>)]
    BY <1>4 DEF CodexCreate
  <2>2. /\ s \notin born /\ names' = names /\ born' = born \cup {s} /\ deleted' = deleted
        /\ names[p][s] = NoName
    BY <1>4 DEF CodexCreate, BornInv
  <2> DEFINE copy == [NoCopy EXCEPT !.lines = <<line>>]
  <2>3. copy = [place |-> "sessions", lines |-> <<line>>, name |-> NoName]
    BY DEF NoCopy
  <2>4. <<line>> \in Seq(Line) /\ <<line>> # <<>>
    OBVIOUS
  <2>5. copy \in Copy /\ Exists(copy)
    BY <1>2, <2>3, <2>4 DEF Copy, Exists, ThreadName
  <2>6. CodexMakes(p, s, copy)
    BY <2>2 DEF CodexMakes
  <2> HIDE DEF copy
  <2>7. Holds(p, s, copy)'
    BY <1>2, <2>1, <2>2, <2>3, <2>5 DEF Holds, FilesOf
  <2> QED
    BY <1>2, <2>1, <2>2, <2>5, <2>6, <2>7 DEF CodexTurns, Proper
<1>5. CASE CodexAppend(p, s)
  <2>1. PICK line \in Line : homes' = [homes EXCEPT ![p][s]["sessions"] = Append(@, line)]
    BY <1>5 DEF CodexAppend
  <2>2. names' = names /\ UNCHANGED <<born, deleted>> /\ homes[p][s]["sessions"] # <<>>
    BY <1>5 DEF CodexAppend
  <2>3. homes[p][s] # NoFiles
    BY <1>2, <2>2 DEF NoFiles
  <2>4. old.place = "sessions" /\ homes[p][s]["sessions"] = old.lines
    BY <1>2, <1>3, <2>2, <2>3
  <2>5. Append(old.lines, line) \in Seq(Line) /\ Append(old.lines, line) # <<>>
    BY <1>3, <2>3
  <2>6. PICK copy \in Copy : /\ copy = [old EXCEPT !.lines = Append(@, line)]
                            /\ copy.place = "sessions" /\ copy.lines = Append(old.lines, line)
                            /\ copy.name = old.name
    <3>1. old \in Copy
      BY <1>3, <2>3
    <3> DEFINE edited == [old EXCEPT !.lines = Append(@, line)]
    <3>2. edited = [old EXCEPT !.lines = Append(@, line)]
      OBVIOUS
    <3>3. /\ edited \in Copy /\ edited.place = old.place
          /\ edited.lines = Append(old.lines, line) /\ edited.name = old.name
      BY <2>5, <3>1 DEF Copy
    <3> HIDE DEF edited
    <3> QED
      BY <2>4, <3>2, <3>3
  <2>7. CodexMakes(p, s, copy)
    BY <1>3, <2>2, <2>3, <2>6 DEF CodexMakes, old
  <2>8. homes'[p][s] = OnlyAt("sessions", Append(old.lines, line))
    BY <1>2, <1>3, <2>1, <2>3, <2>4 DEF OnlyAt, NoFiles
  <2>9. Exists(copy) /\ Holds(p, s, copy)'
    BY <1>3, <2>2, <2>3, <2>5, <2>6, <2>8 DEF Exists, Holds, FilesOf
  <2> QED
    BY <1>2, <1>3, <2>1, <2>2, <2>3, <2>6, <2>7, <2>9 DEF CodexTurns, Proper
<1>6. CASE \E from, to \in Place : CodexMove(p, s, from, to)
  <2>1. PICK from \in Place, to \in Place : CodexMove(p, s, from, to)
    BY <1>6
  <2>2. /\ homes[p][s][from] # <<>> /\ homes' = [homes EXCEPT ![p][s] = OnlyAt(to, homes[p][s][from])]
        /\ names' = names /\ UNCHANGED <<born, deleted>>
    BY <2>1 DEF CodexMove
  <2>3. homes[p][s] # NoFiles
    BY <1>2, <2>2 DEF NoFiles
  <2>4. old.place = from /\ homes[p][s][from] = old.lines
    BY <1>3, <2>2, <2>3
  <2>5. PICK copy \in Copy : /\ copy = [old EXCEPT !.place = to]
                            /\ copy.place = to /\ copy.lines = old.lines /\ copy.name = old.name
    <3>1. old \in Copy
      BY <1>3, <2>3
    <3> DEFINE edited == [old EXCEPT !.place = to]
    <3>2. edited = [old EXCEPT !.place = to]
      OBVIOUS
    <3>3. /\ edited \in Copy /\ edited.place = to
          /\ edited.lines = old.lines /\ edited.name = old.name
      BY <3>1 DEF Copy
    <3> HIDE DEF edited
    <3> QED
      BY <3>2, <3>3
  <2>6. CodexMakes(p, s, copy)
    BY <1>3, <2>2, <2>3, <2>5 DEF CodexMakes, old
  <2>7. Exists(copy) /\ Holds(p, s, copy)'
    BY <1>2, <1>3, <2>2, <2>3, <2>4, <2>5 DEF Exists, Holds, FilesOf
  <2> QED
    BY <1>2, <1>3, <2>2, <2>3, <2>5, <2>6, <2>7 DEF CodexTurns, Proper
<1>7. CASE \E name \in Name : CodexRename(p, s, name)
  <2>1. PICK name \in Name : CodexRename(p, s, name)
    BY <1>7
  <2>2. /\ homes[p][s] # NoFiles /\ names' = [names EXCEPT ![p][s] = name]
        /\ homes' = homes /\ UNCHANGED <<born, deleted>>
    BY <2>1 DEF CodexRename
  <2>3. PICK copy \in Copy : /\ copy = [old EXCEPT !.name = name]
                            /\ copy.place = old.place /\ copy.lines = old.lines /\ copy.name = name
    <3>1. old \in Copy /\ name \in ThreadName
      BY <1>3, <2>2 DEF ThreadName
    <3> DEFINE edited == [old EXCEPT !.name = name]
    <3>2. edited = [old EXCEPT !.name = name]
      OBVIOUS
    <3>3. /\ edited \in Copy /\ edited.place = old.place
          /\ edited.lines = old.lines /\ edited.name = name
      BY <3>1 DEF Copy
    <3> HIDE DEF edited
    <3> QED
      BY <3>2, <3>3
  <2>4. CodexMakes(p, s, copy)
    BY <1>3, <2>2, <2>3 DEF CodexMakes, old
  <2>5. Exists(copy) /\ Holds(p, s, copy)'
    BY <1>2, <1>3, <2>2, <2>3 DEF Exists, Holds, FilesOf
  <2> QED
    BY <1>2, <1>3, <2>2, <2>3, <2>4, <2>5 DEF CodexTurns, Proper
<1>8. CASE CodexDelete(p, s)
  <2>1. /\ homes[p][s] # NoFiles /\ names' = names /\ born' = born /\ deleted' = deleted \cup {s}
        /\ homes' = [homes EXCEPT ![p][s] = NoFiles]
    BY <1>8 DEF CodexDelete
  <2>2. CodexMakes(p, s, NoCopy)
    BY <1>3, <2>1 DEF CodexMakes, old
  <2>3. homes'[p][s] = NoFiles /\ Holds(p, s, NoCopy)'
    BY <1>2, <2>1 DEF Holds, FilesOf, Exists, NoCopy
  <2> QED
    BY <1>2, <1>3, <2>1, <2>2, <2>3, NoCopyType DEF CodexTurns, Proper
<1> QED
  BY <1>1, <1>4, <1>5, <1>6, <1>7, <1>8

(***************************************************************************)
(* A file operation touches the profile of its process and one session.    *)
(***************************************************************************)
LEMMA ApplyLocal ==
    ASSUME TypeOK, NEW p \in Profiles, NEW s \in Sessions, Apply(p, s)
    PROVE  /\ Applying(p) /\ Current(p, s)
           /\ Applying(p)' /\ \A q \in Profiles : q # p => pc'[q] = pc[q]
           /\ \A q \in Profiles, t \in Sessions :
                q # p \/ t # s => homes'[q][t] = homes[q][t] /\ names'[q][t] = names[q][t]
           /\ \A t \in Sessions : t # s => metadata'[t] = metadata[t] /\ tombstones'[t] = tombstones[t]
           /\ UNCHANGED <<lock, job, seenProject, seenProfile, registry, born, deleted>>
<1>1. /\ pc[p] \in {"backup", "apply", "write", "finish"} /\ Current(p, s)
      /\ \E stage \in {"apply", "write", "finish"} : pc' = [pc EXCEPT ![p] = stage]
      /\ UNCHANGED <<lock, job, seenProject, seenProfile, registry, born, deleted>>
  BY DEF Apply, BackupLoser, ExportRemovePrevious, ExportWriteRollout, ExportWriteMetadata,
         ImportRemovePrevious, ImportWriteRollout, ImportAppendName, TombstoneRemoveRollout,
         TombstoneRemoveMetadata, TombstoneWrite, DeleteProfileRollout, At, Then, Done, codexVars
<1>2. Applying(p) /\ Applying(p)' /\ \A q \in Profiles : q # p => pc'[q] = pc[q]
  BY <1>1 DEF TypeOK, Applying
<1>3. /\ homes' = homes \/ \E place, lines : homes' = [homes EXCEPT ![p][s][place] = lines]
      /\ names' = names \/ \E name : names' = [names EXCEPT ![p][s] = name]
      /\ metadata' = metadata \/ \E copy : metadata' = [metadata EXCEPT ![s] = copy]
      /\ tombstones' = tombstones \/ \E lines : tombstones' = [tombstones EXCEPT ![s] = lines]
  BY DEF Apply, BackupLoser, ExportRemovePrevious, ExportWriteRollout, ExportWriteMetadata,
         ImportRemovePrevious, ImportWriteRollout, ImportAppendName, TombstoneRemoveRollout,
         TombstoneRemoveMetadata, TombstoneWrite, DeleteProfileRollout, mirrorVars, profileVars
<1>4. \A q \in Profiles, t \in Sessions :
        q # p \/ t # s => homes'[q][t] = homes[q][t] /\ names'[q][t] = names[q][t]
  BY <1>3 DEF TypeOK
<1>5. \A t \in Sessions : t # s => metadata'[t] = metadata[t] /\ tombstones'[t] = tombstones[t]
  BY <1>3 DEF TypeOK
<1> QED
  BY <1>1, <1>2, <1>4, <1>5

LEMMA HomesKept ==
    ASSUME HomesInv, NEW q \in Profiles, NEW t \in Sessions, ~Applying(q),
           homes'[q][t] = homes[q][t], names'[q][t] = names[q][t]
    PROVE  \E copy \in Copy : Proper(copy) /\ Holds(q, t, copy)'
<1>1. PICK copy \in Copy : Proper(copy) /\ Holds(q, t, copy)
  BY DEF HomesInv
<1>2. Holds(q, t, copy)'
  BY <1>1 DEF Holds
<1> QED
  BY <1>1, <1>2

LEMMA StepHomes ==
    ASSUME CodexConcurrent = FALSE, MaxCrashes = 0, ReplicaInv, TypeOK', [Next]_vars
    PROVE  HomesInv'
<1> USE DEF ReplicaInv
<1>1. TypeOK
  BY DEF MirrorInv
<1>2. ASSUME UNCHANGED <<homes, names>>, \A q \in Profiles : Applying(q) => Applying(q)'
      PROVE  HomesInv'
  BY <1>2, HomesKept DEF HomesInv
<1>3. CASE UNCHANGED vars
  BY <1>2, <1>3 DEF vars, profileVars, syncVars, Applying
<1>4. CASE Next
  <2>1. PICK p \in Profiles :
             \/ Codex(p)
             \/ \E j \in Job : Begin(p, j)
             \/ ScanLive(p)
             \/ PlanSync(p)
             \/ \E s \in Sessions : PlanResolve(p, s)
             \/ \E s \in Sessions : Apply(p, s)
             \/ Reject(p) \/ Abort(p) \/ SaveRegistry(p)
    BY <1>4, StepKinds
  <2>2. CASE Codex(p)
    <3>1. ~Applying(p) /\ pc' = pc
      BY <1>1, <2>2, CodexLocal, CodexKeeps DEF Applying, syncVars
    <3>2. PICK s \in Sessions, copy \in Copy : CodexTurns(p, s, copy)
      BY <1>1, <2>2, <3>1, CodexCopy
    <3>3. ASSUME NEW q \in Profiles, NEW t \in Sessions, ~Applying(q)'
          PROVE  \E c \in Copy : Proper(c) /\ Holds(q, t, c)'
      <4>1. CASE q = p /\ t = s
        BY <3>2, <4>1 DEF CodexTurns
      <4>2. CASE q # p \/ t # s
        BY <3>1, <3>2, <3>3, <4>2, HomesKept DEF CodexTurns, Applying
      <4> QED
        BY <4>1, <4>2
    <3> QED
      BY <3>3 DEF HomesInv
  <2>3. CASE (\E j \in Job : Begin(p, j)) \/ ScanLive(p) \/ Reject(p)
    <3>1. ~Applying(p) /\ UNCHANGED <<homes, names>>
      BY <2>3 DEF Begin, Enter, ScanLive, Reject, Applying, profileVars
    <3>2. \A q \in Profiles : q # p => pc'[q] = pc[q]
      BY <1>1, <2>3 DEF Begin, Enter, ScanLive, Reject, Release, TypeOK
    <3> QED
      BY <1>2, <3>1, <3>2 DEF Applying
  <2>4. CASE PlanSync(p) \/ \E s \in Sessions : PlanResolve(p, s)
    <3>1. UNCHANGED <<homes, names>>
      BY <2>4 DEF PlanSync, PlanResolve, profileVars
    <3>2. \A q \in Profiles : q # p => pc'[q] = pc[q]
      BY <1>1, <2>4 DEF PlanSync, PlanResolve, TypeOK
    <3>3. ~Applying(p)
      BY <2>4 DEF PlanSync, PlanResolve, Applying
    <3> QED
      BY <1>2, <3>1, <3>2, <3>3 DEF Applying
  <2>5. CASE \E s \in Sessions : Apply(p, s)
    <3>1. /\ Applying(p)'
          /\ \A q \in Profiles : q # p => /\ pc'[q] = pc[q]
                                         /\ \A t \in Sessions : /\ homes'[q][t] = homes[q][t]
                                                                /\ names'[q][t] = names[q][t]
      BY <1>1, <2>5, ApplyLocal
    <3>2. \A q \in Profiles, t \in Sessions :
            ~Applying(q)' => \E c \in Copy : Proper(c) /\ Holds(q, t, c)'
      BY <3>1, HomesKept DEF Applying
    <3> QED
      BY <3>2 DEF HomesInv
  <2>6. ~Abort(p)
    BY <1>1 DEF Abort, TypeOK
  <2>7. CASE SaveRegistry(p)
    <3>1. /\ UNCHANGED <<homes, names>> /\ Applying(p)
          /\ \A q \in Profiles : q # p => pc'[q] = pc[q]
      BY <1>1, <2>7 DEF SaveRegistry, Release, profileVars, TypeOK, Applying
    <3>2. ASSUME NEW t \in Sessions
          PROVE  \E c \in Copy : Proper(c) /\ Holds(p, t, c)'
      <4>1. Finished(p, t)
        BY <2>7, SaveFacts
      <4>2. PICK c \in Copy : c = ProfileResult(p, t) /\ Proper(c) /\ Holds(p, t, c)
        BY <3>1, <4>1, PlanFacts DEF Finished
      <4>3. Holds(p, t, c)'
        BY <3>1, <4>2 DEF Holds
      <4> QED
        BY <4>2, <4>3
    <3>3. \A q \in Profiles, t \in Sessions :
            ~Applying(q)' => \E c \in Copy : Proper(c) /\ Holds(q, t, c)'
      BY <3>1, <3>2, HomesKept DEF Applying
    <3> QED
      BY <3>3 DEF HomesInv
  <2> QED
    BY <2>1, <2>2, <2>3, <2>4, <2>5, <2>6, <2>7
<1> QED
  BY <1>3, <1>4

LEMMA StepBorn ==
    ASSUME CodexConcurrent = FALSE, ReplicaInv, TypeOK', [Next]_vars
    PROVE  BornInv'
<1> USE DEF ReplicaInv
<1>1. TypeOK
  BY DEF MirrorInv
<1>2. CASE UNCHANGED vars
  BY <1>2 DEF vars, mirrorVars, profileVars, syncVars, codexVars, BornInv
<1>3. CASE Next
  <2>1. PICK p \in Profiles :
             \/ Codex(p)
             \/ \E j \in Job : Begin(p, j)
             \/ ScanLive(p)
             \/ PlanSync(p)
             \/ \E s \in Sessions : PlanResolve(p, s)
             \/ \E s \in Sessions : Apply(p, s)
             \/ Reject(p) \/ Abort(p) \/ SaveRegistry(p)
    BY <1>3, StepKinds
  <2>2. CASE Codex(p)
    <3>1. ~Applying(p) /\ UNCHANGED <<metadata, seenProject, seenProfile>>
      BY <1>1, <2>2, CodexLocal, CodexKeeps DEF Applying, syncVars, mirrorVars
    <3>2. PICK s \in Sessions, copy \in Copy : CodexTurns(p, s, copy)
      BY <1>1, <2>2, <3>1, CodexCopy
    <3>3. \A t \in Sessions \ born' : t \notin born /\ t # s
      BY <3>2 DEF CodexTurns, CodexMakes
    <3> QED
      BY <3>1, <3>2, <3>3 DEF BornInv, CodexTurns
  <2>3. CASE \E j \in Job : Begin(p, j)
    <3>1. /\ UNCHANGED <<metadata, homes, names, born>>
          /\ seenProject' = [seenProject EXCEPT ![p] = metadata]
          /\ seenProfile' = [seenProfile EXCEPT
                               ![p] = [s \in Sessions |-> [NoCopy EXCEPT !.name = names[p][s]]]]
      BY <2>3 DEF Begin, Enter, mirrorVars, profileVars, codexVars
    <3>2. \A s \in Sessions : ~Exists(seenProfile'[p][s])
      BY <1>1, <3>1 DEF TypeOK, Exists, NoCopy
    <3> QED
      BY <1>1, <3>1, <3>2 DEF BornInv, TypeOK
  <2>4. CASE ScanLive(p)
    <3>1. /\ UNCHANGED <<metadata, homes, names, born, seenProject>>
          /\ seenProfile' = [seenProfile EXCEPT
                               ![p] = [s \in Sessions |->
                                  [seenProfile[p][s] EXCEPT !.lines = homes[p][s]["sessions"]]]]
      BY <2>4 DEF ScanLive, mirrorVars, profileVars, codexVars
    <3>2. \A s \in Sessions \ born : homes[p][s]["sessions"] = <<>>
      BY DEF BornInv, NoFiles, Place
    <3>3. \A s \in Sessions \ born : ~Exists(seenProfile'[p][s])
      BY <1>1, <3>1, <3>2 DEF TypeOK, Exists, Copy
    <3> QED
      BY <1>1, <3>1, <3>3 DEF BornInv, TypeOK
  <2>5. CASE PlanSync(p) \/ \E s \in Sessions : PlanResolve(p, s)
    <3>1. /\ UNCHANGED <<metadata, homes, names, born, seenProject>>
          /\ seenProfile' = [seenProfile EXCEPT ![p] = ProfileScan(p)]
      BY <2>5 DEF PlanSync, PlanResolve, mirrorVars, profileVars, codexVars
    <3>2. \A s \in Sessions \ born : /\ homes[p][s]["archived_sessions"] = <<>>
                                    /\ ~Exists(seenProfile[p][s])
      BY DEF BornInv, NoFiles, Place
    <3>3. \A s \in Sessions \ born : ~Exists(ProfileScan(p)[s])
      BY <3>2 DEF ProfileScan, Exists, NoCopy
    <3> QED
      BY <1>1, <3>1, <3>3 DEF BornInv, TypeOK
  <2>6. CASE \E s \in Sessions : Apply(p, s)
    <3>1. PICK s \in Sessions : Apply(p, s)
      BY <2>6
    <3>2. /\ Applying(p) /\ Current(p, s)
          /\ \A q \in Profiles, t \in Sessions :
                q # p \/ t # s => homes'[q][t] = homes[q][t] /\ names'[q][t] = names[q][t]
          /\ \A t \in Sessions : t # s => metadata'[t] = metadata[t]
          /\ UNCHANGED <<seenProject, seenProfile, born>>
      BY <1>1, <3>1, ApplyLocal
    <3>3. ASSUME s \notin born
          PROVE  metadata'[s] = metadata[s] /\ homes'[p][s] = NoFiles /\ names'[p][s] = names[p][s]
      <4>1. ~Exists(seenProject[p][s]) /\ ~Exists(seenProfile[p][s]) /\ homes[p][s] = NoFiles
        BY <3>3 DEF BornInv
      <4>2. work[p][s] \notin {"export", "tombstone", "import"}
        BY <3>2, <4>1, TurnFacts DEF MirrorInv, ApplyInv, Pending
      <4>3. BackupLoser(p, s) \/ DeleteProfileRollout(p, s)
        BY <3>1, <4>2
           DEF Apply, ExportRemovePrevious, ExportWriteRollout, ExportWriteMetadata,
               ImportRemovePrevious, ImportWriteRollout, ImportAppendName, TombstoneRemoveRollout,
               TombstoneRemoveMetadata, TombstoneWrite, At
      <4>4. /\ UNCHANGED <<metadata, names>>
            /\ homes' = homes \/ homes' = [homes EXCEPT ![p][s][seenProfile[p][s].place] = <<>>]
        BY <4>3 DEF BackupLoser, DeleteProfileRollout, mirrorVars, profileVars
      <4>5. homes'[p][s] = NoFiles
        BY <1>1, <4>1, <4>4 DEF TypeOK, NoFiles
      <4> QED
        BY <4>4, <4>5
    <3> QED
      BY <3>2, <3>3 DEF BornInv
  <2>7. CASE Reject(p) \/ Abort(p) \/ SaveRegistry(p)
    <3>1. /\ UNCHANGED <<metadata, homes, names, born>>
          /\ seenProject' = [seenProject EXCEPT ![p] = NothingSeen]
          /\ seenProfile' = [seenProfile EXCEPT ![p] = NothingSeen]
      BY <2>7 DEF Reject, Abort, SaveRegistry, Release, mirrorVars, profileVars, codexVars
    <3>2. \A s \in Sessions : ~Exists(NothingSeen[s])
      BY DEF NothingSeen, Exists, NoCopy
    <3> QED
      BY <1>1, <3>1, <3>2 DEF BornInv, TypeOK
  <2> QED
    BY <2>1, <2>2, <2>3, <2>4, <2>5, <2>6, <2>7
<1> QED
  BY <1>2, <1>3
(***************************************************************************)
(* The decisions of the abstract module are those of the code.             *)
(***************************************************************************)
LEMMA SameCompare ==
    /\ \A copy : Replica!Exists(copy) <=> Exists(copy)
    /\ \A base : Replica!Owned(base) <=> Owned(base)
    /\ \A project, profile, base :
         Replica!CompareSessions(project, profile, base) = CompareSessions(project, profile, base)
<1>1. \A a, b : Replica!IsPrefix(a, b) <=> IsPrefix(a, b)
  BY DEF Replica!IsPrefix, IsPrefix
<1>2. \A a, b : Replica!CompareCanonical(a, b) = CompareCanonical(a, b)
  BY <1>1 DEF Replica!CompareCanonical, CompareCanonical
<1>3. \A copy : Replica!Exists(copy) <=> Exists(copy)
  BY DEF Replica!Exists, Exists
<1>4. \A base : Replica!Owned(base) <=> Owned(base)
  BY <1>3 DEF Replica!Owned, Owned
<1>5. \A project, profile, base :
        Replica!CompareSessions(project, profile, base) = CompareSessions(project, profile, base)
  BY <1>2, <1>4
     DEF Replica!CompareSessions, CompareSessions, Replica!MetadataWinner, MetadataWinner
<1> QED
  BY <1>3, <1>4, <1>5

LEMMA SameValues ==
    /\ Replica!NoCopy = NoCopy /\ Replica!NoRegistration = NoRegistration
    /\ \A copy : Replica!RegistrationFor(copy) = RegistrationFor(copy)
BY DEF Replica!NoCopy, NoCopy, Replica!NoRegistration, NoRegistration,
       Replica!RegistrationFor, RegistrationFor

LEMMA SameDecide ==
    \A project, profile, tombstone, base, eligible :
        Replica!Decide(project, profile, tombstone, base, eligible)
          = Decide(project, profile, tombstone, base, eligible)
<1>1. \A action, registration : Replica!Do(action, registration) = Do(action, registration)
  BY DEF Replica!Do, Do
<1>2. \A lines : Replica!TombstoneRegistration(lines) = TombstoneRegistration(lines)
  BY SameValues DEF Replica!TombstoneRegistration, TombstoneRegistration
<1> QED
  BY <1>1, <1>2, SameCompare, SameValues
     DEF Replica!Decide, Decide, Replica!DecideBoth, DecideBoth,
         Replica!DecideTombstoned, DecideTombstoned, Replica!DecideProjectOnly, DecideProjectOnly,
         Replica!DecideProfileOnly, DecideProfileOnly, Replica!DecideNeither, DecideNeither

(***************************************************************************)
(* The refinement mapping, by name.                                        *)
(***************************************************************************)
AbstractMirror ==
    [s \in Sessions |-> IF lock = Free THEN metadata[s] ELSE seenProject[lock][s]]

AbstractTombstones ==
    [s \in Sessions |-> IF lock # Free /\ Exists(seenProject[lock][s])
                        THEN <<>> ELSE tombstones[s]]

AbstractProfile ==
    [p \in Profiles |-> IF Applying(p) THEN seenProfile[p]
                                       ELSE [s \in Sessions |-> ProfileCopy(p, s)]]

LEMMA ReplicaVars ==
    Replica!vars = <<AbstractMirror, AbstractTombstones, AbstractProfile, registry, backups,
                     born, deleted>>
BY DEF Replica!vars, AbstractMirror, AbstractTombstones, AbstractProfile

LEMMA InitReplica == Init => Replica!Init
<1> SUFFICES ASSUME Init PROVE Replica!Init
  OBVIOUS
<1>1. \A p \in Profiles, s \in Sessions : homes[p][s] = NoFiles /\ ~Applying(p)
  BY DEF Init, Applying
<1>2. \A p \in Profiles, s \in Sessions : ProfileCopy(p, s) = NoCopy
  <2>1. \A place \in Place : NoFiles[place] = <<>>
    BY DEF NoFiles
  <2> QED
    BY <1>1, <2>1 DEF ProfileCopy
<1>3. AbstractMirror = [s \in Sessions |-> NoCopy]
  BY DEF Init, AbstractMirror
<1>4. AbstractTombstones = [s \in Sessions |-> <<>>]
  BY DEF Init, AbstractTombstones
<1>5. AbstractProfile = [p \in Profiles |-> [s \in Sessions |-> NoCopy]]
  <2>1. ASSUME NEW p \in Profiles
        PROVE  (IF Applying(p) THEN seenProfile[p] ELSE [s \in Sessions |-> ProfileCopy(p, s)])
                 = [s \in Sessions |-> NoCopy]
    <3>1. [s \in Sessions |-> ProfileCopy(p, s)] = [s \in Sessions |-> NoCopy]
      BY <1>2
    <3>2. ~Applying(p)
      BY DEF Init, Applying
    <3> QED
      BY <3>1, <3>2
  <2> QED
    BY <2>1 DEF AbstractProfile
<1>6. registry = [p \in Profiles |-> [s \in Sessions |-> NoRegistration]]
  BY DEF Init, NothingRegistered
<1>7. Replica!Init <=> /\ AbstractMirror = [s \in Sessions |-> Replica!NoCopy]
                       /\ AbstractTombstones = [s \in Sessions |-> <<>>]
                       /\ AbstractProfile = [p \in Profiles |-> [s \in Sessions |-> Replica!NoCopy]]
                       /\ registry = [p \in Profiles |-> [s \in Sessions |-> Replica!NoRegistration]]
                       /\ backups = {} /\ born = {} /\ deleted = {}
  BY DEF Replica!Init, AbstractMirror, AbstractTombstones, AbstractProfile
<1>8. backups = {} /\ born = {} /\ deleted = {}
  BY DEF Init
<1> QED
  BY <1>3, <1>4, <1>5, <1>6, <1>7, <1>8, SameValues

(***************************************************************************)
(* The abstract state session by session, before and after a step.         *)
(***************************************************************************)
ShownMirror(s) == IF lock = Free THEN metadata[s] ELSE seenProject[lock][s]
ShownTombstone(s) == IF lock # Free /\ Exists(seenProject[lock][s]) THEN <<>> ELSE tombstones[s]
ShownCopy(p, s) == IF Applying(p) THEN seenProfile[p][s] ELSE ProfileCopy(p, s)

LEMMA AbstractState ==
    ASSUME TypeOK, TypeOK'
    PROVE  /\ AbstractMirror = [s \in Sessions |-> ShownMirror(s)]
           /\ AbstractTombstones = [s \in Sessions |-> ShownTombstone(s)]
           /\ AbstractProfile = [p \in Profiles |-> [s \in Sessions |-> ShownCopy(p, s)]]
           /\ AbstractMirror' = [s \in Sessions |-> ShownMirror(s)']
           /\ AbstractTombstones' = [s \in Sessions |-> ShownTombstone(s)']
           /\ AbstractProfile' = [p \in Profiles |-> [s \in Sessions |-> ShownCopy(p, s)']]
<1>1. /\ AbstractMirror = [s \in Sessions |-> ShownMirror(s)]
      /\ AbstractMirror' = [s \in Sessions |-> ShownMirror(s)']
  BY DEF AbstractMirror, ShownMirror
<1>2. /\ AbstractTombstones = [s \in Sessions |-> ShownTombstone(s)]
      /\ AbstractTombstones' = [s \in Sessions |-> ShownTombstone(s)']
  BY DEF AbstractTombstones, ShownTombstone
<1>3. AbstractProfile = [p \in Profiles |-> [s \in Sessions |-> ShownCopy(p, s)]]
  <2>1. ASSUME NEW p \in Profiles
        PROVE  (IF Applying(p) THEN seenProfile[p] ELSE [s \in Sessions |-> ProfileCopy(p, s)])
                 = [s \in Sessions |-> ShownCopy(p, s)]
    <3>1. seenProfile[p] = [s \in Sessions |-> seenProfile[p][s]]
      BY DEF TypeOK
    <3>2. CASE Applying(p)
      BY <3>1, <3>2 DEF ShownCopy
    <3>3. CASE ~Applying(p)
      BY <3>3 DEF ShownCopy
    <3> QED
      BY <3>2, <3>3
  <2> QED
    BY <2>1 DEF AbstractProfile
<1>4. AbstractProfile' = [p \in Profiles |-> [s \in Sessions |-> ShownCopy(p, s)']]
  <2>1. ASSUME NEW p \in Profiles
        PROVE  (IF Applying(p)' THEN seenProfile'[p] ELSE [s \in Sessions |-> ProfileCopy(p, s)'])
                 = [s \in Sessions |-> ShownCopy(p, s)']
    <3>1. seenProfile'[p] = [s \in Sessions |-> seenProfile'[p][s]]
      BY DEF TypeOK
    <3>2. CASE Applying(p)'
      BY <3>1, <3>2 DEF ShownCopy
    <3>3. CASE ~Applying(p)'
      BY <3>3 DEF ShownCopy
    <3> QED
      BY <3>2, <3>3
  <2> QED
    BY <2>1 DEF AbstractProfile
<1> QED
  BY <1>1, <1>2, <1>3, <1>4

LEMMA ReplicaStutter ==
    ASSUME TypeOK, TypeOK',
           \A s \in Sessions : ShownMirror(s)' = ShownMirror(s) /\ ShownTombstone(s)' = ShownTombstone(s),
           \A p \in Profiles, s \in Sessions : ShownCopy(p, s)' = ShownCopy(p, s),
           UNCHANGED <<registry, backups, born, deleted>>
    PROVE  UNCHANGED Replica!vars
<1>1. /\ AbstractMirror' = AbstractMirror
      /\ AbstractTombstones' = AbstractTombstones
  BY AbstractState
<1>2. AbstractProfile' = AbstractProfile
  <2>1. \A p \in Profiles :
          [s \in Sessions |-> ShownCopy(p, s)'] = [s \in Sessions |-> ShownCopy(p, s)]
    OBVIOUS
  <2> QED
    BY <2>1, AbstractState
<1> QED
  BY <1>1, <1>2 DEF Replica!vars, AbstractMirror, AbstractTombstones, AbstractProfile

LEMMA SameShown ==
    ASSUME NEW p \in Profiles, NEW s \in Sessions, Applying(p)' <=> Applying(p),
           seenProfile'[p][s] = seenProfile[p][s] \/ ~Applying(p),
           Applying(p) \/ (homes'[p][s] = homes[p][s] /\ names'[p][s] = names[p][s])
    PROVE  ShownCopy(p, s)' = ShownCopy(p, s)
BY DEF ShownCopy, ProfileCopy

(***************************************************************************)
(* The steps of Codex.                                                     *)
(***************************************************************************)
LEMMA SetCopyStep ==
    ASSUME TypeOK, TypeOK', NEW p \in Profiles, NEW s \in Sessions, NEW copy,
           UNCHANGED <<lock, metadata, seenProject, tombstones, registry, backups>>,
           \A q \in Profiles, t \in Sessions :
             ShownCopy(q, t)' = IF q = p /\ t = s THEN copy ELSE ShownCopy(q, t)
    PROVE  /\ Replica!SetCopy(p, s, copy)
           /\ AbstractProfile' = [AbstractProfile EXCEPT ![p][s] = copy]
           /\ UNCHANGED <<AbstractMirror, AbstractTombstones, registry, backups>>
<1>1. \A t \in Sessions : /\ ShownMirror(t)' = ShownMirror(t)
                          /\ ShownTombstone(t)' = ShownTombstone(t)
  BY DEF ShownMirror, ShownTombstone
<1>2. AbstractMirror' = AbstractMirror /\ AbstractTombstones' = AbstractTombstones
  BY <1>1, AbstractState
<1>3. AbstractProfile' = [AbstractProfile EXCEPT ![p][s] = copy]
  <2>1. AbstractProfile = [q \in Profiles |-> [t \in Sessions |-> ShownCopy(q, t)]]
    BY AbstractState
  <2>2. AbstractProfile' = [q \in Profiles |-> [t \in Sessions |->
                              IF q = p /\ t = s THEN copy ELSE ShownCopy(q, t)]]
    BY AbstractState
  <2> QED
    BY <2>1, <2>2
<1> QED
  BY <1>2, <1>3 DEF Replica!SetCopy, AbstractMirror, AbstractTombstones, AbstractProfile

LEMMA CodexShows ==
    ASSUME CodexConcurrent = FALSE, ReplicaInv, TypeOK', NEW p \in Profiles, Codex(p)
    PROVE  /\ ~Applying(p) /\ pc' = pc
           /\ UNCHANGED <<lock, job, work, metadata, rollouts, seenProject, seenProfile, tombstones,
                          registry, backups>>
           /\ \E s \in Sessions, copy \in Copy :
                /\ CodexTurns(p, s, copy)
                /\ \A q \in Profiles, t \in Sessions :
                     ShownCopy(q, t)' = IF q = p /\ t = s THEN copy ELSE ShownCopy(q, t)
<1>1. TypeOK /\ HomesInv /\ BornInv
  BY DEF ReplicaInv, MirrorInv
<1>2. /\ ~Applying(p) /\ pc' = pc
      /\ UNCHANGED <<lock, job, work, metadata, rollouts, seenProject, seenProfile, tombstones,
                     registry, backups>>
  BY <1>1, CodexLocal, CodexKeeps DEF Applying, syncVars, mirrorVars
<1>3. PICK s \in Sessions, copy \in Copy : CodexTurns(p, s, copy)
  BY <1>1, <1>2, CodexCopy
<1>4. ShownCopy(p, s)' = copy
  <2>1. homes'[p][s] \in [Place -> Seq(Line)]
    BY DEF TypeOK
  <2>2. CopyOf(homes'[p][s], names'[p][s]) = copy
    BY <1>3, <2>1, CopyOfFiles DEF CodexTurns, Holds
  <2>3. ~Applying(p)'
    BY <1>2 DEF Applying
  <2> QED
    BY <2>2, <2>3 DEF ShownCopy, ProfileCopy, CopyOf
<1>5. \A q \in Profiles, t \in Sessions :
        ShownCopy(q, t)' = IF q = p /\ t = s THEN copy ELSE ShownCopy(q, t)
  <2>1. \A q \in Profiles : Applying(q)' <=> Applying(q)
    BY <1>2 DEF Applying
  <2>2. \A q \in Profiles, t \in Sessions :
          q # p \/ t # s => ShownCopy(q, t)' = ShownCopy(q, t)
    BY <1>2, <1>3, <2>1, SameShown DEF CodexTurns
  <2> QED
    BY <1>4, <2>2
<1> QED
  BY <1>2, <1>3, <1>5

LEMMA CodexReplica ==
    ASSUME CodexConcurrent = FALSE, ReplicaInv, TypeOK', NEW p \in Profiles, Codex(p)
    PROVE  \E s \in Sessions : \/ Replica!CodexCreate(p, s)
                               \/ Replica!CodexChange(p, s)
                               \/ Replica!CodexDelete(p, s)
<1>1. TypeOK
  BY DEF ReplicaInv, MirrorInv
<1>2. /\ ~Applying(p)
      /\ UNCHANGED <<lock, metadata, seenProject, tombstones, registry, backups>>
  BY CodexShows
<1>3. PICK s \in Sessions, copy \in Copy :
             /\ CodexTurns(p, s, copy)
             /\ \A q \in Profiles, t \in Sessions :
                  ShownCopy(q, t)' = IF q = p /\ t = s THEN copy ELSE ShownCopy(q, t)
  BY CodexShows
<1>6. /\ Replica!SetCopy(p, s, copy)
      /\ AbstractProfile' = [AbstractProfile EXCEPT ![p][s] = copy]
      /\ UNCHANGED <<AbstractMirror, AbstractTombstones, registry, backups>>
  BY <1>1, <1>2, <1>3, SetCopyStep
<1>7. AbstractProfile[p][s] = ProfileCopy(p, s)
  BY <1>2 DEF AbstractProfile
<1>8. CodexMakes(p, s, copy)
  BY <1>3 DEF CodexTurns
<1>9. CASE /\ s \notin born
           /\ \E line \in Line : copy = [NoCopy EXCEPT !.lines = <<line>>]
           /\ born' = born \cup {s} /\ deleted' = deleted
  BY <1>6, <1>9, SameValues DEF Replica!CodexCreate
<1>10. CASE /\ Exists(ProfileCopy(p, s))
            /\ \/ \E line \in Line : copy = [ProfileCopy(p, s) EXCEPT !.lines = Append(@, line)]
               \/ \E place \in Place : copy = [ProfileCopy(p, s) EXCEPT !.place = place]
               \/ \E name \in Name : copy = [ProfileCopy(p, s) EXCEPT !.name = name]
            /\ UNCHANGED <<born, deleted>>
  <2>1. /\ Exists(AbstractProfile[p][s])
        /\ \/ \E line \in Line : copy = [AbstractProfile[p][s] EXCEPT !.lines = Append(@, line)]
           \/ \E place \in Place : copy = [AbstractProfile[p][s] EXCEPT !.place = place]
           \/ \E name \in Name : copy = [AbstractProfile[p][s] EXCEPT !.name = name]
    BY <1>7, <1>10
  <2>2. Replica!Exists(AbstractProfile[p][s]) /\ Replica!Place = Place
    BY <2>1, SameCompare DEF Replica!Place, Place
  <2>3. \/ \E line \in Line : AbstractProfile' =
             [AbstractProfile EXCEPT ![p][s] = [AbstractProfile[p][s] EXCEPT !.lines = Append(@, line)]]
        \/ \E place \in Place : AbstractProfile' =
             [AbstractProfile EXCEPT ![p][s] = [AbstractProfile[p][s] EXCEPT !.place = place]]
        \/ \E name \in Name : AbstractProfile' =
             [AbstractProfile EXCEPT ![p][s] = [AbstractProfile[p][s] EXCEPT !.name = name]]
    BY <1>6, <2>1, Zenon
  <2> QED
    BY <1>6, <1>10, <2>2, <2>3, Zenon
       DEF Replica!CodexChange, Replica!SetCopy, AbstractProfile, AbstractMirror, AbstractTombstones
<1>11. CASE /\ Exists(ProfileCopy(p, s)) /\ copy = NoCopy
            /\ deleted' = deleted \cup {s} /\ born' = born
  <2>1. Replica!Exists(AbstractProfile[p][s])
    BY <1>7, <1>11, SameCompare
  <2> QED
    BY <1>6, <1>11, <2>1, SameValues DEF Replica!CodexDelete, AbstractProfile
<1> QED
  BY <1>8, <1>9, <1>10, <1>11 DEF CodexMakes

(***************************************************************************)
(* Taking the lock, scanning, planning and giving up change nothing the    *)
(* abstract state shows; nor does a file operation.                        *)
(***************************************************************************)
LEMMA BeginStutters ==
    ASSUME ReplicaInv, TypeOK', NEW p \in Profiles, NEW j, Begin(p, j)
    PROVE  UNCHANGED Replica!vars
<1>1. TypeOK /\ LockInv
  BY DEF ReplicaInv, MirrorInv
<1>2. /\ lock = Free /\ MirrorReadable /\ pc[p] = "idle" /\ lock' = p
      /\ pc' = [pc EXCEPT ![p] = "scanLive"]
      /\ seenProject' = [seenProject EXCEPT ![p] = metadata]
      /\ \E all : seenProfile' = [seenProfile EXCEPT ![p] = all]
      /\ UNCHANGED <<metadata, tombstones, homes, names, registry, backups, born, deleted>>
  BY DEF Begin, Enter, mirrorVars, profileVars, codexVars
<1>3. p # Free /\ seenProject'[p] = metadata
  BY <1>1, <1>2, FreeAssumption DEF TypeOK
<1>4. \A s \in Sessions : ShownMirror(s)' = ShownMirror(s) /\ ShownTombstone(s)' = ShownTombstone(s)
  BY <1>2, <1>3 DEF ShownMirror, ShownTombstone, MirrorReadable, Readable
<1>5. \A q \in Profiles : ~Applying(q) /\ ~Applying(q)'
  BY <1>1, <1>2, FreeAssumption DEF LockInv, Applying, TypeOK
<1>6. \A q \in Profiles, s \in Sessions : ShownCopy(q, s)' = ShownCopy(q, s)
  BY <1>2, <1>5, SameShown
<1> QED
  BY <1>1, <1>2, <1>4, <1>6, ReplicaStutter

LEMMA ScanStutters ==
    ASSUME ReplicaInv, TypeOK', NEW p \in Profiles, ScanLive(p)
    PROVE  UNCHANGED Replica!vars
<1>1. TypeOK
  BY DEF ReplicaInv, MirrorInv
<1>2. /\ pc[p] = "scanLive" /\ pc' = [pc EXCEPT ![p] = "scanArchived"]
      /\ \E all : seenProfile' = [seenProfile EXCEPT ![p] = all]
      /\ UNCHANGED <<lock, seenProject, metadata, tombstones, homes, names, registry, backups,
                     born, deleted>>
  BY DEF ScanLive, mirrorVars, profileVars, codexVars
<1>3. \A s \in Sessions : ShownMirror(s)' = ShownMirror(s) /\ ShownTombstone(s)' = ShownTombstone(s)
  BY <1>2 DEF ShownMirror, ShownTombstone
<1>4. \A q \in Profiles : (Applying(q)' <=> Applying(q)) /\ (q = p => ~Applying(q))
  BY <1>1, <1>2 DEF TypeOK, Applying
<1>5. \A q \in Profiles, s \in Sessions : ShownCopy(q, s)' = ShownCopy(q, s)
  BY <1>1, <1>2, <1>4, SameShown DEF TypeOK
<1> QED
  BY <1>1, <1>2, <1>3, <1>5, ReplicaStutter

LEMMA PlanStutters ==
    ASSUME ReplicaInv, TypeOK', NEW p \in Profiles,
           PlanSync(p) \/ \E s \in Sessions : PlanResolve(p, s)
    PROVE  UNCHANGED Replica!vars
<1>1. TypeOK
  BY DEF ReplicaInv, MirrorInv
<1>2. /\ pc[p] = "scanArchived" /\ ~DuplicateFound(p)
      /\ \E stage \in {"backup", "apply"} : pc' = [pc EXCEPT ![p] = stage]
      /\ seenProfile' = [seenProfile EXCEPT ![p] = ProfileScan(p)]
      /\ UNCHANGED <<lock, seenProject, metadata, tombstones, homes, names, registry, backups,
                     born, deleted>>
  BY DEF PlanSync, PlanResolve, mirrorVars, profileVars, codexVars
<1>3. \A s \in Sessions : ShownMirror(s)' = ShownMirror(s) /\ ShownTombstone(s)' = ShownTombstone(s)
  BY <1>2 DEF ShownMirror, ShownTombstone
<1>4. ASSUME NEW s \in Sessions PROVE ShownCopy(p, s)' = ShownCopy(p, s)
  <2>1. ScanSeen(p)
    BY DEF ReplicaInv, PlanInv, PlanOf
  <2>2. ProfileScan(p)[s] \in Copy
    BY <1>1, ProfileScanType
  <2>3. ProfileCopy(p, s) = ProfileScan(p)[s]
    BY <1>1, <1>2, <2>1, <2>2, ScanIsTrue, HeldCopy
  <2>4. ~Applying(p) /\ Applying(p)' /\ seenProfile'[p][s] = ProfileScan(p)[s]
    BY <1>1, <1>2 DEF TypeOK, Applying
  <2> QED
    BY <2>3, <2>4 DEF ShownCopy
<1>5. \A q \in Profiles : q # p => (Applying(q)' <=> Applying(q)) /\ seenProfile'[q] = seenProfile[q]
  BY <1>1, <1>2 DEF TypeOK, Applying
<1>6. \A q \in Profiles, s \in Sessions : ShownCopy(q, s)' = ShownCopy(q, s)
  BY <1>2, <1>4, <1>5, SameShown
<1> QED
  BY <1>1, <1>2, <1>3, <1>6, ReplicaStutter

LEMMA RejectStutters ==
    ASSUME ReplicaInv, TypeOK', NEW p \in Profiles, Reject(p)
    PROVE  UNCHANGED Replica!vars
<1>1. TypeOK /\ LockInv /\ ScanInv
  BY DEF ReplicaInv, MirrorInv
<1>2. /\ pc[p] = "scanArchived" /\ lock' = Free
      /\ pc' = [pc EXCEPT ![p] = "idle"]
      /\ seenProfile' = [seenProfile EXCEPT ![p] = NothingSeen]
      /\ UNCHANGED <<metadata, tombstones, homes, names, registry, backups, born, deleted>>
  BY DEF Reject, Release, mirrorVars, profileVars, codexVars
<1>3. lock = p /\ p # Free /\ seenProject[p] = metadata /\ MirrorReadable
  BY <1>1, <1>2, FreeAssumption DEF LockInv, ScanInv, Scanning
<1>4. \A s \in Sessions : ShownMirror(s)' = ShownMirror(s) /\ ShownTombstone(s)' = ShownTombstone(s)
  BY <1>2, <1>3 DEF ShownMirror, ShownTombstone, MirrorReadable, Readable
<1>5. \A q \in Profiles : /\ Applying(q)' <=> Applying(q)
                          /\ seenProfile'[q] = seenProfile[q] \/ ~Applying(q)
  BY <1>1, <1>2 DEF TypeOK, Applying
<1>6. \A q \in Profiles, s \in Sessions : ShownCopy(q, s)' = ShownCopy(q, s)
  BY <1>2, <1>5, SameShown
<1> QED
  BY <1>1, <1>2, <1>4, <1>6, ReplicaStutter

LEMMA ApplyShows ==
    ASSUME ReplicaInv, NEW p \in Profiles, NEW s \in Sessions, Apply(p, s)
    PROVE  /\ \A t \in Sessions : /\ ShownMirror(t)' = ShownMirror(t)
                                  /\ ShownTombstone(t)' = ShownTombstone(t)
           /\ \A q \in Profiles, t \in Sessions : ShownCopy(q, t)' = ShownCopy(q, t)
<1>1. TypeOK /\ LockInv
  BY DEF ReplicaInv, MirrorInv
<1>2. /\ Applying(p) /\ Current(p, s)
      /\ Applying(p)' /\ \A q \in Profiles : q # p => pc'[q] = pc[q]
      /\ \A q \in Profiles, t \in Sessions :
           q # p \/ t # s => homes'[q][t] = homes[q][t] /\ names'[q][t] = names[q][t]
      /\ \A t \in Sessions : t # s => metadata'[t] = metadata[t] /\ tombstones'[t] = tombstones[t]
      /\ UNCHANGED <<lock, seenProject, seenProfile>>
  BY <1>1, ApplyLocal
<1>3. lock = p /\ p # Free
  BY <1>1, <1>2, FreeAssumption DEF LockInv, Applying
<1>4. tombstones'[s] = tombstones[s] \/ Exists(seenProject[p][s])
  <2>1. CASE TombstoneWrite(p, s)
    BY <1>2, <2>1 DEF TombstoneWrite, At, ReplicaInv, MirrorInv, ApplyInv, Pending
  <2>2. CASE ~TombstoneWrite(p, s)
    BY <2>2 DEF Apply, BackupLoser, ExportRemovePrevious, ExportWriteRollout, ExportWriteMetadata,
         ImportRemovePrevious, ImportWriteRollout, ImportAppendName, TombstoneRemoveRollout,
         TombstoneRemoveMetadata, DeleteProfileRollout, mirrorVars
  <2> QED
    BY <2>1, <2>2
<1>5. \A t \in Sessions : ShownMirror(t)' = ShownMirror(t) /\ ShownTombstone(t)' = ShownTombstone(t)
  BY <1>2, <1>3, <1>4 DEF ShownMirror, ShownTombstone
<1>6. \A q \in Profiles : Applying(q)' <=> Applying(q)
  BY <1>2 DEF Applying
<1>7. \A q \in Profiles, t \in Sessions : ShownCopy(q, t)' = ShownCopy(q, t)
  BY <1>2, <1>6, SameShown
<1> QED
  BY <1>5, <1>7

LEMMA ApplyReplica ==
    ASSUME ReplicaInv, TypeOK', NEW p \in Profiles, NEW s \in Sessions, Apply(p, s)
    PROVE  UNCHANGED Replica!vars \/ Replica!Backup(p, s)
<1>1. TypeOK
  BY DEF ReplicaInv, MirrorInv
<1>2. /\ \A t \in Sessions : /\ ShownMirror(t)' = ShownMirror(t)
                             /\ ShownTombstone(t)' = ShownTombstone(t)
      /\ \A q \in Profiles, t \in Sessions : ShownCopy(q, t)' = ShownCopy(q, t)
  BY ApplyShows
<1>3. UNCHANGED <<registry, born, deleted>>
  BY <1>1, ApplyLocal
<1>4. CASE UNCHANGED backups
  BY <1>1, <1>2, <1>3, <1>4, ReplicaStutter
<1>5. CASE ~UNCHANGED backups
  <2>1. BackupLoser(p, s)
    BY <1>5 DEF Apply, ExportRemovePrevious, ExportWriteRollout, ExportWriteMetadata,
         ImportRemovePrevious, ImportWriteRollout, ImportAppendName, TombstoneRemoveRollout,
         TombstoneRemoveMetadata, TombstoneWrite, DeleteProfileRollout, Then, Done
  <2>2. /\ pc[p] = "backup" /\ Applying(p)
        /\ backups' = backups \cup {[session |-> s, lines |-> Loser(p, s).lines]}
    BY <2>1 DEF BackupLoser, Loser, Applying
  <2>3. lock = p /\ p # Free
    BY <2>2, FreeAssumption DEF ReplicaInv, MirrorInv, LockInv
  <2>4. AbstractMirror[s] = seenProject[p][s] /\ AbstractProfile[p][s] = seenProfile[p][s]
    BY <2>2, <2>3 DEF AbstractMirror, AbstractProfile
  <2>5. \E copy \in {AbstractMirror[s], AbstractProfile[p][s]} :
          backups' = backups \cup {[session |-> s, lines |-> copy.lines]}
    BY <2>2, <2>4 DEF Loser
  <2>6. AbstractMirror' = AbstractMirror /\ AbstractTombstones' = AbstractTombstones
    BY <1>1, <1>2, AbstractState
  <2>7. AbstractProfile' = AbstractProfile
    <3>1. \A q \in Profiles :
            [t \in Sessions |-> ShownCopy(q, t)'] = [t \in Sessions |-> ShownCopy(q, t)]
      BY <1>2
    <3> QED
      BY <1>1, <3>1, AbstractState
  <2> QED
    BY <1>3, <2>5, <2>6, <2>7
       DEF Replica!Backup, AbstractMirror, AbstractTombstones, AbstractProfile
<1> QED
  BY <1>4, <1>5

(***************************************************************************)
(* Saving the registry is the moment the whole plan takes effect.          *)
(***************************************************************************)
LEMMA SaveShows ==
    ASSUME ReplicaInv, TypeOK', NEW p \in Profiles, SaveRegistry(p)
    PROVE  /\ \A s \in Sessions :
                /\ ShownMirror(s) = seenProject[p][s]
                /\ ShownTombstone(s) = TombstoneSeen(p, s)
                /\ ShownCopy(p, s) = seenProfile[p][s]
                /\ ShownMirror(s)' = MirrorResult(p, s)
                /\ ShownTombstone(s)' = IF Planned(p, s).action = "tombstone"
                                        THEN seenProject[p][s].lines ELSE TombstoneSeen(p, s)
                /\ ShownCopy(p, s)' = ProfileResult(p, s)
           /\ \A q \in Profiles, s \in Sessions : q # p => ShownCopy(q, s)' = ShownCopy(q, s)
           /\ registry' = [registry EXCEPT ![p] = [s \in Sessions |-> Planned(p, s).registration]]
           /\ UNCHANGED <<backups, born, deleted>>
<1>1. TypeOK /\ LockInv /\ MirrorInv /\ PlanInv
  BY DEF ReplicaInv, MirrorInv
<1>2. /\ pc[p] = "apply" /\ lock' = Free
      /\ pc' = [pc EXCEPT ![p] = "idle"]
      /\ seenProfile' = [seenProfile EXCEPT ![p] = NothingSeen]
      /\ registry' = [registry EXCEPT ![p] = newRegistry[p]]
      /\ UNCHANGED <<metadata, tombstones, homes, names, backups, born, deleted>>
  BY DEF SaveRegistry, Release, mirrorVars, profileVars, codexVars
<1>3. lock = p /\ p # Free /\ Applying(p)
  BY <1>1, <1>2, FreeAssumption DEF LockInv, Applying
<1>4. ASSUME NEW s \in Sessions
      PROVE  /\ ShownMirror(s) = seenProject[p][s]
             /\ ShownTombstone(s) = TombstoneSeen(p, s)
             /\ ShownCopy(p, s) = seenProfile[p][s]
  BY <1>3 DEF ShownMirror, ShownTombstone, ShownCopy, TombstoneSeen
<1>5. ASSUME NEW s \in Sessions
      PROVE  /\ ShownMirror(s)' = MirrorResult(p, s)
             /\ ShownTombstone(s)' = IF Planned(p, s).action = "tombstone"
                                     THEN seenProject[p][s].lines ELSE TombstoneSeen(p, s)
             /\ ShownCopy(p, s)' = ProfileResult(p, s)
             /\ newRegistry[p][s] = Planned(p, s).registration
  <2>1. /\ Finished(p, s) /\ Progress(p, s)
        /\ ProfileCopy(p, s) = ProfileResult(p, s)
        /\ Planned(p, s).action # "tombstone" => tombstones[s] = TombstoneSeen(p, s)
    BY <1>1, SaveFacts
  <2>2. ~Applying(p)'
    BY <1>1, <1>2 DEF TypeOK, Applying
  <2>3. ProfileCopy(p, s)' = ProfileCopy(p, s)
    BY <1>2 DEF ProfileCopy
  <2>4. ShownMirror(s)' = metadata[s] /\ ShownTombstone(s)' = tombstones[s]
    BY <1>2 DEF ShownMirror, ShownTombstone
  <2>5. ShownCopy(p, s)' = ProfileCopy(p, s)
    BY <2>2, <2>3 DEF ShownCopy
  <2> QED
    BY <2>1, <2>4, <2>5 DEF Finished, Progress
<1>6. ASSUME NEW q \in Profiles, NEW s \in Sessions, q # p
      PROVE  ShownCopy(q, s)' = ShownCopy(q, s)
  <2>1. Applying(q)' <=> Applying(q)
    BY <1>1, <1>2, <1>6 DEF TypeOK, Applying
  <2> QED
    BY <1>1, <1>2, <1>6, <2>1, SameShown DEF TypeOK
<1>7. newRegistry[p] = [s \in Sessions |-> Planned(p, s).registration]
  BY <1>1, <1>5 DEF TypeOK
<1> QED
  BY <1>2, <1>4, <1>5, <1>6, <1>7

LEMMA SyncReplica ==
    ASSUME ReplicaInv, TypeOK', NEW p \in Profiles, SaveRegistry(p), job[p].kind = "sync"
    PROVE  \E eligible \in SUBSET Sessions : Replica!Sync(p, eligible)
<1>0. PICK eligible \in SUBSET Sessions : eligible = job[p].scope
  BY DEF ReplicaInv, MirrorInv, TypeOK, Job
<1> DEFINE decision ==
             [s \in Sessions |->
               Replica!Decide(AbstractMirror[s], AbstractProfile[p][s], AbstractTombstones[s],
                              registry[p][s], s \in eligible)]
           Doing(action) == {s \in Sessions : decision[s].action = action}
<1>1. TypeOK /\ MirrorInv /\ PlanInv
  BY DEF ReplicaInv, MirrorInv
<1>2. /\ \A s \in Sessions :
           /\ ShownMirror(s) = seenProject[p][s]
           /\ ShownTombstone(s) = TombstoneSeen(p, s)
           /\ ShownCopy(p, s) = seenProfile[p][s]
           /\ ShownMirror(s)' = MirrorResult(p, s)
           /\ ShownTombstone(s)' = IF Planned(p, s).action = "tombstone"
                                   THEN seenProject[p][s].lines ELSE TombstoneSeen(p, s)
           /\ ShownCopy(p, s)' = ProfileResult(p, s)
      /\ \A q \in Profiles, s \in Sessions : q # p => ShownCopy(q, s)' = ShownCopy(q, s)
      /\ registry' = [registry EXCEPT ![p] = [s \in Sessions |-> Planned(p, s).registration]]
      /\ UNCHANGED <<backups, born, deleted>>
  BY SaveShows
<1>3. ASSUME NEW s \in Sessions
      PROVE  /\ AbstractMirror[s] = seenProject[p][s]
             /\ AbstractTombstones[s] = TombstoneSeen(p, s)
             /\ AbstractProfile[p][s] = seenProfile[p][s]
  BY <1>1, <1>2, AbstractState
<1>4. ASSUME NEW s \in Sessions
      PROVE  decision[s] = Planned(p, s) /\ Planned(p, s).action \in FileAction
  <2>1. decision[s] = Decide(seenProject[p][s], seenProfile[p][s], TombstoneSeen(p, s),
                             registry[p][s], s \in job[p].scope)
    BY <1>0, <1>3, SameDecide
  <2>2. Progress(p, s)
    BY <1>1, SaveFacts
  <2> QED
    BY <2>1, <2>2 DEF Planned, Progress
<1>5. Doing("error") = {} /\ Doing("conflict") = {}
  <2> HIDE DEF decision
  <2> QED
    BY <1>4 DEF FileAction
<1>6. ASSUME NEW s \in Sessions
      PROVE  /\ MirrorResult(p, s) = IF s \in Doing("export") THEN AbstractProfile[p][s]
                                     ELSE IF s \in Doing("tombstone") THEN Replica!NoCopy
                                     ELSE AbstractMirror[s]
             /\ ProfileResult(p, s) = IF s \in Doing("import") THEN AbstractMirror[s]
                                      ELSE IF s \in Doing("delete") THEN Replica!NoCopy
                                      ELSE AbstractProfile[p][s]
             /\ Planned(p, s).action = "tombstone" <=> s \in Doing("tombstone")
             /\ Planned(p, s).registration = decision[s].registration
  <2> HIDE DEF decision
  <2> QED
    BY <1>3, <1>4, SameValues DEF MirrorResult, ProfileResult, MirrorAfter, ProfileAfter
<1> HIDE DEF decision, Doing
<1>7. AbstractMirror' = [s \in Sessions |-> IF s \in Doing("export") THEN AbstractProfile[p][s]
                                            ELSE IF s \in Doing("tombstone") THEN Replica!NoCopy
                                            ELSE AbstractMirror[s]]
  <2>1. AbstractMirror' = [s \in Sessions |-> ShownMirror(s)']
    BY <1>1, AbstractState
  <2> QED
    BY <1>2, <1>6, <2>1
<1>8. AbstractTombstones' = [s \in Sessions |-> IF s \in Doing("tombstone") THEN AbstractMirror[s].lines
                                                ELSE AbstractTombstones[s]]
  <2>1. AbstractTombstones' = [s \in Sessions |-> ShownTombstone(s)']
    BY <1>1, AbstractState
  <2> QED
    BY <1>2, <1>3, <1>6, <2>1
<1>9. AbstractProfile' = [AbstractProfile EXCEPT ![p] =
                            [s \in Sessions |-> IF s \in Doing("import") THEN AbstractMirror[s]
                                                ELSE IF s \in Doing("delete") THEN Replica!NoCopy
                                                ELSE AbstractProfile[p][s]]]
  <2>1. /\ AbstractProfile' = [q \in Profiles |-> [s \in Sessions |-> ShownCopy(q, s)']]
        /\ AbstractProfile = [q \in Profiles |-> [s \in Sessions |-> ShownCopy(q, s)]]
    BY <1>1, AbstractState
  <2>2. AbstractProfile'[p] = [s \in Sessions |-> IF s \in Doing("import") THEN AbstractMirror[s]
                                                  ELSE IF s \in Doing("delete") THEN Replica!NoCopy
                                                  ELSE AbstractProfile[p][s]]
    BY <1>2, <1>6, <2>1
  <2>3. ASSUME NEW q \in Profiles, q # p PROVE AbstractProfile'[q] = AbstractProfile[q]
    BY <1>2, <2>1, <2>3
  <2> QED
    BY <2>1, <2>2, <2>3
<1>10. registry' = [registry EXCEPT ![p] = [s \in Sessions |-> decision[s].registration]]
  BY <1>2, <1>6
<1> QED
  BY <1>2, <1>5, <1>7, <1>8, <1>9, <1>10, Zenon
     DEF Replica!Sync, decision, Doing, AbstractMirror, AbstractTombstones, AbstractProfile

LEMMA ResolveReplica ==
    ASSUME ReplicaInv, TypeOK', NEW p \in Profiles, SaveRegistry(p),
           job[p].kind \in {"project", "profile"}
    PROVE  \E s \in Sessions, use \in {"project", "profile"} : Replica!Resolve(p, s, use)
<1>0. PICK use \in {"project", "profile"} : use = job[p].kind
  OBVIOUS
<1> DEFINE winner(s) == IF use = "project" THEN AbstractMirror[s] ELSE AbstractProfile[p][s]
           loser(s) == IF use = "project" THEN AbstractProfile[p][s] ELSE AbstractMirror[s]
<1>1. TypeOK /\ MirrorInv /\ PlanInv
  BY DEF ReplicaInv, MirrorInv
<1>2. /\ \A s \in Sessions :
           /\ ShownMirror(s) = seenProject[p][s]
           /\ ShownTombstone(s) = TombstoneSeen(p, s)
           /\ ShownCopy(p, s) = seenProfile[p][s]
           /\ ShownMirror(s)' = MirrorResult(p, s)
           /\ ShownTombstone(s)' = IF Planned(p, s).action = "tombstone"
                                   THEN seenProject[p][s].lines ELSE TombstoneSeen(p, s)
           /\ ShownCopy(p, s)' = ProfileResult(p, s)
      /\ \A q \in Profiles, s \in Sessions : q # p => ShownCopy(q, s)' = ShownCopy(q, s)
      /\ registry' = [registry EXCEPT ![p] = [s \in Sessions |-> Planned(p, s).registration]]
      /\ UNCHANGED <<backups, born, deleted>>
  BY SaveShows
<1>3. pc[p] = "apply"
  BY DEF SaveRegistry
<1>4. PICK s \in Sessions : job[p].scope = {s}
  BY <1>1, <1>3 DEF PlanInv, PlanOf, JobKnown
<1>5. /\ Exists(seenProject[p][s]) /\ Exists(seenProfile[p][s])
      /\ CompareSessions(seenProject[p][s], seenProfile[p][s], registry[p][s]) = "conflict"
      /\ [session |-> s, lines |-> Loser(p, s).lines] \in backups
  BY <1>1, <1>3, <1>4 DEF PlanInv, PlanOf, Resolving, Applying, ResolvePlan
<1>6. ASSUME NEW t \in Sessions
      PROVE  /\ AbstractMirror[t] = seenProject[p][t]
             /\ AbstractTombstones[t] = TombstoneSeen(p, t)
             /\ AbstractProfile[p][t] = seenProfile[p][t]
  BY <1>1, <1>2, AbstractState
<1>7. winner(s) = Winner(p, s) /\ loser(s) = Loser(p, s)
  BY <1>0, <1>6 DEF Winner, Loser
<1>8. ASSUME NEW t \in Sessions
      PROVE  /\ MirrorResult(p, t) = IF t = s THEN winner(s) ELSE AbstractMirror[t]
             /\ ProfileResult(p, t) = IF t = s THEN winner(s) ELSE AbstractProfile[p][t]
             /\ Planned(p, t).action # "tombstone"
             /\ Planned(p, t).registration
                  = IF t = s THEN RegistrationFor(winner(s)) ELSE registry[p][t]
  BY <1>0, <1>4, <1>6, <1>7 DEF Planned, Do, Winner, MirrorResult, ProfileResult, MirrorAfter, ProfileAfter
<1>9. /\ Replica!Exists(winner(s)) /\ Replica!Exists(loser(s))
      /\ Replica!CompareSessions(AbstractMirror[s], AbstractProfile[p][s], registry[p][s]) = "conflict"
      /\ [session |-> s, lines |-> loser(s).lines] \in backups
  BY <1>5, <1>6, <1>7, SameCompare
<1> HIDE DEF winner, loser
<1>10. /\ AbstractMirror' = [AbstractMirror EXCEPT ![s] = winner(s)]
       /\ AbstractTombstones' = AbstractTombstones
  <2>1. /\ AbstractMirror' = [t \in Sessions |-> ShownMirror(t)']
        /\ AbstractTombstones' = [t \in Sessions |-> ShownTombstone(t)']
        /\ AbstractMirror = [t \in Sessions |-> ShownMirror(t)]
        /\ AbstractTombstones = [t \in Sessions |-> ShownTombstone(t)]
    BY <1>1, AbstractState
  <2> QED
    BY <1>2, <1>8, <2>1
<1>11. AbstractProfile' = [AbstractProfile EXCEPT ![p][s] = winner(s)]
  <2>1. /\ AbstractProfile' = [q \in Profiles |-> [t \in Sessions |-> ShownCopy(q, t)']]
        /\ AbstractProfile = [q \in Profiles |-> [t \in Sessions |-> ShownCopy(q, t)]]
    BY <1>1, AbstractState
  <2>2. \A q \in Profiles, t \in Sessions :
          ShownCopy(q, t)' = IF q = p /\ t = s THEN winner(s) ELSE ShownCopy(q, t)
    BY <1>2, <1>8, <2>1
  <2> QED
    BY <2>1, <2>2
<1>12. registry' = [registry EXCEPT ![p][s] = Replica!RegistrationFor(winner(s))]
  <2> DEFINE new == RegistrationFor(winner(s))
  <2>1. registry' = [registry EXCEPT
                       ![p] = [t \in Sessions |-> IF t = s THEN new ELSE registry[p][t]]]
    BY <1>2, <1>8
  <2>2. [registry[p] EXCEPT ![s] = new]
          = [t \in Sessions |-> IF t = s THEN new ELSE registry[p][t]]
    BY <1>1 DEF TypeOK
  <2>3. registry' = [registry EXCEPT ![p] = [registry[p] EXCEPT ![s] = new]]
    BY <2>1, <2>2
  <2> QED
    BY <2>3, SameValues
<1> QED
  BY <1>2, <1>9, <1>10, <1>11, <1>12, Zenon
     DEF Replica!Resolve, winner, loser, AbstractMirror, AbstractTombstones, AbstractProfile

LEMMA StepReplica ==
    ASSUME CodexConcurrent = FALSE, MaxCrashes = 0, ReplicaInv, TypeOK', [Next]_vars
    PROVE  [Replica!Next]_Replica!vars
<1>1. TypeOK /\ PlanInv
  BY DEF ReplicaInv, MirrorInv
<1>2. CASE UNCHANGED vars
  <2>1. UNCHANGED <<lock, metadata, seenProject, seenProfile, tombstones, homes, names, registry,
                    backups, born, deleted, pc>>
    BY <1>2 DEF vars, mirrorVars, profileVars, syncVars, codexVars
  <2>2. \A s \in Sessions : /\ ShownMirror(s)' = ShownMirror(s)
                            /\ ShownTombstone(s)' = ShownTombstone(s)
    BY <2>1 DEF ShownMirror, ShownTombstone
  <2>3. \A p \in Profiles, s \in Sessions : ShownCopy(p, s)' = ShownCopy(p, s)
    BY <2>1, SameShown DEF Applying
  <2> QED
    BY <1>1, <2>1, <2>2, <2>3, ReplicaStutter
<1>3. CASE Next
  <2>1. PICK p \in Profiles :
             \/ Codex(p)
             \/ \E j \in Job : Begin(p, j) /\ JobShape(j)
             \/ ScanLive(p)
             \/ PlanSync(p)
             \/ \E s \in Sessions : PlanResolve(p, s)
             \/ \E s \in Sessions : Apply(p, s)
             \/ Reject(p) \/ Abort(p) \/ SaveRegistry(p)
    BY <1>3, JobKinds
  <2>2. CASE Codex(p)
    BY <2>2, CodexReplica DEF Replica!Next
  <2>3. CASE \E j \in Job : Begin(p, j) /\ JobShape(j)
    BY <2>3, BeginStutters
  <2>4. CASE ScanLive(p)
    BY <2>4, ScanStutters
  <2>5. CASE PlanSync(p) \/ \E s \in Sessions : PlanResolve(p, s)
    BY <2>5, PlanStutters
  <2>6. CASE \E s \in Sessions : Apply(p, s)
    <3>1. UNCHANGED Replica!vars \/ \E s \in Sessions : Replica!Backup(p, s)
      BY <2>6, ApplyReplica
    <3> QED
      BY <3>1 DEF Replica!Next
  <2>7. CASE Reject(p)
    BY <2>7, RejectStutters
  <2>8. CASE SaveRegistry(p)
    <3>1. pc[p] # "idle" /\ JobKnown(p) /\ job[p].scope \in SUBSET Sessions
      BY <1>1, <2>8 DEF SaveRegistry, PlanInv, PlanOf, TypeOK, Job
    <3>2. CASE job[p].kind = "sync"
      BY <2>8, <3>1, <3>2, SyncReplica DEF Replica!Next
    <3>3. CASE job[p].kind \in {"project", "profile"}
      BY <2>8, <3>3, ResolveReplica DEF Replica!Next
    <3> QED
      BY <3>1, <3>2, <3>3 DEF JobKnown
  <2>9. ~Abort(p)
    BY <1>1 DEF Abort, TypeOK
  <2> QED
    BY <2>1, <2>2, <2>3, <2>4, <2>5, <2>6, <2>7, <2>8, <2>9
<1> QED
  BY <1>2, <1>3

LEMMA InitReplicaInv == Init => ReplicaInv
<1> SUFFICES ASSUME Init PROVE ReplicaInv
  OBVIOUS
<1>1. MirrorInv /\ PlanInv
  BY InitMirror, InitPlan
<1>2. HomesInv
  <2>1. \A p \in Profiles, s \in Sessions : Holds(p, s, NoCopy)
    BY DEF Init, Holds, FilesOf, Exists, NoCopy
  <2> QED
    BY <2>1, NoCopyType DEF HomesInv, Proper
<1>3. BornInv
  BY DEF Init, BornInv, NothingSeen, Exists, NoCopy
<1> QED
  BY <1>1, <1>2, <1>3 DEF ReplicaInv

LEMMA StepReplicaInv ==
    ASSUME CodexConcurrent = FALSE, MaxCrashes = 0, ReplicaInv, [Next]_vars
    PROVE  ReplicaInv' /\ [Replica!Next]_Replica!vars
<1>1. MirrorInv /\ PlanInv
  BY DEF ReplicaInv
<1>2. MirrorInv'
  BY <1>1, StepMirror
<1>3. PlanInv'
  BY <1>1, StepPlan
<1>4. TypeOK'
  BY <1>2 DEF MirrorInv
<1>5. HomesInv' /\ BornInv'
  BY <1>4, StepHomes, StepBorn
<1> QED
  BY <1>2, <1>3, <1>4, <1>5, StepReplica DEF ReplicaInv

(***************************************************************************)
(* As long as no process dies and Codex does not run during a              *)
(* synchronization, working file by file under the lock is                 *)
(* indistinguishable from one indivisible merge.                           *)
(***************************************************************************)
THEOREM SyncImplementsReplica ==
    ASSUME CodexConcurrent = FALSE, MaxCrashes = 0
    PROVE  Spec => ReplicaSpec
<1>1. Init => ReplicaInv /\ Replica!Init
  BY InitReplicaInv, InitReplica
<1>2. ReplicaInv /\ [Next]_vars => ReplicaInv' /\ [Replica!Next]_Replica!vars
  BY StepReplicaInv
<1> QED
  BY <1>1, <1>2, PTL DEF Spec, ReplicaSpec, Replica!Spec

-----------------------------------------------------------------------------
(***************************************************************************)
(* Invariants of the indivisible merge.  A step leaves what the abstract   *)
(* state shows alone, is a step of Codex, or makes a plan take effect.     *)
(***************************************************************************)
Stutters ==
    /\ \A s \in Sessions : /\ ShownMirror(s)' = ShownMirror(s)
                           /\ ShownTombstone(s)' = ShownTombstone(s)
    /\ \A p \in Profiles, s \in Sessions : ShownCopy(p, s)' = ShownCopy(p, s)
    /\ UNCHANGED <<registry, born, deleted>>

CodexActs ==
    \E p \in Profiles, s \in Sessions, copy \in Copy :
        /\ ~Applying(p) /\ CodexTurns(p, s, copy)
        /\ \A t \in Sessions : /\ ShownMirror(t)' = ShownMirror(t)
                               /\ ShownTombstone(t)' = ShownTombstone(t)
        /\ \A q \in Profiles, t \in Sessions :
             ShownCopy(q, t)' = IF q = p /\ t = s THEN copy ELSE ShownCopy(q, t)
        /\ UNCHANGED registry

LEMMA StepShows ==
    ASSUME CodexConcurrent = FALSE, MaxCrashes = 0, ReplicaInv, TypeOK', [Next]_vars
    PROVE  Stutters \/ CodexActs \/ \E p \in Profiles : SaveRegistry(p)
<1>1. TypeOK
  BY DEF ReplicaInv, MirrorInv
<1>2. ASSUME UNCHANGED Replica!vars PROVE Stutters
  <2>1. /\ AbstractMirror' = AbstractMirror /\ AbstractTombstones' = AbstractTombstones
        /\ AbstractProfile' = AbstractProfile /\ UNCHANGED <<registry, born, deleted>>
    BY <1>2 DEF Replica!vars, AbstractMirror, AbstractTombstones, AbstractProfile
  <2>2. ASSUME NEW s \in Sessions
        PROVE  ShownMirror(s)' = ShownMirror(s) /\ ShownTombstone(s)' = ShownTombstone(s)
    BY <2>1, Zenon DEF AbstractMirror, AbstractTombstones, ShownMirror, ShownTombstone
  <2>3. ASSUME NEW p \in Profiles, NEW s \in Sessions PROVE ShownCopy(p, s)' = ShownCopy(p, s)
    <3>1. /\ AbstractProfile[p][s] = ShownCopy(p, s)
          /\ AbstractProfile'[p][s] = ShownCopy(p, s)'
      BY <1>1, AbstractState
    <3> QED
      BY <2>1, <3>1
  <2> QED
    BY <2>1, <2>2, <2>3 DEF Stutters
<1>3. CASE UNCHANGED vars
  <2>1. UNCHANGED <<lock, metadata, seenProject, seenProfile, tombstones, homes, names, registry,
                    born, deleted, pc>>
    BY <1>3 DEF vars, mirrorVars, profileVars, syncVars, codexVars
  <2>2. \A s \in Sessions : /\ ShownMirror(s)' = ShownMirror(s)
                            /\ ShownTombstone(s)' = ShownTombstone(s)
    BY <2>1 DEF ShownMirror, ShownTombstone
  <2>3. \A p \in Profiles, s \in Sessions : ShownCopy(p, s)' = ShownCopy(p, s)
    BY <2>1, SameShown DEF Applying
  <2> QED
    BY <2>1, <2>2, <2>3 DEF Stutters
<1>4. CASE Next
  <2>1. PICK p \in Profiles :
             \/ Codex(p)
             \/ \E j \in Job : Begin(p, j) /\ JobShape(j)
             \/ ScanLive(p)
             \/ PlanSync(p)
             \/ \E s \in Sessions : PlanResolve(p, s)
             \/ \E s \in Sessions : Apply(p, s)
             \/ Reject(p) \/ Abort(p) \/ SaveRegistry(p)
    BY <1>4, JobKinds
  <2>2. CASE Codex(p)
    <3>1. /\ ~Applying(p)
          /\ UNCHANGED <<lock, metadata, seenProject, tombstones, registry>>
          /\ \E s \in Sessions, copy \in Copy :
               /\ CodexTurns(p, s, copy)
               /\ \A q \in Profiles, t \in Sessions :
                    ShownCopy(q, t)' = IF q = p /\ t = s THEN copy ELSE ShownCopy(q, t)
      BY <2>2, CodexShows
    <3>2. \A t \in Sessions : /\ ShownMirror(t)' = ShownMirror(t)
                              /\ ShownTombstone(t)' = ShownTombstone(t)
      BY <3>1 DEF ShownMirror, ShownTombstone
    <3> QED
      BY <3>1, <3>2 DEF CodexActs
  <2>3. CASE \E j \in Job : Begin(p, j) /\ JobShape(j)
    BY <1>2, <2>3, BeginStutters
  <2>4. CASE ScanLive(p)
    BY <1>2, <2>4, ScanStutters
  <2>5. CASE PlanSync(p) \/ \E s \in Sessions : PlanResolve(p, s)
    BY <1>2, <2>5, PlanStutters
  <2>6. CASE \E s \in Sessions : Apply(p, s)
    BY <1>1, <2>6, ApplyShows, ApplyLocal DEF Stutters
  <2>7. CASE Reject(p)
    BY <1>2, <2>7, RejectStutters
  <2>8. ~Abort(p)
    BY <1>1 DEF Abort, TypeOK
  <2> QED
    BY <2>1, <2>2, <2>3, <2>4, <2>5, <2>6, <2>7, <2>8
<1> QED
  BY <1>3, <1>4

(***************************************************************************)
(* What profiles remember.  A profile that has a session on record and     *)
(* holds it no more has lost it to a user's deletion, so has a session     *)
(* with a tombstone; and a profile's copy has only grown since.            *)
(***************************************************************************)
Remembered(base) == Owned(base) /\ ~base.tombstone

Deletions ==
    /\ deleted \subseteq born
    /\ \A s \in Sessions : ShownTombstone(s) # <<>> => s \in deleted
    /\ \A p \in Profiles, s \in Sessions :
         /\ registry[p][s].tombstone => s \in deleted
         /\ Remembered(registry[p][s]) /\ ~Exists(ShownCopy(p, s)) => s \in deleted
         /\ Remembered(registry[p][s]) => Exists(ShownMirror(s)) \/ ShownTombstone(s) # <<>>

CopiesGrow ==
    \A p \in Profiles, s \in Sessions :
        Remembered(registry[p][s]) /\ Exists(ShownCopy(p, s))
          => IsPrefix(registry[p][s].copy.lines, ShownCopy(p, s).lines)

LEMMA StutterKnown ==
    ASSUME Deletions, CopiesGrow, Stutters
    PROVE  Deletions' /\ CopiesGrow'
<1>1. Deletions'
  BY DEF Deletions, Stutters
<1>2. CopiesGrow'
  BY DEF CopiesGrow, Stutters
<1> QED
  BY <1>1, <1>2

LEMMA UnbornUnknown ==
    ASSUME BornInv, Deletions, NEW p \in Profiles, NEW s \in Sessions \ born, lock \in Profiles \cup {Free}
    PROVE  ~Remembered(registry[p][s])
<1>1. ~Exists(ShownMirror(s))
  BY DEF BornInv, ShownMirror
<1>2. ShownTombstone(s) = <<>>
  BY DEF Deletions
<1> QED
  BY <1>1, <1>2 DEF Deletions

LEMMA CodexGrows ==
    ASSUME TypeOK, HomesInv, NEW p \in Profiles, NEW s \in Sessions, NEW copy \in Copy,
           ~Applying(p), CodexTurns(p, s, copy)
    PROVE  /\ ProfileCopy(p, s) \in Copy
           /\ \/ s \notin born /\ Exists(copy)
              \/ /\ Exists(copy) /\ Exists(ProfileCopy(p, s))
                 /\ IsPrefix(ProfileCopy(p, s).lines, copy.lines)
              \/ ~Exists(copy) /\ s \in deleted'
<1> DEFINE old == ProfileCopy(p, s)
<1>1. CodexMakes(p, s, copy) /\ copy \in Copy /\ old \in Copy
  BY RestCopy DEF CodexTurns
<1>2. old.lines \in Seq(Line) /\ copy.lines \in Seq(Line) /\ IsPrefix(old.lines, old.lines)
  BY <1>1, CopyFields DEF IsPrefix
<1>3. CASE s \notin born /\ \E line \in Line : copy = [NoCopy EXCEPT !.lines = <<line>>]
  BY <1>1, <1>3 DEF Exists, NoCopy
<1>4. ASSUME Exists(old), NEW line \in Line, copy = [old EXCEPT !.lines = Append(@, line)]
      PROVE  Exists(copy) /\ IsPrefix(old.lines, copy.lines)
  <2> HIDE DEF old
  <2>1. copy.lines = Append(old.lines, line)
    BY <1>1, <1>4 DEF Copy
  <2>2. copy.lines # <<>>
    BY <1>2, <2>1
  <2> QED
    BY <1>2, <2>1, <2>2, PrefixOrder DEF Exists
<1>5. ASSUME Exists(old), \/ \E place \in Place : copy = [old EXCEPT !.place = place]
                          \/ \E name \in Name : copy = [old EXCEPT !.name = name]
      PROVE  Exists(copy) /\ IsPrefix(old.lines, copy.lines)
  <2> HIDE DEF old
  <2>1. copy.lines = old.lines
    BY <1>1, <1>5 DEF Copy
  <2> QED
    BY <1>2, <1>5, <2>1 DEF Exists
<1>6. CASE copy = NoCopy /\ deleted' = deleted \cup {s}
  BY <1>1, <1>6 DEF Exists, NoCopy
<1>7. \/ s \notin born /\ \E line \in Line : copy = [NoCopy EXCEPT !.lines = <<line>>]
      \/ Exists(old) /\ \E line \in Line : copy = [old EXCEPT !.lines = Append(@, line)]
      \/ Exists(old) /\ \/ \E place \in Place : copy = [old EXCEPT !.place = place]
                        \/ \E name \in Name : copy = [old EXCEPT !.name = name]
      \/ copy = NoCopy /\ deleted' = deleted \cup {s}
  BY <1>1, Zenon DEF CodexMakes
<1> HIDE DEF old
<1>8. \/ s \notin born /\ \E line \in Line : copy = [NoCopy EXCEPT !.lines = <<line>>]
      \/ Exists(old) /\ Exists(copy) /\ IsPrefix(old.lines, copy.lines)
      \/ copy = NoCopy /\ deleted' = deleted \cup {s}
  BY <1>4, <1>5, <1>7, Zenon
<1> QED
  BY <1>1, <1>3, <1>6, <1>8 DEF old

LEMMA CodexKnown ==
    ASSUME ReplicaInv, TypeOK', Deletions, CopiesGrow, CodexActs
    PROVE  Deletions' /\ CopiesGrow'
<1>1. TypeOK /\ BornInv
  BY DEF ReplicaInv, MirrorInv
<1>2. PICK p \in Profiles, s \in Sessions, copy \in Copy :
             /\ ~Applying(p) /\ CodexTurns(p, s, copy)
             /\ \A t \in Sessions : /\ ShownMirror(t)' = ShownMirror(t)
                                    /\ ShownTombstone(t)' = ShownTombstone(t)
             /\ \A q \in Profiles, t \in Sessions :
                  ShownCopy(q, t)' = IF q = p /\ t = s THEN copy ELSE ShownCopy(q, t)
             /\ UNCHANGED registry
  BY DEF CodexActs
<1>3. ShownCopy(p, s) = ProfileCopy(p, s) /\ ShownCopy(p, s) \in Copy
  BY <1>1, <1>2, RestCopy DEF ShownCopy, ReplicaInv
<1>4. /\ deleted \subseteq deleted' /\ born \subseteq born' /\ deleted' \subseteq deleted \cup {s}
      /\ s \in born'
  BY <1>2 DEF CodexTurns, CodexMakes
<1>5. \/ s \notin born /\ Exists(copy)
      \/ Exists(copy) /\ Exists(ShownCopy(p, s)) /\ IsPrefix(ShownCopy(p, s).lines, copy.lines)
      \/ ~Exists(copy) /\ s \in deleted'
  BY <1>1, <1>2, <1>3, CodexGrows DEF ReplicaInv
<1>6. s \notin born => ~Remembered(registry[p][s])
  BY <1>1, UnbornUnknown DEF TypeOK
<1>7. Deletions'
  BY <1>2, <1>4, <1>5, <1>6 DEF Deletions
<1>8. CopiesGrow'
  <2>1. Remembered(registry[p][s]) /\ Exists(copy) => IsPrefix(registry[p][s].copy.lines, copy.lines)
    <3>1. /\ ShownCopy(p, s).lines \in Seq(Line) /\ copy.lines \in Seq(Line)
          /\ registry[p][s].copy.lines \in Seq(Line)
      BY <1>1, <1>3, CopyFields DEF TypeOK, Registration
    <3> QED
      BY <1>5, <1>6, <3>1, PrefixOrder DEF CopiesGrow
  <2> QED
    BY <1>2, <2>1 DEF CopiesGrow
<1> QED
  BY <1>7, <1>8

(***************************************************************************)
(* What saving the registry does to one session.                           *)
(***************************************************************************)
Kept(p, s) ==
    /\ registry'[p][s] = registry[p][s]
    /\ ShownCopy(p, s)' = ShownCopy(p, s)
    /\ ShownMirror(s)' = ShownMirror(s)
    /\ ShownTombstone(s)' = ShownTombstone(s)

Agreed(p, s) ==
    /\ Remembered(registry'[p][s]) => /\ Exists(ShownMirror(s)')
                                      /\ ShownCopy(p, s)' = ShownMirror(s)'
                                      /\ registry'[p][s].copy = ShownCopy(p, s)'
    /\ Exists(ShownMirror(s)') => Exists(ShownMirror(s)) \/ ShownTombstone(s) = <<>>
    /\ Exists(ShownMirror(s)) \/ ShownTombstone(s) # <<>>
         => Exists(ShownMirror(s)') \/ ShownTombstone(s)' # <<>>
    /\ registry'[p][s].tombstone \/ ShownTombstone(s)' # <<>>
         => \/ registry[p][s].tombstone
            \/ ShownTombstone(s) # <<>>
            \/ Remembered(registry[p][s]) /\ ~Exists(ShownCopy(p, s))

LEMMA SaveTurns ==
    ASSUME ReplicaInv, TypeOK', NEW p \in Profiles, SaveRegistry(p), NEW s \in Sessions
    PROVE  Kept(p, s) \/ Agreed(p, s)
<1> DEFINE project == seenProject[p][s]
           profile == seenProfile[p][s]
           tombstone == TombstoneSeen(p, s)
           base == registry[p][s]
<1>1. TypeOK /\ MirrorInv /\ PlanInv
  BY DEF ReplicaInv, MirrorInv
<1>2. /\ ShownMirror(s) = project /\ ShownTombstone(s) = tombstone /\ ShownCopy(p, s) = profile
      /\ ShownMirror(s)' = MirrorResult(p, s)
      /\ ShownTombstone(s)' = IF Planned(p, s).action = "tombstone" THEN project.lines ELSE tombstone
      /\ ShownCopy(p, s)' = ProfileResult(p, s)
  BY SaveShows
<1>3. /\ pc[p] = "apply" /\ Applying(p) /\ Progress(p, s)
      /\ registry'[p][s] = Planned(p, s).registration
  BY <1>1, SaveFacts DEF SaveRegistry
<1>4. JobKnown(p)
  BY <1>1, <1>3 DEF PlanInv, PlanOf
<1>5. Exists(project) => tombstone = <<>>
  BY DEF TombstoneSeen
<1>6. CASE job[p].kind = "sync"
  <2> DEFINE verdict == Decide(project, profile, tombstone, base, s \in job[p].scope)
             mirrored == MirrorAfter(verdict.action, project, profile)
             kept == ProfileAfter(verdict.action, project, profile)
  <2>1. /\ Planned(p, s) = verdict /\ verdict.action \in FileAction
    BY <1>3, <1>6 DEF Planned, Progress
  <2>2. MirrorResult(p, s) = mirrored /\ ProfileResult(p, s) = kept
    BY <2>1 DEF MirrorResult, ProfileResult
  <2>3. /\ Exists(mirrored) => kept = mirrored /\ verdict.registration = RegistrationFor(kept)
        /\ Owned(verdict.registration) /\ ~verdict.registration.tombstone => Exists(mirrored)
    BY <1>5, <2>1, DecideAgrees
  <2>4. /\ verdict.registration.tombstone
             => base.tombstone \/ tombstone # <<>> \/ verdict.action = "tombstone"
        /\ verdict.action = "tombstone" => Owned(base) /\ ~base.tombstone /\ ~Exists(profile)
    BY <1>5, <2>1, DecideRemembers
  <2>5. /\ verdict.action = "export" => Exists(profile) /\ tombstone = <<>>
        /\ verdict.action = "tombstone" => Exists(project)
    BY DecideActsOnCopies
  <2> HIDE DEF verdict
  <2>6. /\ Exists(mirrored) => Exists(project) \/ tombstone = <<>>
        /\ Exists(project) => Exists(mirrored) \/ verdict.action = "tombstone"
    BY <2>5 DEF MirrorAfter, Exists, NoCopy
  <2>7. Exists(project) => project.lines # <<>>
    BY DEF Exists
  <2>8. \A copy : RegistrationFor(copy).copy = copy
    BY DEF RegistrationFor
  <2> HIDE DEF mirrored, kept, project, profile, tombstone, base
  <2>9. Agreed(p, s)
    BY <1>2, <1>3, <2>1, <2>2, <2>3, <2>4, <2>5, <2>6, <2>7, <2>8 DEF Agreed, Remembered, base
  <2> QED
    BY <2>9
<1>7. CASE job[p].kind \in {"project", "profile"} /\ s \in job[p].scope
  <2>1. Exists(project) /\ Exists(profile)
    BY <1>1, <1>3, <1>7 DEF PlanInv, PlanOf, Resolving, ResolvePlan
  <2>2. /\ MirrorResult(p, s) = Winner(p, s) /\ ProfileResult(p, s) = Winner(p, s)
        /\ Planned(p, s).registration = RegistrationFor(Winner(p, s))
        /\ Planned(p, s).action # "tombstone"
        /\ Winner(p, s) \in {project, profile}
    BY <1>7 DEF Planned, Do, Winner, MirrorResult, ProfileResult, MirrorAfter, ProfileAfter
  <2>3. \A copy : RegistrationFor(copy).copy = copy /\ ~RegistrationFor(copy).tombstone
    BY DEF RegistrationFor
  <2> HIDE DEF project, profile, tombstone, base
  <2> QED
    BY <1>2, <1>3, <1>5, <2>1, <2>2, <2>3 DEF Agreed
<1>8. CASE job[p].kind \in {"project", "profile"} /\ s \notin job[p].scope
  <2>1. Planned(p, s) = Do("none", base)
    BY <1>8 DEF Planned
  <2>2. /\ MirrorResult(p, s) = project /\ ProfileResult(p, s) = profile
        /\ Planned(p, s).registration = base /\ Planned(p, s).action # "tombstone"
    BY <2>1 DEF Do, MirrorResult, ProfileResult, MirrorAfter, ProfileAfter
  <2> QED
    BY <1>2, <1>3, <2>2 DEF Kept
<1> QED
  BY <1>4, <1>6, <1>7, <1>8 DEF JobKnown

LEMMA SaveKnown ==
    ASSUME ReplicaInv, TypeOK', Deletions, CopiesGrow, NEW p \in Profiles, SaveRegistry(p)
    PROVE  Deletions' /\ CopiesGrow'
<1>1. TypeOK
  BY DEF ReplicaInv, MirrorInv
<1>2. /\ \A q \in Profiles, s \in Sessions : q # p => /\ ShownCopy(q, s)' = ShownCopy(q, s)
                                                      /\ registry'[q][s] = registry[q][s]
      /\ UNCHANGED <<born, deleted>>
  <2>1. /\ \A q \in Profiles, s \in Sessions : q # p => ShownCopy(q, s)' = ShownCopy(q, s)
        /\ UNCHANGED <<born, deleted>>
    BY SaveShows
  <2>2. registry' = [registry EXCEPT ![p] = newRegistry[p]]
    BY DEF SaveRegistry
  <2> QED
    BY <1>1, <2>1, <2>2 DEF TypeOK
<1>3. \A s \in Sessions : Kept(p, s) \/ Agreed(p, s)
  BY SaveTurns
<1>4. Deletions'
  <2>1. deleted' \subseteq born'
    BY <1>2 DEF Deletions
  <2>2. ASSUME NEW s \in Sessions
        PROVE  /\ ShownTombstone(s)' # <<>> => s \in deleted'
               /\ registry'[p][s].tombstone => s \in deleted'
               /\ Remembered(registry'[p][s]) /\ ~Exists(ShownCopy(p, s)') => s \in deleted'
               /\ Remembered(registry'[p][s]) => Exists(ShownMirror(s)') \/ ShownTombstone(s)' # <<>>
    BY <1>2, <1>3 DEF Deletions, Kept, Agreed
  <2>3. ASSUME NEW s \in Sessions, NEW q \in Profiles, q # p
        PROVE  /\ registry'[q][s].tombstone => s \in deleted'
               /\ Remembered(registry'[q][s]) /\ ~Exists(ShownCopy(q, s)') => s \in deleted'
               /\ Remembered(registry'[q][s]) => Exists(ShownMirror(s)') \/ ShownTombstone(s)' # <<>>
    BY <1>2, <1>3, <2>3 DEF Deletions, Kept, Agreed
  <2> QED
    BY <2>1, <2>2, <2>3 DEF Deletions, Exists
<1>5. CopiesGrow'
  <2>1. ASSUME NEW s \in Sessions, Remembered(registry'[p][s]), Exists(ShownCopy(p, s)')
        PROVE  IsPrefix(registry'[p][s].copy.lines, ShownCopy(p, s)'.lines)
    <3>1. CASE Kept(p, s)
      BY <2>1, <3>1 DEF Kept, CopiesGrow
    <3>2. CASE Agreed(p, s)
      <4>1. registry'[p][s].copy.lines = ShownCopy(p, s)'.lines
        BY <2>1, <3>2 DEF Agreed
      <4>2. registry'[p][s].copy.lines \in Seq(Line)
        BY CopyFields DEF TypeOK, Registration
      <4> QED
        BY <4>1, <4>2 DEF IsPrefix
    <3> QED
      BY <1>3, <3>1, <3>2
  <2>2. ASSUME NEW s \in Sessions, NEW q \in Profiles, q # p,
               Remembered(registry'[q][s]), Exists(ShownCopy(q, s)')
        PROVE  IsPrefix(registry'[q][s].copy.lines, ShownCopy(q, s)'.lines)
    BY <1>2, <2>2 DEF CopiesGrow
  <2> QED
    BY <2>1, <2>2 DEF CopiesGrow, Exists
<1> QED
  BY <1>4, <1>5

(***************************************************************************)
(* With resolutions in favour of the mirror only, the mirror's copy grows  *)
(* as well, and extends what every profile remembers.                      *)
(***************************************************************************)
MirrorExtends ==
    \A p \in Profiles, s \in Sessions :
        Remembered(registry[p][s]) /\ Exists(ShownMirror(s))
          => IsPrefix(registry[p][s].copy.lines, ShownMirror(s).lines)

JobsChosen == \A p \in Profiles : job[p].kind \in {"none", "sync"} \cup ResolveChoices

LEMMA StepJobs ==
    ASSUME TypeOK, JobsChosen, [Next]_vars
    PROVE  JobsChosen'
<1>1. CASE UNCHANGED job
  BY <1>1 DEF JobsChosen
<1>2. ASSUME NEW p \in Profiles, NEW j, Begin(p, j), j.kind \in {"none", "sync"} \cup ResolveChoices
      PROVE  JobsChosen'
  BY <1>2 DEF Begin, Enter, JobsChosen, TypeOK
<1>3. ASSUME NEW p \in Profiles, Release(p) PROVE JobsChosen'
  BY <1>3 DEF Release, NoJob, JobsChosen, TypeOK
<1>4. CASE UNCHANGED vars
  BY <1>1, <1>4 DEF vars, syncVars
<1>5. CASE Next
  <2>1. PICK p \in Profiles : \/ Codex(p)
                              \/ BeginSync(p)
                              \/ \E s \in Sessions : BeginResolve(p, s)
                              \/ Work(p)
                              \/ Abort(p)
    BY <1>5 DEF Next
  <2>2. CASE Codex(p)
    BY <1>1, <2>2, CodexKeeps DEF syncVars
  <2>3. CASE BeginSync(p) \/ \E s \in Sessions : BeginResolve(p, s)
    BY <1>2, <2>3 DEF BeginSync, BeginResolve, SyncJob, ResolveJob
  <2>4. CASE ScanLive(p) \/ PlanSync(p) \/ \E s \in Sessions : PlanResolve(p, s)
    BY <1>1, <2>4 DEF ScanLive, PlanSync, PlanResolve
  <2>5. CASE \E s \in Sessions : Apply(p, s)
    BY <1>1, <2>5, ApplyLocal
  <2>6. CASE Reject(p) \/ Abort(p) \/ SaveRegistry(p)
    BY <1>3, <2>6 DEF Reject, Abort, SaveRegistry
  <2> QED
    BY <2>1, <2>2, <2>3, <2>4, <2>5, <2>6 DEF Work
<1> QED
  BY <1>4, <1>5

LEMMA SaveExtends ==
    ASSUME ReplicaInv, TypeOK', NEW p \in Profiles, SaveRegistry(p), job[p].kind # "profile",
           NEW s \in Sessions, Exists(ShownMirror(s)), Exists(ShownMirror(s)')
    PROVE  IsPrefix(ShownMirror(s).lines, ShownMirror(s)'.lines)
<1> DEFINE project == seenProject[p][s]
           profile == seenProfile[p][s]
<1>1. TypeOK /\ MirrorInv /\ PlanInv
  BY DEF ReplicaInv, MirrorInv
<1>2. ShownMirror(s) = project /\ ShownMirror(s)' = MirrorResult(p, s)
  BY SaveShows
<1>3. pc[p] = "apply" /\ Applying(p) /\ Progress(p, s)
  BY <1>1, SaveFacts DEF SaveRegistry
<1>4. project \in Copy /\ profile \in Copy /\ registry[p][s] \in Registration
  BY <1>1 DEF TypeOK
<1>5. IsPrefix(project.lines, project.lines)
  BY <1>4, CopyFields DEF IsPrefix
<1>6. Planned(p, s).action = "export" => IsPrefix(project.lines, profile.lines)
  <2>1. CASE job[p].kind = "sync"
    <3>1. Planned(p, s) = Decide(project, profile, TombstoneSeen(p, s), registry[p][s],
                                 s \in job[p].scope)
      BY <2>1 DEF Planned
    <3>2. Planned(p, s).action = "export" => Exists(profile)
      BY <3>1, DecideActsOnCopies
    <3> QED
      BY <1>2, <1>4, <3>1, <3>2, DecideWinner
  <2>2. CASE job[p].kind = "project"
    BY <2>2 DEF Planned, Do
  <2> QED
    BY <1>1, <1>3, <2>1, <2>2 DEF PlanInv, PlanOf, JobKnown
<1>7. MirrorResult(p, s) # NoCopy
  BY <1>2 DEF Exists, NoCopy
<1> QED
  BY <1>2, <1>5, <1>6, <1>7 DEF MirrorResult, MirrorAfter

LEMMA StepExtends ==
    ASSUME ResolveChoices \subseteq {"project"}, CodexConcurrent = FALSE, MaxCrashes = 0,
           ReplicaInv, TypeOK', [Next]_vars, JobsChosen, Deletions, MirrorExtends
    PROVE  MirrorExtends'
<1>1. TypeOK
  BY DEF ReplicaInv, MirrorInv
<1>2. CASE Stutters
  BY <1>2 DEF Stutters, MirrorExtends
<1>3. CASE CodexActs
  BY <1>3 DEF CodexActs, MirrorExtends
<1>4. ASSUME NEW p \in Profiles, SaveRegistry(p) PROVE MirrorExtends'
  <2>1. \A q \in Profiles, s \in Sessions : q # p => registry'[q][s] = registry[q][s]
    BY <1>1, <1>4 DEF SaveRegistry, TypeOK
  <2>2. job[p].kind # "profile"
    BY DEF JobsChosen
  <2>3. ASSUME NEW q \in Profiles, NEW s \in Sessions,
               Remembered(registry'[q][s]), Exists(ShownMirror(s)')
        PROVE  IsPrefix(registry'[q][s].copy.lines, ShownMirror(s)'.lines)
    <3>1. Kept(p, s) \/ Agreed(p, s)
      BY <1>4, SaveTurns
    <3>2. CASE registry'[q][s] = registry[q][s]
      <4>1. Exists(ShownMirror(s))
        BY <2>3, <3>1, <3>2 DEF Deletions, Kept, Agreed
      <4>2. IsPrefix(ShownMirror(s).lines, ShownMirror(s)'.lines)
        BY <1>4, <2>2, <2>3, <4>1, SaveExtends
      <4>3. IsPrefix(registry[q][s].copy.lines, ShownMirror(s).lines)
        BY <2>3, <3>2, <4>1 DEF MirrorExtends
      <4>4. /\ ShownMirror(s).lines \in Seq(Line) /\ registry[q][s].copy.lines \in Seq(Line)
        BY <1>1, CopyFields DEF ShownMirror, TypeOK, Registration
      <4>5. ShownMirror(s)'.lines \in Seq(Line)
        BY CopyFields DEF ShownMirror, TypeOK
      <4> QED
        BY <3>2, <4>2, <4>3, <4>4, <4>5, PrefixOrder
    <3>3. CASE q = p /\ Agreed(p, s)
      <4>1. registry'[p][s].copy.lines = ShownMirror(s)'.lines
        BY <2>3, <3>3 DEF Agreed
      <4>2. registry'[p][s].copy.lines \in Seq(Line)
        BY CopyFields DEF TypeOK, Registration
      <4> QED
        BY <3>3, <4>1, <4>2 DEF IsPrefix
    <3> QED
      BY <2>1, <3>1, <3>2, <3>3 DEF Kept
  <2> QED
    BY <2>3 DEF MirrorExtends, Exists
<1> QED
  BY <1>2, <1>3, <1>4, StepShows

(***************************************************************************)
(* Deletions and growth, as invariants of the code.                        *)
(***************************************************************************)
MergeInv == ReplicaInv /\ Deletions /\ CopiesGrow

LEMMA InitMerge == Init => MergeInv
<1> SUFFICES ASSUME Init PROVE MergeInv
  OBVIOUS
<1>1. ReplicaInv
  BY InitReplicaInv
<1>2. \A p \in Profiles, s \in Sessions :
        ~registry[p][s].tombstone /\ ~Remembered(registry[p][s])
  BY DEF Init, NothingRegistered, NoRegistration, Remembered, Owned, Exists, NoCopy
<1>3. \A s \in Sessions : ShownTombstone(s) = <<>>
  BY DEF Init, ShownTombstone
<1>4. deleted \subseteq born
  BY DEF Init
<1> QED
  BY <1>1, <1>2, <1>3, <1>4 DEF MergeInv, Deletions, CopiesGrow

LEMMA StepMerge ==
    ASSUME CodexConcurrent = FALSE, MaxCrashes = 0, MergeInv, [Next]_vars
    PROVE  MergeInv' /\ TypeOK'
<1>1. ReplicaInv /\ Deletions /\ CopiesGrow
  BY DEF MergeInv
<1>2. ReplicaInv'
  BY <1>1, StepReplicaInv
<1>3. TypeOK'
  BY <1>2 DEF ReplicaInv, MirrorInv
<1>4. Stutters \/ CodexActs \/ \E p \in Profiles : SaveRegistry(p)
  BY <1>1, <1>3, StepShows
<1>5. Deletions' /\ CopiesGrow'
  BY <1>1, <1>3, <1>4, StutterKnown, CodexKnown, SaveKnown
<1> QED
  BY <1>2, <1>3, <1>5 DEF MergeInv

\* The process that holds the lock shows what it has scanned.
LEMMA HolderShows ==
    ASSUME MirrorInv, PlanInv, NEW p \in Profiles, Applying(p), NEW s \in Sessions
    PROVE  /\ lock = p /\ Progress(p, s) /\ JobKnown(p) /\ Pending(p, s)
           /\ ShownMirror(s) = seenProject[p][s]
           /\ ShownTombstone(s) = TombstoneSeen(p, s)
           /\ ShownCopy(p, s) = seenProfile[p][s]
<1>1. lock = p /\ p # Free
  BY FreeAssumption DEF MirrorInv, LockInv, Applying
<1>2. Progress(p, s) /\ JobKnown(p) /\ Pending(p, s)
  BY DEF MirrorInv, ApplyInv, PlanInv, PlanOf, Applying
<1> QED
  BY <1>1, <1>2 DEF ShownMirror, ShownTombstone, ShownCopy, TombstoneSeen

LEMMA PlannedDeletion ==
    ASSUME MergeInv, NEW p \in Profiles, Applying(p), NEW s \in Sessions,
           Planned(p, s).action \in {"tombstone", "delete"}
    PROVE  s \in deleted
<1>1. /\ Progress(p, s) /\ JobKnown(p)
      /\ ShownTombstone(s) = TombstoneSeen(p, s) /\ ShownCopy(p, s) = seenProfile[p][s]
  BY HolderShows DEF MergeInv, ReplicaInv
<1>2. job[p].kind = "sync"
  BY <1>1 DEF JobKnown, Planned, Do
<1>3. /\ Planned(p, s) = Decide(seenProject[p][s], seenProfile[p][s], TombstoneSeen(p, s),
                                registry[p][s], s \in job[p].scope)
      /\ Planned(p, s).action \in FileAction
  BY <1>1, <1>2 DEF Planned, Progress
<1>4. Exists(seenProject[p][s]) => TombstoneSeen(p, s) = <<>>
  BY DEF TombstoneSeen
<1>5. /\ Planned(p, s).action = "tombstone" =>
           /\ Owned(registry[p][s]) /\ ~registry[p][s].tombstone
           /\ ~Exists(seenProfile[p][s])
      /\ Planned(p, s).action = "delete" => TombstoneSeen(p, s) # <<>>
  BY <1>3, <1>4, DecideRemembers
<1> QED
  BY <1>1, <1>5 DEF MergeInv, Deletions, Remembered

LEMMA TombstoneKnown ==
    ASSUME MergeInv, NEW s \in Sessions, tombstones[s] # <<>>
    PROVE  s \in deleted
<1>1. MirrorInv /\ PlanInv /\ Deletions /\ ReplicaInv
  BY DEF MergeInv, ReplicaInv
<1>2. CASE ShownTombstone(s) # <<>>
  BY <1>1, <1>2 DEF Deletions
<1>3. CASE ShownTombstone(s) = <<>>
  <2>1. lock \in Profiles /\ Exists(seenProject[lock][s])
    BY <1>1, <1>3 DEF ShownTombstone, MirrorInv, TypeOK
  <2>2. PICK p \in Profiles : lock = p
    BY <2>1
  <2>3. pc[p] # "idle" /\ ~Exists(metadata[s]) /\ Exists(seenProject[p][s])
    BY <1>1, <2>1, <2>2 DEF MirrorInv, LockInv, TombstoneFinal
  <2>4. Applying(p)
    <3>1. ~Scanning(p)
      BY <1>1, <2>3 DEF MirrorInv, ScanInv
    <3> QED
      BY <1>1, <2>3, <3>1 DEF MirrorInv, TypeOK, Stage, Scanning, Applying
  <2>5. Progress(p, s) /\ JobKnown(p) /\ Pending(p, s)
    BY <1>1, <2>4, HolderShows
  <2>6. /\ Planned(p, s).action = "export" => Exists(seenProfile[p][s])
    <3>1. CASE job[p].kind = "sync"
      BY <3>1, DecideActsOnCopies DEF Planned
    <3>2. CASE job[p].kind \in {"project", "profile"}
      <4>1. Planned(p, s).action = "export" => s \in job[p].scope
        BY <3>2 DEF Planned, Do
      <4> QED
        BY <1>1, <2>4, <3>2, <4>1 DEF PlanInv, PlanOf, Resolving, ResolvePlan
    <3> QED
      BY <2>5, <3>1, <3>2 DEF JobKnown
  <2>7. CASE work[p][s] = "none"
    <3>1. metadata[s] = MirrorResult(p, s)
      BY <2>5, <2>7 DEF Progress, Finished
    <3>2. Planned(p, s).action = "tombstone"
      BY <2>3, <2>6, <3>1 DEF MirrorResult, MirrorAfter
    <3> QED
      BY <2>4, <3>2, PlannedDeletion
  <2>8. CASE work[p][s] # "none"
    <3>1. work[p][s] = Planned(p, s).action /\ work[p][s] # "export"
      BY <2>5, <2>8 DEF Progress, Pending
    <3>2. work[p][s] # "import"
      BY <2>3, <2>5 DEF Progress, MirrorWaits
    <3>3. work[p][s] \in {"tombstone", "delete"}
      BY <1>1, <2>8, <3>1, <3>2 DEF MirrorInv, TypeOK, FileAction
    <3> QED
      BY <2>4, <3>1, <3>3, PlannedDeletion
  <2> QED
    BY <2>7, <2>8
<1> QED
  BY <1>2, <1>3

(***************************************************************************)
(* sync.go:247: a session is tombstoned only after some user deleted it.   *)
(***************************************************************************)
THEOREM OnlyDeletedAreTombstoned ==
    ASSUME CodexConcurrent = FALSE, MaxCrashes = 0
    PROVE  Spec => []TombstonesOnlyDeleted
<1>1. Init => MergeInv
  BY InitMerge
<1>2. MergeInv /\ [Next]_vars => MergeInv'
  BY StepMerge
<1>3. MergeInv => TombstonesOnlyDeleted
  BY TombstoneKnown DEF TombstonesOnlyDeleted
<1> QED
  BY <1>1, <1>2, <1>3, PTL DEF Spec

-----------------------------------------------------------------------------
(***************************************************************************)
(* No line is lost.  What a file operation removes is held elsewhere.      *)
(***************************************************************************)
Covered(s, lines) == \E after \in LinesOf(s)' : IsPrefix(lines, after)

LEMMA StillHeld ==
    ASSUME TypeOK, TypeOK', NEW s \in Sessions, backups \subseteq backups',
           \A place \in Place :
             rollouts'[s][place] = rollouts[s][place] \/ Covered(s, rollouts[s][place]),
           \A p \in Profiles, place \in Place :
             homes'[p][s][place] = homes[p][s][place] \/ Covered(s, homes[p][s][place]),
           NEW before \in LinesOf(s)
    PROVE  Covered(s, before)
<1>1. \A lines \in Seq(Line) : lines \in LinesOf(s)' => Covered(s, lines)
  BY DEF Covered, IsPrefix
<1>2. ASSUME NEW place \in Place, before = rollouts[s][place] PROVE Covered(s, before)
  <2>1. before \in Seq(Line)
    BY <1>2 DEF TypeOK
  <2>2. rollouts'[s][place] = before => before \in LinesOf(s)'
    BY DEF LinesOf
  <2> QED
    BY <1>1, <1>2, <2>1, <2>2
<1>3. ASSUME NEW p \in Profiles, NEW place \in Place, before = homes[p][s][place]
      PROVE  Covered(s, before)
  <2>1. before \in Seq(Line)
    BY <1>3 DEF TypeOK
  <2>2. homes'[p][s][place] = before => before \in LinesOf(s)'
    BY DEF LinesOf
  <2> QED
    BY <1>1, <1>3, <2>1, <2>2
<1>4. ASSUME NEW b \in backups, b.session = s, before = b.lines PROVE Covered(s, before)
  <2>1. before \in Seq(Line)
    BY <1>4 DEF TypeOK
  <2>2. before \in LinesOf(s)'
    BY <1>4 DEF LinesOf
  <2> QED
    BY <1>1, <2>1, <2>2
<1> QED
  BY <1>2, <1>3, <1>4 DEF LinesOf

LEMMA HeldLines ==
    ASSUME NEW s \in Sessions
    PROVE  /\ \A place \in Place : rollouts'[s][place] \in LinesOf(s)'
           /\ \A p \in Profiles, place \in Place : homes'[p][s][place] \in LinesOf(s)'
           /\ \A lines : [session |-> s, lines |-> lines] \in backups' => lines \in LinesOf(s)'
<1>1. \A place \in Place : rollouts'[s][place] \in LinesOf(s)'
  BY DEF LinesOf
<1>2. \A p \in Profiles, place \in Place : homes'[p][s][place] \in LinesOf(s)'
  BY DEF LinesOf
<1>3. ASSUME NEW lines, [session |-> s, lines |-> lines] \in backups' PROVE lines \in LinesOf(s)'
  <2>1. PICK b \in backups' : b = [session |-> s, lines |-> lines]
    BY <1>3
  <2>2. b.session = s /\ b.lines = lines
    BY <2>1
  <2> QED
    BY <2>2 DEF LinesOf
<1> QED
  BY <1>1, <1>2, <1>3

\* An empty place loses nothing.
LEMMA NothingToLose ==
    ASSUME TypeOK', NEW s \in Sessions
    PROVE  Covered(s, <<>>)
<1>1. "sessions" \in Place
  BY DEF Place
<1>2. PICK lines \in Seq(Line) : lines \in LinesOf(s)'
  BY <1>1, HeldLines DEF TypeOK
<1>3. IsPrefix(<<>>, lines)
  BY DEF IsPrefix
<1> QED
  BY <1>2, <1>3 DEF Covered

LEMMA CodexLoses ==
    ASSUME CodexConcurrent = FALSE, MergeInv, TypeOK', NEW p \in Profiles, Codex(p),
           NEW s \in Sessions \ deleted', NEW before \in LinesOf(s)
    PROVE  Covered(s, before)
<1>1. TypeOK /\ ReplicaInv /\ HomesInv /\ BornInv
  BY DEF MergeInv, ReplicaInv, MirrorInv
<1>2. ~Applying(p) /\ UNCHANGED <<rollouts, backups>>
  BY <1>1, CodexShows
<1>3. PICK t \in Sessions, copy \in Copy : CodexTurns(p, t, copy)
  BY <1>1, CodexShows
<1>4. \A q \in Profiles : q # p \/ t # s => homes'[q][s] = homes[q][s]
  BY <1>3 DEF CodexTurns
<1>5. ASSUME t = s, NEW place \in Place PROVE Covered(s, homes[p][s][place])
  <2> DEFINE old == ProfileCopy(p, s)
  <2>1. /\ old \in Copy
        /\ \/ s \notin born
           \/ Exists(copy) /\ IsPrefix(old.lines, copy.lines)
           \/ ~Exists(copy) /\ s \in deleted'
    BY <1>1, <1>2, <1>3, <1>5, CodexGrows
  <2>2. Holds(p, s, old)
    BY <1>1, <1>2, RestCopy
  <2>3. homes[p][s][place] = <<>> \/ homes[p][s][place] = old.lines
    BY <2>1, <2>2, CopyFields DEF Holds, FilesOf, OnlyAt, NoFiles
  <2>4. s \notin born => homes[p][s][place] = <<>>
    BY <1>1 DEF BornInv, NoFiles
  <2>5. ASSUME Exists(copy) PROVE copy.lines \in LinesOf(s)'
    <3>1. homes'[p][s] = OnlyAt(copy.place, copy.lines)
      BY <1>3, <1>5, <2>5 DEF CodexTurns, Holds, FilesOf
    <3>2. copy.place \in Place /\ homes'[p][s][copy.place] = copy.lines
      BY <3>1, CopyFields DEF OnlyAt, NoFiles
    <3> QED
      BY <3>2, HeldLines
  <2> QED
    BY <2>1, <2>3, <2>4, <2>5, NothingToLose DEF Covered
<1> QED
  BY <1>1, <1>2, <1>4, <1>5, StillHeld

(***************************************************************************)
(* The copy that gives way is held by the one that replaces it, or, after  *)
(* a resolution, by its backup.                                            *)
(***************************************************************************)
SavedAs(s, lines) ==
    {lines} \cup {b.lines : b \in {b \in backups : b.session = s}}

LEMMA LoserSaved ==
    ASSUME MirrorInv, PlanInv, NEW p \in Profiles, Applying(p), pc[p] # "backup", NEW s \in Sessions,
           Exists(seenProject[p][s]), Exists(seenProfile[p][s]),
           work[p][s] \in {"import", "export"}
    PROVE  LET losing  == IF work[p][s] = "import" THEN seenProfile[p][s] ELSE seenProject[p][s]
               winning == IF work[p][s] = "import" THEN seenProject[p][s] ELSE seenProfile[p][s]
           IN  \E lines \in SavedAs(s, winning.lines) : IsPrefix(losing.lines, lines)
<1> DEFINE losing == IF work[p][s] = "import" THEN seenProfile[p][s] ELSE seenProject[p][s]
           winning == IF work[p][s] = "import" THEN seenProject[p][s] ELSE seenProfile[p][s]
<1>1. TypeOK /\ Progress(p, s) /\ JobKnown(p)
  BY HolderShows DEF MirrorInv
<1>2. /\ seenProject[p][s] \in Copy /\ seenProfile[p][s] \in Copy
      /\ registry[p][s] \in Registration
      /\ Planned(p, s).action = work[p][s]
  BY <1>1 DEF TypeOK, Progress
<1>3. CASE job[p].kind = "sync"
  <2>1. IsPrefix(losing.lines, winning.lines)
    BY <1>2, <1>3, DecideWinner DEF Planned
  <2> QED
    BY <2>1 DEF SavedAs
<1>4. CASE job[p].kind \in {"project", "profile"}
  <2>1. s \in job[p].scope
    BY <1>2, <1>4 DEF Planned, Do
  <2>2. /\ [session |-> s, lines |-> Loser(p, s).lines] \in backups
        /\ Loser(p, s) = losing
    <3>1. [session |-> s, lines |-> Loser(p, s).lines] \in backups
      BY <1>1, <1>4, <2>1 DEF PlanInv, PlanOf, Resolving, ResolvePlan
    <3>2. Planned(p, s).action = IF job[p].kind = "project" THEN "import" ELSE "export"
      BY <1>4, <2>1 DEF Planned, Do
    <3> QED
      BY <1>2, <3>1, <3>2 DEF Loser
  <2>3. losing.lines \in SavedAs(s, winning.lines)
    <3>1. PICK b \in backups : b = [session |-> s, lines |-> losing.lines]
      BY <2>2
    <3>2. b.session = s /\ b.lines = losing.lines
      BY <3>1
    <3> QED
      BY <3>2 DEF SavedAs
  <2>4. IsPrefix(losing.lines, losing.lines)
    BY <1>2, CopyFields DEF IsPrefix
  <2> QED
    BY <2>3, <2>4
<1> QED
  BY <1>1, <1>3, <1>4 DEF JobKnown

LEMMA SavedHeld ==
    ASSUME NEW s \in Sessions, backups \subseteq backups', NEW kept, kept \in LinesOf(s)',
           NEW lines, \E after \in SavedAs(s, kept) : IsPrefix(lines, after)
    PROVE  Covered(s, lines)
<1>1. PICK after \in SavedAs(s, kept) : IsPrefix(lines, after)
  OBVIOUS
<1>2. after \in LinesOf(s)'
  BY <1>1 DEF SavedAs, LinesOf
<1> QED
  BY <1>1, <1>2 DEF Covered

LEMMA ExportLoses ==
    ASSUME MergeInv, TypeOK', NEW p \in Profiles, NEW s \in Sessions,
           ExportRemovePrevious(p, s) \/ ExportWriteRollout(p, s), NEW place \in Place
    PROVE  Covered(s, rollouts[s][place])
<1> DEFINE project == seenProject[p][s]
           profile == seenProfile[p][s]
<1>1. TypeOK /\ ReplicaInv /\ MirrorInv /\ PlanInv
  BY DEF MergeInv, ReplicaInv, MirrorInv
<1>2. /\ work[p][s] = "export" /\ pc[p] \in {"apply", "write"} /\ Current(p, s)
      /\ UNCHANGED <<backups, homes>>
  BY DEF ExportRemovePrevious, ExportWriteRollout, At, Then, profileVars
<1>3. Applying(p)
  BY <1>2 DEF Applying
<1>4. Progress(p, s) /\ Pending(p, s)
  BY <1>1, <1>3, HolderShows
<1>5. Exists(profile) /\ Untouched(p, s)
  BY <1>2, <1>4 DEF Progress, Pending
<1>6. profile.lines \in LinesOf(s)'
  <2>1. homes'[p][s] = OnlyAt(profile.place, profile.lines)
    BY <1>2, <1>5 DEF Untouched, Holds, FilesOf
  <2>2. profile.place \in Place
    BY <1>1, CopyFields DEF TypeOK
  <2>3. homes'[p][s][profile.place] = profile.lines
    BY <2>1, <2>2 DEF OnlyAt, NoFiles
  <2> QED
    BY <2>2, <2>3, HeldLines
<1>7. rollouts[s][place] # <<>> => Exists(project) /\ rollouts[s][place] = project.lines
  <2>1. CASE pc[p] = "write"
    <3>1. rollouts[s] = NoFiles
      BY <1>2, <1>4, <2>1 DEF Pending, InProgress, HalfDone
    <3> QED
      BY <3>1 DEF NoFiles
  <2>2. CASE pc[p] = "apply"
    <3>1. Readable(s) /\ metadata[s] = project
      BY <1>2, <1>4, <2>2 DEF Pending, InProgress
    <3> QED
      BY <3>1 DEF Readable, OnlyAt, NoFiles
  <2> QED
    BY <1>2, <2>1, <2>2
<1>8. ASSUME Exists(project) PROVE Covered(s, project.lines)
  <2>1. \E lines \in SavedAs(s, profile.lines) : IsPrefix(project.lines, lines)
    BY <1>1, <1>2, <1>3, <1>5, <1>8, LoserSaved
  <2> QED
    BY <1>2, <1>6, <2>1, SavedHeld
<1> QED
  BY <1>7, <1>8, NothingToLose

LEMMA ImportLoses ==
    ASSUME MergeInv, TypeOK', NEW p \in Profiles, NEW s \in Sessions,
           ImportRemovePrevious(p, s) \/ ImportWriteRollout(p, s), NEW place \in Place
    PROVE  Covered(s, homes[p][s][place])
<1> DEFINE project == seenProject[p][s]
           profile == seenProfile[p][s]
<1>1. TypeOK /\ ReplicaInv /\ MirrorInv /\ PlanInv
  BY DEF MergeInv, ReplicaInv, MirrorInv
<1>2. /\ work[p][s] = "import" /\ pc[p] \in {"apply", "write"} /\ Current(p, s)
      /\ UNCHANGED <<backups, rollouts>>
  BY DEF ImportRemovePrevious, ImportWriteRollout, At, Then, mirrorVars
<1>3. Applying(p)
  BY <1>2 DEF Applying
<1>4. Progress(p, s) /\ Pending(p, s)
  BY <1>1, <1>3, HolderShows
<1>5. metadata[s] = project /\ Readable(s)
  BY <1>2, <1>4 DEF Progress, MirrorWaits, Pending, HalfDone
<1>6. Exists(project)
  <2>1. CASE job[p].kind = "sync"
    BY <1>2, <1>4, <2>1, DecideReadsProject DEF Planned, Progress
  <2>2. CASE job[p].kind \in {"project", "profile"}
    <3>1. s \in job[p].scope
      BY <1>2, <1>4, <2>2 DEF Planned, Do, Progress
    <3> QED
      BY <1>1, <1>3, <2>2, <3>1 DEF PlanInv, PlanOf, Resolving, ResolvePlan
  <2> QED
    BY <1>1, <1>3, <2>1, <2>2, HolderShows DEF JobKnown
<1>7. project.lines \in LinesOf(s)'
  <2>1. rollouts'[s] = OnlyAt(project.place, project.lines)
    BY <1>2, <1>5, <1>6 DEF Readable
  <2>2. project.place \in Place
    BY <1>1, CopyFields DEF TypeOK
  <2>3. rollouts'[s][project.place] = project.lines
    BY <2>1, <2>2 DEF OnlyAt, NoFiles
  <2> QED
    BY <2>2, <2>3, HeldLines
<1>8. homes[p][s][place] # <<>> => Exists(profile) /\ homes[p][s][place] = profile.lines
  <2>1. CASE pc[p] = "write"
    <3>1. homes[p][s] = NoFiles
      BY <1>2, <1>4, <2>1 DEF Progress, InProgress, HalfImported
    <3> QED
      BY <3>1 DEF NoFiles
  <2>2. CASE pc[p] = "apply"
    <3>1. homes[p][s] = FilesOf(profile)
      BY <1>2, <1>4, <2>2 DEF Progress, InProgress, Untouched, Holds
    <3> QED
      BY <3>1 DEF FilesOf, OnlyAt, NoFiles
  <2> QED
    BY <1>2, <2>1, <2>2
<1>9. ASSUME Exists(profile) PROVE Covered(s, profile.lines)
  <2>1. \E lines \in SavedAs(s, project.lines) : IsPrefix(profile.lines, lines)
    BY <1>1, <1>2, <1>3, <1>6, <1>9, LoserSaved
  <2> QED
    BY <1>2, <1>7, <2>1, SavedHeld
<1> QED
  BY <1>8, <1>9, NothingToLose

LEMMA ApplyLoses ==
    ASSUME MergeInv, TypeOK', NEW p \in Profiles, NEW t \in Sessions, Apply(p, t),
           NEW s \in Sessions \ deleted', NEW before \in LinesOf(s)
    PROVE  Covered(s, before)
<1>1. TypeOK /\ ReplicaInv /\ MirrorInv /\ PlanInv
  BY DEF MergeInv, ReplicaInv, MirrorInv
<1>2. /\ Applying(p) /\ Current(p, t)
      /\ deleted' = deleted
      /\ \A q \in Profiles : q # p \/ t # s => homes'[q][s] = homes[q][s]
  BY <1>1, ApplyLocal
<1>3. backups \subseteq backups'
  BY DEF Apply, BackupLoser, ExportRemovePrevious, ExportWriteRollout, ExportWriteMetadata,
         ImportRemovePrevious, ImportWriteRollout, ImportAppendName, TombstoneRemoveRollout,
         TombstoneRemoveMetadata, TombstoneWrite, DeleteProfileRollout, Then, Done
<1>4. CASE t # s
  <2>1. rollouts'[s] = rollouts[s]
    BY <1>1, <1>4
       DEF Apply, BackupLoser, ExportRemovePrevious, ExportWriteRollout, ExportWriteMetadata,
           ImportRemovePrevious, ImportWriteRollout, ImportAppendName, TombstoneRemoveRollout,
           TombstoneRemoveMetadata, TombstoneWrite, DeleteProfileRollout, mirrorVars, TypeOK
  <2> QED
    BY <1>1, <1>2, <1>3, <1>4, <2>1, StillHeld
<1>5. CASE t = s
  <2>1. CASE ExportRemovePrevious(p, s) \/ ExportWriteRollout(p, s)
    <3>1. homes' = homes
      BY <2>1 DEF ExportRemovePrevious, ExportWriteRollout, profileVars
    <3> QED
      BY <1>1, <1>3, <2>1, <3>1, ExportLoses, StillHeld
  <2>2. CASE ImportRemovePrevious(p, s) \/ ImportWriteRollout(p, s)
    <3>1. rollouts' = rollouts
      BY <2>2 DEF ImportRemovePrevious, ImportWriteRollout, mirrorVars
    <3>2. \A place \in Place : Covered(s, homes[p][s][place])
      BY <2>2, ImportLoses
    <3>3. \A q \in Profiles : q # p => homes'[q][s] = homes[q][s]
      BY <1>2
    <3> QED
      BY <1>1, <1>3, <3>1, <3>2, <3>3, StillHeld
  <2>3. ~TombstoneRemoveRollout(p, s) /\ ~DeleteProfileRollout(p, s)
    <3>1. Progress(p, s) /\ work[p][s] # "none"
      BY <1>1, <1>2, <1>5, HolderShows DEF Current
    <3>2. Planned(p, s).action \notin {"tombstone", "delete"}
      BY <1>2, PlannedDeletion
    <3> QED
      BY <3>1, <3>2 DEF Progress, TombstoneRemoveRollout, DeleteProfileRollout, At
  <2>4. CASE UNCHANGED <<rollouts, homes>>
    BY <1>1, <1>3, <2>4, StillHeld
  <2> QED
    BY <1>5, <2>1, <2>2, <2>3, <2>4
       DEF Apply, BackupLoser, ExportWriteMetadata, ImportAppendName, TombstoneRemoveMetadata,
           TombstoneWrite, mirrorVars, profileVars
<1> QED
  BY <1>4, <1>5

(***************************************************************************)
(* Whatever the interleaving of synchronizations, resolutions and edits,   *)
(* every line of a session that nobody deletes stays somewhere.            *)
(***************************************************************************)
THEOREM LinesAreNeverLost ==
    ASSUME CodexConcurrent = FALSE, MaxCrashes = 0
    PROVE  Spec => NoSilentLoss
<1>1. ASSUME MergeInv, Next, NEW s \in Sessions \ deleted', NEW before \in LinesOf(s)
      PROVE  \E after \in LinesOf(s)' : IsPrefix(before, after)
  <2>1. TypeOK /\ TypeOK'
    BY <1>1, StepMerge DEF MergeInv, ReplicaInv, MirrorInv
  <2>2. PICK p \in Profiles :
             \/ Codex(p)
             \/ \E j \in Job : Begin(p, j) /\ JobShape(j)
             \/ ScanLive(p)
             \/ PlanSync(p)
             \/ \E t \in Sessions : PlanResolve(p, t)
             \/ \E t \in Sessions : Apply(p, t)
             \/ Reject(p) \/ Abort(p) \/ SaveRegistry(p)
    BY <1>1, JobKinds
  <2>3. CASE Codex(p)
    BY <1>1, <2>1, <2>3, CodexLoses DEF Covered
  <2>4. CASE \E t \in Sessions : Apply(p, t)
    BY <1>1, <2>1, <2>4, ApplyLoses DEF Covered
  <2>5. CASE UNCHANGED <<rollouts, homes, backups>>
    BY <1>1, <2>1, <2>5, StillHeld DEF Covered
  <2> QED
    BY <2>2, <2>3, <2>4, <2>5
       DEF Begin, Enter, ScanLive, PlanSync, PlanResolve, Reject, Abort, SaveRegistry,
           mirrorVars, profileVars
<1>2. MergeInv /\ [Next]_vars =>
        [\A s \in Sessions \ deleted' : \A before \in LinesOf(s) :
           \E after \in LinesOf(s)' : IsPrefix(before, after)]_vars
  BY <1>1
<1>3. Init => MergeInv
  BY InitMerge
<1>4. MergeInv /\ [Next]_vars => MergeInv'
  BY StepMerge
<1> QED
  BY <1>2, <1>3, <1>4, PTL DEF Spec, NoSilentLoss

(***************************************************************************)
(* README.md:445 holds as long as Codex does not run during a              *)
(* synchronization, whatever processes die: what is overwritten is in the  *)
(* copy that replaces it or backed up.                                     *)
(***************************************************************************)
THEOREM OverwritesKeepLines ==
    ASSUME CodexConcurrent = FALSE
    PROVE  Spec => []OverwriteKeepsLines
<1>1. ASSUME MirrorInv, PlanInv, NEW p \in Profiles, NEW s \in Sessions,
             \/ At(p, s, "import", "apply") /\ ~Moves(seenProject[p][s], seenProfile[p][s])
             \/ At(p, s, "import", "write")
      PROVE  \E lines \in SavedAs(s, seenProject[p][s].lines) :
               IsPrefix(homes[p][s][seenProject[p][s].place], lines)
  <2> DEFINE project == seenProject[p][s]
             profile == seenProfile[p][s]
  <2>1. /\ TypeOK /\ Applying(p) /\ pc[p] # "backup" /\ work[p][s] = "import"
        /\ Progress(p, s) /\ JobKnown(p)
    BY <1>1, HolderShows DEF MirrorInv, At, Applying
  <2>2. /\ project.lines \in Seq(Line) /\ project.place \in Place
        /\ profile \in Copy
    BY <2>1, CopyFields DEF TypeOK
  <2>3. homes[p][s][project.place] # <<>>
          => Exists(profile) /\ homes[p][s][project.place] = profile.lines
    <3>1. CASE pc[p] = "write"
      <4>1. Current(p, s)
        BY <1>1, <3>1 DEF At
      <4>2. homes[p][s] = NoFiles
        BY <2>1, <3>1, <4>1 DEF Progress, InProgress, HalfImported
      <4> QED
        BY <2>2, <4>2 DEF NoFiles
    <3>2. CASE pc[p] = "apply"
      <4>1. homes[p][s] = FilesOf(profile)
        BY <2>1, <3>2 DEF Progress, InProgress, Untouched, Holds
      <4> QED
        BY <2>2, <4>1 DEF FilesOf, OnlyAt, NoFiles
    <3> QED
      BY <1>1, <3>1, <3>2 DEF At
  <2>4. Exists(project)
    <3>1. CASE job[p].kind = "sync"
      BY <2>1, <3>1, DecideReadsProject DEF Planned, Progress
    <3>2. CASE job[p].kind \in {"project", "profile"}
      <4>1. s \in job[p].scope
        BY <2>1, <3>2 DEF Planned, Do, Progress
      <4> QED
        BY <1>1, <2>1, <3>2, <4>1 DEF PlanInv, PlanOf, Resolving, ResolvePlan
    <3> QED
      BY <2>1, <3>1, <3>2 DEF JobKnown
  <2>5. CASE homes[p][s][project.place] = <<>>
    <3>1. IsPrefix(<<>>, project.lines)
      BY <2>2 DEF IsPrefix
    <3> QED
      BY <2>5, <3>1 DEF SavedAs
  <2>6. CASE Exists(profile) /\ homes[p][s][project.place] = profile.lines
    BY <1>1, <2>1, <2>4, <2>6, LoserSaved
  <2> QED
    BY <2>3, <2>5, <2>6
<1>2. MirrorInv /\ PlanInv => OverwriteKeepsLines
  BY <1>1 DEF OverwriteKeepsLines, SavedAs
<1> QED
  BY <1>2, PlanIsCarriedOut, PTL DEF Spec

-----------------------------------------------------------------------------
(***************************************************************************)
(* Three-way merges.  When resolutions favour the mirror only, the base a  *)
(* profile remembers stays a prefix of both sides, so a side that still    *)
(* has the base never wins.                                                *)
(***************************************************************************)
ThreeWayInv == MergeInv /\ JobsChosen /\ MirrorExtends

LEMMA InitThreeWay == Init => ThreeWayInv
<1>1. \A p \in Profiles, s \in Sessions : ~Remembered(NothingRegistered[s])
  BY DEF NothingRegistered, NoRegistration, Remembered, Owned, Exists, NoCopy
<1>2. Init => JobsChosen
  BY DEF Init, JobsChosen, NoJob
<1>3. Init => MirrorExtends
  BY <1>1 DEF Init, MirrorExtends
<1> QED
  BY <1>2, <1>3, InitMerge DEF ThreeWayInv

LEMMA StepThreeWay ==
    ASSUME ResolveChoices \subseteq {"project"}, CodexConcurrent = FALSE, MaxCrashes = 0,
           ThreeWayInv, [Next]_vars
    PROVE  ThreeWayInv'
<1>1. MergeInv /\ JobsChosen /\ MirrorExtends /\ ReplicaInv /\ Deletions /\ TypeOK
  BY DEF ThreeWayInv, MergeInv, ReplicaInv, MirrorInv
<1>2. MergeInv' /\ TypeOK'
  BY <1>1, StepMerge
<1>3. JobsChosen'
  BY <1>1, StepJobs
<1>4. MirrorExtends'
  BY <1>1, <1>2, StepExtends
<1> QED
  BY <1>2, <1>3, <1>4 DEF ThreeWayInv

LEMMA WinnerHasChanged ==
    ASSUME ThreeWayInv, NEW p \in Profiles, NEW s \in Sessions, job[p].kind = "sync",
           Owned(registry[p][s]), work[p][s] \in {"import", "export"}
    PROVE  LET base == registry[p][s].copy
           IN  /\ Applying(p)
               /\ work[p][s] = "export" => /\ seenProfile[p][s] # base
                                           /\ seenProject[p][s] = base
               /\ work[p][s] = "import" => /\ seenProject[p][s] # base
                                           /\ seenProfile[p][s] = base
<1> DEFINE base    == registry[p][s]
           project == seenProject[p][s]
           profile == seenProfile[p][s]
<1>1. MirrorInv /\ PlanInv /\ TypeOK /\ CopiesGrow /\ MirrorExtends
  BY DEF ThreeWayInv, MergeInv, ReplicaInv, MirrorInv
<1>2. Applying(p)
  BY <1>1 DEF MirrorInv, WorkInv, NoWork
<1>3. /\ Progress(p, s)
      /\ ShownMirror(s) = project /\ ShownCopy(p, s) = profile
  BY <1>1, <1>2, HolderShows
<1>4. work[p][s] = Decide(project, profile, TombstoneSeen(p, s), base, s \in job[p].scope).action
  BY <1>3 DEF Progress, Planned
<1>5. Exists(project) /\ Exists(profile) /\ ~base.tombstone
  BY <1>4, DecideOwned
<1>6. IsPrefix(base.copy.lines, project.lines) /\ IsPrefix(base.copy.lines, profile.lines)
  BY <1>1, <1>3, <1>5 DEF CopiesGrow, MirrorExtends, Remembered
<1>7. project \in Copy /\ profile \in Copy /\ base \in Registration
  BY <1>1 DEF TypeOK
<1>8. CompareSessions(project, profile, base) = ThreeWayMerge(project, profile, base.copy)
  BY <1>6, <1>7, CompareIsThreeWayMerge
<1>9. CASE work[p][s] = "import"
  <2>1. ThreeWayMerge(project, profile, base.copy) = "project"
    BY <1>4, <1>5, <1>7, <1>8, <1>9, DecideWinner
  <2> QED
    BY <1>2, <1>9, <2>1 DEF ThreeWayMerge
<1>10. CASE work[p][s] = "export"
  <2>1. ThreeWayMerge(project, profile, base.copy) = "profile"
    BY <1>4, <1>5, <1>7, <1>8, <1>10, DecideWinner
  <2> QED
    BY <1>2, <1>10, <2>1 DEF ThreeWayMerge
<1> QED
  BY <1>9, <1>10

(***************************************************************************)
(* compareSessions looks at the contents before the base, and yet a side   *)
(* that has not changed since the last synchronization never overwrites    *)
(* the other one, as long as no profile wins a resolution.                 *)
(***************************************************************************)
THEOREM StaleSidesNeverWin ==
    ASSUME ResolveChoices \subseteq {"project"}, CodexConcurrent = FALSE, MaxCrashes = 0
    PROVE  Spec => []StaleSideNeverWins
<1>1. Init => ThreeWayInv
  BY InitThreeWay
<1>2. ThreeWayInv /\ [Next]_vars => ThreeWayInv'
  BY StepThreeWay
<1>3. ThreeWayInv => StaleSideNeverWins
  BY WinnerHasChanged DEF StaleSideNeverWins
<1> QED
  BY <1>1, <1>2, <1>3, PTL DEF Spec

(***************************************************************************)
(* While a session waits for its turn, the name that is about to be        *)
(* replaced is the one that was scanned.                                   *)
(***************************************************************************)
NameWaits(p, s) ==
    /\ work[p][s] = "export" => metadata[s] = seenProject[p][s]
    /\ work[p][s] = "import" /\ Exists(seenProfile[p][s]) => names[p][s] = seenProfile[p][s].name

NamesWait == \A p \in Profiles, s \in Sessions : NameWaits(p, s)

LEMMA StepNames ==
    ASSUME CodexConcurrent = FALSE, MirrorInv, PlanInv, NamesWait, [Next]_vars
    PROVE  NamesWait'
<1>1. MirrorInv' /\ PlanInv' /\ TypeOK /\ TypeOK'
  <2>1. MirrorInv' /\ PlanInv'
    BY StepMirror, StepPlan
  <2> QED
    BY <2>1 DEF MirrorInv
<1>2. \A q \in Profiles, t \in Sessions : ~Applying(q)' => NameWaits(q, t)'
  BY <1>1 DEF MirrorInv, WorkInv, NoWork, NameWaits, FileAction
<1>3. ASSUME NEW q \in Profiles, NEW t \in Sessions, work'[q][t] = work[q][t],
             metadata'[t] = metadata[t], names'[q][t] = names[q][t],
             seenProject'[q] = seenProject[q], seenProfile'[q] = seenProfile[q]
      PROVE  NameWaits(q, t)'
  BY <1>3 DEF NamesWait, NameWaits
<1>4. CASE UNCHANGED vars
  BY <1>3, <1>4 DEF vars, mirrorVars, profileVars, syncVars, NamesWait
<1>5. CASE Next
  <2>1. PICK p \in Profiles :
             \/ Codex(p)
             \/ \E j \in Job : Begin(p, j) /\ JobShape(j)
             \/ ScanLive(p)
             \/ PlanSync(p)
             \/ \E t \in Sessions : PlanResolve(p, t)
             \/ \E t \in Sessions : Apply(p, t)
             \/ Reject(p) \/ Abort(p) \/ SaveRegistry(p)
    BY <1>5, JobKinds
  \* The process of one profile goes on; the others are idle.
  <2>2. ASSUME NEW stage, pc' = [pc EXCEPT ![p] = stage], pc[p] # "idle" \/ lock = Free,
               \A t \in Sessions : NameWaits(p, t)'
        PROVE  NamesWait'
    <3>1. ASSUME NEW q \in Profiles, q # p PROVE ~Applying(q)'
      <4>1. pc[q] = "idle"
        BY <2>2, <3>1, FreeAssumption DEF MirrorInv, LockInv
      <4> QED
        BY <1>1, <2>2, <3>1, <4>1 DEF TypeOK, Applying
    <3> QED
      BY <1>2, <2>2, <3>1 DEF NamesWait
  <2>3. CASE Codex(p)
    <3>1. /\ pc[p] = "idle" /\ UNCHANGED <<metadata, pc, seenProject, seenProfile, work>>
          /\ \A q \in Profiles : q # p => names'[q] = names[q]
      BY <1>1, <2>3, CodexLocal, CodexKeeps DEF mirrorVars, syncVars
    <3>2. ~Applying(p)'
      BY <3>1 DEF Applying
    <3> QED
      BY <1>2, <1>3, <3>1, <3>2 DEF NamesWait
  <2>4. CASE \/ \E j \in Job : Begin(p, j) /\ JobShape(j)
             \/ ScanLive(p)
             \/ Reject(p) \/ Abort(p) \/ SaveRegistry(p)
    <3>1. PICK stage \in {"scanLive", "scanArchived", "idle"} : pc' = [pc EXCEPT ![p] = stage]
      BY <2>4 DEF Begin, Enter, ScanLive, Reject, Abort, SaveRegistry, Release
    <3>2. pc[p] # "idle" \/ lock = Free
      BY <2>4 DEF Begin, Enter, ScanLive, Reject, Abort, SaveRegistry
    <3>3. ~Applying(p)'
      BY <1>1, <3>1 DEF TypeOK, Applying
    <3> QED
      BY <1>2, <2>2, <3>1, <3>2, <3>3
  <2>5. CASE PlanSync(p) \/ \E t \in Sessions : PlanResolve(p, t)
    <3>1. PICK stage \in {"apply", "backup"} : pc' = [pc EXCEPT ![p] = stage]
      BY <2>5 DEF PlanSync, PlanResolve
    <3>2. /\ pc[p] = "scanArchived" /\ metadata' = metadata /\ names' = names
          /\ seenProject' = seenProject
      BY <2>5 DEF PlanSync, PlanResolve, mirrorVars, profileVars
    <3>3. pc'[p] = stage /\ Applying(p)'
      BY <1>1, <3>1 DEF TypeOK, Applying
    <3>4. ASSUME NEW t \in Sessions PROVE NameWaits(p, t)'
      <4>1. metadata'[t] = seenProject'[p][t]
        BY <3>2 DEF MirrorInv, ScanInv, Scanning
      <4>2. Progress(p, t)' /\ ~InProgress(p, t)'
        BY <1>1, <3>3 DEF PlanInv, PlanOf, InProgress
      <4>3. work'[p][t] = "import" => Untouched(p, t)'
        BY <4>2 DEF Progress
      <4> QED
        BY <4>1, <4>3 DEF NameWaits, Untouched, Holds
    <3> QED
      BY <2>2, <3>1, <3>2, <3>4
  <2>6. CASE \E t \in Sessions : Apply(p, t)
    <3>1. PICK t \in Sessions : Apply(p, t)
      BY <2>6
    <3>2. /\ Applying(p) /\ seenProject' = seenProject /\ seenProfile' = seenProfile
          /\ \A u \in Sessions : u # t => metadata'[u] = metadata[u] /\ names'[p][u] = names[p][u]
      BY <1>1, <3>1, ApplyLocal
    <3>3. PICK stage \in {"apply", "write", "finish"} : pc' = [pc EXCEPT ![p] = stage]
      BY <3>1 DEF Apply, BackupLoser, ExportRemovePrevious, ExportWriteRollout,
         ExportWriteMetadata, ImportRemovePrevious, ImportWriteRollout, ImportAppendName,
         TombstoneRemoveRollout, TombstoneRemoveMetadata, TombstoneWrite, DeleteProfileRollout,
         Then, Done
    <3>4. /\ \A u \in Sessions : u # t => work'[p][u] = work[p][u]
          /\ \/ work'[p][t] = "none"
             \/ /\ work'[p][t] = work[p][t] /\ names' = names
                /\ metadata' = metadata \/ work[p][t] = "tombstone"
      BY <1>1, <3>1
      DEF Apply, BackupLoser, ExportRemovePrevious, ExportWriteRollout,
         ExportWriteMetadata, ImportRemovePrevious, ImportWriteRollout, ImportAppendName,
         TombstoneRemoveRollout, TombstoneRemoveMetadata, TombstoneWrite, DeleteProfileRollout,
         At, Then, Done, profileVars, mirrorVars, TypeOK
    <3>5. \A u \in Sessions : u # t => NameWaits(p, u)'
      BY <1>3, <3>2, <3>4
    <3>6. NameWaits(p, t)'
      BY <3>2, <3>4 DEF NamesWait, NameWaits
    <3> QED
      BY <2>2, <3>2, <3>3, <3>5, <3>6 DEF Applying
  <2> QED
    BY <2>1, <2>3, <2>4, <2>5, <2>6
<1> QED
  BY <1>4, <1>5

(***************************************************************************)
(* A synchronization renames one side only if that side has the name of    *)
(* the last synchronization.                                               *)
(***************************************************************************)
THEOREM RenamesMergeThreeWays ==
    ASSUME ResolveChoices \subseteq {"project"}, CodexConcurrent = FALSE, MaxCrashes = 0
    PROVE  Spec => RenamesMerge
<1> DEFINE Kept1(p, s) ==
              /\ names[p][s]' # names[p][s] => names[p][s] = registry[p][s].copy.name
              /\ lock = p /\ Exists(metadata[s]) /\ Exists(metadata[s])'
                   /\ metadata[s].name # metadata[s].name'
                   => metadata[s].name = registry[p][s].copy.name
<1>1. ASSUME ThreeWayInv, NamesWait, Next, NEW p \in Profiles, NEW s \in Sessions,
             job[p].kind = "sync", Applying(p), Owned(registry[p][s])
      PROVE  Kept1(p, s)
  <2>1. MirrorInv /\ PlanInv /\ TypeOK
    BY <1>1 DEF ThreeWayInv, MergeInv, ReplicaInv, MirrorInv
  <2>2. lock = p
    BY <1>1, <2>1, HolderShows
  <2>3. PICK q \in Profiles :
             \/ Codex(q)
             \/ \E j \in Job : Begin(q, j) /\ JobShape(j)
             \/ ScanLive(q)
             \/ PlanSync(q)
             \/ \E t \in Sessions : PlanResolve(q, t)
             \/ \E t \in Sessions : Apply(q, t)
             \/ Reject(q) \/ Abort(q) \/ SaveRegistry(q)
    BY <1>1, JobKinds
  <2>4. CASE UNCHANGED <<names, metadata>>
    BY <2>4
  <2>5. CASE Codex(q)
    <3>1. pc[q] = "idle" /\ metadata' = metadata /\ \A r \in Profiles : r # q => names'[r] = names[r]
      BY <2>1, <2>5, CodexLocal, CodexKeeps DEF mirrorVars
    <3>2. p # q
      BY <1>1, <3>1 DEF Applying
    <3> QED
      BY <3>1, <3>2
  <2>6. CASE \E t \in Sessions : Apply(q, t)
    <3>1. PICK t \in Sessions : Apply(q, t)
      BY <2>6
    <3>2. Applying(q)
      BY <2>1, <3>1, ApplyLocal
    <3>3. p = q
      BY <2>1, <2>2, <3>2, HolderShows
    <3>4. CASE t # s
      BY <2>1, <3>1, <3>4, ApplyLocal
    <3>5. CASE t = s
      <4>1. CASE ExportWriteMetadata(p, s)
        <5>1. work[p][s] = "export" /\ names' = names
          BY <4>1 DEF ExportWriteMetadata, At, profileVars
        <5>2. metadata[s] = registry[p][s].copy
          BY <1>1, <5>1, WinnerHasChanged DEF NamesWait, NameWaits
        <5> QED
          BY <5>1, <5>2
      <4>2. CASE ImportAppendName(p, s)
        <5>1. work[p][s] = "import" /\ metadata' = metadata
          BY <4>2 DEF ImportAppendName, At, mirrorVars
        <5>2. seenProfile[p][s] = registry[p][s].copy
          BY <1>1, <5>1, WinnerHasChanged
        <5>3. names[p][s] = registry[p][s].copy.name
          BY <1>1, <5>1, <5>2 DEF NamesWait, NameWaits, Owned
        <5> QED
          BY <5>1, <5>3
      <4>3. CASE TombstoneRemoveMetadata(p, s)
        <5>1. ~Exists(metadata'[s]) /\ names' = names
          BY <2>1, <4>3 DEF TombstoneRemoveMetadata, profileVars, TypeOK, Exists, NoCopy
        <5> QED
          BY <5>1 DEF Exists
      <4> QED
        BY <2>4, <3>1, <3>3, <3>5, <4>1, <4>2, <4>3
           DEF Apply, BackupLoser, ExportRemovePrevious, ExportWriteRollout, ImportRemovePrevious,
               ImportWriteRollout, TombstoneRemoveRollout, TombstoneWrite, DeleteProfileRollout,
               profileVars, mirrorVars
    <3> QED
      BY <3>4, <3>5
  <2> QED
    BY <2>3, <2>4, <2>5, <2>6
       DEF Begin, Enter, ScanLive, PlanSync, PlanResolve, Reject, Abort, SaveRegistry,
           mirrorVars, profileVars
<1>2. Init => ThreeWayInv /\ NamesWait
  BY InitThreeWay DEF Init, NamesWait, NameWaits, NoWork
<1>3. ThreeWayInv /\ NamesWait /\ [Next]_vars => (ThreeWayInv /\ NamesWait)'
  BY StepThreeWay, StepNames DEF ThreeWayInv, MergeInv, ReplicaInv
<1>4. ThreeWayInv /\ NamesWait /\ [Next]_vars =>
        [\A p \in Profiles, s \in Sessions :
           job[p].kind = "sync" /\ Applying(p) /\ Owned(registry[p][s]) => Kept1(p, s)]_vars
  BY <1>1
<1> QED
  BY <1>2, <1>3, <1>4, PTL DEF Spec, RenamesMerge
=============================================================================
