------------------------- MODULE ProjectRunsProofs -------------------------
(***************************************************************************)
(* What any number of terminals, checkouts and profiles preserve.  As long *)
(* as no checkout is renamed and every profile works in one checkout, no   *)
(* session is tombstoned that nobody deleted, directories keep what they   *)
(* mean, and a run shares what it created.  In any case sessions stay      *)
(* private, and a synchronization leaves nothing to do.                    *)
(***************************************************************************)
EXTENDS ProjectRuns, SessionMergeProofs

LEMMA ConstantLines ==
    /\ Portable \in Line
    /\ \A dir \in Paths : dir \in Line /\ dir # Portable
BY LineAssumption

LEMMA CopyOfType ==
    ASSUME NEW lines \in Seq(Line)
    PROVE  /\ CopyOf(lines) \in Copy
           /\ CopyOf(lines).lines = lines
           /\ Exists(CopyOf(lines)) <=> lines # <<>>
BY NoCopyType DEF CopyOf, NoCopy, Copy, Exists

LEMMA ElementType ==
    ASSUME NEW S, NEW lines \in Seq(S)
    PROVE  \A i \in DOMAIN lines : lines[i] \in S
OBVIOUS

LEMMA MirrorLineType ==
    ASSUME NEW entry \in Entry
    PROVE  \A i \in DOMAIN entry.lines : entry.lines[i].turn \in Turn
<1>1. entry.lines \in Seq(MirrorLine)
  BY DEF Entry
<1>2. \A i \in DOMAIN entry.lines : entry.lines[i] \in MirrorLine
  BY <1>1, ElementType
<1> QED
  BY <1>2 DEF MirrorLine

(***************************************************************************)
(* Reading and writing a rollout keep its length.                          *)
(***************************************************************************)
LEMMA TurnType ==
    ASSUME NEW turn \in Turn
    PROVE  /\ turn.cwd \in Paths /\ turn.cwd \in Line /\ turn.cwd # Portable /\ turn.meant \in Line
           /\ \A dir \in Paths : /\ [turn EXCEPT !.cwd = dir] \in Turn
                                /\ [turn EXCEPT !.cwd = dir].cwd = dir
                                /\ [turn EXCEPT !.cwd = dir].meant = turn.meant
BY ConstantLines DEF Turn

LEMMA MappedLines ==
    ASSUME NEW lines \in Seq(Turn), NEW dir \in Paths
    PROVE  /\ Canonical(lines, dir) \in Seq(Line)
           /\ Exported(lines, dir) \in Seq(MirrorLine)
           /\ Len(Canonical(lines, dir)) = Len(lines)
           /\ Len(Exported(lines, dir)) = Len(lines)
<1>1. DOMAIN lines = 1..Len(lines) /\ Len(lines) \in Nat
  OBVIOUS
<1>2. \A i \in 1..Len(lines) : lines[i] \in Turn /\ lines[i].cwd \in Line
  BY <1>1, TurnType
<1>3. Canonical(lines, dir) \in [1..Len(lines) -> Line]
  BY <1>1, <1>2, ConstantLines DEF Canonical
<1>4. Exported(lines, dir) \in [1..Len(lines) -> MirrorLine]
  BY <1>1, <1>2 DEF Exported, MirrorLine
<1>5. \A S : \A f \in [1..Len(lines) -> S] : f \in Seq(S) /\ Len(f) = Len(lines)
  BY <1>1
<1> QED
  BY <1>3, <1>4, <1>5

LEMMA MirrorLines ==
    ASSUME NEW entry \in Entry, NEW dir \in Paths
    PROVE  /\ Stored(entry) \in Seq(Line)
           /\ Materialized(entry, dir) \in Seq(Turn)
           /\ Len(Stored(entry)) = Len(entry.lines)
           /\ Len(Materialized(entry, dir)) = Len(entry.lines)
<1> DEFINE lines == entry.lines
<1>1. lines \in Seq(MirrorLine)
  BY DEF Entry
<1>2. DOMAIN lines = 1..Len(lines) /\ Len(lines) \in Nat
  BY <1>1
<1>3. \A i \in 1..Len(lines) : /\ lines[i].turn \in Turn
                               /\ lines[i].turn.cwd \in Line
                               /\ [lines[i].turn EXCEPT !.cwd = dir] \in Turn
  <2>1. \A i \in 1..Len(lines) : lines[i].turn \in Turn
    BY <1>2, MirrorLineType
  <2> QED
    BY <2>1, TurnType
<1>4. Stored(entry) \in [1..Len(lines) -> Line]
  BY <1>2, <1>3, ConstantLines DEF Stored
<1>5. Materialized(entry, dir) \in [1..Len(lines) -> Turn]
  BY <1>2, <1>3 DEF Materialized
<1> HIDE DEF lines
<1>6. \A S : \A f \in [1..Len(lines) -> S] : f \in Seq(S) /\ Len(f) = Len(lines)
  BY <1>2
<1> QED
  BY <1>4, <1>5, <1>6 DEF lines

(***************************************************************************)
(* An export reads back as it was scanned.                                 *)
(***************************************************************************)
LEMMA ExportReadsBack ==
    ASSUME NEW lines \in Seq(Turn), NEW dir \in Paths, NEW entry,
           entry.lines = Exported(lines, dir)
    PROVE  Stored(entry) = Canonical(lines, dir)
<1>1. /\ DOMAIN entry.lines = DOMAIN lines
      /\ \A i \in DOMAIN lines : /\ entry.lines[i].turn = lines[i]
                                /\ entry.lines[i].mapped = (i \in PortableLines(lines, dir))
  BY DEF Exported
<1> QED
  BY <1>1 DEF Stored, Canonical

LEMMA EmptyLines ==
    ASSUME NEW S, NEW lines \in Seq(S)
    PROVE  /\ lines = <<>> <=> Len(lines) = 0
           /\ lines # <<>> => 1 \in DOMAIN lines /\ Head(lines) = lines[1]
OBVIOUS

LEMMA StoredEmpty ==
    ASSUME NEW entry \in Entry
    PROVE  Stored(entry) = <<>> <=> entry.lines = <<>>
<1>1. entry.lines \in Seq(MirrorLine)
  BY DEF Entry
<1>2. entry.lines = <<>> => Stored(entry) = <<>>
  BY DEF Stored
<1>3. entry.lines # <<>> => 1 \in DOMAIN Stored(entry)
  BY <1>1, EmptyLines DEF Stored
<1> QED
  BY <1>2, <1>3

(***************************************************************************)
(* A rollout of the checkout starts with Portable in the mirror, and with  *)
(* the root of the checkout wherever it is imported.                       *)
(***************************************************************************)
LEMMA CanonicalHead ==
    ASSUME NEW lines \in Seq(Turn), NEW dir \in Paths, InProject(lines, dir)
    PROVE  Canonical(lines, dir) # <<>> /\ Head(Canonical(lines, dir)) = Portable
<1>1. Canonical(lines, dir) \in Seq(Line) /\ Len(Canonical(lines, dir)) = Len(lines)
  BY MappedLines
<1>2. 1 \in DOMAIN lines /\ lines[1].cwd = dir /\ Len(lines) # 0
  BY EmptyLines DEF InProject
<1>3. Canonical(lines, dir)[1] = Portable
  BY <1>2 DEF Canonical, PortableLines
<1> QED
  BY <1>1, <1>2, <1>3, EmptyLines

LEMMA MaterializedHead ==
    ASSUME NEW entry \in Entry, NEW dir \in Paths,
           entry.lines # <<>>, Head(Stored(entry)) = Portable
    PROVE  InProject(Materialized(entry, dir), dir)
<1>1. /\ Stored(entry) \in Seq(Line) /\ Materialized(entry, dir) \in Seq(Turn)
      /\ entry.lines \in Seq(MirrorLine)
      /\ Len(Stored(entry)) = Len(entry.lines) /\ Len(Materialized(entry, dir)) = Len(entry.lines)
  BY MirrorLines DEF Entry
<1>2. /\ Head(Stored(entry)) = Stored(entry)[1]
      /\ Materialized(entry, dir) # <<>>
      /\ Head(Materialized(entry, dir)) = Materialized(entry, dir)[1]
      /\ 1 \in DOMAIN entry.lines
  BY <1>1, EmptyLines
<1>3. entry.lines[1].turn \in Turn
  BY <1>2, MirrorLineType
<1>4. entry.lines[1].mapped
  BY <1>2, <1>3, TurnType DEF Stored
<1>5. Materialized(entry, dir)[1].cwd = dir
  <2>1. Materialized(entry, dir)[1] = [entry.lines[1].turn EXCEPT !.cwd = dir]
    BY <1>2, <1>4 DEF Materialized
  <2> QED
    BY <1>3, <2>1, TurnType
<1> QED
  BY <1>2, <1>5 DEF InProject

LEMMA ScanType ==
    ASSUME TypeOK, NEW p \in Profiles, NEW c \in Checkouts, NEW s \in Sessions
    PROVE  /\ ScanProfile(p, c, s) \in Seq(Line)
           /\ ScanProfile(p, c, s) # <<>> <=> InProject(home[p][s], root[c])
           /\ ScanProfile(p, c, s) # <<>> => Head(ScanProfile(p, c, s)) = Portable
<1>1. home[p][s] \in Seq(Turn) /\ root[c] \in Paths
  BY DEF TypeOK
<1> QED
  BY <1>1, MappedLines, CanonicalHead DEF ScanProfile

LEMMA TerminalPlaces ==
    ASSUME NEW t \in Terminals
    PROVE  ProfileOf[t] \in Profiles /\ CheckoutOf[t] \in Checkouts /\ CheckoutOf[t] \in Repositories
BY TerminalsAssumption DEF Repositories
-----------------------------------------------------------------------------
(***************************************************************************)
(* What a verdict asks for: a session is imported from a mirror that holds *)
(* it, tombstoned when the profile lost what it managed, and deleted under *)
(* a tombstone.  A registration it leaves without a tombstone describes a  *)
(* session the profile keeps, or was there before.                         *)
(***************************************************************************)
LEMMA DecideGrounds ==
    ASSUME NEW project, NEW profile, NEW tombstone, NEW base, NEW isEligible
    PROVE  LET v == Decide(project, profile, tombstone, base, isEligible)
           IN  /\ v.action = "import" => Exists(project)
               /\ v.action = "export" => Exists(profile)
               /\ v.action = "tombstone" => /\ ~Exists(profile) /\ Exists(project)
                                            /\ Owned(base) /\ ~base.tombstone
               /\ v.action = "delete" => tombstone # <<>>
               /\ v.registration.tombstone =>
                    \/ tombstone # <<>>
                    \/ v.action = "tombstone"
                    \/ v.registration = base
               /\ Owned(v.registration) /\ ~v.registration.tombstone =>
                    \/ v.action \in {"import", "error", "conflict"}
                    \/ Exists(profile) /\ v.action # "delete"
<1> DEFINE v == Decide(project, profile, tombstone, base, isEligible)
<1>0. /\ \A a, r : Do(a, r).action = a /\ Do(a, r).registration = r
      /\ \A copy : RegistrationFor(copy).tombstone = FALSE /\ RegistrationFor(copy).copy = copy
      /\ \A lines : TombstoneRegistration(lines).tombstone = TRUE
  BY DEF Do, RegistrationFor, TombstoneRegistration
<1>1. CASE tombstone # <<>> /\ Exists(project)
  BY <1>0, <1>1 DEF Decide
<1>2. CASE tombstone # <<>> /\ ~Exists(project)
  BY <1>0, <1>2 DEF Decide, DecideTombstoned
<1>3. CASE tombstone = <<>> /\ ~Exists(project) /\ ~Exists(profile)
  BY <1>0, <1>3 DEF Decide, DecideNeither
<1>4. CASE tombstone = <<>> /\ (Exists(project) \/ Exists(profile)) /\ base.tombstone
  BY <1>0, <1>4 DEF Decide
<1>5. CASE tombstone = <<>> /\ Exists(project) /\ ~Exists(profile) /\ ~base.tombstone
  BY <1>0, <1>5 DEF Decide, DecideProjectOnly
<1>6. CASE tombstone = <<>> /\ ~Exists(project) /\ Exists(profile) /\ ~base.tombstone
  BY <1>0, <1>6 DEF Decide, DecideProfileOnly
<1>7. CASE tombstone = <<>> /\ Exists(project) /\ Exists(profile) /\ ~base.tombstone
  BY <1>0, <1>7 DEF Decide, DecideBoth
<1> QED
  BY <1>1, <1>2, <1>3, <1>4, <1>5, <1>6, <1>7

LEMMA VerdictType ==
    ASSUME TypeOK, NEW t \in Terminals, NEW s \in Sessions
    PROVE  VerdictOn(t, s) \in Verdict
<1> DEFINE p == ProfileOf[t]
           c == CheckoutOf[t]
<1>1. /\ Stored(mirror[c][s]) \in Seq(Line) /\ mirror[c][s].tombstone \in Seq(Line)
      /\ registry[p][s] \in Registration
      /\ ScanProfile(p, c, s) \in Seq(Line)
  <2>1. mirror[c][s] \in Entry /\ root[c] \in Paths
    BY TerminalPlaces DEF TypeOK
  <2>2. Stored(mirror[c][s]) \in Seq(Line)
    BY <2>1, MirrorLines
  <2> QED
    BY <2>1, <2>2, TerminalPlaces, ScanType DEF TypeOK, Entry
<1>2. CopyOf(Stored(mirror[c][s])) \in Copy /\ CopyOf(ScanProfile(p, c, s)) \in Copy
  BY <1>1, CopyOfType
<1> HIDE DEF p, c
<1>3. Decide(CopyOf(Stored(mirror[c][s])), CopyOf(ScanProfile(p, c, s)),
             mirror[c][s].tombstone, registry[p][s], EligibleSession(t, s)) \in Verdict
  BY <1>1, <1>2, DecideType
<1> QED
  BY <1>3 DEF VerdictOn, Decision, p, c

(***************************************************************************)
(* The same for a session of the model: what a synchronization of terminal *)
(* t decides on it, in terms of the state.                                 *)
(***************************************************************************)
LEMMA VerdictGrounds ==
    ASSUME TypeOK, NEW t \in Terminals, NEW s \in Sessions
    PROVE  LET v     == VerdictOn(t, s)
               entry == mirror[CheckoutOf[t]][s]
               base  == registry[ProfileOf[t]][s]
               here  == InProject(home[ProfileOf[t]][s], root[CheckoutOf[t]])
           IN  /\ v.action = "import" => entry.lines # <<>>
               /\ v.action = "export" => here
               /\ v.action = "tombstone" => ~here /\ Owned(base) /\ ~base.tombstone
               /\ v.action = "delete" => entry.tombstone # <<>>
               /\ v.registration.tombstone =>
                    entry.tombstone # <<>> \/ v.action = "tombstone" \/ v.registration = base
               /\ Owned(v.registration) /\ ~v.registration.tombstone =>
                    v.action \in {"import", "error", "conflict"} \/ (here /\ v.action # "delete")
<1> DEFINE p == ProfileOf[t]
           c == CheckoutOf[t]
<1>1. /\ Stored(mirror[c][s]) \in Seq(Line)
      /\ Stored(mirror[c][s]) = <<>> <=> mirror[c][s].lines = <<>>
      /\ ScanProfile(p, c, s) \in Seq(Line)
      /\ ScanProfile(p, c, s) # <<>> <=> InProject(home[p][s], root[c])
  <2>1. mirror[c][s] \in Entry /\ root[c] \in Paths
    BY TerminalPlaces DEF TypeOK
  <2>2. /\ Stored(mirror[c][s]) \in Seq(Line)
        /\ Stored(mirror[c][s]) = <<>> <=> mirror[c][s].lines = <<>>
    BY <2>1, MirrorLines, StoredEmpty
  <2> QED
    BY <2>2, TerminalPlaces, ScanType
<1>2. /\ Exists(CopyOf(Stored(mirror[c][s]))) <=> mirror[c][s].lines # <<>>
      /\ Exists(CopyOf(ScanProfile(p, c, s))) <=> InProject(home[p][s], root[c])
  BY <1>1, CopyOfType
<1> HIDE DEF p, c
<1> QED
  BY <1>2, DecideGrounds DEF VerdictOn, Decision, p, c
-----------------------------------------------------------------------------
LEMMA InitType == Init => TypeOK
<1> SUFFICES ASSUME Init PROVE TypeOK
  OBVIOUS
<1>1. <<>> \in Seq(Turn) /\ NoEntry \in Entry /\ NoRegistration \in Registration
  BY NoCopyType DEF NoEntry, Entry
<1> QED
  BY <1>1, PlacesAssumption DEF Init, TypeOK, Stage

LEMMA ContinueType ==
    ASSUME TypeOK, NEW t \in Terminals, NEW next \in Stage, Continue(t, next)
    PROVE  /\ lock' \in Terminals \cup {Free}
           /\ stage' \in [Terminals -> Stage]
           /\ before' \in [Terminals -> SUBSET Sessions]
           /\ eligible' \in [Terminals -> SUBSET Sessions]
           /\ created' \in [Terminals -> SUBSET Sessions]
BY DEF TypeOK, Continue

LEMMA FinishSyncType ==
    ASSUME TypeOK, NEW t \in Terminals, FinishSync(t)
    PROVE  TypeOK'
<1> DEFINE p == ProfileOf[t]
           c == CheckoutOf[t]
<1>1. p \in Profiles /\ c \in Checkouts /\ c \in Repositories
  BY TerminalPlaces
<1>2. ASSUME NEW s \in Sessions
      PROVE  /\ VerdictOn(t, s).registration \in Registration
             /\ EntryAfter(mirror[c][s], home[p][s], root[c], VerdictOn(t, s).action) \in Entry
             /\ LinesAfter(home[p][s], mirror[c][s], root[c], VerdictOn(t, s).action) \in Seq(Turn)
  <2>1. VerdictOn(t, s).registration \in Registration
    BY VerdictType DEF Verdict
  <2>2. mirror[c][s] \in Entry /\ home[p][s] \in Seq(Turn) /\ root[c] \in Paths
    BY <1>1 DEF TypeOK
  <2> HIDE DEF p, c
  <2>3. /\ Exported(home[p][s], root[c]) \in Seq(MirrorLine)
        /\ Stored(mirror[c][s]) \in Seq(Line)
        /\ Materialized(mirror[c][s], root[c]) \in Seq(Turn)
    BY <2>2, MappedLines, MirrorLines
  <2>4. EntryAfter(mirror[c][s], home[p][s], root[c], VerdictOn(t, s).action) \in Entry
    BY <2>2, <2>3 DEF EntryAfter, Entry
  <2> QED
    BY <2>1, <2>2, <2>3, <2>4 DEF LinesAfter
<1>3. /\ [s \in Sessions |-> EntryAfter(mirror[c][s], home[p][s], root[c], VerdictOn(t, s).action)]
            \in [Sessions -> Entry]
      /\ [s \in Sessions |-> LinesAfter(home[p][s], mirror[c][s], root[c], VerdictOn(t, s).action)]
            \in [Sessions -> Seq(Turn)]
      /\ [s \in Sessions |-> VerdictOn(t, s).registration] \in [Sessions -> Registration]
  BY <1>2
<1>4. /\ mirror' \in [Repositories -> [Sessions -> Entry]]
      /\ home' \in [Profiles -> [Sessions -> Seq(Turn)]]
      /\ registry' \in [Profiles -> [Sessions -> Registration]]
  BY <1>1, <1>3 DEF FinishSync, TypeOK
<1>5. optedIn' \subseteq Sessions
  BY DEF FinishSync, TypeOK, SnapshotProfile
<1>6. /\ lock' \in Terminals \cup {Free}
      /\ stage' \in [Terminals -> Stage]
      /\ before' \in [Terminals -> SUBSET Sessions]
      /\ eligible' \in [Terminals -> SUBSET Sessions]
      /\ created' \in [Terminals -> SUBSET Sessions]
  <2>1. Continue(t, IF stage[t] = "preRun" THEN "snapshot" ELSE "idle")
    BY DEF FinishSync
  <2>2. (IF stage[t] = "preRun" THEN "snapshot" ELSE "idle") \in Stage
    BY DEF Stage
  <2> QED
    BY <2>1, <2>2, ContinueType
<1>7. UNCHANGED <<root, initialized, pulled, born, deleted, countVars>>
  BY DEF FinishSync
<1> QED
  BY <1>4, <1>5, <1>6, <1>7 DEF TypeOK, countVars

LEMMA CommandType ==
    ASSUME TypeOK, NEW t \in Terminals, Command(t)
    PROVE  TypeOK'
<1> USE DEF repoVars, profileVars, historyVars, countVars
<1>0. "idle" \in Stage /\ "codex" \in Stage /\ "leaving" \in Stage /\ "postRun" \in Stage
  BY DEF Stage, Syncing, InCodex
<1>1. CASE EndStatus(t)
  BY <1>0, <1>1, ContinueType DEF EndStatus, TypeOK
<1>2. CASE FinishSync(t)
  BY <1>2, FinishSyncType
<1>3. CASE FailSync(t)
  BY <1>0, <1>3, ContinueType DEF FailSync, TypeOK
<1>4. CASE SnapshotBefore(t)
  BY <1>0, <1>4 DEF SnapshotBefore, TypeOK, SnapshotProfile
<1>5. CASE CodexExit(t)
  BY <1>0, <1>5 DEF CodexExit, TypeOK, SnapshotProfile, NewSessions
<1>6. CASE CloseShell(t)
  BY <1>0, <1>6 DEF CloseShell, TypeOK
<1>7. CASE StartPostRun(t)
  BY <1>0, <1>7 DEF StartPostRun, Take, TypeOK
<1>8. CASE PostRunRefused(t)
  BY <1>0, <1>8, ContinueType DEF PostRunRefused, TypeOK
<1>9. CASE LaunchFails(t)
  BY <1>0, <1>9, ContinueType DEF LaunchFails, TypeOK
<1> QED
  BY <1>1, <1>2, <1>3, <1>4, <1>5, <1>6, <1>7, <1>8, <1>9 DEF Command

\* What Codex may write next.
Turns(t) == {TurnIn(t, dir) : dir \in Directories(t)}

LEMMA CodexTurns ==
    ASSUME TypeOK, NEW t \in Terminals
    PROVE  Turns(t) \subseteq Turn /\ Directories(t) \subseteq Paths
<1>1. Directories(t) \subseteq Paths
  BY TerminalPlaces, TerminalsAssumption, PlacesAssumption DEF Directories, TypeOK
<1> QED
  BY <1>1, ConstantLines DEF Turns, TurnIn, Turn

LEMMA CodexType ==
    ASSUME TypeOK, NEW t \in Terminals, Codex(t)
    PROVE  TypeOK'
<1> DEFINE p == ProfileOf[t]
<1>1. PICK s \in Sessions : CodexCreate(t, s) \/ CodexAppend(t, s) \/ CodexDelete(t, s)
  BY DEF Codex
<1>2. p \in Profiles /\ Turns(t) \subseteq Turn
  BY TerminalPlaces, CodexTurns
<1>3. home' \in [Profiles -> [Sessions -> Seq(Turn)]]
  <2>1. CASE CodexCreate(t, s)
    <3>1. PICK turn \in Turns(t) : home' = [home EXCEPT ![p][s] = <<turn>>]
      BY <2>1 DEF CodexCreate, Turns
    <3>2. <<turn>> \in Seq(Turn)
      BY <1>2
    <3> QED
      BY <1>2, <3>1, <3>2 DEF TypeOK
  <2>2. CASE CodexAppend(t, s)
    <3>1. PICK turn \in Turns(t) : home' = [home EXCEPT ![p][s] = Append(@, turn)]
      BY <2>2 DEF CodexAppend, Turns
    <3>2. Append(home[p][s], turn) \in Seq(Turn)
      BY <1>2 DEF TypeOK
    <3> QED
      BY <1>2, <3>1, <3>2 DEF TypeOK
  <2>3. CASE CodexDelete(t, s)
    BY <1>2, <2>3 DEF CodexDelete, TypeOK
  <2> QED
    BY <1>1, <2>1, <2>2, <2>3
<1>4. created' \in [Terminals -> SUBSET Sessions]
  <2>1. created' \in {created, [created EXCEPT ![t] = @ \cup {s}]}
    BY <1>1 DEF CodexCreate, CodexAppend, CodexDelete
  <2>2. created[t] \cup {s} \in SUBSET Sessions /\ created \in [Terminals -> SUBSET Sessions]
    BY DEF TypeOK
  <2> QED
    BY <2>1, <2>2
<1>5. born' \in [Sessions -> {"no", "before", "after"}] /\ deleted' \subseteq Sessions
  BY <1>1 DEF CodexCreate, CodexAppend, CodexDelete, TypeOK
<1>6. CodexStep(t)
  BY <1>1 DEF CodexCreate, CodexAppend, CodexDelete
<1> QED
  BY <1>3, <1>4, <1>5, <1>6 DEF CodexStep, TypeOK, repoVars

LEMMA ExchangeType ==
    ASSUME TypeOK, NEW c \in Checkouts, Exchange(c)
    PROVE  TypeOK'
<1>1. \A ours : Merge(c, ours) \in [Sessions -> Entry]
  BY DEF Merge, TypeOK, Repositories
<1>2. /\ mirror' \in [Repositories -> [Sessions -> Entry]]
      /\ pulled' \in [Checkouts -> [Sessions -> Entry]]
  <2>1. PICK ours \in SUBSET Contested(c) :
          /\ mirror' = [mirror EXCEPT ![c] = Merge(c, ours), ![Origin] = Merge(c, ours)]
          /\ pulled' = [pulled EXCEPT ![c] = Merge(c, ours)]
    BY DEF Exchange
  <2> QED
    BY <1>1, <2>1 DEF TypeOK
<1> QED
  BY <1>2 DEF Exchange, TypeOK, Repositories, profileVars, terminalVars, historyVars, countVars

LEMMA StartType ==
    ASSUME TypeOK, NEW t \in Terminals, Start(t)
    PROVE  TypeOK'
<1> USE DEF repoVars, profileVars, historyVars, countVars
<1>0. "preRun" \in Stage /\ "bare" \in Stage /\ "sync" \in Stage /\ "import" \in Stage
  BY DEF Stage, Syncing, InCodex
<1>1. CASE StartRun(t)
  BY <1>0, <1>1 DEF StartRun, Take, TypeOK
<1>2. CASE OpenShell(t)
  BY <1>0, <1>2 DEF OpenShell, TypeOK
<1>3. CASE StartSync(t)
  BY <1>0, <1>3 DEF StartSync, Take, TypeOK
<1>4. CASE InitProject(t)
  BY <1>0, <1>4, TerminalPlaces DEF InitProject, Take, TypeOK
<1> QED
  BY <1>1, <1>2, <1>3, <1>4 DEF Start

LEMMA KillType ==
    ASSUME TypeOK, NEW t \in Terminals, Kill(t)
    PROVE  TypeOK'
<1>1. "idle" \in Stage /\ "bare" \in Stage
  BY DEF Stage, InCodex
<1>2. Continue(t, "idle") \/ Continue(t, "bare")
  BY DEF Kill
<1> QED
  BY <1>1, <1>2, ContinueType DEF Kill, TypeOK, repoVars, profileVars, historyVars

LEMMA MoveType ==
    ASSUME TypeOK, NEW c \in Checkouts, Move(c)
    PROVE  TypeOK'
BY DEF Move, TypeOK, profileVars, terminalVars, historyVars

LEMMA NextType == ASSUME TypeOK, [RenamingNext]_vars PROVE TypeOK'
<1>1. CASE \E t \in Terminals : Start(t) \/ Command(t) \/ Codex(t) \/ Kill(t)
  BY <1>1, StartType, CommandType, CodexType, KillType
<1>2. CASE \E c \in Checkouts : Exchange(c) \/ Move(c)
  BY <1>2, ExchangeType, MoveType
<1>3. CASE UNCHANGED vars
  BY <1>3 DEF TypeOK, vars, repoVars, profileVars, terminalVars, historyVars, countVars
<1> QED
  BY <1>1, <1>2, <1>3 DEF Next, RenamingNext

(***************************************************************************)
(* Every variable of the model keeps its type.                             *)
(***************************************************************************)
THEOREM TypeCorrect == Spec => []TypeOK
<1>1. Init => TypeOK
  BY InitType
<1>2. TypeOK /\ [Next]_vars => TypeOK'
  BY NextType DEF RenamingNext
<1> QED
  BY <1>1, <1>2, PTL DEF Spec
-----------------------------------------------------------------------------
(***************************************************************************)
(* The steps of a command that touch neither rollouts, nor registrations,  *)
(* nor what users have done.                                               *)
(***************************************************************************)
Quiet(t) ==
    \/ Start(t)
    \/ EndStatus(t) \/ FailSync(t) \/ SnapshotBefore(t) \/ LaunchFails(t) \/ CodexExit(t)
    \/ CloseShell(t) \/ StartPostRun(t) \/ PostRunRefused(t)
    \/ Kill(t)

LEMMA QuietKeeps ==
    ASSUME NEW t \in Terminals, Quiet(t)
    PROVE  UNCHANGED <<root, mirror, pulled, home, registry, born, optedIn, deleted>>
BY DEF Quiet, Start, StartRun, OpenShell, StartSync, InitProject, EndStatus, FailSync,
       SnapshotBefore, LaunchFails, CodexExit, CloseShell, StartPostRun, PostRunRefused, Kill,
       repoVars, profileVars, historyVars

LEMMA StepCases ==
    ASSUME RenamingNext
    PROVE  \/ \E t \in Terminals : Quiet(t) \/ FinishSync(t) \/ Codex(t)
           \/ \E c \in Checkouts : Exchange(c)
           \/ ~Next /\ \E c \in Checkouts : Move(c)
BY DEF Next, RenamingNext, Quiet, Command

(***************************************************************************)
(* The effect of a synchronization, one session at a time.                 *)
(***************************************************************************)
LEMMA FinishSyncEffect ==
    ASSUME TypeOK, NEW t \in Terminals, FinishSync(t), NEW s \in Sessions
    PROVE  /\ VerdictOn(t, s).action \notin {"error", "conflict"}
           /\ registry'[ProfileOf[t]][s] = VerdictOn(t, s).registration
           /\ home'[ProfileOf[t]][s] =
                LinesAfter(home[ProfileOf[t]][s], mirror[CheckoutOf[t]][s],
                           root[CheckoutOf[t]], VerdictOn(t, s).action)
           /\ mirror'[CheckoutOf[t]][s] =
                EntryAfter(mirror[CheckoutOf[t]][s], home[ProfileOf[t]][s],
                           root[CheckoutOf[t]], VerdictOn(t, s).action)
<1> DEFINE p == ProfileOf[t]
           c == CheckoutOf[t]
<1>1. p \in Profiles /\ c \in Repositories
  BY TerminalPlaces
<1>2. VerdictOn(t, s).action \notin {"error", "conflict"}
  BY DEF FinishSync, Refused
<1>3. /\ mirror' = [mirror EXCEPT ![c] = [x \in Sessions |->
                      EntryAfter(mirror[c][x], home[p][x], root[c], VerdictOn(t, x).action)]]
      /\ home' = [home EXCEPT ![p] = [x \in Sessions |->
                    LinesAfter(home[p][x], mirror[c][x], root[c], VerdictOn(t, x).action)]]
      /\ registry' = [registry EXCEPT ![p] = [x \in Sessions |-> VerdictOn(t, x).registration]]
  BY DEF FinishSync
<1> HIDE DEF p, c
<1>4. registry'[p][s] = VerdictOn(t, s).registration
  BY <1>1, <1>3 DEF TypeOK
<1>5. home'[p][s] = LinesAfter(home[p][s], mirror[c][s], root[c], VerdictOn(t, s).action)
  BY <1>1, <1>3 DEF TypeOK
<1>6. mirror'[c][s] = EntryAfter(mirror[c][s], home[p][s], root[c], VerdictOn(t, s).action)
  BY <1>1, <1>3 DEF TypeOK
<1> QED
  BY <1>2, <1>4, <1>5, <1>6 DEF p, c

(***************************************************************************)
(* What can be read of the mirror afterwards.                              *)
(***************************************************************************)
LEMMA StoredAfter ==
    ASSUME TypeOK, NEW t \in Terminals, FinishSync(t), NEW s \in Sessions
    PROVE  LET v      == VerdictOn(t, s)
               entry  == mirror[CheckoutOf[t]][s]
               entry2 == mirror'[CheckoutOf[t]][s]
               found  == ScanProfile(ProfileOf[t], CheckoutOf[t], s)
           IN  /\ v.action = "export" => /\ entry2.tombstone = <<>>
                                         /\ Stored(entry2) = found /\ found # <<>>
               /\ v.action = "tombstone" => /\ entry2.tombstone = Stored(entry)
                                            /\ Stored(entry2) = <<>> /\ entry2.lines = <<>>
               /\ v.action \notin {"export", "tombstone"} => entry2 = entry
               /\ entry \in Entry /\ entry2 \in Entry
               /\ Stored(entry) = <<>> <=> entry.lines = <<>>
               /\ Stored(entry2) = <<>> <=> entry2.lines = <<>>
<1> DEFINE p == ProfileOf[t]
           c == CheckoutOf[t]
           v == VerdictOn(t, s)
           entry == mirror[c][s]
           entry2 == mirror'[c][s]
<1>1. p \in Profiles /\ c \in Checkouts /\ c \in Repositories
  BY TerminalPlaces
<1>2. TypeOK'
  BY FinishSyncType
<1>3. entry \in Entry /\ entry2 \in Entry /\ home[p][s] \in Seq(Turn) /\ root[c] \in Paths
  BY <1>1, <1>2 DEF TypeOK
<1>4. entry2 = EntryAfter(entry, home[p][s], root[c], v.action)
  BY FinishSyncEffect
<1>5. v.action = "export" => InProject(home[p][s], root[c])
  BY VerdictGrounds
<1>6. v.action = "export" => ScanProfile(p, c, s) = Canonical(home[p][s], root[c])
                             /\ ScanProfile(p, c, s) # <<>>
  BY <1>1, <1>5, ScanType DEF ScanProfile
<1> HIDE DEF p, c, v, entry, entry2
<1>7. v.action = "export" => entry2.tombstone = <<>> /\ Stored(entry2) = ScanProfile(p, c, s)
  BY <1>3, <1>4, <1>6, ExportReadsBack DEF EntryAfter
<1>8. v.action = "tombstone" => entry2.tombstone = Stored(entry) /\ entry2.lines = <<>>
  BY <1>4 DEF EntryAfter
<1>9. v.action \notin {"export", "tombstone"} => entry2 = entry
  BY <1>4 DEF EntryAfter
<1>10. /\ Stored(entry) = <<>> <=> entry.lines = <<>>
       /\ Stored(entry2) = <<>> <=> entry2.lines = <<>>
  BY <1>3, StoredEmpty
<1> QED
  BY <1>3, <1>6, <1>7, <1>8, <1>9, <1>10 DEF p, c, v, entry, entry2

LEMMA FinishSyncFrame ==
    ASSUME TypeOK, NEW t \in Terminals, FinishSync(t)
    PROVE  /\ \A p \in Profiles \ {ProfileOf[t]} : home'[p] = home[p] /\ registry'[p] = registry[p]
           /\ \A r \in Repositories \ {CheckoutOf[t]} : mirror'[r] = mirror[r]
           /\ UNCHANGED <<root, initialized, born, deleted>>
BY TerminalPlaces DEF FinishSync, TypeOK

(***************************************************************************)
(* What Codex does to the rollouts of its profile: it starts one that did  *)
(* not exist anywhere, appends to one, or deletes one.                     *)
(***************************************************************************)
LEMMA CodexEffect ==
    ASSUME TypeOK, NEW t \in Terminals, Codex(t)
    PROVE  /\ UNCHANGED <<root, initialized, mirror, registry, stage, before, eligible, optedIn>>
           /\ \A p \in Profiles \ {ProfileOf[t]} : home'[p] = home[p]
           /\ deleted \subseteq deleted'
           /\ \A s \in Sessions :
                \/ home'[ProfileOf[t]][s] = home[ProfileOf[t]][s]
                \/ /\ home'[ProfileOf[t]][s] \in {<<turn>> : turn \in Turns(t)}
                   /\ born[s] = "no" /\ born'[s] = IF initialized = {} THEN "before" ELSE "after"
                \/ /\ home[ProfileOf[t]][s] # <<>>
                   /\ home'[ProfileOf[t]][s]
                        \in {Append(home[ProfileOf[t]][s], turn) : turn \in Turns(t)}
                \/ home'[ProfileOf[t]][s] = <<>> /\ s \in deleted'
           /\ \A s \in Sessions :
                born'[s] # born[s] => born[s] = "no" /\ born'[s] \in {"before", "after"}
<1> DEFINE p == ProfileOf[t]
<1>1. PICK x \in Sessions : CodexCreate(t, x) \/ CodexAppend(t, x) \/ CodexDelete(t, x)
  BY DEF Codex
<1>2. p \in Profiles
  BY TerminalPlaces
<1>3. UNCHANGED <<root, initialized, mirror, registry, stage, before, eligible, optedIn>>
  BY <1>1 DEF CodexCreate, CodexAppend, CodexDelete, CodexStep, repoVars
<1>4. CASE CodexCreate(t, x)
  <2>1. PICK new \in Turns(t) : home' = [home EXCEPT ![p][x] = <<new>>]
    BY <1>4 DEF CodexCreate, Turns
  <2>2. /\ born[x] = "no" /\ deleted' = deleted
        /\ born' = [born EXCEPT ![x] = IF initialized = {} THEN "before" ELSE "after"]
    BY <1>4 DEF CodexCreate
  <2> HIDE DEF p
  <2>3. /\ home'[p][x] = <<new>>
        /\ \A s \in Sessions \ {x} : home'[p][s] = home[p][s]
        /\ \A q \in Profiles \ {p} : home'[q] = home[q]
    BY <1>2, <2>1 DEF TypeOK
  <2>4. /\ born'[x] = IF initialized = {} THEN "before" ELSE "after"
        /\ \A s \in Sessions \ {x} : born'[s] = born[s]
    BY <2>2 DEF TypeOK
  <2>5. \A s \in Sessions :
          \/ home'[p][s] = home[p][s]
          \/ /\ home'[p][s] \in {<<turn>> : turn \in Turns(t)}
             /\ born[s] = "no" /\ born'[s] = IF initialized = {} THEN "before" ELSE "after"
    BY <2>2, <2>3, <2>4
  <2>6. \A s \in Sessions : born'[s] # born[s] => born[s] = "no" /\ born'[s] \in {"before", "after"}
    BY <2>2, <2>4
  <2>7. deleted \subseteq deleted' /\ \A q \in Profiles \ {p} : home'[q] = home[q]
    BY <2>2, <2>3
  <2> QED
    BY <1>3, <2>5, <2>6, <2>7 DEF p
<1>5. CASE CodexAppend(t, x)
  <2>1. PICK new \in Turns(t) : home' = [home EXCEPT ![p][x] = Append(@, new)]
    BY <1>5 DEF CodexAppend, Turns
  <2>2. home[p][x] # <<>> /\ born' = born /\ deleted' = deleted
    BY <1>5 DEF CodexAppend
  <2> HIDE DEF p
  <2>3. /\ home'[p][x] = Append(home[p][x], new)
        /\ \A s \in Sessions \ {x} : home'[p][s] = home[p][s]
        /\ \A q \in Profiles \ {p} : home'[q] = home[q]
    BY <1>2, <2>1 DEF TypeOK
  <2> QED
    BY <1>3, <2>2, <2>3 DEF p
<1>6. CASE CodexDelete(t, x)
  <2>1. /\ home' = [home EXCEPT ![p][x] = <<>>]
        /\ deleted' = deleted \cup {x} /\ born' = born
    BY <1>6 DEF CodexDelete
  <2> HIDE DEF p
  <2>2. /\ home'[p][x] = <<>>
        /\ \A s \in Sessions \ {x} : home'[p][s] = home[p][s]
        /\ \A q \in Profiles \ {p} : home'[q] = home[q]
    BY <1>2, <2>1 DEF TypeOK
  <2>3. deleted \subseteq deleted' /\ x \in deleted' /\ \A s \in Sessions : born'[s] = born[s]
    BY <2>1
  <2> QED
    BY <1>3, <2>2, <2>3 DEF p
<1> QED
  BY <1>1, <1>4, <1>5, <1>6

(***************************************************************************)
(* A merge leaves in every repository an entry some repository had.        *)
(***************************************************************************)
LEMMA ExchangeEffect ==
    ASSUME TypeOK, NEW c \in Checkouts, Exchange(c)
    PROVE  /\ \A r \in Repositories, s \in Sessions :
                mirror'[r][s] \in {mirror[r][s], mirror[c][s], mirror[Origin][s]}
           /\ c \in Repositories /\ Origin \in Repositories
           /\ initialized' # {}
           /\ UNCHANGED <<root, home, registry, stage, before, eligible, born, optedIn, deleted>>
<1>1. PICK ours \in SUBSET Contested(c) :
        mirror' = [mirror EXCEPT ![c] = Merge(c, ours), ![Origin] = Merge(c, ours)]
  BY DEF Exchange
<1>2. \A s \in Sessions : Merge(c, ours)[s] \in {mirror[c][s], mirror[Origin][s]}
  BY DEF Merge
<1>3. \A r \in Repositories : mirror'[r] \in {mirror[r], Merge(c, ours)}
  BY <1>1 DEF TypeOK
<1> QED
  BY <1>2, <1>3 DEF Exchange, Repositories, profileVars, terminalVars, historyVars
-----------------------------------------------------------------------------
LEMMA AppendInProject ==
    ASSUME NEW lines \in Seq(Turn), lines # <<>>, NEW turn \in Turn, NEW dir
    PROVE  /\ InProject(Append(lines, turn), dir) <=> InProject(lines, dir)
           /\ Append(lines, turn) # <<>>
<1> DEFINE longer == Append(lines, turn)
<1>1. longer \in Seq(Turn) /\ Len(longer) = Len(lines) + 1
  OBVIOUS
<1>2. Len(lines) \in Nat /\ Len(lines) # 0
  BY EmptyLines
<1>3. longer[1] = lines[1]
  BY <1>2
<1> HIDE DEF longer
<1>4. longer # <<>>
  BY <1>1, <1>2, EmptyLines
<1>5. Head(lines) = lines[1] /\ Head(longer) = longer[1]
  BY <1>1, <1>4, EmptyLines
<1> QED
  BY <1>3, <1>4, <1>5 DEF InProject, longer

LEMMA NewInProject ==
    ASSUME NEW turn, NEW dir
    PROVE  <<turn>> # <<>> /\ (InProject(<<turn>>, dir) <=> turn.cwd = dir)
<1>1. Head(<<turn>>) = turn
  OBVIOUS
<1> QED
  BY <1>1 DEF InProject
-----------------------------------------------------------------------------
(***************************************************************************)
(* The assumption about the users: a profile works in one checkout.        *)
(***************************************************************************)
StayPut ==
    \A t, u \in Terminals : ProfileOf[t] = ProfileOf[u] => CheckoutOf[t] = CheckoutOf[u]

Managed(t, s) ==
    Owned(registry[ProfileOf[t]][s]) /\ ~registry[ProfileOf[t]][s].tombstone

FoundAt(t, s) == InProject(home[ProfileOf[t]][s], root[CheckoutOf[t]])

RootsStay == root = HomePath

\* The scan finds every session the registration says is managed.
ManagedFound ==
    \A t \in Terminals, s \in Sessions : Managed(t, s) /\ s \notin deleted => FoundAt(t, s)

RegisteredDeleted ==
    \A t \in Terminals, s \in Sessions :
        registry[ProfileOf[t]][s].tombstone => s \in deleted

MirrorPortable ==
    \A r \in Repositories, s \in Sessions :
        mirror[r][s].lines # <<>> => Head(Stored(mirror[r][s])) = Portable

\* Codex never reuses an id that exists anywhere.
BornFirst ==
    /\ \A t \in Terminals, s \in Sessions : home[ProfileOf[t]][s] # <<>> => born[s] # "no"
    /\ \A r \in Repositories, s \in Sessions : mirror[r][s].lines # <<>> => born[s] # "no"

(***************************************************************************)
(* The inductive invariant behind TombstonesOnlyDeleted.                   *)
(***************************************************************************)
Steady ==
    /\ TypeOK
    /\ RootsStay
    /\ TombstonesOnlyDeleted
    /\ ManagedFound
    /\ RegisteredDeleted
    /\ MirrorPortable
    /\ BornFirst

LEMMA SteadyInit == Init => Steady
<1> SUFFICES ASSUME Init PROVE Steady
  OBVIOUS
<1>1. TypeOK
  BY InitType
<1>2. /\ \A r \in Repositories, s \in Sessions :
           mirror[r][s].lines = <<>> /\ mirror[r][s].tombstone = <<>>
      /\ \A t \in Terminals, s \in Sessions :
           /\ home[ProfileOf[t]][s] = <<>>
           /\ registry[ProfileOf[t]][s] = NoRegistration
  BY TerminalPlaces DEF Init, NoEntry
<1>3. ~Owned(NoRegistration) /\ ~NoRegistration.tombstone
  BY DEF NoRegistration, Owned, Exists, NoCopy
<1> QED
  BY <1>1, <1>2, <1>3 DEF Init, Steady, RootsStay, TombstonesOnlyDeleted, ManagedFound, Managed,
                          RegisteredDeleted, MirrorPortable, BornFirst

(***************************************************************************)
(* What a synchronization leaves in the profile and the mirror of its own  *)
(* terminal, for one session.                                              *)
(***************************************************************************)
LEMMA SteadySyncHere ==
    ASSUME Steady, NEW t \in Terminals, FinishSync(t), NEW s \in Sessions
    PROVE  LET p == ProfileOf[t]
               c == CheckoutOf[t]
           IN  /\ mirror'[c][s].tombstone # <<>> => s \in deleted
               /\ registry'[p][s].tombstone => s \in deleted
               /\ Owned(registry'[p][s]) /\ ~registry'[p][s].tombstone
                    => InProject(home'[p][s], root[c])
               /\ mirror'[c][s].lines # <<>> => /\ Head(Stored(mirror'[c][s])) = Portable
                                                /\ born[s] # "no"
               /\ home'[p][s] # <<>> => born[s] # "no"
<1> DEFINE p == ProfileOf[t]
           c == CheckoutOf[t]
           v == VerdictOn(t, s)
           entry == mirror[c][s]
           found == ScanProfile(p, c, s)
<1>0. TypeOK /\ p \in Profiles /\ c \in Checkouts /\ c \in Repositories
  BY TerminalPlaces DEF Steady
<1>1. /\ v.action \notin {"error", "conflict"}
      /\ registry'[p][s] = v.registration
      /\ home'[p][s] = LinesAfter(home[p][s], entry, root[c], v.action)
  BY <1>0, FinishSyncEffect
<1>2. /\ v.action = "import" => entry.lines # <<>>
      /\ v.action = "export" => FoundAt(t, s)
      /\ v.action = "tombstone" => ~FoundAt(t, s) /\ Managed(t, s)
      /\ v.action = "delete" => entry.tombstone # <<>>
      /\ v.registration.tombstone =>
           entry.tombstone # <<>> \/ v.action = "tombstone" \/ v.registration = registry[p][s]
      /\ Owned(v.registration) /\ ~v.registration.tombstone =>
           v.action \in {"import", "error", "conflict"} \/ (FoundAt(t, s) /\ v.action # "delete")
  BY <1>0, VerdictGrounds DEF FoundAt, Managed
<1>3. /\ entry.tombstone # <<>> => s \in deleted
      /\ Managed(t, s) /\ s \notin deleted => FoundAt(t, s)
      /\ registry[p][s].tombstone => s \in deleted
      /\ entry.lines # <<>> => Head(Stored(entry)) = Portable /\ born[s] # "no"
      /\ home[p][s] # <<>> => born[s] # "no"
  BY <1>0 DEF Steady, TombstonesOnlyDeleted, ManagedFound, RegisteredDeleted, MirrorPortable, BornFirst
<1>4. /\ found # <<>> <=> FoundAt(t, s)
      /\ found # <<>> => Head(found) = Portable
      /\ FoundAt(t, s) => home[p][s] # <<>>
  BY <1>0, ScanType DEF FoundAt, InProject
<1>5. entry.lines # <<>> => InProject(Materialized(entry, root[c]), root[c])
  <2>1. entry \in Entry /\ root[c] \in Paths
    BY <1>0 DEF TypeOK
  <2> HIDE DEF entry
  <2> QED
    BY <1>3, <2>1, MaterializedHead
<1>6. /\ v.action = "import" => home'[p][s] = Materialized(entry, root[c])
      /\ v.action = "delete" => home'[p][s] = <<>>
      /\ v.action \notin {"import", "delete"} => home'[p][s] = home[p][s]
  BY <1>1 DEF LinesAfter
<1>7. /\ v.action = "export" => /\ mirror'[c][s].tombstone = <<>>
                               /\ Stored(mirror'[c][s]) = found
      /\ v.action = "tombstone" => mirror'[c][s].lines = <<>>
      /\ v.action \notin {"export", "tombstone"} => mirror'[c][s] = entry
  BY <1>0, StoredAfter
<1> HIDE DEF p, c, v, entry, found
<1>8. mirror'[c][s].tombstone # <<>> => s \in deleted
  BY <1>2, <1>3, <1>7
<1>9. registry'[p][s].tombstone => s \in deleted
  BY <1>1, <1>2, <1>3
<1>10. Owned(registry'[p][s]) /\ ~registry'[p][s].tombstone => InProject(home'[p][s], root[c])
  <2>1. SUFFICES ASSUME Owned(v.registration), ~v.registration.tombstone
                 PROVE  InProject(home'[p][s], root[c])
    BY <1>1
  <2>2. CASE v.action = "import"
    BY <1>2, <1>5, <1>6, <2>2
  <2>3. CASE v.action # "import"
    <3>1. FoundAt(t, s) /\ v.action # "delete"
      BY <1>1, <1>2, <2>1, <2>3
    <3>2. home'[p][s] = home[p][s]
      BY <1>6, <2>3, <3>1
    <3> QED
      BY <3>1, <3>2 DEF FoundAt, p, c
  <2> QED
    BY <2>2, <2>3
<1>11. mirror'[c][s].lines # <<>> => Head(Stored(mirror'[c][s])) = Portable /\ born[s] # "no"
  BY <1>2, <1>3, <1>4, <1>7
<1>12. home'[p][s] # <<>> => born[s] # "no"
  BY <1>2, <1>3, <1>6
<1> QED
  BY <1>8, <1>9, <1>10, <1>11, <1>12 DEF p, c

LEMMA SteadySync ==
    ASSUME StayPut, Steady, NEW t \in Terminals, FinishSync(t)
    PROVE  Steady'
<1> DEFINE p == ProfileOf[t]
           c == CheckoutOf[t]
<1>0. TypeOK /\ p \in Profiles /\ c \in Repositories
  BY TerminalPlaces DEF Steady
<1>1. /\ \A q \in Profiles \ {p} : home'[q] = home[q] /\ registry'[q] = registry[q]
      /\ \A r \in Repositories \ {c} : mirror'[r] = mirror[r]
      /\ UNCHANGED <<root, initialized, born, deleted>>
  BY <1>0, FinishSyncFrame DEF FinishSync
<1>2. TypeOK'
  BY <1>0, FinishSyncType
<1>3. RootsStay'
  BY <1>1 DEF Steady, RootsStay
<1>4. ASSUME NEW r \in Repositories, NEW s \in Sessions
      PROVE  /\ mirror'[r][s].tombstone # <<>> => s \in deleted
             /\ mirror'[r][s].lines # <<>> => Head(Stored(mirror'[r][s])) = Portable /\ born[s] # "no"
  <2>1. CASE r = c
    BY <2>1, SteadySyncHere
  <2>2. CASE r # c
    BY <1>1, <2>2 DEF Steady, TombstonesOnlyDeleted, MirrorPortable, BornFirst
  <2> QED
    BY <2>1, <2>2
<1>5. ASSUME NEW u \in Terminals, NEW s \in Sessions
      PROVE  /\ registry'[ProfileOf[u]][s].tombstone => s \in deleted
             /\ Owned(registry'[ProfileOf[u]][s]) /\ ~registry'[ProfileOf[u]][s].tombstone
                   /\ s \notin deleted
                  => InProject(home'[ProfileOf[u]][s], root[CheckoutOf[u]])
             /\ home'[ProfileOf[u]][s] # <<>> => born[s] # "no"
  <2>1. CASE ProfileOf[u] = p
    <3>1. CheckoutOf[u] = c
      BY <2>1 DEF StayPut
    <3> QED
      BY <2>1, <3>1, SteadySyncHere
  <2>2. CASE ProfileOf[u] # p
    <3>1. ProfileOf[u] \in Profiles \ {p}
      BY <2>2, TerminalPlaces
    <3>2. registry'[ProfileOf[u]] = registry[ProfileOf[u]] /\ home'[ProfileOf[u]] = home[ProfileOf[u]]
      BY <1>1, <3>1
    <3> QED
      BY <3>2 DEF Steady, RegisteredDeleted, ManagedFound, Managed, FoundAt, BornFirst
  <2> QED
    BY <2>1, <2>2
<1> QED
  BY <1>1, <1>2, <1>3, <1>4, <1>5
     DEF Steady, TombstonesOnlyDeleted, ManagedFound, Managed, FoundAt, RegisteredDeleted,
         MirrorPortable, BornFirst

LEMMA SteadyCodex ==
    ASSUME StayPut, Steady, NEW t \in Terminals, Codex(t)
    PROVE  Steady'
<1> DEFINE p == ProfileOf[t]
<1>0. TypeOK /\ p \in Profiles /\ Turns(t) \subseteq Turn
  BY TerminalPlaces, CodexTurns DEF Steady
<1>1. /\ UNCHANGED <<root, mirror, registry>>
      /\ \A q \in Profiles \ {p} : home'[q] = home[q]
      /\ deleted \subseteq deleted'
      /\ \A s \in Sessions :
           \/ home'[p][s] = home[p][s]
           \/ /\ home'[p][s] \in {<<turn>> : turn \in Turns(t)}
              /\ born[s] = "no" /\ born'[s] = IF initialized = {} THEN "before" ELSE "after"
           \/ /\ home[p][s] # <<>>
              /\ home'[p][s] \in {Append(home[p][s], turn) : turn \in Turns(t)}
           \/ home'[p][s] = <<>> /\ s \in deleted'
      /\ \A s \in Sessions :
           born'[s] # born[s] => born[s] = "no" /\ born'[s] \in {"before", "after"}
  BY <1>0, CodexEffect
<1>3. ASSUME NEW u \in Terminals, NEW s \in Sessions
      PROVE  /\ Managed(u, s)' /\ s \notin deleted' => FoundAt(u, s)'
             /\ home'[ProfileOf[u]][s] # <<>> => born'[s] # "no"
  <2> DEFINE q == ProfileOf[u]
             dir == root[CheckoutOf[u]]
  <2>1. /\ Managed(u, s) /\ s \notin deleted => InProject(home[q][s], dir)
        /\ home[q][s] # <<>> => born[s] # "no"
        /\ InProject(home[q][s], dir) => home[q][s] # <<>>
    BY DEF Steady, ManagedFound, FoundAt, BornFirst, InProject
  <2>2. SUFFICES /\ Managed(u, s) /\ s \notin deleted' => InProject(home'[q][s], dir)
                 /\ home'[q][s] # <<>> => born'[s] # "no"
    BY <1>1 DEF Managed, FoundAt
  <2>3. CASE home'[q][s] = home[q][s]
    BY <1>1, <2>1, <2>3
  <2>4. CASE q = p /\ home[p][s] # <<>>
             /\ home'[p][s] \in {Append(home[p][s], turn) : turn \in Turns(t)}
    <3>1. home[p][s] \in Seq(Turn)
      BY <1>0 DEF TypeOK
    <3>2. PICK d \in Turns(t) : home'[p][s] = Append(home[p][s], d)
      BY <2>4
    <3>3. d \in Turn /\ home[p][s] # <<>>
      BY <1>0, <2>4
    <3> HIDE DEF p, q, dir
    <3>4. InProject(home[p][s], dir) => InProject(home'[p][s], dir)
      BY <3>1, <3>2, <3>3, AppendInProject
    <3> QED
      BY <1>1, <2>1, <2>4, <3>4
  <2>5. CASE born[s] = "no" /\ born'[s] # "no"
    BY <1>1, <2>1, <2>5
  <2>6. CASE home'[q][s] = <<>> /\ s \in deleted'
    BY <2>6
  <2>7. q \in Profiles
    BY TerminalPlaces
  <2> HIDE DEF q, dir, p
  <2> QED
    BY <1>1, <2>3, <2>4, <2>5, <2>6, <2>7
<1>4. \A s \in Sessions : born[s] # "no" => born'[s] # "no"
  BY <1>1
<1>5. TypeOK'
  BY <1>0, CodexType
<1> QED
  BY <1>1, <1>3, <1>4, <1>5
     DEF Steady, RootsStay, TombstonesOnlyDeleted, ManagedFound, RegisteredDeleted,
         MirrorPortable, BornFirst

LEMMA SteadyExchange ==
    ASSUME Steady, NEW c \in Checkouts, Exchange(c)
    PROVE  Steady'
<1>1. TypeOK /\ TypeOK'
  BY ExchangeType DEF Steady
<1>2. /\ \A r \in Repositories, s \in Sessions :
           mirror'[r][s] \in {mirror[r][s], mirror[c][s], mirror[Origin][s]}
      /\ c \in Repositories /\ Origin \in Repositories
      /\ UNCHANGED <<root, home, registry, born, deleted>>
  BY <1>1, ExchangeEffect
<1>4. \A r \in Repositories, s \in Sessions :
        /\ mirror'[r][s].tombstone # <<>> => s \in deleted
        /\ mirror'[r][s].lines # <<>> =>
             Head(Stored(mirror'[r][s])) = Portable /\ born[s] # "no"
  BY <1>2 DEF Steady, TombstonesOnlyDeleted, MirrorPortable, BornFirst
<1> QED
  BY <1>1, <1>2, <1>4
     DEF Steady, RootsStay, TombstonesOnlyDeleted, ManagedFound, Managed, FoundAt,
         RegisteredDeleted, MirrorPortable, BornFirst

LEMMA SteadyUnchanged ==
    ASSUME Steady, TypeOK', UNCHANGED <<root, mirror, home, registry, born, deleted>>
    PROVE  Steady'
BY DEF Steady, RootsStay, TombstonesOnlyDeleted, ManagedFound, Managed, FoundAt,
       RegisteredDeleted, MirrorPortable, BornFirst

LEMMA SteadyNext == ASSUME StayPut, Steady, [Next]_vars PROVE Steady'
<1>0. TypeOK /\ TypeOK'
  BY NextType DEF Steady, RenamingNext
<1>1. CASE \E t \in Terminals : Quiet(t)
  BY <1>0, <1>1, QuietKeeps, SteadyUnchanged
<1>2. CASE \E t \in Terminals : FinishSync(t)
  BY <1>2, SteadySync
<1>3. CASE \E t \in Terminals : Codex(t)
  BY <1>3, SteadyCodex
<1>4. CASE \E c \in Checkouts : Exchange(c)
  BY <1>4, SteadyExchange
<1>5. CASE UNCHANGED vars
  BY <1>0, <1>5, SteadyUnchanged DEF vars, repoVars, profileVars, historyVars
<1> QED
  BY <1>1, <1>2, <1>3, <1>4, <1>5, StepCases DEF RenamingNext

LEMMA SteadyHolds == StayPut => (Spec => []Steady)
<1> SUFFICES ASSUME StayPut PROVE Spec => []Steady
  OBVIOUS
<1>1. Init => Steady
  BY SteadyInit
<1>2. Steady /\ [Next]_vars => Steady'
  BY SteadyNext
<1> QED
  BY <1>1, <1>2, PTL DEF Spec

(***************************************************************************)
(* A synchronization reports a session deleted and tombstones it only when *)
(* some user deleted it, for any number of checkouts, profiles, terminals, *)
(* runs, merges and killed processes, as long as users stay put.           *)
(***************************************************************************)
THEOREM TombstonesOnlyForDeleted == StayPut => (Spec => []TombstonesOnlyDeleted)
<1> SUFFICES ASSUME StayPut PROVE Spec => []TombstonesOnlyDeleted
  OBVIOUS
<1>1. Steady => TombstonesOnlyDeleted
  BY DEF Steady
<1> QED
  BY <1>1, SteadyHolds, PTL
-----------------------------------------------------------------------------
(***************************************************************************)
(* Why sessions stay private, wherever checkouts move.  A session may be   *)
(* shared when it is not older than the project or its user asked for it.  *)
(***************************************************************************)
MayShare(s) == born[s] = "after" \/ s \in optedIn

EntriesShared ==
    \A r \in Repositories, s \in Sessions :
        /\ Known(mirror[r][s]) => MayShare(s)
        /\ \A lines \in {Stored(mirror[r][s]), mirror[r][s].tombstone} \ {<<>>} :
             Head(lines) = Portable

\* What a run exports as new is new.
EligibleShared == \A t \in Terminals : \A s \in eligible[t] : MayShare(s)

\* What a run has not seen before Codex started was created since, or imported.
UnseenShared ==
    \A t \in Terminals, s \in Sessions :
        stage[t] = "codex" /\ FoundAt(t, s) /\ s \notin before[t] => MayShare(s)

CommandsInitialized ==
    \A t \in Terminals : stage[t] \notin {"idle", "bare"} => initialized # {}

Private ==
    /\ TypeOK
    /\ EntriesShared
    /\ EligibleShared
    /\ UnseenShared
    /\ CommandsInitialized

LEMMA PrivateInit == Init => Private
<1> SUFFICES ASSUME Init PROVE Private
  OBVIOUS
<1>1. \A r \in Repositories, s \in Sessions :
        ~Known(mirror[r][s]) /\ Stored(mirror[r][s]) = <<>> /\ mirror[r][s].tombstone = <<>>
  BY DEF Init, NoEntry, Known, Stored
<1>2. \A t \in Terminals : stage[t] = "idle" /\ eligible[t] = {}
  BY DEF Init
<1> QED
  BY <1>1, <1>2, InitType
     DEF Private, EntriesShared, EligibleShared, UnseenShared, CommandsInitialized

(***************************************************************************)
(* A session that may be shared stays so.                                  *)
(***************************************************************************)
LEMMA MayShareStays ==
    ASSUME RenamingNext, TypeOK, NEW s \in Sessions, MayShare(s)
    PROVE  MayShare(s)'
<1>1. CASE \E t \in Terminals : Quiet(t)
  BY <1>1, QuietKeeps DEF MayShare
<1>2. CASE \E t \in Terminals : FinishSync(t)
  BY <1>2 DEF FinishSync, MayShare
<1>3. CASE \E t \in Terminals : Codex(t)
  BY <1>3, CodexEffect DEF MayShare
<1>4. CASE \E c \in Checkouts : Exchange(c) \/ Move(c)
  BY <1>4 DEF Exchange, Move, MayShare, historyVars
<1> QED
  BY <1>1, <1>2, <1>3, <1>4, StepCases

LEMMA ExportGrounds ==
    ASSUME NEW project, NEW profile, NEW tombstone, NEW base, NEW isEligible,
           Decide(project, profile, tombstone, base, isEligible).action = "export"
    PROVE  Exists(project) \/ isEligible
<1>1. \A a, r : Do(a, r).action = a
  BY DEF Do
<1>2. DecideTombstoned(profile, tombstone, base).action \in {"none", "delete"}
  BY <1>1 DEF DecideTombstoned
<1>3. DecideNeither(base).action \in {"none", "error"}
  BY <1>1 DEF DecideNeither
<1>4. DecideProfileOnly(profile, base, isEligible).action = "export" => isEligible
  BY <1>1 DEF DecideProfileOnly
<1>5. DecideProjectOnly(project, base).action \in {"tombstone", "import"}
  BY <1>1 DEF DecideProjectOnly
<1> QED
  BY <1>1, <1>2, <1>3, <1>4, <1>5 DEF Decide

LEMMA TombstoneGrounds ==
    ASSUME TypeOK, NEW t \in Terminals, NEW s \in Sessions,
           VerdictOn(t, s).action = "tombstone"
    PROVE  mirror[CheckoutOf[t]][s].lines # <<>>
<1> DEFINE p == ProfileOf[t]
           c == CheckoutOf[t]
<1>1. mirror[c][s] \in Entry
  BY TerminalPlaces DEF TypeOK
<1>2. Exists(CopyOf(Stored(mirror[c][s]))) <=> mirror[c][s].lines # <<>>
  <2>1. /\ Stored(mirror[c][s]) \in Seq(Line)
        /\ Stored(mirror[c][s]) = <<>> <=> mirror[c][s].lines = <<>>
    <3> HIDE DEF c
    <3>1. PICK dir \in Paths : TRUE
      BY TerminalPlaces, PlacesAssumption
    <3> QED
      BY <1>1, <3>1, MirrorLines, StoredEmpty
  <2> QED
    BY <2>1, CopyOfType
<1> HIDE DEF p, c
<1> QED
  BY <1>2, DecideGrounds DEF VerdictOn, Decision, p, c

(***************************************************************************)
(* A synchronization exports, tombstones and imports only what may be      *)
(* shared.                                                                 *)
(***************************************************************************)
LEMMA PrivateSyncHere ==
    ASSUME Private, NEW t \in Terminals, FinishSync(t), NEW s \in Sessions
    PROVE  LET p == ProfileOf[t]
               c == CheckoutOf[t]
           IN  /\ Known(mirror'[c][s]) => MayShare(s)'
               /\ \A lines \in {Stored(mirror'[c][s]), mirror'[c][s].tombstone} \ {<<>>} :
                    Head(lines) = Portable
               /\ home'[p][s] \in {home[p][s], <<>>} \/ MayShare(s)
<1> DEFINE p == ProfileOf[t]
           c == CheckoutOf[t]
           v == VerdictOn(t, s)
           entry == mirror[c][s]
           found == ScanProfile(p, c, s)
<1>0. TypeOK /\ p \in Profiles /\ c \in Checkouts /\ c \in Repositories
  BY TerminalPlaces DEF Private
<1>1. home'[p][s] = LinesAfter(home[p][s], entry, root[c], v.action)
  BY <1>0, FinishSyncEffect
<1>2. /\ entry.lines # <<>> => Known(entry)
      /\ Known(entry) => MayShare(s)
      /\ Stored(entry) # <<>> => Head(Stored(entry)) = Portable
      /\ entry.tombstone # <<>> => Head(entry.tombstone) = Portable
  BY <1>0 DEF Private, EntriesShared, Known, NoEntry
<1>3. MayShare(s) => MayShare(s)'
  BY DEF FinishSync, MayShare
<1>4. found # <<>> => Head(found) = Portable
  BY <1>0, ScanType
<1>5. v.action = "export" => MayShare(s)'
  <2>1. SUFFICES ASSUME v.action = "export" PROVE MayShare(s)'
    OBVIOUS
  <2>2. /\ Stored(entry) \in Seq(Line)
        /\ Stored(entry) = <<>> <=> entry.lines = <<>>
    <3>1. entry \in Entry /\ root[c] \in Paths
      BY <1>0 DEF TypeOK
    <3> HIDE DEF entry
    <3> QED
      BY <3>1, MirrorLines, StoredEmpty
  <2>3. Exists(CopyOf(Stored(entry))) <=> entry.lines # <<>>
    BY <2>2, CopyOfType
  <2>4. entry.lines # <<>> \/ EligibleSession(t, s)
    <3> HIDE DEF p, c
    <3> QED
      BY <2>1, <2>3, ExportGrounds DEF VerdictOn, Decision, p, c
  <2>5. FoundAt(t, s)
    BY <1>0, <2>1, VerdictGrounds DEF FoundAt
  <2>6. stage[t] = "import" => s \in optedIn'
    BY <2>5 DEF FinishSync, SnapshotProfile, FoundAt
  <2>7. s \in eligible[t] => MayShare(s)
    BY DEF Private, EligibleShared
  <2>8. born[s] = "after" => MayShare(s)
    BY DEF MayShare
  <2> QED
    BY <1>2, <1>3, <2>4, <2>6, <2>7, <2>8 DEF EligibleSession, MayShare
<1>6. v.action = "tombstone" => entry.lines # <<>>
  BY <1>0, TombstoneGrounds
<1>7. v.action = "import" => entry.lines # <<>>
  BY <1>0, VerdictGrounds
<1>8. /\ v.action = "export" => /\ mirror'[c][s].tombstone = <<>>
                               /\ Stored(mirror'[c][s]) = found
      /\ v.action = "tombstone" => /\ mirror'[c][s].tombstone = Stored(entry)
                                  /\ Stored(mirror'[c][s]) = <<>>
      /\ v.action \notin {"export", "tombstone"} => mirror'[c][s] = entry
  BY <1>0, StoredAfter
<1>9. v.action # "import" => home'[p][s] \in {home[p][s], <<>>}
  BY <1>1 DEF LinesAfter
<1> HIDE DEF p, c, v, entry, found
<1>10. Known(mirror'[c][s]) => MayShare(s)'
  BY <1>2, <1>3, <1>5, <1>6, <1>8
<1>11. \A lines \in {Stored(mirror'[c][s]), mirror'[c][s].tombstone} \ {<<>>} :
         Head(lines) = Portable
  BY <1>2, <1>4, <1>6, <1>8
<1>12. home'[p][s] \in {home[p][s], <<>>} \/ MayShare(s)
  BY <1>2, <1>7, <1>9
<1> QED
  BY <1>10, <1>11, <1>12 DEF p, c

LEMMA PrivateSync ==
    ASSUME Private, RenamingNext, NEW t \in Terminals, FinishSync(t)
    PROVE  Private'
<1> DEFINE p == ProfileOf[t]
           c == CheckoutOf[t]
<1>0. TypeOK /\ TypeOK' /\ p \in Profiles /\ c \in Repositories
  BY FinishSyncType, TerminalPlaces DEF Private
<1>1. /\ \A q \in Profiles \ {p} : home'[q] = home[q]
      /\ \A r \in Repositories \ {c} : mirror'[r] = mirror[r]
      /\ UNCHANGED <<root, initialized>>
  BY <1>0, FinishSyncFrame
<1>2. /\ stage'[t] \in {"idle", "snapshot"} /\ eligible'[t] = {}
      /\ \A u \in Terminals \ {t} : /\ stage'[u] = stage[u] /\ before'[u] = before[u]
                                    /\ eligible'[u] = eligible[u]
      /\ stage[t] \notin {"idle", "bare"}
  BY <1>0 DEF FinishSync, Continue, TypeOK, Syncing
<1>3. \A s \in Sessions : MayShare(s) => MayShare(s)'
  BY <1>0, MayShareStays
<1>4. EntriesShared'
  BY <1>1, <1>3, PrivateSyncHere DEF Private, EntriesShared
<1>5. EligibleShared'
  BY <1>0, <1>2, <1>3 DEF Private, EligibleShared, TypeOK
<1>6. ASSUME NEW u \in Terminals, NEW s \in Sessions,
             stage'[u] = "codex", FoundAt(u, s)', s \notin before'[u]
      PROVE  MayShare(s)'
  <2>1. u # t /\ stage[u] = "codex" /\ s \notin before[u]
    BY <1>2, <1>6
  <2>2. InProject(home'[ProfileOf[u]][s], root[CheckoutOf[u]])
    BY <1>1, <1>6 DEF FoundAt
  <2>3. home'[ProfileOf[u]][s] # <<>>
    BY <2>2 DEF InProject
  <2>4. home'[ProfileOf[u]][s] = home[ProfileOf[u]][s] \/ MayShare(s)
    BY <1>1, <2>3, PrivateSyncHere, TerminalPlaces
  <2> QED
    BY <1>3, <2>1, <2>2, <2>4 DEF Private, UnseenShared, FoundAt
<1>7. CommandsInitialized'
  BY <1>1, <1>2 DEF Private, CommandsInitialized
<1> QED
  BY <1>0, <1>4, <1>5, <1>6, <1>7 DEF Private, UnseenShared

LEMMA PrivateCodex ==
    ASSUME Private, RenamingNext, NEW t \in Terminals, Codex(t)
    PROVE  Private'
<1> DEFINE p == ProfileOf[t]
<1>0. TypeOK /\ TypeOK' /\ p \in Profiles /\ Turns(t) \subseteq Turn
  BY CodexType, TerminalPlaces, CodexTurns DEF Private
<1>1. /\ UNCHANGED <<root, initialized, mirror, stage, before, eligible>>
      /\ \A q \in Profiles \ {p} : home'[q] = home[q]
      /\ \A s \in Sessions :
           \/ home'[p][s] = home[p][s]
           \/ /\ home'[p][s] \in {<<turn>> : turn \in Turns(t)}
              /\ born[s] = "no" /\ born'[s] = IF initialized = {} THEN "before" ELSE "after"
           \/ /\ home[p][s] # <<>>
              /\ home'[p][s] \in {Append(home[p][s], turn) : turn \in Turns(t)}
           \/ home'[p][s] = <<>> /\ s \in deleted'
  BY <1>0, CodexEffect
<1>2. \A s \in Sessions : MayShare(s) => MayShare(s)'
  BY <1>0, MayShareStays
<1>3. ASSUME NEW u \in Terminals, NEW s \in Sessions,
             stage[u] = "codex", FoundAt(u, s)', s \notin before[u]
      PROVE  MayShare(s)'
  <2> DEFINE q == ProfileOf[u]
             dir == root[CheckoutOf[u]]
  <2>1. InProject(home'[q][s], dir) /\ q \in Profiles
    BY <1>1, <1>3, TerminalPlaces DEF FoundAt
  <2>2. InProject(home[q][s], dir) => MayShare(s)
    BY <1>3 DEF Private, UnseenShared, FoundAt
  <2>3. initialized # {}
    BY <1>3 DEF Private, CommandsInitialized
  <2>4. CASE home'[q][s] = home[q][s]
    BY <1>2, <2>1, <2>2, <2>4
  <2>5. CASE born'[s] = "after"
    BY <2>5 DEF MayShare
  <2>6. CASE q = p /\ home[p][s] # <<>>
             /\ home'[p][s] \in {Append(home[p][s], turn) : turn \in Turns(t)}
    <3>1. home[p][s] \in Seq(Turn)
      BY <1>0 DEF TypeOK
    <3>2. PICK d \in Turns(t) : home'[p][s] = Append(home[p][s], d)
      BY <2>6
    <3>3. d \in Turn /\ home[p][s] # <<>> /\ q = p
      BY <1>0, <2>6
    <3> HIDE DEF p, q, dir
    <3>4. InProject(home[p][s], dir)
      BY <2>1, <3>1, <3>2, <3>3, AppendInProject
    <3> QED
      BY <1>2, <2>2, <3>3, <3>4
  <2>7. home'[q][s] # <<>>
    BY <2>1 DEF InProject
  <2> HIDE DEF p, q, dir
  <2> QED
    BY <1>1, <2>1, <2>3, <2>4, <2>5, <2>6, <2>7
<1>4. EntriesShared'
  BY <1>1, <1>2 DEF Private, EntriesShared
<1>5. EligibleShared'
  BY <1>0, <1>1, <1>2 DEF Private, EligibleShared, TypeOK
<1> QED
  BY <1>0, <1>1, <1>3, <1>4, <1>5 DEF Private, UnseenShared, CommandsInitialized

LEMMA PrivateRepositories ==
    ASSUME Private, RenamingNext, NEW c \in Checkouts, Exchange(c) \/ Move(c)
    PROVE  Private'
<1>0. TypeOK /\ TypeOK' /\ Origin \in Repositories /\ c \in Repositories
  BY ExchangeType, MoveType DEF Private, Repositories
<1>1. \A s \in Sessions : MayShare(s) => MayShare(s)'
  BY <1>0, MayShareStays
<1>2. CASE Exchange(c)
  <2>1. /\ \A r \in Repositories, s \in Sessions :
             mirror'[r][s] \in {mirror[r][s], mirror[c][s], mirror[Origin][s]}
        /\ initialized' # {}
        /\ UNCHANGED <<root, home, stage, before, eligible, born, optedIn>>
    BY <1>0, <1>2, ExchangeEffect
  <2>2. \A s \in Sessions : MayShare(s)' <=> MayShare(s)
    BY <2>1 DEF MayShare
  <2>3. EntriesShared'
    <3>1. \A r \in Repositories, s \in Sessions :
            \E x \in Repositories : mirror'[r][s] = mirror[x][s]
      BY <1>0, <2>1
    <3> QED
      BY <2>2, <3>1 DEF Private, EntriesShared
  <2> QED
    BY <1>0, <2>1, <2>2, <2>3
       DEF Private, EligibleShared, UnseenShared, FoundAt, CommandsInitialized, MayShare
<1>3. CASE Move(c)
  <2>1. /\ \A t \in Terminals : CheckoutOf[t] = c => stage[t] = "idle"
        /\ \A d \in Checkouts \ {c} : root'[d] = root[d]
        /\ UNCHANGED <<initialized, mirror, home, stage, before, eligible, born, optedIn>>
    BY <1>0, <1>3 DEF Move, TypeOK, profileVars, terminalVars, historyVars
  <2>2. UnseenShared'
    <3>1. \A t \in Terminals : stage[t] = "codex" => root'[CheckoutOf[t]] = root[CheckoutOf[t]]
      BY <2>1, TerminalPlaces
    <3> QED
      BY <2>1, <3>1 DEF Private, UnseenShared, FoundAt, MayShare
  <2> QED
    BY <1>0, <2>1, <2>2 DEF Private, EntriesShared, EligibleShared, CommandsInitialized, MayShare
<1> QED
  BY <1>2, <1>3

(***************************************************************************)
(* What a quiet step does to the stages and the sets of a run.             *)
(***************************************************************************)
LEMMA QuietRuns ==
    ASSUME Private, NEW t \in Terminals, Quiet(t)
    PROVE  /\ \A u \in Terminals \ {t} : /\ stage'[u] = stage[u] /\ before'[u] = before[u]
                                         /\ eligible'[u] = eligible[u]
           /\ \/ eligible'[t] \in {eligible[t], {}}
              \/ /\ stage[t] = "codex"
                 /\ eligible'[t] = SnapshotProfile(ProfileOf[t], CheckoutOf[t]) \ before[t]
           /\ stage'[t] = "codex" =>
                before'[t] = SnapshotProfile(ProfileOf[t], CheckoutOf[t])
           /\ stage'[t] \notin {"idle", "bare"} => initialized' # {}
           /\ initialized # {} => initialized' # {}
<1> USE DEF repoVars, terminalVars, TypeOK
<1>0. TypeOK /\ (stage[t] \notin {"idle", "bare"} => initialized # {})
  BY DEF Private, CommandsInitialized
<1>1. CASE Start(t)
  BY <1>0, <1>1 DEF Start, StartRun, OpenShell, StartSync, InitProject, Take
<1>2. CASE EndStatus(t) \/ FailSync(t) \/ LaunchFails(t) \/ PostRunRefused(t) \/ Kill(t)
  BY <1>0, <1>2 DEF EndStatus, FailSync, LaunchFails, PostRunRefused, Kill, Continue
<1>3. CASE SnapshotBefore(t)
  BY <1>0, <1>3 DEF SnapshotBefore
<1>4. CASE CodexExit(t)
  BY <1>0, <1>4 DEF CodexExit, NewSessions
<1>5. CASE CloseShell(t) \/ StartPostRun(t)
  BY <1>0, <1>5 DEF CloseShell, StartPostRun, Take
<1> QED
  BY <1>1, <1>2, <1>3, <1>4, <1>5 DEF Quiet

LEMMA PrivateQuiet ==
    ASSUME Private, RenamingNext, NEW t \in Terminals, Quiet(t)
    PROVE  Private'
<1>0. TypeOK /\ TypeOK'
  BY NextType DEF Private
<1>1. UNCHANGED <<root, mirror, home, born, optedIn>>
  BY QuietKeeps
<1>2. /\ \A u \in Terminals \ {t} : /\ stage'[u] = stage[u] /\ before'[u] = before[u]
                                    /\ eligible'[u] = eligible[u]
      /\ \/ eligible'[t] \in {eligible[t], {}}
         \/ /\ stage[t] = "codex"
            /\ eligible'[t] = SnapshotProfile(ProfileOf[t], CheckoutOf[t]) \ before[t]
      /\ stage'[t] = "codex" => before'[t] = SnapshotProfile(ProfileOf[t], CheckoutOf[t])
      /\ stage'[t] \notin {"idle", "bare"} => initialized' # {}
      /\ initialized # {} => initialized' # {}
  BY QuietRuns
<1>3. \A s \in Sessions : MayShare(s)' <=> MayShare(s)
  BY <1>1 DEF MayShare
<1>4. EntriesShared'
  BY <1>1, <1>3 DEF Private, EntriesShared
<1>5. \A s \in SnapshotProfile(ProfileOf[t], CheckoutOf[t]) : s \in Sessions /\ FoundAt(t, s)
  BY DEF SnapshotProfile, FoundAt
<1>6. EligibleShared'
  <2>1. \A s \in eligible'[t] : MayShare(s)
    BY <1>2, <1>5 DEF Private, EligibleShared, UnseenShared
  <2>2. \A u \in Terminals : \A s \in eligible'[u] : MayShare(s) /\ s \in Sessions
    BY <1>0, <1>2, <2>1 DEF Private, EligibleShared, TypeOK
  <2> QED
    BY <1>3, <2>2 DEF EligibleShared
<1>7. UnseenShared'
  <2>1. SUFFICES ASSUME NEW u \in Terminals, NEW s \in Sessions,
                        stage'[u] = "codex", FoundAt(u, s), s \notin before'[u]
                 PROVE  MayShare(s)
    BY <1>1, <1>3 DEF UnseenShared, FoundAt
  <2>2. CASE u = t
    BY <1>2, <2>1, <2>2 DEF SnapshotProfile, FoundAt
  <2>3. CASE u # t
    BY <1>2, <2>1, <2>3 DEF Private, UnseenShared
  <2> QED
    BY <2>2, <2>3
<1>8. CommandsInitialized'
  BY <1>2 DEF Private, CommandsInitialized
<1> QED
  BY <1>0, <1>4, <1>6, <1>7, <1>8 DEF Private

LEMMA PrivateHolds == RenamingSpec => []Private
<1>1. Init => Private
  BY PrivateInit
<1>2. Private /\ [RenamingNext]_vars => Private'
  <2> SUFFICES ASSUME Private, [RenamingNext]_vars PROVE Private'
    OBVIOUS
  <2>1. CASE RenamingNext
    BY <2>1, StepCases, PrivateQuiet, PrivateSync, PrivateCodex, PrivateRepositories
  <2>2. CASE UNCHANGED vars
    <3>1. TypeOK'
      BY <2>2, NextType DEF Private
    <3>2. UNCHANGED <<root, initialized, mirror, home, stage, before, eligible, born, optedIn>>
      BY <2>2 DEF vars, repoVars, profileVars, terminalVars, historyVars
    <3> QED
      BY <3>1, <3>2 DEF Private, EntriesShared, EligibleShared, UnseenShared, FoundAt,
                        CommandsInitialized, MayShare
  <2> QED
    BY <2>1, <2>2
<1> QED
  BY <1>1, <1>2, PTL DEF RenamingSpec

(***************************************************************************)
(* No repository ever learns of a session that is older than the project,  *)
(* unless its user imported it, or that was started outside the project:   *)
(* for any number of terminals, checkouts, renamed ones too, and sessions. *)
(***************************************************************************)
THEOREM SessionsStayPrivate == RenamingSpec => []SharedByChoice
<1>1. Private => SharedByChoice
  BY DEF Private, EntriesShared, SharedByChoice, MayShare
<1> QED
  BY <1>1, PrivateHolds, PTL

(***************************************************************************)
(* So it is when nobody renames one.                                       *)
(***************************************************************************)
THEOREM SessionsSharedByChoice == Spec => []SharedByChoice
<1>1. [Next]_vars => [RenamingNext]_vars
  BY DEF RenamingNext
<1> QED
  BY <1>1, SessionsStayPrivate, PTL DEF Spec, RenamingSpec
-----------------------------------------------------------------------------
(***************************************************************************)
(* Why directories keep what they mean, line by line.                      *)
(***************************************************************************)
LinesMapped(lines) ==
    \A i \in DOMAIN lines :
        /\ lines[i].turn.meant = Portable => lines[i].mapped
        /\ lines[i].turn.meant \in Elsewhere
             => ~lines[i].mapped /\ lines[i].turn.cwd = lines[i].turn.meant

TurnsMapped(turns, dir) ==
    \A i \in DOMAIN turns :
        /\ turns[i].meant = Portable => turns[i].cwd = dir
        /\ turns[i].meant \in Elsewhere => turns[i].cwd = turns[i].meant

Mapped ==
    /\ TypeOK
    /\ RootsStay
    /\ \A r \in Repositories, s \in Sessions : LinesMapped(mirror[r][s].lines)
    /\ \A t \in Terminals, s \in Sessions :
         TurnsMapped(home[ProfileOf[t]][s], root[CheckoutOf[t]])

LEMMA ExportMaps ==
    ASSUME NEW turns, NEW dir, dir \notin Elsewhere, TurnsMapped(turns, dir)
    PROVE  LinesMapped(Exported(turns, dir))
<1>1. DOMAIN Exported(turns, dir) = DOMAIN turns
  BY DEF Exported
<1>2. \A i \in DOMAIN turns : /\ Exported(turns, dir)[i].turn = turns[i]
                             /\ Exported(turns, dir)[i].mapped = (i \in PortableLines(turns, dir))
  BY DEF Exported
<1>3. \A i \in DOMAIN turns : i \in PortableLines(turns, dir) <=> turns[i].cwd = dir
  BY DEF PortableLines
<1>4. \A i \in DOMAIN turns : Exported(turns, dir)[i].mapped <=> turns[i].cwd = dir
  BY <1>2, <1>3
<1>5. SUFFICES ASSUME NEW i \in DOMAIN turns
               PROVE  LET line == Exported(turns, dir)[i]
                      IN  /\ line.turn.meant = Portable => line.mapped
                          /\ line.turn.meant \in Elsewhere
                               => ~line.mapped /\ line.turn.cwd = line.turn.meant
  BY <1>1 DEF LinesMapped
<1>6. /\ turns[i].meant = Portable => turns[i].cwd = dir
      /\ turns[i].meant \in Elsewhere => turns[i].cwd = turns[i].meant
  BY DEF TurnsMapped
<1>7. turns[i].meant \in Elsewhere => turns[i].cwd # dir
  BY <1>6
<1> QED
  BY <1>2, <1>4, <1>6, <1>7

LEMMA ImportMaps ==
    ASSUME NEW entry \in Entry, NEW dir \in Paths, LinesMapped(entry.lines)
    PROVE  TurnsMapped(Materialized(entry, dir), dir)
<1>1. DOMAIN Materialized(entry, dir) = DOMAIN entry.lines
  BY DEF Materialized
<1>2. SUFFICES ASSUME NEW i \in DOMAIN entry.lines
               PROVE  LET turn == Materialized(entry, dir)[i]
                      IN  /\ turn.meant = Portable => turn.cwd = dir
                          /\ turn.meant \in Elsewhere => turn.cwd = turn.meant
  BY <1>1 DEF TurnsMapped
<1> DEFINE line == entry.lines[i]
<1>3. line.turn \in Turn
  BY MirrorLineType
<1>4. Materialized(entry, dir)[i] =
        IF line.mapped THEN [line.turn EXCEPT !.cwd = dir] ELSE line.turn
  BY DEF Materialized
<1>5. /\ line.turn.meant = Portable => line.mapped
      /\ line.turn.meant \in Elsewhere => ~line.mapped /\ line.turn.cwd = line.turn.meant
  BY DEF LinesMapped
<1> HIDE DEF line
<1>6. CASE line.mapped
  BY <1>3, <1>4, <1>5, <1>6, TurnType
<1>7. CASE ~line.mapped
  BY <1>4, <1>5, <1>7
<1> QED
  BY <1>6, <1>7

LEMMA MappedInit == Init => Mapped
<1> SUFFICES ASSUME Init PROVE Mapped
  OBVIOUS
<1>1. /\ \A r \in Repositories, s \in Sessions : mirror[r][s].lines = <<>>
      /\ \A t \in Terminals, s \in Sessions : home[ProfileOf[t]][s] = <<>>
  BY TerminalPlaces DEF Init, NoEntry
<1> QED
  BY <1>1, InitType DEF Init, Mapped, RootsStay, LinesMapped, TurnsMapped

LEMMA MappedSync ==
    ASSUME StayPut, Mapped, NEW t \in Terminals, FinishSync(t)
    PROVE  Mapped'
<1> DEFINE p == ProfileOf[t]
           c == CheckoutOf[t]
<1>0. TypeOK /\ p \in Profiles /\ c \in Checkouts /\ c \in Repositories
  BY TerminalPlaces DEF Mapped
<1>1. /\ \A q \in Profiles \ {p} : home'[q] = home[q]
      /\ \A r \in Repositories \ {c} : mirror'[r] = mirror[r]
      /\ UNCHANGED root
  BY <1>0, FinishSyncFrame DEF FinishSync
<1>2. ASSUME NEW s \in Sessions
      PROVE  LinesMapped(mirror'[c][s].lines) /\ TurnsMapped(home'[p][s], root[c])
  <2> DEFINE entry == mirror[c][s]
             v == VerdictOn(t, s)
  <2>1. entry \in Entry /\ root[c] \in Paths /\ root[c] \notin Elsewhere
    BY <1>0, PlacesAssumption DEF Mapped, RootsStay, TypeOK
  <2>2. LinesMapped(entry.lines) /\ TurnsMapped(home[p][s], root[c])
    BY <1>0 DEF Mapped
  <2>3. /\ mirror'[c][s] = EntryAfter(entry, home[p][s], root[c], v.action)
        /\ home'[p][s] = LinesAfter(home[p][s], entry, root[c], v.action)
    BY <1>0, FinishSyncEffect
  <2> HIDE DEF p, c, entry, v
  <2>4. LinesMapped(Exported(home[p][s], root[c])) /\ LinesMapped(<<>>)
    BY <2>1, <2>2, ExportMaps DEF LinesMapped
  <2>5. TurnsMapped(Materialized(entry, root[c]), root[c]) /\ TurnsMapped(<<>>, root[c])
    BY <2>1, <2>2, ImportMaps DEF TurnsMapped
  <2>6. mirror'[c][s].lines \in {entry.lines, Exported(home[p][s], root[c]), <<>>}
    BY <2>3 DEF EntryAfter
  <2>7. home'[p][s] \in {home[p][s], Materialized(entry, root[c]), <<>>}
    BY <2>3 DEF LinesAfter
  <2> QED
    BY <2>2, <2>4, <2>5, <2>6, <2>7
<1>3. \A r \in Repositories, s \in Sessions : LinesMapped(mirror'[r][s].lines)
  BY <1>1, <1>2 DEF Mapped
<1>4. ASSUME NEW u \in Terminals, NEW s \in Sessions
      PROVE  TurnsMapped(home'[ProfileOf[u]][s], root[CheckoutOf[u]])
  <2>1. CASE ProfileOf[u] = p
    <3>1. CheckoutOf[u] = c
      BY <2>1 DEF StayPut
    <3> QED
      BY <1>2, <2>1, <3>1
  <2>2. CASE ProfileOf[u] # p
    BY <1>1, <2>2, TerminalPlaces DEF Mapped
  <2> QED
    BY <2>1, <2>2
<1>5. TypeOK'
  BY <1>0, FinishSyncType
<1> QED
  BY <1>1, <1>3, <1>4, <1>5 DEF Mapped, RootsStay

LEMMA MappedCodex ==
    ASSUME StayPut, Mapped, NEW t \in Terminals, Codex(t)
    PROVE  Mapped'
<1> DEFINE p == ProfileOf[t]
           dir == root[CheckoutOf[t]]
<1>0. TypeOK /\ TypeOK' /\ p \in Profiles /\ Turns(t) \subseteq Turn
  BY CodexType, TerminalPlaces, CodexTurns DEF Mapped
<1>1. /\ UNCHANGED <<root, mirror>>
      /\ \A q \in Profiles \ {p} : home'[q] = home[q]
      /\ \A s \in Sessions :
           \/ home'[p][s] = home[p][s]
           \/ home'[p][s] \in {<<turn>> : turn \in Turns(t)}
           \/ home'[p][s] \in {Append(home[p][s], turn) : turn \in Turns(t)}
           \/ home'[p][s] = <<>>
  BY <1>0, CodexEffect
<1>2. ASSUME NEW turn \in Turns(t)
      PROVE  /\ turn.meant = Portable => turn.cwd = dir
             /\ turn.meant \in Elsewhere => turn.cwd = turn.meant
  <2>1. PICK d \in Directories(t) : turn = TurnIn(t, d)
    BY <1>2 DEF Turns
  <2>2. d \in Paths /\ d # Portable /\ Portable \notin Elsewhere
    BY <1>0, <2>1, CodexTurns, ConstantLines, LineAssumption, PlacesAssumption
  <2> QED
    BY <2>1, <2>2 DEF TurnIn
<1>3. ASSUME NEW s \in Sessions
      PROVE  TurnsMapped(home'[p][s], dir)
  <2>1. home[p][s] \in Seq(Turn) /\ TurnsMapped(home[p][s], dir)
    <3>1. home[p][s] \in Seq(Turn)
      BY <1>0 DEF TypeOK
    <3>2. TurnsMapped(home[p][s], dir)
      BY DEF Mapped
    <3> QED
      BY <3>1, <3>2
  <2> HIDE DEF p, dir
  <2>2. CASE home'[p][s] \in {<<turn>> : turn \in Turns(t)}
    <3>1. PICK new \in Turns(t) : home'[p][s] = <<new>>
      BY <2>2
    <3> QED
      BY <1>2, <3>1 DEF TurnsMapped
  <2>3. CASE home'[p][s] \in {Append(home[p][s], turn) : turn \in Turns(t)}
    <3>1. PICK new \in Turns(t) : home'[p][s] = Append(home[p][s], new)
      BY <2>3
    <3>2. /\ DOMAIN home'[p][s] = 1..(Len(home[p][s]) + 1)
          /\ DOMAIN home[p][s] = 1..Len(home[p][s]) /\ Len(home[p][s]) \in Nat
          /\ \A i \in 1..Len(home[p][s]) : home'[p][s][i] = home[p][s][i]
          /\ home'[p][s][Len(home[p][s]) + 1] = new
      BY <1>0, <2>1, <3>1
    <3>3. \A i \in 1..(Len(home[p][s]) + 1) :
            i \in 1..Len(home[p][s]) \/ i = Len(home[p][s]) + 1
      BY <3>2
    <3> QED
      BY <1>2, <2>1, <3>2, <3>3 DEF TurnsMapped
  <2>4. CASE home'[p][s] = <<>>
    BY <2>4 DEF TurnsMapped
  <2> QED
    BY <1>1, <2>1, <2>2, <2>3, <2>4
<1>4. ASSUME NEW u \in Terminals, NEW s \in Sessions
      PROVE  TurnsMapped(home'[ProfileOf[u]][s], root[CheckoutOf[u]])
  <2>1. CASE ProfileOf[u] = p
    <3>1. CheckoutOf[u] = CheckoutOf[t]
      BY <2>1 DEF StayPut
    <3> QED
      BY <1>3, <2>1, <3>1
  <2>2. CASE ProfileOf[u] # p
    BY <1>1, <2>2, TerminalPlaces DEF Mapped
  <2> QED
    BY <2>1, <2>2
<1> QED
  BY <1>0, <1>1, <1>4 DEF Mapped, RootsStay

LEMMA MappedHolds == StayPut => (Spec => []Mapped)
<1> SUFFICES ASSUME StayPut PROVE Spec => []Mapped
  OBVIOUS
<1>1. Init => Mapped
  BY MappedInit
<1>2. Mapped /\ [Next]_vars => Mapped'
  <2> SUFFICES ASSUME Mapped, [Next]_vars PROVE Mapped'
    OBVIOUS
  <2>0. TypeOK /\ TypeOK'
    BY NextType DEF Mapped, RenamingNext
  <2>1. CASE \E t \in Terminals : Quiet(t)
    BY <2>0, <2>1, QuietKeeps DEF Mapped, RootsStay
  <2>2. CASE \E t \in Terminals : FinishSync(t) \/ Codex(t)
    BY <2>2, MappedSync, MappedCodex
  <2>3. CASE \E c \in Checkouts : Exchange(c)
    <3>1. PICK c \in Checkouts : Exchange(c)
      BY <2>3
    <3>2. /\ \A r \in Repositories, s \in Sessions :
               \E x \in Repositories : mirror'[r][s] = mirror[x][s]
          /\ UNCHANGED <<root, home>>
      BY <2>0, <3>1, ExchangeEffect
    <3> QED
      BY <2>0, <3>2 DEF Mapped, RootsStay
  <2>4. CASE UNCHANGED vars
    BY <2>0, <2>4 DEF Mapped, RootsStay, vars, repoVars, profileVars
  <2> QED
    BY <2>1, <2>2, <2>3, <2>4, StepCases DEF RenamingNext
<1> QED
  BY <1>1, <1>2, PTL DEF Spec

(***************************************************************************)
(* However sessions travel: a turn at the root of its checkout is mapped   *)
(* in every mirror and names the root of its own checkout in every         *)
(* profile, a turn elsewhere keeps its directory.  As long as users stay   *)
(* put, wherever else they go.                                             *)
(***************************************************************************)
THEOREM PathsAreMapped == StayPut => (Spec => []PathsMapped)
<1> SUFFICES ASSUME StayPut PROVE Spec => []PathsMapped
  OBVIOUS
<1>1. Mapped => PathsMapped
  BY DEF Mapped, LinesMapped, TurnsMapped, PathsMapped, ToSet
<1> QED
  BY <1>1, MappedHolds, PTL
-----------------------------------------------------------------------------
(***************************************************************************)
(* What a synchronization decides, decided again with what it has done and *)
(* recorded, asks for nothing.                                             *)
(***************************************************************************)
LEMMA DecideTwice ==
    ASSUME NEW project, NEW profile, NEW tombstone, NEW base, NEW isEligible,
           Decide(project, profile, tombstone, base, isEligible).action \notin {"error", "conflict"}
    PROVE  LET v == Decide(project, profile, tombstone, base, isEligible)
               project2 == IF v.action = "export" THEN profile
                           ELSE IF v.action = "tombstone" THEN NoCopy ELSE project
               profile2 == IF v.action = "import" THEN project
                           ELSE IF v.action = "delete" THEN NoCopy ELSE profile
               tombstone2 == IF v.action = "export" THEN <<>>
                             ELSE IF v.action = "tombstone" THEN project.lines ELSE tombstone
           IN  Decide(project2, profile2, tombstone2, v.registration, FALSE).action = "none"
<1> DEFINE v == Decide(project, profile, tombstone, base, isEligible)
<1>0. /\ \A a, r : Do(a, r).action = a /\ Do(a, r).registration = r
      /\ \A copy : ~RegistrationFor(copy).tombstone /\ RegistrationFor(copy).copy = copy
      /\ \A lines : /\ TombstoneRegistration(lines).tombstone
                    /\ Owned(TombstoneRegistration(lines)) <=> lines # <<>>
      /\ ~Exists(NoCopy)
  BY DEF Do, RegistrationFor, TombstoneRegistration, Owned, Exists, NoCopy
<1>1. CASE tombstone # <<>>
  <2>1. ~Exists(project) /\ v = DecideTombstoned(profile, tombstone, base)
    BY <1>0, <1>1 DEF Decide
  <2>2. \A q, r : Decide(project, q, tombstone, r, FALSE) = DecideTombstoned(q, tombstone, r)
    BY <1>1, <2>1 DEF Decide
  <2>3. CASE Owned(base)
    <3>1. /\ v.action = IF Exists(profile) THEN "delete" ELSE "none"
          /\ v.registration = TombstoneRegistration(tombstone)
      BY <1>0, <2>1, <2>3 DEF DecideTombstoned
    <3> HIDE DEF v
    <3>2. \A q : ~Exists(q) => DecideTombstoned(q, tombstone, v.registration).action = "none"
      BY <1>0, <1>1, <3>1 DEF DecideTombstoned
    <3>3. CASE Exists(profile)
      <4>1. Decide(project, NoCopy, tombstone, v.registration, FALSE).action = "none"
        <5>1. DecideTombstoned(NoCopy, tombstone, v.registration).action = "none"
          BY <1>0, <3>2
        <5>2. Decide(project, NoCopy, tombstone, v.registration, FALSE)
                = DecideTombstoned(NoCopy, tombstone, v.registration)
          BY <2>2
        <5> QED
          BY <5>1, <5>2
      <4>2. v.action = "delete"
        BY <3>1, <3>3
      <4> QED
        BY <4>1, <4>2 DEF v
    <3>4. CASE ~Exists(profile)
      BY <2>2, <3>1, <3>2, <3>4 DEF v
    <3> QED
      BY <3>3, <3>4
  <2>4. CASE ~Owned(base)
    <3>1. v.action = "none" /\ v.registration = base
      BY <1>0, <2>1, <2>4 DEF DecideTombstoned
    <3>2. DecideTombstoned(profile, tombstone, base).action = "none"
      BY <1>0, <2>4 DEF DecideTombstoned
    <3> HIDE DEF v
    <3> QED
      BY <2>2, <3>1, <3>2 DEF v
  <2> QED
    BY <2>3, <2>4
<1>2. CASE tombstone = <<>> /\ ~Exists(project) /\ ~Exists(profile)
  <2>1. v = DecideNeither(base) /\ Decide(project, profile, tombstone, base, FALSE) = DecideNeither(base)
    BY <1>2 DEF Decide
  <2>2. v.action = "none" /\ v.registration = base
    BY <1>0, <2>1 DEF DecideNeither
  <2> HIDE DEF v
  <2> QED
    BY <1>2, <2>1, <2>2 DEF v
<1>3. ASSUME tombstone = <<>>, Exists(project) \/ Exists(profile)
      PROVE  ~base.tombstone
  BY <1>0, <1>3 DEF Decide
<1>4. ASSUME NEW copy, Exists(copy)
      PROVE  Decide(copy, copy, <<>>, RegistrationFor(copy), FALSE).action = "none"
  BY <1>0, <1>4 DEF Decide, DecideBoth, CompareSessions
<1>5. CASE tombstone = <<>> /\ Exists(project) /\ ~Exists(profile)
  <2>1. v = DecideProjectOnly(project, base)
    BY <1>3, <1>5 DEF Decide
  <2>2. CASE Owned(base)
    <3>1. v.action = "tombstone" /\ v.registration = TombstoneRegistration(project.lines)
      BY <1>0, <2>1, <2>2 DEF DecideProjectOnly
    <3>2. project.lines # <<>>
      BY <1>5 DEF Exists
    <3>3. Decide(NoCopy, profile, project.lines, TombstoneRegistration(project.lines), FALSE).action = "none"
      BY <1>0, <1>5, <3>2 DEF Decide, DecideTombstoned
    <3> HIDE DEF v
    <3> QED
      BY <3>1, <3>3 DEF v
  <2>3. CASE ~Owned(base)
    <3>1. v.action = "import" /\ v.registration = RegistrationFor(project)
      BY <1>0, <2>1, <2>3 DEF DecideProjectOnly
    <3> HIDE DEF v
    <3> QED
      BY <1>4, <1>5, <3>1 DEF v
  <2> QED
    BY <2>2, <2>3
<1>6. CASE tombstone = <<>> /\ ~Exists(project) /\ Exists(profile)
  <2>1. v = DecideProfileOnly(profile, base, isEligible)
    BY <1>3, <1>6 DEF Decide
  <2>2. ~Owned(base)
    BY <1>0, <2>1 DEF DecideProfileOnly
  <2>3. CASE isEligible
    <3>1. v.action = "export" /\ v.registration = RegistrationFor(profile)
      BY <1>0, <2>1, <2>2, <2>3 DEF DecideProfileOnly
    <3> HIDE DEF v
    <3> QED
      BY <1>4, <1>6, <3>1 DEF v
  <2>4. CASE ~isEligible
    <3>1. v.action = "none" /\ v.registration = base
      BY <1>0, <2>1, <2>2, <2>4 DEF DecideProfileOnly
    <3>2. Decide(project, profile, <<>>, base, FALSE).action = "none"
      BY <1>0, <1>3, <1>6, <2>2 DEF Decide, DecideProfileOnly
    <3> HIDE DEF v
    <3> QED
      BY <1>6, <3>1, <3>2 DEF v
  <2> QED
    BY <2>3, <2>4
<1>7. CASE tombstone = <<>> /\ Exists(project) /\ Exists(profile)
  <2>1. v = DecideBoth(project, profile, base)
    BY <1>3, <1>7 DEF Decide
  <2>2. \/ v.action = "import" /\ v.registration = RegistrationFor(project)
        \/ v.action = "export" /\ v.registration = RegistrationFor(profile)
        \/ /\ v.action = "none" /\ v.registration = RegistrationFor(project)
           /\ CompareSessions(project, profile, base) = "equal"
    <3>1. CompareSessions(project, profile, base) \in {"equal", "conflict", "project", "profile"}
      BY DEF CompareSessions, MetadataWinner
    <3> QED
      BY <1>0, <2>1, <3>1 DEF DecideBoth
  <2>3. CompareSessions(project, profile, base) = "equal" => project = profile
    BY DEF CompareSessions, MetadataWinner
  <2> HIDE DEF v
  <2> QED
    BY <1>4, <1>7, <2>2, <2>3 DEF v
<1> QED
  BY <1>1, <1>2, <1>5, <1>6, <1>7
-----------------------------------------------------------------------------
(***************************************************************************)
(* What is imported scans as what the mirror holds, unless a line in it    *)
(* that is not mapped is about the importer's root.                        *)
(***************************************************************************)
LEMMA ImportScansBack ==
    ASSUME NEW entry \in Entry, NEW dir \in Paths, ~Foreign(entry, dir)
    PROVE  Canonical(Materialized(entry, dir), dir) = Stored(entry)
<1> DEFINE lines == entry.lines
           imported == Materialized(entry, dir)
<1>1. \A i \in DOMAIN lines : lines[i].turn \in Turn
  BY MirrorLineType
<1>2. \A i \in DOMAIN lines : ~lines[i].mapped => lines[i].turn.cwd # dir
  <2>1. \A i \in DOMAIN lines : lines[i] \in ToSet(lines)
    BY DEF ToSet
  <2> SUFFICES ASSUME NEW i \in DOMAIN lines, ~lines[i].mapped, lines[i].turn.cwd = dir
               PROVE  FALSE
    OBVIOUS
  <2>2. Foreign(entry, dir)
    BY <2>1, Zenon DEF Foreign
  <2> QED
    BY <2>2
<1>3. DOMAIN imported = DOMAIN lines
  BY DEF Materialized
<1>4. \A i \in DOMAIN lines :
        imported[i].cwd = IF lines[i].mapped THEN dir ELSE lines[i].turn.cwd
  <2> SUFFICES ASSUME NEW i \in DOMAIN lines
               PROVE  imported[i].cwd = IF lines[i].mapped THEN dir ELSE lines[i].turn.cwd
    OBVIOUS
  <2>1. imported[i] = IF lines[i].mapped THEN [lines[i].turn EXCEPT !.cwd = dir] ELSE lines[i].turn
    BY DEF Materialized
  <2>2. [lines[i].turn EXCEPT !.cwd = dir].cwd = dir
    BY <1>1, TurnType
  <2> HIDE DEF imported, lines
  <2> QED
    BY <2>1, <2>2
<1> HIDE DEF imported
<1>5. Canonical(imported, dir)
        = [i \in DOMAIN lines |-> IF imported[i].cwd = dir THEN Portable ELSE imported[i].cwd]
  BY <1>3 DEF Canonical, PortableLines
<1>6. \A i \in DOMAIN lines :
        (IF imported[i].cwd = dir THEN Portable ELSE imported[i].cwd)
          = IF lines[i].mapped THEN Portable ELSE lines[i].turn.cwd
  BY <1>2, <1>4
<1> QED
  BY <1>5, <1>6 DEF Stored, imported

LEMMA NothingLeft ==
    ASSUME Private, NEW t \in Terminals, FinishSync(t), NEW s \in Sessions,
           ~Foreign(mirror'[CheckoutOf[t]][s], root[CheckoutOf[t]])
    PROVE  Decision(ProfileOf[t], CheckoutOf[t], s, FALSE)'.action = "none"
<1> DEFINE p == ProfileOf[t]
           c == CheckoutOf[t]
           v == VerdictOn(t, s)
           entry == mirror[c][s]
           found == ScanProfile(p, c, s)
           lines2 == IF v.action = "export" THEN found
                     ELSE IF v.action = "tombstone" THEN <<>> ELSE Stored(entry)
           found2 == IF v.action = "import" THEN Stored(entry)
                     ELSE IF v.action = "delete" THEN <<>> ELSE found
           tombstone2 == IF v.action = "export" THEN <<>>
                         ELSE IF v.action = "tombstone" THEN Stored(entry) ELSE entry.tombstone
<1>0. TypeOK /\ p \in Profiles /\ c \in Checkouts /\ c \in Repositories
  BY TerminalPlaces DEF Private
<1>1. /\ v.action \notin {"error", "conflict"}
      /\ registry'[p][s] = v.registration
      /\ home'[p][s] = LinesAfter(home[p][s], entry, root[c], v.action)
      /\ root' = root
  BY <1>0, FinishSyncEffect, FinishSyncFrame
<1>2. /\ entry \in Entry /\ root[c] \in Paths
      /\ Stored(entry) # <<>> => Head(Stored(entry)) = Portable
      /\ Stored(entry) = <<>> <=> entry.lines = <<>>
      /\ Stored(entry) \in Seq(Line) /\ found \in Seq(Line)
  <2>1. mirror[c][s] \in Entry /\ root[c] \in Paths /\ found \in Seq(Line)
    BY <1>0, ScanType DEF TypeOK
  <2>2. Stored(entry) # <<>> => Head(Stored(entry)) = Portable
    BY <1>0 DEF Private, EntriesShared
  <2> HIDE DEF entry
  <2> QED
    BY <2>1, <2>2, MirrorLines, StoredEmpty DEF entry
<1>3. v.action = "import" => entry.lines # <<>>
  BY <1>0, VerdictGrounds
<1>4. /\ Stored(mirror'[c][s]) = lines2 /\ mirror'[c][s].tombstone = tombstone2
      /\ v.action = "import" => mirror'[c][s] = entry
  <2>1. /\ v.action = "export" => /\ mirror'[c][s].tombstone = <<>>
                                 /\ Stored(mirror'[c][s]) = found
        /\ v.action = "tombstone" => /\ mirror'[c][s].tombstone = Stored(entry)
                                    /\ Stored(mirror'[c][s]) = <<>>
        /\ v.action \notin {"export", "tombstone"} => mirror'[c][s] = entry
    BY <1>0, StoredAfter
  <2> HIDE DEF p, c, v, entry, found
  <2> QED
    BY <2>1
<1>5. ScanProfile(p, c, s)' = found2
  <2>1. ScanProfile(p, c, s)' = IF InProject(home'[p][s], root[c])
                                THEN Canonical(home'[p][s], root[c]) ELSE <<>>
    BY <1>1 DEF ScanProfile
  <2>2. CASE v.action = "import"
    <3>1. home'[p][s] = Materialized(entry, root[c])
      BY <1>1, <2>2 DEF LinesAfter
    <3>2. ~Foreign(entry, root[c])
      BY <1>4, <2>2
    <3> HIDE DEF p, c, entry
    <3>3. InProject(home'[p][s], root[c])
      BY <1>2, <1>3, <2>2, <3>1, MaterializedHead
    <3>4. Canonical(home'[p][s], root[c]) = Stored(entry)
      BY <1>2, <3>1, <3>2, ImportScansBack
    <3> QED
      BY <2>1, <2>2, <3>3, <3>4
  <2>3. CASE v.action = "delete"
    <3>1. home'[p][s] = <<>>
      BY <1>1, <2>3 DEF LinesAfter
    <3> QED
      BY <2>1, <2>3, <3>1 DEF InProject
  <2>4. CASE v.action \notin {"import", "delete"}
    <3>1. home'[p][s] = home[p][s]
      BY <1>1, <2>4 DEF LinesAfter
    <3> QED
      BY <2>1, <2>4, <3>1 DEF ScanProfile
  <2> QED
    BY <2>2, <2>3, <2>4
<1>6. Decision(ProfileOf[t], CheckoutOf[t], s, FALSE)'
        = Decide(CopyOf(lines2), CopyOf(found2), tombstone2, v.registration, FALSE)
  BY <1>1, <1>4, <1>5 DEF Decision
<1>7. v = Decide(CopyOf(Stored(entry)), CopyOf(found), entry.tombstone, registry[p][s], EligibleSession(t, s))
  BY DEF VerdictOn, Decision
<1>8. CopyOf(<<>>) = NoCopy /\ CopyOf(Stored(entry)).lines = Stored(entry)
  <2>1. CopyOf(<<>>) = NoCopy
    BY DEF CopyOf, NoCopy
  <2> HIDE DEF entry
  <2> QED
    BY <1>2, <2>1, CopyOfType
<1>9. Decide(CopyOf(lines2), CopyOf(found2), tombstone2, v.registration, FALSE).action = "none"
  <2> DEFINE project == CopyOf(Stored(entry))
             profile == CopyOf(found)
             project2 == IF v.action = "export" THEN profile
                         ELSE IF v.action = "tombstone" THEN NoCopy ELSE project
             profile2 == IF v.action = "import" THEN project
                         ELSE IF v.action = "delete" THEN NoCopy ELSE profile
             tombstone3 == IF v.action = "export" THEN <<>>
                           ELSE IF v.action = "tombstone" THEN project.lines ELSE entry.tombstone
  <2>1. project2 = CopyOf(lines2) /\ profile2 = CopyOf(found2) /\ tombstone3 = tombstone2
    BY <1>8
  <2> HIDE DEF v, project, profile, entry
  <2>2. v = Decide(project, profile, entry.tombstone, registry[p][s], EligibleSession(t, s))
    BY <1>7 DEF project, profile
  <2>3. Decide(project2, profile2, tombstone3, v.registration, FALSE).action = "none"
    <3> DEFINE tombstone == entry.tombstone
               base == registry[p][s]
               isEligible == EligibleSession(t, s)
    <3>1. v = Decide(project, profile, tombstone, base, isEligible)
      BY <2>2
    <3>2. Decide(project, profile, tombstone, base, isEligible).action \notin {"error", "conflict"}
      BY <1>1, <3>1
    <3> HIDE DEF tombstone, base, isEligible
    <3> QED
      BY <3>1, <3>2, DecideTwice DEF tombstone
  <2> HIDE DEF project2, profile2, tombstone3, lines2, found2, tombstone2
  <2> QED
    BY <2>1, <2>3
<1> HIDE DEF p, c, v, entry, found, lines2, found2, tombstone2
<1> QED
  BY <1>6, <1>9 DEF Decision

(***************************************************************************)
(* A Foreign line survives a synchronization only by an import: what was   *)
(* exported maps every line about this root, and what already agreed was   *)
(* read from this profile, whose scan maps them too.                       *)
(***************************************************************************)
LEMMA DecideForExisting ==
    ASSUME NEW project, NEW profile, NEW tombstone, NEW base, NEW isEligible, Exists(project)
    PROVE  LET v == Decide(project, profile, tombstone, base, isEligible)
           IN  /\ v.action \in {"none", "delete"} => project = profile
               /\ v.action = "import" => /\ tombstone = <<>>
                                         /\ v.registration = RegistrationFor(project)
<1>0. /\ \A a, r : Do(a, r).action = a /\ Do(a, r).registration = r
      /\ CompareSessions(project, profile, base) \notin {"conflict", "project", "profile"}
           => project = profile
  BY DEF Do, CompareSessions, MetadataWinner
<1>1. CASE Exists(profile)
  BY <1>0, <1>1 DEF Decide, DecideBoth
<1>2. CASE ~Exists(profile)
  BY <1>0, <1>2 DEF Decide, DecideProjectOnly
<1> QED
  BY <1>1, <1>2

LEMMA ExportIsNotForeign ==
    ASSUME NEW lines \in Seq(Turn), NEW dir \in Paths, NEW entry,
           entry.lines = Exported(lines, dir)
    PROVE  ~Foreign(entry, dir)
<1> SUFFICES ASSUME NEW line \in ToSet(entry.lines), ~line.mapped, line.turn.cwd = dir
             PROVE  FALSE
  BY Zenon DEF Foreign
<1>1. PICK i \in DOMAIN lines : line = Exported(lines, dir)[i]
  BY DEF Exported, ToSet
<1>2. line = [turn |-> lines[i], mapped |-> i \in PortableLines(lines, dir)]
  BY <1>1 DEF Exported
<1>3. line.mapped = (i \in PortableLines(lines, dir)) /\ line.turn = lines[i]
  BY <1>2
<1>4. i \notin PortableLines(lines, dir)
  BY <1>3, Zenon
<1> QED
  BY <1>3, <1>4 DEF PortableLines

LEMMA ScanIsNotForeign ==
    ASSUME NEW entry \in Entry, NEW lines \in Seq(Turn), NEW dir \in Paths,
           Stored(entry) = Canonical(lines, dir)
    PROVE  ~Foreign(entry, dir)
<1> SUFFICES ASSUME NEW line \in ToSet(entry.lines), ~line.mapped, line.turn.cwd = dir
             PROVE  FALSE
  BY Zenon DEF Foreign
<1>1. PICK i \in DOMAIN entry.lines : line = entry.lines[i]
  BY DEF ToSet
<1>2. Stored(entry)[i] = dir
  <2>1. Stored(entry)[i] = IF entry.lines[i].mapped THEN Portable ELSE entry.lines[i].turn.cwd
    BY DEF Stored
  <2> QED
    BY <1>1, <2>1, Zenon
<1>3. DOMAIN Stored(entry) = DOMAIN entry.lines /\ DOMAIN Canonical(lines, dir) = DOMAIN lines
  BY DEF Stored, Canonical
<1>4. i \in DOMAIN lines
  BY <1>3
<1>5. Canonical(lines, dir)[i] # dir
  BY <1>4, ConstantLines DEF Canonical, PortableLines
<1> QED
  BY <1>2, <1>5

LEMMA ForeignByImport ==
    ASSUME TypeOK, NEW t \in Terminals, FinishSync(t), NEW s \in Sessions,
           Foreign(mirror'[CheckoutOf[t]][s], root[CheckoutOf[t]])
    PROVE  VerdictOn(t, s).action = "import"
<1> DEFINE p == ProfileOf[t]
           c == CheckoutOf[t]
           v == VerdictOn(t, s)
           entry == mirror[c][s]
           entry2 == mirror'[c][s]
           found == ScanProfile(p, c, s)
<1>0. /\ p \in Profiles /\ c \in Checkouts /\ c \in Repositories
      /\ entry \in Entry /\ home[p][s] \in Seq(Turn) /\ root[c] \in Paths
  BY TerminalPlaces DEF TypeOK
<1>1. v.action \in {"none", "import", "export", "tombstone", "delete"}
  BY VerdictType, FinishSyncEffect DEF Verdict, FileAction
<1>2. entry2 = EntryAfter(entry, home[p][s], root[c], v.action)
  BY FinishSyncEffect
<1>3. Foreign(entry2, root[c]) /\ entry2.lines # <<>>
  BY DEF Foreign, ToSet
<1>4. v.action # "export"
  BY <1>0, <1>2, <1>3, ExportIsNotForeign DEF EntryAfter
<1>5. v.action # "tombstone"
  BY <1>2, <1>3 DEF EntryAfter
<1>6. ASSUME v.action \in {"none", "delete"} PROVE FALSE
  <2>1. entry2 = entry
    BY <1>2, <1>6 DEF EntryAfter
  <2>2. Foreign(entry, root[c]) /\ entry.lines # <<>>
    BY <1>3, <2>1
  <2>3. Stored(entry) \in Seq(Line) /\ Stored(entry) # <<>> /\ found \in Seq(Line)
    BY <1>0, <2>2, MirrorLines, StoredEmpty, ScanType
  <2>4. v = Decide(CopyOf(Stored(entry)), CopyOf(found), entry.tombstone, registry[p][s],
                   EligibleSession(t, s))
    BY DEF VerdictOn, Decision
  <2> HIDE DEF entry, found, v
  <2>5. /\ Exists(CopyOf(Stored(entry)))
        /\ CopyOf(Stored(entry)).lines = Stored(entry) /\ CopyOf(found).lines = found
    BY <2>3, CopyOfType
  <2>6. CopyOf(Stored(entry)) = CopyOf(found)
    BY <1>6, <2>4, <2>5, DecideForExisting
  <2>7. found = Stored(entry)
    BY <2>5, <2>6
  <2>8. found = Canonical(home[p][s], root[c])
    BY <2>3, <2>7 DEF ScanProfile, found
  <2> QED
    BY <1>0, <2>2, <2>7, <2>8, ScanIsNotForeign DEF entry
<1> QED
  BY <1>1, <1>4, <1>5, <1>6

(***************************************************************************)
(* An import with a Foreign line scans differently from what the mirror    *)
(* holds, in a rollout of the same length: neither extends the other.      *)
(***************************************************************************)
LEMMA ForeignScansDifferently ==
    ASSUME NEW entry \in Entry, NEW dir \in Paths, Foreign(entry, dir)
    PROVE  LET found == Canonical(Materialized(entry, dir), dir)
           IN  /\ found \in Seq(Line) /\ Len(found) = Len(Stored(entry))
               /\ found # Stored(entry)
<1> DEFINE imported == Materialized(entry, dir)
<1>1. /\ imported \in Seq(Turn) /\ Stored(entry) \in Seq(Line)
      /\ Len(imported) = Len(entry.lines) /\ Len(Stored(entry)) = Len(entry.lines)
  BY MirrorLines
<1>2. Canonical(imported, dir) \in Seq(Line) /\ Len(Canonical(imported, dir)) = Len(imported)
  BY <1>1, MappedLines
<1>3. Canonical(imported, dir) # Stored(entry)
  BY <1>1, ScanIsNotForeign
<1> QED
  BY <1>1, <1>2, <1>3

LEMMA DivergedIsConflict ==
    ASSUME NEW a \in Seq(Line), NEW b \in Seq(Line), a # <<>>, Len(a) = Len(b), a # b
    PROVE  Decide(CopyOf(a), CopyOf(b), <<>>, RegistrationFor(CopyOf(a)), FALSE).action = "conflict"
<1>1. /\ Exists(CopyOf(a)) /\ CopyOf(a).lines = a
      /\ Exists(CopyOf(b)) /\ CopyOf(b).lines = b
  <2>1. b # <<>>
    BY EmptyLines
  <2> QED
    BY <2>1, CopyOfType
<1>2. CompareCanonical(a, b) = "diverged"
  <2>1. SubSeq(a, 1, Len(a)) = a /\ SubSeq(b, 1, Len(b)) = b
    OBVIOUS
  <2>2. ~IsPrefix(a, b) /\ ~IsPrefix(b, a)
    BY <2>1 DEF IsPrefix
  <2> QED
    BY <2>2 DEF CompareCanonical
<1>3. CompareSessions(CopyOf(a), CopyOf(b), RegistrationFor(CopyOf(a))) = "conflict"
  BY <1>1, <1>2 DEF CompareSessions
<1>4. ~RegistrationFor(CopyOf(a)).tombstone
  BY DEF RegistrationFor
<1> QED
  BY <1>1, <1>3, <1>4 DEF Decide, DecideBoth, Do

LEMMA ForeignConflicts ==
    ASSUME Private, NEW t \in Terminals, FinishSync(t), NEW s \in Sessions,
           Foreign(mirror'[CheckoutOf[t]][s], root[CheckoutOf[t]])
    PROVE  Decision(ProfileOf[t], CheckoutOf[t], s, FALSE)'.action = "conflict"
<1> DEFINE p == ProfileOf[t]
           c == CheckoutOf[t]
           v == VerdictOn(t, s)
           entry == mirror[c][s]
           found2 == Canonical(Materialized(entry, root[c]), root[c])
<1>0. TypeOK /\ p \in Profiles /\ c \in Checkouts /\ c \in Repositories
  BY TerminalPlaces DEF Private
<1>1. v.action = "import"
  BY <1>0, ForeignByImport
<1>2. entry \in Entry /\ root[c] \in Paths /\ entry.lines # <<>>
  BY <1>0, <1>1, VerdictGrounds DEF TypeOK
<1>3. /\ registry'[p][s] = v.registration /\ root' = root
      /\ home'[p][s] = Materialized(entry, root[c])
      /\ mirror'[c][s] = entry
  BY <1>0, <1>1, FinishSyncEffect, FinishSyncFrame DEF LinesAfter, EntryAfter
<1>4. Stored(entry) \in Seq(Line) /\ Stored(entry) # <<>> /\ Head(Stored(entry)) = Portable
  <2>1. Stored(entry) # <<>> => Head(Stored(entry)) = Portable
    BY <1>0 DEF Private, EntriesShared
  <2> HIDE DEF entry
  <2> QED
    BY <1>2, <2>1, MirrorLines, StoredEmpty
<1>5. entry.tombstone = <<>> /\ v.registration = RegistrationFor(CopyOf(Stored(entry)))
  <2>1. v = Decide(CopyOf(Stored(entry)), CopyOf(ScanProfile(p, c, s)), entry.tombstone,
                   registry[p][s], EligibleSession(t, s))
    BY DEF VerdictOn, Decision
  <2> HIDE DEF entry, v
  <2>2. Exists(CopyOf(Stored(entry)))
    BY <1>4, CopyOfType
  <2> QED
    BY <1>1, <2>1, <2>2, DecideForExisting
<1>6. Foreign(entry, root[c])
  BY <1>3
<1>7. ScanProfile(p, c, s)' = found2
  <2>1. ScanProfile(p, c, s)' = IF InProject(home'[p][s], root[c])
                                THEN Canonical(home'[p][s], root[c]) ELSE <<>>
    BY <1>3 DEF ScanProfile
  <2> HIDE DEF p, c, entry
  <2>2. InProject(home'[p][s], root[c])
    BY <1>2, <1>3, <1>4, MaterializedHead
  <2> QED
    BY <1>3, <2>1, <2>2
<1>8. Decision(ProfileOf[t], CheckoutOf[t], s, FALSE)'
        = Decide(CopyOf(Stored(entry)), CopyOf(found2), <<>>, RegistrationFor(CopyOf(Stored(entry))), FALSE)
  BY <1>3, <1>5, <1>7 DEF Decision
<1> HIDE DEF p, c, v, entry
<1>9. found2 \in Seq(Line) /\ Len(found2) = Len(Stored(entry)) /\ found2 # Stored(entry)
  BY <1>2, <1>6, ForeignScansDifferently
<1> HIDE DEF found2
<1> QED
  BY <1>4, <1>8, <1>9, DivergedIsConflict

(***************************************************************************)
(* A synchronization leaves nothing for the next one to do: no file is     *)
(* written twice and no conflict appears without a change, wherever        *)
(* checkouts move and profiles work, but for a rollout with a line that is *)
(* about this checkout's root and was written in another one: with it the  *)
(* next synchronization always stops.                                      *)
(***************************************************************************)
THEOREM NothingLeftToSync == RenamingSpec => SyncIdempotent
<1>1. Private /\ [RenamingNext]_vars =>
        [\A t \in Terminals :
           FinishSync(t) =>
             \A s \in Sessions :
                 Decision(ProfileOf[t], CheckoutOf[t], s, FALSE)'.action =
                   IF Foreign(mirror'[CheckoutOf[t]][s], root[CheckoutOf[t]])
                   THEN "conflict" ELSE "none"]_vars
  BY NothingLeft, ForeignConflicts
<1> QED
  BY <1>1, PrivateHolds, PTL DEF RenamingSpec, SyncIdempotent
-----------------------------------------------------------------------------
(***************************************************************************)
(* Why a run shares what it created: since the snapshot before Codex the   *)
(* session is new, and it stays found where Codex put it.                  *)
(***************************************************************************)
CreatedInRun ==
    \A t \in Terminals : created[t] # {} => stage[t] \in {"codex", "leaving", "postRun"}

SeenBorn == \A t \in Terminals : \A s \in before[t] \cup created[t] : born[s] # "no"

CreatedFound ==
    \A t \in Terminals : \A s \in created[t] \ deleted :
        /\ FoundAt(t, s)
        /\ stage[t] = "codex" => s \notin before[t]
        /\ stage[t] \in {"leaving", "postRun"} => s \in eligible[t]

Fresh == Steady /\ CreatedInRun /\ SeenBorn /\ CreatedFound

LEMMA FreshInit == Init => Fresh
<1> SUFFICES ASSUME Init PROVE Fresh
  OBVIOUS
<1>1. \A t \in Terminals : created[t] = {} /\ before[t] = {}
  BY DEF Init
<1> QED
  BY <1>1, SteadyInit DEF Fresh, CreatedInRun, SeenBorn, CreatedFound

(***************************************************************************)
(* A session of the checkout is found until some user deletes it: also a   *)
(* synchronization of another terminal with the same profile, which may    *)
(* replace it, leaves it where it was.                                     *)
(***************************************************************************)
LEMMA FoundStays ==
    ASSUME StayPut, Steady, Next, NEW u \in Terminals, NEW s \in Sessions,
           FoundAt(u, s), s \notin deleted'
    PROVE  FoundAt(u, s)'
<1> DEFINE q == ProfileOf[u]
           dir == root[CheckoutOf[u]]
<1>0. TypeOK /\ q \in Profiles /\ CheckoutOf[u] \in Checkouts /\ dir \in Paths
  BY TerminalPlaces DEF Steady, TypeOK
<1>1. InProject(home[q][s], dir) /\ home[q][s] # <<>> /\ home[q][s] \in Seq(Turn)
  BY <1>0 DEF FoundAt, InProject, TypeOK
<1>2. SUFFICES root' = root /\ InProject(home'[q][s], dir)
  BY DEF FoundAt
<1>3. CASE \E t \in Terminals : Quiet(t)
  BY <1>1, <1>3, QuietKeeps
<1>4. CASE \E c \in Checkouts : Exchange(c)
  BY <1>0, <1>1, <1>4, ExchangeEffect
<1>5. ASSUME NEW t \in Terminals, FinishSync(t)
      PROVE  root' = root /\ InProject(home'[q][s], dir)
  <2>1. root' = root /\ deleted' = deleted
    BY <1>0, <1>5, FinishSyncFrame
  <2>2. CASE ProfileOf[t] # q
    BY <1>0, <1>1, <1>5, <2>1, <2>2, FinishSyncFrame
  <2>3. CASE ProfileOf[t] = q
    <3> DEFINE v == VerdictOn(t, s)
               entry == mirror[CheckoutOf[u]][s]
    <3>1. CheckoutOf[t] = CheckoutOf[u]
      BY <2>3 DEF StayPut
    <3>2. home'[q][s] = LinesAfter(home[q][s], entry, dir, v.action)
      BY <1>0, <1>5, <2>3, <3>1, FinishSyncEffect
    <3>3. v.action # "delete"
      <4>1. s \notin deleted
        BY <2>1
      <4>2. entry.tombstone = <<>>
        BY <1>0, <4>1 DEF Steady, TombstonesOnlyDeleted, Repositories
      <4> QED
        BY <1>0, <3>1, <4>2, VerdictGrounds
    <3>4. CASE v.action = "import"
      <4>1. entry \in Entry /\ entry.lines # <<>> /\ Head(Stored(entry)) = Portable
        <5>1. entry \in Entry
          BY <1>0 DEF TypeOK, Repositories
        <5>2. entry.lines # <<>>
          BY <1>0, <3>1, <3>4, VerdictGrounds
        <5>3. entry.lines # <<>> => Head(Stored(entry)) = Portable
          BY <1>0 DEF Steady, MirrorPortable, Repositories
        <5> QED
          BY <5>1, <5>2, <5>3
      <4>2. home'[q][s] = Materialized(entry, dir)
        BY <3>2, <3>4 DEF LinesAfter
      <4> HIDE DEF entry, dir, q
      <4> QED
        BY <1>0, <2>1, <4>1, <4>2, MaterializedHead
    <3>5. CASE v.action # "import"
      BY <1>1, <2>1, <3>2, <3>3, <3>5 DEF LinesAfter
    <3> QED
      BY <3>4, <3>5
  <2> QED
    BY <2>2, <2>3
<1>6. ASSUME NEW t \in Terminals, Codex(t)
      PROVE  root' = root /\ InProject(home'[q][s], dir)
  <2>1. root' = root
    BY <1>0, <1>6, CodexEffect
  <2>2. CASE ProfileOf[t] # q
    BY <1>0, <1>1, <1>6, <2>1, <2>2, CodexEffect
  <2>3. CASE ProfileOf[t] = q
    <3>1. born[s] # "no"
      BY <1>1 DEF Steady, BornFirst
    <3>2. \/ home'[q][s] = home[q][s]
          \/ home'[q][s] \in {Append(home[q][s], turn) : turn \in Turns(t)}
      <4>1. s \notin deleted'
        OBVIOUS
      <4>2. \/ home'[ProfileOf[t]][s] = home[ProfileOf[t]][s]
            \/ home'[ProfileOf[t]][s] \in {<<turn>> : turn \in Turns(t)} /\ born[s] = "no"
            \/ home'[ProfileOf[t]][s]
                 \in {Append(home[ProfileOf[t]][s], turn) : turn \in Turns(t)}
            \/ home'[ProfileOf[t]][s] = <<>> /\ s \in deleted'
        <5> HIDE DEF q, dir
        <5> QED
          BY <1>0, <1>6, CodexEffect, Zenon
      <4> QED
        BY <2>3, <3>1, <4>1, <4>2
    <3>3. CASE home'[q][s] \in {Append(home[q][s], turn) : turn \in Turns(t)}
      <4>1. PICK d \in Turns(t) : home'[q][s] = Append(home[q][s], d)
        BY <3>3
      <4>2. d \in Turn
        BY <1>0, <4>1, CodexTurns
      <4> HIDE DEF q, dir
      <4> QED
        BY <1>1, <2>1, <4>1, <4>2, AppendInProject
    <3> QED
      BY <1>1, <2>1, <3>2, <3>3
  <2> QED
    BY <2>2, <2>3
<1> QED
  BY <1>3, <1>4, <1>5, <1>6, StepCases DEF RenamingNext

LEMMA FreshQuiet ==
    ASSUME StayPut, Fresh, Steady', NEW t \in Terminals, Quiet(t)
    PROVE  Fresh'
<1> USE DEF repoVars, terminalVars
<1>0. TypeOK /\ UNCHANGED <<root, home, born, deleted>>
  BY QuietKeeps DEF Fresh, Steady
<1>1. /\ created[t] # {} => stage[t] \in {"codex", "leaving", "postRun"}
      /\ \A s \in created[t] \ deleted :
           /\ s \in Sessions /\ FoundAt(t, s)
           /\ stage[t] = "codex" => s \notin before[t]
           /\ stage[t] \in {"leaving", "postRun"} => s \in eligible[t]
  BY <1>0 DEF Fresh, CreatedInRun, CreatedFound, TypeOK
<1> DEFINE Goes ==
          /\ \A u \in Terminals \ {t} : /\ stage'[u] = stage[u] /\ before'[u] = before[u]
                                        /\ eligible'[u] = eligible[u] /\ created'[u] = created[u]
          /\ created'[t] # {} => stage'[t] \in {"codex", "leaving", "postRun"}
          /\ created'[t] \subseteq created[t]
          /\ before'[t] \subseteq before[t] \cup SnapshotProfile(ProfileOf[t], CheckoutOf[t])
          /\ \A s \in created'[t] \ deleted :
               /\ stage'[t] = "codex" => s \notin before'[t]
               /\ stage'[t] \in {"leaving", "postRun"} => s \in eligible'[t]
<1>2. Goes
  <2> USE DEF TypeOK
  <2>1. CASE Start(t)
    BY <1>0, <1>1, <2>1 DEF Start, StartRun, OpenShell, StartSync, InitProject, Take
  <2>2. CASE EndStatus(t) \/ FailSync(t) \/ LaunchFails(t) \/ PostRunRefused(t) \/ Kill(t)
    BY <1>0, <1>1, <2>2 DEF EndStatus, FailSync, LaunchFails, PostRunRefused, Kill, Continue
  <2>3. CASE SnapshotBefore(t)
    BY <1>0, <1>1, <2>3 DEF SnapshotBefore
  <2>4. CASE CodexExit(t)
    BY <1>0, <1>1, <2>4 DEF CodexExit, NewSessions, SnapshotProfile, FoundAt
  <2>5. CASE CloseShell(t)
    BY <1>0, <1>1, <2>5 DEF CloseShell
  <2>6. CASE StartPostRun(t)
    BY <1>0, <1>1, <2>6 DEF StartPostRun, Take
  <2> QED
    BY <2>1, <2>2, <2>3, <2>4, <2>5, <2>6 DEF Quiet
<1>3. \A s \in SnapshotProfile(ProfileOf[t], CheckoutOf[t]) : born[s] # "no"
  BY DEF SnapshotProfile, InProject, Fresh, Steady, BornFirst
<1>4. CreatedInRun'
  BY <1>2 DEF Fresh, CreatedInRun
<1>5. SeenBorn'
  BY <1>0, <1>2, <1>3 DEF Fresh, SeenBorn
<1>6. CreatedFound'
  <2>1. \A u \in Terminals, s \in Sessions : FoundAt(u, s)' <=> FoundAt(u, s)
    BY <1>0 DEF FoundAt
  <2>2. \A u \in Terminals : created'[u] \subseteq created[u] /\ created[u] \subseteq Sessions
    BY <1>0, <1>2 DEF TypeOK
  <2> QED
    BY <1>0, <1>2, <2>1, <2>2 DEF Fresh, CreatedFound
<1> QED
  BY <1>4, <1>5, <1>6 DEF Fresh

LEMMA FreshSync ==
    ASSUME StayPut, Fresh, Steady', Next, NEW t \in Terminals, FinishSync(t)
    PROVE  Fresh'
<1>0. TypeOK /\ UNCHANGED <<born, deleted>>
  BY FinishSyncFrame DEF Fresh, Steady
<1>1. /\ created'[t] = {} /\ before'[t] = {}
      /\ \A u \in Terminals \ {t} : /\ stage'[u] = stage[u] /\ before'[u] = before[u]
                                    /\ eligible'[u] = eligible[u] /\ created'[u] = created[u]
  BY <1>0 DEF FinishSync, Continue, TypeOK
<1>2. CreatedInRun' /\ SeenBorn'
  BY <1>0, <1>1 DEF Fresh, CreatedInRun, SeenBorn
<1>3. ASSUME NEW u \in Terminals \ {t}, NEW s \in created[u] \ deleted
      PROVE  /\ FoundAt(u, s)'
             /\ stage[u] = "codex" => s \notin before[u]
             /\ stage[u] \in {"leaving", "postRun"} => s \in eligible[u]
  <2>1. s \in Sessions
    BY <1>0, <1>3 DEF TypeOK
  <2> QED
    BY <1>0, <2>1, FoundStays DEF Fresh, CreatedFound
<1>4. CreatedFound'
  BY <1>0, <1>1, <1>3 DEF CreatedFound
<1> QED
  BY <1>2, <1>4 DEF Fresh

(***************************************************************************)
(* Codex adds to what its run created a session that was nowhere before.   *)
(***************************************************************************)
LEMMA CreatedByCodex ==
    ASSUME TypeOK, NEW t \in Terminals, Codex(t)
    PROVE  /\ \A u \in Terminals \ {t} : created'[u] = created[u]
           /\ \/ created'[t] = created[t]
              \/ \E s \in Sessions : /\ created'[t] = created[t] \cup {s}
                                     /\ stage[t] = "codex" /\ born[s] = "no" /\ born'[s] # "no"
                                     /\ home'[ProfileOf[t]][s] = <<TurnIn(t, root[CheckoutOf[t]])>>
<1>1. PICK s \in Sessions : CodexCreate(t, s) \/ CodexAppend(t, s) \/ CodexDelete(t, s)
  BY DEF Codex
<1>2. CASE CodexAppend(t, s) \/ CodexDelete(t, s)
  BY <1>2 DEF CodexAppend, CodexDelete
<1>3. CASE CodexCreate(t, s)
  <2> DEFINE p == ProfileOf[t]
             c == CheckoutOf[t]
  <2>1. PICK dir \in Directories(t) :
          /\ home' = [home EXCEPT ![p][s] = <<TurnIn(t, dir)>>]
          /\ created' = IF stage[t] = "codex" /\ dir = root[c]
                        THEN [created EXCEPT ![t] = @ \cup {s}] ELSE created
    BY <1>3 DEF CodexCreate
  <2>2. /\ born[s] = "no"
        /\ born' = [born EXCEPT ![s] = IF initialized = {} THEN "before" ELSE "after"]
    BY <1>3 DEF CodexCreate
  <2>3. born'[s] # "no"
    BY <2>2 DEF TypeOK
  <2>4. home'[p][s] = <<TurnIn(t, dir)>>
    BY <2>1, TerminalPlaces DEF TypeOK
  <2> HIDE DEF p, c
  <2>5. CASE stage[t] = "codex" /\ dir = root[c]
    <3>1. created' = [created EXCEPT ![t] = @ \cup {s}]
      BY <2>1, <2>5
    <3>2. created'[t] = created[t] \cup {s} /\ \A u \in Terminals \ {t} : created'[u] = created[u]
      BY <3>1 DEF TypeOK
    <3> QED
      BY <2>2, <2>3, <2>4, <2>5, <3>2 DEF p, c
  <2>6. CASE ~(stage[t] = "codex" /\ dir = root[c])
    BY <2>1, <2>6
  <2> QED
    BY <2>5, <2>6
<1> QED
  BY <1>1, <1>2, <1>3

LEMMA FreshCodex ==
    ASSUME StayPut, Fresh, Steady', Next, NEW t \in Terminals, Codex(t)
    PROVE  Fresh'
<1>0. TypeOK /\ created \in [Terminals -> SUBSET Sessions] /\ before \in [Terminals -> SUBSET Sessions]
  BY DEF Fresh, Steady, TypeOK
<1>1. UNCHANGED <<root, stage, before, eligible>> /\ deleted \subseteq deleted'
  BY <1>0, CodexEffect
<1>2. \A s \in Sessions : born[s] # "no" => born'[s] # "no"
  BY <1>0, CodexEffect
<1>3. ASSUME NEW u \in Terminals, NEW s \in created[u]
      PROVE  /\ born'[s] # "no"
             /\ s \notin deleted' => /\ FoundAt(u, s)'
                                     /\ stage[u] = "codex" => s \notin before[u]
                                     /\ stage[u] \in {"leaving", "postRun"} => s \in eligible[u]
  <2>1. s \in Sessions
    BY <1>0
  <2>2. born'[s] # "no"
    BY <1>2, <2>1 DEF Fresh, SeenBorn
  <2> QED
    BY <1>1, <2>1, <2>2, FoundStays DEF Fresh, CreatedFound
<1>4. ASSUME NEW s \in created'[t], s \notin created[t]
      PROVE  /\ stage[t] = "codex" /\ born'[s] # "no" /\ s \notin before[t]
             /\ FoundAt(t, s)'
  <2>1. /\ stage[t] = "codex" /\ born[s] = "no" /\ born'[s] # "no"
        /\ home'[ProfileOf[t]][s] = <<TurnIn(t, root[CheckoutOf[t]])>>
    BY <1>0, <1>4, CreatedByCodex
  <2>2. s \notin before[t]
    BY <2>1 DEF Fresh, SeenBorn
  <2>3. FoundAt(t, s)'
    BY <1>1, <2>1, NewInProject DEF FoundAt, TurnIn
  <2> QED
    BY <2>1, <2>2, <2>3
<1>5. \A u \in Terminals \ {t} : created'[u] = created[u]
  BY <1>0, CreatedByCodex
<1>6. CreatedInRun'
  BY <1>1, <1>4, <1>5 DEF Fresh, CreatedInRun
<1>7. SeenBorn'
  <2>1. \A u \in Terminals : \A s \in before[u] : born'[s] # "no"
    BY <1>0, <1>2 DEF Fresh, SeenBorn
  <2>2. \A u \in Terminals : \A s \in created'[u] : born'[s] # "no"
    BY <1>3, <1>4, <1>5
  <2> QED
    BY <1>1, <2>1, <2>2 DEF SeenBorn
<1>8. CreatedFound'
  <2>1. SUFFICES ASSUME NEW u \in Terminals, NEW s \in created'[u] \ deleted'
                 PROVE  /\ FoundAt(u, s)'
                        /\ stage[u] = "codex" => s \notin before[u]
                        /\ stage[u] \in {"leaving", "postRun"} => s \in eligible[u]
    BY <1>1 DEF CreatedFound
  <2>2. CASE s \in created[u]
    BY <1>3, <2>1, <2>2
  <2>3. CASE s \notin created[u]
    BY <1>4, <1>5, <2>1, <2>3
  <2> QED
    BY <2>2, <2>3
<1> QED
  BY <1>6, <1>7, <1>8 DEF Fresh

LEMMA FreshNext == ASSUME StayPut, Fresh, [Next]_vars PROVE Fresh'
<1>0. Steady /\ Steady' /\ TypeOK
  BY SteadyNext DEF Fresh, Steady
<1>1. CASE Next /\ \E t \in Terminals : Quiet(t) \/ FinishSync(t) \/ Codex(t)
  BY <1>0, <1>1, FreshQuiet, FreshSync, FreshCodex
<1>2. ASSUME UNCHANGED <<root, home, stage, before, eligible, created, born, deleted>>
      PROVE  Fresh'
  <2>1. \A u \in Terminals, s \in Sessions : FoundAt(u, s)' <=> FoundAt(u, s)
    BY <1>2 DEF FoundAt
  <2>2. \A u \in Terminals : created[u] \subseteq Sessions
    BY <1>0 DEF TypeOK
  <2> QED
    BY <1>0, <1>2, <2>1, <2>2 DEF Fresh, CreatedInRun, SeenBorn, CreatedFound
<1>3. CASE \E c \in Checkouts : Exchange(c)
  BY <1>2, <1>3 DEF Exchange, profileVars, terminalVars, historyVars
<1>4. CASE UNCHANGED vars
  BY <1>2, <1>4 DEF vars, repoVars, profileVars, terminalVars, historyVars
<1> QED
  BY <1>1, <1>3, <1>4, StepCases DEF RenamingNext

LEMMA SharedUnlessRefused ==
    ASSUME NEW project, NEW profile, NEW base, Exists(profile),
           Decide(project, profile, <<>>, base, TRUE).action \notin {"error", "conflict"}
    PROVE  LET action == Decide(project, profile, <<>>, base, TRUE).action
           IN  action = "export" \/ (action \in {"none", "import"} /\ Exists(project))
<1>0. \A a, r : Do(a, r).action = a
  BY DEF Do
<1>1. CASE Exists(project)
  BY <1>0, <1>1 DEF Decide, DecideBoth, CompareSessions, MetadataWinner
<1>2. CASE ~Exists(project)
  BY <1>0, <1>2 DEF Decide, DecideProfileOnly
<1> QED
  BY <1>1, <1>2

LEMMA SharesCreated ==
    ASSUME Fresh, NEW t \in Terminals, stage[t] = "postRun", FinishSync(t),
           NEW s \in created[t] \ deleted
    PROVE  mirror'[CheckoutOf[t]][s].lines # <<>>
<1> DEFINE p == ProfileOf[t]
           c == CheckoutOf[t]
           v == VerdictOn(t, s)
           entry == mirror[c][s]
           found == ScanProfile(p, c, s)
<1>0. TypeOK /\ s \in Sessions /\ p \in Profiles /\ c \in Checkouts /\ c \in Repositories
  BY TerminalPlaces DEF Fresh, Steady, TypeOK
<1>1. /\ v.action \notin {"error", "conflict"}
      /\ v.action = "export" => Stored(mirror'[c][s]) # <<>>
      /\ v.action \notin {"export", "tombstone"} => mirror'[c][s] = entry
      /\ Stored(mirror'[c][s]) = <<>> <=> mirror'[c][s].lines = <<>>
      /\ Stored(entry) = <<>> <=> entry.lines = <<>>
  BY <1>0, FinishSyncEffect, StoredAfter
<1>2. FoundAt(t, s) /\ EligibleSession(t, s)
  BY DEF Fresh, CreatedFound, EligibleSession
<1>3. found \in Seq(Line) /\ found # <<>> /\ entry \in Entry /\ root[c] \in Paths
  BY <1>0, <1>2, ScanType DEF FoundAt, TypeOK
<1>4. entry.tombstone = <<>>
  BY <1>0 DEF Fresh, Steady, TombstonesOnlyDeleted
<1>5. /\ Exists(CopyOf(found))
      /\ Exists(CopyOf(Stored(entry))) <=> entry.lines # <<>>
  <2> HIDE DEF entry, found
  <2>1. Stored(entry) \in Seq(Line)
    BY <1>3, MirrorLines
  <2> QED
    BY <1>1, <1>3, <2>1, CopyOfType
<1>6. EligibleSession(t, s) = TRUE
  BY <1>2 DEF EligibleSession
<1>7. v = Decide(CopyOf(Stored(entry)), CopyOf(found), <<>>, registry[p][s], TRUE)
  BY <1>4, <1>6 DEF VerdictOn, Decision
<1> HIDE DEF v, entry, found
<1>8. v.action = "export" \/ (v.action \in {"none", "import"} /\ entry.lines # <<>>)
  BY <1>1, <1>5, <1>7, SharedUnlessRefused
<1> QED
  BY <1>1, <1>8

(***************************************************************************)
(* A run whose last synchronization succeeds has shared every session it   *)
(* created and nobody deleted, whatever other terminals and checkouts did  *)
(* meanwhile, as long as users stay put.                                   *)
(***************************************************************************)
THEOREM RunsShareWhatTheyCreate == StayPut => (Spec => NewShared)
<1> SUFFICES ASSUME StayPut PROVE Spec => NewShared
  OBVIOUS
<1>1. Init => Fresh
  BY FreshInit
<1>2. Fresh /\ [Next]_vars => Fresh'
  BY FreshNext
<1>3. Fresh /\ [Next]_vars =>
        [\A t \in Terminals :
           stage[t] = "postRun" /\ FinishSync(t) =>
             \A s \in created[t] \ deleted : mirror'[CheckoutOf[t]][s].lines # <<>>]_vars
  BY SharesCreated
<1> QED
  BY <1>1, <1>2, <1>3, PTL DEF Spec, NewShared
=============================================================================
