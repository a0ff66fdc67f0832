---------------------------- MODULE SessionMerge ----------------------------
(***************************************************************************)
(* The decision procedure of internal/session/sync.go: what one            *)
(* synchronization does with one session, given the copy in the project    *)
(* mirror, the copy in the profile, the tombstone and the registration     *)
(* this profile recorded at its last synchronization.                      *)
(*                                                                         *)
(* A rollout is the sequence of its JSONL lines after portableCWD has      *)
(* removed the checkout's path from them, so two checkouts of one session  *)
(* hold equal sequences.  A checksum is a function of those lines: equal   *)
(* checksums are equal sequences, and the model keeps the lines where the  *)
(* code keeps the checksum.  No lines means no file.                       *)
(***************************************************************************)
EXTENDS Naturals, SequencesExt

CONSTANTS
    Line,    \* the JSONL lines a rollout can hold
    Name,    \* the thread names a user can give
    NoName   \* the name of a session nobody has named ("" in the code)

ASSUME NameAssumption == NoName \notin Name

(***************************************************************************)
(* A rollout lives under sessions/ or, once archived, archived_sessions/.  *)
(***************************************************************************)
Place == {"sessions", "archived_sessions"}

ThreadName == Name \cup {NoName}

(***************************************************************************)
(* What the scans return for one session: where its rollout is, what it    *)
(* holds and how it is named.                                              *)
(***************************************************************************)
Copy == [place : Place, lines : Seq(Line), name : ThreadName]

NoCopy == [place |-> "sessions", lines |-> <<>>, name |-> NoName]

Exists(copy) == copy.lines # <<>>

(***************************************************************************)
(* The registry entry of a session.  A tombstone registration keeps the    *)
(* checksum of the deleted rollout and no metadata.                        *)
(***************************************************************************)
Registration == [tombstone : BOOLEAN, copy : Copy]

NoRegistration == [tombstone |-> FALSE, copy |-> NoCopy]

RegistrationFor(copy) == [tombstone |-> FALSE, copy |-> copy]

TombstoneRegistration(lines) ==
    [tombstone |-> TRUE, copy |-> [NoCopy EXCEPT !.lines = lines]]

Owned(base) == Exists(base.copy)

\* A mistake the properties must catch: length decides, not the common prefix.
CompareByLength(project, profile) ==
    IF project = profile THEN "equal"
    ELSE IF Len(project) > Len(profile) THEN "project-longer"
    ELSE "profile-longer"

CompareCanonical(project, profile) ==
    IF project = profile THEN "equal"
    ELSE IF IsPrefix(profile, project) THEN "project-longer"
    ELSE IF IsPrefix(project, profile) THEN "profile-longer"
    ELSE "diverged"

\* Mistakes: the repository always decides; a change on both sides goes unnoticed.
MetadataFromProject(owned, projectChanged, profileChanged) == "project"
MetadataFromChanged(owned, projectChanged, profileChanged) ==
    IF projectChanged THEN "project" ELSE "profile"

(***************************************************************************)
(* Who decides archive state and name when both copies hold the same lines *)
(* and differ in nothing else.                                             *)
(***************************************************************************)
MetadataWinner(owned, projectChanged, profileChanged) ==
    IF ~owned \/ (projectChanged /\ ~profileChanged) THEN "project"
    ELSE IF profileChanged /\ ~projectChanged THEN "profile"
    ELSE "conflict"

(***************************************************************************)
(* Which of two existing copies wins: "project", "profile", "equal" when   *)
(* they already agree, or "conflict".                                      *)
(***************************************************************************)
CompareSessions(project, profile, base) ==
    LET projectChanged == ~Owned(base) \/ project # base.copy
        profileChanged == ~Owned(base) \/ profile # base.copy
        bothMoved == Owned(base) /\ projectChanged /\ profileChanged
        relation  == CompareCanonical(project.lines, profile.lines)
    IN  IF project = profile THEN "equal"
        ELSE IF relation = "equal"
             THEN MetadataWinner(Owned(base), projectChanged, profileChanged)
        ELSE IF relation = "diverged" \/ bothMoved THEN "conflict"
        ELSE IF relation = "project-longer" THEN "project"
        ELSE "profile"

(***************************************************************************)
(* The step of reconcileState for one session: what it does to the files   *)
(* and the registration it leaves.  "error" and "conflict" stop the whole  *)
(* synchronization; "none" touches no file.                                *)
(***************************************************************************)
FileAction == {"none", "import", "export", "tombstone", "delete"}

Verdict == [action : FileAction \cup {"error", "conflict"}, registration : Registration]

Do(action, registration) == [action |-> action, registration |-> registration]

\* Mistakes: a copy that has advanced brings the session back; a tombstone deletes
\* whatever copy the profile holds.
TombstoneYields(profile, tombstone, base) ==
    IF Exists(profile) /\ profile.lines # tombstone
    THEN Do("export", RegistrationFor(profile))
    ELSE Do("none", TombstoneRegistration(tombstone))
DeleteRegardless(profile, tombstone, base) ==
    Do(IF Exists(profile) THEN "delete" ELSE "none", TombstoneRegistration(tombstone))

DecideTombstoned(profile, tombstone, base) ==
    IF Owned(base)
    THEN Do(IF Exists(profile) THEN "delete" ELSE "none", TombstoneRegistration(tombstone))
    ELSE Do("none", base)

DecideBoth(project, profile, base) ==
    LET winner == CompareSessions(project, profile, base)
    IN  IF winner = "conflict" THEN Do("conflict", base)
        ELSE IF winner = "project" THEN Do("import", RegistrationFor(project))
        ELSE IF winner = "profile" THEN Do("export", RegistrationFor(profile))
        ELSE Do("none", RegistrationFor(project))

DecideProjectOnly(project, base) ==
    IF Owned(base) THEN Do("tombstone", TombstoneRegistration(project.lines))
                   ELSE Do("import", RegistrationFor(project))

DecideProfileOnly(profile, base, eligible) ==
    IF Owned(base) THEN Do("error", base)
    ELSE IF eligible THEN Do("export", RegistrationFor(profile))
    ELSE Do("none", base)

DecideNeither(base) ==
    Do(IF Owned(base) /\ ~base.tombstone THEN "error" ELSE "none", base)

Decide(project, profile, tombstone, base, eligible) ==
    IF tombstone # <<>>
    THEN IF Exists(project) THEN Do("error", base)
                            ELSE DecideTombstoned(profile, tombstone, base)
    ELSE IF ~Exists(project) /\ ~Exists(profile) THEN DecideNeither(base)
    ELSE IF base.tombstone THEN Do("error", base)
    ELSE IF ~Exists(profile) THEN DecideProjectOnly(project, base)
    ELSE IF ~Exists(project) THEN DecideProfileOnly(profile, base, eligible)
    ELSE DecideBoth(project, profile, base)
=============================================================================
