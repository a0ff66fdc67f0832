------------------------- MODULE SessionMergeProofs -------------------------
(***************************************************************************)
(* Facts about the decision procedure of SessionMerge, for every set of    *)
(* lines and names.                                                        *)
(***************************************************************************)
EXTENDS SessionMerge, TLAPS

(***************************************************************************)
(* Two rollouts that are prefixes of each other hold the same lines.       *)
(***************************************************************************)
LEMMA PrefixAntisymmetry ==
    ASSUME NEW a \in Seq(Line), NEW b \in Seq(Line), IsPrefix(a, b), IsPrefix(b, a)
    PROVE  a = b
<1>1. Len(a) = Len(b)
  BY DEF IsPrefix
<1>2. \A i \in 1..Len(a) : SubSeq(a, 1, Len(a))[i] = a[i] /\ SubSeq(b, 1, Len(a))[i] = b[i]
  BY <1>1
<1>3. SubSeq(a, 1, Len(a)) = SubSeq(b, 1, Len(a))
  BY DEF IsPrefix
<1>4. \A i \in 1..Len(a) : a[i] = b[i]
  BY <1>2, <1>3
<1> QED
  BY <1>1, <1>4

LEMMA CopyFields ==
    ASSUME NEW copy \in Copy
    PROVE  copy.lines \in Seq(Line) /\ copy.place \in Place /\ copy.name \in ThreadName
BY DEF Copy

(***************************************************************************)
(* The reference: a side that has not changed since the base gives way to  *)
(* the other one; two different changes are a conflict.                    *)
(***************************************************************************)
ThreeWayMerge(project, profile, base) ==
    IF project = profile THEN "equal"
    ELSE IF profile = base THEN "project"
    ELSE IF project = base THEN "profile"
    ELSE "conflict"

(***************************************************************************)
(* compareSessions never consults the base when it compares the contents,  *)
(* yet as long as both copies have only been appended to since the last    *)
(* synchronization it decides exactly as the three-way merge of content,   *)
(* archive state and name does.                                            *)
(***************************************************************************)
THEOREM CompareIsThreeWayMerge ==
    ASSUME NEW project \in Copy, NEW profile \in Copy, NEW base \in Registration,
           Owned(base),
           IsPrefix(base.copy.lines, project.lines),
           IsPrefix(base.copy.lines, profile.lines)
    PROVE  CompareSessions(project, profile, base)
             = ThreeWayMerge(project, profile, base.copy)
<1> DEFINE relation == CompareCanonical(project.lines, profile.lines)
<1>0. /\ project.lines \in Seq(Line) /\ profile.lines \in Seq(Line)
      /\ base.copy.lines \in Seq(Line)
  BY CopyFields DEF Registration
<1>1. CASE project = profile
  BY <1>1 DEF CompareSessions, ThreeWayMerge
<1>2. CASE project # profile /\ relation = "diverged"
  <2>1. ~IsPrefix(project.lines, profile.lines) /\ ~IsPrefix(profile.lines, project.lines)
    BY <1>2 DEF CompareCanonical
  <2>2. project # base.copy /\ profile # base.copy
    BY <2>1
  <2> QED
    BY <1>2, <2>2 DEF CompareSessions, ThreeWayMerge
<1>3. CASE project # profile /\ relation = "project-longer"
  <2>1. IsPrefix(profile.lines, project.lines) /\ profile.lines # project.lines
    BY <1>3 DEF CompareCanonical
  <2>2. project # base.copy
    BY <1>0, <2>1, PrefixAntisymmetry
  <2> QED
    BY <1>3, <2>2 DEF CompareSessions, ThreeWayMerge
<1>4. CASE project # profile /\ relation = "profile-longer"
  <2>1. IsPrefix(project.lines, profile.lines) /\ profile.lines # project.lines
    BY <1>4 DEF CompareCanonical
  <2>2. profile # base.copy
    BY <1>0, <2>1, PrefixAntisymmetry
  <2> QED
    BY <1>4, <2>2 DEF CompareSessions, ThreeWayMerge
<1>5. CASE project # profile /\ relation = "equal"
  BY <1>5 DEF CompareSessions, ThreeWayMerge, MetadataWinner
<1>6. relation \in {"diverged", "project-longer", "profile-longer", "equal"}
  BY DEF CompareCanonical
<1> QED
  BY <1>1, <1>2, <1>3, <1>4, <1>5, <1>6

(***************************************************************************)
(* Whatever the base says, the copy that wins extends the one that gives   *)
(* way: an update never takes a line away, it adds lines or changes        *)
(* metadata.                                                               *)
(***************************************************************************)
THEOREM WinnerExtendsLoser ==
    ASSUME NEW project \in Copy, NEW profile \in Copy, NEW base \in Registration
    PROVE  /\ CompareSessions(project, profile, base) = "project"
                => IsPrefix(profile.lines, project.lines)
           /\ CompareSessions(project, profile, base) = "profile"
                => IsPrefix(project.lines, profile.lines)
<1>1. /\ project.lines \in Seq(Line) /\ profile.lines \in Seq(Line)
  BY CopyFields
<1>2. IsPrefix(project.lines, project.lines)
  BY <1>1 DEF IsPrefix
<1> QED
  BY <1>2 DEF CompareSessions, CompareCanonical, MetadataWinner

LEMMA NoCopyType == NoCopy \in Copy /\ NoRegistration \in Registration
BY DEF NoCopy, NoRegistration, Copy, Registration, Place, ThreadName

LEMMA RegistrationType ==
    ASSUME NEW copy \in Copy, NEW lines \in Seq(Line)
    PROVE  /\ RegistrationFor(copy) \in Registration
           /\ TombstoneRegistration(lines) \in Registration
BY NoCopyType DEF RegistrationFor, TombstoneRegistration, Registration, Copy

(***************************************************************************)
(* Decide returns one of the actions and a registration.                   *)
(***************************************************************************)
LEMMA DecideType ==
    ASSUME NEW project \in Copy, NEW profile \in Copy, NEW tombstone \in Seq(Line),
           NEW base \in Registration, NEW eligible
    PROVE  Decide(project, profile, tombstone, base, eligible) \in Verdict
<1>1. project.lines \in Seq(Line)
  BY CopyFields
<1>2. /\ RegistrationFor(project) \in Registration
      /\ RegistrationFor(profile) \in Registration
      /\ TombstoneRegistration(tombstone) \in Registration
      /\ TombstoneRegistration(project.lines) \in Registration
  BY <1>1, RegistrationType
<1>3. \A action \in FileAction \cup {"error", "conflict"}, r \in Registration :
        Do(action, r) \in Verdict
  BY DEF Do, Verdict
<1>4. DecideBoth(project, profile, base) \in Verdict
  BY <1>2, <1>3 DEF DecideBoth, FileAction
<1>5. /\ DecideTombstoned(profile, tombstone, base) \in Verdict
      /\ DecideProjectOnly(project, base) \in Verdict
      /\ DecideProfileOnly(profile, base, eligible) \in Verdict
      /\ DecideNeither(base) \in Verdict
      /\ Do("error", base) \in Verdict
  BY <1>2, <1>3 DEF DecideTombstoned, DecideProjectOnly, DecideProfileOnly, DecideNeither, FileAction
<1> QED
  BY <1>4, <1>5 DEF Decide

(***************************************************************************)
(* Only an existing copy is exported, under no tombstone; only a copy the  *)
(* project holds is tombstoned.                                            *)
(***************************************************************************)
LEMMA DecideActsOnCopies ==
    ASSUME NEW project, NEW profile, NEW tombstone, NEW base, NEW eligible
    PROVE  LET action == Decide(project, profile, tombstone, base, eligible).action
           IN  /\ action = "export" => Exists(profile) /\ tombstone = <<>>
               /\ action = "tombstone" => Exists(project)
<1>1. \A a, r : Do(a, r).action = a
  BY DEF Do
<1>2. DecideBoth(project, profile, base).action # "tombstone"
  BY <1>1 DEF DecideBoth
<1>3. DecideTombstoned(profile, tombstone, base).action \in {"none", "delete"}
  BY <1>1 DEF DecideTombstoned
<1>4. DecideNeither(base).action \in {"none", "error"}
  BY <1>1 DEF DecideNeither
<1>5. DecideProjectOnly(project, base).action \in {"tombstone", "import"}
  BY <1>1 DEF DecideProjectOnly
<1>6. DecideProfileOnly(profile, base, eligible).action \in {"error", "export", "none"}
  BY <1>1 DEF DecideProfileOnly
<1> QED
  BY <1>1, <1>2, <1>3, <1>4, <1>5, <1>6 DEF Decide

(***************************************************************************)
(* Only a copy the project holds is imported; only a copy this profile has *)
(* registered before is deleted from it.                                   *)
(***************************************************************************)
LEMMA DecideReadsProject ==
    ASSUME NEW project, NEW profile, NEW tombstone, NEW base, NEW eligible
    PROVE  LET action == Decide(project, profile, tombstone, base, eligible).action
           IN  /\ action = "import" => Exists(project)
               /\ action = "delete" => Owned(base) /\ Exists(profile)
<1>1. \A a, r : Do(a, r).action = a
  BY DEF Do
<1>2. DecideBoth(project, profile, base).action # "delete"
  BY <1>1 DEF DecideBoth
<1>3. DecideTombstoned(profile, tombstone, base).action # "import"
  BY <1>1 DEF DecideTombstoned
<1>4. DecideTombstoned(profile, tombstone, base).action = "delete" => Owned(base) /\ Exists(profile)
  BY <1>1 DEF DecideTombstoned
<1>5. DecideNeither(base).action \in {"none", "error"}
  BY <1>1 DEF DecideNeither
<1>6. DecideProjectOnly(project, base).action \in {"tombstone", "import"}
  BY <1>1 DEF DecideProjectOnly
<1>7. DecideProfileOnly(profile, base, eligible).action \in {"error", "export", "none"}
  BY <1>1 DEF DecideProfileOnly
<1> QED
  BY <1>1, <1>2, <1>3, <1>4, <1>5, <1>6, <1>7 DEF Decide

(***************************************************************************)
(* What the mirror and the profile hold once the action on a session is    *)
(* carried out.                                                            *)
(***************************************************************************)
MirrorAfter(action, project, profile) ==
    IF action = "export" THEN profile ELSE IF action = "tombstone" THEN NoCopy ELSE project

ProfileAfter(action, project, profile) ==
    IF action = "import" THEN project ELSE IF action = "delete" THEN NoCopy ELSE profile

(***************************************************************************)
(* A decision that does not stop the synchronization leaves the mirror,    *)
(* the profile and the registration in agreement.                          *)
(***************************************************************************)
LEMMA DecideAgrees ==
    ASSUME NEW project, NEW profile, NEW tombstone, NEW base, NEW eligible,
           Exists(project) => tombstone = <<>>,
           Decide(project, profile, tombstone, base, eligible).action \in FileAction
    PROVE  LET verdict == Decide(project, profile, tombstone, base, eligible)
               mirrored == MirrorAfter(verdict.action, project, profile)
               kept == ProfileAfter(verdict.action, project, profile)
           IN  /\ Exists(mirrored) => kept = mirrored /\ verdict.registration = RegistrationFor(kept)
               /\ Owned(verdict.registration) /\ ~verdict.registration.tombstone => Exists(mirrored)
               /\ Owned(verdict.registration) /\ (tombstone # <<>> \/ verdict.action = "tombstone")
                    => ~Exists(kept) /\ verdict.registration.tombstone
<1> DEFINE verdict == Decide(project, profile, tombstone, base, eligible)
           Agrees(v) ==
             LET mirrored == MirrorAfter(v.action, project, profile)
                 kept == ProfileAfter(v.action, project, profile)
             IN  /\ Exists(mirrored) => kept = mirrored /\ v.registration = RegistrationFor(kept)
                 /\ Owned(v.registration) /\ ~v.registration.tombstone => Exists(mirrored)
                 /\ Owned(v.registration) /\ (tombstone # <<>> \/ v.action = "tombstone")
                      => ~Exists(kept) /\ v.registration.tombstone
<1>1. \A a, r : Do(a, r).action = a /\ Do(a, r).registration = r
  BY DEF Do
<1>2. /\ ~Exists(NoCopy) /\ "error" \notin FileAction /\ "conflict" \notin FileAction
      /\ \A copy : /\ Owned(RegistrationFor(copy)) <=> Exists(copy)
                   /\ ~RegistrationFor(copy).tombstone
      /\ \A lines : TombstoneRegistration(lines).tombstone
  BY DEF Exists, NoCopy, FileAction, Owned, RegistrationFor, TombstoneRegistration
<1>3. CASE tombstone # <<>>
  <2>1. ~Exists(project) /\ verdict = DecideTombstoned(profile, tombstone, base)
    BY <1>3 DEF Decide
  <2>2. CASE Owned(base)
    BY <1>1, <1>2, <2>1, <2>2 DEF DecideTombstoned, MirrorAfter, ProfileAfter
  <2>3. CASE ~Owned(base)
    BY <1>1, <1>2, <2>1, <2>3 DEF DecideTombstoned, MirrorAfter, ProfileAfter
  <2> QED
    BY <2>2, <2>3
<1>4. CASE tombstone = <<>> /\ ~Exists(project) /\ ~Exists(profile)
  <2>1. verdict = DecideNeither(base)
    BY <1>4 DEF Decide
  <2> QED
    BY <1>1, <1>2, <1>4, <2>1 DEF DecideNeither, MirrorAfter, ProfileAfter
<1>5. CASE tombstone = <<>> /\ Exists(project) /\ ~Exists(profile)
  <2>1. verdict = DecideProjectOnly(project, base)
    BY <1>1, <1>2, <1>5 DEF Decide
  <2> QED
    BY <1>1, <1>2, <1>5, <2>1 DEF DecideProjectOnly, MirrorAfter, ProfileAfter
<1>6. CASE tombstone = <<>> /\ ~Exists(project) /\ Exists(profile)
  <2>1. verdict = DecideProfileOnly(profile, base, eligible)
    BY <1>1, <1>2, <1>6 DEF Decide
  <2> QED
    BY <1>1, <1>2, <1>6, <2>1 DEF DecideProfileOnly, MirrorAfter, ProfileAfter
<1>7. CASE tombstone = <<>> /\ Exists(project) /\ Exists(profile)
  <2>1. verdict = DecideBoth(project, profile, base)
    BY <1>1, <1>2, <1>7 DEF Decide
  <2>2. CompareSessions(project, profile, base) \in {"equal", "project", "profile", "conflict"}
    BY DEF CompareSessions, MetadataWinner
  <2>3. CompareSessions(project, profile, base) = "equal" => project = profile
    BY DEF CompareSessions, MetadataWinner
  <2> QED
    BY <1>1, <1>2, <1>7, <2>1, <2>2, <2>3 DEF DecideBoth, MirrorAfter, ProfileAfter
<1> QED
  BY <1>3, <1>4, <1>5, <1>6, <1>7

(***************************************************************************)
(* Prefixes of rollouts.                                                   *)
(***************************************************************************)
LEMMA PrefixElements ==
    ASSUME NEW a \in Seq(Line), NEW b \in Seq(Line)
    PROVE  IsPrefix(a, b) <=> Len(a) <= Len(b) /\ \A i \in 1..Len(a) : a[i] = b[i]
<1>1. \A i \in 1..Len(a) : SubSeq(a, 1, Len(a))[i] = a[i]
  OBVIOUS
<1>2. ASSUME Len(a) <= Len(b)
      PROVE  /\ \A i \in 1..Len(a) : SubSeq(b, 1, Len(a))[i] = b[i]
             /\ Len(SubSeq(a, 1, Len(a))) = Len(a) /\ Len(SubSeq(b, 1, Len(a))) = Len(a)
             /\ SubSeq(a, 1, Len(a)) \in Seq(Line) /\ SubSeq(b, 1, Len(a)) \in Seq(Line)
  BY <1>2
<1>3. ASSUME Len(a) <= Len(b), \A i \in 1..Len(a) : a[i] = b[i]
      PROVE  SubSeq(a, 1, Len(a)) = SubSeq(b, 1, Len(a))
  <2> DEFINE x == SubSeq(a, 1, Len(a))
             y == SubSeq(b, 1, Len(a))
  <2>1. x \in Seq(Line) /\ y \in Seq(Line) /\ Len(x) = Len(y) /\ \A i \in 1..Len(x) : x[i] = y[i]
    BY <1>1, <1>2, <1>3
  <2> HIDE DEF x, y
  <2>2. x = y
    BY <2>1
  <2> QED
    BY <2>2 DEF x, y
<1> QED
  BY <1>1, <1>2, <1>3 DEF IsPrefix

LEMMA PrefixOrder ==
    ASSUME NEW a \in Seq(Line), NEW b \in Seq(Line), NEW c \in Seq(Line), NEW line \in Line
    PROVE  /\ IsPrefix(a, a) /\ IsPrefix(<<>>, a) /\ IsPrefix(a, Append(a, line))
           /\ IsPrefix(a, b) /\ IsPrefix(b, c) => IsPrefix(a, c)
           /\ IsPrefix(a, <<>>) => a = <<>>
<1>1. IsPrefix(a, a) /\ IsPrefix(<<>>, a)
  <2> DEFINE empty == <<>>
  <2>1. empty \in Seq(Line) /\ Len(empty) = 0 /\ Len(a) \in Nat
    OBVIOUS
  <2>2. IsPrefix(a, a)
    BY DEF IsPrefix
  <2> HIDE DEF empty
  <2>3. Len(empty) <= Len(a) /\ \A i \in 1..Len(empty) : empty[i] = a[i]
    BY <2>1
  <2>4. IsPrefix(empty, a)
    BY <2>1, <2>3, PrefixElements
  <2> QED
    BY <2>2, <2>4 DEF empty
<1>2. IsPrefix(a, Append(a, line))
  <2> DEFINE longer == Append(a, line)
  <2>1. longer \in Seq(Line) /\ Len(a) <= Len(longer) /\ \A i \in 1..Len(a) : a[i] = longer[i]
    OBVIOUS
  <2> HIDE DEF longer
  <2>2. IsPrefix(a, longer)
    BY <2>1, PrefixElements
  <2> QED
    BY <2>2 DEF longer
<1>3. ASSUME IsPrefix(a, b), IsPrefix(b, c) PROVE IsPrefix(a, c)
  <2>1. Len(a) <= Len(b) /\ \A i \in 1..Len(a) : a[i] = b[i]
    BY <1>3, PrefixElements
  <2>2. Len(b) <= Len(c) /\ \A i \in 1..Len(b) : b[i] = c[i]
    BY <1>3, PrefixElements
  <2>3. Len(a) \in Nat /\ Len(b) \in Nat /\ Len(c) \in Nat
    OBVIOUS
  <2>4. Len(a) <= Len(c) /\ \A i \in 1..Len(a) : a[i] = c[i]
    BY <2>1, <2>2, <2>3
  <2> QED
    BY <2>4, PrefixElements
<1>4. IsPrefix(a, <<>>) => a = <<>>
  <2>1. IsPrefix(a, <<>>) => Len(a) <= Len(<<>>)
    BY DEF IsPrefix
  <2> QED
    BY <2>1
<1> QED
  BY <1>1, <1>2, <1>3, <1>4

(***************************************************************************)
(* What a registration recalls after a decision that does not stop the     *)
(* synchronization.  Only a session that this profile has had and has no   *)
(* more is tombstoned; only a tombstoned session is deleted.               *)
(***************************************************************************)
LEMMA DecideRemembers ==
    ASSUME NEW project, NEW profile, NEW tombstone, NEW base, NEW eligible,
           Exists(project) => tombstone = <<>>,
           Decide(project, profile, tombstone, base, eligible).action \in FileAction
    PROVE  LET verdict == Decide(project, profile, tombstone, base, eligible)
           IN  /\ verdict.registration.tombstone
                    => base.tombstone \/ tombstone # <<>> \/ verdict.action = "tombstone"
               /\ verdict.action = "tombstone" => Owned(base) /\ ~base.tombstone /\ ~Exists(profile)
               /\ verdict.action = "delete" => tombstone # <<>>
<1> DEFINE verdict == Decide(project, profile, tombstone, base, eligible)
<1>1. \A a, r : Do(a, r).action = a /\ Do(a, r).registration = r
  BY DEF Do
<1>2. /\ "error" \notin FileAction /\ "conflict" \notin FileAction
      /\ \A copy : ~RegistrationFor(copy).tombstone
  BY DEF FileAction, RegistrationFor
<1>3. CASE tombstone # <<>>
  <2>1. verdict = DecideTombstoned(profile, tombstone, base)
    BY <1>3 DEF Decide
  <2> QED
    BY <1>1, <1>3, <2>1 DEF DecideTombstoned
<1>4. CASE tombstone = <<>> /\ ~Exists(project) /\ ~Exists(profile)
  <2>1. verdict = DecideNeither(base)
    BY <1>4 DEF Decide
  <2> QED
    BY <1>1, <1>2, <1>4, <2>1 DEF DecideNeither
<1>5. CASE tombstone = <<>> /\ Exists(project) /\ ~Exists(profile)
  <2>1. verdict = DecideProjectOnly(project, base) /\ ~base.tombstone
    BY <1>1, <1>2, <1>5 DEF Decide
  <2> QED
    BY <1>1, <1>2, <1>5, <2>1 DEF DecideProjectOnly
<1>6. CASE tombstone = <<>> /\ ~Exists(project) /\ Exists(profile)
  <2>1. verdict = DecideProfileOnly(profile, base, eligible)
    BY <1>1, <1>2, <1>6 DEF Decide
  <2> QED
    BY <1>1, <1>2, <1>6, <2>1 DEF DecideProfileOnly
<1>7. CASE tombstone = <<>> /\ Exists(project) /\ Exists(profile)
  <2>1. verdict = DecideBoth(project, profile, base)
    BY <1>1, <1>2, <1>7 DEF Decide
  <2> QED
    BY <1>1, <1>2, <1>7, <2>1 DEF DecideBoth
<1> QED
  BY <1>3, <1>4, <1>5, <1>6, <1>7

(***************************************************************************)
(* A copy that is replaced gives way to one that holds all its lines; a    *)
(* copy this profile has registered before is replaced only by the winner  *)
(* of the comparison.                                                      *)
(***************************************************************************)
LEMMA DecideWinner ==
    ASSUME NEW project \in Copy, NEW profile \in Copy, NEW tombstone, NEW base \in Registration,
           NEW eligible, Exists(project), Exists(profile)
    PROVE  LET action == Decide(project, profile, tombstone, base, eligible).action
           IN  /\ action = "import" => /\ CompareSessions(project, profile, base) = "project"
                                       /\ IsPrefix(profile.lines, project.lines)
               /\ action = "export" => /\ CompareSessions(project, profile, base) = "profile"
                                       /\ IsPrefix(project.lines, profile.lines)
<1>1. \A a, r : Do(a, r).action = a
  BY DEF Do
<1>2. \/ Decide(project, profile, tombstone, base, eligible) = Do("error", base)
      \/ Decide(project, profile, tombstone, base, eligible) = DecideBoth(project, profile, base)
  BY DEF Decide
<1> QED
  BY <1>1, <1>2, WinnerExtendsLoser DEF DecideBoth

LEMMA DecideOwned ==
    ASSUME NEW project, NEW profile, NEW tombstone, NEW base, NEW eligible, Owned(base),
           Decide(project, profile, tombstone, base, eligible).action \in {"import", "export"}
    PROVE  Exists(project) /\ Exists(profile) /\ ~base.tombstone
<1>1. \A a, r : Do(a, r).action = a
  BY DEF Do
<1>2. /\ DecideTombstoned(profile, tombstone, base).action \in {"none", "delete"}
      /\ DecideNeither(base).action \in {"none", "error"}
      /\ DecideProjectOnly(project, base).action = "tombstone"
      /\ DecideProfileOnly(profile, base, eligible).action = "error"
  BY <1>1 DEF DecideTombstoned, DecideNeither, DecideProjectOnly, DecideProfileOnly
<1> QED
  BY <1>1, <1>2 DEF Decide
=============================================================================
