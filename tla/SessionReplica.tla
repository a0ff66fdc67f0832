--------------------------- MODULE SessionReplica ---------------------------
(***************************************************************************)
(* What portable project sessions promise: one mirror inside the project   *)
(* and one replica per profile, where a synchronization is a single        *)
(* indivisible three-way merge of the two, and where nothing else than     *)
(* Codex ever changes a profile in between.  SessionSync, which performs   *)
(* the same merge file by file, is shown to implement this module.         *)
(***************************************************************************)
EXTENDS SessionMerge

CONSTANTS
    Profiles,  \* the codexm profiles bound to this project
    Sessions   \* Codex session ids, ordered as sort.Strings orders them

VARIABLES
    mirror,      \* [Sessions -> Copy]: .codexm/ in the project
    tombstones,  \* [Sessions -> Seq(Line)]: .codexm/tombstones, <<>> if none
    profile,     \* [Profiles -> [Sessions -> Copy]]: CODEX_HOME of each profile
    registry,    \* [Profiles -> [Sessions -> Registration]]
    backups,     \* copies under session-backups
    born,        \* sessions Codex has created so far
    deleted      \* sessions some user has deleted in Codex

vars == <<mirror, tombstones, profile, registry, backups, born, deleted>>

TypeOK ==
    /\ mirror \in [Sessions -> Copy]
    /\ tombstones \in [Sessions -> Seq(Line)]
    /\ profile \in [Profiles -> [Sessions -> Copy]]
    /\ registry \in [Profiles -> [Sessions -> Registration]]
    /\ backups \subseteq [session : Sessions, lines : Seq(Line)]
    /\ born \subseteq Sessions
    /\ deleted \subseteq Sessions

Init ==
    /\ mirror = [s \in Sessions |-> NoCopy]
    /\ tombstones = [s \in Sessions |-> <<>>]
    /\ profile = [p \in Profiles |-> [s \in Sessions |-> NoCopy]]
    /\ registry = [p \in Profiles |-> [s \in Sessions |-> NoRegistration]]
    /\ backups = {}
    /\ born = {}
    /\ deleted = {}

(***************************************************************************)
(* Codex, run by the user of profile p, works on the rollouts of p.        *)
(***************************************************************************)
SetCopy(p, s, copy) ==
    /\ profile' = [profile EXCEPT ![p][s] = copy]
    /\ UNCHANGED <<mirror, tombstones, registry, backups>>

CodexCreate(p, s) ==
    /\ s \notin born
    /\ \E line \in Line : SetCopy(p, s, [NoCopy EXCEPT !.lines = <<line>>])
    /\ born' = born \cup {s}
    /\ UNCHANGED deleted

CodexChange(p, s) ==
    /\ Exists(profile[p][s])
    /\ \/ \E line \in Line :
            SetCopy(p, s, [profile[p][s] EXCEPT !.lines = Append(@, line)])
       \/ \E place \in Place : SetCopy(p, s, [profile[p][s] EXCEPT !.place = place])
       \/ \E name \in Name : SetCopy(p, s, [profile[p][s] EXCEPT !.name = name])
    /\ UNCHANGED <<born, deleted>>

CodexDelete(p, s) ==
    /\ Exists(profile[p][s])
    /\ SetCopy(p, s, NoCopy)
    /\ deleted' = deleted \cup {s}
    /\ UNCHANGED born

(***************************************************************************)
(* One whole `session sync`: decide every session from the same state, and *)
(* either change all of them or, on an error or a conflict, none.          *)
(***************************************************************************)
Sync(p, eligible) ==
    LET decision == [s \in Sessions |->
            Decide(mirror[s], profile[p][s], tombstones[s], registry[p][s],
                   s \in eligible)]
        Doing(action) == {s \in Sessions : decision[s].action = action}
    IN  /\ Doing("error") = {} /\ Doing("conflict") = {}
        /\ mirror' = [s \in Sessions |->
                        IF s \in Doing("export") THEN profile[p][s]
                        ELSE IF s \in Doing("tombstone") THEN NoCopy
                        ELSE mirror[s]]
        /\ tombstones' = [s \in Sessions |->
                            IF s \in Doing("tombstone") THEN mirror[s].lines
                                                        ELSE tombstones[s]]
        /\ profile' = [profile EXCEPT ![p] = [s \in Sessions |->
                            IF s \in Doing("import") THEN mirror[s]
                            ELSE IF s \in Doing("delete") THEN NoCopy
                            ELSE profile[p][s]]]
        /\ registry' = [registry EXCEPT
                          ![p] = [s \in Sessions |-> decision[s].registration]]
        /\ UNCHANGED <<backups, born, deleted>>

(***************************************************************************)
(* `session resolve --use project|profile`: the losing copy is saved       *)
(* first; the choice then takes effect.                                    *)
(***************************************************************************)
Backup(p, s) ==
    /\ \E copy \in {mirror[s], profile[p][s]} :
         backups' = backups \cup {[session |-> s, lines |-> copy.lines]}
    /\ UNCHANGED <<mirror, tombstones, profile, registry, born, deleted>>

Resolve(p, s, use) ==
    LET winner == IF use = "project" THEN mirror[s] ELSE profile[p][s]
        loser  == IF use = "project" THEN profile[p][s] ELSE mirror[s]
    IN  /\ Exists(winner) /\ Exists(loser)
        /\ CompareSessions(mirror[s], profile[p][s], registry[p][s]) = "conflict"
        /\ [session |-> s, lines |-> loser.lines] \in backups
        /\ mirror' = [mirror EXCEPT ![s] = winner]
        /\ profile' = [profile EXCEPT ![p][s] = winner]
        /\ registry' = [registry EXCEPT ![p][s] = RegistrationFor(winner)]
        /\ UNCHANGED <<tombstones, backups, born, deleted>>

Next ==
    \E p \in Profiles :
        \/ \E eligible \in SUBSET Sessions : Sync(p, eligible)
        \/ \E s \in Sessions :
             \/ CodexCreate(p, s)
             \/ CodexChange(p, s)
             \/ CodexDelete(p, s)
             \/ Backup(p, s)
             \/ \E use \in {"project", "profile"} : Resolve(p, s, use)

Spec == Init /\ [][Next]_vars
=============================================================================
