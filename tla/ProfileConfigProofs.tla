------------------------ MODULE ProfileConfigProofs ------------------------
(***************************************************************************)
(* Commands that follow the locking protocol implement the atomic store,   *)
(* and the store keeps its references valid, for any number of processes,  *)
(* profiles, paths and servers.                                            *)
(***************************************************************************)
EXTENDS ProfileConfig, WellFoundedInduction, TLAPS

(***************************************************************************)
(* The first of some names exists: names are ordered like their ranks.     *)
(***************************************************************************)
LEMMA FirstIsOne ==
    ASSUME NEW S \in SUBSET Profiles, S # {}
    PROVE  First(S) \in S
<1> DEFINE Less == {pair \in Nat \X Nat : pair[1] < pair[2]}
<1>1. IsWellFoundedOn(Less, Nat)
  BY NatLessThanWellFounded DEF OpToRel
<1>2. S \subseteq Nat
  BY ProfileNames
<1>3. PICK p \in S : \A q \in S : ~(<<q, p>> \in Less)
  BY <1>1, <1>2, WFMin
<1>4. \A q \in S : p <= q
  <2> TAKE q \in S
  <2>1. p \in Nat /\ q \in Nat /\ ~(<<q, p>> \in Less)
    BY <1>2, <1>3
  <2>2. q < p => <<q, p>> \in Less
    BY <2>1
  <2> QED
    BY <2>1, <2>2
<1> QED
  BY <1>3, <1>4 DEF First

LEMMA PartialFunctions ==
    ASSUME NEW f, NEW S, NEW T
    PROVE  f \in UNION {[P -> T] : P \in SUBSET S} <=> DOMAIN f \subseteq S /\ f \in [DOMAIN f -> T]
OBVIOUS

LEMMA GoodConfig ==
    ASSUME NEW P, NEW D, NEW B,
           DOMAIN P \subseteq Profiles, P \in [DOMAIN P -> Entry],
           DOMAIN B \subseteq Paths, \A x \in DOMAIN B : B[x] \in DOMAIN P, B \in [DOMAIN B -> Profiles],
           D \in DOMAIN P \cup {None}
    PROVE  LET cfg == [profiles |-> P, default |-> D, bindings |-> B]
           IN cfg \in Configs /\ Consistent(cfg)
BY PartialFunctions DEF Configs, Consistent

(***************************************************************************)
(* Every closure keeps the configuration well-formed and its references    *)
(* valid.                                                                  *)
(***************************************************************************)
LEMMA ApplyKeepsStore ==
    ASSUME NEW cfg \in Configs, Consistent(cfg), NEW o \in Updates, Allowed(cfg, o)
    PROVE  Apply(cfg, o) \in Configs /\ Consistent(Apply(cfg, o))
<1> DEFINE P == cfg.profiles
           D == cfg.default
           B == cfg.bindings
<1>1. /\ DOMAIN P \subseteq Profiles /\ P \in [DOMAIN P -> Entry]
      /\ DOMAIN B \subseteq Paths /\ B \in [DOMAIN B -> Profiles]
      /\ \A x \in DOMAIN B : B[x] \in DOMAIN P
      /\ D \in DOMAIN P \cup {None}
      /\ cfg = [profiles |-> P, default |-> D, bindings |-> B]
  BY PartialFunctions DEF Configs, Consistent
<1>2. CASE o.kind = "add"
  <2>1. o.profile \in Profiles /\ o.home \in Homes /\ o.path \in Paths \cup {None}
    BY <1>2 DEF Updates
  <2> DEFINE P1 == Put(P, o.profile, [home |-> o.home, excluded |-> {}])
             D1 == IF D = None THEN o.profile ELSE D
             B1 == IF o.path = None THEN B ELSE Put(B, o.path, o.profile)
  <2>2. DOMAIN P1 = DOMAIN P \cup {o.profile} /\ P1 \in [DOMAIN P1 -> Entry]
    BY <1>1, <2>1 DEF Put, Entry
  <2>3. DOMAIN B1 \subseteq Paths /\ B1 \in [DOMAIN B1 -> Profiles]
    BY <1>1, <2>1 DEF Put
  <2>4. \A x \in DOMAIN B1 : B1[x] \in DOMAIN P1
    BY <1>1, <2>2 DEF Put
  <2>5. D1 \in DOMAIN P1 \cup {None}
    BY <1>1, <2>2
  <2>6. Apply(cfg, o) = [profiles |-> P1, default |-> D1, bindings |-> B1]
    BY <1>2 DEF Apply, Added
  <2> HIDE DEF P1, D1, B1
  <2> QED
    BY <1>1, <2>1, <2>2, <2>3, <2>4, <2>5, <2>6, GoodConfig
<1>3. CASE o.kind = "remove"
  <2> DEFINE rest == DOMAIN P \ {o.profile}
             P1 == Keep(P, rest)
             D1 == IF D # o.profile THEN D ELSE IF rest = {} THEN None ELSE First(rest)
             B1 == Keep(B, {x \in DOMAIN B : B[x] # o.profile})
  <2>1. DOMAIN P1 = rest /\ P1 \in [DOMAIN P1 -> Entry]
    BY <1>1 DEF Keep
  <2>2. DOMAIN B1 \subseteq Paths /\ B1 \in [DOMAIN B1 -> Profiles]
    BY <1>1 DEF Keep
  <2>3. \A x \in DOMAIN B1 : B1[x] \in rest
    BY <1>1 DEF Keep
  <2>4. rest # {} => First(rest) \in rest
    BY <1>1, FirstIsOne
  <2>5. D1 \in rest \cup {None}
    BY <1>1, <2>4
  <2>6. Apply(cfg, o) = [profiles |-> P1, default |-> D1, bindings |-> B1]
    BY <1>3 DEF Apply, Removed
  <2> HIDE DEF P1, D1, B1
  <2> QED
    BY <1>1, <2>1, <2>2, <2>3, <2>5, <2>6, GoodConfig
<1>4. CASE o.kind = "default"
  <2>1. o.profile \in DOMAIN P \cup {None}
    BY <1>4 DEF Allowed
  <2>2. Apply(cfg, o) = [profiles |-> P, default |-> o.profile, bindings |-> B]
    BY <1>1, <1>4 DEF Apply
  <2> QED
    BY <1>1, <2>1, <2>2, GoodConfig
<1>5. CASE o.kind = "bind"
  <2>1. o.profile \in DOMAIN P /\ o.path \in Paths
    BY <1>5 DEF Allowed, Updates
  <2> DEFINE B1 == Put(B, o.path, o.profile)
  <2>2. DOMAIN B1 \subseteq Paths /\ B1 \in [DOMAIN B1 -> Profiles]
    BY <1>1, <2>1 DEF Put
  <2>3. \A x \in DOMAIN B1 : B1[x] \in DOMAIN P
    BY <1>1, <2>1 DEF Put
  <2>4. Apply(cfg, o) = [profiles |-> P, default |-> D, bindings |-> B1]
    BY <1>1, <1>5 DEF Apply
  <2> HIDE DEF B1
  <2> QED
    BY <1>1, <2>2, <2>3, <2>4, GoodConfig
<1>6. CASE o.kind = "unbind"
  <2> DEFINE B1 == Keep(B, DOMAIN B \ {o.path})
  <2>1. /\ DOMAIN B1 \subseteq Paths /\ B1 \in [DOMAIN B1 -> Profiles]
        /\ \A x \in DOMAIN B1 : B1[x] \in DOMAIN P
    BY <1>1 DEF Keep
  <2>2. Apply(cfg, o) = [profiles |-> P, default |-> D, bindings |-> B1]
    BY <1>1, <1>6 DEF Apply
  <2> HIDE DEF B1
  <2> QED
    BY <1>1, <2>1, <2>2, GoodConfig
<1>7. CASE o.kind \in {"exclude", "include"}
  <2>1. o.profile \in DOMAIN P /\ o.server \in Servers
    BY <1>7 DEF Allowed, Updates
  <2> DEFINE set == IF o.kind = "exclude" THEN P[o.profile].excluded \cup {o.server}
                    ELSE P[o.profile].excluded \ {o.server}
             P1 == [P EXCEPT ![o.profile].excluded = set]
  <2>2. P[o.profile] \in Entry /\ set \in SUBSET Servers
    BY <1>1, <2>1 DEF Entry
  <2>3. DOMAIN P1 = DOMAIN P /\ P1 \in [DOMAIN P1 -> Entry]
    BY <1>1, <2>1, <2>2 DEF Entry
  <2>4. Apply(cfg, o) = [profiles |-> P1, default |-> D, bindings |-> B]
    BY <1>1, <1>7, <2>1 DEF Apply, SetMCPExcluded
  <2> HIDE DEF P1
  <2> QED
    BY <1>1, <2>3, <2>4, GoodConfig
<1> QED
  BY <1>2, <1>3, <1>4, <1>5, <1>6, <1>7 DEF Updates
-----------------------------------------------------------------------------
(***************************************************************************)
(* A process between the load and the save of an update.                   *)
(***************************************************************************)
Holding(c) == stage[c] \in Syncing \cup {"prepare", "commit"} /\ IsUpdate(op[c])

(***************************************************************************)
(* Whoever is about to save holds the lock, and what it loaded is still    *)
(* what config.json contains.                                              *)
(***************************************************************************)
ProcInv(c) ==
    /\ op[c] = None <=> stage[c] = "idle"
    /\ stage[c] \in {"lock", "prepare", "commit"} => IsUpdate(op[c])
    /\ stage[c] \in {"load", "launch"} => ~IsUpdate(op[c])
    /\ Holding(c) => lock = c /\ seen[c] = config /\ Allowed(config, op[c])

ConfigInv ==
    /\ config \in Configs /\ Consistent(config)
    /\ stage \in [Procs -> Stage]
    /\ op \in [Procs -> Commands \cup {None}]
    /\ seen \in [Procs -> Configs \cup {None}]
    /\ \A c \in Procs : ProcInv(c)

LEMMA UpdateKinds ==
    ASSUME NEW o \in Commands, IsUpdate(o)
    PROVE  o \in Updates
BY CommandAssumption DEF AllCommands, IsUpdate

LEMMA InitConfig == Init => ConfigInv
BY DEF Init, ConfigInv, ProcInv, Holding, Syncing, Stage

LEMMA CommitUpdates ==
    ASSUME ConfigInv, NEW c \in Procs, Commit(c)
    PROVE  lock = c /\ Update(op[c]) /\ op[c] \in Updates
<1>1. stage[c] = "commit" /\ IsUpdate(op[c]) /\ op[c] # None
  BY DEF Commit, ConfigInv, ProcInv
<1>2. lock = c /\ seen[c] = config /\ Allowed(config, op[c])
  BY <1>1 DEF ConfigInv, ProcInv, Holding
<1>3. op[c] \in Updates
  BY <1>1, UpdateKinds DEF ConfigInv
<1> QED
  BY <1>2, <1>3 DEF Commit, Update

(***************************************************************************)
(* A step of c leaves what the others rely on: it takes the lock only when *)
(* it is free, and releases it or saves only when it has it.               *)
(***************************************************************************)
LEMMA OthersKeep ==
    ASSUME ConfigInv, NEW c \in Procs,
           stage' = [stage EXCEPT ![c] = stage'[c]], stage'[c] \in Stage,
           op' = [op EXCEPT ![c] = op'[c]], op'[c] \in Commands \cup {None},
           seen' = [seen EXCEPT ![c] = seen'[c]], seen'[c] \in Configs \cup {None},
           lock' = lock \/ lock \in {c, None},
           config' = config \/ lock = c,
           config' \in Configs, Consistent(config'),
           ProcInv(c)'
    PROVE  ConfigInv'
<1>1. ASSUME NEW d \in Procs, d # c PROVE ProcInv(d)'
  <2>1. stage'[d] = stage[d] /\ op'[d] = op[d] /\ seen'[d] = seen[d]
    BY <1>1 DEF ConfigInv
  <2>2. ASSUME Holding(d) PROVE lock' = lock /\ config' = config
    BY <1>1, <2>2, ProcAssumption DEF ConfigInv, ProcInv
  <2> QED
    BY <1>1, <2>1, <2>2 DEF ConfigInv, ProcInv, Holding
<1>2. stage' \in [Procs -> Stage]
  BY DEF ConfigInv
<1>3. op' \in [Procs -> Commands \cup {None}]
  BY DEF ConfigInv
<1>4. seen' \in [Procs -> Configs \cup {None}]
  BY DEF ConfigInv
<1> QED
  BY <1>1, <1>2, <1>3, <1>4 DEF ConfigInv

(***************************************************************************)
(* The two shapes most steps have.                                         *)
(***************************************************************************)
LEMMA GotoKeeps ==
    ASSUME ConfigInv, NEW c \in Procs, NEW s \in Stage, Goto(c, s), UNCHANGED <<config, lock>>,
           stage[c] # "idle", s # "idle",
           s \in {"lock", "prepare", "commit"} => IsUpdate(op[c]),
           s \in {"load", "launch"} => ~IsUpdate(op[c]),
           s \in Syncing \cup {"prepare", "commit"} /\ IsUpdate(op[c]) => Holding(c)
    PROVE  ConfigInv'
<1>1. /\ stage' = [stage EXCEPT ![c] = s] /\ op' = op /\ seen' = seen
      /\ op' = [op EXCEPT ![c] = op[c]] /\ seen' = [seen EXCEPT ![c] = seen[c]]
  BY DEF Goto, ConfigInv
<1>2. stage'[c] = s
  BY <1>1 DEF ConfigInv
<1>3. ProcInv(c)'
  BY <1>1, <1>2 DEF ConfigInv, ProcInv, Holding
<1>4. op[c] \in Commands \cup {None} /\ seen[c] \in Configs \cup {None}
  BY DEF ConfigInv
<1> QED
  BY <1>1, <1>3, <1>4, OthersKeep DEF ConfigInv

LEMMA FinishKeeps ==
    ASSUME ConfigInv, NEW c \in Procs, Exit(c),
           config' = config \/ lock = c,
           config' \in Configs, Consistent(config')
    PROVE  ConfigInv'
<1>1. /\ stage' = [stage EXCEPT ![c] = "idle"] /\ op' = [op EXCEPT ![c] = None]
      /\ seen' = [seen EXCEPT ![c] = None] /\ (lock' = lock \/ lock = c)
  BY DEF Exit
<1>2. stage'[c] = "idle" /\ op'[c] = None /\ seen'[c] = None
  BY <1>1 DEF ConfigInv
<1>3. ProcInv(c)'
  BY <1>2 DEF ProcInv, Holding, Syncing
<1>4. "idle" \in Stage /\ None \in Commands \cup {None} /\ None \in Configs \cup {None}
  BY DEF Stage
<1>5. lock' = lock \/ lock \in {c, None}
  BY <1>1 DEF Exit
<1> QED
  BY <1>1, <1>2, <1>3, <1>4, <1>5, OthersKeep
-----------------------------------------------------------------------------
LEMMA StepConfig == ConfigInv /\ [Next]_vars => ConfigInv'
<1> SUFFICES ASSUME ConfigInv, [Next]_vars PROVE ConfigInv'
  OBVIOUS
<1>1. ASSUME NEW c \in Procs, NEW o \in Commands, Invoke(c, o) PROVE ConfigInv'
  <2> DEFINE s == IF IsUpdate(o) THEN "lock" ELSE "load"
  <2>1. /\ stage' = [stage EXCEPT ![c] = s] /\ op' = [op EXCEPT ![c] = o]
        /\ seen' = seen /\ config' = config /\ lock' = lock
    BY <1>1 DEF Invoke
  <2>2. stage'[c] = s /\ op'[c] = o /\ o # None
    BY <2>1, CommandAssumption DEF ConfigInv
  <2>3. ProcInv(c)'
    BY <2>2 DEF ProcInv, Holding, Syncing
  <2>4. s \in Stage /\ seen[c] \in Configs \cup {None} /\ seen' = [seen EXCEPT ![c] = seen[c]]
    BY <2>1 DEF ConfigInv, Stage
  <2> QED
    BY <2>1, <2>3, <2>4, OthersKeep DEF ConfigInv
<1>2. ASSUME NEW c \in Procs, LockConfig(c) PROVE ConfigInv'
  <2> DEFINE s == IF op[c].kind = "add" THEN "prepare" ELSE "read"
  <2>1. /\ stage[c] = "lock" /\ lock = None /\ Allowed(config, op[c]) /\ lock' = c
        /\ stage' = [stage EXCEPT ![c] = s] /\ seen' = [seen EXCEPT ![c] = config]
        /\ op' = op /\ config' = config
    BY <1>2 DEF LockConfig
  <2>2. stage'[c] = s /\ seen'[c] = config /\ s \in Stage
    BY <2>1 DEF ConfigInv, Stage, Syncing
  <2>3. op[c] \in Commands \cup {None} /\ op' = [op EXCEPT ![c] = op[c]]
    BY <2>1 DEF ConfigInv
  <2>4. ProcInv(c)'
    BY <2>1, <2>2 DEF ConfigInv, ProcInv, Holding, Syncing
  <2> QED
    BY <2>1, <2>2, <2>3, <2>4, OthersKeep DEF ConfigInv
<1>3. ASSUME NEW c \in Procs, Load(c) PROVE ConfigInv'
  <2>1. /\ stage[c] = "load" /\ config' = config /\ lock' = lock /\ op' = op
        /\ stage' = [stage EXCEPT ![c] = "read"] /\ seen' = [seen EXCEPT ![c] = config]
    BY <1>3 DEF Load
  <2>2. stage'[c] = "read" /\ "read" \in Stage
    BY <2>1 DEF ConfigInv, Stage, Syncing
  <2>3. op[c] \in Commands \cup {None} /\ op' = [op EXCEPT ![c] = op[c]]
    BY <2>1 DEF ConfigInv
  <2>4. ProcInv(c)'
    BY <2>1, <2>2 DEF ConfigInv, ProcInv, Holding, Syncing
  <2> QED
    BY <2>1, <2>2, <2>3, <2>4, OthersKeep DEF ConfigInv
<1>4. ASSUME NEW c \in Procs, Prepare(c) PROVE ConfigInv'
  <2>1. Goto(c, "read") /\ UNCHANGED <<config, lock>> /\ stage[c] = "prepare"
    BY <1>4 DEF Prepare
  <2>2. Holding(c) /\ "read" \in Stage
    BY <2>1 DEF ConfigInv, ProcInv, Holding, Stage, Syncing
  <2> QED
    BY <2>1, <2>2, GotoKeeps
<1>5. ASSUME NEW c \in Procs, NEW s \in Syncing, Goto(c, s), UNCHANGED <<config, lock>>,
             stage[c] \in Syncing
      PROVE  ConfigInv'
  <2>1. /\ s \in Stage /\ s # "idle" /\ stage[c] # "idle"
        /\ s \notin {"lock", "prepare", "commit", "load", "launch"}
    BY <1>5 DEF Stage, Syncing
  <2>2. IsUpdate(op[c]) => Holding(c)
    BY <1>5 DEF Holding
  <2> QED
    BY <1>5, <2>1, <2>2, GotoKeeps
<1>6. ASSUME NEW c \in Procs,
             SyncRead(c) \/ SyncOpen(c) \/ SyncWrite(c) \/ SyncRename(c) \/ SyncRenameFails(c)
      PROVE  ConfigInv'
  <2>1. stage[c] \in Syncing /\ UNCHANGED <<config, lock>>
    BY <1>6 DEF SyncRead, SyncOpen, SyncWrite, SyncRename, SyncRenameFails, Syncing
  <2>2. \E s \in Syncing : Goto(c, s)
    BY <1>6 DEF SyncRead, SyncOpen, SyncWrite, SyncRename, SyncRenameFails, Syncing
  <2> QED
    BY <1>5, <2>1, <2>2
<1>7. ASSUME NEW c \in Procs,
             SyncWriteFails(c) \/ SyncCleanup(c) \/ DeleteHome(c) \/ Launch(c) \/ Fail(c)
      PROVE  ConfigInv'
  <2>1. Exit(c) /\ config' = config
    BY <1>7 DEF SyncWriteFails, SyncCleanup, DeleteHome, Launch, Fail, Finish
  <2> QED
    BY <2>1, FinishKeeps DEF ConfigInv
<1>8. ASSUME NEW c \in Procs, SyncDone(c) PROVE ConfigInv'
  <2>1. stage[c] = "read" /\ config' = config /\ {"commit", "launch"} \subseteq Stage
    BY <1>8 DEF SyncDone, Stage
  <2>2. CASE IsUpdate(op[c]) /\ Goto(c, "commit") /\ UNCHANGED lock
    <3>1. Holding(c)
      BY <2>1, <2>2 DEF Holding, Syncing
    <3> QED
      BY <2>1, <2>2, <3>1, GotoKeeps
  <2>3. CASE op[c].kind = "run" /\ Goto(c, "launch") /\ UNCHANGED lock
    <3>1. ~IsUpdate(op[c])
      BY <2>3 DEF IsUpdate
    <3> QED
      BY <2>1, <2>3, <3>1, GotoKeeps
  <2>4. CASE Finish(c)
    BY <2>1, <2>4, FinishKeeps DEF ConfigInv, Finish
  <2> QED
    BY <1>8, <2>2, <2>3, <2>4 DEF SyncDone
<1>9. ASSUME NEW c \in Procs, Commit(c) PROVE ConfigInv'
  <2>1. lock = c /\ Update(op[c]) /\ op[c] \in Updates
    BY <1>9, CommitUpdates
  <2>2. config' \in Configs /\ Consistent(config')
    BY <2>1, ApplyKeepsStore DEF ConfigInv, Update
  <2>3. CASE Finish(c)
    BY <2>1, <2>2, <2>3, FinishKeeps DEF Finish
  <2>4. CASE Goto(c, "delete") /\ lock' = None
    <3>1. /\ stage' = [stage EXCEPT ![c] = "delete"] /\ op' = op /\ seen' = seen
          /\ op' = [op EXCEPT ![c] = op[c]] /\ seen' = [seen EXCEPT ![c] = seen[c]]
      BY <2>4 DEF Goto, ConfigInv
    <3>2. stage'[c] = "delete" /\ stage[c] = "commit" /\ "delete" \in Stage
      BY <1>9, <3>1 DEF ConfigInv, Commit, Stage
    <3>3. ProcInv(c)'
      BY <3>1, <3>2 DEF ConfigInv, ProcInv, Holding, Syncing
    <3>4. op[c] \in Commands \cup {None} /\ seen[c] \in Configs \cup {None}
      BY DEF ConfigInv
    <3>5. (lock' = lock \/ lock \in {c, None}) /\ (config' = config \/ lock = c)
      BY <2>1
    <3> QED
      BY <2>2, <3>1, <3>2, <3>3, <3>4, <3>5, OthersKeep
  <2> QED
    BY <1>9, <2>3, <2>4 DEF Commit
<1>10. ASSUME NEW h \in Homes, NEW settings \in SUBSET Servers, EditSettings(h, settings)
       PROVE  ConfigInv'
  <2>1. UNCHANGED <<config, lock, stage, op, seen>>
    BY <1>10 DEF EditSettings
  <2> QED
    BY <2>1 DEF ConfigInv, ProcInv, Holding
<1>11. CASE UNCHANGED vars
  BY <1>11 DEF vars, proc, ConfigInv, ProcInv, Holding
<1> QED
  BY <1>1, <1>2, <1>3, <1>4, <1>5, <1>6, <1>7, <1>8, <1>9, <1>10, <1>11
     DEF Next, Command, StartCommand, EditShared

(***************************************************************************)
(* Commands that run at the same time lose none of each other's changes:   *)
(* a save applies the command's closure to config.json as it is then.      *)
(***************************************************************************)
THEOREM SavesAreUpdates == Spec => []ConfigInv
BY InitConfig, StepConfig, PTL DEF Spec

(***************************************************************************)
(* At any time, bindings and the default profile name existing profiles.   *)
(***************************************************************************)
THEOREM ReferencesStayValid == Spec => []ReferencesValid
<1>1. ConfigInv => ReferencesValid
  BY DEF ConfigInv, ReferencesValid
<1> QED
  BY <1>1, SavesAreUpdates, PTL

(***************************************************************************)
(* The commands, with their locks, loads, saves, failures and deaths,      *)
(* implement the store whose updates are atomic.                           *)
(***************************************************************************)
THEOREM ConfigIsAtomic == Spec => StoreSpec
<1>1. Init => StoreInit
  BY DEF Init, StoreInit
<1>2. ConfigInv /\ [Next]_vars => [StoreNext]_config
  <2> SUFFICES ASSUME ConfigInv, [Next]_vars, config' # config PROVE StoreNext
    OBVIOUS
  <2>1. PICK c \in Procs : Commit(c)
    BY DEF Next, Command, StartCommand, EditShared, Invoke, LockConfig, Load, Prepare, SyncRead,
           SyncOpen, SyncWrite, SyncWriteFails, SyncRename, SyncRenameFails, SyncCleanup, SyncDone, DeleteHome, Launch, Fail,
           EditSettings, vars
  <2> QED
    BY <2>1, CommitUpdates DEF StoreNext
<1> QED
  BY <1>1, <1>2, SavesAreUpdates, PTL DEF Spec, StoreSpec


-----------------------------------------------------------------------------
(***************************************************************************)
(* Types.  A command that has loaded the configuration works only with     *)
(* profiles of that configuration, as its own closure leaves it.           *)
(***************************************************************************)
TaskInv(c) ==
    /\ stage[c] = "prepare" => op[c].kind = "add"
    /\ stage[c] = "delete" => op[c].kind = "remove"
    /\ Loaded(c) => /\ seen[c] \in Configs /\ Consistent(seen[c])
                    /\ IsUpdate(op[c]) => Allowed(seen[c], op[c])
                    /\ todo[c] \subseteq DOMAIN Wanted(c).profiles
    /\ stage[c] \in {"open", "write", "rename", "cleanup"} => todo[c] # {}
    /\ stage[c] \in {"open", "write"} => copy[c] \in Copy

TypeInv == ConfigInv /\ TypeOK /\ \A c \in Procs : TaskInv(c)

LEMMA OutdatedType ==
    ASSUME NEW x \in Copy \cup {None}
    PROVE  /\ Outdated(x) \in Copy \cup {None}
           /\ x \in Copy => /\ Outdated(x) \in Copy
                            /\ Outdated(x).local = x.local /\ Outdated(x).block = x.block
                            /\ Outdated(x).form = x.form
           /\ x # None => Outdated(x).stale
BY DEF Outdated, Copy

LEMMA OutdateType ==
    ASSUME copy \in [Procs -> Copy \cup {None}], NEW h, OutdateCopies(h)
    PROVE  /\ copy' \in [Procs -> Copy \cup {None}]
           /\ \A d \in Procs : copy'[d] \in {copy[d], Outdated(copy[d])}
<1>1. \A d \in Procs : copy'[d] \in {copy[d], Outdated(copy[d])}
  BY DEF OutdateCopies
<1>2. copy' = [d \in Procs |-> copy'[d]]
  BY DEF OutdateCopies
<1>3. \A d \in Procs : copy'[d] \in Copy \cup {None}
  BY <1>1, OutdatedType
<1> QED
  BY <1>1, <1>2, <1>3

LEMMA WantedType ==
    ASSUME ConfigInv, NEW c \in Procs, Loaded(c), TaskInv(c)
    PROVE  /\ Wanted(c) \in Configs /\ Consistent(Wanted(c))
           /\ \A p \in DOMAIN Wanted(c).profiles : EntryOf(c, p) \in Entry
<1>1. seen[c] \in Configs /\ Consistent(seen[c]) /\ (IsUpdate(op[c]) => Allowed(seen[c], op[c]))
  BY DEF TaskInv
<1>2. op[c] \in Commands
  BY DEF ConfigInv, ProcInv, Loaded
<1>3. Wanted(c) \in Configs /\ Consistent(Wanted(c))
  <2>1. CASE IsUpdate(op[c])
    <3>1. op[c] \in Updates
      BY <1>2, <2>1, UpdateKinds
    <3> QED
      BY <1>1, <2>1, <3>1, ApplyKeepsStore DEF Wanted
  <2>2. CASE ~IsUpdate(op[c])
    BY <1>1, <2>2 DEF Wanted
  <2> QED
    BY <2>1, <2>2
<1>4. Wanted(c).profiles \in [DOMAIN Wanted(c).profiles -> Entry]
  <2>1. Wanted(c).profiles \in UNION {[P -> Entry] : P \in SUBSET Profiles}
    BY <1>3 DEF Configs
  <2> QED
    BY <2>1, PartialFunctions
<1> QED
  BY <1>3, <1>4 DEF EntryOf

LEMMA HomeKnown ==
    ASSUME TypeInv, NEW c \in Procs, Loaded(c), todo[c] # {}
    PROVE  First(todo[c]) \in todo[c] /\ HomeOf(c) \in Homes
<1>1. ConfigInv /\ TaskInv(c) /\ todo[c] \in SUBSET Profiles
  BY DEF TypeInv, TypeOK
<1>2. First(todo[c]) \in todo[c]
  BY <1>1, FirstIsOne
<1>3. First(todo[c]) \in DOMAIN Wanted(c).profiles
  BY <1>1, <1>2 DEF TaskInv
<1>4. EntryOf(c, First(todo[c])) \in Entry
  BY <1>1, <1>3, WantedType
<1> QED
  BY <1>2, <1>4 DEF HomeOf, Entry

LEMMA OthersTasks ==
    ASSUME TypeInv, NEW c \in Procs,
           \A d \in Procs : d # c => /\ stage'[d] = stage[d] /\ op'[d] = op[d]
                                     /\ seen'[d] = seen[d] /\ todo'[d] = todo[d]
                                     /\ copy'[d] \in {copy[d], Outdated(copy[d])},
           TaskInv(c)'
    PROVE  \A d \in Procs : TaskInv(d)'
<1>1. ASSUME NEW d \in Procs, d # c PROVE TaskInv(d)'
  <2>1. TaskInv(d) /\ copy[d] \in Copy \cup {None}
    BY DEF TypeInv, TypeOK
  <2>2. Wanted(d)' = Wanted(d)
    BY <1>1 DEF Wanted
  <2>3. copy[d] \in Copy => copy'[d] \in Copy
    BY <1>1, <2>1, OutdatedType
  <2> QED
    BY <1>1, <2>1, <2>2, <2>3 DEF TaskInv, Loaded
<1> QED
  BY <1>1

(***************************************************************************)
(* What a step of c does to the processes: the others' files may become    *)
(* outdated, nothing else of them changes.                                 *)
(***************************************************************************)
LEMMA CommandLocal ==
    ASSUME TypeInv, NEW c \in Procs, Command(c)
    PROVE  /\ \A d \in Procs : d # c => /\ stage'[d] = stage[d] /\ op'[d] = op[d]
                                        /\ seen'[d] = seen[d] /\ todo'[d] = todo[d]
                                        /\ copy'[d] \in {copy[d], Outdated(copy[d])}
           /\ \A d \in Procs : d # c => /\ Wanted(d)' = Wanted(d) /\ HomeOf(d)' = HomeOf(d)
                                        /\ \A p : EntryOf(d, p)' = EntryOf(d, p)
           /\ \A d \in Procs : d # c /\ stage[d] = "write" /\ link[d] = "tmp"
                                => link'[d] = "tmp" \/ tmp'[HomeOf(d)] = None
<1>1. /\ stage' = stage \/ \E x : stage' = [stage EXCEPT ![c] = x]
      /\ op' = op \/ \E x : op' = [op EXCEPT ![c] = x]
      /\ seen' = seen \/ \E x : seen' = [seen EXCEPT ![c] = x]
      /\ todo' = todo \/ \E x : todo' = [todo EXCEPT ![c] = x]
      /\ copy' = copy \/ (\E x : copy' = [copy EXCEPT ![c] = x]) \/ \E h : OutdateCopies(h)
  BY DEF Command, StartCommand, EditShared, Invoke, LockConfig, Load, Prepare, SyncRead, SyncOpen, SyncWrite,
         SyncWriteFails, SyncRename, SyncRenameFails, SyncCleanup, SyncDone, Commit, DeleteHome, Launch,
         Fail, Goto, Finish, Exit
<1>2. \A d \in Procs : d # c => /\ stage'[d] = stage[d] /\ op'[d] = op[d]
                                /\ seen'[d] = seen[d] /\ todo'[d] = todo[d]
  BY <1>1 DEF TypeInv, TypeOK
<1>3. \A d \in Procs : d # c => copy'[d] \in {copy[d], Outdated(copy[d])}
  BY <1>1, OutdateType DEF TypeInv, TypeOK
<1>4. \A d \in Procs : d # c => /\ Wanted(d)' = Wanted(d) /\ HomeOf(d)' = HomeOf(d)
                                /\ \A p : EntryOf(d, p)' = EntryOf(d, p)
  BY <1>2 DEF Wanted, HomeOf, EntryOf
<1>5. ASSUME NEW d \in Procs, d # c, stage[d] = "write", link[d] = "tmp", link'[d] # "tmp"
      PROVE  tmp'[HomeOf(d)] = None
  <2>1. HomeOf(d) \in Homes
    BY <1>5, HomeKnown DEF TypeInv, TaskInv, Loaded
  <2>2. \/ link' = link \/ (\E x : link' = [link EXCEPT ![c] = x])
        \/ \E h, names : Relink(h, names) /\ tmp' = [tmp EXCEPT ![h] = None]
    BY DEF Command, StartCommand, EditShared, Invoke, LockConfig, Load, Prepare, SyncRead, SyncOpen,
           SyncWrite, SyncWriteFails, SyncRename, SyncRenameFails, SyncCleanup, SyncDone, Commit,
           DeleteHome, Launch, Fail, Finish
  <2>3. PICK h, names : Relink(h, names) /\ tmp' = [tmp EXCEPT ![h] = None]
    BY <1>5, <2>2 DEF TypeInv, TypeOK
  <2>4. HomeOf(d) = h
    BY <1>5, <2>3 DEF Relink
  <2> QED
    BY <2>1, <2>3, <2>4 DEF TypeInv, TypeOK
<1> QED
  BY <1>2, <1>3, <1>4, <1>5


LEMMA AllowedProfile ==
    ASSUME NEW cfg \in Configs, NEW o, Allowed(cfg, o), o.kind \in {"add", "exclude", "include"}
    PROVE  o.profile \in DOMAIN Apply(cfg, o).profiles
<1>1. CASE o.kind = "add"
  BY <1>1 DEF Apply, Added, Put
<1>2. CASE o.kind \in {"exclude", "include"}
  <2> DEFINE P == cfg.profiles
             set == IF o.kind = "exclude" THEN P[o.profile].excluded \cup {o.server}
                    ELSE P[o.profile].excluded \ {o.server}
             P1 == [P EXCEPT ![o.profile].excluded = set]
  <2>1. o.profile \in DOMAIN P
    BY <1>2 DEF Allowed
  <2>2. DOMAIN P1 = DOMAIN P
    OBVIOUS
  <2>3. cfg = [profiles |-> P, default |-> cfg.default, bindings |-> cfg.bindings]
    BY DEF Configs
  <2>4. Apply(cfg, o) = [profiles |-> P1, default |-> cfg.default, bindings |-> cfg.bindings]
    BY <1>2, <2>1, <2>3 DEF Apply, SetMCPExcluded
  <2> HIDE DEF P1
  <2> QED
    BY <2>1, <2>2, <2>4
<1> QED
  BY <1>1, <1>2

LEMMA GotoTask ==
    ASSUME TypeInv, NEW c \in Procs, NEW next \in Stage \ {"idle", "lock", "load", "prepare"}, Loaded(c),
           stage' = [stage EXCEPT ![c] = next], op' = op, seen' = seen, todo'[c] \subseteq todo[c],
           next = "delete" => op[c].kind = "remove",
           next \in {"open", "write", "rename", "cleanup"} => todo'[c] # {},
           next \in {"open", "write"} => copy'[c] \in Copy
    PROVE  TaskInv(c)'
<1>1. stage'[c] = next /\ TaskInv(c)
  BY DEF TypeInv, TypeOK
<1>2. Wanted(c)' = Wanted(c)
  BY DEF Wanted
<1> QED
  BY <1>1, <1>2 DEF TaskInv, Loaded

LEMMA RenderedType ==
    ASSUME NEW content \in Content, NEW block \in SUBSET Servers
    PROVE  Rendered(content, block) \in Copy
BY DEF Rendered, Content, Copy, Form

LEMMA VoidType ==
    ASSUME NEW form \in Form
    PROVE  /\ Void(form) \in Copy /\ Void(form) # None /\ Void(form).form = form
           /\ Published(Void(form)) \in Content
<1>1. Void(form) \in Copy /\ Void(form).form = form
  BY DEF Void, Copy
<1>2. Published(Void(form)) \in Content
  BY DEF Void, Published, Content
<1> QED
  BY <1>1, <1>2, NoneAssumption

LEMMA PublishedType ==
    ASSUME NEW x \in Copy
    PROVE  /\ Published(x) \in Content /\ Published(x) # None
           /\ Published(x).local = x.local /\ Published(x).block = x.block
           /\ Published(x).form = x.form
BY NoneAssumption DEF Copy, Content, Published

\* What a process can leave in the file it has open.
LEMMA WrittenType ==
    ASSUME NEW old, NEW new \in Copy, NEW x \in Overwritten(old, new)
    PROVE  /\ x \in Copy /\ (x = new \/ x.form = "mixed")
           /\ old.form = "empty" => x = new
BY VoidType DEF Overwritten, Form

LEMMA StepTask ==
    ASSUME TypeInv, NEW c \in Procs, Command(c)
    PROVE  TaskInv(c)'
<1>1. /\ TaskInv(c) /\ stage[c] \in Stage /\ ProcInv(c) /\ TypeOK /\ ConfigInv
      /\ config \in Configs /\ Consistent(config)
  BY DEF TypeInv, TypeOK, ConfigInv
<1>2. CASE stage'[c] \in {"idle", "lock", "load"}
  BY <1>2 DEF TaskInv, Loaded
<1>3. CASE LockConfig(c)
  <2> DEFINE s == IF op[c].kind = "add" THEN "prepare" ELSE "read"
             names == IF op[c].kind \in {"add", "exclude", "include"} THEN {op[c].profile} ELSE {}
  <2>1. stage'[c] = s /\ seen'[c] = config /\ todo'[c] = names /\ op' = op /\ Allowed(config, op[c])
    BY <1>1, <1>3 DEF LockConfig, TypeOK
  <2>2. IsUpdate(op[c])
    BY <1>1, <1>3 DEF LockConfig, ProcInv
  <2>3. Wanted(c)' = Apply(config, op[c])
    BY <2>1, <2>2 DEF Wanted
  <2>4. names \subseteq DOMAIN Apply(config, op[c]).profiles
    BY <1>1, <2>1, AllowedProfile
  <2> QED
    BY <1>1, <2>1, <2>3, <2>4 DEF TaskInv, Loaded
<1>4. CASE Load(c)
  <2>1. /\ stage'[c] = "read" /\ seen'[c] = config /\ op' = op
        /\ todo'[c] \subseteq DOMAIN config.profiles
    BY <1>1, <1>4 DEF Load, TypeOK
  <2>2. ~IsUpdate(op[c])
    BY <1>1, <1>4 DEF Load, ProcInv
  <2>3. Wanted(c)' = config
    BY <2>1, <2>2 DEF Wanted
  <2> QED
    BY <1>1, <2>1, <2>2, <2>3 DEF TaskInv, Loaded
<1>5. CASE Prepare(c) \/ SyncRename(c)
  <2>1. stage[c] \in {"prepare", "rename"} /\ stage' = [stage EXCEPT ![c] = "read"] /\ op' = op /\ seen' = seen
    BY <1>5 DEF Prepare, SyncRename, Goto
  <2>2. todo'[c] \subseteq todo[c]
    BY <1>1, <1>5 DEF Prepare, SyncRename, TypeOK
  <2>3. Loaded(c) /\ "read" \in Stage \ {"idle", "lock", "load", "prepare"}
    BY <2>1 DEF Loaded, Stage, Syncing
  <2> QED
    BY <2>1, <2>2, <2>3, GotoTask
<1>6. CASE SyncRead(c)
  <2>1. /\ stage[c] = "read" /\ todo[c] # {} /\ Loaded(c) /\ op' = op /\ seen' = seen
        /\ {"read", "open"} \subseteq Stage \ {"idle", "lock", "load", "prepare"}
    BY <1>6 DEF SyncRead, Goto, Loaded, Stage, Syncing
  <2> DEFINE content == file[HomeOf(c)]
             block == Inherited(shared, EntryOf(c, First(todo[c])).excluded, content)
  <2>2. CASE copy' = [copy EXCEPT ![c] = Rendered(content, block)] /\ Goto(c, "open") /\ UNCHANGED todo
    <3>1. content \in Content
      BY <1>1, <1>6, <2>1, HomeKnown DEF SyncRead, TypeOK
    <3>2. block \in SUBSET Servers
      BY <1>1 DEF Inherited, TypeOK
    <3> HIDE DEF content, block
    <3>3. copy'[c] \in Copy
      BY <1>1, <2>2, <3>1, <3>2, RenderedType DEF TypeOK
    <3> QED
      BY <2>1, <2>2, <3>3, GotoTask DEF Goto
  <2>3. CASE todo' = [todo EXCEPT ![c] = @ \ {First(todo[c])}] /\ Goto(c, "read")
    <3>1. todo'[c] \subseteq todo[c]
      BY <1>1, <2>3 DEF TypeOK
    <3> QED
      BY <2>1, <2>3, <3>1, GotoTask DEF Goto
  <2> QED
    BY <1>6, <2>2, <2>3 DEF SyncRead
<1>7. CASE SyncOpen(c) \/ SyncWrite(c) \/ SyncRenameFails(c)
  <2>1. PICK next \in {"write", "rename", "cleanup"} :
          /\ stage' = [stage EXCEPT ![c] = next]
          /\ next = "write" => stage[c] = "open" /\ copy' = copy
    BY <1>7 DEF SyncOpen, SyncWrite, SyncRenameFails, Goto
  <2>2. stage[c] \in {"open", "write", "rename"} /\ op' = op /\ seen' = seen /\ todo' = todo
    BY <1>7 DEF SyncOpen, SyncWrite, SyncRenameFails, Goto
  <2>3. todo[c] # {} /\ (stage[c] = "open" => copy[c] \in Copy)
    BY <1>1, <2>2 DEF TaskInv
  <2>4. Loaded(c) /\ next \in Stage \ {"idle", "lock", "load", "prepare"} /\ next # "delete"
    BY <2>1, <2>2 DEF Loaded, Stage, Syncing
  <2> QED
    BY <2>1, <2>2, <2>3, <2>4, GotoTask
<1>8. CASE \/ Goto(c, "commit") /\ UNCHANGED todo /\ stage[c] = "read"
           \/ Goto(c, "launch") /\ UNCHANGED todo /\ stage[c] = "read"
           \/ Goto(c, "delete") /\ UNCHANGED todo /\ stage[c] = "commit" /\ op[c].kind = "remove"
  <2>1. Loaded(c) /\ {"commit", "launch", "delete"} \subseteq Stage \ {"idle", "lock", "load", "prepare"}
    BY <1>8 DEF Loaded, Stage, Syncing
  <2> QED
    BY <1>8, <2>1, GotoTask DEF Goto
<1>9. ASSUME NEW o \in Commands, Invoke(c, o) PROVE stage'[c] \in {"lock", "load"}
  BY <1>1, <1>9 DEF Invoke, TypeOK
<1>10. Finish(c) => stage'[c] = "idle"
  BY <1>1 DEF Finish, Exit, TypeOK
<1>11. Exit(c) => stage'[c] = "idle"
  BY <1>1 DEF Exit, TypeOK
<1> QED
  BY <1>2, <1>3, <1>4, <1>5, <1>6, <1>7, <1>8, <1>9, <1>10, <1>11
     DEF Command, StartCommand, EditShared, SyncWriteFails, SyncCleanup, SyncDone, Commit, DeleteHome, Launch, Fail

LEMMA EntryNames ==
    ASSUME NEW cfg \in Configs, NEW p \in DOMAIN cfg.profiles
    PROVE  p \in Profiles /\ cfg.profiles[p].home \in Homes
<1>1. cfg.profiles \in UNION {[P -> Entry] : P \in SUBSET Profiles}
  BY DEF Configs
<1> QED
  BY <1>1, PartialFunctions DEF Entry

LEMMA StepFiles ==
    ASSUME TypeInv, NEW c \in Procs, Command(c)
    PROVE  /\ shared' \in SUBSET Servers
           /\ lock' \in Procs \cup {None}
           /\ file' \in [Homes -> Content \cup {None}]
           /\ tmp' \in [Homes -> Copy \cup {None}]
           /\ todo' \in [Procs -> SUBSET Profiles]
           /\ copy' \in [Procs -> Copy \cup {None}]
           /\ link' \in [Procs -> {"none", "tmp", "file", "lost"}]
           /\ commands' \in 0..MaxCommands /\ edits' = edits
<1>1. /\ TaskInv(c) /\ ConfigInv /\ TypeOK /\ ProcInv(c) /\ config \in Configs
  BY DEF TypeInv, ConfigInv
<1>2. Loaded(c) /\ todo[c] # {} => First(todo[c]) \in todo[c] /\ HomeOf(c) \in Homes
  BY HomeKnown
<1>3. /\ commands' \in 0..MaxCommands /\ edits' = edits
      /\ lock' \in Procs \cup {None}
  <2>1. /\ edits' = edits
        /\ commands' = commands \/ (commands < MaxCommands /\ commands' = commands + 1)
        /\ lock' \in {lock, c, None}
    BY DEF Command, StartCommand, EditShared, Invoke, LockConfig, Load, Prepare, SyncRead, SyncOpen,
         SyncWrite, SyncWriteFails, SyncRename, SyncRenameFails, SyncCleanup, SyncDone, Commit,
         DeleteHome, Launch, Fail, Goto, Finish, Exit
  <2> QED
    BY <1>1, <2>1, ProcAssumption DEF TypeOK
<1>4. shared' \in SUBSET Servers
  <2>1. ASSUME NEW o \in Commands, EditShared(c, o) PROVE shared' \in SUBSET Servers
    <3>1. o.kind \in {"mcpadd", "mcpremove"} => o.server \in Servers
      BY CommandAssumption DEF AllCommands, Updates
    <3> QED
      BY <1>1, <2>1, <3>1 DEF EditShared, TypeOK
  <2>2. shared' = shared \/ \E o \in Commands : EditShared(c, o)
    BY DEF Command, StartCommand, LockConfig, Load, Prepare, SyncRead, SyncOpen, SyncWrite,
         SyncWriteFails, SyncRename, SyncRenameFails, SyncCleanup, SyncDone, Commit, DeleteHome, Launch, Fail
  <2> QED
    BY <1>1, <2>1, <2>2 DEF TypeOK
<1>5. todo' \in [Procs -> SUBSET Profiles]
  <2>1. ASSUME NEW S \in SUBSET Profiles, todo' = [todo EXCEPT ![c] = S]
        PROVE  todo' \in [Procs -> SUBSET Profiles]
    BY <1>1, <2>1 DEF TypeOK
  <2>2. CASE LockConfig(c)
    <3>1. op[c] \in Updates
      BY <1>1, <2>2, UpdateKinds DEF LockConfig, ProcInv, ConfigInv
    <3>2. op[c].kind \in {"add", "exclude", "include"} => op[c].profile \in Profiles
      BY <3>1 DEF Updates
    <3> DEFINE names == IF op[c].kind \in {"add", "exclude", "include"} THEN {op[c].profile} ELSE {}
    <3>3. names \in SUBSET Profiles
      BY <3>2
    <3>4. todo' = [todo EXCEPT ![c] = names]
      BY <2>2 DEF LockConfig
    <3> QED
      BY <2>1, <3>3, <3>4
  <2>3. CASE Load(c)
    <3>1. PICK names \in SUBSET DOMAIN config.profiles : todo' = [todo EXCEPT ![c] = names]
      BY <2>3 DEF Load
    <3>2. names \in SUBSET Profiles
      BY <1>1, EntryNames
    <3> QED
      BY <2>1, <3>1, <3>2
  <2>4. CASE SyncRead(c) \/ SyncRename(c)
    <3>1. todo' = todo \/ todo' = [todo EXCEPT ![c] = todo[c] \ {First(todo[c])}]
      BY <2>4 DEF SyncRead, SyncRename
    <3>2. todo[c] \ {First(todo[c])} \in SUBSET Profiles /\ todo \in [Procs -> SUBSET Profiles]
      BY <1>1 DEF TypeOK
    <3> QED
      BY <2>1, <3>1, <3>2
  <2>5. CASE todo' = todo \/ Exit(c)
    BY <1>1, <2>1, <2>5 DEF Exit, TypeOK
  <2> QED
    BY <2>2, <2>3, <2>4, <2>5
       DEF Command, StartCommand, EditShared, Invoke, Prepare, SyncOpen, SyncWrite, SyncWriteFails,
           SyncRenameFails, SyncCleanup, SyncDone, Commit, DeleteHome, Launch, Fail, Finish
<1>6. copy' \in [Procs -> Copy \cup {None}]
  <2>1. CASE \E h : OutdateCopies(h)
    BY <1>1, <2>1, OutdateType DEF TypeOK
  <2>2. CASE copy' = copy
    BY <1>1, <2>2 DEF TypeOK
  <2>3. CASE copy' = [copy EXCEPT ![c] = None]
    BY <1>1, <2>3 DEF TypeOK
  <2>4. CASE SyncRead(c) /\ copy' # copy
    <3>1. TaskInv(c)'
      BY StepTask
    <3>2. stage'[c] = "open" /\ copy' = [copy EXCEPT ![c] = copy'[c]]
      BY <1>1, <2>4 DEF SyncRead, Goto, TypeOK
    <3>3. copy'[c] \in Copy
      BY <3>1, <3>2 DEF TaskInv
    <3> QED
      BY <1>1, <3>2, <3>3 DEF TypeOK
  <2>5. \/ copy' = copy \/ copy' = [copy EXCEPT ![c] = None]
        \/ (\E h : OutdateCopies(h)) \/ SyncRead(c)
    BY DEF Command, StartCommand, EditShared, Invoke, LockConfig, Load, Prepare, SyncOpen, SyncWrite,
           SyncWriteFails, SyncRename, SyncRenameFails, SyncCleanup, SyncDone, Commit, DeleteHome, Launch,
           Fail, Finish, Exit
  <2> QED
    BY <2>1, <2>2, <2>3, <2>4, <2>5
<1>7. /\ file' \in [Homes -> Content \cup {None}]
      /\ tmp' \in [Homes -> Copy \cup {None}]
  <2>1. CASE Prepare(c)
    <3> DEFINE h == op[c].home
               source == IF op[c].clone = None THEN None
                         ELSE file[seen[c].profiles[op[c].clone].home]
               content == IF source # None THEN source
                          ELSE IF file[h] # None THEN file[h] ELSE Published(Void("whole"))
    <3>1. /\ file' = [file EXCEPT ![h] = content]
          /\ tmp' = [tmp EXCEPT ![h] = Outdated(tmp[h])]
      BY <2>1 DEF Prepare
    <3>2. /\ op[c].kind = "add" /\ op[c] \in Updates /\ seen[c] \in Configs
          /\ Allowed(seen[c], op[c])
      BY <1>1, <2>1, UpdateKinds DEF Prepare, TaskInv, Loaded, ProcInv, ConfigInv
    <3>3. h \in Homes
      BY <3>2 DEF Updates
    <3>4. op[c].clone # None => seen[c].profiles[op[c].clone].home \in Homes
      BY <3>2, EntryNames DEF Allowed
    <3>5. content \in Content \cup {None}
      <4>1. Published(Void("whole")) \in Content
        BY VoidType DEF Form
      <4>2. source \in Content \cup {None}
        BY <1>1, <3>4 DEF TypeOK
      <4>3. file[h] \in Content \cup {None}
        BY <1>1, <3>3 DEF TypeOK
      <4> QED
        BY <4>1, <4>2, <4>3
    <3>6. Outdated(tmp[h]) \in Copy \cup {None}
      BY <1>1, <3>3, OutdatedType DEF TypeOK
    <3> HIDE DEF content, h
    <3> QED
      BY <1>1, <3>1, <3>5, <3>6 DEF TypeOK
  <2>2. ASSUME NEW x \in Copy, WriteOut(c, x), HomeOf(c) \in Homes
        PROVE  /\ file' \in [Homes -> Content \cup {None}]
               /\ tmp' \in [Homes -> Copy \cup {None}]
    <3> DEFINE h == HomeOf(c)
    <3>1. /\ file' = file \/ file' = [file EXCEPT ![h] = Published(x)]
          /\ tmp' = tmp \/ tmp' = [tmp EXCEPT ![h] = x] \/ tmp' = [tmp EXCEPT ![h] = Outdated(tmp[h])]
      BY <2>2 DEF WriteOut, files
    <3>2. Outdated(tmp[h]) \in Copy \cup {None}
      BY <1>1, <2>2, OutdatedType DEF TypeOK
    <3>3. Published(x) \in Content
      BY PublishedType
    <3> HIDE DEF h
    <3> QED
      BY <1>1, <3>1, <3>2, <3>3 DEF TypeOK
  <2>6. CASE SyncWrite(c)
    <3>1. copy[c] \in Copy /\ HomeOf(c) \in Homes
      BY <1>1, <1>2, <2>6 DEF SyncWrite, TaskInv, Loaded
    <3>2. PICK x \in Overwritten(Opened(c), copy[c]) : WriteOut(c, x)
      BY <2>6 DEF SyncWrite
    <3>3. x \in Copy
      BY <3>1, WrittenType
    <3> QED
      BY <2>2, <3>1, <3>2, <3>3
  <2>7. CASE SyncWriteFails(c)
    <3>1. HomeOf(c) \in Homes /\ WriteOut(c, Void("mixed"))
      BY <1>1, <1>2, <2>7 DEF SyncWriteFails, TaskInv, Loaded
    <3>2. Void("mixed") \in Copy
      BY VoidType DEF Form
    <3> QED
      BY <2>2, <3>1, <3>2
  <2>8. CASE SyncOpen(c)
    <3>1. file' = file /\ tmp' = [tmp EXCEPT ![HomeOf(c)] = Void("empty")]
      BY <2>8 DEF SyncOpen
    <3>2. Void("empty") \in Copy
      BY VoidType DEF Form
    <3> QED
      BY <1>1, <3>1, <3>2 DEF TypeOK
  <2>3. CASE SyncRename(c)
    <3> DEFINE h == HomeOf(c)
               content == Published(tmp[h])
    <3>1. h \in Homes /\ tmp[h] # None
      BY <1>1, <1>2, <2>3 DEF SyncRename, TaskInv, Loaded
    <3>2. content \in Content
      <4>1. tmp[h] \in Copy
        BY <1>1, <3>1 DEF TypeOK
      <4> QED
        BY <4>1, PublishedType
    <3>3. file' = [file EXCEPT ![h] = content] /\ tmp' = [tmp EXCEPT ![h] = None]
      BY <2>3 DEF SyncRename
    <3> HIDE DEF h, content
    <3> QED
      BY <1>1, <3>2, <3>3 DEF TypeOK
  <2>4. CASE SyncCleanup(c) \/ DeleteHome(c)
    <3>1. /\ file' = file \/ \E h : file' = [file EXCEPT ![h] = None]
          /\ \E h : tmp' = [tmp EXCEPT ![h] = None]
      BY <2>4 DEF SyncCleanup, DeleteHome
    <3> QED
      BY <1>1, <3>1 DEF TypeOK
  <2>5. CASE UNCHANGED files
    BY <1>1, <2>5 DEF TypeOK, files
  <2> QED
    BY <2>1, <2>3, <2>4, <2>5, <2>6, <2>7, <2>8
       DEF Command, StartCommand, EditShared, Invoke, LockConfig, Load, SyncRead,
           SyncRenameFails, SyncDone, Commit, Launch, Fail, files
<1>8. link' \in [Procs -> {"none", "tmp", "file", "lost"}]
  <2>1. \/ link' = link \/ link' = [link EXCEPT ![c] = "none"] \/ link' = [link EXCEPT ![c] = "tmp"]
        \/ \E h : Relink(h, [tmp |-> "file", file |-> "lost"])
        \/ \E h : Relink(h, [tmp |-> "lost"])
        \/ \E h : Relink(h, [tmp |-> "lost", file |-> "lost"])
    BY DEF Command, StartCommand, EditShared, Invoke, LockConfig, Load, Prepare, SyncRead, SyncOpen,
           SyncWrite, SyncWriteFails, SyncRename, SyncRenameFails, SyncCleanup, SyncDone, Commit,
           DeleteHome, Launch, Fail, Finish
  <2> QED
    BY <1>1, <2>1 DEF Relink, TypeOK
<1> QED
  BY <1>3, <1>4, <1>5, <1>6, <1>7, <1>8


LEMMA WatchType ==
    ASSUME NEW others, Watch(others)
    PROVE  disturbed' \in [Procs -> BOOLEAN]
BY DEF Watch

\* Codex and the user leave the processes alone.
LEMMA EditLocal ==
    ASSUME TypeInv, NEW h \in Homes, NEW settings \in SUBSET Servers, EditSettings(h, settings)
    PROVE  /\ UNCHANGED <<config, lock, shared, stage, op, seen, todo, commands>>
           /\ edits' \in 0..MaxEdits
           /\ file' \in [Homes -> Content \cup {None}]
           /\ \A g \in Homes : g # h => file'[g] = file[g] /\ tmp'[g] = tmp[g]
           /\ file[h] # None /\ tmp'[h] = Outdated(tmp[h])
           /\ tmp' \in [Homes -> Copy \cup {None}]
           /\ copy' \in [Procs -> Copy \cup {None}]
           /\ \A d \in Procs : copy'[d] \in {copy[d], Outdated(copy[d])}
           /\ link' \in [Procs -> {"none", "tmp", "file", "lost"}]
           /\ \A d \in Procs : link[d] = "tmp" => link'[d] = "tmp"
           /\ \A d \in Procs : Wanted(d)' = Wanted(d) /\ HomeOf(d)' = HomeOf(d)
                               /\ \A p : EntryOf(d, p)' = EntryOf(d, p)
<1>1. TypeOK
  BY DEF TypeInv
<1>2. /\ UNCHANGED <<config, lock, shared, stage, op, seen, todo, commands>>
      /\ file[h] # None
      /\ tmp' = [tmp EXCEPT ![h] = Outdated(tmp[h])]
  BY DEF EditSettings
<1>3. edits' \in 0..MaxEdits
  BY <1>1, ProcAssumption DEF EditSettings, TypeOK
<1> DEFINE content == [file[h] EXCEPT !.local = settings, !.form = "whole"]
<1>4. content \in Content
  BY <1>1, <1>2 DEF TypeOK, Content, Form
<1>5. file' = [file EXCEPT ![h] = content]
  BY DEF EditSettings
<1> HIDE DEF content
<1>6. /\ file' \in [Homes -> Content \cup {None}]
      /\ \A g \in Homes : g # h => file'[g] = file[g]
  BY <1>1, <1>4, <1>5 DEF TypeOK
<1>7. Outdated(tmp[h]) \in Copy \cup {None}
  BY <1>1, OutdatedType DEF TypeOK
<1>8. /\ tmp' \in [Homes -> Copy \cup {None}]
      /\ \A g \in Homes : g # h => tmp'[g] = tmp[g]
      /\ tmp'[h] = Outdated(tmp[h])
  BY <1>1, <1>2, <1>7 DEF TypeOK
<1>9. /\ copy' \in [Procs -> Copy \cup {None}]
      /\ \A d \in Procs : copy'[d] \in {copy[d], Outdated(copy[d])}
  BY <1>1, OutdateType DEF EditSettings, TypeOK
<1>10. \A d \in Procs : Wanted(d)' = Wanted(d) /\ HomeOf(d)' = HomeOf(d)
                        /\ \A p : EntryOf(d, p)' = EntryOf(d, p)
  BY <1>2 DEF Wanted, HomeOf, EntryOf
<1>11. /\ link' \in [Procs -> {"none", "tmp", "file", "lost"}]
       /\ \A d \in Procs : link[d] = "tmp" => link'[d] = "tmp"
  BY <1>1 DEF EditSettings, Relink, TypeOK
<1> QED
  BY <1>2, <1>3, <1>6, <1>8, <1>9, <1>10, <1>11

LEMMA InitTypes == Init => TypeInv
<1> SUFFICES ASSUME Init PROVE TypeInv
  OBVIOUS
<1>1. ConfigInv
  BY InitConfig
<1>2. TypeOK
  BY ProcAssumption DEF Init, TypeOK, Stage
<1>3. \A c \in Procs : TaskInv(c)
  BY DEF Init, TaskInv, Loaded
<1> QED
  BY <1>1, <1>2, <1>3 DEF TypeInv

LEMMA StepTypes == TypeInv /\ [Next]_vars => TypeInv'
<1> SUFFICES ASSUME TypeInv, [Next]_vars PROVE TypeInv'
  OBVIOUS
<1>1. TypeOK /\ ConfigInv
  BY DEF TypeInv
<1>2. ConfigInv'
  BY <1>1, StepConfig
<1>3. /\ (config \in Configs)' /\ (stage \in [Procs -> Stage])'
      /\ (op \in [Procs -> Commands \cup {None}])'
      /\ (seen \in [Procs -> Configs \cup {None}])'
      /\ (\A c \in Procs : op[c] = None <=> stage[c] = "idle")'
  BY <1>2 DEF ConfigInv, ProcInv
<1>4. ASSUME NEW c \in Procs, Command(c), Watch(Procs \ {c}) PROVE TypeInv'
  <2>1. TaskInv(c)'
    BY <1>4, StepTask
  <2>2. \A d \in Procs : TaskInv(d)'
    BY <1>4, <2>1, OthersTasks, CommandLocal
  <2>3. disturbed' \in [Procs -> BOOLEAN]
    BY <1>4, WatchType
  <2>4. TypeOK'
    BY <1>1, <1>3, <1>4, <2>3, StepFiles DEF TypeOK
  <2> QED
    BY <1>2, <2>2, <2>4 DEF TypeInv
<1>5. ASSUME NEW h \in Homes, NEW settings \in SUBSET Servers, EditSettings(h, settings), Watch(Procs)
      PROVE  TypeInv'
  <2>1. disturbed' \in [Procs -> BOOLEAN]
    BY <1>5, WatchType
  <2>2. TypeOK'
    BY <1>1, <1>3, <1>5, <2>1, EditLocal DEF TypeOK
  <2>3. ASSUME NEW c \in Procs PROVE TaskInv(c)'
    <3>1. TaskInv(c) /\ copy[c] \in Copy \cup {None}
      BY <1>1 DEF TypeInv, TypeOK
    <3>2. UNCHANGED <<stage, op, seen, todo>> /\ Wanted(c)' = Wanted(c)
      BY <1>5, EditLocal
    <3>3. copy[c] \in Copy => copy'[c] \in Copy
      BY <1>5, <3>1, EditLocal, OutdatedType
    <3> QED
      BY <3>1, <3>2, <3>3 DEF TaskInv, Loaded
  <2> QED
    BY <1>2, <2>2, <2>3 DEF TypeInv
<1>6. CASE UNCHANGED vars
  <2>1. TypeOK'
    BY <1>1, <1>6 DEF vars, proc, files, TypeOK
  <2>2. \A c \in Procs : TaskInv(c)'
    BY <1>6 DEF vars, proc, TypeInv, TaskInv, Loaded, Wanted
  <2> QED
    BY <1>2, <2>1, <2>2 DEF TypeInv
<1> QED
  BY <1>4, <1>5, <1>6 DEF Next

(***************************************************************************)
(* A command never works with a profile, a home or a file that its         *)
(* configuration does not have.                                            *)
(***************************************************************************)
THEOREM ConfigTypes == Spec => []TypeOK
<1>1. TypeInv => TypeOK
  BY DEF TypeInv
<1> QED
  BY <1>1, InitTypes, StepTypes, PTL DEF Spec

-----------------------------------------------------------------------------
(***************************************************************************)
(* Settings.  What was written for a config.toml agrees with it outside    *)
(* the managed block, or is known to be stale, unless one of them is torn. *)
(***************************************************************************)
Faithful(h) ==
    /\ file[h] # None /\ file[h].form # "mixed"
    /\ tmp[h] # None /\ tmp[h].form = "whole" /\ ~tmp[h].stale
    => tmp[h].local = file[h].local

FaithfulCopy(c) ==
    LET h == HomeOf(c)
    IN stage[c] \in {"open", "write"} /\ file[h] # None /\ file[h].form # "mixed" /\ ~copy[c].stale
         => copy[c].local = file[h].local

SettingsInv == (\A h \in Homes : Faithful(h)) /\ (\A c \in Procs : FaithfulCopy(c))

LEMMA FaithfulOthers ==
    ASSUME TypeInv, NEW d \in Procs, FaithfulCopy(d), HomeOf(d)' = HomeOf(d), stage'[d] = stage[d],
           copy'[d] \in {copy[d], Outdated(copy[d])},
           \/ file'[HomeOf(d)] = file[HomeOf(d)]
           \/ file'[HomeOf(d)] = None \/ file'[HomeOf(d)].form = "mixed"
           \/ /\ file[HomeOf(d)] # None /\ file[HomeOf(d)].form # "mixed"
              /\ file'[HomeOf(d)].local = file[HomeOf(d)].local
           \/ OutdateCopies(HomeOf(d))
    PROVE  FaithfulCopy(d)'
<1> DEFINE h == HomeOf(d)
<1> SUFFICES ASSUME stage[d] \in {"open", "write"}, file'[h] # None, file'[h].form # "mixed", ~copy'[d].stale
             PROVE  copy'[d].local = file'[h].local
  BY DEF FaithfulCopy
<1>1. copy[d] \in Copy /\ copy[d] # None
  BY NoneAssumption DEF TypeInv, TaskInv
<1>2. copy'[d] = copy[d]
  BY <1>1, OutdatedType
<1>3. ~OutdateCopies(HomeOf(d))
  <2>1. OutdateCopies(HomeOf(d)) => copy'[d] = Outdated(copy[d])
    BY DEF OutdateCopies
  <2> QED
    BY <1>1, <2>1, OutdatedType
<1> QED
  BY <1>2, <1>3 DEF FaithfulCopy

LEMMA FaithfulFiles ==
    ASSUME TypeInv, NEW h \in Homes, Faithful(h),
           \/ file'[h] = file[h] /\ tmp'[h] = tmp[h]
           \/ tmp'[h] = None
           \/ tmp'[h] = Outdated(tmp[h])
           \/ tmp'[h] = tmp[h] /\ file'[h].form = "mixed"
           \/ /\ tmp'[h] = tmp[h] /\ file[h] # None /\ file[h].form # "mixed"
              /\ file'[h].local = file[h].local
    PROVE  Faithful(h)'
<1>1. tmp[h] \in Copy \cup {None}
  BY DEF TypeInv, TypeOK
<1>2. tmp'[h] = Outdated(tmp[h]) => tmp'[h] = None \/ tmp'[h].stale
  BY <1>1, OutdatedType DEF Outdated
<1> QED
  BY <1>2 DEF Faithful

LEMMA StepSettings == TypeInv /\ SettingsInv /\ [Next]_vars => SettingsInv'
<1> SUFFICES ASSUME TypeInv, SettingsInv, [Next]_vars PROVE SettingsInv'
  OBVIOUS
<1>1. TypeOK /\ TypeInv'
  BY StepTypes DEF TypeInv
<1>2. ASSUME NEW c \in Procs, stage[c] \in {"open", "write", "rename", "cleanup"}
      PROVE  HomeOf(c) \in Homes
  <2>1. Loaded(c) /\ todo[c] # {}
    BY <1>2 DEF TypeInv, TaskInv, Loaded
  <2> QED
    BY <2>1, HomeKnown
<1>3. ASSUME NEW c \in Procs, Command(c), file' = file, FaithfulCopy(c)',
             \A h \in Homes : \/ tmp'[h] = tmp[h] \/ tmp'[h] = None \/ Faithful(h)'
      PROVE  SettingsInv'
  <2>1. \A d \in Procs : d # c => FaithfulCopy(d)'
    BY <1>3, CommandLocal, FaithfulOthers DEF SettingsInv
  <2>2. \A h \in Homes : Faithful(h)'
    BY <1>3, FaithfulFiles DEF SettingsInv
  <2> QED
    BY <1>3, <2>1, <2>2 DEF SettingsInv
<1>4. ASSUME NEW c \in Procs, Command(c), UNCHANGED files, stage'[c] \notin {"open", "write"}
      PROVE  SettingsInv'
  BY <1>3, <1>4 DEF FaithfulCopy, files
<1>5. ASSUME NEW c \in Procs, SyncRead(c) PROVE SettingsInv'
  <2>1. Command(c) /\ file' = file /\ tmp' = tmp
    BY <1>5 DEF Command, SyncRead, files
  <2>2. CASE stage'[c] = "open"
    <3> DEFINE content == file[HomeOf(c)]
               block == Inherited(shared, EntryOf(c, First(todo[c])).excluded, content)
    <3>1. /\ copy' = [copy EXCEPT ![c] = Rendered(content, block)]
          /\ op' = op /\ seen' = seen /\ todo' = todo
      BY <1>1, <1>5, <2>2 DEF SyncRead, Goto, TypeOK
    <3>2. HomeOf(c)' = HomeOf(c)
      BY <3>1 DEF HomeOf, EntryOf, Wanted
    <3>3. copy'[c].local = content.local
      BY <1>1, <3>1 DEF Rendered, TypeOK
    <3>4. FaithfulCopy(c)'
      BY <2>1, <3>2, <3>3 DEF FaithfulCopy
    <3> QED
      BY <1>3, <2>1, <3>4
  <2>3. CASE stage'[c] = "read"
    BY <1>4, <2>1, <2>3 DEF files
  <2> QED
    BY <1>1, <1>5, <2>2, <2>3 DEF SyncRead, Goto, TypeOK
<1>6. ASSUME NEW c \in Procs, SyncOpen(c) PROVE SettingsInv'
  <2>1. /\ Command(c) /\ file' = file /\ stage[c] = "open" /\ copy' = copy
        /\ tmp' = [tmp EXCEPT ![HomeOf(c)] = Void("empty")]
        /\ op' = op /\ seen' = seen /\ todo' = todo
    BY <1>6 DEF Command, SyncOpen, Goto
  <2>2. \A h \in Homes : tmp'[h] = tmp[h] \/ Faithful(h)'
    <3>1. \A h \in Homes : tmp'[h] = tmp[h] \/ tmp'[h] = Void("empty")
      BY <1>1, <2>1 DEF TypeOK
    <3>2. Void("empty").form = "empty"
      BY DEF Void
    <3> QED
      BY <3>1, <3>2 DEF Faithful
  <2>3. HomeOf(c)' = HomeOf(c)
    BY <2>1 DEF HomeOf, EntryOf, Wanted
  <2>4. FaithfulCopy(c)'
    BY <2>1, <2>3 DEF FaithfulCopy, SettingsInv
  <2> QED
    BY <1>3, <2>1, <2>2, <2>4
<1>7. ASSUME NEW c \in Procs, SyncCleanup(c) PROVE SettingsInv'
  <2>1. /\ Command(c) /\ file' = file /\ stage'[c] = "idle"
        /\ tmp' = [tmp EXCEPT ![HomeOf(c)] = None]
    BY <1>1, <1>7 DEF Command, SyncCleanup, Exit, TypeOK
  <2>2. \A h \in Homes : tmp'[h] = tmp[h] \/ tmp'[h] = None
    BY <1>1, <2>1 DEF TypeOK
  <2> QED
    BY <1>3, <2>1, <2>2 DEF FaithfulCopy
\* The steps that change a config.toml.
<1>8. ASSUME NEW c \in Procs, Command(c), NEW h \in Homes, stage'[c] \notin {"open", "write"},
             \A g \in Homes : g # h => file'[g] = file[g] /\ tmp'[g] = tmp[g],
             \/ tmp'[h] \in {None, Outdated(tmp[h])}
             \/ tmp'[h] = tmp[h] /\ file'[h].form = "mixed"
             \/ /\ tmp'[h] = tmp[h] /\ file[h] # None /\ file[h].form # "mixed"
                /\ file'[h].local = file[h].local,
             \/ file'[h] = None \/ OutdateCopies(h) \/ file'[h].form = "mixed"
             \/ /\ file[h] # None /\ file[h].form # "mixed"
                /\ file'[h].local = file[h].local
      PROVE  SettingsInv'
  <2>1. ASSUME NEW d \in Procs, d # c PROVE FaithfulCopy(d)'
    <3>1. /\ FaithfulCopy(d) /\ HomeOf(d)' = HomeOf(d) /\ stage'[d] = stage[d]
          /\ copy'[d] \in {copy[d], Outdated(copy[d])}
      BY <1>8, <2>1, CommandLocal DEF SettingsInv
    <3>2. CASE stage[d] \in {"open", "write"}
      <4>1. HomeOf(d) \in Homes
        BY <1>2, <3>2
      <4> QED
        BY <1>8, <3>1, <4>1, FaithfulOthers
    <3> QED
      BY <3>1, <3>2 DEF FaithfulCopy
  <2>2. \A g \in Homes : Faithful(g)'
    BY <1>8, FaithfulFiles DEF SettingsInv
  <2> QED
    BY <1>8, <2>1, <2>2 DEF SettingsInv, FaithfulCopy
<1>9. ASSUME NEW c \in Procs, Prepare(c) PROVE SettingsInv'
  <2> DEFINE h == op[c].home
  <2>1. Command(c) /\ stage'[c] = "read" /\ OutdateCopies(h)
    BY <1>1, <1>9 DEF Command, Prepare, Goto, TypeOK
  <2>2. /\ tmp' = [tmp EXCEPT ![h] = Outdated(tmp[h])]
        /\ \E content : file' = [file EXCEPT ![h] = content]
    BY <1>9 DEF Prepare
  <2>3. h \in Homes
    <3>1. IsUpdate(op[c]) /\ op[c] \in Commands /\ op[c].kind = "add"
      BY <1>9 DEF TypeInv, ConfigInv, ProcInv, TaskInv, Prepare
    <3>2. op[c] \in Updates
      BY <3>1, UpdateKinds
    <3> QED
      BY <3>1, <3>2 DEF Updates
  <2> HIDE DEF h
  <2>4. /\ \A g \in Homes : g # h => file'[g] = file[g] /\ tmp'[g] = tmp[g]
        /\ tmp'[h] = Outdated(tmp[h])
    BY <1>1, <2>2, <2>3 DEF TypeOK
  <2> QED
    BY <1>8, <2>1, <2>3, <2>4
<1>10. ASSUME NEW c \in Procs, SyncRename(c) PROVE SettingsInv'
  <2> DEFINE h == HomeOf(c)
             content == Published(tmp[h])
  <2>1. Command(c) /\ stage'[c] = "read" /\ h \in Homes
    BY <1>1, <1>2, <1>10 DEF Command, SyncRename, Goto, TypeOK
  <2>2. /\ tmp' = [tmp EXCEPT ![h] = None] /\ file' = [file EXCEPT ![h] = content]
        /\ Agrees(h, tmp[h]) \/ OutdateCopies(h)
    BY <1>10 DEF SyncRename
  <2>3. content.local = tmp[h].local
    BY DEF Published
  <2> HIDE DEF h, content
  <2>4. /\ \A g \in Homes : g # h => file'[g] = file[g] /\ tmp'[g] = tmp[g]
        /\ tmp'[h] = None /\ file'[h] = content
    BY <1>1, <2>1, <2>2 DEF TypeOK
  <2> QED
    BY <1>8, <2>1, <2>2, <2>3, <2>4 DEF Agrees
<1>11. ASSUME NEW c \in Procs, DeleteHome(c) PROVE SettingsInv'
  <2> DEFINE h == seen[c].profiles[op[c].profile].home
  <2>1. /\ Command(c) /\ stage'[c] = "idle"
        /\ file' = [file EXCEPT ![h] = None] /\ tmp' = [tmp EXCEPT ![h] = None]
    BY <1>1, <1>11 DEF Command, DeleteHome, Exit, TypeOK
  <2> HIDE DEF h
  <2>2. CASE h \in Homes
    <3>1. /\ \A g \in Homes : g # h => file'[g] = file[g] /\ tmp'[g] = tmp[g]
          /\ tmp'[h] = None /\ file'[h] = None
      BY <1>1, <2>1, <2>2 DEF TypeOK
    <3> QED
      BY <1>8, <2>1, <2>2, <3>1
  <2>3. CASE h \notin Homes
    <3>1. file' = file /\ tmp' = tmp
      BY <1>1, <2>1, <2>3 DEF TypeOK
    <3> QED
      BY <1>4, <2>1, <3>1 DEF files
  <2> QED
    BY <2>2, <2>3
<1>12. ASSUME NEW c \in Procs,
              \/ \E o \in Commands : StartCommand(c, o) \/ EditShared(c, o)
              \/ LockConfig(c) \/ Load(c) \/ SyncRenameFails(c) \/ SyncDone(c)
              \/ Commit(c) \/ Launch(c) \/ Fail(c)
       PROVE  SettingsInv'
  <2>1. Command(c) /\ UNCHANGED files
    BY <1>12 DEF Command, StartCommand, EditShared, Invoke, LockConfig, Load, SyncRenameFails,
                 SyncDone, Commit, Launch, Fail, files
  <2>2. \E s \in {"idle", "lock", "load", "prepare", "read", "cleanup", "commit", "launch", "delete"} :
          stage' = [stage EXCEPT ![c] = s]
    BY <1>12 DEF StartCommand, EditShared, Invoke, LockConfig, Load, SyncRenameFails,
                 SyncDone, Commit, Launch, Fail, Goto, Finish, Exit
  <2>3. stage'[c] \notin {"open", "write"}
    BY <1>1, <2>2 DEF TypeOK
  <2> QED
    BY <1>4, <2>1, <2>3
<1>13. ASSUME NEW h \in Homes, NEW settings \in SUBSET Servers, EditSettings(h, settings)
       PROVE  SettingsInv'
  <2>1. ASSUME NEW d \in Procs PROVE FaithfulCopy(d)'
    <3>1. /\ FaithfulCopy(d) /\ HomeOf(d)' = HomeOf(d) /\ stage'[d] = stage[d]
          /\ copy'[d] \in {copy[d], Outdated(copy[d])} /\ OutdateCopies(h)
          /\ \A g \in Homes : g # h => file'[g] = file[g]
      BY <1>13, EditLocal DEF SettingsInv, EditSettings
    <3>2. CASE stage[d] \in {"open", "write"}
      <4>1. HomeOf(d) \in Homes
        BY <1>2, <3>2
      <4> QED
        BY <3>1, <4>1, FaithfulOthers
    <3> QED
      BY <3>1, <3>2 DEF FaithfulCopy
  <2>2. \A g \in Homes : Faithful(g)'
    BY <1>13, EditLocal, FaithfulFiles DEF SettingsInv
  <2> QED
    BY <2>1, <2>2 DEF SettingsInv
\* The two ways a write can end.
<1>15. ASSUME NEW c \in Procs, stage[c] = "write", Command(c), stage'[c] \notin {"open", "write"},
              NEW x \in Copy, x = copy[c] \/ x.form = "mixed", WriteOut(c, x),
              link[c] = "file" => OutdateCopies(HomeOf(c)) \/ Agrees(HomeOf(c), x) \/ x.form = "mixed"
       PROVE  SettingsInv'
  <2>1. PICK h \in Homes : h = HomeOf(c)
    BY <1>2, <1>15
  <2>2. CASE link[c] = "tmp"
    <3>1. file' = file /\ tmp' = [tmp EXCEPT ![h] = x]
      BY <1>15, <2>1, <2>2 DEF WriteOut
    <3>2. tmp'[h] = x /\ \A g \in Homes : g # h => tmp'[g] = tmp[g]
      BY <1>1, <2>1, <3>1 DEF TypeOK
    <3>3. FaithfulCopy(c)
      BY DEF SettingsInv
    <3>4. x = copy[c] => Faithful(h)'
      BY <1>15, <2>1, <3>1, <3>2, <3>3 DEF FaithfulCopy, Faithful
    <3>5. x.form = "mixed" => Faithful(h)'
      BY <3>2 DEF Faithful
    <3>6. FaithfulCopy(c)'
      BY <1>15 DEF FaithfulCopy
    <3>7. \A g \in Homes : tmp'[g] = tmp[g] \/ Faithful(g)'
      BY <1>15, <3>2, <3>4, <3>5
    <3> QED
      BY <1>3, <1>15, <3>1, <3>6, <3>7
  <2>3. CASE link[c] = "file"
    <3>1. /\ file' = [file EXCEPT ![h] = Published(x)]
          /\ tmp' = IF Agrees(h, x) THEN tmp ELSE [tmp EXCEPT ![h] = Outdated(tmp[h])]
      BY <1>15, <2>1, <2>3 DEF WriteOut
    <3>2. /\ Published(x).local = x.local /\ Published(x).form = x.form
          /\ Agrees(h, x) => file[h] # None /\ file[h].form # "mixed" /\ file[h].local = x.local
      BY <1>15, PublishedType DEF Agrees
    <3>3. /\ file'[h] = Published(x) /\ (IF Agrees(h, x) THEN tmp'[h] = tmp[h] ELSE tmp'[h] = Outdated(tmp[h]))
          /\ \A g \in Homes : g # h => file'[g] = file[g] /\ tmp'[g] = tmp[g]
      BY <1>1, <2>1, <3>1 DEF TypeOK
    <3>4. OutdateCopies(h) \/ Agrees(h, x) \/ x.form = "mixed"
      BY <1>15, <2>1, <2>3
    <3> QED
      BY <1>8, <1>15, <2>1, <3>2, <3>3, <3>4
  <2>4. CASE UNCHANGED files
    BY <1>4, <1>15, <2>4
  <2> QED
    BY <1>15, <2>2, <2>3, <2>4 DEF WriteOut
<1>16. ASSUME NEW c \in Procs, SyncWrite(c) PROVE SettingsInv'
  <2>1. /\ Command(c) /\ stage[c] = "write" /\ stage'[c] = "rename"
        /\ link[c] = "file" => Agrees(HomeOf(c), copy[c]) \/ OutdateCopies(HomeOf(c))
    BY <1>1, <1>16 DEF Command, SyncWrite, Goto, TypeOK
  <2>2. PICK x \in Overwritten(Opened(c), copy[c]) : WriteOut(c, x)
    BY <1>16 DEF SyncWrite
  <2>3. copy[c] \in Copy
    BY <2>1 DEF TypeInv, TaskInv
  <2>4. x \in Copy /\ (x = copy[c] \/ x.form = "mixed")
    BY <2>3, WrittenType
  <2> QED
    BY <1>15, <2>1, <2>2, <2>4
<1>17. ASSUME NEW c \in Procs, SyncWriteFails(c) PROVE SettingsInv'
  <2>1. Command(c) /\ stage[c] = "write" /\ stage'[c] = "idle" /\ WriteOut(c, Void("mixed"))
    BY <1>1, <1>17 DEF Command, SyncWriteFails, Finish, Exit, TypeOK
  <2>2. Void("mixed") \in Copy /\ Void("mixed").form = "mixed"
    BY VoidType DEF Form
  <2> QED
    BY <1>15, <2>1, <2>2
<1>14. CASE UNCHANGED vars
  BY <1>14 DEF vars, proc, files, SettingsInv, Faithful, FaithfulCopy, HomeOf, EntryOf, Wanted
<1> QED
  BY <1>5, <1>6, <1>7, <1>9, <1>10, <1>11, <1>12, <1>13, <1>14, <1>16, <1>17 DEF Next, Command

(***************************************************************************)
(* A write or a rename of a synchronization changes the settings outside   *)
(* the managed block only if they were edited after it had read them, or   *)
(* if it leaves a config.toml that is torn.                                *)
(***************************************************************************)
LEMMA RenameKeeps ==
    ASSUME TypeInv, SettingsInv, NEW c \in Procs, SyncRename(c)
    PROVE  Keeps(HomeOf(c), tmp[HomeOf(c)].stale) \/ file'[HomeOf(c)].form # "whole"
<1> DEFINE h == HomeOf(c)
           content == Published(tmp[h])
<1>1. /\ TypeOK /\ stage[c] = "rename" /\ tmp[h] # None
      /\ file' = [file EXCEPT ![h] = content]
  BY DEF SyncRename, TypeInv
<1>2. h \in Homes
  <2>1. Loaded(c) /\ todo[c] # {}
    BY <1>1 DEF TypeInv, TaskInv, Loaded
  <2> QED
    BY <2>1, HomeKnown
<1>3. content.local = tmp[h].local /\ content.form = tmp[h].form
  BY DEF Published
<1>4. Faithful(h)
  BY <1>2 DEF SettingsInv
<1>5. tmp[h].form \in Form
  BY <1>1, <1>2 DEF TypeOK, Copy
<1> HIDE DEF content, h
<1>6. file'[h] = content
  BY <1>1, <1>2 DEF TypeOK
<1>7. Keeps(h, tmp[h].stale) \/ file'[h].form # "whole"
  BY <1>1, <1>3, <1>4, <1>6 DEF Faithful, Keeps
<1> QED
  BY <1>7 DEF h

LEMMA WriteKeeps ==
    ASSUME TypeInv, SettingsInv, NEW c \in Procs, SyncWrite(c)
    PROVE  Keeps(HomeOf(c), copy[c].stale) \/ file'[HomeOf(c)].form # "whole"
<1> DEFINE h == HomeOf(c)
<1>1. TypeOK /\ stage[c] = "write" /\ copy[c] \in Copy
  BY DEF SyncWrite, TypeInv, TaskInv
<1>2. h \in Homes
  <2>1. Loaded(c) /\ todo[c] # {}
    BY <1>1 DEF TypeInv, TaskInv, Loaded
  <2> QED
    BY <2>1, HomeKnown
<1>3. PICK x \in Overwritten(Opened(c), copy[c]) : WriteOut(c, x)
  BY DEF SyncWrite
<1>4. x \in Copy /\ (x = copy[c] \/ x.form = "mixed")
  BY <1>1, <1>3, WrittenType
<1>5. FaithfulCopy(c)
  BY DEF SettingsInv
<1>6. CASE file' = file
  BY <1>6 DEF Keeps
<1>7. CASE file' = [file EXCEPT ![h] = Published(x)]
  <2>1. file'[h].local = x.local /\ file'[h].form = x.form
    BY <1>1, <1>2, <1>4, <1>7, PublishedType DEF TypeOK
  <2> QED
    BY <1>1, <1>4, <1>5, <2>1 DEF FaithfulCopy, Keeps
<1> QED
  BY <1>3, <1>6, <1>7 DEF WriteOut, files

THEOREM SettingsAreKept == Spec => SyncKeepsSettings
<1>1. Init => SettingsInv
  BY DEF Init, SettingsInv, Faithful, FaithfulCopy
<1>2. TypeInv /\ SettingsInv /\ [Next]_vars =>
        [\A c \in Procs :
           LET h == HomeOf(c)
           IN /\ SyncWrite(c) => Keeps(h, copy[c].stale) \/ file'[h].form # "whole"
              /\ SyncRename(c) => Keeps(h, tmp[h].stale) \/ file'[h].form # "whole"]_vars
  BY RenameKeeps, WriteKeeps
<1> QED
  BY <1>1, <1>2, InitTypes, StepTypes, StepSettings, PTL DEF Spec, SyncKeepsSettings

-----------------------------------------------------------------------------
(***************************************************************************)
(* Drift.  As long as nobody else touches what a command synchronizes, its *)
(* profile is in line with its home step by step: the copy it writes, the  *)
(* temporary file it renames, the config.toml it leaves.                   *)
(***************************************************************************)
InLine(content, block, x) == content # None /\ x.local = content.local /\ x.block = block

Settled(c) ==
    LET p       == op[c].profile
        entry   == EntryOf(c, p)
        content == file[entry.home]
        block   == Inherited(shared, entry.excluded, content)
    IN  /\ op[c].kind = "run" => /\ p \in DOMAIN config.profiles
                                 /\ config.profiles[p] = seen[c].profiles[p]
        /\ stage[c] \in {"open", "write"} => InLine(content, block, copy[c])
        /\ stage[c] = "write" => /\ link[c] = "tmp" /\ tmp[entry.home] # None
                                 /\ tmp[entry.home].form = "empty"
        /\ stage[c] = "rename" => InLine(content, block, tmp[entry.home])
        /\ stage[c] \in {"commit", "launch"} \/ (stage[c] = "read" /\ todo[c] = {})
             => InLine(content, block, content)

DriftInv(c) ==
    Loaded(c) /\ Watching(op[c]) =>
        /\ todo[c] \subseteq {op[c].profile}
        /\ op[c].profile \in DOMAIN Wanted(c).profiles
        /\ stage[c] \in {"prepare", "open", "write", "rename"} => todo[c] = {op[c].profile}
        /\ ~disturbed[c] => Settled(c)

LEMMA WatchedHome ==
    ASSUME TypeInv, NEW c \in Procs, DriftInv(c), Loaded(c), Watching(op[c])
    PROVE  /\ EntryOf(c, op[c].profile).home \in Homes
           /\ todo[c] # {} => /\ todo[c] = {op[c].profile} /\ First(todo[c]) = op[c].profile
                              /\ HomeOf(c) = EntryOf(c, op[c].profile).home
<1>1. EntryOf(c, op[c].profile) \in Entry
  BY WantedType DEF TypeInv, DriftInv
<1>2. todo[c] # {} => First(todo[c]) = op[c].profile
  BY HomeKnown DEF DriftInv
<1> QED
  BY <1>1, <1>2 DEF Entry, HomeOf, DriftInv

\* Somebody else's step.
LEMMA OthersDrift ==
    ASSUME TypeInv, NEW d \in Procs, DriftInv(d),
           stage'[d] = stage[d], op'[d] = op[d], seen'[d] = seen[d], todo'[d] = todo[d],
           copy'[d] \in {copy[d], Outdated(copy[d])},
           stage[d] = "write" /\ link[d] = "tmp" => link'[d] = "tmp" \/ tmp'[HomeOf(d)] = None,
           disturbed'[d] <=> /\ stage'[d] # "idle" /\ Watching(op'[d])
                             /\ disturbed[d] \/ (Loaded(d) /\ Touched(d))
    PROVE  DriftInv(d)'
<1> SUFFICES ASSUME Loaded(d), Watching(op[d]) PROVE DriftInv(d)'
  BY DEF DriftInv, Loaded
<1>1. Wanted(d)' = Wanted(d) /\ \A p : EntryOf(d, p)' = EntryOf(d, p)
  BY DEF Wanted, EntryOf
<1>2. ASSUME ~disturbed'[d] PROVE Settled(d)'
  <2>1. ~disturbed[d] /\ ~Touched(d) /\ Settled(d)
    BY <1>2 DEF Loaded, DriftInv
  <2> DEFINE p == op[d].profile
             h == EntryOf(d, p).home
  <2>2. /\ shared' = shared /\ file'[h] = file[h] /\ tmp'[h] = tmp[h]
        /\ op[d].kind = "run" => p \in DOMAIN config'.profiles /\ config'.profiles[p] = seen[d].profiles[p]
    BY <2>1 DEF Touched, IsUpdate
  <2>5. stage[d] = "write" => link'[d] = "tmp"
    <3>1. stage[d] = "write" => HomeOf(d) = h
      BY <1>2, WatchedHome DEF TypeInv, TaskInv
    <3> QED
      BY <2>1, <2>2, <3>1 DEF Settled
  <2>3. stage[d] \in {"open", "write"} => copy'[d].local = copy[d].local /\ copy'[d].block = copy[d].block
    <3>1. stage[d] \in {"open", "write"} => copy[d] \in Copy
      BY DEF TypeInv, TaskInv
    <3> QED
      BY <3>1, OutdatedType
  <2>4. EntryOf(d, op[d].profile)' = EntryOf(d, p)
    BY <1>1
  <2> QED
    BY <2>1, <2>2, <2>3, <2>4, <2>5 DEF Settled, InLine, Inherited
<1> QED
  BY <1>1, <1>2 DEF DriftInv

\* A step of the command itself.
LEMMA OwnDrift ==
    ASSUME TypeInv, TypeInv', NEW c \in Procs, DriftInv(c), Command(c),
           disturbed'[c] <=> /\ stage'[c] # "idle" /\ Watching(op'[c]) /\ disturbed[c]
    PROVE  DriftInv(c)'
<1> DEFINE p == op[c].profile
           entry == EntryOf(c, p)
           h == entry.home
           content == file[h]
           block == Inherited(shared, entry.excluded, content)
<1>1. /\ TypeOK /\ ProcInv(c) /\ TaskInv(c) /\ config \in Configs
      /\ op[c] # None => op[c] \in Commands
  BY DEF TypeInv, TypeOK, ConfigInv
<1>2. CASE stage'[c] \in {"idle", "lock", "load"} \/ ~Watching(op'[c])
  BY <1>2 DEF DriftInv, Loaded
<1>3. CASE LockConfig(c) /\ Watching(op[c])
  <2>1. IsUpdate(op[c]) /\ op[c].kind \in {"add", "exclude", "include"}
    BY <1>1, <1>3 DEF LockConfig, ProcInv, Watching, IsUpdate
  <2>2. /\ stage'[c] \in {"prepare", "read"} /\ seen'[c] = config /\ op' = op
        /\ todo'[c] = {p} /\ Allowed(config, op[c])
    BY <1>1, <1>3, <2>1 DEF LockConfig, TypeOK
  <2>3. Wanted(c)' = Apply(config, op[c])
    BY <2>1, <2>2 DEF Wanted
  <2>4. p \in DOMAIN Apply(config, op[c]).profiles
    BY <1>1, <2>1, <2>2, AllowedProfile
  <2> QED
    BY <2>1, <2>2, <2>3, <2>4 DEF DriftInv, Settled
<1>4. CASE Load(c) /\ Watching(op[c])
  <2>1. ~IsUpdate(op[c]) /\ op[c].kind = "run" /\ op[c] \in Commands
    BY <1>1, <1>4 DEF Load, ProcInv, Watching, IsUpdate
  <2>2. p # None
    <3>1. op[c] \in AllCommands
      BY <2>1, CommandAssumption
    <3>2. p \in Profiles
      BY <2>1, <3>1 DEF AllCommands, Updates
    <3> QED
      BY <3>2, ProfileNames
  <2>3. /\ stage'[c] = "read" /\ seen'[c] = config /\ op' = op /\ config' = config
        /\ todo'[c] = {p} /\ p \in DOMAIN config.profiles
    BY <1>1, <1>4, <2>1, <2>2 DEF Load, TypeOK
  <2>4. Wanted(c)' = config
    BY <2>1, <2>3 DEF Wanted
  <2> QED
    BY <2>3, <2>4 DEF DriftInv, Settled
\* From here on the profile and its home are known.
<1>5. ASSUME Loaded(c), Watching(op[c]), op' = op, seen' = seen, config' = config, shared' = shared,
             stage'[c] # "idle"
      PROVE  /\ h \in Homes /\ Wanted(c)' = Wanted(c) /\ EntryOf(c, op[c].profile)' = entry
             /\ ~disturbed'[c] => ~disturbed[c] /\ Settled(c)
             /\ p \in DOMAIN Wanted(c).profiles
             /\ todo[c] # {} => /\ todo[c] = {p} /\ First(todo[c]) = p /\ HomeOf(c) = h
  <2>1. Wanted(c)' = Wanted(c) /\ EntryOf(c, op[c].profile)' = entry
    BY <1>5 DEF Wanted, EntryOf
  <2> QED
    BY <1>5, <2>1, WatchedHome DEF DriftInv
<1>6. CASE Prepare(c) /\ Watching(op[c])
  <2>1. /\ Loaded(c) /\ op' = op /\ seen' = seen /\ config' = config /\ shared' = shared
        /\ stage[c] = "prepare" /\ stage'[c] = "read" /\ todo' = todo /\ op[c].kind = "add"
    BY <1>1, <1>6 DEF Prepare, Goto, Loaded, TypeOK, TaskInv
  <2>2. todo[c] = {p}
    BY <1>6, <2>1 DEF DriftInv
  <2> QED
    BY <1>5, <1>6, <2>1, <2>2 DEF DriftInv, Settled
<1>7. CASE SyncRead(c) /\ Watching(op[c])
  <2>1. /\ Loaded(c) /\ op' = op /\ seen' = seen /\ config' = config /\ shared' = shared
        /\ stage[c] = "read" /\ stage'[c] \in {"read", "open"} /\ todo[c] # {} /\ file' = file
    BY <1>1, <1>7 DEF SyncRead, Goto, Loaded, TypeOK, files
  <2>2. /\ h \in Homes /\ Wanted(c)' = Wanted(c) /\ EntryOf(c, op[c].profile)' = entry
        /\ ~disturbed'[c] => Settled(c)
        /\ p \in DOMAIN Wanted(c).profiles
        /\ todo[c] = {p} /\ First(todo[c]) = p /\ HomeOf(c) = h
    BY <1>5, <1>7, <2>1
  <2>3. content # None
    BY <1>7, <2>2 DEF SyncRead
  <2>4. CASE stage'[c] = "open"
    <3>1. /\ copy' = [copy EXCEPT ![c] = Rendered(content, block)]
          /\ stage'[c] = "open" /\ todo' = todo
      BY <1>1, <1>7, <2>2, <2>4 DEF SyncRead, Goto, TypeOK
    <3>2. copy'[c].local = content.local /\ copy'[c].block = block
      BY <1>1, <3>1 DEF Rendered, TypeOK
    <3>3. InLine(content, block, copy'[c])
      BY <2>3, <3>2 DEF InLine
    <3> QED
      BY <2>1, <2>2, <3>1, <3>3 DEF DriftInv, Settled
  <2>5. CASE stage'[c] = "read"
    <3>1. stage'[c] = "read" /\ todo'[c] = {} /\ FALSE \in Changed(content, block)
      BY <1>1, <1>7, <2>2, <2>5 DEF SyncRead, Goto, TypeOK
    <3>2. InLine(content, block, content)
      BY <2>3, <3>1 DEF InLine, Changed
    <3> QED
      BY <2>1, <2>2, <3>1, <3>2 DEF DriftInv, Settled
  <2> QED
    BY <2>1, <2>4, <2>5
<1>18. CASE SyncOpen(c) /\ Watching(op[c])
  <2>1. /\ Loaded(c) /\ op' = op /\ seen' = seen /\ config' = config /\ shared' = shared /\ file' = file
        /\ stage[c] = "open" /\ stage'[c] = "write" /\ todo' = todo /\ copy' = copy
        /\ link'[c] = "tmp" /\ tmp' = [tmp EXCEPT ![HomeOf(c)] = Void("empty")]
    BY <1>1, <1>18 DEF SyncOpen, Goto, Loaded, TypeOK
  <2>2. todo[c] = {p}
    BY <1>18, <2>1 DEF DriftInv
  <2>3. /\ h \in Homes /\ Wanted(c)' = Wanted(c) /\ EntryOf(c, op[c].profile)' = entry
        /\ ~disturbed'[c] => Settled(c)
        /\ p \in DOMAIN Wanted(c).profiles /\ HomeOf(c) = h
    BY <1>5, <1>18, <2>1, <2>2
  <2>4. tmp'[h] = Void("empty") /\ Void("empty") # None /\ Void("empty").form = "empty"
    BY <1>1, <2>1, <2>3, VoidType DEF TypeOK, Form
  <2> QED
    BY <2>1, <2>2, <2>3, <2>4 DEF DriftInv, Settled
<1>8. CASE SyncWrite(c) /\ Watching(op[c])
  <2>1. /\ Loaded(c) /\ op' = op /\ seen' = seen /\ config' = config /\ shared' = shared
        /\ stage[c] = "write" /\ stage'[c] = "rename" /\ todo' = todo
    BY <1>1, <1>8 DEF SyncWrite, Goto, Loaded, TypeOK
  <2>2. todo[c] = {p}
    BY <1>8, <2>1 DEF DriftInv
  <2>3. /\ h \in Homes /\ Wanted(c)' = Wanted(c) /\ EntryOf(c, op[c].profile)' = entry
        /\ ~disturbed'[c] => Settled(c)
        /\ p \in DOMAIN Wanted(c).profiles /\ HomeOf(c) = h
    BY <1>5, <1>8, <2>1, <2>2
  <2>4. ASSUME ~disturbed'[c] PROVE file' = file /\ tmp'[h] = copy[c]
    <3>1. link[c] = "tmp" /\ Opened(c).form = "empty"
      BY <2>1, <2>3, <2>4 DEF Settled, Opened
    <3>2. PICK x \in Overwritten(Opened(c), copy[c]) : WriteOut(c, x)
      BY <1>8 DEF SyncWrite
    <3>3. x = copy[c]
      BY <1>1, <2>1, <3>1, <3>2, WrittenType DEF TaskInv
    <3>4. file' = file /\ tmp' = [tmp EXCEPT ![h] = copy[c]]
      BY <2>3, <3>1, <3>2, <3>3 DEF WriteOut
    <3> QED
      BY <1>1, <2>3, <3>4 DEF TypeOK
  <2> QED
    BY <2>1, <2>2, <2>3, <2>4 DEF DriftInv, Settled
<1>9. CASE SyncRename(c) /\ Watching(op[c])
  <2> DEFINE new == Published(tmp[h])
  <2>1. /\ Loaded(c) /\ op' = op /\ seen' = seen /\ config' = config /\ shared' = shared
        /\ stage[c] = "rename" /\ stage'[c] = "read"
    BY <1>1, <1>9 DEF SyncRename, Goto, Loaded, TypeOK
  <2>2. todo[c] = {p}
    BY <1>9, <2>1 DEF DriftInv
  <2>3. /\ h \in Homes /\ Wanted(c)' = Wanted(c) /\ EntryOf(c, op[c].profile)' = entry
        /\ ~disturbed'[c] => Settled(c)
        /\ p \in DOMAIN Wanted(c).profiles /\ HomeOf(c) = h /\ First(todo[c]) = p
    BY <1>5, <1>9, <2>1, <2>2
  <2>4. tmp[h] # None /\ file' = [file EXCEPT ![h] = new] /\ todo' = [todo EXCEPT ![c] = todo[c] \ {p}]
    BY <1>9, <2>3 DEF SyncRename
  <2>5. file'[h] = new /\ todo'[c] = {}
    BY <1>1, <2>2, <2>3, <2>4 DEF TypeOK
  <2>6. new # None /\ new.local = tmp[h].local /\ new.block = tmp[h].block
    <3>1. tmp[h] \in Copy
      BY <1>1, <2>3, <2>4 DEF TypeOK
    <3> QED
      BY <3>1, PublishedType
  <2>7. Settled(c) => InLine(new, Inherited(shared, entry.excluded, new), new)
    BY <2>1, <2>6 DEF Settled, InLine, Inherited
  <2> QED
    BY <2>1, <2>3, <2>5, <2>7 DEF DriftInv, Settled
<1>10. CASE SyncRenameFails(c) /\ Watching(op[c])
  <2>1. /\ Loaded(c) /\ op' = op /\ seen' = seen /\ config' = config /\ shared' = shared
        /\ stage'[c] = "cleanup" /\ todo' = todo
    BY <1>1, <1>10 DEF SyncRenameFails, Goto, Loaded, TypeOK
  <2> QED
    BY <1>5, <1>10, <2>1 DEF DriftInv, Settled
<1>11. CASE SyncDone(c) /\ Watching(op[c])
  <2>1. /\ Loaded(c) /\ stage[c] = "read" /\ todo[c] = {} /\ config' = config /\ shared' = shared
        /\ file' = file /\ tmp' = tmp
    BY <1>11 DEF SyncDone, Loaded, files
  <2>2. CASE stage'[c] # "idle"
    <3>1. op' = op /\ seen' = seen /\ todo' = todo /\ stage'[c] \in {"commit", "launch"}
      BY <1>1, <1>11, <2>2 DEF SyncDone, Goto, Finish, Exit, TypeOK
    <3> QED
      BY <1>5, <1>11, <2>1, <2>2, <3>1 DEF DriftInv, Settled
  <2> QED
    BY <1>2, <2>2
<1>12. CASE Goto(c, "delete") /\ op[c].kind = "remove"
  BY <1>2, <1>12 DEF Goto, Watching
<1>13. ASSUME NEW o \in Commands, Invoke(c, o) PROVE stage'[c] \in {"lock", "load"}
  BY <1>1, <1>13 DEF Invoke, TypeOK
<1>14. Finish(c) \/ Exit(c) => stage'[c] = "idle"
  BY <1>1 DEF Finish, Exit, TypeOK
<1>15. ~Watching(op[c]) /\ op' = op => ~Watching(op'[c])
  OBVIOUS
<1>16. CASE LockConfig(c) \/ Load(c) \/ Prepare(c) \/ SyncRead(c) \/ SyncOpen(c) \/ SyncWrite(c)
            \/ SyncRename(c) \/ SyncRenameFails(c)
  <2>1. op' = op
    BY <1>16 DEF LockConfig, Load, Prepare, SyncRead, SyncOpen, SyncWrite, SyncRename, SyncRenameFails, Goto
  <2> QED
    BY <1>2, <1>3, <1>4, <1>6, <1>7, <1>8, <1>9, <1>10, <1>15, <1>16, <1>18, <2>1
<1>17. CASE SyncDone(c)
  BY <1>2, <1>11, <1>14, <1>15, <1>17 DEF SyncDone, Goto
<1> QED
  BY <1>2, <1>12, <1>13, <1>14, <1>16, <1>17
     DEF Command, StartCommand, EditShared, SyncWriteFails, SyncCleanup, Commit, DeleteHome, Launch, Fail

LEMMA StepDrift ==
    ASSUME TypeInv, \A c \in Procs : DriftInv(c), [Next]_vars
    PROVE  \A c \in Procs : DriftInv(c)'
<1>1. TypeInv'
  BY StepTypes
<1>2. ASSUME NEW c \in Procs, Command(c), Watch(Procs \ {c}), NEW d \in Procs PROVE DriftInv(d)'
  <2>1. disturbed'[d] <=> /\ stage'[d] # "idle" /\ Watching(op'[d])
                          /\ disturbed[d] \/ (d # c /\ Loaded(d) /\ Touched(d))
    BY <1>2 DEF Watch
  <2>2. CASE d = c
    BY <1>1, <1>2, <2>1, <2>2, OwnDrift
  <2>3. CASE d # c
    BY <1>2, <2>1, <2>3, CommandLocal, OthersDrift
  <2> QED
    BY <2>2, <2>3
<1>3. ASSUME NEW h \in Homes, NEW settings \in SUBSET Servers, EditSettings(h, settings), Watch(Procs),
             NEW d \in Procs
      PROVE  DriftInv(d)'
  <2>1. disturbed'[d] <=> /\ stage'[d] # "idle" /\ Watching(op'[d])
                          /\ disturbed[d] \/ (Loaded(d) /\ Touched(d))
    BY <1>3 DEF Watch
  <2> QED
    BY <1>3, <2>1, EditLocal, OthersDrift
<1>4. CASE UNCHANGED vars
  BY <1>4 DEF vars, proc, files, DriftInv, Settled, Loaded, Wanted, EntryOf
<1> QED
  BY <1>2, <1>3, <1>4 DEF Next

(***************************************************************************)
(* README.md:352: Codex starts, and add, exclude and include save, with    *)
(* the profile in line with its home, unless others interfere.             *)
(***************************************************************************)
THEOREM ProfilesAreSynced == Spec => []SyncsBeforeUse
<1> DEFINE Inv == TypeInv /\ \A c \in Procs : DriftInv(c)
<1>1. Init => Inv
  BY InitTypes DEF Init, DriftInv, Loaded
<1>2. Inv /\ [Next]_vars => Inv'
  BY StepTypes, StepDrift
<1>3. Inv => SyncsBeforeUse
  <2> SUFFICES ASSUME Inv, NEW c \in Procs, stage[c] \in {"launch", "commit"}, Watching(op[c]),
                      ~disturbed[c]
               PROVE  LET entry == EntryOf(c, op[c].profile)
                          content == file[entry.home]
                      IN /\ content # None
                         /\ content.block = Inherited(shared, entry.excluded, content)
                         /\ op[c].kind = "run" => entry = config.profiles[op[c].profile]
    BY DEF SyncsBeforeUse
  <2>1. Settled(c)
    BY DEF DriftInv, Loaded
  <2>2. op[c].kind = "run" => Wanted(c) = seen[c]
    BY DEF Wanted, IsUpdate
  <2> QED
    BY <2>1, <2>2 DEF Settled, InLine, EntryOf
<1> HIDE DEF Inv
<1> QED
  BY <1>1, <1>2, <1>3, PTL DEF Spec
=============================================================================
