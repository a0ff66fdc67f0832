------------------------ MODULE DaemonManagerProofs ------------------------
(***************************************************************************)
(* The files of the daemon manager agree, and codexm loses no daemon but   *)
(* to a crash, for any number of commands, daemons and crashes.            *)
(***************************************************************************)
EXTENDS DaemonManager, FiniteSetTheorems, TLAPS

Locked(c) == stage[c] \in StartStage \cup StopStage

(***************************************************************************)
(* Only the holder of the lock is on its way through Start or Stop.        *)
(***************************************************************************)
LockInv == \A c \in Commands : Locked(c) <=> lock = c

(***************************************************************************)
(* What Start and Stop know about the two files and the daemon.            *)
(***************************************************************************)
HolderInv ==
    \A c \in Commands :
        /\ stage[c] \in {"token", "spawn", "record"} => state = None
        /\ stage[c] \in {"spawn", "record", "wait"} => token = target[c]
        /\ stage[c] \in {"wait", "loaded", "threads", "signal", "stopping"} => state = target[c]
        /\ stage[c] = "spawn" => daemon[target[c]] = "unborn"
        /\ stage[c] \in {"record", "wait", "connect"} => daemon[target[c]] # "unborn"

Ended(d) == daemon[d] \in {"killed", "gone"}

(***************************************************************************)
(* A daemon disappears from state.json only once it is dead or as good as  *)
(* dead, so a run that was sent to it finds it recorded or ended.          *)
(***************************************************************************)
FileInv ==
    /\ state # None => token = state /\ daemon[state] # "unborn"
    /\ \A c \in Commands : stage[c] = "connect" => state = target[c] \/ Ended(target[c])

DaemonInv == TypeOK /\ LockInv /\ HolderInv /\ FileInv

LEMMA InitDaemon == Init => DaemonInv
<1> SUFFICES ASSUME Init PROVE DaemonInv
  OBVIOUS
<1>1. TypeOK
  BY DEF Init, TypeOK, Life, Stage
<1>2. LockInv
  BY NoneAssumption DEF Init, LockInv, Locked, StartStage, StopStage
<1>3. HolderInv /\ FileInv
  BY DEF Init, HolderInv, FileInv
<1> QED
  BY <1>1, <1>2, <1>3 DEF DaemonInv

LEMMA CommandType ==
    ASSUME TypeOK, NEW c \in Commands, Command(c)
    PROVE  TypeOK'
<1> USE NoneAssumption DEF TypeOK, files, processes, command, Goto, Return, Lock, Kill,
                           Stage, StartStage, StopStage, Life
<1>1. CASE StartLock(c)
  BY <1>1 DEF StartLock
<1>2. CASE \E forced \in BOOLEAN : StopLock(c, forced)
  BY <1>2 DEF StopLock
<1>3. CASE StartFindsHealthy(c)
  BY <1>3 DEF StartFindsHealthy, MatchesState
<1>4. CASE StartFindsUnhealthy(c)
  BY <1>4 DEF StartFindsUnhealthy
<1>32. CASE StartFindsNone(c)
  BY <1>32 DEF StartFindsNone
<1>5. CASE \E d \in Daemons : StartWriteToken(c, d)
  BY <1>5 DEF StartWriteToken
<1>6. CASE StartSpawn(c)
  BY <1>6 DEF StartSpawn
<1>21. CASE StartSpawnFails(c)
  BY <1>21 DEF StartSpawnFails
<1>7. CASE StartWriteState(c)
  BY <1>7 DEF StartWriteState
<1>8. CASE StartRecordFails(c)
  BY <1>8 DEF StartRecordFails
<1>9. CASE StartReady(c)
  BY <1>9 DEF StartReady
<1>10. CASE StartFails(c)
  BY <1>10 DEF StartFails
<1>22. CASE StartCancelled(c)
  BY <1>22 DEF StartCancelled
<1>11. CASE RunConnect(c)
  BY <1>11 DEF RunConnect
<1>12. CASE StopFindsNone(c)
  BY <1>12 DEF StopFindsNone
<1>13. CASE StopReadState(c)
  BY <1>13 DEF StopReadState, MatchesState
<1>14. CASE StopDialFails(c)
  BY <1>14 DEF StopDialFails
<1>15. CASE StopListLoaded(c)
  BY <1>15 DEF StopListLoaded
<1>16. CASE StopListThreads(c)
  <2>1. stage[c] = "threads" /\ UNCHANGED <<files, processes>>
    BY <1>16 DEF StopListThreads
  <2>2. CASE Goto(c, "signal") /\ UNCHANGED <<target, loaded>>
    BY <2>1, <2>2
  <2>3. CASE Return(c, "idle") /\ UNCHANGED crashes
    BY <2>1, <2>3
  <2> QED
    BY <1>16, <2>2, <2>3, Zenon DEF StopListThreads
<1>17. CASE StopSignal(c)
  BY <1>17 DEF StopSignal
<1>18. CASE StopDone(c)
  BY <1>18 DEF StopDone
<1>34. CASE StopRefused(c)
  BY <1>34 DEF StopRefused
<1>35. CASE StopCancelled(c)
  BY <1>35 DEF StopCancelled
<1>19. CASE StopKills(c)
  BY <1>19 DEF StopKills
<1>20. CASE Crash(c)
  BY <1>20 DEF Crash
<1>31. CASE StartTokenFails(c)
  BY <1>31 DEF StartTokenFails
<1>33. CASE StopSignalFails(c)
  BY <1>33 DEF StopSignalFails
<1> QED
  BY <1>1, <1>2, <1>3, <1>4, <1>5, <1>6, <1>7, <1>8, <1>9, <1>10, <1>11, <1>12, <1>13, <1>14,
     <1>15, <1>16, <1>17, <1>18, <1>19, <1>20, <1>21, <1>22, <1>31, <1>32, <1>33,
     <1>34, <1>35
     DEF Command, Start, Stop

LEMMA ProcessType ==
    ASSUME TypeOK, NEW d \in Daemons, Process(d)
    PROVE  TypeOK'
<1> USE DEF TypeOK, files, processes, command, Life, Become
<1>1. CASE DaemonReady(d)
  BY <1>1 DEF DaemonReady
<1>2. CASE DaemonStuck(d)
  BY <1>2 DEF DaemonStuck
<1>3. CASE DaemonExit(d)
  BY <1>3 DEF DaemonExit
<1>4. CASE PidReused(d)
  BY <1>4 DEF PidReused
<1>5. CASE StrangerExits(d)
  BY <1>5 DEF StrangerExits
<1>6. CASE \E next \in {"none", "loaded", "active"} : ThreadChanges(d, next)
  BY <1>6 DEF ThreadChanges
<1> QED
  BY <1>1, <1>2, <1>3, <1>4, <1>5, <1>6 DEF Process

(***************************************************************************)
(* Each step of a command keeps the rest of the invariant.                 *)
(***************************************************************************)
LEMMA CommandInv ==
    ASSUME DaemonInv, TypeOK', NEW c \in Commands, Command(c)
    PROVE  LockInv' /\ HolderInv' /\ FileInv'
<1> USE NoneAssumption DEF DaemonInv, TypeOK, LockInv, HolderInv, FileInv, Locked, Ended,
        files, processes, Goto, Return, Lock, Kill, StartStage, StopStage, Running, Life
<1>1. CASE StartLock(c)
  BY <1>1 DEF StartLock
<1>2. CASE StartFindsHealthy(c)
  BY <1>2 DEF StartFindsHealthy, MatchesState
<1>3. CASE StartFindsUnhealthy(c)
  BY <1>3 DEF StartFindsUnhealthy, MatchesState
<1>4. CASE StartFindsNone(c)
  BY <1>4 DEF StartFindsNone, MatchesState
<1>5. CASE StartSpawn(c)
  BY <1>5 DEF StartSpawn
<1>6. CASE StartSpawnFails(c)
  BY <1>6 DEF StartSpawnFails
<1>7. CASE StartWriteState(c)
  BY <1>7 DEF StartWriteState
<1>8. CASE StartRecordFails(c)
  BY <1>8 DEF StartRecordFails
<1>9. CASE StartReady(c)
  BY <1>9 DEF StartReady, MatchesState
<1>10. CASE StartFails(c)
  BY <1>10 DEF StartFails
<1>11. CASE StartCancelled(c)
  BY <1>11 DEF StartCancelled
<1>12. CASE RunConnect(c)
  BY <1>12 DEF RunConnect
<1>13. CASE StopFindsNone(c)
  BY <1>13 DEF StopFindsNone, MatchesState
<1>14. CASE StopReadState(c)
  BY <1>14 DEF StopReadState, MatchesState
<1>15. CASE StopDialFails(c)
  BY <1>15 DEF StopDialFails
<1>16. CASE StopListLoaded(c)
  BY <1>16 DEF StopListLoaded
<1>17. CASE StopListThreads(c)
  BY <1>17 DEF StopListThreads
<1>18. CASE StopSignal(c)
  BY <1>18 DEF StopSignal
<1>19. CASE StopDone(c)
  BY <1>19 DEF StopDone, ProcessRunning
<1>20. CASE StopRefused(c)
  BY <1>20 DEF StopRefused
<1>21. CASE StopKills(c)
  BY <1>21 DEF StopKills
<1>22. CASE StopCancelled(c)
  BY <1>22 DEF StopCancelled
<1>23. CASE Crash(c)
  BY <1>23 DEF Crash
<1>24. CASE \E forced \in BOOLEAN : StopLock(c, forced)
  BY <1>24 DEF StopLock
<1>25. CASE \E d \in Daemons : StartWriteToken(c, d)
  BY <1>25 DEF StartWriteToken
<1>31. CASE StartTokenFails(c) \/ StopSignalFails(c)
  BY <1>31 DEF StartTokenFails, StopSignalFails
<1> QED
  BY <1>1, <1>2, <1>3, <1>4, <1>5, <1>6, <1>7, <1>8, <1>9, <1>10, <1>11, <1>12, <1>13, <1>14, <1>15, <1>16, <1>17, <1>18, <1>19, <1>20, <1>21, <1>22, <1>23, <1>24, <1>25, <1>31
     DEF Command, Start, Stop

(***************************************************************************)
(* The processes and the kernel never touch the files; a daemon that has   *)
(* been started never becomes unborn again, and one that ended stays so.   *)
(***************************************************************************)
LEMMA ProcessInv ==
    ASSUME DaemonInv, NEW d \in Daemons, Process(d)
    PROVE  LockInv' /\ HolderInv' /\ FileInv'
<1> USE NoneAssumption DEF DaemonInv, TypeOK, LockInv, HolderInv, FileInv, Locked, Ended,
        files, command, StartStage, StopStage, Running, Life, Become
<1>1. CASE DaemonReady(d)
  BY <1>1 DEF DaemonReady
<1>2. CASE DaemonStuck(d)
  BY <1>2 DEF DaemonStuck
<1>3. CASE DaemonExit(d)
  BY <1>3 DEF DaemonExit
<1>4. CASE PidReused(d)
  BY <1>4 DEF PidReused
<1>5. CASE StrangerExits(d)
  BY <1>5 DEF StrangerExits
<1>6. CASE \E next \in {"none", "loaded", "active"} : ThreadChanges(d, next)
  BY <1>6 DEF ThreadChanges
<1> QED
  BY <1>1, <1>2, <1>3, <1>4, <1>5, <1>6 DEF Process

LEMMA StepDaemon == DaemonInv /\ [Next]_vars => DaemonInv'
<1> SUFFICES ASSUME DaemonInv, [Next]_vars PROVE DaemonInv'
  OBVIOUS
<1>1. ASSUME NEW c \in Commands, Command(c) PROVE DaemonInv'
  <2>1. TypeOK'
    BY <1>1, CommandType DEF DaemonInv
  <2> QED
    BY <1>1, <2>1, CommandInv DEF DaemonInv
<1>2. ASSUME NEW d \in Daemons, Process(d) PROVE DaemonInv'
  BY <1>2, ProcessType, ProcessInv DEF DaemonInv
<1>3. CASE UNCHANGED vars
  BY <1>3 DEF vars, files, processes, command, DaemonInv, TypeOK, LockInv, HolderInv, FileInv,
              Locked, Ended
<1> QED
  BY <1>1, <1>2, <1>3 DEF Next

(***************************************************************************)
(* At every stage of a command, what it knows of the lock, the files and   *)
(* the daemon is so.                                                       *)
(***************************************************************************)
THEOREM DaemonInvariant == Spec => []DaemonInv
<1> QED
  BY InitDaemon, StepDaemon, PTL DEF Spec

(***************************************************************************)
(* Every variable keeps its type.                                          *)
(***************************************************************************)
THEOREM DaemonTypeCorrect == Spec => []TypeOK
<1>1. DaemonInv => TypeOK
  BY DEF DaemonInv
<1> QED
  BY <1>1, DaemonInvariant, PTL

(***************************************************************************)
(* The token on disk is that of the daemon in state.json.                  *)
(***************************************************************************)
THEOREM TokenAgrees == Spec => []TokenFitsState
<1>1. DaemonInv => TokenFitsState
  BY DEF DaemonInv, FileInv, TokenFitsState
<1> QED
  BY <1>1, DaemonInvariant, PTL

(***************************************************************************)
(* `codexm run` connects with the token of the daemon Start chose for it,  *)
(* however many others start and stop daemons in between, unless that      *)
(* daemon has ended.                                                       *)
(***************************************************************************)
THEOREM RunConnectsToItsDaemon == Spec => []RunFindsToken
<1>1. DaemonInv => RunFindsToken
  BY DEF DaemonInv, TypeOK, FileInv, RunFindsToken, Ended
<1> QED
  BY <1>1, DaemonInvariant, PTL
-----------------------------------------------------------------------------
(***************************************************************************)
(* Lost daemons: only a crash between spawning and recording adds one.     *)
(***************************************************************************)
LostDaemons == {d \in Daemons : Lost(d)}

LostInv == IsFiniteSet(LostDaemons) /\ LostOnlyByCrash

LEMMA CommandLoses ==
    ASSUME DaemonInv, NEW c \in Commands, Command(c), ~Crash(c)
    PROVE  LostDaemons' \subseteq LostDaemons /\ crashes' = crashes
<1> USE NoneAssumption DEF DaemonInv, TypeOK, HolderInv, LostDaemons, Lost, Running,
        files, processes, Goto, Return, Lock, Kill, Life
<1>1. CASE StartLock(c)
  BY <1>1 DEF StartLock
<1>2. CASE StartFindsHealthy(c)
  BY <1>2 DEF StartFindsHealthy, MatchesState
<1>3. CASE StartFindsUnhealthy(c)
  BY <1>3 DEF StartFindsUnhealthy, MatchesState
<1>4. CASE StartFindsNone(c)
  BY <1>4 DEF StartFindsNone, MatchesState
<1>5. CASE StartSpawn(c)
  BY <1>5 DEF StartSpawn
<1>6. CASE StartSpawnFails(c)
  BY <1>6 DEF StartSpawnFails
<1>7. CASE StartWriteState(c)
  BY <1>7 DEF StartWriteState
<1>8. CASE StartRecordFails(c)
  BY <1>8 DEF StartRecordFails
<1>9. CASE StartReady(c)
  BY <1>9 DEF StartReady, MatchesState
<1>10. CASE StartFails(c)
  BY <1>10 DEF StartFails
<1>11. CASE StartCancelled(c)
  BY <1>11 DEF StartCancelled
<1>12. CASE RunConnect(c)
  BY <1>12 DEF RunConnect
<1>13. CASE StopFindsNone(c)
  BY <1>13 DEF StopFindsNone, MatchesState
<1>14. CASE StopReadState(c)
  BY <1>14 DEF StopReadState, MatchesState
<1>15. CASE StopDialFails(c)
  BY <1>15 DEF StopDialFails
<1>16. CASE StopListLoaded(c)
  BY <1>16 DEF StopListLoaded
<1>17. CASE StopListThreads(c)
  BY <1>17 DEF StopListThreads
<1>18. CASE StopSignal(c)
  BY <1>18 DEF StopSignal
<1>19. CASE StopDone(c)
  BY <1>19 DEF StopDone, ProcessRunning
<1>20. CASE StopRefused(c)
  BY <1>20 DEF StopRefused
<1>21. CASE StopKills(c)
  BY <1>21 DEF StopKills
<1>22. CASE StopCancelled(c)
  BY <1>22 DEF StopCancelled
<1>23. CASE \E forced \in BOOLEAN : StopLock(c, forced)
  BY <1>23 DEF StopLock
<1>24. CASE \E d \in Daemons : StartWriteToken(c, d)
  BY <1>24 DEF StartWriteToken
<1>31. CASE StartTokenFails(c) \/ StopSignalFails(c)
  BY <1>31 DEF StartTokenFails, StopSignalFails
<1> QED
  BY <1>1, <1>2, <1>3, <1>4, <1>5, <1>6, <1>7, <1>8, <1>9, <1>10, <1>11, <1>12, <1>13, <1>14,
     <1>15, <1>16, <1>17, <1>18, <1>19, <1>20, <1>21, <1>22, <1>23, <1>24, <1>31
     DEF Command, Start, Stop

LEMMA CrashLosesOne ==
    ASSUME DaemonInv, NEW c \in Commands, Crash(c)
    PROVE  LostDaemons' \subseteq LostDaemons \cup {target[c]} /\ crashes' = crashes + 1
BY NoneAssumption DEF Crash, DaemonInv, TypeOK, LostDaemons, Lost, Running, files, processes

LEMMA ProcessLoses ==
    ASSUME DaemonInv, NEW d \in Daemons, Process(d)
    PROVE  LostDaemons' \subseteq LostDaemons /\ crashes' = crashes
<1> USE DEF DaemonInv, TypeOK, LostDaemons, Lost, Running, files, command, Life, Become
<1>1. CASE DaemonReady(d)
  BY <1>1 DEF DaemonReady
<1>2. CASE DaemonStuck(d)
  BY <1>2 DEF DaemonStuck
<1>3. CASE DaemonExit(d)
  BY <1>3 DEF DaemonExit
<1>4. CASE PidReused(d)
  BY <1>4 DEF PidReused
<1>5. CASE StrangerExits(d)
  BY <1>5 DEF StrangerExits
<1>6. CASE \E next \in {"none", "loaded", "active"} : ThreadChanges(d, next)
  BY <1>6 DEF ThreadChanges
<1> QED
  BY <1>1, <1>2, <1>3, <1>4, <1>5, <1>6 DEF Process

LEMMA StepLost == DaemonInv /\ LostInv /\ [Next]_vars => LostInv'
<1> SUFFICES ASSUME DaemonInv, LostInv, [Next]_vars PROVE LostInv'
  OBVIOUS
<1>1. crashes \in Nat /\ Cardinality(LostDaemons) \in Nat /\ Cardinality(LostDaemons) <= crashes
  BY FS_CardinalityType DEF DaemonInv, TypeOK, LostInv, LostOnlyByCrash, LostDaemons
<1>2. ASSUME LostDaemons' \subseteq LostDaemons, crashes' = crashes PROVE LostInv'
  <2>1. IsFiniteSet(LostDaemons') /\ Cardinality(LostDaemons') <= Cardinality(LostDaemons)
    BY <1>2, FS_Subset DEF LostInv
  <2>2. Cardinality(LostDaemons') \in Nat
    BY <2>1, FS_CardinalityType
  <2> QED
    BY <1>1, <1>2, <2>1, <2>2 DEF LostInv, LostOnlyByCrash, LostDaemons
<1>3. ASSUME NEW c \in Commands, Crash(c) PROVE LostInv'
  <2> DEFINE More == LostDaemons \cup {target[c]}
  <2>1. LostDaemons' \subseteq More /\ crashes' = crashes + 1
    BY <1>3, CrashLosesOne
  <2>2. IsFiniteSet(More) /\ Cardinality(More) <= Cardinality(LostDaemons) + 1
    <3>1. IsFiniteSet(More)
      BY FS_AddElement DEF LostInv
    <3>2. \/ Cardinality(More) = Cardinality(LostDaemons)
          \/ Cardinality(More) = Cardinality(LostDaemons) + 1
      BY FS_AddElement DEF LostInv
    <3> QED
      BY <1>1, <3>1, <3>2
  <2>3. IsFiniteSet(LostDaemons') /\ Cardinality(LostDaemons') <= Cardinality(More)
    BY <2>1, <2>2, FS_Subset
  <2>4. Cardinality(LostDaemons') \in Nat /\ Cardinality(More) \in Nat
    BY <2>2, <2>3, FS_CardinalityType
  <2> HIDE DEF More
  <2>5. Cardinality(LostDaemons') <= crashes'
    BY <1>1, <2>1, <2>2, <2>3, <2>4
  <2> QED
    BY <2>3, <2>5 DEF LostInv, LostOnlyByCrash, LostDaemons
<1>4. CASE \E c \in Commands : Command(c) /\ ~Crash(c)
  BY <1>2, <1>4, CommandLoses
<1>5. CASE \E d \in Daemons : Process(d)
  BY <1>2, <1>5, ProcessLoses
<1>6. CASE UNCHANGED vars
  BY <1>2, <1>6 DEF vars, files, processes, command, LostDaemons, Lost, Running
<1> QED
  BY <1>3, <1>4, <1>5, <1>6 DEF Next

(***************************************************************************)
(* codexm loses at most one running daemon per command that died, however  *)
(* commands, daemons and PIDs interleave: two daemons serve one profile    *)
(* only after a crash.                                                     *)
(***************************************************************************)
THEOREM DaemonsAreLostByCrashes == Spec => []LostOnlyByCrash
<1>1. Init => LostInv
  <2> SUFFICES ASSUME Init PROVE LostInv
    OBVIOUS
  <2>1. LostDaemons = {}
    BY DEF Init, LostDaemons, Lost, Running
  <2> QED
    BY <2>1, FS_EmptySet DEF Init, LostInv, LostOnlyByCrash, LostDaemons
<1>2. LostInv => LostOnlyByCrash
  BY DEF LostInv
<1> QED
  BY <1>1, <1>2, StepLost, DaemonInvariant, PTL DEF Spec
-----------------------------------------------------------------------------
(***************************************************************************)
(* A PID comes round only after its daemon has exited, and then no command *)
(* works with it.  Whoever reads it in state.json later finds that it does *)
(* not match, or that it does not tell its age: then an inspection gets no *)
(* further than the dial, and only a forced stop goes on.                  *)
(***************************************************************************)
StrangerInv ==
    \A d \in Daemons : stranger[d] # "none" =>
        /\ daemon[d] = "gone"
        /\ \A c \in Commands : target[c] = d =>
              \/ stage[c] = "connect"
              \/ stranger[d] = "undated" /\ stage[c] = "loaded"
              \/ stranger[d] = "undated" /\ stage[c] \in {"signal", "stopping"} /\ force[c]

LEMMA CommandSpares ==
    ASSUME DaemonInv, StrangerInv, NEW c \in Commands, Command(c)
    PROVE  StrangerInv'
<1> USE NoneAssumption DEF DaemonInv, TypeOK, HolderInv, StrangerInv, Running,
        files, processes, Goto, Return, Lock, Kill, Life
<1>1. CASE StartLock(c)
  BY <1>1 DEF StartLock
<1>2. CASE StartFindsHealthy(c)
  BY <1>2 DEF StartFindsHealthy, MatchesState
<1>3. CASE StartFindsUnhealthy(c)
  BY <1>3 DEF StartFindsUnhealthy, MatchesState
<1>4. CASE StartFindsNone(c)
  BY <1>4 DEF StartFindsNone, MatchesState
<1>5. CASE StartSpawn(c)
  BY <1>5 DEF StartSpawn
<1>6. CASE StartSpawnFails(c)
  BY <1>6 DEF StartSpawnFails
<1>7. CASE StartWriteState(c)
  BY <1>7 DEF StartWriteState
<1>8. CASE StartRecordFails(c)
  BY <1>8 DEF StartRecordFails
<1>9. CASE StartReady(c)
  BY <1>9 DEF StartReady, MatchesState
<1>10. CASE StartFails(c)
  BY <1>10 DEF StartFails
<1>11. CASE StartCancelled(c)
  BY <1>11 DEF StartCancelled
<1>12. CASE RunConnect(c)
  BY <1>12 DEF RunConnect
<1>13. CASE StopFindsNone(c)
  BY <1>13 DEF StopFindsNone, MatchesState
<1>14. CASE StopReadState(c)
  BY <1>14 DEF StopReadState, MatchesState
<1>15. CASE StopDialFails(c)
  BY <1>15 DEF StopDialFails
<1>16. CASE StopListLoaded(c)
  BY <1>16 DEF StopListLoaded, CanDial
<1>17. CASE StopListThreads(c)
  BY <1>17 DEF StopListThreads
<1>18. CASE StopSignal(c)
  BY <1>18 DEF StopSignal
<1>19. CASE StopDone(c)
  BY <1>19 DEF StopDone, ProcessRunning
<1>20. CASE StopRefused(c)
  BY <1>20 DEF StopRefused
<1>21. CASE StopKills(c)
  BY <1>21 DEF StopKills
<1>22. CASE StopCancelled(c)
  BY <1>22 DEF StopCancelled
<1>23. CASE \E forced \in BOOLEAN : StopLock(c, forced)
  BY <1>23 DEF StopLock
<1>24. CASE \E d \in Daemons : StartWriteToken(c, d)
  BY <1>24 DEF StartWriteToken
<1>25. CASE Crash(c)
  BY <1>25 DEF Crash
<1>31. CASE StartTokenFails(c) \/ StopSignalFails(c)
  BY <1>31 DEF StartTokenFails, StopSignalFails
<1> QED
  BY <1>1, <1>2, <1>3, <1>4, <1>5, <1>6, <1>7, <1>8, <1>9, <1>10, <1>11, <1>12, <1>13, <1>14,
     <1>15, <1>16, <1>17, <1>18, <1>19, <1>20, <1>21, <1>22, <1>23, <1>24, <1>25, <1>31
     DEF Command, Start, Stop

LEMMA ProcessSpares ==
    ASSUME DaemonInv, StrangerInv, NEW d \in Daemons, Process(d)
    PROVE  StrangerInv'
<1> USE DEF DaemonInv, TypeOK, StrangerInv, Running, files, command, Life, Become
<1>1. CASE DaemonReady(d)
  BY <1>1 DEF DaemonReady
<1>2. CASE DaemonStuck(d)
  BY <1>2 DEF DaemonStuck
<1>3. CASE DaemonExit(d)
  BY <1>3 DEF DaemonExit
<1>4. CASE PidReused(d)
  BY <1>4 DEF PidReused
<1>5. CASE StrangerExits(d)
  BY <1>5 DEF StrangerExits
<1>6. CASE \E next \in {"none", "loaded", "active"} : ThreadChanges(d, next)
  BY <1>6 DEF ThreadChanges
<1> QED
  BY <1>1, <1>2, <1>3, <1>4, <1>5, <1>6 DEF Process

(***************************************************************************)
(* No start and no stop signals or kills a process that merely got the PID *)
(* of a daemon, but for a forced stop of one whose age is unknown.         *)
(***************************************************************************)
THEOREM StrangersAreSpared == Spec => []NeverSignalsStranger
<1>1. Init => StrangerInv
  BY DEF Init, StrangerInv
<1>2. DaemonInv /\ StrangerInv /\ [Next]_vars => StrangerInv'
  <2> SUFFICES ASSUME DaemonInv, StrangerInv, [Next]_vars PROVE StrangerInv'
    OBVIOUS
  <2>1. CASE UNCHANGED vars
    BY <2>1 DEF vars, processes, command, StrangerInv
  <2> QED
    BY <2>1, CommandSpares, ProcessSpares DEF Next
<1>3. DaemonInv /\ StrangerInv => NeverSignalsStranger
  BY DEF DaemonInv, TypeOK, StrangerInv, NeverSignalsStranger
<1> QED
  BY <1>1, <1>2, <1>3, DaemonInvariant, PTL DEF Spec
-----------------------------------------------------------------------------
(***************************************************************************)
(* A stop that has seen no loaded thread, or is about to signal without    *)
(* --force, knows of a moment when no thread was active; a thread that was *)
(* active all along still is.                                              *)
(***************************************************************************)
BusyInv ==
    \A c \in Commands :
        /\ busySince[c] => stage[c] \in StopStage \ {"read"} /\ thread[target[c]] = "active"
        /\ loaded[c] # "unknown" => stage[c] \in {"threads", "signal", "stopping"}
        /\ loaded[c] = "none" => ~busySince[c]
        /\ stage[c] = "signal" /\ ~force[c] => ~busySince[c]

LEMMA CommandBusy ==
    ASSUME DaemonInv, BusyInv, NEW c \in Commands, Command(c)
    PROVE  BusyInv'
<1> USE NoneAssumption DEF DaemonInv, TypeOK, LockInv, Locked, BusyInv, Running, StartStage, StopStage,
        files, processes, InspectIdle, Goto, Return, Lock, Kill, Life
<1>1. CASE StartLock(c)
  BY <1>1 DEF StartLock
<1>2. CASE StartFindsHealthy(c)
  BY <1>2 DEF StartFindsHealthy, MatchesState
<1>3. CASE StartFindsUnhealthy(c)
  BY <1>3 DEF StartFindsUnhealthy, MatchesState
<1>4. CASE StartFindsNone(c)
  BY <1>4 DEF StartFindsNone, MatchesState
<1>5. CASE StartSpawn(c)
  BY <1>5 DEF StartSpawn
<1>6. CASE StartSpawnFails(c)
  BY <1>6 DEF StartSpawnFails
<1>7. CASE StartWriteState(c)
  BY <1>7 DEF StartWriteState
<1>8. CASE StartRecordFails(c)
  BY <1>8 DEF StartRecordFails
<1>9. CASE StartReady(c)
  BY <1>9 DEF StartReady, MatchesState
<1>10. CASE StartFails(c)
  BY <1>10 DEF StartFails
<1>11. CASE StartCancelled(c)
  BY <1>11 DEF StartCancelled
<1>12. CASE RunConnect(c)
  BY <1>12 DEF RunConnect
<1>13. CASE StopFindsNone(c)
  BY <1>13 DEF StopFindsNone, MatchesState
<1>14. CASE StopReadState(c)
  BY <1>14 DEF StopReadState, MatchesState
<1>15. CASE StopDialFails(c)
  BY <1>15 DEF StopDialFails
<1>16. CASE StopListLoaded(c)
  BY <1>16 DEF StopListLoaded
<1>17. CASE StopListThreads(c)
  BY <1>17 DEF StopListThreads
<1>18. CASE StopSignal(c)
  BY <1>18 DEF StopSignal
<1>19. CASE StopDone(c)
  BY <1>19 DEF StopDone, ProcessRunning
<1>20. CASE StopRefused(c)
  BY <1>20 DEF StopRefused
<1>21. CASE StopKills(c)
  BY <1>21 DEF StopKills
<1>22. CASE StopCancelled(c)
  BY <1>22 DEF StopCancelled
<1>23. CASE \E forced \in BOOLEAN : StopLock(c, forced)
  BY <1>23 DEF StopLock
<1>24. CASE \E d \in Daemons : StartWriteToken(c, d)
  BY <1>24 DEF StartWriteToken
<1>25. CASE Crash(c)
  BY <1>25 DEF Crash
<1>31. CASE StartTokenFails(c) \/ StopSignalFails(c)
  BY <1>31 DEF StartTokenFails, StopSignalFails
<1> QED
  BY <1>1, <1>2, <1>3, <1>4, <1>5, <1>6, <1>7, <1>8, <1>9, <1>10, <1>11, <1>12, <1>13, <1>14,
     <1>15, <1>16, <1>17, <1>18, <1>19, <1>20, <1>21, <1>22, <1>23, <1>24, <1>25, <1>31
     DEF Command, Start, Stop

LEMMA ProcessBusy ==
    ASSUME DaemonInv, BusyInv, NEW d \in Daemons, Process(d)
    PROVE  BusyInv'
<1> USE DEF DaemonInv, TypeOK, BusyInv, Running, files, command, Life, Become
<1>1. CASE DaemonReady(d)
  BY <1>1 DEF DaemonReady
<1>2. CASE DaemonStuck(d)
  BY <1>2 DEF DaemonStuck
<1>3. CASE DaemonExit(d)
  <2>1. \A e \in Commands : busySince'[e] => busySince[e] /\ target[e] # d
    BY <1>3, Zenon DEF DaemonExit, Become, TypeOK
  <2>2. \A e \in Daemons : e # d => thread'[e] = thread[e]
    BY <1>3 DEF DaemonExit, Become, TypeOK
  <2>3. \A e \in Commands : busySince[e] => target[e] \in Daemons
    BY DEF DaemonInv, TypeOK, BusyInv, StopStage
  <2> QED
    BY <1>3, <2>1, <2>2, <2>3 DEF DaemonExit, Become, BusyInv, command, files
<1>4. CASE PidReused(d)
  BY <1>4 DEF PidReused
<1>5. CASE StrangerExits(d)
  BY <1>5 DEF StrangerExits
<1>6. CASE \E next \in {"none", "loaded", "active"} : ThreadChanges(d, next)
  <2>1. \A e \in Commands : busySince'[e] => busySince[e] /\ target[e] # d
    BY <1>6, Zenon DEF ThreadChanges, TypeOK
  <2>2. \A e \in Daemons : e # d => thread'[e] = thread[e]
    BY <1>6 DEF ThreadChanges, TypeOK
  <2>3. \A e \in Commands : busySince[e] => target[e] \in Daemons
    BY DEF DaemonInv, TypeOK, BusyInv, StopStage
  <2> QED
    BY <1>6, <2>1, <2>2, <2>3 DEF ThreadChanges, BusyInv, command, files
<1> QED
  BY <1>1, <1>2, <1>3, <1>4, <1>5, <1>6 DEF Process

(***************************************************************************)
(* A stop without --force signals only a daemon it knows to have been      *)
(* without an active thread at some moment since the stop began.           *)
(***************************************************************************)
THEOREM NormalStopsSpareBusyDaemons == Spec => []NormalStopSparesBusy
<1>1. Init => BusyInv
  BY DEF Init, BusyInv
<1>2. DaemonInv /\ BusyInv /\ [Next]_vars => BusyInv'
  <2> SUFFICES ASSUME DaemonInv, BusyInv, [Next]_vars PROVE BusyInv'
    OBVIOUS
  <2>1. CASE UNCHANGED vars
    BY <2>1 DEF vars, processes, command, BusyInv
  <2> QED
    BY <2>1, CommandBusy, ProcessBusy DEF Next
<1>3. BusyInv => NormalStopSparesBusy
  BY DEF BusyInv, NormalStopSparesBusy
<1> QED
  BY <1>1, <1>2, <1>3, DaemonInvariant, PTL DEF Spec
=============================================================================
