--------------------------- MODULE DaemonManager ---------------------------
(***************************************************************************)
(* internal/appserver: the Codex app-server daemon of one profile, started *)
(* and stopped by codexm commands.  The commands are processes of their    *)
(* own (`codexm run`, `daemon start`, `daemon stop`, the Dashboard); they  *)
(* meet in manager.lock, taken with TryLock, and in state.json and         *)
(* capability.token.  The daemon is detached: it outlives the command that *)
(* started it, and nothing but its PID in state.json leads back to it.     *)
(*                                                                         *)
(* Profiles share nothing here, so one profile is modelled.                *)
(***************************************************************************)
EXTENDS Naturals, FiniteSets

CONSTANTS
    Commands,     \* codexm processes that work on this profile's daemon
    Daemons,      \* the app-server processes that can be spawned, by PID
    None,         \* no command, no daemon, no file
    Cancellable,  \* those whose context can be cancelled (Dashboard, TUI)
    MaxCrashes    \* bound on the number of commands that die

ASSUME NoneAssumption == None \notin Commands /\ None \notin Daemons
ASSUME DaemonBounds == Cancellable \subseteq Commands /\ MaxCrashes \in Nat

VARIABLES
    lock,      \* holder of manager.lock
    state,     \* the daemon state.json describes
    token,     \* the daemon whose capability capability.token holds
    daemon,    \* life of each app-server process
    stranger,  \* whether an unrelated process has its PID, and tells when it was created
    thread,    \* the threads each daemon serves: none, only loaded ones, an active one
    stage,     \* where each command is
    target,    \* the daemon it is about
    force,     \* whether it is a stop with --force
    loaded,    \* what thread/loaded/list told it
    busySince, \* whether an active thread has run ever since it read state.json
    crashes    \* commands that have died so far

files == <<state, token>>
processes == <<daemon, stranger, thread>>
command == <<stage, target, force, loaded, busySince>>
vars == <<lock, files, processes, command, crashes>>

(***************************************************************************)
(* starting and stuck daemons run but do not answer /readyz; signalled     *)
(* ones have been sent SIGTERM, killed ones SIGKILL.                       *)
(***************************************************************************)
Life == {"unborn", "starting", "ready", "stuck", "signalled", "killed", "gone"}
Running(d) == daemon[d] \in {"starting", "ready", "stuck", "signalled", "killed"}

StartStage == {"status", "token", "spawn", "record", "wait"}
StopStage == {"read", "loaded", "threads", "signal", "stopping"}
Stage == {"idle", "connect"} \cup StartStage \cup StopStage

TypeOK ==
    /\ lock \in Commands \cup {None}
    /\ state \in Daemons \cup {None}
    /\ token \in Daemons \cup {None}
    /\ daemon \in [Daemons -> Life]
    /\ stranger \in [Daemons -> {"none", "dated", "undated"}]
    /\ thread \in [Daemons -> {"none", "loaded", "active"}]
    /\ stage \in [Commands -> Stage]
    /\ target \in [Commands -> Daemons \cup {None}]
    /\ \A c \in Commands : stage[c] \notin {"idle", "status", "token", "read"}
                            => target[c] # None
    /\ force \in [Commands -> BOOLEAN]
    /\ loaded \in [Commands -> {"unknown", "none", "some"}]
    /\ busySince \in [Commands -> BOOLEAN]
    /\ crashes \in Nat

Init ==
    /\ lock = None /\ state = None /\ token = None
    /\ daemon = [d \in Daemons |-> "unborn"]
    /\ stranger = [d \in Daemons |-> "none"]
    /\ thread = [d \in Daemons |-> "none"]
    /\ stage = [c \in Commands |-> "idle"]
    /\ target = [c \in Commands |-> None]
    /\ force = [c \in Commands |-> FALSE]
    /\ loaded = [c \in Commands |-> "unknown"]
    /\ busySince = [c \in Commands |-> FALSE]
    /\ crashes = 0
-----------------------------------------------------------------------------
(***************************************************************************)
(* processMatchesState: the PID is in use by a process created within 30   *)
(* seconds of StartedAt, or by one whose creation time cannot be read: the *)
(* test then passes without a comparison.  PIDs are assumed not to come    *)
(* round within 30 seconds, so of the others only the daemon itself        *)
(* matches; StartedAt is always written.  processRunning looks at the PID  *)
(* alone.                                                                  *)
(***************************************************************************)
ProcessRunning(d) == Running(d) \/ stranger[d] # "none"

\* A mistake: the creation time is not compared.
MatchesByPid(d) == d # None /\ ProcessRunning(d)

MatchesState(d) == d # None /\ (Running(d) \/ stranger[d] = "undated")

Goto(c, next) ==
    /\ stage' = [stage EXCEPT ![c] = next]
    /\ UNCHANGED <<lock, force, busySince, crashes>>

\* A mistake: the daemon that was started is forgotten.
ReturnForgets(c, next) ==
    /\ stage' = [stage EXCEPT ![c] = next]
    /\ lock' = None
    /\ target' = [target EXCEPT ![c] = None]
    /\ force' = [force EXCEPT ![c] = FALSE]
    /\ loaded' = [loaded EXCEPT ![c] = "unknown"]
    /\ busySince' = [busySince EXCEPT ![c] = FALSE]

(***************************************************************************)
(* The command gives the lock back and either ends or, for `codexm run`,   *)
(* goes on to connect to the daemon.                                       *)
(***************************************************************************)
Return(c, next) ==
    /\ stage' = [stage EXCEPT ![c] = next]
    /\ lock' = None
    /\ target' = IF next = "idle" THEN [target EXCEPT ![c] = None] ELSE target
    /\ force' = [force EXCEPT ![c] = FALSE]
    /\ loaded' = [loaded EXCEPT ![c] = "unknown"]
    /\ busySince' = [busySince EXCEPT ![c] = FALSE]

(***************************************************************************)
(* TryLock: a command that finds the lock taken fails and changes nothing. *)
(***************************************************************************)
Lock(c, next) ==
    /\ stage[c] = "idle"
    /\ lock = None
    /\ lock' = c
    /\ stage' = [stage EXCEPT ![c] = next]
-----------------------------------------------------------------------------
StartLock(c) ==
    /\ Lock(c, "status")
    /\ UNCHANGED <<files, processes, target, force, loaded, busySince, crashes>>

(***************************************************************************)
(* Start first asks Status.  A running daemon may always fail to answer    *)
(* /readyz within a second; only a ready one can answer.                   *)
(***************************************************************************)
StartFindsHealthy(c) ==
    /\ stage[c] = "status"
    /\ MatchesState(state)
    /\ daemon[state] = "ready"
    /\ stage' = [stage EXCEPT ![c] = "connect"]
    /\ lock' = None
    /\ target' = [target EXCEPT ![c] = state]
    /\ UNCHANGED <<files, processes, force, loaded, busySince, crashes>>

StartFindsUnhealthy(c) ==
    /\ stage[c] = "status"
    /\ MatchesState(state)
    /\ Return(c, "idle")
    /\ UNCHANGED <<files, processes, crashes>>

\* Mistakes: a running daemon that does not answer is replaced; its state stays.
StartKeepsState(c) ==
    /\ stage[c] = "status"
    /\ ~MatchesState(state)
    /\ Goto(c, "token")
    /\ UNCHANGED <<files, processes, target, loaded>>
StartReplaces(c) ==
    /\ stage[c] = "status"
    /\ state' = None
    /\ Goto(c, "token")
    /\ UNCHANGED <<token, processes, target, loaded>>

StartFindsNone(c) ==
    /\ stage[c] = "status"
    /\ ~MatchesState(state)
    /\ state' = None
    /\ Goto(c, "token")
    /\ UNCHANGED <<token, processes, target, loaded>>

\* No endpoint, no random token or no file for it; the old token may stay.
StartTokenFails(c) ==
    /\ stage[c] = "token"
    /\ Return(c, "idle")
    /\ UNCHANGED <<files, processes, crashes>>

StartWriteToken(c, d) ==
    /\ stage[c] = "token"
    /\ daemon[d] = "unborn"
    /\ token' = d
    /\ target' = [target EXCEPT ![c] = d]
    /\ Goto(c, "spawn")
    /\ UNCHANGED <<state, processes, loaded>>

StartSpawn(c) ==
    /\ stage[c] = "spawn"
    /\ daemon' = [daemon EXCEPT ![target[c]] = "starting"]
    /\ Goto(c, "record")
    /\ UNCHANGED <<files, stranger, thread, target, loaded>>

StartSpawnFails(c) ==
    /\ stage[c] = "spawn"
    /\ Return(c, "idle")
    /\ UNCHANGED <<files, processes, crashes>>

StartWriteState(c) ==
    /\ stage[c] = "record"
    /\ state' = target[c]
    /\ Goto(c, "wait")
    /\ UNCHANGED <<token, processes, target, loaded>>

(***************************************************************************)
(* Process.Kill and Process.Signal reach whatever process has the PID; an  *)
(* unrelated one may go on or exit.                                        *)
(***************************************************************************)
Kill(d) ==
    /\ daemon' = [daemon EXCEPT ![d] = IF Running(d) THEN "killed" ELSE @]
    /\ thread' = [thread EXCEPT ![d] = "none"]
    /\ UNCHANGED stranger

\* A mistake: the daemon is left to itself when its state cannot be recorded.
StartGivesUp(c) ==
    /\ stage[c] = "record"
    /\ Return(c, "idle")
    /\ UNCHANGED <<files, processes, crashes>>

(***************************************************************************)
(* The state cannot be written: the daemon is killed again.                *)
(***************************************************************************)
StartRecordFails(c) ==
    /\ stage[c] = "record"
    /\ Kill(target[c])
    /\ Return(c, "idle")
    /\ UNCHANGED <<files, crashes>>

StartReady(c) ==
    /\ stage[c] = "wait"
    /\ MatchesState(state)
    /\ daemon[state] = "ready"
    /\ Return(c, "connect")
    /\ UNCHANGED <<files, processes, crashes>>

(***************************************************************************)
(* The daemon has exited, or was not ready in time: it is killed and       *)
(* forgotten.  A cancelled context kills it and leaves state.json behind.  *)
(***************************************************************************)
StartFails(c) ==
    /\ stage[c] = "wait"
    /\ Kill(target[c])
    /\ state' = None
    /\ Return(c, "idle")
    /\ UNCHANGED <<token, crashes>>

StartCancelled(c) ==
    /\ c \in Cancellable
    /\ stage[c] = "wait"
    /\ Kill(target[c])
    /\ Return(c, "idle")
    /\ UNCHANGED <<files, crashes>>

(***************************************************************************)
(* `codexm run` reads the token file after Start has returned, without the *)
(* lock, and connects to the endpoint Start returned.                      *)
(***************************************************************************)
RunConnect(c) ==
    /\ stage[c] = "connect"
    /\ stage' = [stage EXCEPT ![c] = "idle"]
    /\ target' = [target EXCEPT ![c] = None]
    /\ UNCHANGED <<lock, files, processes, force, loaded, busySince, crashes>>
-----------------------------------------------------------------------------
StopLock(c, forced) ==
    /\ Lock(c, "read")
    /\ force' = [force EXCEPT ![c] = forced]
    /\ UNCHANGED <<files, processes, target, loaded, busySince, crashes>>

StopFindsNone(c) ==
    /\ stage[c] = "read"
    /\ ~MatchesState(state)
    /\ state' = None
    /\ Return(c, "idle")
    /\ UNCHANGED <<token, processes, crashes>>

StopReadState(c) ==
    /\ stage[c] = "read"
    /\ MatchesState(state)
    /\ target' = [target EXCEPT ![c] = state]
    /\ busySince' = [busySince EXCEPT ![c] = thread[state] = "active"]
    /\ stage' = [stage EXCEPT ![c] = IF force[c] THEN "signal" ELSE "loaded"]
    /\ UNCHANGED <<lock, files, processes, force, loaded, crashes>>

(***************************************************************************)
(* The inspection: dial with the token file, thread/loaded/list, then      *)
(* thread/list.  Each call may fail; servers may lack either method.       *)
(***************************************************************************)
CanDial(d) == daemon[d] = "ready" /\ token = d

StopDialFails(c) ==
    /\ stage[c] = "loaded"
    /\ Return(c, "idle")
    /\ UNCHANGED <<files, processes, crashes>>

StopListLoaded(c) ==
    /\ stage[c] = "loaded"
    /\ CanDial(target[c])
    /\ \/ loaded' = [loaded EXCEPT ![c] = IF thread[target[c]] = "none" THEN "none" ELSE "some"]
       \/ UNCHANGED loaded
    /\ Goto(c, "threads")
    /\ UNCHANGED <<files, processes, target>>

\* A mistake: a server that cannot list its threads is taken for idle.
InspectOptimist(c, listed) ==
    IF listed THEN thread[target[c]] # "active" ELSE TRUE

(***************************************************************************)
(* Whether the inspection finds nothing to protect: no active thread if    *)
(* thread/list answers, no loaded thread otherwise.                        *)
(***************************************************************************)
InspectIdle(c, listed) ==
    IF listed THEN thread[target[c]] # "active" ELSE loaded[c] = "none"

StopListThreads(c) ==
    /\ stage[c] = "threads"
    /\ \E listed \in BOOLEAN :
         /\ listed => CanDial(target[c])
         /\ IF InspectIdle(c, listed)
            THEN Goto(c, "signal") /\ UNCHANGED <<target, loaded>>
            ELSE Return(c, "idle") /\ UNCHANGED crashes
    /\ UNCHANGED <<files, processes>>

StopSignal(c) ==
    /\ stage[c] = "signal"
    /\ daemon' = [daemon EXCEPT ![target[c]] =
                    IF @ \in {"starting", "ready", "stuck"} THEN "signalled" ELSE @]
    /\ Goto(c, "stopping")
    /\ UNCHANGED <<files, stranger, thread, target, loaded>>

\* The signal is not permitted.
StopSignalFails(c) ==
    /\ stage[c] = "signal"
    /\ Return(c, "idle")
    /\ UNCHANGED <<files, processes, crashes>>

StopDone(c) ==
    /\ stage[c] = "stopping"
    /\ ~ProcessRunning(target[c])
    /\ state' = None
    /\ Return(c, "idle")
    /\ UNCHANGED <<token, processes, crashes>>

(***************************************************************************)
(* Four seconds later the PID is still in use.                             *)
(***************************************************************************)
StopRefused(c) ==
    /\ stage[c] = "stopping"
    /\ ProcessRunning(target[c]) /\ ~force[c]
    /\ Return(c, "idle")
    /\ UNCHANGED <<files, processes, crashes>>

\* A mistake: --force forgets the daemon without killing it.
StopForgets(c) ==
    /\ stage[c] = "stopping"
    /\ ProcessRunning(target[c]) /\ force[c]
    /\ state' = None
    /\ Return(c, "idle")
    /\ UNCHANGED <<token, processes, crashes>>

StopKills(c) ==
    /\ stage[c] = "stopping"
    /\ ProcessRunning(target[c]) /\ force[c]
    /\ Kill(target[c])
    /\ state' = None
    /\ Return(c, "idle")
    /\ UNCHANGED <<token, crashes>>

StopCancelled(c) ==
    /\ c \in Cancellable
    /\ stage[c] = "stopping"
    /\ Return(c, "idle")
    /\ UNCHANGED <<files, processes, crashes>>
-----------------------------------------------------------------------------
(***************************************************************************)
(* A command dies; the operating system frees its lock.                    *)
(***************************************************************************)
Crash(c) ==
    /\ stage[c] # "idle"
    /\ crashes < MaxCrashes
    /\ crashes' = crashes + 1
    /\ stage' = [stage EXCEPT ![c] = "idle"]
    /\ lock' = IF lock = c THEN None ELSE lock
    /\ target' = [target EXCEPT ![c] = None]
    /\ force' = [force EXCEPT ![c] = FALSE]
    /\ loaded' = [loaded EXCEPT ![c] = "unknown"]
    /\ busySince' = [busySince EXCEPT ![c] = FALSE]
    /\ UNCHANGED <<files, processes>>

(***************************************************************************)
(* The app-server and its PID, external to codexm.                         *)
(***************************************************************************)
Become(d, life) ==
    /\ daemon' = [daemon EXCEPT ![d] = life]
    /\ thread' = IF life = "gone" THEN [thread EXCEPT ![d] = "none"] ELSE thread
    /\ busySince' = [c \in Commands |-> busySince[c] /\ (life = "gone" => target[c] # d)]
    /\ UNCHANGED <<lock, files, stranger, stage, target, force, loaded, crashes>>

DaemonReady(d) == daemon[d] = "starting" /\ Become(d, "ready")
DaemonStuck(d) == daemon[d] = "ready" /\ Become(d, "stuck")
DaemonExit(d) == Running(d) /\ Become(d, "gone")

(***************************************************************************)
(* A PID is not used again while a command works with it: the start that   *)
(* spawned the daemon has not reaped it, and a stop lasts less than 15     *)
(* seconds, in which the kernel does not run through all other PIDs.       *)
(***************************************************************************)
PidReused(d) ==
    /\ daemon[d] = "gone" /\ stranger[d] = "none"
    /\ \A c \in Commands : target[c] = d => stage[c] = "connect"
    /\ \E kind \in {"dated", "undated"} : stranger' = [stranger EXCEPT ![d] = kind]
    /\ UNCHANGED <<lock, files, daemon, thread, command, crashes>>

StrangerExits(d) ==
    /\ stranger[d] # "none"
    /\ stranger' = [stranger EXCEPT ![d] = "none"]
    /\ UNCHANGED <<lock, files, daemon, thread, command, crashes>>

(***************************************************************************)
(* Users load threads, and turns start and finish.                         *)
(***************************************************************************)
ThreadChanges(d, next) ==
    /\ daemon[d] \in {"ready", "signalled"}
    /\ thread[d] # next
    /\ thread' = [thread EXCEPT ![d] = next]
    /\ busySince' = [c \in Commands |-> busySince[c] /\ target[c] # d]
    /\ UNCHANGED <<lock, files, daemon, stranger, stage, target, force, loaded, crashes>>
-----------------------------------------------------------------------------
Start(c) ==
    \/ StartFindsHealthy(c) \/ StartFindsUnhealthy(c) \/ StartFindsNone(c)
    \/ StartTokenFails(c) \/ \E d \in Daemons : StartWriteToken(c, d)
    \/ StartSpawn(c) \/ StartSpawnFails(c) \/ StartWriteState(c) \/ StartRecordFails(c)
    \/ StartReady(c) \/ StartFails(c)

Stop(c) ==
    \/ StopFindsNone(c) \/ StopReadState(c)
    \/ StopDialFails(c) \/ StopListLoaded(c) \/ StopListThreads(c)
    \/ StopSignal(c) \/ StopSignalFails(c) \/ StopDone(c) \/ StopRefused(c) \/ StopKills(c)

Command(c) ==
    \/ StartLock(c) \/ \E forced \in BOOLEAN : StopLock(c, forced)
    \/ Start(c) \/ Stop(c) \/ RunConnect(c)
    \/ StartCancelled(c) \/ StopCancelled(c)
    \/ Crash(c)

Process(d) ==
    \/ DaemonReady(d) \/ DaemonStuck(d) \/ DaemonExit(d)
    \/ PidReused(d) \/ StrangerExits(d)
    \/ \E next \in {"none", "loaded", "active"} : ThreadChanges(d, next)

Next == (\E c \in Commands : Command(c)) \/ (\E d \in Daemons : Process(d))

Spec == Init /\ [][Next]_vars
-----------------------------------------------------------------------------
(***************************************************************************)
(* codexm loses a running daemon only by dying between spawning it and     *)
(* recording it: every other daemon that has not been killed is the one in *)
(* state.json or the one the holder of the lock is starting, so two        *)
(* daemons never serve one CODEX_HOME unless a command died.               *)
(***************************************************************************)
Lost(d) ==
    /\ Running(d) /\ daemon[d] # "killed"
    /\ d # state
    /\ \A c \in Commands : target[c] = d => stage[c] # "record"

LostOnlyByCrash == Cardinality({d \in Daemons : Lost(d)}) <= crashes

(***************************************************************************)
(* The three files of a daemon agree: a daemon that is recorded and        *)
(* answers accepts the token on disk, and a `codexm run` that Start sent   *)
(* to a daemon finds that daemon's token unless the daemon was stopped.    *)
(***************************************************************************)
TokenFitsState == state # None => token = state

RunFindsToken ==
    \A c \in Commands :
        stage[c] = "connect" => token = target[c] \/ daemon[target[c]] \in {"killed", "gone"}

(***************************************************************************)
(* No start, and no stop that has read state.json while its PID belonged   *)
(* to an unrelated process, signals that process                           *)
(* (manager_test.go:115, TestManagerDoesNotSignalReusedStalePID); the one  *)
(* exception is `daemon stop --force` where the process does not tell when *)
(* it was created: a stop without --force has to reach the daemon first.   *)
(***************************************************************************)
NeverSignalsStranger ==
    \A c \in Commands :
        stage[c] \in {"record", "wait", "signal", "stopping"} /\ stranger[target[c]] # "none"
            => force[c] /\ stranger[target[c]] = "undated"

(***************************************************************************)
(* A stop without --force goes ahead only if the daemon was without an     *)
(* active thread at some moment since the stop began.                      *)
(***************************************************************************)
NormalStopSparesBusy ==
    \A c \in Commands : stage[c] = "signal" /\ ~force[c] => ~busySince[c]
-----------------------------------------------------------------------------
(***************************************************************************)
(* Every wait of a command is bounded by a timeout, and a process that has *)
(* been sent SIGKILL exits.                                                *)
(***************************************************************************)
Fairness ==
    /\ \A c \in Commands : WF_vars(Start(c) \/ Stop(c) \/ RunConnect(c))
    /\ \A d \in Daemons : WF_vars(daemon[d] = "killed" /\ DaemonExit(d))

FairSpec == Spec /\ Fairness

(***************************************************************************)
(* `daemon stop --force`, which nothing cancels, ends the daemon, a stuck  *)
(* one too, unless a command died.                                         *)
(***************************************************************************)
ForcedStopStops ==
    \A c \in Commands \ Cancellable, d \in Daemons :
        stage[c] = "stopping" /\ force[c] /\ target[c] = d
          ~> daemon[d] = "gone" \/ crashes > 0
=============================================================================
