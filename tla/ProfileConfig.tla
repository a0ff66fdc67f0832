--------------------------- MODULE ProfileConfig ---------------------------
(***************************************************************************)
(* config.json, the shared MCP servers and the config.toml of every        *)
(* CODEX_HOME, as concurrent codexm commands read and write them.          *)
(*                                                                         *)
(* Update takes the lock of config.json exclusively from its load to its   *)
(* save; Load takes it shared, for the read only.  config.toml has no      *)
(* lock: sharedmcp.Sync reads it, opens and truncates config.toml.tmp, a   *)
(* name all processes share, writes it and renames it, while Codex and the *)
(* user edit the same file.                                                *)
(***************************************************************************)
EXTENDS ConfigStore

CONSTANTS
    Procs,       \* processes that run codexm commands
    Commands,    \* the commands they run, a subset of AllCommands
    MaxCommands, \* bound on the number of commands
    MaxEdits     \* bound on the number of edits by Codex or the user

(***************************************************************************)
(* Besides the updates: `run`, which stands for shell and mcp login and    *)
(* logout too, mcp sync of one profile or (None) of all, and the mcp add   *)
(* and mcp remove that Codex carries out on the shared config.toml.        *)
(***************************************************************************)
AllCommands ==
    Updates
    \cup [kind : {"run"}, profile : Profiles]
    \cup [kind : {"sync"}, profile : Profiles \cup {None}]
    \cup [kind : {"mcpadd", "mcpremove"}, server : Servers]

ASSUME CommandAssumption == Commands \subseteq AllCommands /\ None \notin Commands
ASSUME ProcAssumption == None \notin Procs /\ MaxCommands \in Nat /\ MaxEdits \in Nat

VARIABLES
    lock,      \* the process that holds config.json.lock exclusively
    shared,    \* servers of the shared config.toml
    file,      \* config.toml of each home: the local servers and the managed block
    tmp,       \* config.toml.tmp of each home
    stage, op, \* what each process is doing
    seen,      \* the configuration it loaded
    todo,      \* the profiles it still has to synchronize
    copy,      \* what it is about to write to a config.toml
    link,      \* the name by which the temporary file it has open is known
    disturbed, \* whether others touched what its run synchronizes since its load
    commands,  \* number of commands so far
    edits      \* number of edits so far

proc == <<stage, op, seen, todo, copy, link>>
files == <<file, tmp>>
vars == <<config, lock, shared, files, proc, disturbed, commands, edits>>

IsUpdate(o) == o.kind \in {"add", "remove", "default", "bind", "unbind", "exclude", "include"}
Syncing == {"read", "open", "write", "rename", "cleanup"}
Stage == {"idle", "lock", "load", "prepare", "commit", "launch", "delete"} \cup Syncing

(***************************************************************************)
(* local stands for everything outside the managed block.  A file that was *)
(* opened and not yet written is empty, one that several processes wrote,  *)
(* or one of them in part, may be mixed and then is no TOML; an empty file *)
(* is.  stale is history: the settings of config.toml have changed since   *)
(* they were read for this copy.                                           *)
(***************************************************************************)
Form == {"whole", "empty", "mixed"}
Content == [local : SUBSET Servers, block : SUBSET Servers, form : Form]
Copy == [local : SUBSET Servers, block : SUBSET Servers, form : Form, stale : BOOLEAN]

Void(form) == [local |-> {}, block |-> {}, form |-> form, stale |-> FALSE]
Published(x) == [local |-> x.local, block |-> x.block, form |-> x.form]

ASSUME NoneAssumption == None \notin Content /\ None \notin Copy

TypeOK ==
    /\ config \in Configs
    /\ lock \in Procs \cup {None}
    /\ shared \in SUBSET Servers
    /\ file \in [Homes -> Content \cup {None}]
    /\ tmp \in [Homes -> Copy \cup {None}]
    /\ stage \in [Procs -> Stage]
    /\ op \in [Procs -> Commands \cup {None}]
    /\ seen \in [Procs -> Configs \cup {None}]
    /\ todo \in [Procs -> SUBSET Profiles]
    /\ copy \in [Procs -> Copy \cup {None}]
    /\ link \in [Procs -> {"none", "tmp", "file", "lost"}]
    /\ \A c \in Procs : op[c] = None <=> stage[c] = "idle"
    /\ disturbed \in [Procs -> BOOLEAN]
    /\ commands \in 0..MaxCommands
    /\ edits \in 0..MaxEdits

(***************************************************************************)
(* Profiles that exist have a home, whose block may have drifted.          *)
(***************************************************************************)
Init ==
    /\ config \in Configs /\ Consistent(config)
    /\ lock = None
    /\ shared \in SUBSET Servers
    /\ file \in [Homes -> Content \cup {None}]
    /\ \A p \in DOMAIN config.profiles : file[config.profiles[p].home] # None
    /\ tmp = [h \in Homes |-> None]
    /\ stage = [c \in Procs |-> "idle"] /\ op = [c \in Procs |-> None]
    /\ seen = [c \in Procs |-> None] /\ todo = [c \in Procs |-> {}]
    /\ copy = [c \in Procs |-> None] /\ link = [c \in Procs |-> "none"]
    /\ disturbed = [c \in Procs |-> FALSE]
    /\ commands = 0 /\ edits = 0
-----------------------------------------------------------------------------
(***************************************************************************)
(* The profile entries a command works with: those it loaded, changed by   *)
(* its own closure.                                                        *)
(***************************************************************************)
Wanted(c) == IF IsUpdate(op[c]) THEN Apply(seen[c], op[c]) ELSE seen[c]
EntryOf(c, p) == Wanted(c).profiles[p]
HomeOf(c) == EntryOf(c, First(todo[c])).home

Goto(c, next) ==
    /\ stage' = [stage EXCEPT ![c] = next]
    /\ UNCHANGED <<op, seen, commands, edits>>

Exit(c) ==
    /\ stage' = [stage EXCEPT ![c] = "idle"] /\ op' = [op EXCEPT ![c] = None]
    /\ seen' = [seen EXCEPT ![c] = None] /\ todo' = [todo EXCEPT ![c] = {}]
    /\ copy' = [copy EXCEPT ![c] = None]
    /\ lock' = IF lock = c THEN None ELSE lock
    /\ UNCHANGED <<commands, edits>>

Finish(c) == Exit(c) /\ link' = [link EXCEPT ![c] = "none"]

Invoke(c, o) ==
    /\ stage[c] = "idle" /\ commands < MaxCommands
    /\ commands' = commands + 1
    /\ op' = [op EXCEPT ![c] = o]
    /\ stage' = [stage EXCEPT ![c] = IF IsUpdate(o) THEN "lock" ELSE "load"]
    /\ UNCHANGED <<config, lock, files, seen, todo, copy, link, edits>>

(***************************************************************************)
(* exclude looks for the server before it waits for the lock; mcp add and  *)
(* mcp remove first have Codex change the shared servers.                  *)
(***************************************************************************)
StartCommand(c, o) ==
    /\ o.kind = "exclude" => o.server \in shared
    /\ o.kind \notin {"mcpadd", "mcpremove"}
    /\ Invoke(c, o)
    /\ UNCHANGED shared

EditShared(c, o) ==
    /\ \/ o.kind = "mcpadd" /\ shared' = shared \cup {o.server}
       \/ o.kind = "mcpremove" /\ o.server \in shared /\ shared' = shared \ {o.server}
    /\ Invoke(c, o)

\* A mistake: the configuration is loaded before the lock is taken.
LockIgnored(c) ==
    /\ stage[c] = "lock"
    /\ Allowed(config, op[c])
    /\ lock' = c
    /\ seen' = [seen EXCEPT ![c] = config]
    /\ todo' = [todo EXCEPT ![c] =
                  IF op[c].kind \in {"add", "exclude", "include"} THEN {op[c].profile} ELSE {}]
    /\ stage' = [stage EXCEPT ![c] = IF op[c].kind = "add" THEN "prepare" ELSE "read"]
    /\ UNCHANGED <<config, shared, files, op, copy, link, commands, edits>>

LockConfig(c) ==
    /\ stage[c] = "lock" /\ lock = None
    /\ Allowed(config, op[c])
    /\ lock' = c
    /\ seen' = [seen EXCEPT ![c] = config]
    /\ todo' = [todo EXCEPT ![c] =
                  IF op[c].kind \in {"add", "exclude", "include"} THEN {op[c].profile} ELSE {}]
    /\ stage' = [stage EXCEPT ![c] = IF op[c].kind = "add" THEN "prepare" ELSE "read"]
    /\ UNCHANGED <<config, shared, files, op, copy, link, commands, edits>>

Load(c) ==
    /\ stage[c] = "load" /\ lock = None
    /\ LET names == IF op[c].kind \in {"run", "sync"} /\ op[c].profile # None
                    THEN {op[c].profile} ELSE DOMAIN config.profiles
       IN /\ names \subseteq DOMAIN config.profiles
          /\ todo' = [todo EXCEPT ![c] = names]
    /\ seen' = [seen EXCEPT ![c] = config]
    /\ stage' = [stage EXCEPT ![c] = "read"]
    /\ UNCHANGED <<config, lock, shared, files, op, copy, link, commands, edits>>
-----------------------------------------------------------------------------
(***************************************************************************)
(* What is outside the block of home h has changed, and does not agree any *)
(* more with what was read before.                                         *)
(***************************************************************************)
Outdated(content) == IF content = None THEN None ELSE [content EXCEPT !.stale = TRUE]

Agrees(h, x) == file[h] # None /\ file[h].form # "mixed" /\ file[h].local = x.local

OutdateCopies(h) ==
    copy' = [d \in Procs |->
               IF stage[d] \in {"open", "write"} /\ HomeOf(d) = h THEN Outdated(copy[d]) ELSE copy[d]]

(***************************************************************************)
(* add prepares the home: it copies the config.toml of --clone-config into *)
(* that of the home and creates one if there still is none.                *)
(***************************************************************************)
Prepare(c) ==
    /\ stage[c] = "prepare"
    /\ LET h == op[c].home
           source == IF op[c].clone = None THEN None
                     ELSE file[seen[c].profiles[op[c].clone].home]
       IN /\ file' = [file EXCEPT ![h] = IF source # None THEN source
                                         ELSE IF @ # None THEN @
                                         ELSE Published(Void("whole"))]
          /\ tmp' = [tmp EXCEPT ![h] = Outdated(@)]
          /\ OutdateCopies(h)
    /\ Goto(c, "read")
    /\ UNCHANGED <<config, lock, shared, todo, link>>

(***************************************************************************)
(* sharedmcp.Sync: a server is inherited unless it is excluded or has a    *)
(* local definition; the file is written only if its bytes change, as they *)
(* may though the names of the servers stay (a definition has changed, the *)
(* block has moved), but not when there is no block and none is wanted.    *)
(***************************************************************************)
Inherited(servers, excluded, content) == (servers \ excluded) \ content.local

\* A mistake: a block that has become empty is not removed.
ChangedServers(content, block) ==
    IF block = {} THEN {FALSE} ELSE IF block # content.block THEN {TRUE} ELSE BOOLEAN
Changed(content, block) ==
    IF block # content.block THEN {TRUE} ELSE IF block = {} THEN {FALSE} ELSE BOOLEAN

\* A mistake: everything from the begin marker on is replaced.
RenderedToEnd(content, block) ==
    [local |-> IF content.block = {} THEN content.local ELSE {}, block |-> block,
     form |-> "whole", stale |-> FALSE]
Rendered(content, block) ==
    [local |-> content.local, block |-> block, form |-> "whole", stale |-> FALSE]

SyncRead(c) ==
    /\ stage[c] = "read" /\ todo[c] # {}
    /\ LET p == First(todo[c])
           content == file[HomeOf(c)]
           block == Inherited(shared, EntryOf(c, p).excluded, content)
       IN /\ content # None /\ content.form # "mixed"
          /\ \/ /\ TRUE \in Changed(content, block)
                /\ copy' = [copy EXCEPT ![c] = Rendered(content, block)]
                /\ Goto(c, "open")
                /\ UNCHANGED todo
             \/ /\ FALSE \in Changed(content, block)
                /\ todo' = [todo EXCEPT ![c] = @ \ {p}]
                /\ Goto(c, "read")
                /\ UNCHANGED copy
    /\ UNCHANGED <<config, lock, shared, files, link>>

(***************************************************************************)
(* When the names of home h change, whoever has its temporary file open    *)
(* keeps the file, under the name it then has or without one.              *)
(***************************************************************************)
Relink(h, names) ==
    link' = [d \in Procs |->
               IF stage[d] = "write" /\ HomeOf(d) = h /\ link[d] \in DOMAIN names
               THEN names[link[d]] ELSE link[d]]

(***************************************************************************)
(* os.WriteFile: the file is created, or truncated for all who have it     *)
(* open, and then written from its start.                                  *)
(***************************************************************************)
SyncOpen(c) ==
    /\ stage[c] = "open"
    /\ tmp' = [tmp EXCEPT ![HomeOf(c)] = Void("empty")]
    /\ link' = [link EXCEPT ![c] = "tmp"]
    /\ Goto(c, "write")
    /\ UNCHANGED <<config, lock, shared, file, todo, copy>>

\* Of an earlier, longer text the end stays.
Overwritten(old, new) == IF old.form = "empty" THEN {new} ELSE {new, Void("mixed")}

(***************************************************************************)
(* c writes x to the file it has open: still the temporary one, by now     *)
(* config.toml itself, or a file without a name.                           *)
(***************************************************************************)
WriteOut(c, x) ==
    LET h == HomeOf(c)
    IN \/ /\ link[c] = "tmp" /\ tmp' = [tmp EXCEPT ![h] = x]
          /\ UNCHANGED file
       \/ /\ link[c] = "file" /\ file' = [file EXCEPT ![h] = Published(x)]
          /\ tmp' = IF Agrees(h, x) THEN tmp ELSE [tmp EXCEPT ![h] = Outdated(@)]
       \/ link[c] = "lost" /\ UNCHANGED files

Opened(c) ==
    IF link[c] = "tmp" THEN tmp[HomeOf(c)]
    ELSE IF link[c] = "file" THEN file[HomeOf(c)] ELSE Void("empty")

SyncWrite(c) ==
    /\ stage[c] = "write"
    /\ \E x \in Overwritten(Opened(c), copy[c]) : WriteOut(c, x)
    /\ IF link[c] # "file" \/ Agrees(HomeOf(c), copy[c])
       THEN UNCHANGED copy ELSE OutdateCopies(HomeOf(c))
    /\ link' = [link EXCEPT ![c] = "none"]
    /\ Goto(c, "rename")
    /\ UNCHANGED <<config, lock, shared, todo>>

(***************************************************************************)
(* Only a part could be written.                                           *)
(***************************************************************************)
SyncWriteFails(c) ==
    /\ stage[c] = "write"
    /\ WriteOut(c, Void("mixed"))
    /\ Finish(c)
    /\ UNCHANGED <<config, shared>>

(***************************************************************************)
(* Another process may have truncated or written the temporary file since, *)
(* and this renames what is there, or have renamed it: then this rename    *)
(* fails and whatever has the name by then is removed.                     *)
(***************************************************************************)
SyncRename(c) ==
    /\ stage[c] = "rename"
    /\ LET h == HomeOf(c)
       IN /\ tmp[h] # None
          /\ file' = [file EXCEPT ![h] = Published(tmp[h])]
          /\ tmp' = [tmp EXCEPT ![h] = None]
          /\ Relink(h, [tmp |-> "file", file |-> "lost"])
          /\ IF Agrees(h, tmp[h])
             THEN UNCHANGED copy ELSE OutdateCopies(h)
          /\ todo' = [todo EXCEPT ![c] = @ \ {First(todo[c])}]
    /\ Goto(c, "read")
    /\ UNCHANGED <<config, lock, shared>>

SyncRenameFails(c) ==
    /\ stage[c] = "rename" /\ tmp[HomeOf(c)] = None
    /\ Goto(c, "cleanup")
    /\ UNCHANGED <<config, lock, shared, files, todo, copy, link>>

SyncCleanup(c) ==
    /\ stage[c] = "cleanup"
    /\ tmp' = [tmp EXCEPT ![HomeOf(c)] = None]
    /\ Relink(HomeOf(c), [tmp |-> "lost"])
    /\ Exit(c)
    /\ UNCHANGED <<config, shared, file>>

SyncDone(c) ==
    /\ stage[c] = "read" /\ todo[c] = {}
    /\ \/ IsUpdate(op[c]) /\ Goto(c, "commit") /\ UNCHANGED <<lock, todo, copy, link>>
       \/ op[c].kind = "run" /\ Goto(c, "launch") /\ UNCHANGED <<lock, todo, copy, link>>
       \/ op[c].kind \in {"sync", "mcpadd", "mcpremove"} /\ Finish(c)
    /\ UNCHANGED <<config, shared, files>>

Commit(c) ==
    /\ stage[c] = "commit"
    /\ config' = Apply(seen[c], op[c])
    /\ IF op[c].kind = "remove" /\ op[c].deleteHome
       THEN /\ Goto(c, "delete")
            /\ lock' = None
            /\ UNCHANGED <<todo, copy, link>>
       ELSE Finish(c)
    /\ UNCHANGED <<shared, files>>

(***************************************************************************)
(* remove --delete-home deletes the home after it has released the lock.   *)
(***************************************************************************)
DeleteHome(c) ==
    /\ stage[c] = "delete"
    /\ LET h == seen[c].profiles[op[c].profile].home
       IN /\ file' = [file EXCEPT ![h] = None]
          /\ tmp' = [tmp EXCEPT ![h] = None]
          /\ Relink(h, [tmp |-> "lost", file |-> "lost"])
    /\ Exit(c)
    /\ UNCHANGED <<config, shared>>

Launch(c) ==
    /\ stage[c] = "launch"
    /\ Finish(c)
    /\ UNCHANGED <<config, shared, files>>

(***************************************************************************)
(* An error, a lock timeout or the death of the process ends a command at  *)
(* any point; what it has written stays.                                   *)
(***************************************************************************)
Fail(c) ==
    /\ stage[c] # "idle"
    /\ Finish(c)
    /\ UNCHANGED <<config, shared, files>>

(***************************************************************************)
(* Codex and the user edit a config.toml outside the block, in place or in *)
(* a new file that takes its name.                                         *)
(***************************************************************************)
EditSettings(h, settings) ==
    /\ edits < MaxEdits
    /\ file[h] # None /\ file[h].form # "mixed" /\ file[h].local # settings
    /\ edits' = edits + 1
    /\ file' = [file EXCEPT ![h] = [@ EXCEPT !.local = settings, !.form = "whole"]]
    /\ tmp' = [tmp EXCEPT ![h] = Outdated(@)]
    /\ OutdateCopies(h)
    /\ UNCHANGED link \/ Relink(h, [file |-> "lost"])
    /\ UNCHANGED <<config, lock, shared, stage, op, seen, todo, commands>>
-----------------------------------------------------------------------------
(***************************************************************************)
(* History: whether, since process d loaded the configuration, anybody     *)
(* else has touched what d synchronizes for the profile it is about.       *)
(***************************************************************************)
Watching(o) == o.kind \in {"run", "add", "exclude", "include"}
Loaded(d) == stage[d] \notin {"idle", "lock", "load"}

Touched(d) ==
    LET p == op[d].profile
        h == EntryOf(d, p).home
    IN \/ shared' # shared
       \/ file'[h] # file[h] \/ tmp'[h] # tmp[h]
       \/ ~IsUpdate(op[d]) /\ (p \notin DOMAIN config'.profiles
                               \/ config'.profiles[p] # seen[d].profiles[p])

Watch(others) ==
    disturbed' = [d \in Procs |->
        /\ stage'[d] # "idle" /\ Watching(op'[d])
        /\ disturbed[d] \/ (d \in others /\ Loaded(d) /\ Touched(d))]

Command(c) ==
    \/ \E o \in Commands : StartCommand(c, o) \/ EditShared(c, o)
    \/ LockConfig(c) \/ Load(c) \/ Prepare(c)
    \/ SyncRead(c) \/ SyncOpen(c) \/ SyncWrite(c) \/ SyncWriteFails(c)
    \/ SyncRename(c) \/ SyncRenameFails(c) \/ SyncCleanup(c) \/ SyncDone(c)
    \/ Commit(c) \/ DeleteHome(c) \/ Launch(c) \/ Fail(c)

Next ==
    \/ \E c \in Procs : Command(c) /\ Watch(Procs \ {c})
    \/ \E h \in Homes, settings \in SUBSET Servers : EditSettings(h, settings) /\ Watch(Procs)

Spec == Init /\ [][Next]_vars
-----------------------------------------------------------------------------
(***************************************************************************)
(* The comment of Update (config.go:172) and README.md:515: whatever the   *)
(* commands do at once, bindings and the default name existing profiles.   *)
(* That config.json changes only by whole updates is StoreSpec.            *)
(***************************************************************************)
ReferencesValid == Consistent(config)

(***************************************************************************)
(* README.md:352: `run` repairs any drift before it starts Codex, and add, *)
(* exclude and include save the profile in line with its home, unless      *)
(* another process changes the shared servers, the profile or its home     *)
(* meanwhile.                                                              *)
(***************************************************************************)
SyncsBeforeUse ==
    \A c \in Procs :
        stage[c] \in {"launch", "commit"} /\ Watching(op[c]) /\ ~disturbed[c] =>
            LET entry == EntryOf(c, op[c].profile)
                content == file[entry.home]
            IN /\ content # None
               /\ content.block = Inherited(shared, entry.excluded, content)
               /\ op[c].kind = "run" => entry = config.profiles[op[c].profile]

(***************************************************************************)
(* README.md:347: synchronization updates nothing but the marked block.    *)
(* A write or a rename changes the settings of a config.toml only if they  *)
(* changed after they had been read for it, or if the file is torn: empty  *)
(* or mixed, because another process was between its truncation and its    *)
(* write of the same temporary file, or wrote it too.                      *)
(***************************************************************************)
Keeps(h, stale) ==
    file[h] = None \/ file[h].form = "mixed" \/ file'[h].local = file[h].local \/ stale

SyncKeepsSettings ==
    [][\A c \in Procs :
         LET h == HomeOf(c)
         IN /\ SyncWrite(c) => Keeps(h, copy[c].stale) \/ file'[h].form # "whole"
            /\ SyncRename(c) => Keeps(h, tmp[h].stale) \/ file'[h].form # "whole"]_vars
=============================================================================
