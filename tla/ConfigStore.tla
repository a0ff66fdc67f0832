---------------------------- MODULE ConfigStore ----------------------------
(***************************************************************************)
(* What internal/config promises of config.json: every command that        *)
(* changes the configuration does so in one indivisible step on its        *)
(* current contents (config.go:172, Update).  The operators are the        *)
(* closures the commands of internal/cli hand to Update.                   *)
(***************************************************************************)
EXTENDS Naturals

CONSTANTS
    Profiles,  \* profile names, each by its rank in sorted order
    Paths,     \* directories that can be bound
    Servers,   \* names of shared MCP servers
    Homes,     \* CODEX_HOME directories
    None

ASSUME ProfileNames == Profiles \subseteq Nat /\ None \notin Profiles /\ None \notin Paths

VARIABLE config

Entry == [home : Homes, excluded : SUBSET Servers]

Configs ==
    [profiles : UNION {[P -> Entry] : P \in SUBSET Profiles},
     default  : Profiles \cup {None},
     bindings : UNION {[D -> Profiles] : D \in SUBSET Paths}]

(***************************************************************************)
(* The commands that change config.json.                                   *)
(***************************************************************************)
Updates ==
    [kind : {"add"}, profile : Profiles, home : Homes,
     clone : Profiles \cup {None}, path : Paths \cup {None}]
    \cup [kind : {"remove"}, profile : Profiles, deleteHome : BOOLEAN]
    \cup [kind : {"default"}, profile : Profiles \cup {None}]
    \cup [kind : {"bind"}, profile : Profiles, path : Paths]
    \cup [kind : {"unbind"}, path : Paths]
    \cup [kind : {"exclude", "include"}, profile : Profiles, server : Servers]

Put(f, x, value) == [y \in DOMAIN f \cup {x} |-> IF y = x THEN value ELSE f[y]]
Keep(f, S) == [x \in S |-> f[x]]

First(names) == CHOOSE p \in names : \A q \in names : p <= q

\* A mistake: the empty --bind of an add is stored as a path.
AddedAlwaysBound(cfg, o) ==
    [profiles |-> Put(cfg.profiles, o.profile, [home |-> o.home, excluded |-> {}]),
     default  |-> IF cfg.default = None THEN o.profile ELSE cfg.default,
     bindings |-> Put(cfg.bindings, o.path, o.profile)]

Added(cfg, o) ==
    [profiles |-> Put(cfg.profiles, o.profile, [home |-> o.home, excluded |-> {}]),
     default  |-> IF cfg.default = None THEN o.profile ELSE cfg.default,
     bindings |-> IF o.path = None THEN cfg.bindings ELSE Put(cfg.bindings, o.path, o.profile)]

\* A mistake: the bindings of a removed profile stay.
RemovedOnlyEntry(cfg, p) ==
    LET rest == DOMAIN cfg.profiles \ {p} IN
    [cfg EXCEPT
       !.profiles = Keep(@, rest),
       !.default = IF @ # p THEN @ ELSE IF rest = {} THEN None ELSE First(rest)]

Removed(cfg, p) ==
    LET rest == DOMAIN cfg.profiles \ {p} IN
    [profiles |-> Keep(cfg.profiles, rest),
     default  |-> IF cfg.default # p THEN cfg.default
                  ELSE IF rest = {} THEN None ELSE First(rest),
     bindings |-> Keep(cfg.bindings, {d \in DOMAIN cfg.bindings : cfg.bindings[d] # p})]

SetMCPExcluded(cfg, p, server, out) ==
    [cfg EXCEPT !.profiles[p].excluded = IF out THEN @ \cup {server} ELSE @ \ {server}]

(***************************************************************************)
(* Whether a closure returns no error, and what it makes of the            *)
(* configuration.                                                          *)
(***************************************************************************)
Allowed(cfg, o) ==
    \/ /\ o.kind = "add"
       /\ o.profile \notin DOMAIN cfg.profiles
       /\ o.clone \in DOMAIN cfg.profiles \cup {None}
    \/ o.kind = "default" /\ o.profile \in DOMAIN cfg.profiles \cup {None}
    \/ o.kind = "unbind" /\ o.path \in DOMAIN cfg.bindings
    \/ /\ o.kind \in {"remove", "bind", "exclude", "include"}
       /\ o.profile \in DOMAIN cfg.profiles

Apply(cfg, o) ==
    CASE o.kind = "add" -> Added(cfg, o)
      [] o.kind = "remove" -> Removed(cfg, o.profile)
      [] o.kind = "default" -> [cfg EXCEPT !.default = o.profile]
      [] o.kind = "bind" -> [cfg EXCEPT !.bindings = Put(@, o.path, o.profile)]
      [] o.kind = "unbind" -> [cfg EXCEPT !.bindings = Keep(@, DOMAIN @ \ {o.path})]
      [] OTHER -> SetMCPExcluded(cfg, o.profile, o.server, o.kind = "exclude")
-----------------------------------------------------------------------------
(***************************************************************************)
(* Bindings and the default name profiles that exist, which `codexm        *)
(* doctor` checks (cli.go:604, README.md:515).                             *)
(***************************************************************************)
Consistent(cfg) ==
    /\ cfg.default \in DOMAIN cfg.profiles \cup {None}
    /\ \A d \in DOMAIN cfg.bindings : cfg.bindings[d] \in DOMAIN cfg.profiles

StoreInit == config \in Configs /\ Consistent(config)

Update(o) == Allowed(config, o) /\ config' = Apply(config, o)

StoreNext == \E o \in Updates : Update(o)

StoreSpec == StoreInit /\ [][StoreNext]_config
=============================================================================
