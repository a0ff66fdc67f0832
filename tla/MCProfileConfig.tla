-------------------------- MODULE MCProfileConfig --------------------------
(***************************************************************************)
(* Two profiles and a home for each, a shared server, a project directory  *)
(* and the commands that touch them.                                       *)
(***************************************************************************)
EXTENDS ProfileConfig, FiniteSets, TLC

CONSTANTS h1, h2, s, d

MCProfiles == {1, 2}
MCHomes == {h1, h2}
MCServers == {s}
MCPaths == {d}

MCCommands ==
    [kind : {"add"}, profile : {2}, home : {h2}, clone : {1}, path : {None}]
    \cup [kind : {"remove"}, profile : {2}, deleteHome : {TRUE}]
    \cup [kind : {"bind"}, profile : {1}, path : {d}]
    \cup [kind : {"exclude"}, profile : {1}, server : {s}]
    \cup [kind : {"default"}, profile : {2}]
    \cup [kind : {"run"}, profile : {1}]
    \cup [kind : {"mcpadd", "mcpremove"}, server : {s}]

(***************************************************************************)
(* Profiles start with their own homes and without exclusions, the second  *)
(* one bound to the directory and in line with the shared servers; nothing *)
(* is left of removed ones.                                                *)
(***************************************************************************)
Own(p) == IF p = 1 THEN h1 ELSE h2

ProcSymmetry == Permutations(Procs)

MCInit ==
    /\ Init
    /\ DOMAIN config.profiles \in {{1}, {1, 2}}
    /\ \A p \in DOMAIN config.profiles : config.profiles[p] = [home |-> Own(p), excluded |-> {}]
    /\ config.default = 1
    /\ config.bindings = IF 2 \in DOMAIN config.profiles THEN [x \in {d} |-> 2] ELSE <<>>
    /\ \A p \in Profiles : file[Own(p)] # None <=> p \in DOMAIN config.profiles
    /\ \A h \in Homes : file[h] # None => file[h].local = {} /\ file[h].form = "whole"
    /\ file[h2] # None => file[h2].block = shared

MCSpec == MCInit /\ [][Next]_vars
=============================================================================
