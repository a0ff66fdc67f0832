--------------------------- MODULE MCSessionSync ---------------------------
(***************************************************************************)
(* Small instances of SessionSync.  Two profiles share one project.        *)
(***************************************************************************)
EXTENDS SessionSync

Symmetry == Permutations(Profiles) \cup Permutations(Line)

\* `session sync` and `session init --import-existing` over one project.
AllEligible == {Sessions}

\* The start of `codexm run` exports nothing new; its end, everything new.
RunEligible == {{}, Sessions}

BothWinners == {"project", "profile"}
ProjectWins == {"project"}
=============================================================================
