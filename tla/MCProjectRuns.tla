--------------------------- MODULE MCProjectRuns ---------------------------
(***************************************************************************)
(* Two terminals with one profile in checkout c1, and one with another     *)
(* profile in checkout c2.  The first profile's user also goes to a        *)
(* directory outside both, the other's into the first checkout.            *)
(***************************************************************************)
EXTENDS ProjectRuns, TLC

CONSTANTS t1, t2, t3, a, b, c1, c2, s1, s2, dir1, dir2, away, other

MCLine == Paths \cup {Portable}
MCCheckoutOf == [t \in Terminals |-> IF t = t3 THEN c2 ELSE c1]
MCProfileOf == [t \in Terminals |-> IF t = t3 THEN b ELSE a]
MCVisited == [p \in Profiles |-> IF p = a THEN {away} ELSE {dir1}]
MCHomePath == [c \in Checkouts |-> IF c = c1 THEN dir1 ELSE dir2]

Symmetry == Permutations(Terminals \ {t3}) \cup Permutations(Sessions)
=============================================================================
