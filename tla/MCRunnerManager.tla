-------------------------- MODULE MCRunnerManager --------------------------
(***************************************************************************)
(* Two bundles with one service name, or with a name each.                 *)
(***************************************************************************)
EXTENDS RunnerManager, TLC

CONSTANTS p1, p2

MCBundles == {"b1", "b2"}
MCShared == [b \in MCBundles |-> "s1"]
MCSeparate == [b \in MCBundles |-> IF b = "b1" THEN "s1" ELSE "s2"]
MCSymmetry == Permutations({p1, p2})
=============================================================================
