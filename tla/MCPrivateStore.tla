---- MODULE MCPrivateStore ----
(***************************************************************************)
(* Three invocations persist a complete run and two later incomplete ones  *)
(* with a history window of one run, so the third run's baseline lies      *)
(* outside the window.  A lock outlives its holder by exactly one second.  *)
(***************************************************************************)
EXTENDS PrivateStore, TLC

CONSTANTS r1, r2, r3

MCRuns == {r1, r2, r3}
MCSortKey == r1 :> 1 @@ r2 :> 2 @@ r3 :> 3
MCComplete == {r1}

Symmetry == Permutations(Invocations)
====
