---- MODULE MCPublisher ----
(***************************************************************************)
(* Three complete runs, two of which finished in the same second, and one  *)
(* incomplete run newer than all of them.                                  *)
(***************************************************************************)
EXTENDS Publisher, TLC

CONSTANTS r1, r2, r3, r4

MCRuns == {r1, r2, r3, r4}
MCCompletedAt == r1 :> 1 @@ r2 :> 2 @@ r3 :> 2 @@ r4 :> 3
MCScanStatus == r1 :> "FAIL" @@ r2 :> "PASS" @@ r3 :> "FAIL" @@ r4 :> "UNKNOWN"
MCScopesComplete == r1 :> TRUE @@ r2 :> TRUE @@ r3 :> TRUE @@ r4 :> FALSE
MCTimes == {2}

\* r2 and r3 differ only in their status, so only workers and bodies are
\* interchangeable.
Symmetry == Permutations(Workers) \cup Permutations(Bodies)
====
