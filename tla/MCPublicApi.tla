---- MODULE MCPublicApi ----
(* One invocation at a time and its successors, beside one reader: an older   *)
(* scan, two complete scans, and an incomplete one newer than both.           *)
EXTENDS PublicApi, TLC

CONSTANTS r1, r2, r3

MCRuns == {r1, r2, r3}

\* r3 ends last, without complete coverage.
MCCompletedAt == r1 :> 1 @@ r2 :> 2 @@ r3 :> 3
MCScanStatus == r1 :> "PASS" @@ r2 :> "FAIL" @@ r3 :> "UNKNOWN"
MCScopesComplete == r1 :> TRUE @@ r2 :> TRUE @@ r3 :> FALSE
MCTimes == {2}

MCSymmetry == Permutations(Bodies)
====
