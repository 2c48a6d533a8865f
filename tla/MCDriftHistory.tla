---- MODULE MCDriftHistory ----
(***************************************************************************)
(* Three runs in every order over two scopes, with a finding each, that    *)
(* may keep or change its contents.                                        *)
(***************************************************************************)
EXTENDS DriftHistory, TLC

CONSTANTS r1, r2, r3, s1, s2, f1, f2, a, b

MCRuns == {r1, r2, r3}
MCScopes == {s1, s2}
MCFingerprints == {f1, f2}
MCSignatures == {a, b}
MCScopeOf == f1 :> s1 @@ f2 :> s2
MCSortKey == r1 :> 1 @@ r2 :> 2 @@ r3 :> 3

\* The two contents are interchangeable; runs are not, SortKey orders them.
MCSymmetry == Permutations(MCSignatures)
====
