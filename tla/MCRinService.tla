---- MODULE MCRinService ----
(***************************************************************************)
(* Three questions of two sessions over one midnight, with one response    *)
(* lost: the session limit and the daily cap are both within reach.        *)
(***************************************************************************)
EXTENDS RinService, TLC

CONSTANTS q1, q2, q3, s1, s2

MCQuestions == {q1, q2, q3}
MCSessions == {s1, s2}

MCSymmetry == Permutations(MCQuestions)
====
