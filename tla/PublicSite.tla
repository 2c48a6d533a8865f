---- MODULE PublicSite ----
(***************************************************************************)
(* What the public console promises: it shows either nothing or one        *)
(* complete scan, rendered to one fixed body, and the only way the shown   *)
(* scan changes is a single-step swap to a strictly newer complete scan.   *)
(* Publisher implements this with an immutable S3 object, a run index and  *)
(* a conditional DynamoDB pointer.                                         *)
(***************************************************************************)
EXTENDS Naturals

CONSTANTS
    Publishable,  \* complete scan runs
    Bodies,       \* renderings of a run's redacted snapshot
    CompletedAt,  \* run -> completion time
    None

VARIABLE shown    \* None, or the run and the body the console serves

Init == shown = None

\* The pointer moves to a complete run that is newer than the shown one.
Swap(r, b) ==
    /\ shown # None => CompletedAt[shown.run] < CompletedAt[r]
    /\ shown' = [run |-> r, body |-> b]

Next == \E r \in Publishable, b \in Bodies : Swap(r, b)

Spec == Init /\ [][Next]_shown
====
