---- MODULE RunLog ----
(***************************************************************************)
(* What the private run history promises: scans of the account are         *)
(* recorded one at a time, each exactly once and for ever, and each is     *)
(* compared with the history as it stood at that instant.                  *)
(***************************************************************************)
CONSTANTS
    Runs,
    PriorOf(_),   \* recorded runs -> the runs a new scan is compared with
    None

VARIABLE recorded  \* run -> None, or the prior runs its drift was computed from

Recorded == {r \in Runs : recorded[r] # None}

Init == recorded = [r \in Runs |-> None]

Record(r) ==
    /\ recorded[r] = None
    /\ recorded' = [recorded EXCEPT ![r] = PriorOf(Recorded)]

Next == \E r \in Runs : Record(r)

Spec == Init /\ [][Next]_recorded
====
