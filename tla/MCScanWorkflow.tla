---- MODULE MCScanWorkflow ----
(***************************************************************************)
(* Two overlapping executions of complete scans, r2 a second newer.        *)
(***************************************************************************)
EXTENDS ScanWorkflow

CONSTANTS r1, r2

MCCompletedAt == [r \in Runs |-> IF r = r2 THEN 1 ELSE 0]
MCScanStatus == [r \in Runs |-> "FAIL"]
MCScopesComplete == [r \in Runs |-> TRUE]
====
