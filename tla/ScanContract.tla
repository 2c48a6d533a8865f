---- MODULE ScanContract ----
(***************************************************************************)
(* What every scanner of the auditor shares: severities, the identity of a *)
(* finding, time-bounded exceptions and the classification of a scan       *)
(* (models/contracts.py, severity.py, exceptions.py).                      *)
(***************************************************************************)
EXTENDS Naturals

CONSTANT None

----
(* Severities and classification *)

\* Lower is more urgent.
Rank == [CRITICAL |-> 0, HIGH |-> 1, MEDIUM |-> 2, LOW |-> 3, INFO |-> 4]

AtLeast(severity, threshold) == Rank[severity] <= Rank[threshold]

\* classify_scan: missing data is never a pass, a crash is an error.
ClassifyScan(errors, gate) ==
    CASE \E e \in errors : e.operation = "collect" \/ e.category = "scanner_error" -> "ERROR"
      [] errors # {} /\ ~\E e \in errors : e.operation = "collect" \/ e.category = "scanner_error"
            -> "UNKNOWN"
      [] errors = {} /\ gate = "FAIL" -> "FAIL"
      [] OTHER -> "PASS"

ExitCode == [PASS |-> 0, FAIL |-> 1, ERROR |-> 2, UNKNOWN |-> 3]

----
(* Findings *)

\* A stable resource identifies a finding; only without one does its place.
Identity(f) ==
    IF f.resource # None THEN [resource_reference |-> f.resource]
                         ELSE [source_location |-> f.location]

\* Scanner, title, severity and evidence are left out on purpose.
Fingerprint(f) ==
    [control |-> f.control, source_type |-> f.source_type, identity |-> Identity(f),
     account |-> f.account, region |-> f.region]

----
(* Exceptions: records with a scope, created and expires *)

\* One malformed record refuses the whole file.
LoadableExceptions(records, now) ==
    \A x \in records : x.created <= now /\ x.created < x.expires

Matches(f, x) ==
    CASE x.scope = "fingerprint" -> Fingerprint(f) = x.fingerprint
      [] x.scope = "resource" -> f.control = x.control /\ f.resource = x.resource
      [] OTHER -> f.control = x.control /\ f.location # None /\ f.location.file = x.file

Active(x, now) == x.created <= now /\ now <= x.expires

Gates_ExpiredCounts(f, exceptions, threshold, now) ==
    AtLeast(f.severity, threshold) /\ ~\E x \in exceptions : Matches(f, x)

\* evaluate_exceptions keeps every finding and only takes it out of the gate.
Gates(f, exceptions, threshold, now) ==
    /\ AtLeast(f.severity, threshold)
    /\ ~\E x \in exceptions : Matches(f, x) /\ Active(x, now)
====
