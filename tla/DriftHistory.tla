---- MODULE DriftHistory ----
(***************************************************************************)
(* HistoryStore.record_scan (auditor/history.py): immutable fleet runs and *)
(* the drift of each against the newest run that covered the same scope    *)
(* completely.  One call is one BEGIN IMMEDIATE transaction, so a step.    *)
(* Runs arrive in any order and more than once: scans overlap, and the     *)
(* private snapshot store replays its history into a new database.         *)
(***************************************************************************)
EXTENDS ScanContract

CONSTANTS
    Runs,
    Scopes,       \* (account, service, region)
    Fingerprints,
    ScopeOf,      \* a fingerprint's control, account and region fix its scope
    Signatures,   \* severity, texts, evidence and remediation of a finding
    SortKey       \* run -> place in ORDER BY completed_at, run_id

ASSUME DriftAssumption ==
    /\ ScopeOf \in [Fingerprints -> Scopes]
    /\ SortKey \in [Runs -> Nat]
    /\ \A r, s \in Runs : SortKey[r] = SortKey[s] => r = s
    /\ None \notin Signatures

Reports == [coverage : [Scopes -> {"absent", "incomplete", "complete"}],
            findings : [Fingerprints -> Signatures \cup {None}]]

States == {"new", "persistent", "changed", "resolved", "unknown"}

DriftRows == [Fingerprints -> States \cup {None}]

ASSUME NoneAssumption == None \notin Reports \cup States \cup DriftRows

VARIABLES
    runs,   \* run -> None or its report
    drift   \* run -> None or its drift rows: fingerprint -> state, None for no row

historyVars == <<runs, drift>>

----
(* Data *)

Recorded == {r \in Runs : runs[r] # None}

Valid_AnyScope(report) == TRUE

\* _validate_report: a finding's scope is in the coverage.
Valid(report) ==
    \A f \in Fingerprints :
        report.findings[f] # None => report.coverage[ScopeOf[f]] # "absent"

\* Runs that may be a scope's baseline.
Candidates_AnyCoverage(scope) == {r \in Recorded : runs[r].coverage[scope] # "absent"}

Candidates(scope) == {r \in Recorded : runs[r].coverage[scope] = "complete"}

\* The newest of them: ORDER BY completed_at DESC, run_id DESC LIMIT 1.
Baseline(scope) ==
    {r \in Candidates(scope) : \A s \in Candidates(scope) : SortKey[s] <= SortKey[r]}

\* _previous_findings: what the baseline found, nothing without a baseline.
Previous(f) ==
    IF Baseline(ScopeOf[f]) = {} THEN None
    ELSE runs[CHOOSE r \in Baseline(ScopeOf[f]) : TRUE].findings[f]

Missing_Resolved(coverage) == "resolved"

\* State of a previous finding that the scan did not report.
Missing(coverage) == IF coverage = "complete" THEN "resolved" ELSE "unknown"

\* The row of one fingerprint in a covered scope.
Row(previous, current, coverage) ==
    CASE current = None /\ previous = None -> None
      [] current = None /\ previous # None -> Missing(coverage)
      [] current # None /\ previous = None -> "new"
      [] current # None /\ previous = current -> "persistent"
      [] OTHER -> "changed"

DriftOf(report) ==
    [f \in Fingerprints |->
        LET coverage == report.coverage[ScopeOf[f]]
        IN  IF coverage = "absent" THEN None
            ELSE Row(Previous(f), report.findings[f], coverage)]

Unseen_Replaces(r, report) == TRUE

\* "run ID already exists with different contents", and the stored drift is
\* returned when the contents are the same.
Unseen(r, report) == runs[r] = None

----
(* Steps *)

HistoryInit ==
    /\ runs = [r \in Runs |-> None]
    /\ drift = [r \in Runs |-> None]

RecordScan(r, report) ==
    /\ Valid(report)
    /\ Unseen(r, report)
    /\ runs' = [runs EXCEPT ![r] = report]
    /\ drift' = [drift EXCEPT ![r] = DriftOf(report)]

HistoryNext == \E r \in Runs, report \in Reports : RecordScan(r, report)

HistorySpec == HistoryInit /\ [][HistoryNext]_historyVars

----
(* Properties *)

\* Runs and drift rows have their shapes, every run has its drift, and drift
\* is recorded only for scopes the run covered.
TypeOK ==
    /\ runs \in [Runs -> {None} \cup {p \in Reports : Valid(p)}]
    /\ drift \in [Runs -> {None} \cup DriftRows]
    /\ \A r \in Runs : runs[r] # None <=> drift[r] # None
    /\ \A r \in Recorded, f \in Fingerprints :
          runs[r].findings[f] # None => drift[r][f] \in {"new", "persistent", "changed"}

\* The scope's complete scans that no later complete scan supersedes.
LastComplete(scope) ==
    LET complete == {r \in Runs : runs[r] # None /\ runs[r].coverage[scope] = "complete"}
    IN  {r \in complete : ~ \E s \in complete : SortKey[s] > SortKey[r]}

\* The findings open in a scope, as its last complete scan saw them.
Open(scope) ==
    {f \in Fingerprints :
        ScopeOf[f] = scope /\ \E r \in LastComplete(scope) : runs[r].findings[f] # None}

\* What somebody who follows the drift rows alone takes to be open next.
Replayed(open, rows, scope) ==
    (open \ {f \in open : rows[f] = "resolved"})
        \cup {f \in Fingerprints : ScopeOf[f] = scope /\ rows[f] \in {"new", "persistent", "changed"}}

\* The drift of complete scans is lossless: whatever partial scans came in
\* between, applying a new complete scan's rows to the findings that the last
\* complete one left open gives the findings the new one saw.
DriftReplays ==
    [][\A r \in Runs, scope \in Scopes :
          /\ runs[r] = None /\ runs'[r] # None
          /\ runs'[r].coverage[scope] = "complete"
          /\ \A s \in Recorded : SortKey[s] < SortKey[r]
          => /\ Replayed(Open(scope), drift'[r], scope) = Open(scope)'
             /\ \A f \in Fingerprints : ScopeOf[f] = scope => drift'[r][f] # "unknown"
      ]_historyVars

\* "An incomplete scope cannot resolve findings or replace the last complete
\* baseline for that scope" (docs/fleet-scanning.md:41-42); neither can an
\* older scan recorded late, or a run recorded again, under its own id with
\* other contents or not.  Every scan, complete or not, early or late, is
\* compared with exactly the findings that baseline left open.
BaselineProtected ==
    [][/\ \A scope \in Scopes :
             Open(scope)' # Open(scope) =>
                \E r \in Runs :
                   /\ runs[r] = None /\ runs'[r] # None
                   /\ runs'[r].coverage[scope] = "complete"
                   /\ \A b \in LastComplete(scope) : SortKey[b] < SortKey[r]
       /\ \A r \in Runs, f \in Fingerprints :
             drift'[r] # drift[r] /\ drift'[r][f] # None =>
                /\ drift'[r][f] = "new" <=> f \notin Open(ScopeOf[f])
                /\ drift'[r][f] = "resolved" => runs'[r].coverage[ScopeOf[f]] = "complete"
      ]_historyVars
====
