---- MODULE FleetHistory_proofs ----
(***************************************************************************)
(* Proofs about FleetScan and about DriftHistory, into which it records:   *)
(* for any configured accounts, regions and services, any invocations, any *)
(* number of changes to the accounts while they are read, and any runs.    *)
(*                                                                         *)
(* The history comes first.  The fleet scan has three layers of invariant: *)
(* where a scan is and who holds the lock (PlaceInv, LockInv); what the    *)
(* report covers there (ScanInv); and what it tells of the accounts        *)
(* (TellInv), which rests on what the rules say of a view (Shown) and on   *)
(* the settings from which the answers in it may have come (Entry).        *)
(***************************************************************************)
EXTENDS DriftHistory, FleetScan, SequenceTheorems, WellFoundedInduction, TLAPS

----
(* The history of runs and their drift *)

\* What one transaction writes: one report and its drift, under an id that was free.
LEMMA RecordWrites ==
    ASSUME TypeOK, NEW r \in Runs, NEW reported \in Reports, RecordScan(r, reported)
    PROVE  /\ runs[r] = None /\ reported # None /\ Valid(reported)
           /\ \A s \in Runs : runs'[s] = IF s = r THEN reported ELSE runs[s]
           /\ \A s \in Runs : drift'[s] = IF s = r THEN DriftOf(reported) ELSE drift[s]
BY NoneAssumption DEF RecordScan, Unseen, TypeOK

\* The parts of a report have their types.
LEMMA ReportTyped ==
    ASSUME NEW p \in Reports
    PROVE  /\ \A s \in Scopes : p.coverage[s] \in {"absent", "incomplete", "complete"}
           /\ \A f \in Fingerprints : p.findings[f] \in Signatures \cup {None}
           /\ \A f \in Fingerprints : ScopeOf[f] \in Scopes
BY DriftAssumption DEF Reports

\* ORDER BY ... LIMIT 1 selects the scan that the properties call the last complete
\* one, and there is at most one: the order is total.
LEMMA BaselineIsLast ==
    ASSUME NEW scope
    PROVE  /\ Baseline(scope) = LastComplete(scope)
           /\ \A r, s \in Baseline(scope) : r = s
<1>1. \A r \in Runs : SortKey[r] \in Nat
  BY DriftAssumption
<1>2. Baseline(scope) = LastComplete(scope)
  BY <1>1 DEF Baseline, LastComplete, Candidates, Recorded
<1>3. ASSUME NEW r \in Baseline(scope), NEW s \in Baseline(scope) PROVE r = s
  <2>1. r \in Runs /\ s \in Runs
    BY DEF Baseline, Candidates, Recorded
  <2>2. SortKey[r] <= SortKey[s] /\ SortKey[s] <= SortKey[r]
    BY DEF Baseline
  <2>3. SortKey[r] = SortKey[s]
    BY <1>1, <2>1, <2>2
  <2> QED BY <2>1, <2>3, DriftAssumption
<1> QED BY <1>2, <1>3

\* _previous_findings looks up exactly what is open in the finding's scope.
LEMMA PreviousIsOpen ==
    ASSUME NEW f \in Fingerprints
    PROVE  Previous(f) = None <=> f \notin Open(ScopeOf[f])
<1> DEFINE scope == ScopeOf[f]
<1>1. Open(scope) = {g \in Fingerprints : ScopeOf[g] = scope /\ \E r \in Baseline(scope) : runs[r].findings[g] # None}
  BY BaselineIsLast DEF Open
<1>2. CASE Baseline(scope) = {}
  BY <1>1, <1>2 DEF Previous
<1>3. CASE Baseline(scope) # {}
  <2>1. PICK b : b \in Baseline(scope)
    BY <1>3
  <2>2. \A r \in Baseline(scope) : r = b
    BY <2>1, BaselineIsLast
  <2>3. (CHOOSE r \in Baseline(scope) : TRUE) = b
    BY <2>1, <2>2
  <2>4. Previous(f) = runs[b].findings[f]
    BY <1>3, <2>3 DEF Previous
  <2>5. f \in Open(scope) <=> runs[b].findings[f] # None
    BY <1>1, <2>1, <2>2
  <2> QED BY <2>4, <2>5
<1> QED BY <1>2, <1>3

\* What was found before is the contents of a finding, or nothing.
LEMMA PreviousTyped ==
    ASSUME TypeOK, NEW f \in Fingerprints
    PROVE  Previous(f) \in Signatures \cup {None}
<1> DEFINE scope == ScopeOf[f]
<1>1. CASE Baseline(scope) = {}
  BY <1>1 DEF Previous
<1>2. CASE Baseline(scope) # {}
  <2>1. (CHOOSE r \in Baseline(scope) : TRUE) \in Baseline(scope)
    BY <1>2
  <2>2. \A r \in Baseline(scope) : runs[r] \in Reports
    BY DEF Baseline, Candidates, Recorded, TypeOK
  <2>3. Previous(f) = runs[CHOOSE r \in Baseline(scope) : TRUE].findings[f]
    BY <1>2 DEF Previous
  <2> QED BY <2>1, <2>2, <2>3, ReportTyped
<1> QED BY <1>1, <1>2

\* The row of a finding, case by case.
LEMMA RowCases ==
    ASSUME NEW previous, NEW current, NEW coverage \in {"incomplete", "complete"}
    PROVE  LET row == Row(previous, current, coverage) IN
           /\ row \in States \cup {None}
           /\ current # None => row \in {"new", "persistent", "changed"}
           /\ current = None /\ previous = None => row = None
           /\ current = None /\ previous # None =>
                 row = IF coverage = "complete" THEN "resolved" ELSE "unknown"
           /\ row = "new" <=> current # None /\ previous = None
<1>1. None \notin States
  BY NoneAssumption
<1> QED BY <1>1 DEF Row, Missing, States

\* The drift of a valid report: rows for covered scopes only.
LEMMA DriftRowCases ==
    ASSUME TypeOK, NEW reported \in Reports, Valid(reported), NEW f \in Fingerprints
    PROVE  LET row == DriftOf(reported)[f]
               coverage == reported.coverage[ScopeOf[f]]
           IN  /\ row \in States \cup {None}
               /\ reported.findings[f] # None => row \in {"new", "persistent", "changed"}
               /\ reported.findings[f] = None /\ f \notin Open(ScopeOf[f]) => row = None
               /\ reported.findings[f] = None /\ f \in Open(ScopeOf[f]) =>
                     row = CASE coverage = "complete" -> "resolved"
                             [] coverage = "incomplete" -> "unknown"
                             [] coverage = "absent" -> None
               /\ row = "new" <=> reported.findings[f] # None /\ f \notin Open(ScopeOf[f])
<1> DEFINE coverage == reported.coverage[ScopeOf[f]]
<1>1. coverage \in {"absent", "incomplete", "complete"}
  BY ReportTyped
<1>2. DriftOf(reported)[f] = IF coverage = "absent" THEN None
                           ELSE Row(Previous(f), reported.findings[f], coverage)
  BY DEF DriftOf
<1>3. coverage = "absent" => reported.findings[f] = None
  BY DEF Valid
<1>4. None \notin States
  BY NoneAssumption
<1>5. CASE coverage = "absent"
  BY <1>2, <1>3, <1>4, <1>5 DEF States
<1>6. CASE coverage # "absent"
  <2>1. coverage \in {"incomplete", "complete"}
    BY <1>1, <1>6
  <2> HIDE DEF coverage
  <2> QED BY <1>2, <2>1, RowCases, PreviousIsOpen DEF coverage
<1> QED BY <1>5, <1>6

\* A transaction keeps runs and drift well formed, and every run has its drift.
LEMMA TypeStep == TypeOK /\ [HistoryNext]_historyVars => TypeOK'
<1> SUFFICES ASSUME TypeOK, [HistoryNext]_historyVars PROVE TypeOK'
  OBVIOUS
<1>1. CASE UNCHANGED historyVars
  BY <1>1 DEF TypeOK, historyVars, Recorded, Valid
<1>2. ASSUME NEW r \in Runs, NEW reported \in Reports, RecordScan(r, reported)
      PROVE  TypeOK'
  <2>1. /\ runs[r] = None /\ reported # None /\ Valid(reported)
        /\ \A s \in Runs : runs'[s] = IF s = r THEN reported ELSE runs[s]
        /\ \A s \in Runs : drift'[s] = IF s = r THEN DriftOf(reported) ELSE drift[s]
    BY <1>2, RecordWrites
  <2>2. runs' \in [Runs -> {None} \cup {p \in Reports : Valid(p)}]
    BY <1>2, <2>1 DEF RecordScan, TypeOK
  <2>3. DriftOf(reported) \in DriftRows
    <3>1. \A f \in Fingerprints : DriftOf(reported)[f] \in States \cup {None}
      BY <2>1, DriftRowCases
    <3> QED BY <3>1 DEF DriftOf, DriftRows
  <2>4. drift' \in [Runs -> {None} \cup DriftRows]
    BY <1>2, <2>3 DEF RecordScan, TypeOK
  <2>5. DriftOf(reported) # None
    BY <2>3, NoneAssumption
  <2>6. \A f \in Fingerprints :
           reported.findings[f] # None => DriftOf(reported)[f] \in {"new", "persistent", "changed"}
    BY <2>1, DriftRowCases
  <2> QED BY <2>1, <2>2, <2>4, <2>5, <2>6 DEF TypeOK, Recorded, Valid
<1> QED BY <1>1, <1>2 DEF HistoryNext

\* Type correctness of the history for any runs and scopes.
THEOREM TypeCorrect == HistorySpec => []TypeOK
<1>1. HistoryInit => TypeOK
  BY DEF HistoryInit, TypeOK, Recorded
<1> QED BY <1>1, TypeStep, PTL DEF HistorySpec

\* Recorded again, or recorded without effect on a scope's last complete scan, a run
\* leaves the findings open in that scope as they were.
LEMMA OpenStays ==
    ASSUME TypeOK, TypeOK', NEW r \in Runs, NEW reported \in Reports, RecordScan(r, reported),
           NEW scope,
           \/ reported.coverage[scope] # "complete"
           \/ \E b \in LastComplete(scope) : ~(SortKey[b] < SortKey[r])
    PROVE  Open(scope)' = Open(scope)
<1>1. /\ runs[r] = None /\ reported # None
      /\ \A s \in Runs : runs'[s] = IF s = r THEN reported ELSE runs[s]
  BY RecordWrites
<1>2. \A s \in Runs : SortKey[s] \in Nat
  BY DriftAssumption
<1>3. \A s, t \in Runs : SortKey[s] = SortKey[t] => s = t
  BY DriftAssumption
<1>4. r \notin LastComplete(scope)
  BY <1>1 DEF LastComplete
<1>5. \A s \in LastComplete(scope) : s \in LastComplete(scope)'
  <2> SUFFICES ASSUME NEW s \in LastComplete(scope) PROVE s \in LastComplete(scope)'
    OBVIOUS
  <2>1. s \in Runs /\ s # r /\ runs[s] # None /\ runs[s].coverage[scope] = "complete"
        /\ \A t \in Runs : runs[t] # None /\ runs[t].coverage[scope] = "complete" =>
              ~(SortKey[t] > SortKey[s])
    BY <1>4 DEF LastComplete
  <2>2. reported.coverage[scope] = "complete" => ~(SortKey[r] > SortKey[s])
    <3>1. SUFFICES ASSUME reported.coverage[scope] = "complete" PROVE ~(SortKey[r] > SortKey[s])
      OBVIOUS
    <3>2. PICK b \in LastComplete(scope) : ~(SortKey[b] < SortKey[r])
      BY <3>1
    <3>3. b \in Runs /\ runs[b] # None /\ runs[b].coverage[scope] = "complete"
      BY DEF LastComplete
    <3> QED BY <1>2, <2>1, <3>2, <3>3
  <2> QED BY <1>1, <2>1, <2>2 DEF LastComplete
<1>6. \A s \in LastComplete(scope)' : s \in LastComplete(scope)
  <2> SUFFICES ASSUME NEW s \in LastComplete(scope)' PROVE s \in LastComplete(scope)
    OBVIOUS
  <2>1. s \in Runs /\ runs'[s] # None /\ runs'[s].coverage[scope] = "complete"
        /\ \A t \in Runs : runs'[t] # None /\ runs'[t].coverage[scope] = "complete" =>
              ~(SortKey[t] > SortKey[s])
    BY DEF LastComplete
  <2>2. s # r
    <3>1. SUFFICES ASSUME s = r PROVE FALSE
      OBVIOUS
    <3>2. PICK b \in LastComplete(scope) : ~(SortKey[b] < SortKey[r])
      BY <1>1, <2>1, <3>1
    <3>3. b \in Runs /\ b # r /\ runs'[b] # None /\ runs'[b].coverage[scope] = "complete"
      BY <1>1, <1>4 DEF LastComplete
    <3> QED BY <1>2, <1>3, <2>1, <3>1, <3>2, <3>3
  <2> QED BY <1>1, <2>1, <2>2 DEF LastComplete
<1>7. \A s \in LastComplete(scope) : runs'[s] = runs[s]
  BY <1>1, <1>4 DEF LastComplete
<1> QED BY <1>5, <1>6, <1>7 DEF Open

\* The drift of every scan is taken against what the last complete scan of each scope
\* left open, and only a newer complete scan replaces that.
THEOREM BaselineStaysProtected == HistorySpec => BaselineProtected
<1>1. ASSUME TypeOK, TypeOK', [HistoryNext]_historyVars
      PROVE  [/\ \A scope \in Scopes :
                   Open(scope)' # Open(scope) =>
                      \E r \in Runs :
                         /\ runs[r] = None /\ runs'[r] # None
                         /\ runs'[r].coverage[scope] = "complete"
                         /\ \A b \in LastComplete(scope) : SortKey[b] < SortKey[r]
              /\ \A r \in Runs, f \in Fingerprints :
                   drift'[r] # drift[r] /\ drift'[r][f] # None =>
                      /\ drift'[r][f] = "new" <=> f \notin Open(ScopeOf[f])
                      /\ drift'[r][f] = "resolved" => runs'[r].coverage[ScopeOf[f]] = "complete"
             ]_historyVars
  <2> SUFFICES ASSUME NEW r \in Runs, NEW reported \in Reports, RecordScan(r, reported)
               PROVE  /\ \A scope \in Scopes :
                           Open(scope)' # Open(scope) =>
                              /\ runs[r] = None /\ runs'[r] # None
                              /\ runs'[r].coverage[scope] = "complete"
                              /\ \A b \in LastComplete(scope) : SortKey[b] < SortKey[r]
                      /\ \A s \in Runs, f \in Fingerprints :
                           drift'[s] # drift[s] /\ drift'[s][f] # None =>
                              /\ drift'[s][f] = "new" <=> f \notin Open(ScopeOf[f])
                              /\ drift'[s][f] = "resolved" =>
                                    runs'[s].coverage[ScopeOf[f]] = "complete"
    BY <1>1 DEF HistoryNext
  <2>1. /\ runs[r] = None /\ reported # None /\ Valid(reported)
        /\ \A s \in Runs : runs'[s] = IF s = r THEN reported ELSE runs[s]
        /\ \A s \in Runs : drift'[s] = IF s = r THEN DriftOf(reported) ELSE drift[s]
    BY <1>1, RecordWrites
  <2>2. \A scope \in Scopes :
           Open(scope)' # Open(scope) =>
              /\ reported.coverage[scope] = "complete"
              /\ \A b \in LastComplete(scope) : SortKey[b] < SortKey[r]
    BY <1>1, OpenStays
  <2>3. ASSUME NEW f \in Fingerprints, DriftOf(reported)[f] # None
        PROVE  /\ DriftOf(reported)[f] = "new" <=> f \notin Open(ScopeOf[f])
               /\ DriftOf(reported)[f] = "resolved" => reported.coverage[ScopeOf[f]] = "complete"
    <3>1. reported.coverage[ScopeOf[f]] \in {"absent", "incomplete", "complete"}
      BY ReportTyped
    <3>2. None \notin States
      BY NoneAssumption
    <3> QED BY <1>1, <2>1, <2>3, <3>1, <3>2, DriftRowCases DEF States
  <2> QED BY <2>1, <2>2, <2>3
<1> QED BY <1>1, TypeCorrect, PTL DEF HistorySpec, BaselineProtected

\* Somebody who applies the drift rows of complete scans, one after the other, always
\* holds the findings the last of them saw.
THEOREM DriftAlwaysReplays == HistorySpec => DriftReplays
<1>1. ASSUME TypeOK, TypeOK', [HistoryNext]_historyVars
      PROVE  [\A r \in Runs, scope \in Scopes :
                /\ runs[r] = None /\ runs'[r] # None
                /\ runs'[r].coverage[scope] = "complete"
                /\ \A s \in Recorded : SortKey[s] < SortKey[r]
                => /\ Replayed(Open(scope), drift'[r], scope) = Open(scope)'
                   /\ \A f \in Fingerprints : ScopeOf[f] = scope => drift'[r][f] # "unknown"
             ]_historyVars
  <2> SUFFICES ASSUME NEW r \in Runs, NEW reported \in Reports, RecordScan(r, reported),
                      NEW scope \in Scopes, reported.coverage[scope] = "complete",
                      \A s \in Recorded : SortKey[s] < SortKey[r]
               PROVE  /\ Replayed(Open(scope), DriftOf(reported), scope) = Open(scope)'
                      /\ \A f \in Fingerprints :
                            ScopeOf[f] = scope => DriftOf(reported)[f] # "unknown"
    BY <1>1, RecordWrites DEF HistoryNext
  <2>1. /\ runs[r] = None /\ reported # None /\ Valid(reported)
        /\ \A s \in Runs : runs'[s] = IF s = r THEN reported ELSE runs[s]
    BY <1>1, RecordWrites
  <2>2. None \notin States
    BY NoneAssumption
  <2>3. ASSUME NEW f \in Fingerprints, ScopeOf[f] = scope
        PROVE  /\ reported.findings[f] # None => DriftOf(reported)[f] \in {"new", "persistent", "changed"}
               /\ reported.findings[f] = None /\ f \in Open(scope)
                     => DriftOf(reported)[f] = "resolved"
               /\ reported.findings[f] = None /\ f \notin Open(scope) => DriftOf(reported)[f] = None
    BY <1>1, <2>1, <2>3, DriftRowCases
  <2>4. LastComplete(scope)' = {r}
    <3>1. \A s \in Runs : SortKey[s] \in Nat
      BY DriftAssumption
    <3>2. \A s \in Runs : runs'[s] # None /\ s # r => SortKey[s] < SortKey[r]
      BY <2>1 DEF Recorded
    <3> QED BY <2>1, <3>1, <3>2 DEF LastComplete
  <2>5. Open(scope)' = {f \in Fingerprints : ScopeOf[f] = scope /\ reported.findings[f] # None}
    BY <2>1, <2>4 DEF Open
  <2>6. Open(scope) \subseteq {f \in Fingerprints : ScopeOf[f] = scope}
    BY DEF Open
  <2>7. Replayed(Open(scope), DriftOf(reported), scope) = Open(scope)'
    BY <2>2, <2>3, <2>5, <2>6 DEF Replayed, States
  <2>8. \A f \in Fingerprints : ScopeOf[f] = scope => DriftOf(reported)[f] # "unknown"
    BY <2>2, <2>3 DEF States
  <2> QED BY <2>7, <2>8
<1> QED BY <1>1, TypeCorrect, PTL DEF HistorySpec, DriftReplays

----
(* Where a scan is, and who holds the lock *)

\* A scope is open.
Reading == at \in {"call", "judge", "close"}

\* Nothing runs without the lock, and whoever holds it runs.
LockInv ==
    /\ at = "idle" <=> lock = None
    /\ lock # None => lock \in Invocations /\ invocation[lock] = "running"
    /\ DOMAIN invocation = Invocations

\* What may be left of a scope's services while one of them is read or judged.
Lefts(scope) == IF scope = <<"iam", "s3">> THEN {scope, <<"s3">>} ELSE {scope}

\* Where a scan may be while a scope is open.
ScopePlace ==
    \E k \in DOMAIN Accounts, i \in DOMAIN Regions, g \in {"due", "read"},
       scope \in {GlobalServices, <<"cloudtrail">>} \ {<<>>},
       left \in {<<"iam", "s3">>, <<"iam">>, <<"s3">>, <<"cloudtrail">>, <<>>}, call \in Nat :
       /\ here = Place(k, i, scope, left, call, g)
       /\ g = "read" => GlobalServices # <<>>
       /\ IF scope = <<"cloudtrail">> THEN ScansTrails /\ ~Pending(g) ELSE g = "read"
       /\ IF at = "close" THEN left = <<>> ELSE left \in Lefts(scope)
       /\ IF at = "call" THEN call \in DOMAIN Calls(Head(left)) ELSE call = 0

\* The places a scan passes through, and the view it fills there.
PlaceInv ==
    /\ at \in {"idle", "account", "session", "call", "judge", "close", "record"}
    /\ at \in {"idle", "record"} => here = Nowhere
    /\ at = "account" => \E k \in DOMAIN Accounts : here = StartOf(k)
    /\ at = "session" =>
          \E k \in DOMAIN Accounts, i \in DOMAIN Regions, g \in {"due", "read"} :
             /\ here = Place(k, i, <<>>, <<>>, 0, g)
             /\ g = "read" => GlobalServices # <<>>
             /\ ScansTrails \/ Pending(g)
    /\ Reading => ScopePlace
    /\ at \in {"call", "judge"} => DOMAIN view = Elements(Calls(Service))

----
(* What a report covers *)

\* Behind the point where account k is scanned, n of its regions and perhaps the
\* global services are done.
Behind(a, s, k, n, g) ==
    \/ a < k
    \/ /\ a = k
       /\ IF s.service = "cloudtrail" THEN \E i \in 1 .. n : s.region = Regions[i] ELSE g = "read"

\* The coverage of a scope that is done: one entry, for its errors.
Exact(r, s) == r.coverage[s] = IF Degraded(r.errors, s) THEN <<FALSE>> ELSE <<TRUE>>

\* A scope of which nothing is reported.
Blank(r, s) == r.coverage[s] = <<>> /\ \A m \in Marks : ScopeOfMark[m] = s => r.findings[m] = None

\* Scopes behind a point are done, and of the others nothing is reported.
Covers(r, k, n, g) ==
    \A a \in DOMAIN Accounts : \A s \in ScopesOf(Accounts[a]) :
       IF Behind(a, s, k, n, g) THEN Exact(r, s) ELSE Blank(r, s)

\* The errors of an account of which n regions and perhaps the global services are done.
PlacedIn(e, n, g) ==
    \/ /\ e.service = "AWS Account" /\ e.operation \in {"assume-role", "verify-target"}
       /\ \E i \in 1 .. n : e.region = Regions[i]
    \/ /\ e.service \in Elements(GlobalServices) \cup {"AWS"} /\ e.operation # "external-id"
       /\ e.region = "aws-global" /\ g = "read"
    \/ /\ e.service \in {"cloudtrail", "AWS"} /\ e.operation # "external-id"
       /\ \E i \in 1 .. n : e.region = Regions[i]

\* An error is of a finished account, or of what is done of the current one.
Reached(e, k, n, g) ==
    \E a \in DOMAIN Accounts : e.account = Accounts[a] /\ (a < k \/ (a = k /\ PlacedIn(e, n, g)))

\* An error tells of a session or of a scope.
Located(e) ==
    \/ e.service = "AWS Account"
    \/ \E s \in FleetScopes :
          e.account = s.account /\ e.region = s.region /\ e.service \in {s.service, "AWS"}

\* All the errors are.
Placed(r, k, n, g) == \A e \in r.errors : Reached(e, k, n, g) /\ Located(e)

\* The members of the short lists that scopes and services are.
LEMMA ElementsOf ==
    /\ Elements(<<>>) = {}
    /\ \A x : Elements(<<x>>) = {x}
    /\ \A x, y : Elements(<<x, y>>) = {x, y}
    /\ \A x, y, z : Elements(<<x, y, z>>) = {x, y, z}
BY DEF Elements

\* parse_fleet_config: accounts and regions are given, and each once.
LEMMA ListsOf ==
    /\ DOMAIN Accounts = 1 .. Len(Accounts) /\ Len(Accounts) \in Nat /\ Len(Accounts) >= 1
    /\ DOMAIN Regions = 1 .. Len(Regions) /\ Len(Regions) \in Nat /\ Len(Regions) >= 1
    /\ \A i, j \in DOMAIN Accounts : Accounts[i] = Accounts[j] => i = j
    /\ \A i, j \in DOMAIN Regions : Regions[i] = Regions[j] => i = j
    /\ \A i \in DOMAIN Accounts : Accounts[i] \in Elements(Accounts)
    /\ \A i \in DOMAIN Regions : Regions[i] \in Elements(Regions)
    /\ \A i \in DOMAIN Regions : Regions[i] # "aws-global" /\ Regions[i] # None
<1>1. \A list \in {Accounts, Regions} :
         /\ list # <<>> /\ list \in Seq(Elements(list))
         /\ \A i, j \in DOMAIN list : list[i] = list[j] => i = j
  BY FleetAssumption
<1>2. Accounts # <<>> /\ Accounts \in Seq(Elements(Accounts))
      /\ \A i, j \in DOMAIN Accounts : Accounts[i] = Accounts[j] => i = j
  BY <1>1
<1>3. Regions # <<>> /\ Regions \in Seq(Elements(Regions))
      /\ \A i, j \in DOMAIN Regions : Regions[i] = Regions[j] => i = j
  BY <1>1
<1>4. DOMAIN Accounts = 1 .. Len(Accounts) /\ Len(Accounts) \in Nat /\ Len(Accounts) >= 1
  BY <1>2
<1>5. DOMAIN Regions = 1 .. Len(Regions) /\ Len(Regions) \in Nat /\ Len(Regions) >= 1
  BY <1>3
<1>6. \A i \in DOMAIN Accounts : Accounts[i] \in Elements(Accounts)
  BY DEF Elements
<1>7. \A i \in DOMAIN Regions : Regions[i] \in Elements(Regions)
  BY DEF Elements
<1>8. \A i \in DOMAIN Regions : Regions[i] # "aws-global" /\ Regions[i] # None
  BY <1>7, FleetAssumption
<1> QED BY <1>2, <1>3, <1>4, <1>5, <1>6, <1>7, <1>8

\* It puts the trails last: what is before them is read once for all regions.
LEMMA ServicesOf ==
    /\ GlobalServices \in {<<>>, <<"iam">>, <<"s3">>, <<"iam", "s3">>}
    /\ GlobalServices = <<>> => ScansTrails
    /\ Elements(Services) = Elements(GlobalServices)
          \cup (IF ScansTrails THEN {"cloudtrail"} ELSE {})
    /\ Elements(GlobalServices) \subseteq {"iam", "s3"}
<1>1. Services \in {<<"iam", "s3", "cloudtrail">>, <<"iam", "s3">>, <<"iam", "cloudtrail">>,
                    <<"s3", "cloudtrail">>, <<"iam">>, <<"s3">>, <<"cloudtrail">>}
  BY FleetAssumption
<1>2. CASE Services = <<"iam", "s3", "cloudtrail">>
  <2>1. ScansTrails
    BY <1>2, ElementsOf DEF ScansTrails
  <2> DEFINE front == SubSeq(<<"iam", "s3", "cloudtrail">>, 1, 2)
  <2>2. front = <<"iam", "s3">>
    <3>1. \A i \in 1 .. 2 : <<"iam", "s3", "cloudtrail">>[i] \in {"iam", "s3", "cloudtrail"}
      OBVIOUS
    <3>2. front \in Seq({"iam", "s3", "cloudtrail"}) /\ Len(front) = 2
          /\ \A i \in 1 .. 2 : front[i] = <<"iam", "s3", "cloudtrail">>[1 + i - 1]
      BY <3>1, SubSeqProperties
    <3>3. front[1] = "iam" /\ front[2] = "s3"
      BY <3>2
    <3> HIDE DEF front
    <3> QED BY <3>2, <3>3
  <2>3. GlobalServices = <<"iam", "s3">>
    BY <1>2, <2>1, <2>2 DEF GlobalServices
  <2> QED BY <1>2, <2>1, <2>3, ElementsOf
<1>3. CASE Services \in {<<"iam", "cloudtrail">>, <<"s3", "cloudtrail">>}
  <2>1. PICK x \in {"iam", "s3"} : Services = <<x, "cloudtrail">>
    BY <1>3
  <2>2. ScansTrails
    BY <2>1, ElementsOf DEF ScansTrails
  <2> DEFINE front == SubSeq(<<x, "cloudtrail">>, 1, 1)
  <2>3. front = <<x>>
    <3>1. \A i \in 1 .. 1 : <<x, "cloudtrail">>[i] \in {"iam", "s3", "cloudtrail"}
      BY <2>1
    <3>2. front \in Seq({"iam", "s3", "cloudtrail"}) /\ Len(front) = 1
          /\ \A i \in 1 .. 1 : front[i] = <<x, "cloudtrail">>[1 + i - 1]
      BY <3>1, SubSeqProperties
    <3>3. front[1] = x
      BY <3>2
    <3> HIDE DEF front
    <3> QED BY <3>2, <3>3
  <2>4. GlobalServices = <<x>>
    BY <2>1, <2>2, <2>3 DEF GlobalServices
  <2> QED BY <2>1, <2>2, <2>4, ElementsOf
<1>4. CASE Services = <<"cloudtrail">>
  <2>1. ScansTrails
    BY <1>4, ElementsOf DEF ScansTrails
  <2>2. SubSeq(<<"cloudtrail">>, 1, 0) = <<>>
    OBVIOUS
  <2>3. GlobalServices = <<>>
    BY <1>4, <2>1, <2>2 DEF GlobalServices
  <2> QED BY <1>4, <2>1, <2>3, ElementsOf
<1>5. CASE Services \in {<<"iam", "s3">>, <<"iam">>, <<"s3">>}
  <2>1. ~ScansTrails
    BY <1>5, ElementsOf DEF ScansTrails
  <2>2. GlobalServices = Services
    BY <2>1 DEF GlobalServices
  <2> QED BY <1>5, <2>1, <2>2, ElementsOf
<1> QED BY <1>1, <1>2, <1>3, <1>4, <1>5

\* What is left to do when account k has been scanned, or region i of it.
AccountEnds(k, r) ==
    /\ report' = r
    /\ IF k < Len(Accounts)
       THEN at' = "account" /\ here' = StartOf(k + 1)
       ELSE at' = "record" /\ here' = Nowhere

\* The report when the global services are given up: no session was opened.
GivenUp(r, k, i) ==
    [r EXCEPT !.coverage =
        Entered(@, Incomplete({Scope(Accounts[k], s, Regions[i]) : s \in Elements(GlobalServices)}))]

\* NextRegion, written out.
RegionEnds(k, i, g, r) ==
    \/ /\ i < Len(Regions) /\ (ScansTrails \/ Pending(g))
       /\ report' = r /\ at' = "session" /\ here' = Place(k, i + 1, <<>>, <<>>, 0, g)
    \/ /\ i = Len(Regions) /\ Pending(g)
       /\ AccountEnds(k, GivenUp(r, k, i))
    \/ /\ i = Len(Regions) \/ ~ScansTrails
       /\ ~Pending(g)
       /\ AccountEnds(k, r)

\* NextAccount and NextRegion at a place that is spelled out.
LEMMA NextAccountIs ==
    ASSUME NEW k, NEW i, NEW scope, NEW left, NEW call, NEW g, NEW r,
           here = Place(k, i, scope, left, call, g), NextAccount(r)
    PROVE  AccountEnds(k, r)
<1>1. here.account = k
  BY DEF Place
<1> QED BY <1>1 DEF NextAccount, AccountEnds

\* After a region: the next one, the global services given up, or the next account.
LEMMA NextRegionIs ==
    ASSUME NEW k, NEW i \in DOMAIN Regions, NEW scope, NEW left, NEW call, NEW h, NEW g, NEW r,
           here = Place(k, i, scope, left, call, h), NextRegion(r, g)
    PROVE  RegionEnds(k, i, g, r)
<1>1. here.account = k /\ here.region = i /\ Account = Accounts[k] /\ Region = Regions[i]
  BY DEF Place, Account, Region
<1>3. i \in Nat /\ Len(Regions) \in Nat /\ i <= Len(Regions)
  BY ListsOf
<1>4. CASE i < Len(Regions) /\ (ScansTrails \/ Pending(g))
  BY <1>1, <1>4 DEF NextRegion, RegionEnds
<1>5. CASE ~(i < Len(Regions) /\ (ScansTrails \/ Pending(g)))
  <2>1. NextAccount(IF Pending(g) THEN GivenUp(r, k, i) ELSE r)
    BY <1>1, <1>5 DEF NextRegion, GivenUp
  <2>2. AccountEnds(k, IF Pending(g) THEN GivenUp(r, k, i) ELSE r)
    BY <2>1, NextAccountIs
  <2>3. i = Len(Regions) \/ (~ScansTrails /\ ~Pending(g))
    BY <1>3, <1>5
  <2> QED BY <2>2, <2>3 DEF RegionEnds
<1> QED BY <1>4, <1>5

\* OpenScope at a place that is spelled out.
LEMMA OpenScopeIs ==
    ASSUME NEW k, NEW i, NEW scope, NEW left, NEW call, NEW h, NEW services, NEW g,
           here = Place(k, i, scope, left, call, h), OpenScope(services, g)
    PROVE  /\ at' = "call" /\ here' = Place(k, i, services, services, 1, g)
           /\ view' = Unasked(Head(services)) /\ found' = NothingFound
BY DEF OpenScope, Place

\* A scope has at most two services; after one comes the other, or the end.
LEMMA NextServiceIs ==
    ASSUME NEW k, NEW i, NEW scope \in {<<"iam", "s3">>, <<"iam">>, <<"s3">>, <<"cloudtrail">>},
           NEW left \in Lefts(scope), NEW call, NEW g,
           here = Place(k, i, scope, left, call, g), NextService
    PROVE  \/ /\ left = <<"iam", "s3">>
              /\ at' = "call" /\ here' = Place(k, i, scope, <<"s3">>, 1, g) /\ view' = Unasked("s3")
           \/ /\ left # <<"iam", "s3">>
              /\ at' = "close" /\ here' = Place(k, i, scope, <<>>, 0, g) /\ view' = <<>>
<1>1. here.left = left /\ here.account = k /\ here.region = i /\ here.scope = scope
         /\ here.globals = g
  BY DEF Place
<1>2. CASE left = <<"iam", "s3">>
  <2>1. Len(left) > 1 /\ left[2] = "s3"
    BY <1>2
  <2>2. Tail(left) = <<"s3">>
    BY <1>2
  <2> QED BY <1>1, <1>2, <2>1, <2>2 DEF NextService
<1>3. CASE left # <<"iam", "s3">>
  <2>1. left = <<"iam">> \/ left = <<"s3">> \/ left = <<"cloudtrail">>
    BY <1>3 DEF Lefts
  <2>2. ~(Len(left) > 1)
    <3>1. CASE left = <<"iam">>
      BY <3>1
    <3>2. CASE left = <<"s3">>
      BY <3>2
    <3>3. CASE left = <<"cloudtrail">>
      BY <3>3
    <3> QED BY <2>1, <3>1, <3>2, <3>3
  <2> QED BY <1>1, <1>3, <2>2 DEF NextService
<1> QED BY <1>2, <1>3

\* The services there are.
ThreeServices == {"iam", "s3", "cloudtrail"}

\* A service has calls, and the first is made for no listing.
LEMMA CallsOf ==
    ASSUME NEW service \in ThreeServices
    PROVE  /\ Len(Calls(service)) \in Nat /\ Len(Calls(service)) >= 1
           /\ DOMAIN Calls(service) = 1 .. Len(Calls(service))
           /\ Listing(Calls(service)[1]) = {}
<1>1. CASE service = "iam"
  BY <1>1 DEF Calls, Listing
<1>2. CASE service = "s3"
  BY <1>2 DEF Calls, Listing
<1>3. CASE service = "cloudtrail"
  BY <1>3 DEF Calls, Listing
<1> QED BY <1>1, <1>2, <1>3 DEF ThreeServices

\* FirstMade finds the least call that is made: the naturals are well founded.
LEMMA FirstMadeIs ==
    ASSUME NEW service \in ThreeServices, NEW v, NEW i \in 1 .. Len(Calls(service)) + 1
    PROVE  LET j == FirstMade(service, v, i) IN
           /\ j \in i .. Len(Calls(service)) + 1
           /\ j <= Len(Calls(service)) => Made(v, Calls(service)[j])
           /\ \A k \in i .. j - 1 : ~Made(v, Calls(service)[k])
<1> DEFINE end == Len(Calls(service)) + 1
<1> DEFINE Stops == {j \in i .. end : j = end \/ Made(v, Calls(service)[j])}
<1>1. Len(Calls(service)) \in Nat /\ end \in Nat
  BY CallsOf
<1>2. Stops \subseteq Nat /\ end \in Stops
  BY <1>1
<1>3. \E j \in Stops : \A k \in Stops : ~(<<k, j>> \in OpToRel(<, Nat))
  <2> HIDE DEF Stops
  <2> QED BY <1>2, WFMin, NatLessThanWellFounded
<1>4. PICK j \in Stops : \A k \in Stops : ~(k < j)
  BY <1>2, <1>3 DEF OpToRel
<1>5. j \in i .. end /\ (j <= Len(Calls(service)) => Made(v, Calls(service)[j]))
  BY <1>1
<1>6. \A k \in i .. j - 1 : ~Made(v, Calls(service)[k])
  <2> SUFFICES ASSUME NEW k \in i .. j - 1, Made(v, Calls(service)[k]) PROVE FALSE
    OBVIOUS
  <2>1. k \in i .. end /\ k < j
    BY <1>1, <1>5
  <2> QED BY <1>4, <2>1
<1> DEFINE Q(x) == /\ x <= Len(Calls(service)) => Made(v, Calls(service)[x])
                   /\ \A k \in i .. x - 1 : ~Made(v, Calls(service)[k])
<1>7. Q(j)
  BY <1>5, <1>6
<1>8. FirstMade(service, v, i) = CHOOSE x \in i .. end : Q(x)
  BY DEF FirstMade
<1>9. (CHOOSE x \in i .. end : Q(x)) \in i .. end /\ Q(CHOOSE x \in i .. end : Q(x))
  <2> HIDE DEF Q
  <2> QED BY <1>5, <1>7
<1> QED BY <1>8, <1>9

\* The scopes there are, and what may be left of them.
LEMMA KnownServices ==
    ASSUME NEW scope \in {GlobalServices, <<"cloudtrail">>} \ {<<>>}
    PROVE  /\ scope \in {<<"iam", "s3">>, <<"iam">>, <<"s3">>, <<"cloudtrail">>}
           /\ Elements(scope) \subseteq ThreeServices
           /\ \A left \in Lefts(scope) :
                 /\ left \in {<<"iam", "s3">>, <<"iam">>, <<"s3">>, <<"cloudtrail">>}
                 /\ Head(left) \in ThreeServices
<1>1. scope \in {<<"iam", "s3">>, <<"iam">>, <<"s3">>, <<"cloudtrail">>}
  BY ServicesOf
<1>2. Elements(scope) \subseteq ThreeServices
  BY <1>1, ElementsOf DEF ThreeServices
<1>3. \A left \in Lefts(scope) : left \in {<<"iam", "s3">>, <<"iam">>, <<"s3">>, <<"cloudtrail">>}
  BY <1>1 DEF Lefts
<1>4. \A left \in {<<"iam", "s3">>, <<"iam">>, <<"s3">>, <<"cloudtrail">>} : Head(left) \in ThreeServices
  BY DEF ThreeServices
<1> QED BY <1>1, <1>2, <1>3, <1>4

\* What PlaceInv says while a scope is read, judged or closed.
InScope(k, i, scope, left, call, g) ==
    /\ k \in DOMAIN Accounts /\ i \in DOMAIN Regions /\ call \in Nat
    /\ g \in {"due", "read"} /\ (g = "read" => GlobalServices # <<>>)
    /\ scope \in {GlobalServices, <<"cloudtrail">>} \ {<<>>}
    /\ IF scope = <<"cloudtrail">> THEN ScansTrails /\ ~Pending(g) ELSE g = "read"
    /\ here = Place(k, i, scope, left, call, g)

\* The parts of the place where a scan is.
Fields(k, i, scope, left, call, g) ==
    /\ here.account = k /\ here.region = i /\ here.scope = scope /\ here.left = left
    /\ here.call = call /\ here.globals = g
    /\ Account = Accounts[k] /\ Region = Regions[i]

\* The fields of a place.
LEMMA FieldsOf ==
    ASSUME NEW k, NEW i, NEW scope, NEW left, NEW call, NEW g,
           here = Place(k, i, scope, left, call, g)
    PROVE  Fields(k, i, scope, left, call, g)
BY DEF Place, Fields, Account, Region

\* Where a scan is while it reads.
LEMMA ReadingPlace ==
    ASSUME PlaceInv, Reading
    PROVE  \E k, i, scope, left, call, g :
              /\ InScope(k, i, scope, left, call, g)
              /\ IF at = "close" THEN left = <<>> ELSE left \in Lefts(scope)
              /\ IF at = "call" THEN call \in DOMAIN Calls(Head(left)) ELSE call = 0
BY DEF PlaceInv, ScopePlace, InScope

\* resolve_external_id opens the first region's session or gives the account up.
LEMMA ResolveDoes ==
    ASSUME PlaceInv, ResolveExternalId
    PROVE  \E k \in DOMAIN Accounts :
              /\ here = StartOf(k) /\ Account = Accounts[k]
              /\ \/ at' = "session" /\ here' = Place(k, 1, <<>>, <<>>, 0, "due") /\ report' = report
                 \/ AccountEnds(k, [report EXCEPT
                       !.errors = @ \cup {Error("external-id", "AWS Account", None)},
                       !.coverage = Entered(@, Incomplete(ScopesOf(Accounts[k])))])
<1>1. PICK k \in DOMAIN Accounts : here = StartOf(k)
  BY DEF PlaceInv, ResolveExternalId
<1>2. here = Place(k, 0, <<>>, <<>>, 0, "due")
  BY <1>1 DEF StartOf
<1>3. Account = Accounts[k]
  BY <1>2 DEF Account, Place
<1>4. [here EXCEPT !.region = 1] = Place(k, 1, <<>>, <<>>, 0, "due")
  BY <1>2 DEF Place
<1>5. CASE at' = "session" /\ here' = [here EXCEPT !.region = 1] /\ report' = report
  BY <1>1, <1>3, <1>4, <1>5
<1>6. CASE NextAccount([report EXCEPT !.errors = @ \cup {Error("external-id", "AWS Account", None)},
                                      !.coverage = Entered(@, Incomplete(ScopesOf(Account)))])
  BY <1>1, <1>2, <1>3, <1>6, NextAccountIs
<1> QED BY <1>5, <1>6 DEF ResolveExternalId

\* The first scope of a region is opened.
SessionOpens(k, i, g) ==
    \E scope \in {GlobalServices, <<"cloudtrail">>}, h \in {"due", "read"} :
       /\ IF Pending(g) THEN scope = GlobalServices /\ h = "read" ELSE scope = <<"cloudtrail">> /\ h = g
       /\ at' = "call" /\ here' = Place(k, i, scope, scope, 1, h)
       /\ view' = Unasked(Head(scope)) /\ found' = NothingFound /\ report' = report

\* The report of a region whose session was refused.
RefusedReport(k, i, operation) ==
    [report EXCEPT
       !.errors = @ \cup {Error(operation, "AWS Account", Regions[i])},
       !.coverage = Entered(@, Incomplete(IF ScansTrails
                                          THEN {Scope(Accounts[k], "cloudtrail", Regions[i])}
                                          ELSE {}))]

\* _target_session: reads the first scope due, or goes on with the error.
LEMMA SessionDoes ==
    ASSUME PlaceInv, OpenSession
    PROVE  \E k \in DOMAIN Accounts, i \in DOMAIN Regions, g \in {"due", "read"} :
              /\ here = Place(k, i, <<>>, <<>>, 0, g) /\ Account = Accounts[k]
                    /\ Region = Regions[i]
              /\ g = "read" => GlobalServices # <<>>
              /\ ScansTrails \/ Pending(g)
              /\ \/ SessionOpens(k, i, g)
                 \/ \E operation \in {"assume-role", "verify-target"} :
                       RegionEnds(k, i, g, RefusedReport(k, i, operation))
                          /\ UNCHANGED <<view, found>>
<1>1. PICK k \in DOMAIN Accounts, i \in DOMAIN Regions, g \in {"due", "read"} :
         /\ here = Place(k, i, <<>>, <<>>, 0, g)
         /\ g = "read" => GlobalServices # <<>>
         /\ ScansTrails \/ Pending(g)
  BY DEF PlaceInv, OpenSession
<1>2. Fields(k, i, <<>>, <<>>, 0, g)
  BY <1>1, FieldsOf
<1>3. Account = Accounts[k] /\ Region = Regions[i] /\ here.globals = g
  BY <1>2 DEF Fields
<1>4. CASE /\ IF Pending(here.globals) THEN OpenScope(GlobalServices, "read")
              ELSE OpenScope(<<"cloudtrail">>, here.globals)
           /\ UNCHANGED report
  <2>1. CASE Pending(g)
    <3>1. OpenScope(GlobalServices, "read") /\ report' = report
      BY <1>3, <1>4, <2>1
    <3>2. /\ at' = "call" /\ here' = Place(k, i, GlobalServices, GlobalServices, 1, "read")
          /\ view' = Unasked(Head(GlobalServices)) /\ found' = NothingFound
      BY <1>1, <3>1, OpenScopeIs
    <3>3. SessionOpens(k, i, g)
      BY <2>1, <3>1, <3>2 DEF SessionOpens
    <3> QED BY <1>1, <1>3, <3>3
  <2>2. CASE ~Pending(g)
    <3>1. OpenScope(<<"cloudtrail">>, g) /\ report' = report
      BY <1>3, <1>4, <2>2
    <3>2. /\ at' = "call" /\ here' = Place(k, i, <<"cloudtrail">>, <<"cloudtrail">>, 1, g)
          /\ view' = Unasked(Head(<<"cloudtrail">>)) /\ found' = NothingFound
      BY <1>1, <3>1, OpenScopeIs
    <3>3. SessionOpens(k, i, g)
      BY <2>2, <3>1, <3>2 DEF SessionOpens
    <3> QED BY <1>1, <1>3, <3>3
  <2> QED BY <2>1, <2>2
<1>5. ASSUME NEW operation \in {"assume-role", "verify-target"},
             NextRegion([report EXCEPT
                           !.errors = @ \cup {Error(operation, "AWS Account", Region)},
                           !.coverage = Entered(@, Incomplete(IF ScansTrails
                                                              THEN {Scope(Account, "cloudtrail", Region)}
                                                              ELSE {}))], here.globals)
      PROVE  RegionEnds(k, i, g, RefusedReport(k, i, operation))
  <2>1. Error(operation, "AWS Account", Region) = Error(operation, "AWS Account", Regions[i])
    BY <1>3
  <2>2. NextRegion(RefusedReport(k, i, operation), g)
    BY <1>3, <1>5, <2>1 DEF RefusedReport
  <2> QED BY <1>1, <2>2, NextRegionIs
<1> QED BY <1>1, <1>3, <1>4, <1>5 DEF OpenSession

\* The report and the call after call number "call" of the service.
GoesOn(k, i, scope, left, call, g) ==
    LET calls == Calls(Head(left)) IN
    \E next \in call + 1 .. Len(calls) + 1 :
       /\ next <= Len(calls) => Made(view', calls[next])
       /\ \A j \in call + 1 .. next - 1 : ~Made(view', calls[j])
       /\ \/ next > Len(calls) /\ at' = "judge" /\ here' = Place(k, i, scope, left, 0, g)
          \/ next <= Len(calls) /\ at' = "call" /\ here' = Place(k, i, scope, left, next, g)

\* A call is answered, or fails.
Outcomes(service, call) ==
    \E outcome \in {Answer(estate[Account], Region, call), Failed} :
       /\ found' = IF outcome = Failed
                   THEN [found EXCEPT !.errors = @ \cup {Error(call, service, ScopeRegion)}]
                   ELSE found
       /\ view' = [view EXCEPT ![call] = outcome]

\* safe_call: an outcome, and on to the next call that is made.
LEMMA ReadDoes ==
    ASSUME PlaceInv, ReadCall
    PROVE  \E k, i, scope, left, call, g :
              /\ InScope(k, i, scope, left, call, g) /\ left \in Lefts(scope)
              /\ call \in DOMAIN Calls(Head(left))
              /\ Fields(k, i, scope, left, call, g) /\ Service = Head(left)
              /\ Outcomes(Head(left), Calls(Head(left))[call])
              /\ GoesOn(k, i, scope, left, call, g)
              /\ report' = report
<1>1. PICK k, i, scope, left, call, g :
         /\ InScope(k, i, scope, left, call, g)
         /\ left \in Lefts(scope) /\ call \in DOMAIN Calls(Head(left))
  <2>1. Reading /\ at = "call"
    BY DEF ReadCall, Reading
  <2> QED BY <2>1, ReadingPlace
<1>2. Fields(k, i, scope, left, call, g)
  BY <1>1, FieldsOf DEF InScope
<1>3. Service = Head(left) /\ here.call = call
  BY <1>2 DEF Fields, Service
<1>4. Head(left) \in ThreeServices
  BY <1>1, KnownServices DEF InScope
<1> DEFINE calls == Calls(Head(left))
           next == FirstMade(Head(left), view', call + 1)
<1>5. Len(calls) \in Nat /\ DOMAIN calls = 1 .. Len(calls)
  BY <1>4, CallsOf
<1>6. call + 1 \in 1 .. Len(calls) + 1
  BY <1>1, <1>5
<1>7. /\ next \in call + 1 .. Len(calls) + 1
      /\ next <= Len(calls) => Made(view', calls[next])
      /\ \A j \in call + 1 .. next - 1 : ~Made(view', calls[j])
  BY <1>4, <1>6, FirstMadeIs
<1>8. IF next > Len(calls) THEN at' = "judge" /\ here' = [here EXCEPT !.call = 0]
      ELSE at' = "call" /\ here' = [here EXCEPT !.call = next]
  BY <1>3 DEF ReadCall
<1>9. \A x : [here EXCEPT !.call = x] = Place(k, i, scope, left, x, g)
  BY <1>1 DEF InScope, Place
<1>10. GoesOn(k, i, scope, left, call, g)
  <2>1. CASE next > Len(calls)
    <3>1. at' = "judge" /\ here' = Place(k, i, scope, left, 0, g)
      BY <1>8, <1>9, <2>1
    <3> HIDE DEF next
    <3> QED BY <1>7, <2>1, <3>1 DEF GoesOn
  <2>2. CASE ~(next > Len(calls))
    <3>1. at' = "call" /\ here' = Place(k, i, scope, left, next, g) /\ next <= Len(calls)
      BY <1>5, <1>7, <1>8, <1>9, <2>2
    <3> HIDE DEF next
    <3> QED BY <1>7, <3>1 DEF GoesOn
  <2> QED BY <2>1, <2>2
<1>11. Outcomes(Head(left), calls[call])
  BY <1>3 DEF ReadCall, Outcomes
<1>12. report' = report
  BY DEF ReadCall
<1> QED BY <1>1, <1>2, <1>3, <1>10, <1>11, <1>12

\* The next service of the scope, or its end.
Advances(k, i, scope, left, g) ==
    \/ /\ left = <<"iam", "s3">>
       /\ at' = "call" /\ here' = Place(k, i, scope, <<"s3">>, 1, g) /\ view' = Unasked("s3")
    \/ /\ left # <<"iam", "s3">>
       /\ at' = "close" /\ here' = Place(k, i, scope, <<>>, 0, g) /\ view' = <<>>

\* run_scan's loop: a service is lost or judged, and the next one read.
LEMMA ServiceDoes ==
    ASSUME PlaceInv, CollectorCrash \/ Judge
    PROVE  \E k, i, scope, left, call, g :
              /\ InScope(k, i, scope, left, call, g) /\ left \in Lefts(scope)
              /\ Fields(k, i, scope, left, call, g) /\ Service = Head(left)
              /\ Advances(k, i, scope, left, g)
              /\ report' = report
<1>1. PICK k, i, scope, left, call, g :
         InScope(k, i, scope, left, call, g) /\ left \in Lefts(scope)
  <2>1. Reading /\ at # "close"
    BY DEF CollectorCrash, Judge, Reading
  <2> QED BY <2>1, ReadingPlace
<1>2. Fields(k, i, scope, left, call, g)
  BY <1>1, FieldsOf DEF InScope
<1>3. scope \in {<<"iam", "s3">>, <<"iam">>, <<"s3">>, <<"cloudtrail">>}
  BY <1>1, KnownServices DEF InScope
<1>4. NextService /\ report' = report
  BY DEF CollectorCrash, Judge
<1>5. Advances(k, i, scope, left, g)
  BY <1>1, <1>3, <1>4, NextServiceIs DEF InScope, Advances
<1>6. Service = Head(left)
  BY <1>2 DEF Fields, Service
<1> QED BY <1>1, <1>2, <1>4, <1>5, <1>6

\* A rule that raises ends the scope.
LEMMA RuleCrashDoes ==
    ASSUME PlaceInv, RuleCrash
    PROVE  \E k, i, scope, left, call, g :
              /\ InScope(k, i, scope, left, call, g) /\ left \in Lefts(scope)
              /\ Fields(k, i, scope, left, call, g)
              /\ at' = "close" /\ here' = Place(k, i, scope, <<>>, 0, g) /\ view' = <<>>
              /\ report' = report
<1>1. PICK k, i, scope, left, call, g :
         InScope(k, i, scope, left, call, g) /\ left \in Lefts(scope) /\ call = 0
  <2>1. Reading /\ at = "judge"
    BY DEF RuleCrash, Reading
  <2> QED BY <2>1, ReadingPlace
<1>2. Fields(k, i, scope, left, call, g)
  BY <1>1, FieldsOf DEF InScope
<1>3. [here EXCEPT !.left = <<>>] = Place(k, i, scope, <<>>, 0, g)
  BY <1>1 DEF InScope, Place
<1> QED BY <1>1, <1>2, <1>3 DEF RuleCrash

\* The scope ends in the report: on to the trails, the next region or account.
LEMMA CloseDoes ==
    ASSUME PlaceInv, CloseScope
    PROVE  \E k, i, scope, call, g :
              /\ InScope(k, i, scope, <<>>, call, g) /\ Fields(k, i, scope, <<>>, call, g)
              /\ found' = NothingFound
              /\ \/ /\ ScansTrails /\ scope = GlobalServices /\ g = "read"
                    /\ at' = "call" /\ here' = Place(k, i, <<"cloudtrail">>, <<"cloudtrail">>, 1, "read")
                    /\ view' = Unasked("cloudtrail") /\ report' = Collected
                 \/ /\ ~ScansTrails \/ scope = <<"cloudtrail">>
                    /\ RegionEnds(k, i, g, Collected) /\ view' = view
<1>1. PICK k, i, scope, call, g : InScope(k, i, scope, <<>>, call, g)
  <2>1. Reading /\ at = "close"
    BY DEF CloseScope, Reading
  <2> QED BY <2>1, ReadingPlace
<1>2. Fields(k, i, scope, <<>>, call, g)
  BY <1>1, FieldsOf DEF InScope
<1>3. here.scope = scope /\ here.globals = g
  BY <1>2 DEF Fields
<1>4. CASE ScansTrails /\ scope # <<"cloudtrail">>
  <2>1. report' = Collected /\ OpenScope(<<"cloudtrail">>, "read")
    BY <1>3, <1>4 DEF CloseScope
  <2>2. /\ at' = "call" /\ here' = Place(k, i, <<"cloudtrail">>, <<"cloudtrail">>, 1, "read")
        /\ view' = Unasked(Head(<<"cloudtrail">>)) /\ found' = NothingFound
    BY <1>1, <2>1, OpenScopeIs DEF InScope
  <2>3. Head(<<"cloudtrail">>) = "cloudtrail"
    OBVIOUS
  <2>4. scope = GlobalServices /\ g = "read"
    BY <1>1, <1>4 DEF InScope
  <2> QED BY <1>1, <1>2, <1>4, <2>1, <2>2, <2>3, <2>4
<1>5. CASE ~(ScansTrails /\ scope # <<"cloudtrail">>)
  <2>1. NextRegion(Collected, g) /\ found' = NothingFound /\ view' = view
    BY <1>3, <1>5 DEF CloseScope
  <2>2. RegionEnds(k, i, g, Collected)
    BY <1>1, <2>1, NextRegionIs DEF InScope
  <2> QED BY <1>1, <1>2, <1>5, <2>1, <2>2
<1> QED BY <1>4, <1>5

\* The place after an account is one of those there are.
LEMMA PlaceAfterAccount ==
    ASSUME NEW k \in DOMAIN Accounts, NEW r, AccountEnds(k, r)
    PROVE  PlaceInv'
<1>1. k \in 1 .. Len(Accounts) /\ Len(Accounts) \in Nat /\ DOMAIN Accounts = 1 .. Len(Accounts)
  BY ListsOf
<1>2. CASE k < Len(Accounts)
  <2>1. at' = "account" /\ here' = StartOf(k + 1) /\ k + 1 \in DOMAIN Accounts
    BY <1>1, <1>2 DEF AccountEnds
  <2> QED BY <2>1 DEF PlaceInv, Reading
<1>3. CASE ~(k < Len(Accounts))
  <2>1. at' = "record" /\ here' = Nowhere
    BY <1>3 DEF AccountEnds
  <2> QED BY <2>1 DEF PlaceInv, Reading
<1> QED BY <1>2, <1>3

\* So is the place after a region.
LEMMA PlaceAfterRegion ==
    ASSUME NEW k \in DOMAIN Accounts, NEW i \in DOMAIN Regions, NEW g \in {"due", "read"},
           g = "read" => GlobalServices # <<>>, NEW r, RegionEnds(k, i, g, r)
    PROVE  PlaceInv'
<1>1. i \in 1 .. Len(Regions) /\ Len(Regions) \in Nat /\ DOMAIN Regions = 1 .. Len(Regions)
  BY ListsOf
<1>2. CASE /\ i < Len(Regions) /\ (ScansTrails \/ Pending(g))
           /\ report' = r /\ at' = "session" /\ here' = Place(k, i + 1, <<>>, <<>>, 0, g)
  <2>1. i + 1 \in DOMAIN Regions
    BY <1>1, <1>2
  <2> QED BY <1>2, <2>1 DEF PlaceInv, Reading
<1>3. CASE AccountEnds(k, GivenUp(r, k, i)) \/ AccountEnds(k, r)
  BY <1>3, PlaceAfterAccount
<1> QED BY <1>2, <1>3 DEF RegionEnds

\* And the places in a scope.
LEMMA PlaceInScope ==
    ASSUME NEW k \in DOMAIN Accounts, NEW i \in DOMAIN Regions, NEW call \in Nat,
           NEW g \in {"due", "read"}, g = "read" => GlobalServices # <<>>,
           NEW scope \in {GlobalServices, <<"cloudtrail">>} \ {<<>>},
           IF scope = <<"cloudtrail">> THEN ScansTrails /\ ~Pending(g) ELSE g = "read",
           NEW left, here' = Place(k, i, scope, left, call, g),
           \/ /\ at' = "close" /\ left = <<>> /\ call = 0
           \/ /\ at' \in {"call", "judge"} /\ left \in Lefts(scope)
              /\ DOMAIN view' = Elements(Calls(Head(left)))
              /\ IF at' = "call" THEN call \in DOMAIN Calls(Head(left)) ELSE call = 0
    PROVE  PlaceInv'
<1>1. left \in {<<"iam", "s3">>, <<"iam">>, <<"s3">>, <<"cloudtrail">>, <<>>}
  BY KnownServices
<1>2. here'.left = left
  BY DEF Place
<1>3. at' \in {"call", "judge"} => DOMAIN view' = Elements(Calls(Service))'
  BY <1>2 DEF Service, Calls, Elements
<1>4. at' \in {"call", "judge", "close"} /\ Reading'
  BY DEF Reading
<1>5. ScopePlace'
  BY <1>1 DEF ScopePlace
<1> QED BY <1>3, <1>4, <1>5 DEF PlaceInv

\* And the one after a scan.
LEMMA PlaceAfterReset == Reset => PlaceInv'
BY DEF Reset, PlaceInv, Reading

\* Where a scan is, is one of the places the code gets to.
LEMMA PlaceStep == PlaceInv /\ [Next]_vars => PlaceInv'
<1> SUFFICES ASSUME PlaceInv, [Next]_vars PROVE PlaceInv'
  OBVIOUS
<1>1. CASE UNCHANGED <<at, here, view>>
  <2>1. at' = at /\ here' = here /\ view' = view
    BY <1>1
  <2>2. Reading' = Reading /\ Service' = Service
    BY <2>1 DEF Reading, Service
  <2>3. ScopePlace' = ScopePlace
    BY <2>1 DEF ScopePlace
  <2>4. Elements(Calls(Service))' = Elements(Calls(Service))
    BY <2>2 DEF Elements, Calls
  <2> QED BY <2>1, <2>2, <2>3, <2>4 DEF PlaceInv
<1>2. ASSUME NEW i \in Invocations, Begin(i) PROVE PlaceInv'
  <2>1. 1 \in DOMAIN Accounts
    BY ListsOf
  <2> QED BY <1>2, <2>1 DEF Begin, PlaceInv, Reading
<1>3. CASE Kill \/ Record
  BY <1>3, PlaceAfterReset DEF Kill, Record
<1>4. CASE ResolveExternalId
  <2>1. PICK k \in DOMAIN Accounts :
           \/ at' = "session" /\ here' = Place(k, 1, <<>>, <<>>, 0, "due")
           \/ \E r : AccountEnds(k, r)
    BY <1>4, ResolveDoes
  <2>2. 1 \in DOMAIN Regions
    BY ListsOf
  <2>3. ScansTrails \/ Pending("due")
    BY ServicesOf DEF Pending
  <2>4. CASE at' = "session" /\ here' = Place(k, 1, <<>>, <<>>, 0, "due")
    BY <2>2, <2>3, <2>4 DEF PlaceInv, Reading
  <2> QED BY <2>1, <2>4, PlaceAfterAccount
<1>5. CASE OpenSession
  <2>1. PICK k \in DOMAIN Accounts, i \in DOMAIN Regions, g \in {"due", "read"} :
           /\ g = "read" => GlobalServices # <<>>
           /\ ScansTrails \/ Pending(g)
           /\ \/ SessionOpens(k, i, g)
              \/ \E r : RegionEnds(k, i, g, r)
    BY <1>5, SessionDoes
  <2>2. ASSUME SessionOpens(k, i, g) PROVE PlaceInv'
    <3>1. PICK scope \in {GlobalServices, <<"cloudtrail">>}, h \in {"due", "read"} :
             /\ IF Pending(g) THEN scope = GlobalServices /\ h = "read" ELSE scope = <<"cloudtrail">> /\ h = g
             /\ at' = "call" /\ here' = Place(k, i, scope, scope, 1, h)
             /\ view' = Unasked(Head(scope))
      BY <2>2 DEF SessionOpens
    <3>2. scope # <<>> /\ (scope = <<"cloudtrail">> => ScansTrails /\ ~Pending(h))
          /\ (scope # <<"cloudtrail">> => h = "read") /\ (h = "read" => GlobalServices # <<>>)
      BY <2>1, <3>1, ServicesOf DEF Pending
    <3>3. scope \in Lefts(scope)
      BY DEF Lefts
    <3>4. 1 \in DOMAIN Calls(Head(scope))
      BY <3>1, <3>2, <3>3, KnownServices, CallsOf
    <3>5. DOMAIN view' = Elements(Calls(Head(scope)))
      BY <3>1 DEF Unasked
    <3> QED BY <2>1, <3>1, <3>2, <3>3, <3>4, <3>5, PlaceInScope
  <2> QED BY <2>1, <2>2, PlaceAfterRegion
<1>6. CASE ReadCall
  <2>1. PICK k, i, scope, left, call, g :
           /\ InScope(k, i, scope, left, call, g) /\ left \in Lefts(scope)
           /\ call \in DOMAIN Calls(Head(left)) /\ Service = Head(left)
           /\ Outcomes(Head(left), Calls(Head(left))[call])
           /\ GoesOn(k, i, scope, left, call, g)
    BY <1>6, ReadDoes
  <2>2. Head(left) \in ThreeServices
    BY <2>1, KnownServices DEF InScope
  <2>3. DOMAIN view' = Elements(Calls(Head(left)))
    BY <1>6, <2>1 DEF Outcomes, PlaceInv, ReadCall
  <2>4. PICK next \in call + 1 .. Len(Calls(Head(left))) + 1 :
           \/ at' = "judge" /\ here' = Place(k, i, scope, left, 0, g)
           \/ /\ next <= Len(Calls(Head(left))) /\ at' = "call"
              /\ here' = Place(k, i, scope, left, next, g)
    BY <2>1 DEF GoesOn
  <2>5. next \in Nat /\ (next <= Len(Calls(Head(left))) => next \in DOMAIN Calls(Head(left)))
    BY <2>1, <2>2, <2>4, CallsOf
  <2> QED BY <2>1, <2>3, <2>4, <2>5, PlaceInScope DEF InScope
<1>7. CASE CollectorCrash \/ Judge
  <2>1. PICK k, i, scope, left, call, g :
           InScope(k, i, scope, left, call, g) /\ left \in Lefts(scope)
              /\ Advances(k, i, scope, left, g)
    BY <1>7, ServiceDoes
  <2>2. CASE left = <<"iam", "s3">>
    <3>1. at' = "call" /\ here' = Place(k, i, scope, <<"s3">>, 1, g) /\ view' = Unasked("s3")
      BY <2>1, <2>2 DEF Advances
    <3>2. scope = <<"iam", "s3">>
      BY <2>1, <2>2 DEF Lefts
    <3>3. <<"s3">> \in Lefts(scope) /\ Head(<<"s3">>) = "s3"
      BY <3>2 DEF Lefts
    <3>4. 1 \in DOMAIN Calls("s3")
      BY CallsOf DEF ThreeServices
    <3>5. DOMAIN view' = Elements(Calls("s3"))
      BY <3>1 DEF Unasked
    <3> QED BY <2>1, <3>1, <3>3, <3>4, <3>5, PlaceInScope DEF InScope
  <2>3. CASE left # <<"iam", "s3">>
    <3>1. at' = "close" /\ here' = Place(k, i, scope, <<>>, 0, g)
      BY <2>1, <2>3 DEF Advances
    <3> QED BY <2>1, <3>1, PlaceInScope DEF InScope
  <2> QED BY <2>2, <2>3
<1>8. CASE RuleCrash
  <2>1. PICK k, i, scope, left, call, g :
           /\ InScope(k, i, scope, left, call, g)
           /\ at' = "close" /\ here' = Place(k, i, scope, <<>>, 0, g)
    BY <1>8, RuleCrashDoes
  <2> QED BY <2>1, PlaceInScope DEF InScope
<1>9. CASE CloseScope
  <2>1. PICK k, i, scope, call, g :
           /\ InScope(k, i, scope, <<>>, call, g)
           /\ \/ /\ ScansTrails /\ scope = GlobalServices /\ g = "read"
                 /\ at' = "call" /\ here' = Place(k, i, <<"cloudtrail">>, <<"cloudtrail">>, 1, "read")
                 /\ view' = Unasked("cloudtrail")
              \/ RegionEnds(k, i, g, Collected)
    BY <1>9, CloseDoes
  <2>2. CASE /\ ScansTrails /\ scope = GlobalServices /\ g = "read"
             /\ at' = "call" /\ here' = Place(k, i, <<"cloudtrail">>, <<"cloudtrail">>, 1, "read")
             /\ view' = Unasked("cloudtrail")
    <3>1. <<"cloudtrail">> \in Lefts(<<"cloudtrail">>) /\ Head(<<"cloudtrail">>) = "cloudtrail"
      BY DEF Lefts
    <3>2. 1 \in DOMAIN Calls("cloudtrail")
      BY CallsOf DEF ThreeServices
    <3>3. DOMAIN view' = Elements(Calls("cloudtrail"))
      BY <2>2 DEF Unasked
    <3>4. ~Pending("read") /\ <<"cloudtrail">> # <<>>
      BY DEF Pending
    <3> QED BY <2>1, <2>2, <3>1, <3>2, <3>3, <3>4, PlaceInScope DEF InScope
  <2>3. CASE RegionEnds(k, i, g, Collected)
    BY <2>1, <2>3, PlaceAfterRegion DEF InScope
  <2> QED BY <2>1, <2>2, <2>3
<1>10. ASSUME NEW i \in Invocations, Skip(i) PROVE UNCHANGED <<at, here, view>>
  BY <1>10 DEF Skip, scanning
<1>11. CASE Change
  <2>1. UNCHANGED <<at, here, view>>
    BY <1>11 DEF Change, scanning
  <2> QED BY <1>1, <2>1
<1>12. CASE UNCHANGED vars
  <2>1. UNCHANGED <<at, here, view>>
    BY <1>12 DEF vars, scanning
  <2> QED BY <1>1, <2>1
<1> QED BY <1>1, <1>2, <1>3, <1>4, <1>5, <1>6, <1>7, <1>8, <1>9, <1>10, <1>11, <1>12 DEF Next, Scan

\* The values that stand for none are no others.
LEMMA NoneApart ==
    /\ None \notin Invocations /\ None \notin BOOLEAN /\ None \notin Resources \cup Words
    /\ Failed # None /\ Unread # None /\ Failed # Unread
    /\ None \notin DOMAIN Rank
    /\ Failed \notin Words /\ Unread \notin Words /\ Failed \notin BOOLEAN /\ Unread \notin BOOLEAN
BY AnswerAssumption, FleetAssumption

\* Between its start and its end a scan keeps the lock.
LEMMA ScanKeepsLock ==
    ASSUME PlaceInv,
           ResolveExternalId \/ OpenSession \/ ReadCall \/ CollectorCrash \/ Judge \/ RuleCrash
              \/ CloseScope
    PROVE  /\ at # "idle" /\ at' # "idle" /\ lock' = lock /\ invocation' = invocation
           /\ estate' = estate /\ changes' = changes /\ held' = held
           /\ fleetRuns' = fleetRuns /\ fleetDrift' = fleetDrift
<1>1. at # "idle"
  BY DEF ResolveExternalId, OpenSession, ReadCall, CollectorCrash, Judge, RuleCrash, CloseScope
<1>2. Step
  BY DEF ResolveExternalId, OpenSession, ReadCall, CollectorCrash, Judge, RuleCrash, CloseScope,
         Works, Fails
<1>3. at' # "idle"
  <2>1. ASSUME NEW k, NEW r, AccountEnds(k, r) PROVE at' # "idle"
    BY <2>1 DEF AccountEnds
  <2>2. ASSUME NEW k, NEW i, NEW g, NEW r, RegionEnds(k, i, g, r) PROVE at' # "idle"
    BY <2>1, <2>2 DEF RegionEnds
  <2>3. CASE ResolveExternalId
    BY <2>1, <2>3, ResolveDoes
  <2>4. CASE OpenSession
    <3>1. PICK k, i, g : SessionOpens(k, i, g) \/ \E r : RegionEnds(k, i, g, r)
      BY <2>4, SessionDoes
    <3> QED BY <2>2, <3>1 DEF SessionOpens
  <2>5. CASE ReadCall \/ CollectorCrash \/ Judge \/ RuleCrash
    BY <2>5 DEF ReadCall, CollectorCrash, Judge, RuleCrash, NextService
  <2>6. CASE CloseScope
    <3>1. PICK k, i, g : at' = "call" \/ RegionEnds(k, i, g, Collected)
      BY <2>6, CloseDoes
    <3> QED BY <2>2, <3>1
  <2> QED BY <2>3, <2>4, <2>5, <2>6
<1> QED BY <1>1, <1>2, <1>3 DEF Step, history

\* The lock is held exactly from the start of a scan to its end.
LEMMA LockStep == PlaceInv /\ LockInv /\ [Next]_vars => LockInv'
<1> SUFFICES ASSUME PlaceInv, LockInv, [Next]_vars PROVE LockInv'
  OBVIOUS
<1>1. CASE Scan /\ ~Record
  BY <1>1, ScanKeepsLock DEF Scan, LockInv
<1>2. ASSUME NEW i \in Invocations, Begin(i) PROVE LockInv'
  BY <1>2, NoneApart DEF Begin, LockInv
<1>3. ASSUME NEW i \in Invocations, Skip(i) PROVE LockInv'
  BY <1>3 DEF Skip, Due, LockInv, scanning
<1>4. CASE Kill
  BY <1>4 DEF Kill, Reset, LockAfterDeath, LockInv
<1>5. CASE Record
  BY <1>5 DEF Record, Reset, LockInv
<1>6. CASE Change
  BY <1>6 DEF Change, scanning, LockInv
<1>7. CASE UNCHANGED vars
  BY <1>7 DEF vars, scanning, LockInv
<1> QED BY <1>1, <1>2, <1>3, <1>4, <1>5, <1>6, <1>7 DEF Next

\* Nothing runs in the beginning.
LEMMA ControlStarts == Init => PlaceInv /\ LockInv
<1> SUFFICES ASSUME Init PROVE PlaceInv /\ LockInv
  OBVIOUS
<1>1. PlaceInv
  BY DEF Init, PlaceInv, Reading
<1>2. LockInv
  BY DEF Init, LockInv
<1> QED BY <1>1, <1>2

\* Where scans are and who holds the lock, always.
LEMMA Controlled == Spec => [](PlaceInv /\ LockInv)
<1>1. PlaceInv /\ LockInv /\ [Next]_vars => (PlaceInv /\ LockInv)'
  BY PlaceStep, LockStep
<1> QED BY <1>1, ControlStarts, PTL DEF Spec

\* Nothing is skipped but while the holder of the lock is running.
THEOREM NothingSkipsForTheDead == Spec => SkipsOnlyWhileRunning
<1>1. PlaceInv /\ LockInv /\ [Next]_vars
      => [\A i \in Invocations :
             invocation[i] = "waiting" /\ invocation'[i] = "skipped" =>
                \E j \in Invocations : invocation[j] = "running"]_vars
  <2> SUFFICES ASSUME PlaceInv, LockInv, Next, NEW i \in Invocations,
                      invocation[i] = "waiting", invocation'[i] = "skipped"
               PROVE  \E j \in Invocations : invocation[j] = "running"
    OBVIOUS
  <2>1. CASE lock # None
    BY <2>1 DEF LockInv
  <2>2. CASE lock = None
    <3>1. at = "idle"
      BY <2>2 DEF LockInv
    <3>2. ~(ResolveExternalId \/ OpenSession \/ ReadCall \/ CollectorCrash \/ Judge \/ RuleCrash \/ CloseScope)
      BY <3>1, ScanKeepsLock
    <3>3. ~Record /\ ~Kill
      BY <3>1 DEF Record, Kill
    <3>4. \A j \in Invocations : ~Skip(j)
      BY <2>2 DEF Skip
    <3>5. ~Change
      BY DEF Change
    <3>6. PICK j \in Invocations : Begin(j)
      BY <3>2, <3>3, <3>4, <3>5 DEF Next, Scan
    <3> QED BY <3>6 DEF Begin, LockInv
  <2> QED BY <2>1, <2>2
<1> QED BY <1>1, Controlled, PTL DEF Spec, SkipsOnlyWhileRunning

\* A scope is known by its account, service and region.
LEMMA ScopesAre ==
    ASSUME NEW a \in DOMAIN Accounts, NEW s \in ScopesOf(Accounts[a])
    PROVE  /\ s.account = Accounts[a] /\ s.service \in Elements(Services)
           /\ s.service # "cloudtrail" => s.region = "aws-global"
                 /\ s.service \in Elements(GlobalServices)
           /\ s.service = "cloudtrail" => ScansTrails
                 /\ \E j \in DOMAIN Regions : s.region = Regions[j]
           /\ s = [account |-> s.account, service |-> s.service, region |-> s.region]
           /\ s \in FleetScopes
<1>1. PICK v \in Elements(Services), x \in Elements(Regions) : s = Scope(Accounts[a], v, x)
  BY DEF ScopesOf
<1>2. s = [account |-> Accounts[a], service |-> v, region |-> IF v = "cloudtrail" THEN x ELSE "aws-global"]
  BY <1>1 DEF Scope
<1>3. s.account = Accounts[a] /\ s.service = v /\ s.region = IF v = "cloudtrail" THEN x ELSE "aws-global"
  BY <1>2
<1>4. \E j \in DOMAIN Regions : x = Regions[j]
  BY DEF Elements
<1>5. v = "cloudtrail" => ScansTrails
  BY DEF ScansTrails
<1>6. v # "cloudtrail" => v \in Elements(GlobalServices)
  BY ServicesOf
<1>7. s \in FleetScopes
  BY ListsOf DEF FleetScopes
<1> QED BY <1>2, <1>3, <1>4, <1>5, <1>6, <1>7

\* A scope is of one of the accounts.
LEMMA FleetScopesAre == \A s \in FleetScopes : \E a \in DOMAIN Accounts : s \in ScopesOf(Accounts[a])
BY DEF FleetScopes, Elements

\* The scope of a configured account, service and region.
LEMMA ScopeIn ==
    ASSUME NEW a \in DOMAIN Accounts, NEW v \in Elements(Services), NEW j \in DOMAIN Regions
    PROVE  /\ Scope(Accounts[a], v, Regions[j]) \in ScopesOf(Accounts[a])
           /\ Scope(Accounts[a], v, Regions[j]).service = v
           /\ Scope(Accounts[a], v, Regions[j]).account = Accounts[a]
           /\ Scope(Accounts[a], v, Regions[j]).region = IF v = "cloudtrail" THEN Regions[j] ELSE "aws-global"
BY ListsOf DEF ScopesOf, Scope

\* An account's scopes differ in service or region.
LEMMA SameScope ==
    ASSUME NEW a \in DOMAIN Accounts, NEW s \in ScopesOf(Accounts[a]),
           NEW t \in ScopesOf(Accounts[a]),
           s.service = t.service, s.region = t.region
    PROVE  s = t
BY ScopesAre

\* What is refused grows with the errors only.
LEMMA RefusedGrows ==
    ASSUME NEW E, NEW N, NEW a, NEW r
    PROVE  Refused(E \cup N, a, r) <=> Refused(E, a, r) \/ Refused(N, a, r)
BY DEF Refused

\* Errors of other accounts do not degrade a scope.
LEMMA DegradedElsewhere ==
    ASSUME NEW E, NEW N, NEW s, \A e \in N : e.account # s.account
    PROVE  Degraded(E \cup N, s) <=> Degraded(E, s)
<1>1. \A r : Refused(E \cup N, s.account, r) <=> Refused(E, s.account, r)
  BY DEF Refused
<1>2. \A e : Concerns(E \cup N, e, s) <=> Concerns(E, e, s)
  BY <1>1 DEF Concerns
<1>3. \A e \in N : ~Concerns(E, e, s)
  BY DEF Concerns
<1> QED BY <1>2, <1>3 DEF Degraded

\* Errors that change neither what is refused for a scope, nor concern it.
LEMMA DegradedBeside ==
    ASSUME NEW E, NEW N, NEW s,
           \A e \in N : e.operation # "external-id" /\ e.region # s.region,
           s.region = "aws-global" =>
              \/ \A e \in N : e.service # "AWS Account"
              \/ \E r \in Elements(Regions) : ~Refused(E \cup N, s.account, r)
    PROVE  Degraded(E \cup N, s) <=> Degraded(E, s)
<1>1. CASE s.region # "aws-global"
  BY <1>1 DEF Degraded, Concerns
<1>2. CASE s.region = "aws-global" /\ \A e \in N : e.service # "AWS Account"
  <2>1. \A r : Refused(E \cup N, s.account, r) <=> Refused(E, s.account, r)
    BY <1>2 DEF Refused
  <2> QED BY <1>2, <2>1 DEF Degraded, Concerns
<1>3. CASE s.region = "aws-global" /\ \E r \in Elements(Regions) : ~Refused(E \cup N, s.account, r)
  <2>1. \E r \in Elements(Regions) : ~Refused(E, s.account, r)
    BY <1>3, RefusedGrows
  <2> QED BY <1>3, <2>1 DEF Degraded, Concerns
<1> QED BY <1>1, <1>2, <1>3

\* A report to which account k adds errors N, entries for the scopes D and findings in them.
Grown(r, q, k, N, D, entries) ==
    /\ q.errors = r.errors \cup N
    /\ \A e \in N : e.account = Accounts[k]
    /\ q.coverage = Entered(r.coverage, entries)
    /\ DOMAIN entries = D /\ D \subseteq ScopesOf(Accounts[k])
    /\ \A m \in Marks : ScopeOfMark[m] \notin D => q.findings[m] = r.findings[m]

\* The scopes D are what comes to lie behind a scan that gets from k, n and g to kk, nn and gg.
Moves(k, n, g, kk, nn, gg, D) ==
    \A a \in DOMAIN Accounts : \A s \in ScopesOf(Accounts[a]) :
       Behind(a, s, kk, nn, gg) <=> Behind(a, s, k, n, g) \/ s \in D

\* They were still to come, and their entries say what the report's errors say.
Entries(q, k, n, g, D, entries) ==
    \A s \in D : /\ ~Behind(k, s, k, n, g)
                 /\ Degraded(q.errors, s) => entries[s] = FALSE
                 /\ ~Degraded(q.errors, s) => entries[s] = TRUE

\* The new errors concern no scope of the account that is already covered.
Keeps(r, q, k, n, g) ==
    \A s \in ScopesOf(Accounts[k]) :
       Behind(k, s, k, n, g) => (Degraded(q.errors, s) <=> Degraded(r.errors, s))

\* A report that grows by what a scan has just left behind covers what is behind it.
LEMMA CoversGrown ==
    ASSUME NEW r, NEW q, NEW k \in DOMAIN Accounts, NEW n, NEW g, NEW kk, NEW nn, NEW gg,
           NEW N, NEW D, NEW entries,
           Covers(r, k, n, g), Grown(r, q, k, N, D, entries), Moves(k, n, g, kk, nn, gg, D),
           Entries(q, k, n, g, D, entries), Keeps(r, q, k, n, g)
    PROVE  Covers(q, kk, nn, gg)
<1>7. /\ \A a \in DOMAIN Accounts : \A s \in ScopesOf(Accounts[a]) :
            Behind(a, s, kk, nn, gg) <=> Behind(a, s, k, n, g) \/ s \in D
      /\ \A s \in D : /\ ~Behind(k, s, k, n, g)
                      /\ Degraded(q.errors, s) => entries[s] = FALSE
                      /\ ~Degraded(q.errors, s) => entries[s] = TRUE
      /\ \A s \in ScopesOf(Accounts[k]) : Behind(k, s, k, n, g) =>
            (Degraded(q.errors, s) <=> Degraded(r.errors, s))
  BY DEF Moves, Entries, Keeps
<1> SUFFICES ASSUME NEW a \in DOMAIN Accounts, NEW s \in ScopesOf(Accounts[a])
             PROVE  IF Behind(a, s, kk, nn, gg) THEN Exact(q, s) ELSE Blank(q, s)
  BY DEF Covers
<1>1. s \in FleetScopes /\ s.account = Accounts[a]
  BY ScopesAre
<1>2. q.coverage[s] = IF s \in D THEN Append(r.coverage[s], entries[s]) ELSE r.coverage[s]
  BY <1>1 DEF Grown, Entered
<1>3. s \in D => a = k
  <2>1. s \in D => s.account = Accounts[k]
    BY ScopesAre DEF Grown
  <2> QED BY <1>1, <2>1, ListsOf
<1>4. IF Behind(a, s, k, n, g) THEN Exact(r, s) ELSE Blank(r, s)
  BY DEF Covers
<1>5. CASE s \in D
  <2>1. r.coverage[s] = <<>>
    BY <1>7, <1>3, <1>4, <1>5 DEF Blank
  <2>2. q.coverage[s] = Append(<<>>, entries[s])
    BY <1>2, <1>5, <2>1
  <2>3. \A x : Append(<<>>, x) = <<x>>
    OBVIOUS
  <2>4. q.coverage[s] = <<entries[s]>>
    BY <2>2, <2>3
  <2>5. Exact(q, s)
    BY <1>7, <1>5, <2>4 DEF Exact
  <2> QED BY <1>7, <1>5, <2>5
<1>6. CASE s \notin D
  <2>1. q.coverage[s] = r.coverage[s]
    BY <1>2, <1>6
  <2>2. Behind(a, s, k, n, g) => (Degraded(q.errors, s) <=> Degraded(r.errors, s))
    <3>1. CASE a = k
      BY <1>7, <3>1
    <3>2. CASE a # k
      <4>1. Accounts[a] # Accounts[k]
        BY <3>2, ListsOf
      <4>2. \A e \in N : e.account # s.account
        BY <1>1, <4>1 DEF Grown
      <4> QED BY <4>2, DegradedElsewhere DEF Grown
    <3> QED BY <3>1, <3>2
  <2>3. CASE Behind(a, s, k, n, g)
    <3>1. Exact(r, s)
      BY <1>4, <2>3
    <3>2. q.coverage[s] = IF Degraded(r.errors, s) THEN <<FALSE>> ELSE <<TRUE>>
      BY <2>1, <3>1 DEF Exact
    <3>3. Exact(q, s)
      BY <2>2, <2>3, <3>2 DEF Exact
    <3>4. Behind(a, s, kk, nn, gg)
      BY <1>7, <2>3
    <3> QED BY <3>3, <3>4
  <2>4. CASE ~Behind(a, s, k, n, g)
    <3>1. Blank(r, s)
      BY <1>4, <2>4
    <3>2. \A m \in Marks : ScopeOfMark[m] = s => q.findings[m] = r.findings[m]
      BY <1>6 DEF Grown
    <3>3. Blank(q, s)
      BY <2>1, <3>1, <3>2 DEF Blank
    <3>4. ~Behind(a, s, kk, nn, gg)
      BY <1>7, <1>6, <2>4
    <3> QED BY <3>3, <3>4
  <2> QED BY <2>3, <2>4
<1> QED BY <1>5, <1>6

\* The parts of a report.
IsAReport(r) == DOMAIN r = {"findings", "errors", "coverage"}

\* A report of the accounts before k, n regions of k and perhaps its global services.
ReportAt(r, k, n, g) == IsAReport(r) /\ Covers(r, k, n, g) /\ Placed(r, k, n, g)

\* What the sessions of account k in the first n regions came to.
SessionAt(r, k, n, g) ==
    IF g = "read" THEN \E j \in 1 .. n : ~Refused(r.errors, Accounts[k], Regions[j])
    ELSE GlobalServices # <<>> => \A j \in 1 .. n : Refused(r.errors, Accounts[k], Regions[j])

\* An account is finished when its regions and global services are.
LEMMA AccountFinished ==
    ASSUME NEW r, NEW k \in DOMAIN Accounts, NEW n, NEW g \in {"due", "read"}, ReportAt(r, k, n, g),
           n = Len(Regions) \/ ~ScansTrails, ~Pending(g)
    PROVE  ReportAt(r, k + 1, 0, "due")
<1>0. DOMAIN Accounts = 1 .. Len(Accounts) /\ Len(Accounts) \in Nat
  BY ListsOf
<1>1. \A a \in DOMAIN Accounts : \A s \in ScopesOf(Accounts[a]) :
         Behind(a, s, k + 1, 0, "due") <=> Behind(a, s, k, n, g)
  <2> SUFFICES ASSUME NEW a \in DOMAIN Accounts, NEW s \in ScopesOf(Accounts[a])
               PROVE  Behind(a, s, k + 1, 0, "due") <=> Behind(a, s, k, n, g)
    OBVIOUS
  <2>1. Behind(a, s, k + 1, 0, "due") <=> a < k + 1
    BY DEF Behind
  <2>2. CASE s.service = "cloudtrail"
    <3>1. \E j \in 1 .. n : s.region = Regions[j]
      BY <2>2, ScopesAre, ListsOf
    <3> QED BY <1>0, <2>1, <2>2, <3>1 DEF Behind
  <2>3. CASE s.service # "cloudtrail"
    <3>1. s.service \in Elements(GlobalServices)
      BY <2>3, ScopesAre
    <3>2. GlobalServices # <<>>
      BY <3>1, ElementsOf
    <3>3. g = "read"
      BY <3>2 DEF Pending
    <3> QED BY <1>0, <2>1, <2>3, <3>3 DEF Behind
  <2> QED BY <2>2, <2>3
<1>2. Covers(r, k + 1, 0, "due")
  BY <1>1 DEF Covers, ReportAt
<1>3. Placed(r, k + 1, 0, "due")
  <2>1. ASSUME NEW e, Reached(e, k, n, g) PROVE Reached(e, k + 1, 0, "due")
    BY <1>0, <2>1 DEF Reached
  <2> QED BY <2>1 DEF Placed, ReportAt
<1> QED BY <1>2, <1>3 DEF ReportAt

\* A report with other errors and coverage.
Extends(r, E, C) == [r EXCEPT !.errors = E, !.coverage = C]

\* A report with other errors and coverage.
LEMMA Extended ==
    ASSUME NEW r, IsAReport(r), NEW E, NEW C
    PROVE  /\ IsAReport(Extends(r, E, C)) /\ Extends(r, E, C).errors = E
           /\ Extends(r, E, C).coverage = C /\ Extends(r, E, C).findings = r.findings
<1>1. Extends(r, E, C).errors = E /\ Extends(r, E, C).coverage = C
         /\ Extends(r, E, C).findings = r.findings
  BY DEF IsAReport, Extends
<1>2. IsAReport(Extends(r, E, C))
  BY DEF IsAReport, Extends
<1> QED BY <1>1, <1>2

\* The empty report.
LEMMA NoReportIs == IsAReport(NoReport) /\ NoReport.errors = {}
BY DEF IsAReport, NoReport

\* A report with more errors.
Adds(r, q, N) == q.errors = r.errors \cup N

\* Errors of account k, of what is done of it.
AllPlaced(N, k, n, g) == \A e \in N : e.account = Accounts[k] /\ PlacedIn(e, n, g) /\ Located(e)

\* New errors of what is done are errors of what is done.
LEMMA PlacedGrown ==
    ASSUME NEW r, NEW q, NEW k \in DOMAIN Accounts, NEW n \in Nat, NEW g, NEW nn \in Nat, NEW gg,
           NEW N,
           Placed(r, k, n, g), Adds(r, q, N), n <= nn, g = "read" => gg = "read",
           AllPlaced(N, k, nn, gg)
    PROVE  Placed(q, k, nn, gg)
<1>1. ASSUME NEW e, PlacedIn(e, n, g) PROVE PlacedIn(e, nn, gg)
  <2>1. 1 .. n \subseteq 1 .. nn
    OBVIOUS
  <2> QED BY <1>1, <2>1 DEF PlacedIn
<1>2. ASSUME NEW e, Reached(e, k, n, g) PROVE Reached(e, k, nn, gg)
  BY <1>1, <1>2 DEF Reached
<1>3. \A e \in N : Reached(e, k, nn, gg)
  BY DEF Reached, AllPlaced
<1> QED BY <1>2, <1>3 DEF Placed, Adds, AllPlaced

\* Errors of the account in progress are of its regions that are done.
LEMMA ErrorsOfAccount ==
    ASSUME NEW k \in DOMAIN Accounts, NEW n, NEW g, NEW e, Reached(e, k, n, g),
           e.account = Accounts[k]
    PROVE  PlacedIn(e, n, g)
<1>1. PICK a \in DOMAIN Accounts : e.account = Accounts[a]
              /\ (a < k \/ (a = k /\ PlacedIn(e, n, g)))
  BY DEF Reached
<1>2. a = k
  BY <1>1, ListsOf
<1>3. ~(a < k)
  BY <1>2, ListsOf
<1> QED BY <1>1, <1>2, <1>3

\* A region to come is none of those done.
LEMMA OtherRegion ==
    ASSUME NEW n \in Nat, NEW j \in 1 .. n, NEW i \in Nat, n < i, i <= Len(Regions)
    PROVE  Regions[j] # Regions[i]
<1>1. DOMAIN Regions = 1 .. Len(Regions) /\ Len(Regions) \in Nat
  BY ListsOf
<1>2. j \in DOMAIN Regions /\ i \in DOMAIN Regions /\ j # i
  BY <1>1
<1> QED BY <1>2, ListsOf

\* No session of account k was refused in a region that is still to come.
LEMMA NotYetRefused ==
    ASSUME NEW r, NEW k \in DOMAIN Accounts, NEW n \in Nat, NEW g, Placed(r, k, n, g),
           NEW i \in Nat, n < i, i <= Len(Regions)
    PROVE  ~Refused(r.errors, Accounts[k], Regions[i])
<1> SUFFICES ASSUME NEW e \in r.errors, e.service = "AWS Account", e.account = Accounts[k],
                    e.region = Regions[i]
             PROVE  FALSE
  BY DEF Refused
<1>1. PlacedIn(e, n, g)
  BY ErrorsOfAccount DEF Placed
<1>2. "AWS Account" \notin Elements(GlobalServices) \cup {"AWS"}
  BY ServicesOf
<1>3. PICK j \in 1 .. n : e.region = Regions[j]
  BY <1>1, <1>2 DEF PlacedIn
<1>4. Regions[j] # Regions[i]
  BY <1>3, OtherRegion
<1> QED BY <1>3, <1>4

\* resolve_external_id failed: the account is incomplete as a whole.
LEMMA ReportGivesAccountUp ==
    ASSUME NEW k \in DOMAIN Accounts, ReportAt(report, k, 0, "due"), Account = Accounts[k]
    PROVE  ReportAt([report EXCEPT
                       !.errors = @ \cup {Error("external-id", "AWS Account", None)},
                       !.coverage = Entered(@, Incomplete(ScopesOf(Accounts[k])))], k + 1, 0, "due")
<1> DEFINE error == Error("external-id", "AWS Account", None)
           D == ScopesOf(Accounts[k])
           E == report.errors \cup {error}
           C == Entered(report.coverage, Incomplete(D))
           q == Extends(report, E, C)
<1>0. IsAReport(report)
  BY DEF ReportAt
<1> HIDE DEF E, C
<1>1. IsAReport(q) /\ q.errors = E /\ q.coverage = C /\ q.findings = report.findings
  BY <1>0, Extended
<1> USE DEF E, C
<1>2. error.account = Accounts[k] /\ error.operation = "external-id"
         /\ error.service = "AWS Account"
  BY DEF Error
<1>3. DOMAIN Accounts = 1 .. Len(Accounts) /\ Len(Accounts) \in Nat
  BY ListsOf
<1>4. Grown(report, q, k, {error}, D, Incomplete(D))
  BY <1>1, <1>2 DEF Grown, Incomplete
<1>5. Moves(k, 0, "due", k + 1, 0, "due", D)
  <2> SUFFICES ASSUME NEW a \in DOMAIN Accounts, NEW s \in ScopesOf(Accounts[a])
               PROVE  Behind(a, s, k + 1, 0, "due") <=> Behind(a, s, k, 0, "due") \/ s \in D
    BY DEF Moves
  <2>1. s \in D <=> a = k
    BY ScopesAre, ListsOf
  <2> QED BY <1>3, <2>1 DEF Behind
<1>6. \A s \in D : Degraded(q.errors, s) /\ Incomplete(D)[s] = FALSE /\ ~Behind(k, s, k, 0, "due")
  <2> SUFFICES ASSUME NEW s \in D
               PROVE  Degraded(q.errors, s) /\ Incomplete(D)[s] = FALSE
                         /\ ~Behind(k, s, k, 0, "due")
    OBVIOUS
  <2>1. s.account = Accounts[k]
    BY ScopesAre
  <2>2. Concerns(q.errors, error, s)
    BY <1>2, <2>1 DEF Concerns
  <2>3. Degraded(q.errors, s)
    BY <1>1, <2>2 DEF Degraded
  <2>4. ~Behind(k, s, k, 0, "due")
    BY <1>3 DEF Behind
  <2> QED BY <2>3, <2>4 DEF Incomplete
<1>7. Covers(q, k + 1, 0, "due")
  <2>1. Entries(q, k, 0, "due", D, Incomplete(D))
    BY <1>6 DEF Entries
  <2>2. Keeps(report, q, k, 0, "due")
    BY <1>6 DEF Keeps
  <2>3. Covers(report, k, 0, "due")
    BY DEF ReportAt
  <2> HIDE DEF q, D, error
  <2> QED BY <1>4, <1>5, <2>1, <2>2, <2>3, CoversGrown
<1>8. Placed(q, k + 1, 0, "due")
  <2>0. k < k + 1
    BY <1>3
  <2> HIDE DEF error
  <2>1. Reached(error, k + 1, 0, "due") /\ Located(error)
    BY <1>2, <2>0 DEF Reached, Located
  <2>2. ASSUME NEW e, Reached(e, k, 0, "due") PROVE Reached(e, k + 1, 0, "due")
    BY <1>3, <2>2 DEF Reached
  <2> QED BY <1>1, <2>1, <2>2 DEF Placed, ReportAt
<1>9. ReportAt(q, k + 1, 0, "due")
  BY <1>1, <1>7, <1>8 DEF ReportAt
<1> QED BY <1>9 DEF Extends

\* The scope that a region adds.
TrailScope(k, i) == IF ScansTrails THEN {Scope(Accounts[k], "cloudtrail", Regions[i])} ELSE {}

\* The scopes that the global services add.
GlobalScopes(k, i) == {Scope(Accounts[k], s, Regions[i]) : s \in Elements(GlobalServices)}

\* The scope of the trails in a region.
LEMMA TrailScopeIs ==
    ASSUME NEW k \in DOMAIN Accounts, NEW i \in DOMAIN Regions
    PROVE  /\ TrailScope(k, i) \subseteq ScopesOf(Accounts[k])
           /\ \A s \in TrailScope(k, i) :
                 s.account = Accounts[k] /\ s.service = "cloudtrail" /\ s.region = Regions[i]
           /\ \A s \in ScopesOf(Accounts[k]) :
                 s.service = "cloudtrail" /\ s.region = Regions[i] => s \in TrailScope(k, i)
<1>1. ScansTrails => "cloudtrail" \in Elements(Services)
  BY DEF ScansTrails
<1>2. TrailScope(k, i) \subseteq ScopesOf(Accounts[k])
  BY <1>1, ScopeIn DEF TrailScope
<1>3. \A s \in TrailScope(k, i) :
         s.account = Accounts[k] /\ s.service = "cloudtrail" /\ s.region = Regions[i]
  BY <1>1, ScopeIn DEF TrailScope
<1>4. ASSUME NEW s \in ScopesOf(Accounts[k]), s.service = "cloudtrail", s.region = Regions[i]
      PROVE  s \in TrailScope(k, i)
  <2>1. ScansTrails
    BY <1>4, ScopesAre
  <2> DEFINE t == Scope(Accounts[k], "cloudtrail", Regions[i])
  <2>2. t \in TrailScope(k, i)
    BY <2>1 DEF TrailScope
  <2>3. t \in ScopesOf(Accounts[k]) /\ t.service = "cloudtrail" /\ t.region = Regions[i]
    BY <1>2, <1>3, <2>2
  <2>4. s = t
    <3> HIDE DEF t
    <3> QED BY <1>4, <2>3, SameScope
  <2> QED BY <2>2, <2>4
<1> QED BY <1>2, <1>3, <1>4

\* The scopes of the global services do not depend on the region.
LEMMA GlobalScopesAre ==
    ASSUME NEW k \in DOMAIN Accounts, NEW i \in DOMAIN Regions
    PROVE  /\ GlobalScopes(k, i) \subseteq ScopesOf(Accounts[k])
           /\ \A s \in GlobalScopes(k, i) :
                 /\ s.account = Accounts[k] /\ s.service \in Elements(GlobalServices)
                 /\ s.service # "cloudtrail" /\ s.region = "aws-global"
           /\ \A s \in ScopesOf(Accounts[k]) : s.service # "cloudtrail" => s \in GlobalScopes(k, i)
<1>1. \A v \in Elements(GlobalServices) : v \in Elements(Services) /\ v # "cloudtrail"
  BY ServicesOf
<1>2. GlobalScopes(k, i) \subseteq ScopesOf(Accounts[k])
  BY <1>1, ScopeIn DEF GlobalScopes
<1>3. \A s \in GlobalScopes(k, i) :
         /\ s.account = Accounts[k] /\ s.service \in Elements(GlobalServices)
         /\ s.service # "cloudtrail" /\ s.region = "aws-global"
  BY <1>1, ScopeIn DEF GlobalScopes
<1>4. ASSUME NEW s \in ScopesOf(Accounts[k]), s.service # "cloudtrail"
      PROVE  s \in GlobalScopes(k, i)
  <2>1. s.service \in Elements(GlobalServices) /\ s.region = "aws-global"
    BY <1>4, ScopesAre
  <2> DEFINE t == Scope(Accounts[k], s.service, Regions[i])
  <2>2. t \in GlobalScopes(k, i)
    BY <2>1 DEF GlobalScopes
  <2>3. t \in ScopesOf(Accounts[k]) /\ t.region = "aws-global"
    BY <1>2, <1>3, <2>2
  <2>4. t.service = s.service
    BY <1>1, <2>1, ScopeIn
  <2>5. s = t
    <3> HIDE DEF t
    <3> QED BY <2>1, <2>3, <2>4, SameScope
  <2> QED BY <2>2, <2>5
<1> QED BY <1>2, <1>3, <1>4

\* What a region adds to what is done.
LEMMA TrailMoves ==
    ASSUME NEW k \in DOMAIN Accounts, NEW n \in Nat, NEW i \in Nat, i = n + 1, i <= Len(Regions),
           NEW g
    PROVE  Moves(k, n, g, k, i, g, TrailScope(k, i))
              /\ \A s \in TrailScope(k, i) : ~Behind(k, s, k, n, g)
<1>1. i \in DOMAIN Regions
  BY ListsOf
<1>2. ASSUME NEW s \in TrailScope(k, i) PROVE ~Behind(k, s, k, n, g)
  <2>1. s.service = "cloudtrail" /\ s.region = Regions[i]
    BY <1>1, TrailScopeIs
  <2>2. \A j \in 1 .. n : Regions[j] # Regions[i]
    BY OtherRegion
  <2>3. ~(k < k)
    BY ListsOf
  <2> QED BY <2>1, <2>2, <2>3 DEF Behind
<1>3. ASSUME NEW a \in DOMAIN Accounts, NEW s \in ScopesOf(Accounts[a])
      PROVE  Behind(a, s, k, i, g) <=> Behind(a, s, k, n, g) \/ s \in TrailScope(k, i)
  <2>1. s.service = "cloudtrail" =>
          ((\E j \in 1 .. i : s.region = Regions[j])
             <=> (\E j \in 1 .. n : s.region = Regions[j]) \/ s.region = Regions[i])
    <3>1. \A j : j \in 1 .. i <=> j \in 1 .. n \/ j = i
      OBVIOUS
    <3> QED BY <3>1
  <2>2. s \in TrailScope(k, i) <=> a = k /\ s.service = "cloudtrail" /\ s.region = Regions[i]
    <3>1. s \in TrailScope(k, i) => s.account = Accounts[k] /\ s.service = "cloudtrail"
             /\ s.region = Regions[i]
      BY <1>1, TrailScopeIs
    <3>2. s.account = Accounts[a]
      BY ScopesAre
    <3>3. Accounts[a] = Accounts[k] => a = k
      BY ListsOf
    <3> QED BY <1>1, <3>1, <3>2, <3>3, TrailScopeIs
  <2> QED BY <2>1, <2>2 DEF Behind
<1> QED BY <1>2, <1>3 DEF Moves

\* What the global services add to it.
LEMMA GlobalMoves ==
    ASSUME NEW k \in DOMAIN Accounts, NEW n, NEW i \in DOMAIN Regions
    PROVE  /\ Moves(k, n, "due", k, n, "read", GlobalScopes(k, i))
           /\ \A s \in GlobalScopes(k, i) : ~Behind(k, s, k, n, "due")
<1>1. ASSUME NEW s \in GlobalScopes(k, i) PROVE ~Behind(k, s, k, n, "due")
  <2>1. s.service # "cloudtrail"
    BY GlobalScopesAre
  <2>2. ~(k < k)
    BY ListsOf
  <2> QED BY <2>1, <2>2 DEF Behind
<1>2. ASSUME NEW a \in DOMAIN Accounts, NEW s \in ScopesOf(Accounts[a])
      PROVE  Behind(a, s, k, n, "read") <=> Behind(a, s, k, n, "due") \/ s \in GlobalScopes(k, i)
  <2>1. s \in GlobalScopes(k, i) <=> a = k /\ s.service # "cloudtrail"
    <3>1. s \in GlobalScopes(k, i) => s.account = Accounts[k] /\ s.service # "cloudtrail"
      BY GlobalScopesAre
    <3>2. s.account = Accounts[a]
      BY ScopesAre
    <3>3. Accounts[a] = Accounts[k] => a = k
      BY ListsOf
    <3> QED BY <3>1, <3>2, <3>3, GlobalScopesAre
  <2> QED BY <2>1 DEF Behind
<1> QED BY <1>1, <1>2 DEF Moves

\* An error that tells of a session that was refused.
RefusalIn(error, k, i) ==
    /\ error.operation \in {"assume-role", "verify-target"} /\ error.service = "AWS Account"
    /\ error.account = Accounts[k] /\ error.region = Regions[i]

\* A session error of region i leaves the scopes already covered as they are.
LEMMA RefusalKeeps ==
    ASSUME NEW r, NEW q, NEW k \in DOMAIN Accounts, NEW n \in Nat, NEW i \in Nat, i = n + 1,
           i <= Len(Regions),
           NEW g \in {"due", "read"}, SessionAt(r, k, n, g), NEW error, Adds(r, q, {error}),
           RefusalIn(error, k, i)
    PROVE  Keeps(r, q, k, n, g)
<1> SUFFICES ASSUME NEW s \in ScopesOf(Accounts[k]), Behind(k, s, k, n, g)
             PROVE  Degraded(q.errors, s) <=> Degraded(r.errors, s)
  BY DEF Keeps
<1>1. s.account = Accounts[k] /\ ~(k < k)
  BY ScopesAre, ListsOf
<1>2. i \in DOMAIN Regions /\ Regions[i] # "aws-global"
  <2>1. i \in DOMAIN Regions
    BY ListsOf
  <2> QED BY <2>1, ListsOf
<1>3. CASE s.service = "cloudtrail"
  <2>1. PICK j \in 1 .. n : s.region = Regions[j]
    BY <1>1, <1>3 DEF Behind
  <2>2. s.region # Regions[i]
    BY <2>1, OtherRegion
  <2>3. s.region # "aws-global"
    <3>1. \E x \in DOMAIN Regions : s.region = Regions[x]
      BY <1>3, ScopesAre
    <3> QED BY <3>1, ListsOf
  <2>4. \A e \in {error} : e.operation # "external-id" /\ e.region # s.region
    BY <2>2 DEF RefusalIn
  <2>5. Degraded(r.errors \cup {error}, s) <=> Degraded(r.errors, s)
    BY <2>3, <2>4, DegradedBeside
  <2> QED BY <2>5 DEF Adds
<1>4. CASE s.service # "cloudtrail"
  <2>1. g = "read"
    BY <1>1, <1>4 DEF Behind
  <2>2. s.region = "aws-global"
    BY <1>4, ScopesAre
  <2>3. PICK j \in 1 .. n : ~Refused(r.errors, Accounts[k], Regions[j])
    BY <2>1 DEF SessionAt
  <2>4. Regions[j] # Regions[i]
    BY <2>3, OtherRegion
  <2>5. ~Refused({error}, Accounts[k], Regions[j])
    BY <2>4 DEF Refused, RefusalIn
  <2>6. ~Refused(r.errors \cup {error}, s.account, Regions[j])
    BY <1>1, <2>3, <2>5, RefusedGrows
  <2>7. Regions[j] \in Elements(Regions)
    <3>1. j \in DOMAIN Regions
      BY <2>3, ListsOf
    <3> QED BY <3>1, ListsOf
  <2>8. \A e \in {error} : e.operation # "external-id" /\ e.region # s.region
    BY <1>2, <2>2 DEF RefusalIn
  <2>9. \E x \in Elements(Regions) : ~Refused(r.errors \cup {error}, s.account, x)
    BY <2>6, <2>7
  <2>10. Degraded(r.errors \cup {error}, s) <=> Degraded(r.errors, s)
    BY <2>8, <2>9, DegradedBeside
  <2> QED BY <2>10 DEF Adds
<1> QED BY <1>3, <1>4

\* Nor does it change what is known of the earlier sessions.
LEMMA RefusalTells ==
    ASSUME NEW r, NEW q, NEW k \in DOMAIN Accounts, NEW n \in Nat, NEW i \in Nat, i = n + 1,
           i <= Len(Regions),
           NEW g \in {"due", "read"}, SessionAt(r, k, n, g), NEW error, Adds(r, q, {error}),
           RefusalIn(error, k, i)
    PROVE  SessionAt(q, k, i, g)
<1>1. \A j : Refused(q.errors, Accounts[k], Regions[j])
             <=> Refused(r.errors, Accounts[k], Regions[j])
                \/ Refused({error}, Accounts[k], Regions[j])
  BY RefusedGrows DEF Adds
<1>2. CASE g = "read"
  <2>1. PICK j \in 1 .. n : ~Refused(r.errors, Accounts[k], Regions[j])
    BY <1>2 DEF SessionAt
  <2>2. Regions[j] # Regions[i]
    BY <2>1, OtherRegion
  <2>3. ~Refused({error}, Accounts[k], Regions[j])
    BY <2>2 DEF Refused, RefusalIn
  <2>4. j \in 1 .. i
    BY <2>1
  <2> QED BY <1>1, <1>2, <2>1, <2>3, <2>4 DEF SessionAt
<1>3. CASE g = "due"
  <2> SUFFICES ASSUME GlobalServices # <<>>, NEW j \in 1 .. i
               PROVE  Refused(q.errors, Accounts[k], Regions[j])
    BY <1>3 DEF SessionAt
  <2>1. CASE j = i
    <3>1. Refused({error}, Accounts[k], Regions[i])
      BY DEF Refused, RefusalIn
    <3> QED BY <1>1, <2>1, <3>1
  <2>2. CASE j # i
    <3>1. j \in 1 .. n
      BY <2>2
    <3>2. Refused(r.errors, Accounts[k], Regions[j])
      BY <1>3, <3>1 DEF SessionAt
    <3> QED BY <1>1, <3>2
  <2> QED BY <2>1, <2>2
<1> QED BY <1>2, <1>3

\* The role is refused in region i: its trails are incomplete, and nothing else.
LEMMA ReportOfRefusal ==
    ASSUME NEW k \in DOMAIN Accounts, NEW n \in Nat, NEW i \in Nat, i = n + 1, i <= Len(Regions),
           NEW g \in {"due", "read"}, ReportAt(report, k, n, g), SessionAt(report, k, n, g),
           Account = Accounts[k], NEW operation \in {"assume-role", "verify-target"}
    PROVE  /\ ReportAt(RefusedReport(k, i, operation), k, i, g)
           /\ SessionAt(RefusedReport(k, i, operation), k, i, g)
<1> DEFINE error == Error(operation, "AWS Account", Regions[i])
           D == TrailScope(k, i)
           E == report.errors \cup {error}
           C == Entered(report.coverage, Incomplete(D))
           q == Extends(report, E, C)
<1>0. IsAReport(report) /\ i \in DOMAIN Regions
  BY ListsOf DEF ReportAt
<1> HIDE DEF E, C
<1>1. IsAReport(q) /\ q.errors = E /\ q.coverage = C /\ q.findings = report.findings
  BY <1>0, Extended
<1> USE DEF E, C
<1>2. /\ error.account = Accounts[k] /\ error.operation = operation /\ error.service = "AWS Account"
      /\ error.region = Regions[i] /\ operation # "external-id"
  BY DEF Error
<1> HIDE DEF error, D
<1>3. D \subseteq ScopesOf(Accounts[k])
      /\ \A s \in D : s.account = Accounts[k] /\ s.service = "cloudtrail" /\ s.region = Regions[i]
  BY <1>0, TrailScopeIs DEF D
<1>4. Grown(report, q, k, {error}, D, Incomplete(D))
  BY <1>1, <1>2, <1>3 DEF Grown, Incomplete
<1>5. Moves(k, n, g, k, i, g, D) /\ \A s \in D : ~Behind(k, s, k, n, g)
  BY TrailMoves DEF D
<1>6. \A s \in D : Degraded(q.errors, s)
  BY <1>1, <1>2, <1>3 DEF Degraded, Concerns
<1>7. Entries(q, k, n, g, D, Incomplete(D))
  BY <1>5, <1>6 DEF Entries, Incomplete
<1>8. Adds(report, q, {error}) /\ RefusalIn(error, k, i)
  BY <1>1, <1>2 DEF Adds, RefusalIn
<1> HIDE DEF q
<1>9. Keeps(report, q, k, n, g)
  BY <1>8, RefusalKeeps
<1>10. SessionAt(q, k, i, g)
  BY <1>8, RefusalTells
<1>11. Covers(q, k, i, g)
  BY <1>4, <1>5, <1>7, <1>9, CoversGrown DEF ReportAt
<1>12. Placed(q, k, i, g)
  <2>1. i \in 1 .. i /\ n <= i
    OBVIOUS
  <2>2. AllPlaced({error}, k, i, g)
    BY <1>8, <2>1 DEF PlacedIn, Located, RefusalIn, AllPlaced
  <2>3. Placed(report, k, n, g)
    BY DEF ReportAt
  <2> HIDE DEF error
  <2> QED BY <1>8, <2>1, <2>2, <2>3, PlacedGrown
<1>13. ReportAt(q, k, i, g)
  BY <1>1, <1>11, <1>12 DEF ReportAt
<1>14. q = RefusedReport(k, i, operation)
  BY DEF q, E, C, D, error, TrailScope, Extends, RefusedReport
<1> QED BY <1>10, <1>13, <1>14

\* No session of the account could be had: its global services are incomplete.
LEMMA ReportGivesUp ==
    ASSUME NEW r, NEW k \in DOMAIN Accounts, NEW i \in DOMAIN Regions, i = Len(Regions),
           ReportAt(r, k, i, "due"), SessionAt(r, k, i, "due"), Pending("due")
    PROVE  ReportAt(GivenUp(r, k, i), k, i, "read")
<1> DEFINE D == GlobalScopes(k, i)
           C == Entered(r.coverage, Incomplete(D))
           q == Extends(r, r.errors, C)
<1>0. IsAReport(r) /\ i \in Nat
  BY ListsOf DEF ReportAt
<1> HIDE DEF C
<1>1. IsAReport(q) /\ q.errors = r.errors /\ q.coverage = C /\ q.findings = r.findings
  BY <1>0, Extended
<1> USE DEF C
<1> HIDE DEF D
<1>3. D \subseteq ScopesOf(Accounts[k])
      /\ \A s \in D : s.account = Accounts[k] /\ s.service # "cloudtrail" /\ s.region = "aws-global"
  BY <1>0, GlobalScopesAre DEF D
<1>4. Grown(r, q, k, {}, D, Incomplete(D))
  BY <1>1, <1>3 DEF Grown, Incomplete
<1>5. Moves(k, i, "due", k, i, "read", D) /\ \A s \in D : ~Behind(k, s, k, i, "due")
  BY GlobalMoves DEF D
<1>6. \A s \in D : Degraded(q.errors, s)
  <2> SUFFICES ASSUME NEW s \in D PROVE Degraded(r.errors, s)
    BY <1>1
  <2>1. s.account = Accounts[k] /\ s.region = "aws-global"
    BY <1>3
  <2>2. \A j \in 1 .. i : Refused(r.errors, Accounts[k], Regions[j])
    BY DEF SessionAt, Pending
  <2>3. \A x \in Elements(Regions) : Refused(r.errors, Accounts[k], x)
    <3>1. DOMAIN Regions = 1 .. i
      BY ListsOf
    <3> QED BY <2>2, <3>1 DEF Elements
  <2>4. PICK e \in r.errors : e.service = "AWS Account" /\ e.account = Accounts[k]
    <3>1. Regions[i] \in Elements(Regions)
      BY ListsOf
    <3> QED BY <2>3, <3>1 DEF Refused
  <2>5. Concerns(r.errors, e, s)
    BY <2>1, <2>3, <2>4 DEF Concerns
  <2> QED BY <2>4, <2>5 DEF Degraded
<1>7. Entries(q, k, i, "due", D, Incomplete(D))
  BY <1>5, <1>6 DEF Entries, Incomplete
<1>9. Keeps(r, q, k, i, "due")
  BY <1>1 DEF Keeps
<1> HIDE DEF q
<1>11. Covers(q, k, i, "read")
  BY <1>4, <1>5, <1>7, <1>9, CoversGrown DEF ReportAt
<1>12. Placed(q, k, i, "read")
  BY <1>1 DEF Placed, Reached, PlacedIn, ReportAt
<1>13. ReportAt(q, k, i, "read")
  BY <1>1, <1>11, <1>12 DEF ReportAt
<1>14. q = GivenUp(r, k, i)
  BY <1>0 DEF q, C, D, GlobalScopes, Extends, GivenUp, IsAReport
<1> QED BY <1>13, <1>14

\* The region that the scopes of a list are entered with.
RegionOf(scope, i) == IF scope = <<"cloudtrail">> THEN Regions[i] ELSE "aws-global"

\* An error of the open scope: of one of its services, or of all.
FoundError(e, k, i, scope) ==
    /\ e.account = Accounts[k] /\ e.region = RegionOf(scope, i) /\ e.operation # "external-id"
    /\ \/ e.service = "AWS" /\ e.operation = "scan"
       \/ e.service \in Elements(scope) /\ e.operation # "scan"

\* What a scope's services left while they were read in region i of account k.
FoundAt(f, k, i, scope) ==
    /\ DOMAIN f = {"findings", "errors"}
    /\ \A e \in f.errors : FoundError(e, k, i, scope)
    /\ \A x \in f.findings : ServiceOf(x.control) \in Elements(scope)

\* The parts of a mark.
LEMMA MarkIs ==
    ASSUME NEW f, NEW a, NEW x
    PROVE  /\ Mark(f, a, x).account = a
           /\ Mark(f, a, x).control = f.control
           /\ Mark(f, a, x).region = Scope(a, ServiceOf(f.control), x).region
BY DEF Mark, Fingerprint

\* A mark's scope is that of its account, its control's service and its region.
LEMMA ScopeOfMarkIs ==
    ASSUME NEW f, NEW a, NEW x, Mark(f, a, x) \in Marks
    PROVE  ScopeOfMark[Mark(f, a, x)] = Scope(a, ServiceOf(f.control), x)
<1> DEFINE m == Mark(f, a, x)
<1>1. m.account = a /\ m.control = f.control /\ m.region = Scope(a, ServiceOf(f.control), x).region
  BY MarkIs
<1>2. ScopeOfMark[m] = Scope(m.account, ServiceOf(m.control), m.region)
  BY DEF ScopeOfMark
<1>3. \A v : Scope(a, v, Scope(a, v, x).region) = Scope(a, v, x)
  BY DEF Scope
<1> HIDE DEF m
<1>4. ScopeOfMark[m] = Scope(a, ServiceOf(f.control), x)
  BY <1>1, <1>2, <1>3
<1> QED BY <1>4 DEF m

\* The scopes that are entered when a scope list is done.
ScopesRead(k, i, scope) == {Scope(Accounts[k], v, Regions[i]) : v \in Elements(scope)}

\* The entries made for them.
EntriesFor(D) == [s \in D |-> ~\E e \in found.errors : Relevant(e, s.service)]

\* The findings with those of a scope that ended.
FindingsWith(marked) ==
    [m \in Marks |-> IF \E f \in marked : f.mark = m THEN (CHOOSE f \in marked : f.mark = m).severity
                     ELSE report.findings[m]]

\* The parts of the report that a scope has ended in.
LEMMA CollectedIs ==
    ASSUME NEW k, NEW i, NEW scope, NEW left, NEW call, NEW g, Fields(k, i, scope, left, call, g),
           IsAReport(report)
    PROVE  /\ IsAReport(Collected)
           /\ Collected.findings = FindingsWith(Marked)
           /\ Collected.errors = report.errors \cup found.errors
           /\ Collected.coverage = Entered(report.coverage, EntriesFor(ScopesRead(k, i, scope)))
<1> DEFINE F == FindingsWith(Marked)
           E == report.errors \cup found.errors
           C == Entered(report.coverage, EntriesFor(ScopesRead(k, i, scope)))
<1>1. Account = Accounts[k] /\ Region = Regions[i] /\ here.scope = scope
  BY DEF Fields
<1>2. C = Entered(report.coverage, [s \in {Scope(Account, v, Region) : v \in Elements(here.scope)} |->
                ~\E e \in found.errors : Relevant(e, s.service)])
  BY <1>1 DEF EntriesFor, ScopesRead
<1>3. Collected = [report EXCEPT !.findings = F, !.errors = E, !.coverage = C]
  BY <1>2 DEF Collected, FindingsWith
<1> HIDE DEF F, E, C
<1>4. Collected.findings = F
  BY <1>3 DEF IsAReport
<1>5. Collected.errors = E
  BY <1>3 DEF IsAReport
<1>6. Collected.coverage = C
  BY <1>3 DEF IsAReport
<1>7. IsAReport(Collected)
  BY <1>3 DEF IsAReport
<1> QED BY <1>4, <1>5, <1>6, <1>7 DEF F, E, C

\* It has grown by the scope and by nothing else.
LEMMA CollectedGrows ==
    ASSUME NEW k \in DOMAIN Accounts, NEW i \in DOMAIN Regions, NEW scope, NEW left, NEW call,
           NEW g,
           Fields(k, i, scope, left, call, g), IsAReport(report), FoundAt(found, k, i, scope),
           ScopesRead(k, i, scope) \subseteq ScopesOf(Accounts[k])
    PROVE  Grown(report, Collected, k, found.errors, ScopesRead(k, i, scope),
                 EntriesFor(ScopesRead(k, i, scope)))
<1> DEFINE D == ScopesRead(k, i, scope)
<1>1. Account = Accounts[k] /\ Region = Regions[i]
  BY DEF Fields
<1>2. ASSUME NEW m \in Marks, ScopeOfMark[m] \notin D PROVE FindingsWith(Marked)[m] = report.findings[m]
  <2>1. ASSUME NEW x \in Marked, x.mark = m PROVE FALSE
    <3>1. PICK f \in found.findings : x = [mark |-> Mark(f, Accounts[k], Regions[i]), severity |-> f.severity]
      BY <1>1, <2>1 DEF Marked
    <3>2. m = Mark(f, Accounts[k], Regions[i])
      BY <2>1, <3>1
    <3>3. ScopeOfMark[m] = Scope(Accounts[k], ServiceOf(f.control), Regions[i])
      BY <3>2, ScopeOfMarkIs
    <3>4. ServiceOf(f.control) \in Elements(scope)
      BY <3>1 DEF FoundAt
    <3> QED BY <1>2, <3>3, <3>4 DEF ScopesRead
  <2> QED BY <2>1 DEF FindingsWith
<1>3. \A e \in found.errors : e.account = Accounts[k]
  BY DEF FoundAt, FoundError
<1>4. DOMAIN EntriesFor(D) = D
  BY DEF EntriesFor
<1>5. Collected.findings = FindingsWith(Marked)
  BY CollectedIs
<1>6. Collected.errors = report.errors \cup found.errors
  BY CollectedIs
<1>7. Collected.coverage = Entered(report.coverage, EntriesFor(D))
  BY CollectedIs
<1>8. \A m \in Marks : ScopeOfMark[m] \notin D => Collected.findings[m] = report.findings[m]
  BY <1>2, <1>5
<1> QED BY <1>3, <1>4, <1>6, <1>7, <1>8 DEF Grown

\* What a scope found are no session errors.
LEMMA FoundNoSession ==
    ASSUME NEW f, NEW k, NEW i, NEW scope, Elements(scope) \subseteq ThreeServices,
           FoundAt(f, k, i, scope)
    PROVE  \A e \in f.errors : /\ e.service # "AWS Account" /\ e.service \in Elements(scope) \cup {"AWS"}
                               /\ e.account = Accounts[k] /\ e.region = RegionOf(scope, i)
                               /\ e.operation # "external-id"
BY DEF FoundAt, FoundError, ThreeServices

\* A scope just read is degraded exactly by what was found while it was read.
LEMMA OwnErrors ==
    ASSUME NEW r, NEW f, NEW k, NEW i, NEW scope, Elements(scope) \subseteq ThreeServices,
           FoundAt(f, k, i, scope),
           NEW s, s.account = Accounts[k], s.service \in Elements(scope),
           s.region = RegionOf(scope, i),
           \A e \in r.errors : e.account = Accounts[k] => e.operation # "external-id"
              /\ e.region # s.region,
           s.region = "aws-global" => \E x \in Elements(Regions) : ~Refused(r.errors \cup f.errors, s.account, x)
    PROVE  Degraded(r.errors \cup f.errors, s) <=> \E e \in f.errors : Relevant(e, s.service)
<1>1. ASSUME NEW e \in f.errors, Relevant(e, s.service) PROVE Degraded(r.errors \cup f.errors, s)
  <2>1. FoundError(e, k, i, scope)
    BY DEF FoundAt
  <2>2. e.service \in {s.service, "AWS"}
    BY <1>1, <2>1 DEF FoundError, Relevant
  <2>3. Concerns(r.errors \cup f.errors, e, s)
    BY <2>1, <2>2 DEF Concerns, FoundError
  <2> QED BY <2>3 DEF Degraded
<1>2. ASSUME NEW e \in f.errors, Concerns(r.errors \cup f.errors, e, s) PROVE Relevant(e, s.service)
  <2>1. FoundError(e, k, i, scope)
    BY DEF FoundAt
  <2>2. e.service # "AWS Account" /\ e.operation # "external-id"
    BY FoundNoSession
  <2>3. e.service \in {s.service, "AWS"}
    BY <1>2, <2>2 DEF Concerns
  <2>4. "AWS" \notin Elements(scope)
    BY DEF ThreeServices
  <2> QED BY <2>1, <2>3, <2>4 DEF FoundError, Relevant
<1>3. ASSUME NEW e \in r.errors PROVE ~Concerns(r.errors \cup f.errors, e, s)
  <2>1. e.account = s.account => e.operation # "external-id" /\ e.region # s.region
    OBVIOUS
  <2> QED BY <2>1 DEF Concerns
<1> QED BY <1>1, <1>2, <1>3 DEF Degraded

\* The entries of a scope say what its errors say.
LEMMA EntriesSay ==
    ASSUME NEW q, NEW k, NEW n, NEW g, NEW D, \A s \in D : ~Behind(k, s, k, n, g),
           \A s \in D : Degraded(q.errors, s) <=> \E e \in found.errors : Relevant(e, s.service)
    PROVE  Entries(q, k, n, g, D, EntriesFor(D))
<1> SUFFICES ASSUME NEW s \in D
             PROVE  /\ Degraded(q.errors, s) => EntriesFor(D)[s] = FALSE
                    /\ ~Degraded(q.errors, s) => EntriesFor(D)[s] = TRUE
  BY DEF Entries
<1>1. EntriesFor(D)[s] = ~\E e \in found.errors : Relevant(e, s.service)
  BY DEF EntriesFor
<1>2. Degraded(q.errors, s) <=> \E e \in found.errors : Relevant(e, s.service)
  OBVIOUS
<1>3. Degraded(q.errors, s) => EntriesFor(D)[s] = FALSE
  BY <1>1, <1>2, Zenon
<1>4. ~Degraded(q.errors, s) => EntriesFor(D)[s] = TRUE
  BY <1>1, <1>2, Zenon
<1> QED BY <1>3, <1>4

\* What reading finds refuses no session.
LEMMA FoundRefusesNone ==
    ASSUME NEW r, NEW f, NEW k, NEW i, NEW scope, Elements(scope) \subseteq ThreeServices,
           FoundAt(f, k, i, scope),
           NEW a, NEW x
    PROVE  Refused(r.errors \cup f.errors, a, x) <=> Refused(r.errors, a, x)
<1>1. ~Refused(f.errors, a, x)
  BY FoundNoSession DEF Refused
<1> QED BY <1>1, RefusedGrows

\* The scopes of the two kinds of scope lists.
LEMMA ServiceScopes ==
    ASSUME NEW k \in DOMAIN Accounts, NEW i \in DOMAIN Regions
    PROVE  /\ ScopesRead(k, i, GlobalServices) = GlobalScopes(k, i)
           /\ ScansTrails => ScopesRead(k, i, <<"cloudtrail">>) = TrailScope(k, i)
BY ElementsOf DEF ScopesRead, GlobalScopes, TrailScope

\* What a scope found changes nothing for the scopes that are done.
LEMMA FoundKeeps ==
    ASSUME NEW r, NEW q, NEW f, NEW k \in DOMAIN Accounts, NEW i, NEW scope,
           Elements(scope) \subseteq ThreeServices,
           FoundAt(f, k, i, scope), Adds(r, q, f.errors), NEW n, NEW g,
           \A s \in ScopesOf(Accounts[k]) : Behind(k, s, k, n, g) => s.region # RegionOf(scope, i)
    PROVE  Keeps(r, q, k, n, g)
<1> SUFFICES ASSUME NEW s \in ScopesOf(Accounts[k]), Behind(k, s, k, n, g)
             PROVE  Degraded(q.errors, s) <=> Degraded(r.errors, s)
  BY DEF Keeps
<1>1. RegionOf(scope, i) # s.region
  OBVIOUS
<1>2. \A e \in f.errors : e.operation # "external-id" /\ e.region # s.region
  BY <1>1 DEF FoundAt, FoundError
<1>3. \A e \in f.errors : e.service # "AWS Account"
  BY FoundNoSession
<1>4. Degraded(r.errors \cup f.errors, s) <=> Degraded(r.errors, s)
  BY <1>2, <1>3, DegradedBeside
<1> QED BY <1>4 DEF Adds

\* Every error is of a scope of the fleet.
LEMMA FoundLocated ==
    ASSUME NEW f, NEW k \in DOMAIN Accounts, NEW i \in DOMAIN Regions, NEW scope,
           Elements(scope) \subseteq Elements(Services) \cap ThreeServices, Elements(scope) # {},
           FoundAt(f, k, i, scope),
           \A v \in Elements(scope) : RegionOf(scope, i) = IF v = "cloudtrail" THEN Regions[i] ELSE "aws-global"
    PROVE  \A e \in f.errors : Located(e)
<1> SUFFICES ASSUME NEW e \in f.errors PROVE Located(e)
  OBVIOUS
<1>1. e.account = Accounts[k] /\ e.region = RegionOf(scope, i) /\ e.service \in Elements(scope)
         \cup {"AWS"}
  BY DEF FoundAt, FoundError
<1>2. PICK v \in Elements(scope) : e.service \in {v, "AWS"}
  BY <1>1
<1> DEFINE s == Scope(Accounts[k], v, Regions[i])
<1>3. s \in ScopesOf(Accounts[k]) /\ s.service = v /\ s.account = Accounts[k]
         /\ s.region = RegionOf(scope, i)
  BY <1>2, ScopeIn
<1> HIDE DEF s
<1>4. s \in FleetScopes
  BY <1>3, ScopesAre
<1> QED BY <1>1, <1>2, <1>3, <1>4 DEF Located

\* The trails of region i end in the report.
LEMMA TrailsClosed ==
    ASSUME NEW k \in DOMAIN Accounts, NEW n \in Nat, NEW i \in Nat, i = n + 1, i <= Len(Regions),
           NEW g \in {"due", "read"}, NEW left, NEW call,
           Fields(k, i, <<"cloudtrail">>, left, call, g),
           ReportAt(report, k, n, g), FoundAt(found, k, i, <<"cloudtrail">>), ScansTrails
    PROVE  ReportAt(Collected, k, i, g)
<1> DEFINE D == TrailScope(k, i)
           scope == <<"cloudtrail">>
<1>0. i \in DOMAIN Regions /\ Regions[i] # "aws-global"
  <2>1. i \in DOMAIN Regions
    BY ListsOf
  <2> QED BY <2>1, ListsOf
<1>1. Elements(scope) = {"cloudtrail"} /\ "cloudtrail" \in Elements(Services)
         /\ "cloudtrail" \in ThreeServices
  BY ElementsOf DEF ScansTrails, ThreeServices
<1>2. RegionOf(scope, i) = Regions[i]
  BY DEF RegionOf
<1>3. ScopesRead(k, i, scope) = D
  BY <1>0, ServiceScopes
<1> HIDE DEF scope, D
<1>4. D \subseteq ScopesOf(Accounts[k])
      /\ \A s \in D : s.account = Accounts[k] /\ s.service = "cloudtrail" /\ s.region = Regions[i]
  BY <1>0, TrailScopeIs DEF D
<1>5. IsAReport(report) /\ Covers(report, k, n, g) /\ Placed(report, k, n, g)
  BY DEF ReportAt
<1>6. FoundAt(found, k, i, scope) /\ Fields(k, i, scope, left, call, g)
  BY DEF scope
<1>7. Grown(report, Collected, k, found.errors, D, EntriesFor(D))
  BY <1>0, <1>3, <1>4, <1>5, <1>6, CollectedGrows
<1>8. Adds(report, Collected, found.errors) /\ IsAReport(Collected)
  BY <1>5, <1>6, CollectedIs DEF Adds
<1>9. Moves(k, n, g, k, i, g, D) /\ \A s \in D : ~Behind(k, s, k, n, g)
  BY TrailMoves DEF D
<1>10. \A s \in D : Degraded(Collected.errors, s) <=> \E e \in found.errors : Relevant(e, s.service)
  <2> SUFFICES ASSUME NEW s \in D
               PROVE  Degraded(report.errors \cup found.errors, s)
                         <=> \E e \in found.errors : Relevant(e, s.service)
    BY <1>8 DEF Adds
  <2>1. \A e \in report.errors : e.account = Accounts[k] => e.operation # "external-id"
           /\ e.region # Regions[i]
    <3> SUFFICES ASSUME NEW e \in report.errors, e.account = Accounts[k]
                 PROVE  e.operation # "external-id" /\ e.region # Regions[i]
      OBVIOUS
    <3>1. PlacedIn(e, n, g)
      BY <1>5, ErrorsOfAccount DEF Placed
    <3>2. \A j \in 1 .. n : Regions[j] # Regions[i]
      BY OtherRegion
    <3> QED BY <1>0, <3>1, <3>2 DEF PlacedIn
  <2>2. s.account = Accounts[k] /\ s.service \in Elements(scope) /\ s.region = RegionOf(scope, i)
    BY <1>1, <1>2, <1>4
  <2>3. s.region = Regions[i]
    BY <1>4
  <2>4. \A e \in report.errors : e.account = Accounts[k] => e.operation # "external-id"
           /\ e.region # s.region
    BY <2>1, <2>3
  <2>5. Elements(scope) \subseteq ThreeServices
    BY <1>1
  <2>6. s.region # "aws-global"
    BY <1>0, <2>3
  <2> QED BY <1>6, <2>2, <2>4, <2>5, <2>6, OwnErrors
<1>11. Entries(Collected, k, n, g, D, EntriesFor(D))
  BY <1>9, <1>10, EntriesSay
<1>12. Keeps(report, Collected, k, n, g)
  <2>1. ASSUME NEW s \in ScopesOf(Accounts[k]), Behind(k, s, k, n, g) PROVE s.region # RegionOf(scope, i)
    <3>1. CASE s.service = "cloudtrail"
      <4>1. ~(k < k)
        BY ListsOf
      <4>2. PICK j \in 1 .. n : s.region = Regions[j]
        BY <2>1, <3>1, <4>1 DEF Behind
      <4>3. Regions[j] # Regions[i]
        BY <4>2, OtherRegion
      <4> QED BY <1>2, <4>2, <4>3
    <3>2. CASE s.service # "cloudtrail"
      <4>1. s.region = "aws-global"
        BY <3>2, ScopesAre
      <4> QED BY <1>0, <1>2, <4>1
    <3> QED BY <3>1, <3>2
  <2> QED BY <1>1, <1>6, <1>8, <2>1, FoundKeeps
<1>13. Covers(Collected, k, i, g)
  BY <1>5, <1>7, <1>9, <1>11, <1>12, CoversGrown
<1>14. AllPlaced(found.errors, k, i, g)
  <2>1. \A e \in found.errors : Located(e)
    BY <1>0, <1>1, <1>2, <1>6, FoundLocated
  <2>2. i \in 1 .. i
    OBVIOUS
  <2>3. \A e \in found.errors :
           e.account = Accounts[k] /\ e.service \in {"cloudtrail", "AWS"}
              /\ e.operation # "external-id"
           /\ e.region = Regions[i]
    <3> SUFFICES ASSUME NEW e \in found.errors
                 PROVE  /\ e.account = Accounts[k] /\ e.service \in {"cloudtrail", "AWS"}
                        /\ e.operation # "external-id" /\ e.region = Regions[i]
      OBVIOUS
    <3>1. FoundError(e, k, i, scope)
      BY <1>6 DEF FoundAt
    <3> QED BY <1>1, <1>2, <3>1 DEF FoundError
  <2> QED BY <2>1, <2>2, <2>3 DEF AllPlaced, PlacedIn
<1>15. Placed(Collected, k, i, g)
  <2>1. n <= i
    OBVIOUS
  <2> QED BY <1>5, <1>8, <1>14, <2>1, PlacedGrown
<1> QED BY <1>8, <1>13, <1>15 DEF ReportAt

\* Global services are no trails.
LEMMA GlobalsAre ==
    ASSUME GlobalServices # <<>>
    PROVE  /\ GlobalServices # <<"cloudtrail">> /\ Elements(GlobalServices) # {}
           /\ Elements(GlobalServices) \subseteq Elements(Services) \cap ThreeServices
           /\ \A v \in Elements(GlobalServices) : v # "cloudtrail"
<1>1. GlobalServices \in {<<"iam">>, <<"s3">>, <<"iam", "s3">>}
  BY ServicesOf
<1>2. GlobalServices # <<"cloudtrail">>
  BY <1>1
<1>3. Elements(GlobalServices) # {} /\ \A v \in Elements(GlobalServices) : v # "cloudtrail"
  BY <1>1, ElementsOf
<1>4. Elements(GlobalServices) \subseteq Elements(Services) \cap ThreeServices
  BY ServicesOf DEF ThreeServices
<1> QED BY <1>2, <1>3, <1>4

\* The account's global services end in the report.
LEMMA GlobalsClosed ==
    ASSUME NEW k \in DOMAIN Accounts, NEW n \in Nat, NEW i \in Nat, i = n + 1, i <= Len(Regions),
           NEW g, NEW left, NEW call, Fields(k, i, GlobalServices, left, call, g),
           ReportAt(report, k, n, "due"), FoundAt(found, k, i, GlobalServices),
           GlobalServices # <<>>
    PROVE  ReportAt(Collected, k, n, "read") /\ ~Refused(Collected.errors, Accounts[k], Regions[i])
<1> DEFINE D == GlobalScopes(k, i)
<1>0. i \in DOMAIN Regions /\ n < i
  BY ListsOf
<1>1. /\ Elements(GlobalServices) \subseteq ThreeServices /\ Elements(GlobalServices) # {}
      /\ Elements(GlobalServices) \subseteq Elements(Services) \cap ThreeServices
      /\ \A v \in Elements(GlobalServices) : v # "cloudtrail"
  BY GlobalsAre
<1>2. RegionOf(GlobalServices, i) = "aws-global"
  BY GlobalsAre DEF RegionOf
<1>3. ScopesRead(k, i, GlobalServices) = D
  BY <1>0, ServiceScopes
<1> HIDE DEF D
<1>4. D \subseteq ScopesOf(Accounts[k])
      /\ \A s \in D : s.account = Accounts[k] /\ s.service \in Elements(GlobalServices)
            /\ s.region = "aws-global"
  BY <1>0, GlobalScopesAre DEF D
<1>5. IsAReport(report) /\ Covers(report, k, n, "due") /\ Placed(report, k, n, "due")
  BY DEF ReportAt
<1>7. Grown(report, Collected, k, found.errors, D, EntriesFor(D))
  BY <1>0, <1>3, <1>4, <1>5, CollectedGrows
<1>8. Adds(report, Collected, found.errors) /\ IsAReport(Collected)
  BY <1>5, CollectedIs DEF Adds
<1>9. Moves(k, n, "due", k, n, "read", D) /\ \A s \in D : ~Behind(k, s, k, n, "due")
  BY <1>0, GlobalMoves DEF D
<1>6. ~Refused(report.errors \cup found.errors, Accounts[k], Regions[i])
  <2>1. ~Refused(report.errors, Accounts[k], Regions[i])
    BY <1>0, <1>5, NotYetRefused
  <2> QED BY <1>1, <2>1, FoundRefusesNone
<1>10. \A s \in D : Degraded(Collected.errors, s) <=> \E e \in found.errors : Relevant(e, s.service)
  <2> SUFFICES ASSUME NEW s \in D
               PROVE  Degraded(report.errors \cup found.errors, s)
                         <=> \E e \in found.errors : Relevant(e, s.service)
    BY <1>8 DEF Adds
  <2>1. \A e \in report.errors : e.account = Accounts[k] => e.operation # "external-id"
           /\ e.region # "aws-global"
    <3> SUFFICES ASSUME NEW e \in report.errors, e.account = Accounts[k]
                 PROVE  e.operation # "external-id" /\ e.region # "aws-global"
      OBVIOUS
    <3>1. PlacedIn(e, n, "due")
      BY <1>5, ErrorsOfAccount DEF Placed
    <3>2. \A j \in 1 .. n : Regions[j] # "aws-global"
      BY ListsOf
    <3> QED BY <3>1, <3>2 DEF PlacedIn
  <2>2. s.account = Accounts[k] /\ s.service \in Elements(GlobalServices)
           /\ s.region = RegionOf(GlobalServices, i)
    BY <1>2, <1>4
  <2>3. s.region = "aws-global"
    BY <1>4
  <2>4. Regions[i] \in Elements(Regions)
    BY <1>0, ListsOf
  <2>5. \E x \in Elements(Regions) : ~Refused(report.errors \cup found.errors, s.account, x)
    BY <1>6, <2>2, <2>4
  <2> QED BY <1>1, <2>1, <2>2, <2>3, <2>5, OwnErrors
<1>11. Entries(Collected, k, n, "due", D, EntriesFor(D))
  BY <1>9, <1>10, EntriesSay
<1>12. Keeps(report, Collected, k, n, "due")
  <2>1. ASSUME NEW s \in ScopesOf(Accounts[k]), Behind(k, s, k, n, "due") PROVE s.region # RegionOf(GlobalServices, i)
    <3>1. ~(k < k)
      BY ListsOf
    <3>2. s.service = "cloudtrail"
      BY <2>1, <3>1 DEF Behind
    <3>3. \E x \in DOMAIN Regions : s.region = Regions[x]
      BY <3>2, ScopesAre
    <3> QED BY <1>2, <3>3, ListsOf
  <2> QED BY <1>1, <1>8, <2>1, FoundKeeps
<1>13. Covers(Collected, k, n, "read")
  BY <1>5, <1>7, <1>9, <1>11, <1>12, CoversGrown
<1>14. AllPlaced(found.errors, k, n, "read")
  <2>1. \A e \in found.errors : Located(e)
    BY <1>0, <1>1, <1>2, FoundLocated
  <2>2. ASSUME NEW e \in found.errors
        PROVE  /\ e.account = Accounts[k] /\ e.service \in Elements(GlobalServices) \cup {"AWS"}
               /\ e.operation # "external-id" /\ e.region = "aws-global"
    <3>1. FoundError(e, k, i, GlobalServices)
      BY DEF FoundAt
    <3> QED BY <1>2, <3>1 DEF FoundError
  <2> QED BY <2>1, <2>2 DEF AllPlaced, PlacedIn
<1>15. Placed(Collected, k, n, "read")
  <2>1. n <= n
    OBVIOUS
  <2> QED BY <1>5, <1>8, <1>14, <2>1, PlacedGrown
<1>16. ~Refused(Collected.errors, Accounts[k], Regions[i])
  BY <1>6, <1>8 DEF Adds
<1> QED BY <1>8, <1>13, <1>15, <1>16 DEF ReportAt

\* What is read while scope is read in region i: the report tells of the regions before.
ReadingAt(r, f, k, i, scope, g) ==
    /\ ReportAt(r, k, i - 1, IF scope = GlobalServices THEN "due" ELSE g)
    /\ g = "read" => \E j \in 1 .. i : ~Refused(r.errors, Accounts[k], Regions[j])
    /\ FoundAt(f, k, i, scope)

\* What the report covers, wherever the scan is.
ScanInv ==
    /\ at = "idle" => report = NoReport
    /\ at = "account" => ReportAt(report, here.account, 0, "due")
    /\ at = "session" =>
          /\ ReportAt(report, here.account, here.region - 1, here.globals)
          /\ SessionAt(report, here.account, here.region - 1, here.globals)
    /\ Reading => ReadingAt(report, found, here.account, here.region, here.scope, here.globals)
    /\ at = "record" => ReportAt(report, Len(Accounts) + 1, 0, "due")

\* The parts of a place.
LEMMA PlaceIs ==
    ASSUME NEW k, NEW i, NEW scope, NEW left, NEW call, NEW g
    PROVE  /\ Place(k, i, scope, left, call, g).account = k
                 /\ Place(k, i, scope, left, call, g).region = i
           /\ Place(k, i, scope, left, call, g).scope = scope
                 /\ Place(k, i, scope, left, call, g).left = left
           /\ Place(k, i, scope, left, call, g).call = call
                 /\ Place(k, i, scope, left, call, g).globals = g
BY DEF Place

\* The number of regions before a region.
LEMMA RegionBefore ==
    ASSUME NEW i \in DOMAIN Regions
    PROVE  i - 1 \in Nat /\ i \in Nat /\ i = (i - 1) + 1 /\ i <= Len(Regions)
BY ListsOf

\* The report after an account.
LEMMA ScanAfterAccount ==
    ASSUME NEW k \in DOMAIN Accounts, NEW r, AccountEnds(k, r), ReportAt(r, k + 1, 0, "due")
    PROVE  ScanInv'
<1>1. k \in 1 .. Len(Accounts) /\ Len(Accounts) \in Nat
  BY ListsOf
<1>2. report' = r
  BY DEF AccountEnds
<1>3. CASE k < Len(Accounts)
  <2>1. at' = "account" /\ here' = StartOf(k + 1)
    BY <1>3 DEF AccountEnds
  <2>2. here'.account = k + 1
    BY <2>1, PlaceIs DEF StartOf
  <2> QED BY <1>2, <2>1, <2>2 DEF ScanInv, Reading
<1>4. CASE ~(k < Len(Accounts))
  <2>1. at' = "record"
    BY <1>4 DEF AccountEnds
  <2>2. k + 1 = Len(Accounts) + 1
    BY <1>1, <1>4
  <2> QED BY <1>2, <2>1, <2>2 DEF ScanInv, Reading
<1> QED BY <1>3, <1>4

\* The report after a region.
LEMMA ScanAfterRegion ==
    ASSUME NEW k \in DOMAIN Accounts, NEW i \in DOMAIN Regions, NEW g \in {"due", "read"}, NEW r,
           RegionEnds(k, i, g, r), ReportAt(r, k, i, g), SessionAt(r, k, i, g)
    PROVE  ScanInv'
<1>1. CASE report' = r /\ at' = "session" /\ here' = Place(k, i + 1, <<>>, <<>>, 0, g)
  <2>1. here'.account = k /\ here'.region = i + 1 /\ here'.globals = g
    BY <1>1, PlaceIs
  <2>2. (i + 1) - 1 = i
    BY RegionBefore
  <2>3. ReportAt(report', here'.account, here'.region - 1, here'.globals)
    BY <1>1, <2>1, <2>2
  <2>4. SessionAt(report', here'.account, here'.region - 1, here'.globals)
    BY <1>1, <2>1, <2>2
  <2> QED BY <1>1, <2>3, <2>4 DEF ScanInv, Reading
<1>2. CASE i = Len(Regions) /\ Pending(g) /\ AccountEnds(k, GivenUp(r, k, i))
  <2>1. g = "due"
    BY <1>2 DEF Pending
  <2>2. ReportAt(GivenUp(r, k, i), k, i, "read")
    BY <1>2, <2>1, ReportGivesUp
  <2>3. ~Pending("read")
    BY DEF Pending
  <2>4. ReportAt(GivenUp(r, k, i), k + 1, 0, "due")
    BY <1>2, <2>2, <2>3, AccountFinished
  <2> QED BY <1>2, <2>4, ScanAfterAccount
<1>3. CASE (i = Len(Regions) \/ ~ScansTrails) /\ ~Pending(g) /\ AccountEnds(k, r)
  <2>1. ReportAt(r, k + 1, 0, "due")
    BY <1>3, AccountFinished
  <2> QED BY <1>3, <2>1, ScanAfterAccount
<1> QED BY <1>1, <1>2, <1>3 DEF RegionEnds

\* The report while a scope is read.
LEMMA ScanInScope ==
    ASSUME NEW k, NEW i, NEW scope, NEW left, NEW call, NEW g,
           at' \in {"call", "judge", "close"}, here' = Place(k, i, scope, left, call, g),
           ReadingAt(report', found', k, i, scope, g)
    PROVE  ScanInv'
<1>1. here'.account = k /\ here'.region = i /\ here'.scope = scope /\ here'.globals = g
  BY PlaceIs
<1>2. ReadingAt(report', found', here'.account, here'.region, here'.scope, here'.globals)
  BY <1>1
<1> QED BY <1>2 DEF ScanInv, Reading

\* A scope begins with nothing found.
LEMMA NothingFoundIs ==
    ASSUME NEW k, NEW i, NEW scope
    PROVE  FoundAt(NothingFound, k, i, scope)
BY DEF FoundAt, NothingFound

\* No call is called like the errors that are not of calls.
LEMMA CallNames ==
    ASSUME NEW service \in ThreeServices, NEW i \in DOMAIN Calls(service)
    PROVE  Calls(service)[i] # "external-id" /\ Calls(service)[i] # "scan"
<1>1. CASE service = "iam"
  BY <1>1 DEF Calls
<1>2. CASE service = "s3"
  BY <1>2 DEF Calls
<1>3. CASE service = "cloudtrail"
  BY <1>3 DEF Calls
<1> QED BY <1>1, <1>2, <1>3 DEF ThreeServices

\* A service's rules report controls of that service.
LEMMA EvaluateIs ==
    ASSUME NEW service \in ThreeServices, NEW v, NEW f \in Evaluate(service, v)
    PROVE  ServiceOf(f.control) = service
<1>1. CASE service = "iam"
  <2>1. f \in MfaRules(v) \/ f \in AccessKeyRules(v) \/ f \in PermissionRules(v)
    BY <1>1 DEF Evaluate
  <2>2. CASE f \in MfaRules(v)
    BY <1>1, <2>2 DEF MfaRules, When, Finding, ServiceOf
  <2>3. CASE f \in AccessKeyRules(v)
    BY <1>1, <2>3 DEF AccessKeyRules, When, Finding, ServiceOf
  <2>4. CASE f \in PermissionRules(v)
    <3>1. PICK p : f \in (LET document == v[p[1]] IN
                           IF ~Known(document) THEN {}
                           ELSE IF "admin" \in document.allows THEN {Finding("IAM-004", p[2], "CRITICAL")}
                           ELSE When("service" \in document.allows, "IAM-005", p[2],
                                     IF document.managed THEN "LOW" ELSE "HIGH"))
      BY <2>4 DEF PermissionRules
    <3>2. f.control = "IAM-004" \/ f.control = "IAM-005"
      BY <3>1 DEF When, Finding
    <3> QED BY <1>1, <3>2 DEF ServiceOf
  <2> QED BY <2>1, <2>2, <2>3, <2>4
<1>2. CASE service = "s3"
  BY <1>2 DEF Evaluate, PublicAccessBlockRule, AclRule, PolicyRule, EncryptionRule, When,
     Finding, ServiceOf
<1>3. CASE service = "cloudtrail"
  BY <1>3 DEF Evaluate, TrailRules, When, Finding, ServiceOf
<1> QED BY <1>1, <1>2, <1>3 DEF ThreeServices

\* The region of what a scope's errors are about, and the service they are of.
LEMMA ScopeReadIs ==
    ASSUME NEW k, NEW i, NEW scope, NEW left, NEW call, NEW g,
           InScope(k, i, scope, left, call, g)
    PROVE  /\ ScopeRegion = RegionOf(scope, i) /\ Account = Accounts[k]
           /\ Elements(scope) \subseteq ThreeServices
           /\ left \in Lefts(scope) => Head(left) \in Elements(scope)
<1>1. scope \in {<<"iam", "s3">>, <<"iam">>, <<"s3">>, <<"cloudtrail">>}
         /\ Elements(scope) \subseteq ThreeServices
  BY KnownServices DEF InScope
<1>2. Account = Accounts[k] /\ Region = Regions[i] /\ here.scope = scope
  BY FieldsOf DEF InScope, Fields
<1>3. ScopeRegion = RegionOf(scope, i)
  <2>1. ScopeRegion = IF scope[1] = "cloudtrail" THEN Regions[i] ELSE "aws-global"
    BY <1>2 DEF ScopeRegion, Scope
  <2>2. scope[1] = "cloudtrail" <=> scope = <<"cloudtrail">>
    BY <1>1
  <2> QED BY <2>1, <2>2 DEF RegionOf
<1>4. left \in Lefts(scope) => Head(left) \in Elements(scope)
  <2>1. CASE scope = <<"iam", "s3">>
    BY <2>1, ElementsOf DEF Lefts
  <2>2. CASE scope # <<"iam", "s3">>
    BY <1>1, <2>2, ElementsOf DEF Lefts
  <2> QED BY <2>1, <2>2
<1> QED BY <1>1, <1>2, <1>3, <1>4

\* An error of one service of the scope.
LEMMA ErrorOfService ==
    ASSUME NEW k, NEW i, NEW scope, NEW left, NEW call, NEW g,
           InScope(k, i, scope, left, call, g), left \in Lefts(scope),
           NEW operation, operation \notin {"external-id", "scan"}
    PROVE  FoundError(Error(operation, Head(left), ScopeRegion), k, i, scope)
<1>1. /\ ScopeRegion = RegionOf(scope, i) /\ Account = Accounts[k]
      /\ Head(left) \in Elements(scope)
  BY ScopeReadIs
<1> QED BY <1>1 DEF Error, FoundError

\* What a scope found, after a call,
LEMMA FoundAfterRead ==
    ASSUME NEW k, NEW i, NEW scope, NEW left, NEW call, NEW g,
           InScope(k, i, scope, left, call, g), left \in Lefts(scope), FoundAt(found, k, i, scope),
           call \in DOMAIN Calls(Head(left)), Outcomes(Head(left), Calls(Head(left))[call])
    PROVE  FoundAt(found', k, i, scope)
<1> DEFINE operation == Calls(Head(left))[call]
           error == Error(operation, Head(left), ScopeRegion)
<1>1. Head(left) \in ThreeServices
  BY KnownServices DEF InScope
<1>2. operation \notin {"external-id", "scan"}
  BY <1>1, CallNames
<1> HIDE DEF operation
<1>3. FoundError(error, k, i, scope)
  BY <1>2, ErrorOfService
<1>4. found' = found \/ found' = [found EXCEPT !.errors = @ \cup {error}]
  BY DEF Outcomes, operation
<1> HIDE DEF error
<1>5. CASE found' = [found EXCEPT !.errors = @ \cup {error}]
  <2>1. DOMAIN found' = {"findings", "errors"}
    BY <1>5 DEF FoundAt
  <2>2. found'.errors = found.errors \cup {error} /\ found'.findings = found.findings
    BY <1>5 DEF FoundAt
  <2> QED BY <1>3, <2>1, <2>2 DEF FoundAt
<1> QED BY <1>4, <1>5

\* after a service
LEMMA FoundAfterService ==
    ASSUME NEW k, NEW i, NEW scope, NEW left, NEW call, NEW g,
           InScope(k, i, scope, left, call, g), left \in Lefts(scope), FoundAt(found, k, i, scope),
           Service = Head(left), CollectorCrash \/ Judge
    PROVE  FoundAt(found', k, i, scope)
<1>1. CASE CollectorCrash
  <2> DEFINE error == Error("collect", Head(left), ScopeRegion)
             Others == {e \in found.errors : e.service # Head(left)}
  <2>1. FoundError(error, k, i, scope)
    BY ErrorOfService
  <2>2. found' = [found EXCEPT !.errors = {e \in @ : e.service # Head(left)} \cup {error}]
    BY <1>1 DEF CollectorCrash
  <2> HIDE DEF error
  <2>3. DOMAIN found' = {"findings", "errors"}
    BY <2>2 DEF FoundAt
  <2>4. found'.errors = Others \cup {error} /\ found'.findings = found.findings
    BY <2>2 DEF FoundAt
  <2> QED BY <2>1, <2>3, <2>4 DEF FoundAt
<1>2. CASE Judge
  <2> DEFINE more == Evaluate(Head(left), view)
  <2>1. found' = [found EXCEPT !.findings = @ \cup more]
    BY <1>2 DEF Judge
  <2>2. Head(left) \in ThreeServices /\ Head(left) \in Elements(scope)
    BY ScopeReadIs
  <2>3. \A f \in more : ServiceOf(f.control) = Head(left)
    BY <2>2, EvaluateIs
  <2> HIDE DEF more
  <2>4. DOMAIN found' = {"findings", "errors"}
    BY <2>1 DEF FoundAt
  <2>5. found'.findings = found.findings \cup more /\ found'.errors = found.errors
    BY <2>1 DEF FoundAt
  <2> QED BY <2>2, <2>3, <2>4, <2>5 DEF FoundAt
<1> QED BY <1>1, <1>2

\* and after a rule that raised.
LEMMA FoundAfterRuleCrash ==
    ASSUME NEW k, NEW i, NEW scope, NEW left, NEW call, NEW g,
           InScope(k, i, scope, left, call, g), RuleCrash
    PROVE  FoundAt(found', k, i, scope)
<1> DEFINE error == Error("scan", "AWS", ScopeRegion)
<1>1. FoundError(error, k, i, scope)
  <2>1. ScopeRegion = RegionOf(scope, i) /\ Account = Accounts[k]
    BY ScopeReadIs
  <2> QED BY <2>1 DEF Error, FoundError
<1>2. found' = [findings |-> {}, errors |-> {error}]
  BY DEF RuleCrash
<1> HIDE DEF error
<1>3. found'.errors = {error} /\ found'.findings = {} /\ DOMAIN found' = {"findings", "errors"}
  BY <1>2
<1> QED BY <1>1, <1>3 DEF FoundAt

\* resolve_external_id, a session and the steps that read a scope.
LEMMA ScanReads ==
    ASSUME PlaceInv, ScanInv, ResolveExternalId \/ ReadCall \/ CollectorCrash \/ Judge \/ RuleCrash
    PROVE  ScanInv'
<1>1. CASE ResolveExternalId
  <2>1. PICK k \in DOMAIN Accounts :
          /\ here = StartOf(k) /\ Account = Accounts[k]
          /\ \/ at' = "session" /\ here' = Place(k, 1, <<>>, <<>>, 0, "due") /\ report' = report
             \/ AccountEnds(k, [report EXCEPT
                   !.errors = @ \cup {Error("external-id", "AWS Account", None)},
                   !.coverage = Entered(@, Incomplete(ScopesOf(Accounts[k])))])
    BY <1>1, ResolveDoes
  <2>2. here.account = k
    BY <2>1, PlaceIs DEF StartOf
  <2>3. ReportAt(report, k, 0, "due")
    BY <1>1, <2>2 DEF ScanInv, ResolveExternalId
  <2>4. CASE at' = "session" /\ here' = Place(k, 1, <<>>, <<>>, 0, "due") /\ report' = report
    <3>1. here'.account = k /\ here'.region = 1 /\ here'.globals = "due"
      BY <2>4, PlaceIs
    <3>2. SessionAt(report, k, 0, "due")
      BY DEF SessionAt
    <3>3. 1 - 1 = 0
      OBVIOUS
    <3>4. ReportAt(report', here'.account, here'.region - 1, here'.globals)
      BY <2>3, <2>4, <3>1, <3>3
    <3>5. SessionAt(report', here'.account, here'.region - 1, here'.globals)
      BY <2>4, <3>1, <3>2, <3>3
    <3> QED BY <2>4, <3>4, <3>5 DEF ScanInv, Reading
  <2>5. CASE AccountEnds(k, [report EXCEPT
                !.errors = @ \cup {Error("external-id", "AWS Account", None)},
                !.coverage = Entered(@, Incomplete(ScopesOf(Accounts[k])))])
    BY <2>1, <2>3, <2>5, ReportGivesAccountUp, ScanAfterAccount
  <2> QED BY <2>1, <2>4, <2>5
<1>2. CASE ReadCall
  <2>1. PICK k, i, scope, left, call, g :
          /\ InScope(k, i, scope, left, call, g) /\ left \in Lefts(scope)
          /\ call \in DOMAIN Calls(Head(left))
          /\ Fields(k, i, scope, left, call, g)
          /\ Outcomes(Head(left), Calls(Head(left))[call])
          /\ GoesOn(k, i, scope, left, call, g)
          /\ report' = report
    BY <1>2, ReadDoes
  <2>2. ReadingAt(report, found, k, i, scope, g)
    BY <1>2, <2>1 DEF ScanInv, ReadCall, Reading, Fields
  <2>3. ReadingAt(report', found', k, i, scope, g)
    BY <2>1, <2>2, FoundAfterRead DEF ReadingAt
  <2>4. PICK x : at' \in {"call", "judge"} /\ here' = Place(k, i, scope, left, x, g)
    BY <2>1 DEF GoesOn
  <2> QED BY <2>3, <2>4, ScanInScope
<1>3. CASE CollectorCrash \/ Judge
  <2>1. PICK k, i, scope, left, call, g :
          /\ InScope(k, i, scope, left, call, g) /\ left \in Lefts(scope)
          /\ Fields(k, i, scope, left, call, g) /\ Service = Head(left)
          /\ Advances(k, i, scope, left, g)
          /\ report' = report
    BY <1>3, ServiceDoes
  <2>2. ReadingAt(report, found, k, i, scope, g)
    BY <1>3, <2>1 DEF ScanInv, CollectorCrash, Judge, Reading, Fields
  <2>3. ReadingAt(report', found', k, i, scope, g)
    BY <1>3, <2>1, <2>2, FoundAfterService DEF ReadingAt
  <2>4. PICK l, x : at' \in {"call", "close"} /\ here' = Place(k, i, scope, l, x, g)
    BY <2>1 DEF Advances
  <2> QED BY <2>3, <2>4, ScanInScope
<1>4. CASE RuleCrash
  <2>1. PICK k, i, scope, left, call, g :
          /\ InScope(k, i, scope, left, call, g) /\ left \in Lefts(scope)
          /\ Fields(k, i, scope, left, call, g)
          /\ at' = "close" /\ here' = Place(k, i, scope, <<>>, 0, g)
          /\ report' = report
    BY <1>4, RuleCrashDoes
  <2>2. ReadingAt(report, found, k, i, scope, g)
    BY <1>4, <2>1 DEF ScanInv, RuleCrash, Reading, Fields
  <2>3. ReadingAt(report', found', k, i, scope, g)
    BY <1>4, <2>1, <2>2, FoundAfterRuleCrash DEF ReadingAt
  <2> QED BY <2>1, <2>3, ScanInScope
<1> QED BY <1>1, <1>2, <1>3, <1>4

\* A session opened or refused.
LEMMA ScanOpens ==
    ASSUME PlaceInv, ScanInv, OpenSession
    PROVE  ScanInv'
<1>1. PICK k \in DOMAIN Accounts, i \in DOMAIN Regions, g \in {"due", "read"} :
        /\ here = Place(k, i, <<>>, <<>>, 0, g) /\ Account = Accounts[k]
        /\ g = "read" => GlobalServices # <<>>
        /\ \/ SessionOpens(k, i, g)
           \/ \E operation \in {"assume-role", "verify-target"} :
                 RegionEnds(k, i, g, RefusedReport(k, i, operation))
  BY SessionDoes
<1>2. here.account = k /\ here.region = i /\ here.globals = g
  BY <1>1, PlaceIs
<1>3. ReportAt(report, k, i - 1, g) /\ SessionAt(report, k, i - 1, g)
  BY <1>2 DEF ScanInv, OpenSession
<1>4. i - 1 \in Nat /\ i \in Nat /\ i = (i - 1) + 1 /\ i <= Len(Regions)
  BY RegionBefore
<1>5. ASSUME NEW operation \in {"assume-role", "verify-target"},
             RegionEnds(k, i, g, RefusedReport(k, i, operation))
      PROVE  ScanInv'
  <2>1. /\ ReportAt(RefusedReport(k, i, operation), k, i, g)
        /\ SessionAt(RefusedReport(k, i, operation), k, i, g)
    BY <1>1, <1>3, <1>4, ReportOfRefusal
  <2> QED BY <1>5, <2>1, ScanAfterRegion
<1>6. CASE SessionOpens(k, i, g)
  <2>1. PICK scope \in {GlobalServices, <<"cloudtrail">>}, h \in {"due", "read"} :
          /\ IF Pending(g) THEN scope = GlobalServices /\ h = "read" ELSE scope = <<"cloudtrail">> /\ h = g
          /\ at' = "call" /\ here' = Place(k, i, scope, scope, 1, h)
          /\ found' = NothingFound /\ report' = report
    BY <1>6 DEF SessionOpens
  <2>2. (IF scope = GlobalServices THEN "due" ELSE h) = g
    <3>1. CASE Pending(g)
      BY <2>1, <3>1 DEF Pending
    <3>2. CASE ~Pending(g)
      <4>1. scope # GlobalServices
        BY <2>1, <3>2, ServicesOf
      <4> QED BY <2>1, <3>2, <4>1
    <3> QED BY <3>1, <3>2
  <2>3. h = "read" => \E j \in 1 .. i : ~Refused(report.errors, Accounts[k], Regions[j])
    <3>1. CASE g = "read"
      <4>1. \E j \in 1 .. i - 1 : ~Refused(report.errors, Accounts[k], Regions[j])
        BY <1>3, <3>1 DEF SessionAt
      <4>2. 1 .. i - 1 \subseteq 1 .. i
        BY <1>4
      <4> QED BY <4>1, <4>2
    <3>2. CASE g = "due"
      <4>1. ~Refused(report.errors, Accounts[k], Regions[i])
        <5>1. Placed(report, k, i - 1, g) /\ i - 1 < i
          BY <1>3, <1>4 DEF ReportAt
        <5> QED BY <1>4, <5>1, NotYetRefused
      <4>2. i \in 1 .. i
        BY ListsOf
      <4> QED BY <4>1, <4>2
    <3> QED BY <3>1, <3>2
  <2>4. ReportAt(report, k, i - 1, IF scope = GlobalServices THEN "due" ELSE h)
    BY <1>3, <2>2
  <2>5. FoundAt(found', k, i, scope)
    BY <2>1, NothingFoundIs
  <2>6. ReadingAt(report', found', k, i, scope, h)
    BY <2>1, <2>3, <2>4, <2>5 DEF ReadingAt
  <2> QED BY <2>1, <2>6, ScanInScope
<1> QED BY <1>1, <1>5, <1>6

\* A scope ends, and perhaps the region and the account with it.
LEMMA ScanCloses ==
    ASSUME PlaceInv, ScanInv, CloseScope
    PROVE  ScanInv'
<1>1. PICK k, i, scope, call, g :
        /\ InScope(k, i, scope, <<>>, call, g) /\ Fields(k, i, scope, <<>>, call, g)
        /\ found' = NothingFound
        /\ \/ /\ ScansTrails /\ scope = GlobalServices /\ g = "read"
              /\ at' = "call" /\ here' = Place(k, i, <<"cloudtrail">>, <<"cloudtrail">>, 1, "read")
              /\ report' = Collected
           \/ /\ ~ScansTrails \/ scope = <<"cloudtrail">>
              /\ RegionEnds(k, i, g, Collected)
  BY CloseDoes
<1>2. ReadingAt(report, found, k, i, scope, g)
  BY <1>1 DEF ScanInv, CloseScope, Reading, Fields
<1>3. /\ k \in DOMAIN Accounts /\ i \in DOMAIN Regions /\ g \in {"due", "read"}
      /\ scope \in {GlobalServices, <<"cloudtrail">>} \ {<<>>}
      /\ scope = <<"cloudtrail">> => ScansTrails /\ ~Pending(g)
      /\ scope # <<"cloudtrail">> => g = "read"
  BY <1>1 DEF InScope
<1>4. i - 1 \in Nat /\ i \in Nat /\ i = (i - 1) + 1 /\ i <= Len(Regions)
  BY <1>3, RegionBefore
<1>5. CASE scope = GlobalServices
  <2>1. g = "read" /\ GlobalServices # <<>> /\ scope # <<"cloudtrail">>
    BY <1>3, <1>5, GlobalsAre
  <2>2. ReportAt(report, k, i - 1, "due") /\ FoundAt(found, k, i, GlobalServices)
    BY <1>2, <1>5 DEF ReadingAt
  <2>3. ReportAt(Collected, k, i - 1, "read") /\ ~Refused(Collected.errors, Accounts[k], Regions[i])
    BY <1>1, <1>3, <1>4, <1>5, <2>1, <2>2, GlobalsClosed
  <2>4. CASE /\ at' = "call" /\ here' = Place(k, i, <<"cloudtrail">>, <<"cloudtrail">>, 1, "read")
             /\ report' = Collected
    <3>1. i \in 1 .. i
      BY <1>3, ListsOf
    <3>2. FoundAt(found', k, i, <<"cloudtrail">>)
      BY <1>1, NothingFoundIs
    <3>3. <<"cloudtrail">> # GlobalServices
      BY <1>5, <2>1
    <3>4. ReadingAt(report', found', k, i, <<"cloudtrail">>, "read")
      BY <2>3, <2>4, <3>1, <3>2, <3>3 DEF ReadingAt
    <3> QED BY <2>4, <3>4, ScanInScope
  <2>5. CASE ~ScansTrails /\ RegionEnds(k, i, g, Collected)
    <3>1. ~Pending("read")
      BY DEF Pending
    <3>2. AccountEnds(k, Collected)
      BY <2>1, <2>5, <3>1 DEF RegionEnds
    <3>3. ReportAt(Collected, k + 1, 0, "due")
      BY <1>3, <2>3, <2>5, <3>1, AccountFinished
    <3> QED BY <1>3, <3>2, <3>3, ScanAfterAccount
  <2> QED BY <1>1, <2>1, <2>4, <2>5
<1>6. CASE scope # GlobalServices
  <2>1. scope = <<"cloudtrail">> /\ ScansTrails /\ ~Pending(g) /\ RegionEnds(k, i, g, Collected)
    BY <1>1, <1>3, <1>6
  <2>2. ReportAt(report, k, i - 1, g) /\ FoundAt(found, k, i, <<"cloudtrail">>)
    BY <1>2, <1>6, <2>1 DEF ReadingAt
  <2>3. Fields(k, i, <<"cloudtrail">>, <<>>, call, g)
    BY <1>1, <2>1
  <2>4. ReportAt(Collected, k, i, g)
    BY <1>3, <1>4, <2>1, <2>2, <2>3, TrailsClosed
  <2>5. SessionAt(Collected, k, i, g)
    <3>1. CASE g = "read"
      <4>1. PICK j \in 1 .. i : ~Refused(report.errors, Accounts[k], Regions[j])
        BY <1>2, <3>1 DEF ReadingAt
      <4>2. Elements(<<"cloudtrail">>) \subseteq ThreeServices
        BY ElementsOf DEF ThreeServices
      <4>3. ~Refused(report.errors \cup found.errors, Accounts[k], Regions[j])
        BY <2>2, <4>1, <4>2, FoundRefusesNone
      <4>4. IsAReport(report)
        BY <2>2 DEF ReportAt
      <4>5. Collected.errors = report.errors \cup found.errors
        BY <2>3, <4>4, CollectedIs
      <4>6. ~Refused(Collected.errors, Accounts[k], Regions[j])
        BY <4>3, <4>5
      <4> QED BY <3>1, <4>1, <4>6 DEF SessionAt
    <3>2. CASE g = "due"
      BY <2>1, <3>2 DEF SessionAt, Pending
    <3> QED BY <1>3, <3>1, <3>2
  <2> QED BY <1>3, <2>1, <2>4, <2>5, ScanAfterRegion
<1> QED BY <1>5, <1>6

\* A scan begins with nothing done and nothing reported.
LEMMA EmptyReport == ReportAt(NoReport, 1, 0, "due")
<1>1. \A a \in DOMAIN Accounts : \A s \in ScopesOf(Accounts[a]) :
         ~Behind(a, s, 1, 0, "due") /\ Blank(NoReport, s)
  <2> SUFFICES ASSUME NEW a \in DOMAIN Accounts, NEW s \in ScopesOf(Accounts[a])
               PROVE  ~Behind(a, s, 1, 0, "due") /\ Blank(NoReport, s)
    OBVIOUS
  <2>1. ~(a < 1)
    BY ListsOf
  <2>2. ~Behind(a, s, 1, 0, "due")
    BY <2>1 DEF Behind
  <2>3. s \in FleetScopes
    BY ScopesAre
  <2>4. Blank(NoReport, s)
    BY <2>3 DEF Blank, NoReport
  <2> QED BY <2>2, <2>4
<1>2. Covers(NoReport, 1, 0, "due")
  BY <1>1 DEF Covers
<1>3. Placed(NoReport, 1, 0, "due")
  BY NoReportIs DEF Placed
<1> QED BY <1>2, <1>3, NoReportIs DEF ReportAt

\* The report covers what is done, after every step.
LEMMA ScanStep == PlaceInv /\ LockInv /\ ScanInv /\ [Next]_vars => ScanInv'
<1> SUFFICES ASSUME PlaceInv, LockInv, ScanInv, [Next]_vars PROVE ScanInv'
  OBVIOUS
<1>1. CASE UNCHANGED scanning
  <2>1. at' = at /\ here' = here /\ found' = found /\ report' = report
    BY <1>1 DEF scanning
  <2> QED BY <2>1 DEF ScanInv, Reading
<1>2. ASSUME NEW i \in Invocations, Begin(i) PROVE ScanInv'
  <2>1. at' = "account" /\ here' = StartOf(1) /\ report' = NoReport
    BY <1>2 DEF Begin, ScanInv, LockInv
  <2>2. here'.account = 1
    BY <2>1, PlaceIs DEF StartOf
  <2>3. ReportAt(report', here'.account, 0, "due")
    BY <2>1, <2>2, EmptyReport
  <2> QED BY <2>1, <2>3 DEF ScanInv, Reading
<1>3. CASE Kill \/ Record
  BY <1>3 DEF Kill, Record, Reset, ScanInv, Reading
<1>4. CASE ResolveExternalId \/ ReadCall \/ CollectorCrash \/ Judge \/ RuleCrash
  BY <1>4, ScanReads
<1>5. CASE OpenSession
  BY <1>5, ScanOpens
<1>6. CASE CloseScope
  BY <1>6, ScanCloses
<1>7. CASE (\E i \in Invocations : Skip(i)) \/ Change
  BY <1>1, <1>7 DEF Skip, Change
<1>8. CASE UNCHANGED vars
  BY <1>1, <1>8 DEF vars
<1> QED BY <1>2, <1>3, <1>4, <1>5, <1>6, <1>7, <1>8 DEF Next, Scan

\* Always.
LEMMA Scanned == Spec => [](PlaceInv /\ LockInv /\ ScanInv)
<1>1. Init => ScanInv
  BY DEF Init, ScanInv, Reading
<1>2. PlaceInv /\ LockInv /\ ScanInv /\ [Next]_vars => (PlaceInv /\ LockInv /\ ScanInv)'
  BY PlaceStep, LockStep, ScanStep
<1> QED BY <1>1, <1>2, ControlStarts, PTL DEF Spec

\* Every mark has a scope of the fleet.
LEMMA MarkScopes == \A m \in Marks : ScopeOfMark[m] \in FleetScopes
<1> SUFFICES ASSUME NEW m \in Marks PROVE ScopeOfMark[m] \in FleetScopes
  OBVIOUS
<1>1. PICK s \in {t \in Subjects : ServiceOf(t[1]) \in Elements(Services)},
           a \in Elements(Accounts), x \in Elements(Regions) :
         m = Mark([control |-> s[1], resource |-> s[2]], a, x)
  BY DEF Marks
<1>2. ScopeOfMark[m] = Scope(a, ServiceOf(s[1]), x)
  BY <1>1, ScopeOfMarkIs
<1>3. Scope(a, ServiceOf(s[1]), x) \in ScopesOf(a)
  BY <1>1 DEF ScopesOf
<1> QED BY <1>1, <1>2, <1>3 DEF FleetScopes

\* Only a scan without errors passes or fails.
LEMMA PassesOrFails ==
    ASSUME NEW errors, NEW gate \in {"PASS", "FAIL", "NOT_CONFIGURED"}
    PROVE  ClassifyScan(errors, gate) \in {"PASS", "FAIL"} <=> errors = {}
<1>1. CASE errors = {}
  BY <1>1 DEF ClassifyScan
<1>2. CASE errors # {}
  BY <1>2 DEF ClassifyScan
<1> QED BY <1>1, <1>2

\* A finished report covers every scope once, as complete exactly when no error
\* concerns it; the history takes it, and it passes or fails a gate only
\* without errors.
THEOREM CoverageIsExact == Spec => []CoverageExact
<1>1. ScanInv => CoverageExact
  <2> SUFFICES ASSUME ScanInv, at = "record"
               PROVE  /\ \A s \in FleetScopes : report.coverage[s] = <<~Degraded(report.errors, s)>>
                      /\ History!Valid(Recordable)
                      /\ Outcome \in {"PASS", "FAIL"} <=>
                            /\ \A s \in FleetScopes : report.coverage[s] = <<TRUE>>
                            /\ ~\E e \in report.errors : e.service = "AWS Account"
    BY DEF CoverageExact
  <2>1. ReportAt(report, Len(Accounts) + 1, 0, "due")
    BY DEF ScanInv
  <2>2. ASSUME NEW s \in FleetScopes PROVE Exact(report, s)
    <3>1. PICK a \in DOMAIN Accounts : s \in ScopesOf(Accounts[a])
      BY FleetScopesAre
    <3>2. a < Len(Accounts) + 1
      BY ListsOf
    <3>3. Behind(a, s, Len(Accounts) + 1, 0, "due")
      BY <3>2 DEF Behind
    <3> QED BY <2>1, <3>1, <3>3 DEF ReportAt, Covers
  <2>3. ASSUME NEW s \in FleetScopes PROVE report.coverage[s] = <<~Degraded(report.errors, s)>>
    <3>1. CASE Degraded(report.errors, s)
      <4>1. (~Degraded(report.errors, s)) = FALSE
        BY <3>1, Zenon
      <4>2. report.coverage[s] = <<FALSE>>
        BY <2>2, <3>1 DEF Exact
      <4> QED BY <4>1, <4>2, Zenon
    <3>2. CASE ~Degraded(report.errors, s)
      <4>1. (~Degraded(report.errors, s)) = TRUE
        BY <3>2, Zenon
      <4>2. report.coverage[s] = <<TRUE>>
        BY <2>2, <3>2 DEF Exact
      <4> QED BY <4>1, <4>2, Zenon
    <3> QED BY <3>1, <3>2
  <2>4. History!Valid(Recordable)
    <3>1. \A s \in FleetScopes : report.coverage[s] # <<>>
      BY <2>2 DEF Exact
    <3>2. \A s \in FleetScopes : Recordable.coverage[s] # "absent"
      BY <3>1 DEF Recordable
    <3> QED BY <3>2, MarkScopes DEF History!Valid
  <2>5. Outcome \in {"PASS", "FAIL"} <=> report.errors = {}
    <3>1. Gate \in {"PASS", "FAIL", "NOT_CONFIGURED"}
      BY DEF Gate
    <3> HIDE DEF Gate
    <3> QED BY <3>1, PassesOrFails DEF Outcome
  <2>6. report.errors = {} <=> /\ \A s \in FleetScopes : report.coverage[s] = <<TRUE>>
                              /\ ~\E e \in report.errors : e.service = "AWS Account"
    <3>1. CASE report.errors = {}
      <4>1. \A s \in FleetScopes : ~Degraded(report.errors, s)
        BY <3>1 DEF Degraded
      <4> QED BY <2>2, <3>1, <4>1 DEF Exact
    <3>2. ASSUME NEW e \in report.errors, e.service # "AWS Account",
                 \A s \in FleetScopes : report.coverage[s] = <<TRUE>>
          PROVE  FALSE
      <4>1. PICK s \in FleetScopes : e.account = s.account /\ e.region = s.region
                    /\ e.service \in {s.service, "AWS"}
        BY <2>1, <3>2 DEF ReportAt, Placed, Located
      <4>2. Degraded(report.errors, s)
        BY <3>2, <4>1 DEF Degraded, Concerns
      <4>3. report.coverage[s] = <<FALSE>>
        BY <2>2, <4>2 DEF Exact
      <4>4. <<FALSE>> # <<TRUE>>
        OBVIOUS
      <4> QED BY <3>2, <4>3, <4>4
    <3> QED BY <3>1, <3>2
  <2> QED BY <2>3, <2>4, <2>5, <2>6
<1> QED BY <1>1, Scanned, PTL

----
(* What the rules say of a view *)

\* Listings are calls of the same service, most of them made for no other.
LEMMA ListingIs ==
    ASSUME NEW service \in ThreeServices, NEW c \in Elements(Calls(service)), NEW l \in Listing(c)
    PROVE  /\ l \in Elements(Calls(service)) /\ (l = "ListAccessKeys" \/ l = "DescribeTrails" \/ Listing(l) = {})
           /\ l \in {"ListUsers", "ListAccessKeys", "ListGroups", "ListRoles", "ListBuckets", "DescribeTrails"}
<1>1. CASE service = "iam"
  BY <1>1 DEF Elements, Calls, Listing
<1>2. CASE service = "s3"
  BY <1>2 DEF Elements, Calls, Listing
<1>3. CASE service = "cloudtrail"
  BY <1>3 DEF Elements, Calls, Listing
<1> QED BY <1>1, <1>2, <1>3 DEF ThreeServices

\* The calls of the services, as sets.
LEMMA IamCalls ==
    Elements(Calls("iam")) = {"ListUsers", "GetLoginProfile", "ListMFADevices", "ListAccessKeys",
                              "GetAccessKeyLastUsed", "ListGroupsForUser", "UserPolicies", "ListGroups",
                              "GroupPolicies", "GetGroup", "ListRoles", "RolePolicies"}
BY DEF Elements, Calls

\* The calls of the S3 collector.
LEMMA S3Calls ==
    Elements(Calls("s3")) = {"ListBuckets", "GetBucketLocation", "GetPublicAccessBlock", "GetBucketEncryption",
                             "GetBucketPolicy", "GetBucketPolicyStatus", "GetBucketAcl"}
BY DEF Elements, Calls

\* The calls of the CloudTrail collector.
LEMMA TrailCalls == Elements(Calls("cloudtrail")) = {"DescribeTrails", "GetTrailStatus"}
BY DEF Elements, Calls

\* What is listed is there, but for a key or a trail: a full view has every answer.
LEMMA FullViewIs ==
    ASSUME NEW service \in ThreeServices, NEW settings, NEW x, NEW c \in Elements(Calls(service))
    PROVE  FullView(settings, x, service)[c] = Answer(settings, x, c)
<1> DEFINE exists == \A l \in Listing(c) : Answer(settings, x, l) # None
<1>1. FullView(settings, x, service)[c] = IF exists THEN Answer(settings, x, c) ELSE Unread
  BY DEF FullView, Elements
<1>2. CASE exists
  BY <1>1, <1>2
<1>3. CASE ~exists
  <2>1. PICK l \in Listing(c) : Answer(settings, x, l) = None
    BY <1>3
  <2>2. l \in {"ListUsers", "ListGroups", "ListRoles", "ListBuckets"}
           => Answer(settings, x, l) = TRUE
    BY DEF Answer
  <2>3. l = "ListAccessKeys" \/ l = "DescribeTrails"
    BY <2>1, <2>2, ListingIs, NoneApart
  <2>4. CASE l = "ListAccessKeys"
    <3>1. c = "GetAccessKeyLastUsed"
      BY <2>1, <2>4 DEF Listing
    <3> QED BY <1>1, <1>3, <2>1, <2>4, <3>1 DEF Answer
  <2>5. CASE l = "DescribeTrails"
    <3>1. c = "GetTrailStatus"
      BY <2>1, <2>5 DEF Listing
    <3> QED BY <1>1, <1>3, <2>1, <2>5, <3>1 DEF Answer
  <2> QED BY <2>3, <2>4, <2>5
<1> QED BY <1>2, <1>3

\* The listing that a policy is an entry of.
DocumentOf(resource) ==
    CASE resource = "user policy" -> "UserPolicies"
      [] resource = "group policy" -> "GroupPolicies"
      [] OTHER -> "RolePolicies"

\* What a view must hold for a subject to be reported, and how grave it is then.
Says(w, control, resource) ==
    \/ control = "IAM-001" /\ w["ListMFADevices"] = FALSE /\ w["GetLoginProfile"] = TRUE
    \/ control = "IAM-006" /\ w["ListMFADevices"] = FALSE /\ w["GetLoginProfile"] = FALSE
    \/ /\ control = "IAM-002" /\ Known(w["ListAccessKeys"]) /\ w["ListAccessKeys"] # None
       /\ w["ListAccessKeys"].active /\ w["ListAccessKeys"].age > MaxKeyAge
    \/ /\ control = "IAM-003" /\ Known(w["ListAccessKeys"]) /\ w["ListAccessKeys"] # None
       /\ \/ ~w["ListAccessKeys"].active
          \/ Dormant(w["ListAccessKeys"], w["GetAccessKeyLastUsed"])
    \/ control = "IAM-004" /\ Known(w[DocumentOf(resource)])
          /\ "admin" \in w[DocumentOf(resource)].allows
    \/ /\ control = "IAM-005" /\ Known(w[DocumentOf(resource)])
             /\ "admin" \notin w[DocumentOf(resource)].allows
       /\ "service" \in w[DocumentOf(resource)].allows
    \/ control = "S3-001" /\ Known(w["GetPublicAccessBlock"])
          /\ w["GetPublicAccessBlock"] # BlockFlags
    \/ control = "S3-002" /\ w["GetBucketAcl"] = "public"
    \/ /\ control = "S3-003"
       /\ w["GetBucketPolicy"] \in {"open", "constrained"} \/ w["GetBucketPolicyStatus"] = TRUE
    \/ control = "S3-004" /\ w["GetBucketEncryption"] = FALSE
    \/ control = "CT-001" /\ w["DescribeTrails"] = None
    \/ control = "CT-002" /\ Known(w["DescribeTrails"]) /\ w["DescribeTrails"] # None
          /\ ~w["DescribeTrails"].multi
    \/ control = "CT-003" /\ Known(w["DescribeTrails"]) /\ w["DescribeTrails"] # None
          /\ ~w["DescribeTrails"].validated
    \/ /\ control = "CT-004" /\ Known(w["DescribeTrails"]) /\ w["DescribeTrails"] # None
       /\ w["GetTrailStatus"] \in {"stopped", "failing"}

\* The severity that a rule gives.
Gives(w, control, resource) ==
    CASE control \in {"IAM-001", "CT-001", "CT-004"} -> "HIGH"
      [] control = "IAM-006" -> "INFO"
      [] control = "IAM-002" -> (IF w["ListAccessKeys"].age > CriticalKeyAge THEN "HIGH" ELSE "MEDIUM")
      [] control = "IAM-003" -> (IF w["ListAccessKeys"].active THEN "MEDIUM" ELSE "LOW")
      [] control = "IAM-004" -> "CRITICAL"
      [] control = "IAM-005" -> (IF w[DocumentOf(resource)].managed THEN "LOW" ELSE "HIGH")
      [] control = "S3-002" -> (IF "IgnorePublicAcls" \in Block(w) THEN "LOW" ELSE "CRITICAL")
      [] control = "S3-003" ->
            (IF Block(w) \cap {"BlockPublicPolicy", "RestrictPublicBuckets"} # {} THEN "LOW"
             ELSE IF w["GetBucketPolicy"] = "constrained" THEN "MEDIUM" ELSE "CRITICAL")
      [] OTHER -> "MEDIUM"

\* A finding with that severity.
Reported(w, control, resource) == Finding(control, resource, Gives(w, control, resource))

\* The view w makes f of the subject.
Tells(w, control, resource, f) == Says(w, control, resource) /\ f = Reported(w, control, resource)

\* What each service's rules can report.
Judges(service, control, resource) ==
    \/ service = "iam" /\ control \in {"IAM-001", "IAM-006"} /\ resource = "user"
    \/ service = "iam" /\ control \in {"IAM-002", "IAM-003"} /\ resource = "key"
    \/ /\ service = "iam" /\ control \in {"IAM-004", "IAM-005"}
       /\ resource \in {"user policy", "group policy", "role policy"}
    \/ service = "s3" /\ control \in {"S3-001", "S3-002", "S3-003", "S3-004"} /\ resource = "bucket"
    \/ service = "cloudtrail" /\ control \in {"CT-001", "CT-002"} /\ resource = "aws-account"
    \/ service = "cloudtrail" /\ control \in {"CT-003", "CT-004"} /\ resource = "trail"

\* Rule by rule: login profiles without a second factor,
LEMMA MfaRulesSay ==
    ASSUME NEW w, NEW f
    PROVE  f \in MfaRules(w) <=> Tells(w, "IAM-001", "user", f) \/ Tells(w, "IAM-006", "user", f)
BY DEF MfaRules, When, Says, Gives, Finding, Tells, Reported

\* keys that are old or unused,
LEMMA AccessKeyRulesSay ==
    ASSUME NEW w, NEW f
    PROVE  f \in AccessKeyRules(w) <=> Tells(w, "IAM-002", "key", f)
              \/ Tells(w, "IAM-003", "key", f)
<1> DEFINE key == w["ListAccessKeys"]
<1>1. Says(w, "IAM-002", "key") <=> Known(key) /\ key # None /\ key.active /\ key.age > MaxKeyAge
  BY DEF Says
<1>2. Says(w, "IAM-003", "key") <=>
        Known(key) /\ key # None /\ (~key.active \/ Dormant(key, w["GetAccessKeyLastUsed"]))
  BY DEF Says
<1>3. Gives(w, "IAM-002", "key") = IF key.age > CriticalKeyAge THEN "HIGH" ELSE "MEDIUM"
  BY DEF Gives
<1>4. Gives(w, "IAM-003", "key") = IF key.active THEN "MEDIUM" ELSE "LOW"
  BY DEF Gives
<1>5. f \in AccessKeyRules(w) <=>
         /\ Known(key) /\ key # None
         /\ \/ key.active /\ key.age > MaxKeyAge
               /\ f = Finding("IAM-002", "key", IF key.age > CriticalKeyAge THEN "HIGH" ELSE "MEDIUM")
            \/ ~key.active /\ f = Finding("IAM-003", "key", "LOW")
            \/ key.active /\ Dormant(key, w["GetAccessKeyLastUsed"])
                  /\ f = Finding("IAM-003", "key", "MEDIUM")
  BY DEF AccessKeyRules, When
<1> HIDE DEF key
<1> QED BY <1>1, <1>2, <1>3, <1>4, <1>5 DEF Tells, Reported

\* documents that allow everything,
LEMMA PermissionRulesSay ==
    ASSUME NEW w, NEW f
    PROVE  f \in PermissionRules(w) <=>
              \E resource \in {"user policy", "group policy", "role policy"} :
                 Tells(w, "IAM-004", resource, f) \/ Tells(w, "IAM-005", resource, f)
<1> DEFINE Of(c, resource) ==
      LET document == w[c] IN
      IF ~Known(document) THEN {}
      ELSE IF "admin" \in document.allows THEN {Finding("IAM-004", resource, "CRITICAL")}
      ELSE When("service" \in document.allows, "IAM-005", resource, IF document.managed THEN "LOW" ELSE "HIGH")
<1>1. f \in PermissionRules(w) <=>
         f \in Of("UserPolicies", "user policy") \/ f \in Of("GroupPolicies", "group policy")
         \/ f \in Of("RolePolicies", "role policy")
  <2>1. PermissionRules(w) = UNION {Of(p[1], p[2]) : p \in {<<"UserPolicies", "user policy">>,
                                <<"GroupPolicies", "group policy">>,
                                <<"RolePolicies", "role policy">>}}
    BY DEF PermissionRules
  <2> HIDE DEF Of
  <2> DEFINE Principals == {<<"UserPolicies", "user policy">>, <<"GroupPolicies", "group policy">>,
                            <<"RolePolicies", "role policy">>}
  <2>2. ASSUME NEW p, NEW y, <<p, y>> \in Principals, f \in Of(p, y)
        PROVE  f \in PermissionRules(w)
    <3>1. <<p, y>>[1] = p /\ <<p, y>>[2] = y
      OBVIOUS
    <3>2. f \in Of(<<p, y>>[1], <<p, y>>[2])
      BY <2>2, <3>1
    <3>3. PermissionRules(w) = UNION {Of(q[1], q[2]) : q \in Principals}
      BY <2>1
    <3> HIDE DEF Principals
    <3> QED BY <2>2, <3>2, <3>3
  <2>3. ASSUME f \in PermissionRules(w)
        PROVE  \/ f \in Of("UserPolicies", "user policy")
                     \/ f \in Of("GroupPolicies", "group policy")
               \/ f \in Of("RolePolicies", "role policy")
    <3>1. PICK p \in {<<"UserPolicies", "user policy">>, <<"GroupPolicies", "group policy">>,
                      <<"RolePolicies", "role policy">>} : f \in Of(p[1], p[2])
      BY <2>1, <2>3
    <3>2. CASE p = <<"UserPolicies", "user policy">>
      <4>1. p[1] = "UserPolicies" /\ p[2] = "user policy"
        BY <3>2
      <4> QED BY <3>1, <4>1
    <3>3. CASE p = <<"GroupPolicies", "group policy">>
      <4>1. p[1] = "GroupPolicies" /\ p[2] = "group policy"
        BY <3>3
      <4> QED BY <3>1, <4>1
    <3>4. CASE p = <<"RolePolicies", "role policy">>
      <4>1. p[1] = "RolePolicies" /\ p[2] = "role policy"
        BY <3>4
      <4> QED BY <3>1, <4>1
    <3> QED BY <3>1, <3>2, <3>3, <3>4
  <2>4. f \in Of("UserPolicies", "user policy") => f \in PermissionRules(w)
    <3>1. <<"UserPolicies", "user policy">> \in Principals
      OBVIOUS
    <3> HIDE DEF Principals
    <3> QED BY <2>2, <3>1
  <2>5. f \in Of("GroupPolicies", "group policy") => f \in PermissionRules(w)
    <3>1. <<"GroupPolicies", "group policy">> \in Principals
      OBVIOUS
    <3> HIDE DEF Principals
    <3> QED BY <2>2, <3>1
  <2>6. f \in Of("RolePolicies", "role policy") => f \in PermissionRules(w)
    <3>1. <<"RolePolicies", "role policy">> \in Principals
      OBVIOUS
    <3> HIDE DEF Principals
    <3> QED BY <2>2, <3>1
  <2> QED BY <2>3, <2>4, <2>5, <2>6
<1>2. ASSUME NEW resource \in {"user policy", "group policy", "role policy"}
      PROVE  f \in Of(DocumentOf(resource), resource) <=>
                Tells(w, "IAM-004", resource, f) \/ Tells(w, "IAM-005", resource, f)
  <2> DEFINE document == w[DocumentOf(resource)]
  <2>1. Says(w, "IAM-004", resource) <=> Known(document) /\ "admin" \in document.allows
    BY DEF Says
  <2>2. Says(w, "IAM-005", resource) <=>
           Known(document) /\ "admin" \notin document.allows /\ "service" \in document.allows
    BY DEF Says
  <2>3. Gives(w, "IAM-004", resource) = "CRITICAL"
    BY DEF Gives
  <2>4. Gives(w, "IAM-005", resource) = IF document.managed THEN "LOW" ELSE "HIGH"
    BY DEF Gives
  <2> HIDE DEF document
  <2>5. f \in Of(DocumentOf(resource), resource) <=>
           f \in (IF ~Known(document) THEN {}
                  ELSE IF "admin" \in document.allows THEN {Finding("IAM-004", resource, "CRITICAL")}
                  ELSE When("service" \in document.allows, "IAM-005", resource,
                            IF document.managed THEN "LOW" ELSE "HIGH"))
    BY DEF document
  <2> QED BY <2>1, <2>2, <2>3, <2>4, <2>5 DEF When, Tells, Reported
<1>3. /\ DocumentOf("user policy") = "UserPolicies" /\ DocumentOf("group policy") = "GroupPolicies"
      /\ DocumentOf("role policy") = "RolePolicies"
  BY DEF DocumentOf
<1> HIDE DEF Of
<1>4. f \in PermissionRules(w) <=>
        \E resource \in {"user policy", "group policy", "role policy"} : f \in Of(DocumentOf(resource), resource)
  BY <1>1, <1>3
<1> QED BY <1>2, <1>4

\* buckets
LEMMA BucketRulesSay ==
    ASSUME NEW w, NEW f
    PROVE  f \in Evaluate("s3", w) <=>
              \E control \in {"S3-001", "S3-002", "S3-003", "S3-004"} : Tells(w, control, "bucket", f)
<1>1. f \in PublicAccessBlockRule(w) <=>
         Tells(w, "S3-001", "bucket", f)
  BY DEF PublicAccessBlockRule, When, Says, Gives, Tells, Reported, Block
<1>2. f \in AclRule(w) <=>
         Tells(w, "S3-002", "bucket", f)
  BY DEF AclRule, When, Says, Gives, Tells, Reported
<1>3. f \in PolicyRule(w) <=>
         Tells(w, "S3-003", "bucket", f)
  BY DEF PolicyRule, When, Says, Gives, Tells, Reported
<1>4. f \in EncryptionRule(w) <=>
         Tells(w, "S3-004", "bucket", f)
  BY DEF EncryptionRule, When, Says, Gives, Tells, Reported
<1>5. f \in Evaluate("s3", w) <=>
         f \in PublicAccessBlockRule(w) \/ f \in AclRule(w) \/ f \in PolicyRule(w)
            \/ f \in EncryptionRule(w)
  BY DEF Evaluate
<1> QED BY <1>1, <1>2, <1>3, <1>4, <1>5

\* and trails.
LEMMA TrailRulesSay ==
    ASSUME NEW w, NEW f
    PROVE  f \in TrailRules(w) <=>
              \/ Tells(w, "CT-001", "aws-account", f) \/ Tells(w, "CT-002", "aws-account", f)
              \/ Tells(w, "CT-003", "trail", f) \/ Tells(w, "CT-004", "trail", f)
<1> DEFINE trail == w["DescribeTrails"]
<1>1. /\ Says(w, "CT-001", "aws-account") <=> trail = None
      /\ Says(w, "CT-002", "aws-account") <=> Known(trail) /\ trail # None /\ ~trail.multi
      /\ Says(w, "CT-003", "trail") <=> Known(trail) /\ trail # None /\ ~trail.validated
      /\ Says(w, "CT-004", "trail") <=> Known(trail) /\ trail # None
            /\ w["GetTrailStatus"] \in {"stopped", "failing"}
  BY DEF Says
<1>2. /\ Gives(w, "CT-001", "aws-account") = "HIGH" /\ Gives(w, "CT-002", "aws-account") = "MEDIUM"
      /\ Gives(w, "CT-003", "trail") = "MEDIUM" /\ Gives(w, "CT-004", "trail") = "HIGH"
  BY DEF Gives
<1>3. Known(None)
  BY AnswerAssumption DEF Known
<1>4. f \in TrailRules(w) <=>
         /\ Known(trail)
         /\ \/ trail = None /\ f = Finding("CT-001", "aws-account", "HIGH")
            \/ trail # None /\ ~trail.multi /\ f = Finding("CT-002", "aws-account", "MEDIUM")
            \/ trail # None /\ ~trail.validated /\ f = Finding("CT-003", "trail", "MEDIUM")
            \/ trail # None /\ w["GetTrailStatus"] \in {"stopped", "failing"}
                  /\ f = Finding("CT-004", "trail", "HIGH")
  BY DEF TrailRules, When
<1> HIDE DEF trail
<1> QED BY <1>1, <1>2, <1>3, <1>4 DEF Tells, Reported

\* What a service's rules make of a view, subject by subject.
LEMMA EvaluateSays ==
    ASSUME NEW service \in ThreeServices, NEW w, NEW f
    PROVE  f \in Evaluate(service, w) <=>
              \E control, resource : Judges(service, control, resource)
                 /\ Tells(w, control, resource, f)
<1>1. CASE service = "iam"
  <2>1. f \in Evaluate("iam", w) <=> f \in MfaRules(w) \/ f \in AccessKeyRules(w)
           \/ f \in PermissionRules(w)
    BY DEF Evaluate
  <2> QED BY <1>1, <2>1, MfaRulesSay, AccessKeyRulesSay, PermissionRulesSay DEF Judges
<1>2. CASE service = "s3"
  BY <1>2, BucketRulesSay DEF Judges
<1>3. CASE service = "cloudtrail"
  <2>1. Evaluate("cloudtrail", w) = TrailRules(w)
    BY DEF Evaluate
  <2> QED BY <1>3, <2>1, TrailRulesSay DEF Judges
<1> QED BY <1>1, <1>2, <1>3 DEF ThreeServices

\* A control is judged with its service and is one of the subjects.
LEMMA JudgesIs ==
    ASSUME NEW service, NEW control, NEW resource, Judges(service, control, resource)
    PROVE  /\ ServiceOf(control) = service /\ service \in ThreeServices
           /\ <<control, resource>> \in Subjects
<1>1. ServiceOf(control) = service /\ service \in ThreeServices
  BY DEF Judges, ServiceOf, ThreeServices
<1>2. <<control, resource>> \in Subjects
  BY DEF Judges, Subjects
<1> QED BY <1>1, <1>2

\* The view of a scan that misses nothing, for the service of a control.
FullOf(settings, x, control) == FullView(settings, x, ServiceOf(control))

\* Settings in which a rule would report a resource.
Holds(settings, x, control, resource) == Says(FullOf(settings, x, control), control, resource)

\* And with which severity.
Severity(settings, x, control, resource) == Gives(FullOf(settings, x, control), control, resource)

\* The rules of a control look at the answers to the calls that decide it.
LEMMA DecidedBy ==
    ASSUME NEW service, NEW control, NEW resource, Judges(service, control, resource), NEW v, NEW w,
           \A c \in Decides(control) : v[c] = w[c]
    PROVE  /\ Says(v, control, resource) <=> Says(w, control, resource)
           /\ Gives(v, control, resource) = Gives(w, control, resource)
<1>1. CASE control \in {"IAM-001", "IAM-006"}
  <2>1. v["ListMFADevices"] = w["ListMFADevices"] /\ v["GetLoginProfile"] = w["GetLoginProfile"]
    BY <1>1 DEF Decides
  <2>2. Says(v, control, resource) <=> Says(w, control, resource)
    BY <1>1, <2>1 DEF Says
  <2>3. Gives(v, control, resource) = Gives(w, control, resource)
    BY <1>1 DEF Gives
  <2> QED BY <2>2, <2>3
<1>2. CASE control \in {"IAM-002", "IAM-003"}
  <2>1. v["ListAccessKeys"] = w["ListAccessKeys"]
    BY <1>2 DEF Decides
  <2>2. control = "IAM-003" => v["GetAccessKeyLastUsed"] = w["GetAccessKeyLastUsed"]
    BY DEF Decides
  <2>3. Says(v, control, resource) <=> Says(w, control, resource)
    BY <1>2, <2>1, <2>2 DEF Says
  <2>4. Gives(v, control, resource) = Gives(w, control, resource)
    BY <1>2, <2>1 DEF Gives
  <2> QED BY <2>3, <2>4
<1>3. CASE control \in {"IAM-004", "IAM-005"}
  <2>1. DocumentOf(resource) \in {"UserPolicies", "GroupPolicies", "RolePolicies"}
    BY DEF DocumentOf
  <2>2. {"UserPolicies", "GroupPolicies", "RolePolicies"} \subseteq Decides(control)
    BY <1>3 DEF Decides
  <2>3. v[DocumentOf(resource)] = w[DocumentOf(resource)]
    BY <2>1, <2>2
  <2>4. Says(v, control, resource) <=> Says(w, control, resource)
    BY <1>3, <2>3 DEF Says
  <2>5. Gives(v, control, resource) = Gives(w, control, resource)
    BY <1>3, <2>3 DEF Gives
  <2> QED BY <2>4, <2>5
<1>4. CASE control \in {"S3-001", "S3-002", "S3-003"}
  <2>1. v["GetPublicAccessBlock"] = w["GetPublicAccessBlock"]
    BY <1>4 DEF Decides
  <2>2. control = "S3-002" => v["GetBucketAcl"] = w["GetBucketAcl"]
    BY DEF Decides
  <2>3. control = "S3-003" => /\ v["GetBucketPolicy"] = w["GetBucketPolicy"]
                              /\ v["GetBucketPolicyStatus"] = w["GetBucketPolicyStatus"]
    BY DEF Decides
  <2>4. Says(v, control, resource) <=> Says(w, control, resource)
    BY <1>4, <2>1, <2>2, <2>3 DEF Says
  <2>5. Block(v) = Block(w)
    BY <2>1 DEF Block
  <2>6. Gives(v, control, resource) = Gives(w, control, resource)
    BY <1>4, <2>3, <2>5 DEF Gives
  <2> QED BY <2>4, <2>6
<1>5. CASE control = "S3-004"
  <2>1. v["GetBucketEncryption"] = w["GetBucketEncryption"]
    BY <1>5 DEF Decides
  <2>2. Says(v, control, resource) <=> Says(w, control, resource)
    BY <1>5, <2>1 DEF Says
  <2>3. Gives(v, control, resource) = Gives(w, control, resource)
    BY <1>5 DEF Gives
  <2> QED BY <2>2, <2>3
<1>6. CASE control \in {"CT-001", "CT-002", "CT-003", "CT-004"}
  <2>1. v["DescribeTrails"] = w["DescribeTrails"]
    BY <1>6 DEF Decides
  <2>2. control = "CT-004" => v["GetTrailStatus"] = w["GetTrailStatus"]
    BY DEF Decides
  <2>3. Says(v, control, resource) <=> Says(w, control, resource)
    BY <1>6, <2>1, <2>2 DEF Says
  <2>4. Gives(v, control, resource) = Gives(w, control, resource)
    BY <1>6 DEF Gives
  <2> QED BY <2>3, <2>4
<1> QED BY <1>1, <1>2, <1>3, <1>4, <1>5, <1>6 DEF Judges

\* They are calls of its service, and with a call its listings.
LEMMA DecidesIs ==
    ASSUME NEW service, NEW control, NEW resource, Judges(service, control, resource),
           NEW c \in Decides(control)
    PROVE  c \in Elements(Calls(service)) /\ Listing(c) \subseteq Decides(control)
<1>1. CASE service = "iam"
  <2>1. c \in Elements(Calls(service))
    BY <1>1, IamCalls DEF Judges, Decides
  <2>2. Listing(c) \subseteq Decides(control)
    BY <1>1 DEF Judges, Decides, Listing
  <2> QED BY <2>1, <2>2
<1>2. CASE service = "s3"
  <2>1. c \in Elements(Calls(service))
    BY <1>2, S3Calls DEF Judges, Decides
  <2>2. Listing(c) \subseteq Decides(control)
    BY <1>2 DEF Judges, Decides, Listing
  <2> QED BY <2>1, <2>2
<1>3. CASE service = "cloudtrail"
  <2>1. c \in Elements(Calls(service))
    BY <1>3, TrailCalls DEF Judges, Decides
  <2>2. Listing(c) \subseteq Decides(control)
    BY <1>3 DEF Judges, Decides, Listing
  <2> QED BY <2>1, <2>2
<1> QED BY <1>1, <1>2, <1>3 DEF Judges

\* Severities are severities.
LEMMA GivesRank ==
    ASSUME NEW w, NEW control, NEW resource
    PROVE  Gives(w, control, resource) \in {"CRITICAL", "HIGH", "MEDIUM", "LOW", "INFO"}
BY DEF Gives

\* Every severity is at least itself, and at most critical.
LEMMA AtLeastIs ==
    /\ \A s \in {"CRITICAL", "HIGH", "MEDIUM", "LOW", "INFO"} : AtLeast(s, s)
          /\ AtLeast("CRITICAL", s)
    /\ AtLeast("MEDIUM", "LOW")
    /\ DOMAIN Rank = {"CRITICAL", "HIGH", "MEDIUM", "LOW", "INFO"}
BY DEF AtLeast, Rank

\* IAM and S3 answer alike in every region.
LEMMA SameEverywhere ==
    ASSUME NEW service \in {"iam", "s3"}, NEW control, NEW resource,
           Judges(service, control, resource),
           NEW settings, NEW x, NEW y
    PROVE  /\ Holds(settings, x, control, resource) <=> Holds(settings, y, control, resource)
           /\ Severity(settings, x, control, resource) = Severity(settings, y, control, resource)
<1>1. ServiceOf(control) = service /\ service \in ThreeServices
  BY JudgesIs
<1>2. ASSUME NEW c \in Decides(control)
      PROVE  FullView(settings, x, service)[c] = FullView(settings, y, service)[c]
  <2>1. c \in Elements(Calls(service))
    BY DecidesIs
  <2>2. c # "DescribeTrails" /\ c # "GetTrailStatus"
    BY <2>1, IamCalls, S3Calls
  <2>3. Answer(settings, x, c) = Answer(settings, y, c)
    BY <2>2 DEF Answer
  <2> QED BY <1>1, <2>1, <2>3, FullViewIs
<1> QED BY <1>1, <1>2, DecidedBy DEF Holds, Severity, FullOf

\* The mark of a control and resource.
MarkOf(control, resource, a, x) == Mark([control |-> control, resource |-> resource], a, x)

\* A finding's mark is that of its subject.
LEMMA MarkOfFinding ==
    ASSUME NEW f, NEW a, NEW x
    PROVE  Mark(f, a, x) = MarkOf(f.control, f.resource, a, x)
BY DEF MarkOf, Mark, Fingerprint, Identity

\* The parts of the mark of a subject.
LEMMA MarkOfIs ==
    ASSUME NEW control, NEW resource, NEW a, NEW x
    PROVE  /\ MarkOf(control, resource, a, x).account = a
                 /\ MarkOf(control, resource, a, x).control = control
           /\ MarkOf(control, resource, a, x).region = Scope(a, ServiceOf(control), x).region
BY DEF MarkOf, Mark, Fingerprint

\* A mark tells what it is of.
LEMMA MarksApart ==
    ASSUME NEW c, NEW r \in Resources, NEW a, NEW x, NEW d, NEW q \in Resources, NEW b, NEW y,
           MarkOf(c, r, a, x) = MarkOf(d, q, b, y)
    PROVE  /\ c = d /\ r = q /\ a = b
           /\ Scope(a, ServiceOf(c), x).region = Scope(b, ServiceOf(d), y).region
<1>1. r # None /\ q # None
  BY NoneApart
<1>2. MarkOf(c, r, a, x).identity = [resource_reference |-> r]
  BY <1>1 DEF MarkOf, Mark, Fingerprint, Identity
<1>3. MarkOf(d, q, b, y).identity = [resource_reference |-> q]
  BY <1>1 DEF MarkOf, Mark, Fingerprint, Identity
<1>4. [resource_reference |-> r].resource_reference = [resource_reference |-> q].resource_reference
  BY <1>2, <1>3
<1>5. r = q
  BY <1>4
<1> QED BY <1>5, MarkOfIs

\* What is judged is a resource.
LEMMA JudgesResources ==
    ASSUME NEW service, NEW control, NEW resource, Judges(service, control, resource)
    PROVE  resource \in Resources
BY DEF Judges, Resources

\* The mark of a subject in a configured account is one of the marks.
LEMMA MarkIn ==
    ASSUME NEW service \in Elements(Services), NEW control, NEW resource,
           Judges(service, control, resource),
           NEW a \in Elements(Accounts), NEW x \in Elements(Regions)
    PROVE  /\ MarkOf(control, resource, a, x) \in Marks
           /\ ScopeOfMark[MarkOf(control, resource, a, x)] = Scope(a, service, x)
<1> DEFINE t == <<control, resource>>
<1>1. ServiceOf(control) = service /\ t \in Subjects
  BY JudgesIs
<1>2. t[1] = control /\ t[2] = resource
  OBVIOUS
<1> HIDE DEF t
<1>3. t \in {s \in Subjects : ServiceOf(s[1]) \in Elements(Services)}
  BY <1>1, <1>2
<1>4. Mark([control |-> t[1], resource |-> t[2]], a, x) \in Marks
  BY <1>3 DEF Marks
<1>5. MarkOf(control, resource, a, x) \in Marks
  BY <1>2, <1>4 DEF MarkOf
<1>6. ScopeOfMark[MarkOf(control, resource, a, x)] = Scope(a, service, x)
  BY <1>1, <1>5, ScopeOfMarkIs DEF MarkOf
<1> QED BY <1>5, <1>6

\* What settings hold of a subject.
Item(settings, a, x, control, resource) ==
    [mark |-> MarkOf(control, resource, a, x), severity |-> Severity(settings, x, control, resource),
     control |-> control]

\* What a scan that misses nothing reports of an account, subject by subject.
LEMMA HoldingIs ==
    ASSUME NEW settings, NEW a, NEW x, NEW h
    PROVE  h \in Holding(settings, a, x) <=>
              \E service \in Elements(Services) : \E control, resource :
                 /\ Judges(service, control, resource) /\ Holds(settings, x, control, resource)
                 /\ h = Item(settings, a, x, control, resource)
<1> DEFINE Of(f) == [mark |-> Mark(f, a, x), severity |-> f.severity, control |-> f.control]
<1>1. h \in Holding(settings, a, x) <=>
         \E service \in Elements(Services) : \E f \in Evaluate(service, FullView(settings, x, service)) : h = Of(f)
  BY DEF Holding
<1>2. ASSUME NEW f, NEW control, NEW resource, NEW w, f = Reported(w, control, resource)
      PROVE  Of(f) = [mark |-> MarkOf(control, resource, a, x), severity |-> Gives(w, control, resource), control |-> control]
  <2>1. f.control = control /\ f.resource = resource /\ f.severity = Gives(w, control, resource)
    BY <1>2 DEF Reported, Finding
  <2>2. Mark(f, a, x) = MarkOf(control, resource, a, x)
    BY <2>1, MarkOfFinding
  <2> QED BY <2>1, <2>2
<1> HIDE DEF Of
<1>3. ASSUME NEW service \in Elements(Services) PROVE service \in ThreeServices
  BY FleetAssumption, ServicesOf DEF ThreeServices
<1>4. ASSUME NEW service \in Elements(Services), NEW f \in Evaluate(service, FullView(settings, x, service)), h = Of(f)
      PROVE  \E control, resource :
                /\ Judges(service, control, resource) /\ Holds(settings, x, control, resource)
                /\ h = Item(settings, a, x, control, resource)
  <2>1. PICK control, resource :
           Judges(service, control, resource) /\ Tells(FullView(settings, x, service), control, resource, f)
    BY <1>3, <1>4, EvaluateSays
  <2>2. FullOf(settings, x, control) = FullView(settings, x, service)
    BY <2>1, JudgesIs DEF FullOf
  <2>3. Holds(settings, x, control, resource) /\ f = Reported(FullOf(settings, x, control), control, resource)
    BY <2>1, <2>2 DEF Tells, Holds
  <2>4. h = Item(settings, a, x, control, resource)
    BY <1>2, <1>4, <2>3 DEF Item, Severity
  <2> QED BY <2>1, <2>3, <2>4
<1>5. ASSUME NEW service \in Elements(Services), NEW control, NEW resource,
             Judges(service, control, resource), Holds(settings, x, control, resource),
             h = Item(settings, a, x, control, resource)
      PROVE  \E f \in Evaluate(service, FullView(settings, x, service)) : h = Of(f)
  <2> DEFINE f == Reported(FullOf(settings, x, control), control, resource)
  <2>1. FullOf(settings, x, control) = FullView(settings, x, service)
    BY <1>5, JudgesIs DEF FullOf
  <2>2. Tells(FullView(settings, x, service), control, resource, f)
    BY <1>5, <2>1 DEF Tells, Holds
  <2>3. f \in Evaluate(service, FullView(settings, x, service))
    BY <1>3, <1>5, <2>2, EvaluateSays
  <2>4. h = Of(f)
    BY <1>2, <1>5 DEF Item, Severity
  <2> QED BY <2>3, <2>4
<1> QED BY <1>1, <1>4, <1>5

\* And of all the accounts.
LEMMA HoldingAllIs ==
    ASSUME NEW estates, NEW h
    PROVE  h \in HoldingAll(estates) <=>
              \E a \in Elements(Accounts), x \in Elements(Regions) : h \in Holding(estates[a], a, x)
BY DEF HoldingAll

----
(* What was read, and of which settings *)

\* What is so of the accounts while they are scanned.
Truth == [estate |-> estate, changes |-> changes, held |-> held]

\* Settings that account a may have had when a call of the scan was answered in region x.
Seen(settings, t, a, x) ==
    /\ settings \in Settings
    /\ t.changes = 0 => settings = t.estate[a]
    /\ \A service \in Elements(Services) : \A control, resource :
          Judges(service, control, resource) /\ MarkOf(control, resource, a, x) \in t.held
             => Holds(settings, x, control, resource)
    /\ MarkOf("IAM-003", "key", a, x) \in t.held => settings.key = t.estate[a].key

\* A call was made and failed, was not made, or was answered.
Entry(v, errors, service, c, t, a, x) ==
    \/ v[c] = Failed /\ \E e \in errors : e.operation = c /\ e.service = service
    \/ v[c] = Unread /\ ~Made(v, c)
    \/ Made(v, c) /\ v[c] # Failed /\ \E settings : Seen(settings, t, a, x)
          /\ v[c] = Answer(settings, x, c)

\* The same of all calls of a service.
AllEntries(v, errors, service, t, a, x) ==
    \A c \in Elements(Calls(service)) : Entry(v, errors, service, c, t, a, x)

\* The listings that are always made have named something, or failed.
LEMMA RootAnswered ==
    ASSUME NEW v, NEW errors, NEW service, NEW t, NEW a, NEW x,
           NEW l \in {"ListUsers", "ListGroups", "ListRoles", "ListBuckets"},
           Entry(v, errors, service, l, t, a, x), v[l] # Failed
    PROVE  v[l] = TRUE
<1>1. Listing(l) = {}
  BY DEF Listing
<1>2. Made(v, l)
  BY <1>1 DEF Made
<1>3. \A settings : Answer(settings, x, l) = TRUE
  BY DEF Answer
<1> QED BY <1>2, <1>3 DEF Entry

\* An answer of TRUE is an answer.
LEMMA TrueIsKnown == Known(TRUE) /\ TRUE # None
BY NoneApart DEF Known

\* So is what the settings of keys and trails can be.
LEMMA ListedIsKnown ==
    ASSUME NEW settings \in Settings, NEW x \in Elements(Regions),
           NEW l \in {"ListAccessKeys", "DescribeTrails"}
    PROVE  Known(Answer(settings, x, l))
<1>1. CASE l = "ListAccessKeys"
  <2>1. settings.key \in Keys \cup {None}
    BY DEF Settings, Choices
  <2>2. Answer(settings, x, l) = settings.key
    BY <1>1 DEF Answer
  <2>3. Failed \notin Keys /\ Unread \notin Keys /\ Failed # None /\ Unread # None
    BY AnswerAssumption
  <2> QED BY <2>1, <2>2, <2>3 DEF Known
<1>2. CASE l = "DescribeTrails"
  <2>1. settings.trail[x] \in Trails \cup {None}
    BY DEF Settings, Choices
  <2>2. Answer(settings, x, l) = settings.trail[x]
    BY <1>2 DEF Answer
  <2>3. Failed \notin Trails /\ Unread \notin Trails /\ Failed # None /\ Unread # None
    BY AnswerAssumption
  <2> QED BY <2>1, <2>2, <2>3 DEF Known
<1> QED BY <1>1, <1>2

\* A key's and a trail's details are not asked for when there is none.
LEMMA DetailAnswered ==
    ASSUME NEW v, NEW errors, NEW service, NEW t, NEW a, NEW x \in Elements(Regions),
           NEW l \in {"ListAccessKeys", "DescribeTrails"}, NEW c,
           Entry(v, errors, service, l, t, a, x), v[l] # Failed, Made(v, l),
           Entry(v, errors, service, c, t, a, x), v[c] # Failed,
           Made(v, c) <=> Known(v[l]) /\ v[l] # None,
           \A settings : Answer(settings, x, l) = None => Answer(settings, x, c) = Unread
    PROVE  \E settings : Seen(settings, t, a, x) /\ v[c] = Answer(settings, x, c)
<1>1. CASE Made(v, c)
  BY <1>1 DEF Entry
<1>2. CASE ~Made(v, c)
  <2>1. PICK settings : Seen(settings, t, a, x) /\ v[l] = Answer(settings, x, l)
    BY DEF Entry
  <2>2. Known(v[l])
    BY <2>1, ListedIsKnown DEF Seen
  <2>3. Answer(settings, x, l) = None
    BY <1>2, <2>1, <2>2
  <2>4. v[c] = Unread
    BY <1>2 DEF Entry
  <2> QED BY <2>1, <2>3, <2>4
<1> QED BY <1>1, <1>2

\* A call that did not fail, and whose listings did not, was answered.
LEMMA Answered ==
    ASSUME NEW v, NEW errors, NEW service \in ThreeServices, NEW t, NEW a,
           NEW x \in Elements(Regions),
           AllEntries(v, errors, service, t, a, x),
           NEW c \in Elements(Calls(service)), v[c] # Failed, \A l \in Listing(c) : v[l] # Failed
    PROVE  \E settings : Seen(settings, t, a, x) /\ v[c] = Answer(settings, x, c)
<1> DEFINE Roots == {"ListUsers", "ListGroups", "ListRoles", "ListBuckets"}
<1>1. Entry(v, errors, service, c, t, a, x)
  BY DEF AllEntries
<1>2. ASSUME NEW l \in Listing(c) PROVE Entry(v, errors, service, l, t, a, x)
  BY ListingIs DEF AllEntries
<1>3. ASSUME NEW l \in Listing(c), l \in Roots PROVE Known(v[l]) /\ v[l] # None
  BY <1>2, <1>3, RootAnswered, TrueIsKnown
<1>4. CASE Listing(c) \subseteq Roots
  <2>1. Made(v, c)
    BY <1>3, <1>4 DEF Made
  <2> QED BY <1>1, <2>1 DEF Entry
<1>5. CASE c = "GetAccessKeyLastUsed"
  <2>1. Listing(c) = {"ListUsers", "ListAccessKeys"} /\ Listing("ListAccessKeys") = {"ListUsers"}
    BY <1>5 DEF Listing
  <2>2. Known(v["ListUsers"]) /\ v["ListUsers"] # None
    BY <1>3, <2>1
  <2>3. Made(v, "ListAccessKeys")
    BY <2>1, <2>2 DEF Made
  <2>4. Made(v, c) <=> Known(v["ListAccessKeys"]) /\ v["ListAccessKeys"] # None
    BY <2>1, <2>2 DEF Made
  <2>5. \A settings : Answer(settings, x, "ListAccessKeys") = None
           => Answer(settings, x, c) = Unread
    BY <1>5 DEF Answer
  <2>6. Entry(v, errors, service, "ListAccessKeys", t, a, x) /\ v["ListAccessKeys"] # Failed
    BY <1>2, <2>1
  <2> QED BY <1>1, <2>3, <2>4, <2>5, <2>6, DetailAnswered
<1>6. CASE c = "GetTrailStatus"
  <2>1. Listing(c) = {"DescribeTrails"} /\ Listing("DescribeTrails") = {}
    BY <1>6 DEF Listing
  <2>2. Made(v, "DescribeTrails")
    BY <2>1 DEF Made
  <2>3. Made(v, c) <=> Known(v["DescribeTrails"]) /\ v["DescribeTrails"] # None
    BY <2>1 DEF Made
  <2>4. \A settings : Answer(settings, x, "DescribeTrails") = None
           => Answer(settings, x, c) = Unread
    BY <1>6 DEF Answer
  <2>5. Entry(v, errors, service, "DescribeTrails", t, a, x) /\ v["DescribeTrails"] # Failed
    BY <1>2, <2>1
  <2> QED BY <1>1, <2>2, <2>3, <2>4, <2>5, DetailAnswered
<1>7. Listing(c) \subseteq Roots \/ c = "GetAccessKeyLastUsed" \/ c = "GetTrailStatus"
  BY DEF Listing
<1> QED BY <1>4, <1>5, <1>6, <1>7

\* The view v of a service has some of the answers of the view w.
Within(v, w, service) == \A c \in Elements(Calls(service)) : v[c] \in {Failed, Unread}
   \/ v[c] = w[c]

\* Of unchanged settings a scan has seen some of the answers, and no others.
LEMMA WithinFull ==
    ASSUME NEW v, NEW errors, NEW service \in ThreeServices, NEW t, NEW a, NEW x,
           AllEntries(v, errors, service, t, a, x), t.changes = 0
    PROVE  Within(v, FullView(t.estate[a], x, service), service)
<1> SUFFICES ASSUME NEW c \in Elements(Calls(service)), v[c] \notin {Failed, Unread}
             PROVE  v[c] = FullView(t.estate[a], x, service)[c]
  BY DEF Within
<1>1. PICK settings : Seen(settings, t, a, x) /\ v[c] = Answer(settings, x, c)
  BY DEF AllEntries, Entry
<1>2. settings = t.estate[a]
  BY <1>1 DEF Seen
<1> QED BY <1>1, <1>2, FullViewIs

\* Fewer answers tell less: of IAM nothing that the full view would not tell,
LEMMA IamSound ==
    ASSUME NEW v, NEW w, Within(v, w, "iam"), NEW control, NEW resource,
           Judges("iam", control, resource),
           Says(v, control, resource)
    PROVE  Says(w, control, resource) /\ Gives(v, control, resource) = Gives(w, control, resource)
<1>1. \A c \in {"GetLoginProfile", "ListMFADevices"} : v[c] \in BOOLEAN => v[c] = w[c]
  BY IamCalls, NoneApart DEF Within
<1>2. \A c \in {"ListAccessKeys", "GetAccessKeyLastUsed", "UserPolicies", "GroupPolicies", "RolePolicies"} :
         Known(v[c]) => v[c] = w[c]
  BY IamCalls DEF Within, Known
<1>3. CASE control \in {"IAM-001", "IAM-006"}
  <2>1. Says(w, control, resource)
    BY <1>1, <1>3 DEF Says
  <2>2. Gives(v, control, resource) = Gives(w, control, resource)
    BY <1>3 DEF Gives
  <2> QED BY <2>1, <2>2
<1>4. CASE control \in {"IAM-002", "IAM-003"}
  <2>1. v["ListAccessKeys"] = w["ListAccessKeys"]
    BY <1>2, <1>4 DEF Says
  <2>2. Gives(v, control, resource) = Gives(w, control, resource)
    BY <1>4, <2>1 DEF Gives
  <2>3. CASE control = "IAM-002"
    BY <2>1, <2>2, <2>3 DEF Says
  <2>4. CASE control = "IAM-003"
    <3>1. Dormant(v["ListAccessKeys"], v["GetAccessKeyLastUsed"])
             => Dormant(w["ListAccessKeys"], w["GetAccessKeyLastUsed"])
      BY <1>2, <2>1 DEF Dormant
    <3> QED BY <2>1, <2>2, <2>4, <3>1 DEF Says
  <2> QED BY <1>4, <2>2, <2>3, <2>4
<1>5. CASE control \in {"IAM-004", "IAM-005"}
  <2>1. DocumentOf(resource) \in {"UserPolicies", "GroupPolicies", "RolePolicies"}
    BY DEF DocumentOf
  <2>2. v[DocumentOf(resource)] = w[DocumentOf(resource)]
    BY <1>2, <1>5, <2>1 DEF Says
  <2>3. Says(w, control, resource)
    BY <1>5, <2>2 DEF Says
  <2>4. Gives(v, control, resource) = Gives(w, control, resource)
    BY <1>5, <2>2 DEF Gives
  <2> QED BY <2>3, <2>4
<1> QED BY <1>3, <1>4, <1>5 DEF Judges

\* of a bucket perhaps with a higher severity, its block being unread,
LEMMA BucketSound ==
    ASSUME NEW v, NEW settings, NEW x, Within(v, FullView(settings, x, "s3"), "s3"),
           NEW control, NEW resource, Judges("s3", control, resource), Says(v, control, resource)
    PROVE  /\ Says(FullView(settings, x, "s3"), control, resource)
           /\ AtLeast(Gives(v, control, resource), Gives(FullView(settings, x, "s3"), control, resource))
<1> DEFINE w == FullView(settings, x, "s3")
<1>1. /\ v["GetBucketEncryption"] \in BOOLEAN => v["GetBucketEncryption"] = w["GetBucketEncryption"]
      /\ v["GetBucketPolicyStatus"] \in BOOLEAN => v["GetBucketPolicyStatus"] = w["GetBucketPolicyStatus"]
  BY S3Calls, NoneApart DEF Within
<1>2. /\ v["GetBucketAcl"] \in Words => v["GetBucketAcl"] = w["GetBucketAcl"]
      /\ v["GetBucketPolicy"] \in Words => v["GetBucketPolicy"] = w["GetBucketPolicy"]
  BY S3Calls, NoneApart DEF Within
<1>3. Known(v["GetPublicAccessBlock"]) => v["GetPublicAccessBlock"] = w["GetPublicAccessBlock"]
  BY S3Calls DEF Within, Known
<1>4. Known(v["GetPublicAccessBlock"]) => Block(v) = Block(w)
  BY <1>3 DEF Block
<1>5. ~Known(v["GetPublicAccessBlock"]) => Block(v) = {}
  BY DEF Block
<1>6. Gives(w, control, resource) \in {"CRITICAL", "HIGH", "MEDIUM", "LOW", "INFO"}
  BY GivesRank
<1>7. /\ w["GetBucketPolicyStatus"] = Answer(settings, x, "GetBucketPolicyStatus")
      /\ w["GetBucketPolicy"] = Answer(settings, x, "GetBucketPolicy")
  BY FullViewIs, S3Calls DEF ThreeServices
<1>8. w["GetBucketPolicyStatus"] = TRUE => w["GetBucketPolicy"] = "open"
  BY <1>7 DEF Answer
<1>9. {"public", "open", "constrained"} \subseteq Words
  BY DEF Words
<1> HIDE DEF w
<1>10. CASE control = "S3-001"
  <2>1. Says(w, control, resource)
    BY <1>3, <1>10 DEF Says
  <2>2. Gives(v, control, resource) = "MEDIUM" /\ Gives(w, control, resource) = "MEDIUM"
    BY <1>10 DEF Gives
  <2> QED BY <2>1, <2>2, AtLeastIs DEF w
<1>11. CASE control = "S3-002"
  <2>1. Says(w, control, resource)
    BY <1>2, <1>9, <1>11 DEF Says
  <2>2. AtLeast(Gives(v, control, resource), Gives(w, control, resource))
    <3>1. CASE Known(v["GetPublicAccessBlock"])
      <4>1. Gives(v, control, resource) = Gives(w, control, resource)
        BY <1>4, <1>11, <3>1 DEF Gives
      <4> QED BY <1>6, <4>1, AtLeastIs
    <3>2. CASE ~Known(v["GetPublicAccessBlock"])
      <4>1. Gives(v, control, resource) = "CRITICAL"
        BY <1>5, <1>11, <3>2 DEF Gives
      <4> QED BY <1>6, <4>1, AtLeastIs
    <3> QED BY <3>1, <3>2
  <2> QED BY <2>1, <2>2 DEF w
<1>12. CASE control = "S3-003"
  <2>1. v["GetBucketPolicy"] \in {"open", "constrained"} \/ v["GetBucketPolicyStatus"] = TRUE
    BY <1>12 DEF Says
  <2>2. \/ v["GetBucketPolicy"] \in {"open", "constrained"}
              /\ w["GetBucketPolicy"] = v["GetBucketPolicy"]
        \/ v["GetBucketPolicy"] \notin {"open", "constrained"} /\ w["GetBucketPolicy"] = "open"
    BY <1>1, <1>2, <1>8, <1>9, <2>1
  <2>3. Says(w, control, resource)
    BY <1>12, <2>2 DEF Says
  <2>4. v["GetBucketPolicy"] = "constrained" <=> w["GetBucketPolicy"] = "constrained"
    BY <2>2
  <2>5. AtLeast(Gives(v, control, resource), Gives(w, control, resource))
    <3>1. CASE Known(v["GetPublicAccessBlock"])
      <4>1. Gives(v, control, resource) = Gives(w, control, resource)
        BY <1>4, <1>12, <2>4, <3>1 DEF Gives
      <4> QED BY <1>6, <4>1, AtLeastIs
    <3>2. CASE ~Known(v["GetPublicAccessBlock"])
      <4>1. Gives(v, control, resource) = IF v["GetBucketPolicy"] = "constrained" THEN "MEDIUM" ELSE "CRITICAL"
        BY <1>5, <1>12, <3>2 DEF Gives
      <4>2. w["GetBucketPolicy"] = "constrained" => Gives(w, control, resource) \in {"LOW", "MEDIUM"}
        BY <1>12 DEF Gives
      <4> QED BY <1>6, <2>4, <4>1, <4>2, AtLeastIs
    <3> QED BY <3>1, <3>2
  <2> QED BY <2>3, <2>5 DEF w
<1>13. CASE control = "S3-004"
  <2>1. Says(w, control, resource)
    BY <1>1, <1>13 DEF Says
  <2>2. Gives(v, control, resource) = "MEDIUM" /\ Gives(w, control, resource) = "MEDIUM"
    BY <1>13 DEF Gives
  <2> QED BY <2>1, <2>2, AtLeastIs DEF w
<1> QED BY <1>10, <1>11, <1>12, <1>13 DEF Judges

\* of trails nothing that the full view would not tell.
LEMMA TrailSound ==
    ASSUME NEW v, NEW w, Within(v, w, "cloudtrail"), NEW control, NEW resource,
           Judges("cloudtrail", control, resource), Says(v, control, resource)
    PROVE  Says(w, control, resource) /\ Gives(v, control, resource) = Gives(w, control, resource)
<1>1. Known(v["DescribeTrails"]) => v["DescribeTrails"] = w["DescribeTrails"]
  BY TrailCalls DEF Within, Known
<1>2. v["GetTrailStatus"] \in Words => v["GetTrailStatus"] = w["GetTrailStatus"]
  BY TrailCalls, NoneApart DEF Within
<1>3. Known(None)
  BY NoneApart DEF Known
<1>4. v["DescribeTrails"] = w["DescribeTrails"]
  BY <1>1, <1>3 DEF Says, Judges
<1>5. {"stopped", "failing"} \subseteq Words
  BY DEF Words
<1>6. Says(w, control, resource)
  BY <1>2, <1>4, <1>5 DEF Says, Judges
<1>7. Gives(v, control, resource) = Gives(w, control, resource)
  BY DEF Gives, Judges
<1> QED BY <1>6, <1>7

\* What is said of a view of unchanged settings is so, and at most played up.
LEMMA Sound ==
    ASSUME NEW v, NEW errors, NEW service \in ThreeServices, NEW t, NEW a, NEW x,
           AllEntries(v, errors, service, t, a, x), t.changes = 0,
           NEW control, NEW resource, Judges(service, control, resource), Says(v, control, resource)
    PROVE  /\ Holds(t.estate[a], x, control, resource)
           /\ AtLeast(Gives(v, control, resource), Severity(t.estate[a], x, control, resource))
<1> DEFINE w == FullView(t.estate[a], x, service)
<1>1. Within(v, w, service)
  BY WithinFull
<1>2. FullOf(t.estate[a], x, control) = w
  BY JudgesIs DEF FullOf
<1>3. Gives(w, control, resource) \in {"CRITICAL", "HIGH", "MEDIUM", "LOW", "INFO"}
  BY GivesRank
<1>4. Says(w, control, resource) /\ AtLeast(Gives(v, control, resource), Gives(w, control, resource))
  <2>1. CASE service = "iam"
    <3> HIDE DEF w
    <3> QED BY <1>1, <1>3, <2>1, IamSound, AtLeastIs
  <2>2. CASE service = "s3"
    BY <1>1, <2>2, BucketSound
  <2>3. CASE service = "cloudtrail"
    <3> HIDE DEF w
    <3> QED BY <1>1, <1>3, <2>3, TrailSound, AtLeastIs
  <2> QED BY <2>1, <2>2, <2>3 DEF ThreeServices
<1> QED BY <1>2, <1>4 DEF Holds, Severity

\* Unless a call that decides it failed, what is so is said, as grave as it is.
LEMMA Complete ==
    ASSUME NEW v, NEW errors, NEW service \in ThreeServices, NEW t, NEW a,
           NEW x \in Elements(Regions),
           AllEntries(v, errors, service, t, a, x), t.changes = 0,
           NEW control, NEW resource, Judges(service, control, resource),
           Holds(t.estate[a], x, control, resource),
           \A c \in Decides(control) : v[c] # Failed
    PROVE  Says(v, control, resource) /\ Gives(v, control, resource) = Severity(t.estate[a], x, control, resource)
<1> DEFINE w == FullView(t.estate[a], x, service)
<1>1. ASSUME NEW c \in Decides(control) PROVE v[c] = w[c]
  <2>1. c \in Elements(Calls(service)) /\ Listing(c) \subseteq Decides(control)
    BY DecidesIs
  <2>2. \A l \in Listing(c) : v[l] # Failed
    BY <2>1
  <2>3. PICK settings : Seen(settings, t, a, x) /\ v[c] = Answer(settings, x, c)
    BY <2>1, <2>2, Answered
  <2>4. settings = t.estate[a]
    BY <2>3 DEF Seen
  <2> QED BY <2>1, <2>3, <2>4, FullViewIs
<1>2. FullOf(t.estate[a], x, control) = w
  BY JudgesIs DEF FullOf
<1> HIDE DEF w
<1>3. /\ Says(v, control, resource) <=> Says(w, control, resource)
      /\ Gives(v, control, resource) = Gives(w, control, resource)
  BY <1>1, DecidedBy
<1> QED BY <1>2, <1>3 DEF Holds, Severity

\* A call's answer is that of settings of which the subject is reported.
Shown(v, service, x, control, resource, c, t, a) ==
    \E settings : /\ Seen(settings, t, a, x) /\ Says(FullView(settings, x, service), control, resource)
                  /\ v[c] = FullView(settings, x, service)[c]

\* If no call failed, every answer is that of settings in which the mark held.
LEMMA HeldShown ==
    ASSUME NEW v, NEW errors, NEW service \in Elements(Services) \cap ThreeServices, NEW t, NEW a,
           NEW x \in Elements(Regions), AllEntries(v, errors, service, t, a, x),
           \A c \in Elements(Calls(service)) : v[c] # Failed,
           NEW control, NEW resource, Judges(service, control, resource),
           MarkOf(control, resource, a, x) \in t.held,
           NEW c \in Decides(control)
    PROVE  Shown(v, service, x, control, resource, c, t, a)
<1>1. c \in Elements(Calls(service)) /\ Listing(c) \subseteq Decides(control)
  BY DecidesIs
<1>2. \A l \in Listing(c) : v[l] # Failed
  BY <1>1, ListingIs
<1>3. PICK settings : Seen(settings, t, a, x) /\ v[c] = Answer(settings, x, c)
  BY <1>1, <1>2, Answered
<1>4. Holds(settings, x, control, resource)
  BY <1>3 DEF Seen
<1>5. Says(FullView(settings, x, service), control, resource)
  BY <1>4, JudgesIs DEF Holds, FullOf
<1>6. v[c] = FullView(settings, x, service)[c]
  BY <1>1, <1>3, FullViewIs
<1> QED BY <1>3, <1>5, <1>6 DEF Shown

\* A mark that held throughout is reported unless a call of its service failed.
LEMMA HeldSaid ==
    ASSUME NEW v, NEW errors, NEW service \in Elements(Services) \cap ThreeServices, NEW t, NEW a,
           NEW x \in Elements(Regions), AllEntries(v, errors, service, t, a, x),
           \A c \in Elements(Calls(service)) : v[c] # Failed,
           NEW control, NEW resource, Judges(service, control, resource),
           MarkOf(control, resource, a, x) \in t.held
    PROVE  Says(v, control, resource)
<1>1. \A c \in Decides(control) : Shown(v, service, x, control, resource, c, t, a)
  BY HeldShown
<1>2. CASE control \in {"IAM-001", "IAM-006"}
  <2>1. Shown(v, service, x, control, resource, "ListMFADevices", t, a)
        /\ Shown(v, service, x, control, resource, "GetLoginProfile", t, a)
    BY <1>1, <1>2 DEF Decides
  <2> QED BY <1>2, <2>1 DEF Shown, Says
<1>3. CASE control = "IAM-002"
  <2>1. Shown(v, service, x, control, resource, "ListAccessKeys", t, a)
    BY <1>1, <1>3 DEF Decides
  <2> QED BY <1>3, <2>1 DEF Shown, Says
<1>4. CASE control = "IAM-003"
  <2>1. PICK s : /\ Seen(s, t, a, x) /\ Says(FullView(s, x, service), control, resource)
                 /\ v["ListAccessKeys"] = FullView(s, x, service)["ListAccessKeys"]
    BY <1>1, <1>4 DEF Decides, Shown
  <2>2. PICK z : /\ Seen(z, t, a, x) /\ Says(FullView(z, x, service), control, resource)
                 /\ v["GetAccessKeyLastUsed"] = FullView(z, x, service)["GetAccessKeyLastUsed"]
    BY <1>1, <1>4 DEF Decides, Shown
  <2>3. resource = "key" /\ service = "iam"
    BY <1>4 DEF Judges
  <2>4. s.key = z.key
    BY <1>4, <2>1, <2>2, <2>3 DEF Seen
  <2>5. "ListAccessKeys" \in Elements(Calls(service))
    BY <2>3, IamCalls
  <2>6. FullView(s, x, service)["ListAccessKeys"] = s.key
           /\ FullView(z, x, service)["ListAccessKeys"] = z.key
    <3>1. \A y : FullView(y, x, service)["ListAccessKeys"] = Answer(y, x, "ListAccessKeys")
      BY <2>5, FullViewIs
    <3>2. \A y : Answer(y, x, "ListAccessKeys") = y.key
      BY DEF Answer
    <3> QED BY <3>1, <3>2
  <2>7. v["ListAccessKeys"] = FullView(z, x, service)["ListAccessKeys"]
    BY <2>1, <2>4, <2>6
  <2> QED BY <1>4, <2>2, <2>7 DEF Says
<1>5. CASE control \in {"IAM-004", "IAM-005"}
  <2>1. DocumentOf(resource) \in {"UserPolicies", "GroupPolicies", "RolePolicies"}
    BY DEF DocumentOf
  <2>2. DocumentOf(resource) \in Decides(control)
    BY <1>5, <2>1 DEF Decides
  <2>3. Shown(v, service, x, control, resource, DocumentOf(resource), t, a)
    BY <1>1, <2>2
  <2> QED BY <1>5, <2>3 DEF Shown, Says
<1>6. CASE control = "S3-001"
  <2>1. Shown(v, service, x, control, resource, "GetPublicAccessBlock", t, a)
    BY <1>1, <1>6 DEF Decides
  <2> QED BY <1>6, <2>1 DEF Shown, Says
<1>7. CASE control = "S3-002"
  <2>1. Shown(v, service, x, control, resource, "GetBucketAcl", t, a)
    BY <1>1, <1>7 DEF Decides
  <2> QED BY <1>7, <2>1 DEF Shown, Says
<1>8. CASE control = "S3-003"
  <2>1. PICK s : /\ Seen(s, t, a, x) /\ Says(FullView(s, x, service), control, resource)
                 /\ v["GetBucketPolicy"] = FullView(s, x, service)["GetBucketPolicy"]
    BY <1>1, <1>8 DEF Decides, Shown
  <2>2. service = "s3"
    BY <1>8 DEF Judges
  <2>3. /\ FullView(s, x, service)["GetBucketPolicy"] = Answer(s, x, "GetBucketPolicy")
        /\ FullView(s, x, service)["GetBucketPolicyStatus"] = Answer(s, x, "GetBucketPolicyStatus")
    BY <2>2, S3Calls, FullViewIs
  <2>4. FullView(s, x, service)["GetBucketPolicyStatus"] = TRUE
           => FullView(s, x, service)["GetBucketPolicy"] = "open"
    BY <2>3 DEF Answer
  <2> QED BY <1>8, <2>1, <2>4 DEF Says
<1>9. CASE control = "S3-004"
  <2>1. Shown(v, service, x, control, resource, "GetBucketEncryption", t, a)
    BY <1>1, <1>9 DEF Decides
  <2> QED BY <1>9, <2>1 DEF Shown, Says
<1>10. CASE control \in {"CT-001", "CT-002", "CT-003"}
  <2>1. Shown(v, service, x, control, resource, "DescribeTrails", t, a)
    BY <1>1, <1>10 DEF Decides
  <2> QED BY <1>10, <2>1 DEF Shown, Says
<1>11. CASE control = "CT-004"
  <2>1. Shown(v, service, x, control, resource, "DescribeTrails", t, a)
        /\ Shown(v, service, x, control, resource, "GetTrailStatus", t, a)
    BY <1>1, <1>11 DEF Decides
  <2> QED BY <1>11, <2>1 DEF Shown, Says
<1> QED BY <1>2, <1>3, <1>4, <1>5, <1>6, <1>7, <1>8, <1>9, <1>10, <1>11 DEF Judges

\* The calls before call n are done, the others were not made.
ReadUpTo(v, errors, service, n, t, a, x) ==
    \A j \in DOMAIN Calls(service) :
       IF j < n THEN Entry(v, errors, service, Calls(service)[j], t, a, x) ELSE v[Calls(service)[j]] = Unread

\* Every call comes once, and after its listings.
LEMMA CallOrder ==
    ASSUME NEW service \in ThreeServices, NEW i \in DOMAIN Calls(service),
           NEW j \in DOMAIN Calls(service)
    PROVE  /\ Calls(service)[i] = Calls(service)[j] => i = j
           /\ Calls(service)[i] \in Listing(Calls(service)[j]) => i < j
<1>1. CASE service = "iam"
  <2> DEFINE c == Calls("iam")
  <2>1. /\ c = <<"ListUsers", "GetLoginProfile", "ListMFADevices", "ListAccessKeys", "GetAccessKeyLastUsed",
                 "ListGroupsForUser", "UserPolicies", "ListGroups", "GroupPolicies", "GetGroup", "ListRoles",
                 "RolePolicies">>
    BY DEF Calls
  <2> HIDE DEF c
  <2>2. DOMAIN c = 1 .. 12
    BY <2>1
  <2>3. i \in 1 .. 12 /\ j \in 1 .. 12
    BY <1>1, <2>2 DEF c
  <2>4. c[i] = c[j] => i = j
    BY <2>1, <2>3
  <2>5. \A z \in 1 .. 12 : c[z] = "ListUsers" => z = 1
    BY <2>1
  <2>6. \A z \in 1 .. 12 : c[z] = "ListAccessKeys" => z = 4
    BY <2>1
  <2>7. \A z \in 1 .. 12 : c[z] = "ListGroups" => z = 8
    BY <2>1
  <2>8. \A z \in 1 .. 12 : c[z] = "ListRoles" => z = 11
    BY <2>1
  <2>9. \A z \in 1 .. 12 : c[z] = "RolePolicies" => z = 12
    BY <2>1
  <2>10. \A z \in 1 .. 12 : c[z] \in {"GroupPolicies", "GetGroup"} => z \in {9, 10}
    BY <2>1
  <2>11. \A z \in 1 .. 12 : c[z] = "GetAccessKeyLastUsed" => z = 5
    BY <2>1
  <2>12. c[1] = "ListUsers" /\ Listing("ListUsers") = {}
    BY <2>1 DEF Listing
  <2>13. ASSUME c[i] \in Listing(c[j]) PROVE i < j
    <3>1. CASE c[i] = "ListUsers"
      <4>1. i = 1
        BY <2>3, <2>5, <3>1
      <4>2. j # 1
        BY <2>12, <2>13
      <4> QED BY <2>3, <4>1, <4>2
    <3>2. CASE c[i] = "ListAccessKeys"
      <4>1. i = 4
        BY <2>3, <2>6, <3>2
      <4>2. c[j] = "GetAccessKeyLastUsed"
        BY <2>13, <3>2 DEF Listing
      <4>3. j = 5
        BY <2>3, <2>11, <4>2
      <4> QED BY <4>1, <4>3
    <3>3. CASE c[i] = "ListGroups"
      <4>1. i = 8
        BY <2>3, <2>7, <3>3
      <4>2. c[j] \in {"GroupPolicies", "GetGroup"}
        BY <2>13, <3>3 DEF Listing
      <4>3. j \in {9, 10}
        BY <2>3, <2>10, <4>2
      <4> QED BY <4>1, <4>3
    <3>4. CASE c[i] = "ListRoles"
      <4>1. i = 11
        BY <2>3, <2>8, <3>4
      <4>2. c[j] = "RolePolicies"
        BY <2>13, <3>4 DEF Listing
      <4>3. j = 12
        BY <2>3, <2>9, <4>2
      <4> QED BY <4>1, <4>3
    <3>5. c[i] # "ListBuckets" /\ c[i] # "DescribeTrails"
      BY <2>1, <2>3
    <3>6. c[i] \in {"ListUsers", "ListAccessKeys", "ListGroups", "ListRoles", "ListBuckets", "DescribeTrails"}
      BY <2>13 DEF Listing
    <3> QED BY <3>1, <3>2, <3>3, <3>4, <3>5, <3>6
  <2> QED BY <1>1, <2>4, <2>13 DEF c
<1>2. CASE service = "s3"
  <2> DEFINE c == Calls("s3")
  <2>1. c = <<"ListBuckets", "GetBucketLocation", "GetPublicAccessBlock", "GetBucketEncryption",
              "GetBucketPolicy", "GetBucketPolicyStatus", "GetBucketAcl">>
    BY DEF Calls
  <2> HIDE DEF c
  <2>2. DOMAIN c = 1 .. 7
    BY <2>1
  <2>3. i \in 1 .. 7 /\ j \in 1 .. 7
    BY <1>2, <2>2 DEF c
  <2>4. c[i] = c[j] => i = j
    BY <2>1, <2>3
  <2>5. \A z \in 1 .. 7 : c[z] = "ListBuckets" => z = 1
    BY <2>1
  <2>6. c[1] = "ListBuckets" /\ Listing("ListBuckets") = {}
    BY <2>1 DEF Listing
  <2>7. \A z \in 1 .. 7 : Listing(c[z]) \subseteq {"ListBuckets"}
    BY <2>1 DEF Listing
  <2>8. c[i] \in Listing(c[j]) => i < j
    BY <2>3, <2>5, <2>6, <2>7
  <2> QED BY <1>2, <2>4, <2>8 DEF c
<1>3. CASE service = "cloudtrail"
  <2> DEFINE c == Calls("cloudtrail")
  <2>1. c = <<"DescribeTrails", "GetTrailStatus">>
    BY DEF Calls
  <2> HIDE DEF c
  <2>2. DOMAIN c = 1 .. 2
    BY <2>1
  <2>3. i \in 1 .. 2 /\ j \in 1 .. 2
    BY <1>3, <2>2 DEF c
  <2>4. c[1] = "DescribeTrails" /\ c[2] = "GetTrailStatus"
    BY <2>1
  <2>5. c[i] = c[j] => i = j
    BY <2>3, <2>4
  <2>6. c[i] \in Listing(c[j]) => i < j
    BY <2>3, <2>4 DEF Listing
  <2> QED BY <1>3, <2>5, <2>6 DEF c
<1> QED BY <1>1, <1>2, <1>3 DEF ThreeServices

\* A call's outcome stays what it is while others are made.
LEMMA EntryKept ==
    ASSUME NEW v, NEW y, NEW errors, NEW more, NEW service, NEW c, NEW t, NEW a, NEW x,
           Entry(v, errors, service, c, t, a, x), y[c] = v[c], Made(y, c) <=> Made(v, c),
           errors \subseteq more
    PROVE  Entry(y, more, service, c, t, a, x)
<1>1. (\E e \in errors : e.operation = c /\ e.service = service)
         => \E e \in more : e.operation = c /\ e.service = service
  OBVIOUS
<1> QED BY <1>1 DEF Entry

\* One call's outcome, and on to the next call that is made.
LEMMA ReadNext ==
    ASSUME NEW service \in ThreeServices, NEW v, NEW y, NEW errors, NEW more, NEW t, NEW a, NEW x,
           NEW n \in DOMAIN Calls(service), ReadUpTo(v, errors, service, n, t, a, x),
           Made(v, Calls(service)[n]),
           DOMAIN v = Elements(Calls(service)), NEW outcome,
           y = [v EXCEPT ![Calls(service)[n]] = outcome],
           errors \subseteq more,
           \/ outcome = Failed /\ \E e \in more : e.operation = Calls(service)[n]
                 /\ e.service = service
           \/ outcome # Failed /\ \E settings : Seen(settings, t, a, x)
                 /\ outcome = Answer(settings, x, Calls(service)[n]),
           NEW next \in n + 1 .. Len(Calls(service)) + 1,
           \A j \in n + 1 .. next - 1 : ~Made(y, Calls(service)[j])
    PROVE  ReadUpTo(y, more, service, next, t, a, x)
<1> DEFINE c == Calls(service)
<1>1. DOMAIN c = 1 .. Len(c) /\ Len(c) \in Nat
  BY CallsOf
<1>2. \A i, j \in DOMAIN c : (c[i] = c[j] => i = j) /\ (c[i] \in Listing(c[j]) => i < j)
  BY CallOrder
<1>3. \A j \in DOMAIN c : c[j] \in Elements(c)
  BY DEF Elements
<1> HIDE DEF c
<1>4. y[c[n]] = outcome
  BY <1>3 DEF c
<1>5. \A j \in DOMAIN c : j # n => y[c[j]] = v[c[j]]
  BY <1>2, <1>3 DEF c
<1>6. ASSUME NEW j \in DOMAIN c, j <= n PROVE Made(y, c[j]) <=> Made(v, c[j])
  <2>1. c[n] \notin Listing(c[j])
    <3>1. c[n] \in Listing(c[j]) => n < j
      BY <1>2 DEF c
    <3> QED BY <1>1, <1>6, <3>1 DEF c
  <2>2. \A l \in Listing(c[j]) : l \in Elements(c)
    BY ListingIs, <1>3 DEF c
  <2>3. \A l \in Listing(c[j]) : y[l] = v[l]
    BY <2>1, <2>2 DEF c
  <2> QED BY <2>3 DEF Made
<1>7. n \in Nat /\ next \in Nat /\ n < next /\ \A j \in DOMAIN c : j \in Nat
  BY <1>1 DEF c
<1>8. ASSUME NEW j \in DOMAIN c
      PROVE  IF j < next THEN Entry(y, more, service, c[j], t, a, x) ELSE y[c[j]] = Unread
  <2>1. CASE j < n
    <3>1. Entry(v, errors, service, c[j], t, a, x)
      BY <2>1 DEF ReadUpTo, c
    <3>2. j # n /\ j <= n /\ j < next
      BY <1>8, <1>7, <2>1
    <3>3. y[c[j]] = v[c[j]]
      BY <1>5, <3>2
    <3>4. Made(y, c[j]) <=> Made(v, c[j])
      BY <1>6, <3>2
    <3>5. Entry(y, more, service, c[j], t, a, x)
      BY <3>1, <3>3, <3>4, EntryKept
    <3> QED BY <3>2, <3>5
  <2>2. CASE j = n
    <3>1. Made(y, c[j])
      <4>1. j <= n
        BY <1>7, <2>2
      <4>2. Made(v, c[j])
        BY <2>2 DEF c
      <4> QED BY <1>6, <4>1, <4>2
    <3>2. j < next
      BY <1>7, <2>2
    <3>3. Entry(y, more, service, c[j], t, a, x)
      BY <1>4, <2>2, <3>1 DEF Entry, c
    <3> QED BY <3>2, <3>3
  <2>3. CASE j > n
    <3>1. v[c[j]] = Unread
      <4>1. ~(j < n)
        BY <1>8, <1>7, <2>3
      <4> QED BY <4>1 DEF ReadUpTo, c
    <3>2. y[c[j]] = Unread
      <4>1. j # n
        BY <1>7, <2>3
      <4> QED BY <1>5, <3>1, <4>1
    <3>3. j < next => ~Made(y, c[j])
      <4>1. j < next => j \in n + 1 .. next - 1
        BY <1>8, <1>7, <2>3
      <4> QED BY <4>1 DEF c
    <3>4. j < next => Entry(y, more, service, c[j], t, a, x)
      BY <3>2, <3>3 DEF Entry
    <3> QED BY <3>2, <3>4
  <2> QED BY <1>7, <2>1, <2>2, <2>3
<1> QED BY <1>8 DEF ReadUpTo, c

\* Past the last call everything is read.
LEMMA ReadAll ==
    ASSUME NEW service \in ThreeServices, NEW v, NEW errors, NEW t, NEW a, NEW x, NEW next,
           next = Len(Calls(service)) + 1, ReadUpTo(v, errors, service, next, t, a, x)
    PROVE  AllEntries(v, errors, service, t, a, x)
<1> SUFFICES ASSUME NEW j \in DOMAIN Calls(service)
             PROVE  Entry(v, errors, service, Calls(service)[j], t, a, x)
  BY DEF AllEntries, Elements
<1>1. j < next
  BY CallsOf
<1> QED BY <1>1 DEF ReadUpTo

\* Before the first one nothing is.
LEMMA NothingRead ==
    ASSUME NEW service \in ThreeServices, NEW errors, NEW t, NEW a, NEW x
    PROVE  /\ ReadUpTo(Unasked(service), errors, service, 1, t, a, x)
           /\ Made(Unasked(service), Calls(service)[1])
<1>1. Listing(Calls(service)[1]) = {} /\ DOMAIN Calls(service) = 1 .. Len(Calls(service))
  BY CallsOf
<1>2. Made(Unasked(service), Calls(service)[1])
  BY <1>1 DEF Made
<1>3. ASSUME NEW j \in DOMAIN Calls(service) PROVE ~(j < 1)
             /\ Unasked(service)[Calls(service)[j]] = Unread
  BY <1>1 DEF Unasked, Elements
<1> QED BY <1>2, <1>3 DEF ReadUpTo

----
(* What was found, service by service *)

\* Operations whose failure may hide a control.
Excuses(control) ==
    Decides(control) \cup {"collect", "scan", "assume-role", "verify-target", "external-id"}

\* A finding of a control and resource was made.
Names(f, control, resource) == \E y \in f.findings : y.control = control /\ y.resource = resource

\* Findings are of services that have been judged, one to a subject; they have
\* what settings that did not change have, and at least its severity.
JudgedTrue(f, done, t, a, x) ==
    \A y \in f.findings :
       /\ \E service \in done : Judges(service, y.control, y.resource)
       /\ y.severity \in DOMAIN Rank
       /\ \A z \in f.findings : z.control = y.control /\ z.resource = y.resource => z = y
       /\ t.changes = 0 => /\ Holds(t.estate[a], x, y.control, y.resource)
                           /\ AtLeast(y.severity, Severity(t.estate[a], x, y.control, y.resource))

\* What an unchanged account has of a service is found, but for an error that excuses it.
Found(f, service, t, a, x, control, resource) ==
    \/ \E y \in f.findings : /\ y.control = control /\ y.resource = resource
                             /\ y.severity = Severity(t.estate[a], x, control, resource)
    \/ \E e \in f.errors : Relevant(e, service) /\ e.operation \in Excuses(control)

\* A service that was judged has all its findings, but for what an error excuses.
JudgedFully(f, service, t, a, x) ==
    t.changes = 0 =>
       \A control, resource :
          Judges(service, control, resource) /\ Holds(t.estate[a], x, control, resource)
             => Found(f, service, t, a, x, control, resource)

\* A mark that held throughout is found, but for an error of its service.
JudgedHeld(f, service, t, a, x) ==
    \A control, resource :
       Judges(service, control, resource) /\ MarkOf(control, resource, a, x) \in t.held
          => Names(f, control, resource) \/ \E e \in f.errors : Relevant(e, service)

\* What is known of the findings of the services that are done.
JudgedAt(f, done, t, a, x) ==
    /\ JudgedTrue(f, done, t, a, x)
    /\ \A service \in done : JudgedFully(f, service, t, a, x) /\ JudgedHeld(f, service, t, a, x)

\* Errors beside it take nothing away.
LEMMA JudgedKept ==
    ASSUME NEW f, NEW q, NEW done, NEW t, NEW a, NEW x, JudgedAt(f, done, t, a, x),
           q.findings = f.findings,
           \A e \in f.errors : \A service \in done : Relevant(e, service) => e \in q.errors
    PROVE  JudgedAt(q, done, t, a, x)
<1>1. JudgedTrue(q, done, t, a, x)
  BY DEF JudgedAt, JudgedTrue
<1>2. ASSUME NEW service \in done PROVE JudgedFully(q, service, t, a, x)
  <2>1. JudgedFully(f, service, t, a, x)
    BY DEF JudgedAt
  <2>2. \A e \in f.errors : Relevant(e, service) => e \in q.errors
    OBVIOUS
  <2>3. \A control, resource :
           Found(f, service, t, a, x, control, resource)
              => Found(q, service, t, a, x, control, resource)
    BY <2>2 DEF Found
  <2> QED BY <2>1, <2>3 DEF JudgedFully
<1>3. ASSUME NEW service \in done PROVE JudgedHeld(q, service, t, a, x)
  <2>1. JudgedHeld(f, service, t, a, x)
    BY DEF JudgedAt
  <2> QED BY <2>1 DEF JudgedHeld, Names
<1> QED BY <1>1, <1>2, <1>3 DEF JudgedAt

\* A service with an error of its own that excuses everything has been accounted for.
LEMMA JudgedLost ==
    ASSUME NEW f, NEW done, NEW service, NEW t, NEW a, NEW x, JudgedAt(f, done, t, a, x),
           NEW e \in f.errors, Relevant(e, service), e.operation \in {"collect", "scan"}
    PROVE  JudgedAt(f, done \cup {service}, t, a, x)
<1>1. \A control : e.operation \in Excuses(control)
  BY DEF Excuses
<1>2. \A control, resource : Found(f, service, t, a, x, control, resource)
  BY <1>1 DEF Found
<1>3. JudgedFully(f, service, t, a, x)
  BY <1>2 DEF JudgedFully
<1>4. JudgedHeld(f, service, t, a, x)
  BY DEF JudgedHeld
<1>5. JudgedTrue(f, done \cup {service}, t, a, x)
  BY DEF JudgedAt, JudgedTrue
<1> QED BY <1>3, <1>4, <1>5 DEF JudgedAt

\* The rules' verdict on a view.
LEMMA EvaluateOf ==
    ASSUME NEW service \in ThreeServices, NEW v, NEW y
    PROVE  /\ y \in Evaluate(service, v) =>
                 /\ Judges(service, y.control, y.resource) /\ Says(v, y.control, y.resource)
                 /\ y = Reported(v, y.control, y.resource)
                 /\ y.severity = Gives(v, y.control, y.resource)
<1> SUFFICES ASSUME y \in Evaluate(service, v)
             PROVE  /\ Judges(service, y.control, y.resource) /\ Says(v, y.control, y.resource)
                    /\ y = Reported(v, y.control, y.resource)
                    /\ y.severity = Gives(v, y.control, y.resource)
  OBVIOUS
<1>1. PICK control, resource : Judges(service, control, resource) /\ Tells(v, control, resource, y)
  BY EvaluateSays
<1>2. y.control = control /\ y.resource = resource /\ y.severity = Gives(v, control, resource)
  BY <1>1 DEF Tells, Reported, Finding
<1> QED BY <1>1, <1>2 DEF Tells

\* What a view says of a subject is among the findings.
LEMMA EvaluateHas ==
    ASSUME NEW service \in ThreeServices, NEW v, NEW control, NEW resource,
           Judges(service, control, resource), Says(v, control, resource)
    PROVE  \E y \in Evaluate(service, v) :
              y.control = control /\ y.resource = resource
                 /\ y.severity = Gives(v, control, resource)
<1> DEFINE y == Reported(v, control, resource)
<1>1. y.control = control /\ y.resource = resource /\ y.severity = Gives(v, control, resource)
  BY DEF Reported, Finding
<1>2. Tells(v, control, resource, y)
  BY DEF Tells
<1> HIDE DEF y
<1>3. y \in Evaluate(service, v)
  BY <1>2, EvaluateSays
<1> QED BY <1>1, <1>3

\* A service is judged on what was read of it.
LEMMA JudgedMore ==
    ASSUME NEW f, NEW q, NEW done, NEW service \in Elements(Services) \cap ThreeServices, NEW t,
           NEW a,
           NEW x \in Elements(Regions), NEW v, service \notin done,
           JudgedAt(f, done, t, a, x), AllEntries(v, f.errors, service, t, a, x),
           q.findings = f.findings \cup Evaluate(service, v), q.errors = f.errors
    PROVE  JudgedAt(q, done \cup {service}, t, a, x)
<1> DEFINE new == Evaluate(service, v)
<1>1. \A y \in new : /\ Judges(service, y.control, y.resource) /\ Says(v, y.control, y.resource)
                     /\ y = Reported(v, y.control, y.resource)
                     /\ y.severity = Gives(v, y.control, y.resource)
  BY EvaluateOf
<1>2. ASSUME NEW control, NEW resource, Judges(service, control, resource),
             Says(v, control, resource)
      PROVE  \E y \in new : y.control = control /\ y.resource = resource
                /\ y.severity = Gives(v, control, resource)
  BY <1>2, EvaluateHas
<1> HIDE DEF new
<1>3. q.findings = f.findings \cup new
  BY DEF new
<1>4. JudgedTrue(f, done, t, a, x)
  BY DEF JudgedAt
<1>5. ASSUME NEW y \in f.findings, NEW z \in new PROVE ~(z.control = y.control /\ z.resource = y.resource)
  <2>1. PICK other \in done : Judges(other, y.control, y.resource)
    BY <1>4 DEF JudgedTrue
  <2>2. ServiceOf(y.control) = other
    BY <2>1, JudgesIs
  <2>3. ServiceOf(z.control) = service
    BY <1>1, JudgesIs
  <2> QED BY <2>1, <2>2, <2>3
<1>6. ASSUME NEW y \in f.findings
      PROVE  /\ \E s \in done \cup {service} : Judges(s, y.control, y.resource)
             /\ y.severity \in DOMAIN Rank
             /\ \A z \in q.findings : z.control = y.control /\ z.resource = y.resource => z = y
             /\ t.changes = 0 => /\ Holds(t.estate[a], x, y.control, y.resource)
                                 /\ AtLeast(y.severity, Severity(t.estate[a], x, y.control, y.resource))
  <2>1. \A z \in q.findings : z.control = y.control /\ z.resource = y.resource => z = y
    BY <1>3, <1>4, <1>5 DEF JudgedTrue
  <2> QED BY <1>4, <2>1 DEF JudgedTrue
<1>7. ASSUME NEW y \in new
      PROVE  /\ \E s \in done \cup {service} : Judges(s, y.control, y.resource)
             /\ y.severity \in DOMAIN Rank
             /\ \A z \in q.findings : z.control = y.control /\ z.resource = y.resource => z = y
             /\ t.changes = 0 => /\ Holds(t.estate[a], x, y.control, y.resource)
                                 /\ AtLeast(y.severity, Severity(t.estate[a], x, y.control, y.resource))
  <2>1. \A z \in new : z.control = y.control /\ z.resource = y.resource => z = y
    BY <1>1
  <2>2. \A z \in q.findings : z.control = y.control /\ z.resource = y.resource => z = y
    BY <1>3, <1>5, <2>1
  <2>3. y.severity \in DOMAIN Rank
    BY <1>1, GivesRank, AtLeastIs
  <2>4. t.changes = 0 => /\ Holds(t.estate[a], x, y.control, y.resource)
                         /\ AtLeast(y.severity, Severity(t.estate[a], x, y.control, y.resource))
    BY <1>1, Sound
  <2> QED BY <1>1, <2>2, <2>3, <2>4
<1>8. JudgedTrue(q, done \cup {service}, t, a, x)
  BY <1>3, <1>6, <1>7 DEF JudgedTrue
<1>9. ASSUME NEW s \in done PROVE JudgedFully(q, s, t, a, x) /\ JudgedHeld(q, s, t, a, x)
  <2>1. JudgedFully(f, s, t, a, x) /\ JudgedHeld(f, s, t, a, x)
    BY DEF JudgedAt
  <2>2. \A control, resource : Found(f, s, t, a, x, control, resource)
           => Found(q, s, t, a, x, control, resource)
    BY <1>3 DEF Found
  <2>3. JudgedFully(q, s, t, a, x)
    BY <2>1, <2>2 DEF JudgedFully
  <2>4. JudgedHeld(q, s, t, a, x)
    BY <1>3, <2>1 DEF JudgedHeld, Names
  <2> QED BY <2>3, <2>4
<1>10. JudgedFully(q, service, t, a, x)
  <2> SUFFICES ASSUME t.changes = 0, NEW control, NEW resource, Judges(service, control, resource),
                      Holds(t.estate[a], x, control, resource)
               PROVE  Found(q, service, t, a, x, control, resource)
    BY DEF JudgedFully
  <2>1. CASE \A c \in Decides(control) : v[c] # Failed
    <3>1. /\ Says(v, control, resource)
          /\ Gives(v, control, resource) = Severity(t.estate[a], x, control, resource)
      BY <2>1, Complete
    <3> QED BY <1>2, <1>3, <3>1 DEF Found
  <2>2. CASE \E c \in Decides(control) : v[c] = Failed
    <3>1. PICK c \in Decides(control) : v[c] = Failed
      BY <2>2
    <3>2. Entry(v, f.errors, service, c, t, a, x)
      BY DecidesIs DEF AllEntries
    <3>3. PICK e \in f.errors : e.operation = c /\ e.service = service
      BY <3>1, <3>2, NoneApart DEF Entry
    <3> QED BY <3>3 DEF Found, Relevant, Excuses
  <2> QED BY <2>1, <2>2
<1>11. JudgedHeld(q, service, t, a, x)
  <2> SUFFICES ASSUME NEW control, NEW resource, Judges(service, control, resource),
                      MarkOf(control, resource, a, x) \in t.held
               PROVE  Names(q, control, resource) \/ \E e \in q.errors : Relevant(e, service)
    BY DEF JudgedHeld
  <2>1. CASE \A c \in Elements(Calls(service)) : v[c] # Failed
    <3>1. Says(v, control, resource)
      BY <2>1, HeldSaid
    <3> QED BY <1>2, <1>3, <3>1 DEF Names
  <2>2. CASE \E c \in Elements(Calls(service)) : v[c] = Failed
    <3>1. PICK c \in Elements(Calls(service)) : v[c] = Failed
      BY <2>2
    <3>2. Entry(v, f.errors, service, c, t, a, x)
      BY DEF AllEntries
    <3>3. PICK e \in f.errors : e.operation = c /\ e.service = service
      BY <3>1, <3>2, NoneApart DEF Entry
    <3> QED BY <3>3 DEF Relevant
  <2> QED BY <2>1, <2>2
<1> QED BY <1>8, <1>9, <1>10, <1>11 DEF JudgedAt

\* The accounts have settings, and what held throughout still holds.
FactInv ==
    /\ estate \in [Elements(Accounts) -> Settings] /\ changes \in Nat
    /\ \A m \in held : \E h \in HoldingAll(estate) : h.mark = m

\* What was read and found in the scope is what the accounts say.
ReadInv ==
    /\ at = "call" =>
          /\ ReadUpTo(view, found.errors, Service, here.call, Truth, Account, Region)
          /\ Made(view, Calls(Service)[here.call])
    /\ at = "judge" => AllEntries(view, found.errors, Service, Truth, Account, Region)
    /\ Reading => JudgedAt(found, Elements(here.scope) \ Elements(here.left), Truth, Account, Region)

\* An error of a scope excuses that a control is not reported.
Excused(errors, control, s) == \E e \in errors : Concerns(errors, e, s)
   /\ e.operation \in Excuses(control)

\* What is reported is so, and no less severe than it is,
ToldTrue(r, t) ==
    t.changes = 0 =>
       \A m \in Marks : r.findings[m] # None =>
          \E h \in HoldingAll(t.estate) : h.mark = m /\ AtLeast(r.findings[m], h.severity)

\* what is so is reported in covered scopes, or excused,
ToldFully(r, t) ==
    t.changes = 0 =>
       \A h \in HoldingAll(t.estate) : r.coverage[ScopeOfMark[h.mark]] # <<>> =>
          r.findings[h.mark] = h.severity \/ Excused(r.errors, h.control, ScopeOfMark[h.mark])

\* and what held throughout is reported, or its scope incomplete.
ToldHeld(r, t) ==
    \A m \in t.held : r.coverage[ScopeOfMark[m]] # <<>> =>
       r.findings[m] # None \/ FALSE \in Elements(r.coverage[ScopeOfMark[m]])

\* What the report says of the scopes it covers is what the accounts say.
Told(r, t) == ToldTrue(r, t) /\ ToldFully(r, t) /\ ToldHeld(r, t)

\* The place after a step.
LEMMA FieldsAfter ==
    ASSUME NEW k, NEW i, NEW scope, NEW left, NEW call, NEW g,
           here' = Place(k, i, scope, left, call, g)
    PROVE  /\ Account' = Accounts[k] /\ Region' = Regions[i] /\ Service' = Head(left)
           /\ here'.scope = scope /\ here'.left = left /\ here'.call = call
<1>1. here'.account = k /\ here'.region = i /\ here'.left = left /\ here'.scope = scope
         /\ here'.call = call
  BY PlaceIs
<1> QED BY <1>1 DEF Account, Region, Service

\* The reading invariant from its parts.
LEMMA ReadsOn ==
    ASSUME NEW k, NEW i, NEW scope, NEW left, NEW call, NEW g,
           here' = Place(k, i, scope, left, call, g),
           at' \in {"call", "judge", "close"},
           JudgedAt(found', Elements(scope) \ Elements(left), Truth', Accounts[k], Regions[i]),
           at' = "call" =>
              /\ ReadUpTo(view', found'.errors, Head(left), call, Truth', Accounts[k], Regions[i])
              /\ Made(view', Calls(Head(left))[call]),
           at' = "judge" => AllEntries(view', found'.errors, Head(left), Truth', Accounts[k], Regions[i])
    PROVE  ReadInv'
<1>1. /\ Account' = Accounts[k] /\ Region' = Regions[i] /\ Service' = Head(left)
      /\ here'.scope = scope /\ here'.left = left /\ here'.call = call
  BY FieldsAfter
<1>2. JudgedAt(found', Elements(here'.scope) \ Elements(here'.left), Truth', Account', Region')
  BY <1>1
<1>3. at' = "call" => /\ ReadUpTo(view', found'.errors, Service', here'.call, Truth', Account', Region')
                      /\ Made(view', Calls(Service')[here'.call])
  BY <1>1
<1>4. at' = "judge" => AllEntries(view', found'.errors, Service', Truth', Account', Region')
  BY <1>1
<1> QED BY <1>2, <1>3, <1>4 DEF ReadInv

\* A scope's services are done one by one.
LEMMA DoneNext ==
    ASSUME NEW scope \in {<<"iam", "s3">>, <<"iam">>, <<"s3">>, <<"cloudtrail">>},
           NEW left \in Lefts(scope), NEW l,
           \/ left = <<"iam", "s3">> /\ l = <<"s3">>
           \/ left # <<"iam", "s3">> /\ l = <<>>
    PROVE  /\ Elements(scope) \ Elements(l) = (Elements(scope) \ Elements(left)) \cup {Head(left)}
           /\ Head(left) \notin Elements(scope) \ Elements(left)
<1>1. CASE scope = <<"iam", "s3">>
  <2>1. Elements(scope) = {"iam", "s3"}
    BY <1>1, ElementsOf
  <2>2. CASE left = <<"iam", "s3">>
    <3>1. Elements(left) = {"iam", "s3"} /\ Head(left) = "iam" /\ Elements(l) = {"s3"}
      BY <2>2, ElementsOf
    <3> QED BY <2>1, <3>1
  <2>3. CASE left # <<"iam", "s3">>
    <3>1. left = <<"s3">>
      BY <1>1, <2>3 DEF Lefts
    <3>2. Elements(left) = {"s3"} /\ Head(left) = "s3" /\ Elements(l) = {}
      BY <2>3, <3>1, ElementsOf
    <3> QED BY <2>1, <3>2
  <2> QED BY <2>2, <2>3
<1>2. CASE scope # <<"iam", "s3">>
  <2>1. left = scope
    BY <1>2 DEF Lefts
  <2>2. l = <<>>
    BY <1>2, <2>1
  <2>3. PICK v \in ThreeServices : scope = <<v>>
    BY <1>2 DEF ThreeServices
  <2>4. Elements(scope) = {v} /\ Elements(l) = {} /\ Head(left) = v
    BY <2>1, <2>2, <2>3, ElementsOf
  <2> QED BY <2>1, <2>4
<1> QED BY <1>1, <1>2

\* What a moment's settings are, they may have been read at.
LEMMA SeenNow ==
    ASSUME FactInv, NEW a \in Elements(Accounts), NEW x \in Elements(Regions)
    PROVE  Seen(estate[a], Truth, a, x)
<1>1. Truth.estate = estate /\ Truth.changes = changes /\ Truth.held = held
  BY DEF Truth
<1>2. estate[a] \in Settings
  BY DEF FactInv
<1>3. ASSUME NEW service \in Elements(Services), NEW control, NEW resource,
             Judges(service, control, resource), MarkOf(control, resource, a, x) \in held
      PROVE  Holds(estate[a], x, control, resource)
  <2>1. PICK h \in HoldingAll(estate) : h.mark = MarkOf(control, resource, a, x)
    BY <1>3 DEF FactInv
  <2>2. PICK b \in Elements(Accounts), y \in Elements(Regions) : h \in Holding(estate[b], b, y)
    BY HoldingAllIs
  <2>3. PICK other, d, q :
           other \in Elements(Services) /\ Judges(other, d, q) /\ Holds(estate[b], y, d, q)
              /\ h = Item(estate[b], b, y, d, q)
    BY <2>2, HoldingIs
  <2>4. MarkOf(control, resource, a, x) = MarkOf(d, q, b, y)
    BY <2>1, <2>3 DEF Item
  <2>5. resource \in Resources /\ q \in Resources
    BY <1>3, <2>3, JudgesResources
  <2>6. /\ control = d /\ resource = q /\ a = b
        /\ Scope(a, ServiceOf(control), x).region = Scope(b, ServiceOf(d), y).region
    BY <2>4, <2>5, MarksApart
  <2>7. CASE service = "cloudtrail"
    <3>1. ServiceOf(control) = "cloudtrail" /\ ServiceOf(d) = "cloudtrail"
      BY <1>3, <2>6, <2>7, JudgesIs
    <3>2. x = y
      BY <2>6, <3>1 DEF Scope
    <3> QED BY <2>3, <2>6, <3>2
  <2>8. CASE service # "cloudtrail"
    <3>1. service \in {"iam", "s3"}
      BY <1>3, <2>8, JudgesIs DEF ThreeServices
    <3> QED BY <1>3, <2>3, <2>6, <3>1, SameEverywhere
  <2> QED BY <2>7, <2>8
<1> QED BY <1>1, <1>2, <1>3 DEF Seen

\* The steps of a scan change nothing in the accounts.
LEMMA TruthKept ==
    ASSUME PlaceInv,
           ResolveExternalId \/ OpenSession \/ ReadCall \/ CollectorCrash \/ Judge \/ RuleCrash
              \/ CloseScope
    PROVE  Truth' = Truth
BY ScanKeepsLock DEF Truth

\* The parts of an error.
LEMMA ErrorIs ==
    ASSUME NEW operation, NEW service, NEW region
    PROVE  /\ Error(operation, service, region).operation = operation
           /\ Error(operation, service, region).service = service
           /\ Error(operation, service, region).account = Account
           /\ Error(operation, service, region).region = region
BY DEF Error

\* A call is answered by what the account is, or fails.
LEMMA ReadsCall ==
    ASSUME PlaceInv, ScanInv, FactInv, ReadInv, ReadCall
    PROVE  ReadInv'
<1>1. PICK k, i, scope, left, call, g :
        /\ InScope(k, i, scope, left, call, g) /\ left \in Lefts(scope)
        /\ call \in DOMAIN Calls(Head(left))
        /\ Fields(k, i, scope, left, call, g) /\ Service = Head(left)
        /\ Outcomes(Head(left), Calls(Head(left))[call])
        /\ GoesOn(k, i, scope, left, call, g)
        /\ report' = report
  BY ReadDoes
<1> DEFINE service == Head(left)
           c == Calls(service)[call]
           a == Accounts[k]
           x == Regions[i]
<1>2. at = "call" /\ Truth' = Truth
  BY TruthKept DEF ReadCall
<1>3. service \in ThreeServices
  BY <1>1, KnownServices DEF InScope
<1>4. a \in Elements(Accounts) /\ x \in Elements(Regions)
  BY <1>1, ListsOf DEF InScope
<1>5. here.call = call /\ here.scope = scope /\ here.left = left /\ Account = a /\ Region = x
  BY <1>1 DEF Fields
<1>6. ReadUpTo(view, found.errors, service, call, Truth, a, x) /\ Made(view, c)
  BY <1>1, <1>2, <1>5 DEF ReadInv
<1>7. JudgedAt(found, Elements(scope) \ Elements(left), Truth, a, x)
  BY <1>2, <1>5 DEF ReadInv, Reading
<1>8. DOMAIN view = Elements(Calls(service))
  BY <1>1, <1>2 DEF PlaceInv
<1>9. DOMAIN found = {"findings", "errors"}
  BY <1>2 DEF ScanInv, Reading, ReadingAt, FoundAt
<1>10. PICK outcome \in {Answer(estate[a], x, c), Failed} :
         /\ found' = IF outcome = Failed THEN [found EXCEPT !.errors = @ \cup {Error(c, service, ScopeRegion)}]
                     ELSE found
         /\ view' = [view EXCEPT ![c] = outcome]
  BY <1>1, <1>5 DEF Outcomes
<1>11. PICK next \in call + 1 .. Len(Calls(service)) + 1 :
         /\ next <= Len(Calls(service)) => Made(view', Calls(service)[next])
         /\ \A j \in call + 1 .. next - 1 : ~Made(view', Calls(service)[j])
         /\ \/ next > Len(Calls(service)) /\ at' = "judge" /\ here' = Place(k, i, scope, left, 0, g)
            \/ next <= Len(Calls(service)) /\ at' = "call"
                  /\ here' = Place(k, i, scope, left, next, g)
  BY <1>1 DEF GoesOn
<1>12. Seen(estate[a], Truth, a, x)
  BY <1>4, SeenNow
<1>13. call \in DOMAIN Calls(service)
  BY <1>1
<1> DEFINE error == Error(c, service, ScopeRegion)
<1>14. error.operation = c /\ error.service = service
  BY ErrorIs
<1> HIDE DEF service, a, x, error
<1>15. /\ found'.findings = found.findings /\ found.errors \subseteq found'.errors
       /\ outcome = Failed => error \in found'.errors
  <2>1. CASE outcome = Failed
    <3>1. found' = [found EXCEPT !.errors = @ \cup {error}]
      BY <1>10, <2>1 DEF error
    <3>2. found'.errors = found.errors \cup {error}
      BY <1>9, <3>1
    <3>3. found'.findings = found.findings
      BY <1>9, <3>1
    <3> QED BY <3>2, <3>3
  <2>2. CASE outcome # Failed
    BY <1>10, <2>2
  <2> QED BY <2>1, <2>2
<1>16. \/ outcome = Failed /\ \E e \in found'.errors : e.operation = c /\ e.service = service
       \/ outcome # Failed /\ \E settings : Seen(settings, Truth, a, x)
             /\ outcome = Answer(settings, x, c)
  BY <1>10, <1>12, <1>14, <1>15
<1>17. ReadUpTo(view', found'.errors, service, next, Truth, a, x)
  BY <1>3, <1>6, <1>8, <1>10, <1>11, <1>13, <1>15, <1>16, ReadNext
<1>18. JudgedAt(found', Elements(scope) \ Elements(left), Truth', a, x)
  BY <1>2, <1>7, <1>15, JudgedKept
<1>19. CASE next > Len(Calls(service)) /\ at' = "judge" /\ here' = Place(k, i, scope, left, 0, g)
  <2>1. next = Len(Calls(service)) + 1
    BY <1>3, <1>11, <1>13, <1>19, CallsOf
  <2>2. AllEntries(view', found'.errors, service, Truth', a, x)
    BY <1>2, <1>3, <1>17, <2>1, ReadAll
  <2> QED BY <1>18, <1>19, <2>2, ReadsOn DEF service, a, x
<1>20. CASE next <= Len(Calls(service)) /\ at' = "call" /\ here' = Place(k, i, scope, left, next, g)
  <2>1. /\ ReadUpTo(view', found'.errors, service, next, Truth', a, x)
        /\ Made(view', Calls(service)[next])
    BY <1>2, <1>11, <1>17, <1>20
  <2> QED BY <1>18, <1>20, <2>1, ReadsOn DEF service, a, x
<1> QED BY <1>11, <1>19, <1>20

\* What is read next, or nothing.
LEMMA ReadsAdvance ==
    ASSUME NEW k, NEW i, NEW scope, NEW left, NEW call, NEW g, InScope(k, i, scope, left, call, g),
           left \in Lefts(scope), Advances(k, i, scope, left, g),
           JudgedAt(found', (Elements(scope) \ Elements(left)) \cup {Head(left)}, Truth', Accounts[k], Regions[i])
    PROVE  ReadInv'
<1>1. scope \in {<<"iam", "s3">>, <<"iam">>, <<"s3">>, <<"cloudtrail">>}
  BY KnownServices DEF InScope
<1>2. CASE left = <<"iam", "s3">>
  <2>1. at' = "call" /\ here' = Place(k, i, scope, <<"s3">>, 1, g) /\ view' = Unasked("s3")
    BY <1>2 DEF Advances
  <2>2. JudgedAt(found', Elements(scope) \ Elements(<<"s3">>), Truth', Accounts[k], Regions[i])
    BY <1>1, <1>2, DoneNext
  <2>3. Head(<<"s3">>) = "s3" /\ "s3" \in ThreeServices
    BY DEF ThreeServices
  <2>4. /\ ReadUpTo(view', found'.errors, "s3", 1, Truth', Accounts[k], Regions[i])
        /\ Made(view', Calls("s3")[1])
    BY <2>1, <2>3, NothingRead
  <2> QED BY <2>1, <2>2, <2>3, <2>4, ReadsOn
<1>3. CASE left # <<"iam", "s3">>
  <2>1. at' = "close" /\ here' = Place(k, i, scope, <<>>, 0, g)
    BY <1>3 DEF Advances
  <2>2. JudgedAt(found', Elements(scope) \ Elements(<<>>), Truth', Accounts[k], Regions[i])
    BY <1>1, <1>3, DoneNext
  <2> QED BY <2>1, <2>2, ReadsOn
<1> QED BY <1>2, <1>3

\* A collector that breaks off, and a service that is judged.
LEMMA ReadsService ==
    ASSUME PlaceInv, ScanInv, ReadInv, CollectorCrash \/ Judge
    PROVE  ReadInv'
<1>1. PICK k, i, scope, left, call, g :
        /\ InScope(k, i, scope, left, call, g) /\ left \in Lefts(scope)
        /\ Fields(k, i, scope, left, call, g) /\ Service = Head(left)
        /\ Advances(k, i, scope, left, g)
        /\ report' = report
  BY ServiceDoes
<1> DEFINE service == Head(left)
           a == Accounts[k]
           x == Regions[i]
           done == Elements(scope) \ Elements(left)
<1>2. Truth' = Truth /\ Reading
  BY TruthKept DEF CollectorCrash, Judge, Reading
<1>3. here.scope = scope /\ here.left = left /\ Account = a /\ Region = x
  BY <1>1 DEF Fields
<1>4. JudgedAt(found, done, Truth, a, x)
  BY <1>2, <1>3 DEF ReadInv
<1>5. /\ scope \in {<<"iam", "s3">>, <<"iam">>, <<"s3">>, <<"cloudtrail">>}
      /\ service \in ThreeServices
  BY <1>1, KnownServices DEF InScope
<1>6. service \notin done
  <2>1. CASE left = <<"iam", "s3">>
    BY <1>1, <1>5, <2>1, DoneNext
  <2>2. CASE left # <<"iam", "s3">>
    BY <1>1, <1>5, <2>2, DoneNext
  <2> QED BY <2>1, <2>2
<1>7. \A e \in found.errors : FoundError(e, k, i, scope)
  BY <1>1, <1>2 DEF ScanInv, ReadingAt, FoundAt, Fields
<1>8. DOMAIN found = {"findings", "errors"}
  BY <1>2 DEF ScanInv, ReadingAt, FoundAt
<1>9. x \in Elements(Regions)
  BY <1>1, ListsOf DEF InScope
<1>10. service \in Elements(Services)
  <2>1. service \in Elements(scope)
    BY <1>1, ScopeReadIs
  <2>2. CASE scope = <<"cloudtrail">>
    <3>1. "cloudtrail" \in Elements(Services)
      BY <1>1, <2>2 DEF InScope, ScansTrails
    <3> QED BY <2>1, <2>2, <3>1, ElementsOf
  <2>3. CASE scope = GlobalServices
    BY <2>1, <2>3, ServicesOf
  <2> QED BY <1>1, <2>2, <2>3 DEF InScope
<1>11. JudgedAt(found', done \cup {service}, Truth, a, x)
  <2>1. CASE CollectorCrash
    <3> DEFINE error == Error("collect", service, ScopeRegion)
               Others == {e \in found.errors : e.service # service}
    <3>1. error.operation = "collect" /\ error.service = service
      BY ErrorIs
    <3>2. found' = [found EXCEPT !.errors = {e \in @ : e.service # service} \cup {error}]
      BY <1>1, <2>1 DEF CollectorCrash
    <3> HIDE DEF error, service
    <3>3. found'.errors = Others \cup {error}
      BY <1>8, <3>2
    <3>4. found'.findings = found.findings
      BY <1>8, <3>2
    <3>5. ASSUME NEW e \in found.errors, NEW other \in done,
                 Relevant(e, other) PROVE e \in found'.errors
      <4>1. FoundError(e, k, i, scope)
        BY <1>7
      <4>2. service # "AWS"
        BY <1>5 DEF ThreeServices
      <4>3. e.service # service
        BY <1>6, <3>5, <4>1, <4>2 DEF Relevant, FoundError
      <4> QED BY <3>3, <4>3
    <3>6. JudgedAt(found', done, Truth, a, x)
      BY <1>4, <3>4, <3>5, JudgedKept
    <3>7. error \in found'.errors /\ Relevant(error, service)
      BY <3>1, <3>3 DEF Relevant
    <3> QED BY <3>1, <3>6, <3>7, JudgedLost
  <2>2. CASE Judge
    <3> DEFINE more == Evaluate(service, view)
    <3>1. found' = [found EXCEPT !.findings = @ \cup more]
      BY <1>1, <2>2 DEF Judge
    <3>2. AllEntries(view, found.errors, service, Truth, a, x)
      BY <1>1, <1>3, <2>2 DEF Judge, ReadInv
    <3> HIDE DEF more
    <3>3. found'.findings = found.findings \cup more
      BY <1>8, <3>1
    <3>4. found'.errors = found.errors
      BY <1>8, <3>1
    <3>5. found'.findings = found.findings \cup Evaluate(service, view)
      BY <3>3 DEF more
    <3> HIDE DEF service, done, a, x
    <3> QED BY <1>4, <1>5, <1>6, <1>9, <1>10, <3>2, <3>4, <3>5, JudgedMore
  <2> QED BY <2>1, <2>2
<1>12. JudgedAt(found', done \cup {service}, Truth', a, x)
  BY <1>2, <1>11
<1> QED BY <1>1, <1>12, ReadsAdvance

\* A rule crash leaves the scope's error and nothing else.
LEMMA JudgedCrash ==
    ASSUME NEW f, f.findings = {}, NEW e \in f.errors, e.operation = "scan",
           NEW done, NEW t, NEW a, NEW x
    PROVE  JudgedAt(f, done, t, a, x)
<1>1. JudgedTrue(f, done, t, a, x)
  BY DEF JudgedTrue
<1>2. \A service : Relevant(e, service)
  BY DEF Relevant
<1>3. \A control : e.operation \in Excuses(control)
  BY DEF Excuses
<1>4. \A service \in done : JudgedFully(f, service, t, a, x)
  BY <1>2, <1>3 DEF JudgedFully, Found
<1>5. \A service \in done : JudgedHeld(f, service, t, a, x)
  BY <1>2 DEF JudgedHeld
<1> QED BY <1>1, <1>4, <1>5 DEF JudgedAt

\* Nothing has been judged in the beginning.
LEMMA JudgedNone ==
    ASSUME NEW t, NEW a, NEW x
    PROVE  JudgedAt(NothingFound, {}, t, a, x)
<1>1. NothingFound.findings = {}
  BY DEF NothingFound
<1> QED BY <1>1 DEF JudgedAt, JudgedTrue

\* Between scopes there is nothing to say of what was read.
LEMMA NotReading ==
    ASSUME at' \notin {"call", "judge", "close"}
    PROVE  ReadInv'
BY DEF ReadInv, Reading

\* A scope begins with nothing read and nothing found.
LEMMA ReadsOpened ==
    ASSUME NEW k, NEW i, NEW scope \in {GlobalServices, <<"cloudtrail">>} \ {<<>>}, NEW g,
           at' = "call", here' = Place(k, i, scope, scope, 1, g),
           view' = Unasked(Head(scope)), found' = NothingFound
    PROVE  ReadInv'
<1>1. scope \in Lefts(scope) /\ Head(scope) \in ThreeServices
  <2>1. scope \in Lefts(scope)
    BY DEF Lefts
  <2> QED BY <2>1, KnownServices
<1>2. Elements(scope) \ Elements(scope) = {}
  OBVIOUS
<1>3. JudgedAt(found', Elements(scope) \ Elements(scope), Truth', Accounts[k], Regions[i])
  BY <1>2, JudgedNone
<1>4. ReadUpTo(view', found'.errors, Head(scope), 1, Truth', Accounts[k], Regions[i])
  BY <1>1, NothingRead
<1>5. Made(view', Calls(Head(scope))[1])
  BY <1>1, NothingRead
<1>6. at' # "judge"
  OBVIOUS
<1> QED BY <1>3, <1>4, <1>5, <1>6, ReadsOn

\* A rule that raises.
LEMMA ReadsCrash ==
    ASSUME PlaceInv, RuleCrash
    PROVE  ReadInv'
<1>1. PICK k, i, scope, left, call, g :
         /\ InScope(k, i, scope, left, call, g) /\ left \in Lefts(scope)
         /\ Fields(k, i, scope, left, call, g)
         /\ at' = "close" /\ here' = Place(k, i, scope, <<>>, 0, g) /\ view' = <<>>
         /\ report' = report
  BY RuleCrashDoes
<1> DEFINE error == Error("scan", "AWS", ScopeRegion)
<1>2. found' = [findings |-> {}, errors |-> {error}]
  BY DEF RuleCrash
<1>3. error.operation = "scan"
  BY ErrorIs
<1> HIDE DEF error
<1>4. found'.findings = {} /\ error \in found'.errors
  BY <1>2
<1>5. JudgedAt(found', Elements(scope) \ Elements(<<>>), Truth', Accounts[k], Regions[i])
  BY <1>3, <1>4, JudgedCrash
<1>6. at' = "close" /\ here' = Place(k, i, scope, <<>>, 0, g)
  BY <1>1
<1> QED BY <1>5, <1>6, ReadsOn

\* An account ends.
LEMMA AccountEndsReads ==
    ASSUME NEW k, NEW r, AccountEnds(k, r)
    PROVE  ReadInv'
<1>1. at' \in {"account", "record"}
  BY DEF AccountEnds
<1> QED BY <1>1, NotReading

\* A region ends.
LEMMA RegionEndsReads ==
    ASSUME NEW k, NEW i, NEW g, NEW r, RegionEnds(k, i, g, r)
    PROVE  ReadInv'
<1>1. CASE at' = "session"
  BY <1>1, NotReading
<1>2. CASE \E q : AccountEnds(k, q)
  BY <1>2, AccountEndsReads
<1> QED BY <1>1, <1>2 DEF RegionEnds

\* A session opens.
LEMMA ReadsOpenSession ==
    ASSUME PlaceInv, OpenSession
    PROVE  ReadInv'
<1>1. PICK k \in DOMAIN Accounts, i \in DOMAIN Regions, g \in {"due", "read"} :
         /\ ScansTrails \/ Pending(g)
         /\ \/ SessionOpens(k, i, g)
            \/ \E operation \in {"assume-role", "verify-target"} :
                  RegionEnds(k, i, g, RefusedReport(k, i, operation)) /\ UNCHANGED <<view, found>>
  BY SessionDoes
<1>2. CASE SessionOpens(k, i, g)
  <2>1. PICK scope \in {GlobalServices, <<"cloudtrail">>}, h \in {"due", "read"} :
           /\ IF Pending(g) THEN scope = GlobalServices /\ h = "read" ELSE scope = <<"cloudtrail">> /\ h = g
           /\ at' = "call" /\ here' = Place(k, i, scope, scope, 1, h)
           /\ view' = Unasked(Head(scope)) /\ found' = NothingFound /\ report' = report
    BY <1>2 DEF SessionOpens
  <2>2. scope # <<>>
    BY <2>1 DEF Pending
  <2>3. scope \in {GlobalServices, <<"cloudtrail">>} \ {<<>>}
    BY <2>2
  <2> QED BY <2>1, <2>3, ReadsOpened
<1>3. CASE \E q : RegionEnds(k, i, g, q)
  BY <1>3, RegionEndsReads
<1> QED BY <1>1, <1>2, <1>3

\* A scope closes, and the trails are read after it.
LEMMA ReadsClose ==
    ASSUME PlaceInv, CloseScope
    PROVE  ReadInv'
<1>1. PICK k, i, scope, call, g :
         \/ /\ at' = "call" /\ here' = Place(k, i, <<"cloudtrail">>, <<"cloudtrail">>, 1, "read")
            /\ view' = Unasked("cloudtrail") /\ found' = NothingFound
         \/ RegionEnds(k, i, g, Collected)
  BY CloseDoes
<1>2. CASE RegionEnds(k, i, g, Collected)
  BY <1>2, RegionEndsReads
<1>3. CASE /\ at' = "call" /\ here' = Place(k, i, <<"cloudtrail">>, <<"cloudtrail">>, 1, "read")
           /\ view' = Unasked("cloudtrail") /\ found' = NothingFound
  <2>1. Head(<<"cloudtrail">>) = "cloudtrail" /\ <<"cloudtrail">> # <<>>
    OBVIOUS
  <2>2. <<"cloudtrail">> \in {GlobalServices, <<"cloudtrail">>} \ {<<>>}
    BY <2>1
  <2>3. view' = Unasked(Head(<<"cloudtrail">>))
    BY <1>3, <2>1
  <2> QED BY <1>3, <2>2, <2>3, ReadsOpened
<1> QED BY <1>1, <1>2, <1>3

\* A step of the scan reads what the accounts say.
LEMMA ReadsStep ==
    ASSUME PlaceInv, ScanInv, FactInv, ReadInv,
           ResolveExternalId \/ OpenSession \/ ReadCall \/ CollectorCrash \/ Judge \/ RuleCrash
              \/ CloseScope
    PROVE  ReadInv'
<1>1. CASE ResolveExternalId
  <2>1. PICK k \in DOMAIN Accounts : at' = "session" \/ \E r : AccountEnds(k, r)
    BY <1>1, ResolveDoes
  <2>2. CASE at' = "session"
    BY <2>2, NotReading
  <2>3. CASE \E r : AccountEnds(k, r)
    BY <2>3, AccountEndsReads
  <2> QED BY <2>1, <2>2, <2>3
<1> QED BY <1>1, ReadsOpenSession, ReadsCall, ReadsService, ReadsCrash, ReadsClose

----
(* What the report tells of the scopes it covers *)

\* A mark that an account has is one of the fleet's marks.
LEMMA HoldingMarks ==
    ASSUME NEW estates, NEW h \in HoldingAll(estates)
    PROVE  \E a \in Elements(Accounts), x \in Elements(Regions), service \in Elements(Services) :
              \E control, resource :
                 /\ Judges(service, control, resource) /\ Holds(estates[a], x, control, resource)
                 /\ h = Item(estates[a], a, x, control, resource)
                 /\ h.mark = MarkOf(control, resource, a, x) /\ h.control = control
                 /\ h.mark \in Marks /\ ScopeOfMark[h.mark] = Scope(a, service, x)
                 /\ ScopeOfMark[h.mark] \in FleetScopes
<1>1. PICK a \in Elements(Accounts), x \in Elements(Regions) : h \in Holding(estates[a], a, x)
  BY HoldingAllIs
<1>2. PICK service \in Elements(Services) : \E control, resource :
         /\ Judges(service, control, resource) /\ Holds(estates[a], x, control, resource)
         /\ h = Item(estates[a], a, x, control, resource)
  BY <1>1, HoldingIs
<1>3. PICK control, resource :
         /\ Judges(service, control, resource) /\ Holds(estates[a], x, control, resource)
         /\ h = Item(estates[a], a, x, control, resource)
  BY <1>2
<1>4. h.mark = MarkOf(control, resource, a, x) /\ h.control = control
  BY <1>3 DEF Item
<1>5. /\ MarkOf(control, resource, a, x) \in Marks
      /\ ScopeOfMark[MarkOf(control, resource, a, x)] = Scope(a, service, x)
  BY <1>1, <1>2, <1>3, MarkIn
<1>6. ScopeOfMark[h.mark] \in FleetScopes
  BY <1>4, <1>5, MarkScopes
<1> QED BY <1>1, <1>2, <1>3, <1>4, <1>5, <1>6

\* What held throughout still holds.
Facts(t) == \A m \in t.held : \E h \in HoldingAll(t.estate) : h.mark = m

\* What held throughout are marks of the fleet.
LEMMA HeldMarks ==
    ASSUME NEW t, Facts(t), NEW m \in t.held
    PROVE  m \in Marks /\ ScopeOfMark[m] \in FleetScopes
<1>1. PICK h \in HoldingAll(t.estate) : h.mark = m
  BY DEF Facts
<1> QED BY <1>1, HoldingMarks

\* More errors excuse more.
LEMMA ExcusedGrows ==
    ASSUME NEW E, NEW F, E \subseteq F, NEW control, NEW s, Excused(E, control, s)
    PROVE  Excused(F, control, s)
<1>1. PICK e \in E : Concerns(E, e, s) /\ e.operation \in Excuses(control)
  BY DEF Excused
<1>2. \A a, x : Refused(E, a, x) => Refused(F, a, x)
  BY DEF Refused
<1>3. Concerns(F, e, s)
  BY <1>1, <1>2 DEF Concerns
<1> QED BY <1>1, <1>3 DEF Excused

\* The coverage of a scope after entries are added.
LEMMA EnteredIs ==
    ASSUME NEW coverage, NEW entries, NEW s \in FleetScopes
    PROVE  Entered(coverage, entries)[s] =
              IF s \in DOMAIN entries THEN Append(coverage[s], entries[s]) ELSE coverage[s]
BY DEF Entered

\* Scopes that are given up with an error that excuses them.
GivesUp(r, q, D) ==
    /\ q.findings = r.findings /\ r.errors \subseteq q.errors
    /\ q.coverage = Entered(r.coverage, Incomplete(D))
    /\ \A s \in D : r.coverage[s] = <<>> /\ \A control : Excused(q.errors, control, s)

\* Scopes given up with an excuse leave the report true.
LEMMA ToldGivesUp ==
    ASSUME NEW r, NEW q, NEW t, NEW D, Told(r, t), Facts(t), GivesUp(r, q, D)
    PROVE  Told(q, t)
<1>1. ToldTrue(q, t)
  BY DEF Told, ToldTrue, GivesUp
<1>2. ASSUME NEW s \in FleetScopes, s \notin D PROVE q.coverage[s] = r.coverage[s]
  BY <1>2, EnteredIs DEF GivesUp, Incomplete
<1>3. ASSUME NEW s \in FleetScopes, s \in D PROVE FALSE \in Elements(q.coverage[s])
  <2>0. Incomplete(D)[s] = FALSE /\ s \in DOMAIN Incomplete(D) /\ r.coverage[s] = <<>>
    BY <1>3 DEF GivesUp, Incomplete
  <2>1. q.coverage[s] = Append(<<>>, FALSE)
    BY <2>0, EnteredIs DEF GivesUp
  <2>2. q.coverage[s] = <<FALSE>>
    BY <2>1
  <2> QED BY <2>2, ElementsOf
<1>4. ToldFully(q, t)
  <2> SUFFICES ASSUME t.changes = 0, NEW h \in HoldingAll(t.estate),
                      q.coverage[ScopeOfMark[h.mark]] # <<>>
               PROVE  q.findings[h.mark] = h.severity
                         \/ Excused(q.errors, h.control, ScopeOfMark[h.mark])
    BY DEF ToldFully
  <2>1. ScopeOfMark[h.mark] \in FleetScopes
    BY HoldingMarks
  <2>2. CASE ScopeOfMark[h.mark] \in D
    BY <2>2 DEF GivesUp
  <2>3. CASE ScopeOfMark[h.mark] \notin D
    <3>1. r.findings[h.mark] = h.severity \/ Excused(r.errors, h.control, ScopeOfMark[h.mark])
      BY <1>2, <2>1, <2>3 DEF Told, ToldFully
    <3>2. r.errors \subseteq q.errors /\ q.findings = r.findings
      BY DEF GivesUp
    <3> QED BY <3>1, <3>2, ExcusedGrows
  <2> QED BY <2>2, <2>3
<1>5. ToldHeld(q, t)
  <2> SUFFICES ASSUME NEW m \in t.held, q.coverage[ScopeOfMark[m]] # <<>>
               PROVE  q.findings[m] # None \/ FALSE \in Elements(q.coverage[ScopeOfMark[m]])
    BY DEF ToldHeld
  <2>1. ScopeOfMark[m] \in FleetScopes
    BY HeldMarks
  <2>2. CASE ScopeOfMark[m] \in D
    BY <1>3, <2>1, <2>2
  <2>3. CASE ScopeOfMark[m] \notin D
    <3>1. q.coverage[ScopeOfMark[m]] = r.coverage[ScopeOfMark[m]] /\ q.findings = r.findings
      BY <1>2, <2>1, <2>3 DEF GivesUp
    <3> QED BY <3>1 DEF Told, ToldHeld
  <2> QED BY <2>2, <2>3
<1> QED BY <1>1, <1>4, <1>5 DEF Told

\* resolve_external_id failed.
LEMMA ToldOfAccount ==
    ASSUME NEW k \in DOMAIN Accounts, ReportAt(report, k, 0, "due"), Account = Accounts[k],
           NEW t, Told(report, t), Facts(t)
    PROVE  Told([report EXCEPT
                   !.errors = @ \cup {Error("external-id", "AWS Account", None)},
                   !.coverage = Entered(@, Incomplete(ScopesOf(Accounts[k])))], t)
<1> DEFINE error == Error("external-id", "AWS Account", None)
           E == report.errors \cup {error}
           D == ScopesOf(Accounts[k])
           C == Entered(report.coverage, Incomplete(D))
           q == Extends(report, E, C)
<1>0. error.operation = "external-id" /\ error.account = Accounts[k]
  BY DEF Error
<1> HIDE DEF error
<1>1. q = [report EXCEPT !.errors = @ \cup {error}, !.coverage = Entered(@, Incomplete(D))]
  BY DEF Extends, ReportAt, IsAReport
<1> HIDE DEF E, C
<1>2. q.errors = E /\ q.coverage = C /\ q.findings = report.findings
  BY Extended DEF ReportAt
<1> HIDE DEF q
<1>3. ASSUME NEW s \in D PROVE report.coverage[s] = <<>>
  <2>1. k \in Nat /\ ~(k < k)
    BY ListsOf
  <2>2. ~Behind(k, s, k, 0, "due")
    BY <2>1 DEF Behind
  <2>3. Blank(report, s)
    BY <2>2 DEF ReportAt, Covers
  <2> QED BY <2>3 DEF Blank
<1>4. ASSUME NEW s \in D, NEW control PROVE Excused(E, control, s)
  <2>1. s.account = Accounts[k]
    BY ScopesAre
  <2>2. error \in E /\ Concerns(E, error, s)
    BY <1>0, <2>1 DEF E, Concerns
  <2>3. error.operation \in Excuses(control)
    BY <1>0 DEF Excuses
  <2> QED BY <2>2, <2>3 DEF Excused
<1>5. report.errors \subseteq E
  BY DEF E
<1>6. GivesUp(report, q, D)
  BY <1>2, <1>3, <1>4, <1>5 DEF GivesUp, C
<1>7. Told(q, t)
  BY <1>6, ToldGivesUp
<1> QED BY <1>1, <1>7 DEF error

\* The role was refused in region i.
LEMMA ToldOfRefusal ==
    ASSUME NEW k \in DOMAIN Accounts, NEW i \in DOMAIN Regions, NEW g,
           ReportAt(report, k, i - 1, g), Account = Accounts[k],
           NEW operation \in {"assume-role", "verify-target"}, NEW t, Told(report, t), Facts(t)
    PROVE  Told(RefusedReport(k, i, operation), t)
<1> DEFINE error == Error(operation, "AWS Account", Regions[i])
           E == report.errors \cup {error}
           D == TrailScope(k, i)
           C == Entered(report.coverage, Incomplete(D))
           q == Extends(report, E, C)
<1>0. /\ error.operation = operation /\ error.account = Accounts[k]
      /\ error.service = "AWS Account" /\ error.region = Regions[i]
  BY DEF Error
<1> HIDE DEF error
<1>1. q = RefusedReport(k, i, operation)
  BY DEF Extends, ReportAt, IsAReport, RefusedReport, TrailScope, error
<1> HIDE DEF E, C
<1>2. q.errors = E /\ q.coverage = C /\ q.findings = report.findings
  BY Extended DEF ReportAt
<1> HIDE DEF q
<1>3. ASSUME NEW s \in D PROVE report.coverage[s] = <<>>
  <2>1. i - 1 \in Nat /\ i \in Nat /\ i = (i - 1) + 1 /\ i <= Len(Regions)
    BY RegionBefore
  <2>2. ~Behind(k, s, k, i - 1, g)
    BY <2>1, TrailMoves
  <2>3. s \in ScopesOf(Accounts[k])
    BY TrailScopeIs
  <2>4. Blank(report, s)
    BY <2>2, <2>3 DEF ReportAt, Covers
  <2> QED BY <2>4 DEF Blank
<1>4. ASSUME NEW s \in D, NEW control PROVE Excused(E, control, s)
  <2>1. s.account = Accounts[k] /\ s.region = Regions[i]
    BY TrailScopeIs
  <2>2. error \in E /\ Concerns(E, error, s)
    BY <1>0, <2>1 DEF E, Concerns
  <2>3. error.operation \in Excuses(control)
    BY <1>0 DEF Excuses
  <2> QED BY <2>2, <2>3 DEF Excused
<1>5. report.errors \subseteq E
  BY DEF E
<1>6. GivesUp(report, q, D)
  BY <1>2, <1>3, <1>4, <1>5 DEF GivesUp, C
<1>7. Told(q, t)
  BY <1>6, ToldGivesUp
<1> QED BY <1>1, <1>7

\* No session of the account could be had.
LEMMA ToldOfNoSession ==
    ASSUME NEW r, NEW k \in DOMAIN Accounts, NEW i \in DOMAIN Regions, i = Len(Regions),
           ReportAt(r, k, i, "due"), SessionAt(r, k, i, "due"), Pending("due"),
           NEW t, Told(r, t), Facts(t)
    PROVE  Told(GivenUp(r, k, i), t)
<1> DEFINE D == GlobalScopes(k, i)
           C == Entered(r.coverage, Incomplete(D))
           q == GivenUp(r, k, i)
<1>1. q = [r EXCEPT !.coverage = C]
  BY DEF GivenUp, GlobalScopes
<1> HIDE DEF C, q
<1>2. q.errors = r.errors /\ q.coverage = C /\ q.findings = r.findings
  BY <1>1 DEF ReportAt, IsAReport
<1>3. ASSUME NEW s \in D PROVE r.coverage[s] = <<>>
  <2>1. ~Behind(k, s, k, i, "due")
    BY GlobalMoves
  <2>2. s \in ScopesOf(Accounts[k])
    BY GlobalScopesAre
  <2>3. Blank(r, s)
    BY <2>1, <2>2 DEF ReportAt, Covers
  <2> QED BY <2>3 DEF Blank
<1>4. ASSUME NEW s \in D, NEW control PROVE Excused(q.errors, control, s)
  <2>1. s.account = Accounts[k] /\ s.region = "aws-global"
    BY GlobalScopesAre
  <2>2. \A j \in 1 .. i : Refused(r.errors, Accounts[k], Regions[j])
    BY DEF SessionAt, Pending
  <2>3. \A x \in Elements(Regions) : Refused(r.errors, Accounts[k], x)
    BY <2>2, ListsOf DEF Elements
  <2>4. Refused(r.errors, Accounts[k], Regions[i])
    BY <2>3, ListsOf
  <2>5. PICK e \in r.errors : e.service = "AWS Account" /\ e.account = Accounts[k]
    BY <2>4 DEF Refused
  <2>6. Reached(e, k, i, "due")
    BY DEF ReportAt, Placed
  <2>7. PlacedIn(e, i, "due")
    BY <2>5, <2>6, ErrorsOfAccount
  <2>8. e.operation \in {"assume-role", "verify-target"}
    BY <2>5, <2>7 DEF PlacedIn
  <2>9. e.operation \in Excuses(control)
    BY <2>8 DEF Excuses
  <2>10. Concerns(r.errors, e, s)
    BY <2>1, <2>3, <2>5 DEF Concerns
  <2> QED BY <1>2, <2>9, <2>10 DEF Excused
<1>5. GivesUp(r, q, D)
  BY <1>2, <1>3, <1>4 DEF GivesUp, C
<1>6. Told(q, t)
  BY <1>5, ToldGivesUp
<1> QED BY <1>6 DEF q

\* The parts of a scope.
LEMMA ScopeIs ==
    ASSUME NEW a, NEW service, NEW x
    PROVE  /\ Scope(a, service, x).account = a /\ Scope(a, service, x).service = service
           /\ Scope(a, service, x).region = IF service = "cloudtrail" THEN x ELSE "aws-global"
BY DEF Scope

\* A subject of one of the scopes just read is the one that was judged there.
LEMMA SubjectHere ==
    ASSUME NEW k, NEW i, NEW scope, NEW service \in Elements(Services), NEW control, NEW resource,
           Judges(service, control, resource), NEW b, NEW y,
           Scope(b, service, y) \in ScopesRead(k, i, scope)
    PROVE  /\ b = Accounts[k] /\ service \in Elements(scope)
           /\ MarkOf(control, resource, b, y) = MarkOf(control, resource, Accounts[k], Regions[i])
           /\ \A settings :
                 /\ Holds(settings, y, control, resource)
                       <=> Holds(settings, Regions[i], control, resource)
                 /\ Severity(settings, y, control, resource) = Severity(settings, Regions[i], control, resource)
<1>1. PICK v \in Elements(scope) : Scope(b, service, y) = Scope(Accounts[k], v, Regions[i])
  BY DEF ScopesRead
<1>2. b = Accounts[k] /\ service = v
  BY <1>1, ScopeIs
<1>3. Scope(b, service, y).region = Scope(Accounts[k], service, Regions[i]).region
  BY <1>1, <1>2
<1>4. ServiceOf(control) = service /\ service \in ThreeServices
  BY JudgesIs
<1>5. MarkOf(control, resource, b, y) = MarkOf(control, resource, Accounts[k], Regions[i])
  BY <1>2, <1>3, <1>4 DEF MarkOf, Mark
<1>6. ASSUME NEW settings
      PROVE  /\ Holds(settings, y, control, resource)
                   <=> Holds(settings, Regions[i], control, resource)
             /\ Severity(settings, y, control, resource) = Severity(settings, Regions[i], control, resource)
  <2>1. CASE service = "cloudtrail"
    <3>1. y = Regions[i]
      BY <1>3, <2>1, ScopeIs
    <3> QED BY <3>1
  <2>2. CASE service \in {"iam", "s3"}
    BY <2>2, SameEverywhere
  <2> QED BY <1>4, <2>1, <2>2 DEF ThreeServices
<1> QED BY <1>1, <1>2, <1>5, <1>6

\* The findings of a scope with their marks, in region i of account k.
MarkedAt(k, i) == {[mark |-> Mark(f, Accounts[k], Regions[i]), severity |-> f.severity] : f \in found.findings}

\* Within an account and region a mark tells its subject.
LEMMA MarkTellsSubject ==
    ASSUME NEW c, NEW r \in Resources, NEW d, NEW q \in Resources, NEW a, NEW x,
           MarkOf(c, r, a, x) = MarkOf(d, q, a, x)
    PROVE  c = d /\ r = q
<1>1. c = d
  BY MarkOfIs
<1>2. r # None /\ q # None
  BY NoneApart
<1>3. MarkOf(c, r, a, x).identity = [resource_reference |-> r]
  BY <1>2 DEF MarkOf, Mark, Fingerprint, Identity
<1>4. MarkOf(d, q, a, x).identity = [resource_reference |-> q]
  BY <1>2 DEF MarkOf, Mark, Fingerprint, Identity
<1>5. [resource_reference |-> r].resource_reference = [resource_reference |-> q].resource_reference
  BY <1>3, <1>4
<1>6. r = q
  BY <1>5
<1> QED BY <1>1, <1>6

\* A mark and severity come from a finding of a service that is done.
MadeOf(mark, severity, k, i, done) ==
    \E y \in found.findings, service \in done :
       /\ Judges(service, y.control, y.resource)
       /\ mark = MarkOf(y.control, y.resource, Accounts[k], Regions[i]) /\ severity = y.severity

\* Marked findings are findings of services that were judged.
LEMMA MarkedIs ==
    ASSUME NEW k, NEW i, NEW done, NEW t, JudgedTrue(found, done, t, Accounts[k], Regions[i]),
           NEW p \in MarkedAt(k, i)
    PROVE  MadeOf(p.mark, p.severity, k, i, done)
<1>1. PICK y \in found.findings :
         p = [mark |-> Mark(y, Accounts[k], Regions[i]), severity |-> y.severity]
  BY DEF MarkedAt
<1>2. PICK service \in done : Judges(service, y.control, y.resource)
  BY DEF JudgedTrue
<1>3. p.mark = MarkOf(y.control, y.resource, Accounts[k], Regions[i]) /\ p.severity = y.severity
  BY <1>1, MarkOfFinding
<1> QED BY <1>2, <1>3 DEF MadeOf

\* What was found of a subject is what the report gets for its mark.
LEMMA FindingTold ==
    ASSUME NEW k, NEW i, NEW done, NEW t, JudgedTrue(found, done, t, Accounts[k], Regions[i]),
           NEW y \in found.findings, MarkOf(y.control, y.resource, Accounts[k], Regions[i]) \in Marks
    PROVE  FindingsWith(MarkedAt(k, i))[MarkOf(y.control, y.resource, Accounts[k], Regions[i])] = y.severity
<1> DEFINE m == MarkOf(y.control, y.resource, Accounts[k], Regions[i])
           marked == MarkedAt(k, i)
<1>1. PICK service \in done : Judges(service, y.control, y.resource)
  BY DEF JudgedTrue
<1>2. [mark |-> Mark(y, Accounts[k], Regions[i]), severity |-> y.severity] \in marked
  BY DEF MarkedAt
<1>3. \E p \in marked : p.mark = m
  BY <1>2, MarkOfFinding
<1>4. ASSUME NEW p \in marked, p.mark = m PROVE p.severity = y.severity
  <2>1. PICK z \in found.findings, other \in done :
           /\ Judges(other, z.control, z.resource)
           /\ p.mark = MarkOf(z.control, z.resource, Accounts[k], Regions[i])
                 /\ p.severity = z.severity
    <3>1. MadeOf(p.mark, p.severity, k, i, done)
      BY <1>4, MarkedIs
    <3> QED BY <3>1 DEF MadeOf
  <2>2. y.resource \in Resources /\ z.resource \in Resources
    BY <1>1, <2>1, JudgesResources
  <2>3. z.control = y.control /\ z.resource = y.resource
    <3> DEFINE c == y.control
               r == y.resource
               d == z.control
               q == z.resource
               a == Accounts[k]
               x == Regions[i]
    <3>1. MarkOf(c, r, a, x) = MarkOf(d, q, a, x) /\ r \in Resources /\ q \in Resources
      BY <1>4, <2>1, <2>2
    <3> HIDE DEF m, marked, c, r, d, q, a, x
    <3>2. c = d
      BY <3>1, MarkTellsSubject
    <3>3. r = q
      BY <3>1, MarkTellsSubject
    <3> QED BY <3>2, <3>3 DEF c, r, d, q
  <2>4. z = y
    BY <2>3 DEF JudgedTrue
  <2> QED BY <2>1, <2>4
<1> HIDE DEF marked, m
<1>5. (CHOOSE p \in marked : p.mark = m) \in marked /\ (CHOOSE p \in marked : p.mark = m).mark = m
  BY <1>3
<1>6. (CHOOSE p \in marked : p.mark = m).severity = y.severity
  BY <1>4, <1>5
<1>7. m \in Marks
  BY DEF m
<1>8. FindingsWith(marked)[m] = y.severity
  BY <1>3, <1>6, <1>7 DEF FindingsWith
<1> QED BY <1>8 DEF m, marked

\* Reported marks are of findings, or were reported before.
LEMMA ToldOfFinding ==
    ASSUME NEW k, NEW i, NEW done, NEW t, JudgedTrue(found, done, t, Accounts[k], Regions[i]),
           NEW m \in Marks
    PROVE  \/ FindingsWith(MarkedAt(k, i))[m] = report.findings[m]
           \/ MadeOf(m, FindingsWith(MarkedAt(k, i))[m], k, i, done)
<1> DEFINE marked == MarkedAt(k, i)
<1>1. CASE \E p \in marked : p.mark = m
  <2>1. PICK p \in marked : p.mark = m
    BY <1>1
  <2>2. PICK y \in found.findings, service \in done :
           Judges(service, y.control, y.resource) /\ p.mark = MarkOf(y.control, y.resource, Accounts[k], Regions[i])
    <3>1. MadeOf(p.mark, p.severity, k, i, done)
      BY <2>1, MarkedIs
    <3> QED BY <3>1 DEF MadeOf
  <2>3. m = MarkOf(y.control, y.resource, Accounts[k], Regions[i])
    BY <2>1, <2>2
  <2>4. FindingsWith(marked)[m] = y.severity
    BY <2>3, FindingTold
  <2> QED BY <2>2, <2>3, <2>4 DEF MadeOf
<1>2. CASE ~\E p \in marked : p.mark = m
  <2> HIDE DEF marked
  <2>1. FindingsWith(marked)[m] = report.findings[m]
    BY <1>2 DEF FindingsWith
  <2> QED BY <2>1 DEF marked
<1> QED BY <1>1, <1>2

\* A scope whose services have been judged, where the report tells nothing of them yet.
Closing(k, i, scope, t) ==
    /\ \A s \in ScopesRead(k, i, scope) : report.coverage[s] = <<>> /\ s.region = RegionOf(scope, i)
    /\ FoundAt(found, k, i, scope) /\ Elements(scope) \subseteq Elements(Services)
    /\ JudgedAt(found, Elements(scope), t, Accounts[k], Regions[i])

\* The report that the scope ends in.
Collects(q, k, i, scope) ==
    /\ q.findings = FindingsWith(MarkedAt(k, i))
    /\ q.errors = report.errors \cup found.errors
    /\ q.coverage = Entered(report.coverage, EntriesFor(ScopesRead(k, i, scope)))

\* The coverage of other scopes stays what it was.
LEMMA CoverageOfOthers ==
    ASSUME NEW q, NEW k, NEW i, NEW scope, Collects(q, k, i, scope),
           NEW s \in FleetScopes, s \notin ScopesRead(k, i, scope)
    PROVE  q.coverage[s] = report.coverage[s]
BY EnteredIs DEF Collects, EntriesFor

\* A scope of a service with an error is incomplete.
LEMMA CoverageOfRead ==
    ASSUME NEW q, NEW k, NEW i, NEW scope, NEW t, Collects(q, k, i, scope), Closing(k, i, scope, t),
           NEW s \in FleetScopes, s \in ScopesRead(k, i, scope),
           NEW e \in found.errors, Relevant(e, s.service)
    PROVE  FALSE \in Elements(q.coverage[s])
<1> DEFINE entries == EntriesFor(ScopesRead(k, i, scope))
<1>1. s \in DOMAIN entries
  BY DEF EntriesFor
<1>2. entries[s] = FALSE
  BY DEF EntriesFor
<1>3. report.coverage[s] = <<>>
  BY DEF Closing
<1> HIDE DEF entries
<1>4. q.coverage[s] = Append(<<>>, FALSE)
  BY <1>1, <1>2, <1>3, EnteredIs DEF Collects, entries
<1>5. q.coverage[s] = <<FALSE>>
  BY <1>4
<1> QED BY <1>5, ElementsOf

\* Marks outside of the scope keep what was reported of them.
LEMMA FindingsOfOthers ==
    ASSUME NEW q, NEW k \in DOMAIN Accounts, NEW i \in DOMAIN Regions, NEW scope, NEW t,
           Collects(q, k, i, scope), Closing(k, i, scope, t),
           NEW m \in Marks, ScopeOfMark[m] \notin ScopesRead(k, i, scope)
    PROVE  q.findings[m] = report.findings[m]
<1>1. JudgedTrue(found, Elements(scope), t, Accounts[k], Regions[i])
  BY DEF Closing, JudgedAt
<1>2. ASSUME MadeOf(m, FindingsWith(MarkedAt(k, i))[m], k, i, Elements(scope)) PROVE FALSE
  <2>1. PICK y \in found.findings, service \in Elements(scope) :
           Judges(service, y.control, y.resource) /\ m = MarkOf(y.control, y.resource, Accounts[k], Regions[i])
    BY <1>2 DEF MadeOf
  <2>2. service \in Elements(Services)
    BY DEF Closing
  <2>3. Accounts[k] \in Elements(Accounts) /\ Regions[i] \in Elements(Regions)
    BY ListsOf
  <2>4. ScopeOfMark[m] = Scope(Accounts[k], service, Regions[i])
    BY <2>1, <2>2, <2>3, MarkIn
  <2>5. ScopeOfMark[m] \in ScopesRead(k, i, scope)
    BY <2>4 DEF ScopesRead
  <2> QED BY <2>5
<1>3. FindingsWith(MarkedAt(k, i))[m] = report.findings[m]
  BY <1>1, <1>2, ToldOfFinding
<1> QED BY <1>3 DEF Collects

\* What the report says after a scope has ended in it: of what is not so, nothing;
LEMMA CollectedTrue ==
    ASSUME NEW q, NEW k \in DOMAIN Accounts, NEW i \in DOMAIN Regions, NEW scope, NEW t,
           Collects(q, k, i, scope), Closing(k, i, scope, t), ToldTrue(report, t)
    PROVE  ToldTrue(q, t)
<1> DEFINE a == Accounts[k]
           x == Regions[i]
<1> SUFFICES ASSUME t.changes = 0, NEW m \in Marks, q.findings[m] # None
             PROVE  \E h \in HoldingAll(t.estate) : h.mark = m /\ AtLeast(q.findings[m], h.severity)
  BY DEF ToldTrue
<1>1. JudgedTrue(found, Elements(scope), t, a, x)
  BY DEF Closing, JudgedAt
<1>2. CASE q.findings[m] = report.findings[m]
  BY <1>2 DEF ToldTrue
<1>3. CASE MadeOf(m, q.findings[m], k, i, Elements(scope))
  <2>1. PICK y \in found.findings, service \in Elements(scope) :
           /\ Judges(service, y.control, y.resource) /\ m = MarkOf(y.control, y.resource, a, x)
           /\ q.findings[m] = y.severity
    BY <1>3 DEF MadeOf
  <2> DEFINE h == Item(t.estate[a], a, x, y.control, y.resource)
  <2>2. Holds(t.estate[a], x, y.control, y.resource)
           /\ AtLeast(y.severity, Severity(t.estate[a], x, y.control, y.resource))
    BY <1>1 DEF JudgedTrue
  <2>3. h.mark = m /\ h.severity = Severity(t.estate[a], x, y.control, y.resource)
    BY <2>1 DEF Item
  <2>4. service \in Elements(Services) /\ a \in Elements(Accounts) /\ x \in Elements(Regions)
    BY ListsOf DEF Closing
  <2>5. h \in Holding(t.estate[a], a, x)
    BY <2>1, <2>2, <2>4, HoldingIs
  <2>6. h \in HoldingAll(t.estate)
    BY <2>4, <2>5, HoldingAllIs
  <2> QED BY <2>1, <2>2, <2>3, <2>6
<1>4. q.findings[m] = report.findings[m] \/ MadeOf(m, q.findings[m], k, i, Elements(scope))
  BY <1>1, ToldOfFinding DEF Collects
<1> QED BY <1>2, <1>3, <1>4

\* An error that was found concerns the scopes of its service.
LEMMA FoundConcerns ==
    ASSUME NEW E, NEW k, NEW i, NEW scope, NEW e, FoundError(e, k, i, scope),
           NEW s, s.account = Accounts[k], s.region = RegionOf(scope, i), Relevant(e, s.service)
    PROVE  Concerns(E, e, s)
<1>1. e.account = s.account /\ e.region = s.region
  BY DEF FoundError
<1>2. e.service \in {s.service, "AWS"}
  BY DEF FoundError, Relevant
<1> QED BY <1>1, <1>2 DEF Concerns

\* of what is so, everything, but for what an error excuses;
LEMMA CollectedFully ==
    ASSUME NEW q, NEW k \in DOMAIN Accounts, NEW i \in DOMAIN Regions, NEW scope, NEW t,
           Collects(q, k, i, scope), Closing(k, i, scope, t), ToldFully(report, t)
    PROVE  ToldFully(q, t)
<1> DEFINE a == Accounts[k]
           x == Regions[i]
<1> SUFFICES ASSUME t.changes = 0, NEW h \in HoldingAll(t.estate),
                    q.coverage[ScopeOfMark[h.mark]] # <<>>
             PROVE  q.findings[h.mark] = h.severity
                       \/ Excused(q.errors, h.control, ScopeOfMark[h.mark])
  BY DEF ToldFully
<1>1. PICK b \in Elements(Accounts), y \in Elements(Regions), service \in Elements(Services) :
         \E control, resource :
            /\ Judges(service, control, resource) /\ Holds(t.estate[b], y, control, resource)
            /\ h = Item(t.estate[b], b, y, control, resource)
            /\ h.mark = MarkOf(control, resource, b, y) /\ h.control = control
            /\ h.mark \in Marks /\ ScopeOfMark[h.mark] = Scope(b, service, y)
            /\ ScopeOfMark[h.mark] \in FleetScopes
  BY HoldingMarks
<1>2. PICK control, resource :
         /\ Judges(service, control, resource) /\ Holds(t.estate[b], y, control, resource)
         /\ h = Item(t.estate[b], b, y, control, resource)
         /\ h.mark = MarkOf(control, resource, b, y) /\ h.control = control
         /\ h.mark \in Marks /\ ScopeOfMark[h.mark] = Scope(b, service, y)
         /\ ScopeOfMark[h.mark] \in FleetScopes
  BY <1>1
<1> DEFINE s == ScopeOfMark[h.mark]
<1>3. CASE s \notin ScopesRead(k, i, scope)
  <2>1. q.coverage[s] = report.coverage[s]
    BY <1>2, <1>3, CoverageOfOthers
  <2>2. q.findings[h.mark] = report.findings[h.mark]
    BY <1>2, <1>3, FindingsOfOthers
  <2>3. report.findings[h.mark] = h.severity \/ Excused(report.errors, h.control, s)
    BY <2>1 DEF ToldFully
  <2>4. report.errors \subseteq q.errors
    BY DEF Collects
  <2> QED BY <2>2, <2>3, <2>4, ExcusedGrows
<1>4. CASE s \in ScopesRead(k, i, scope)
  <2>1. /\ b = a /\ service \in Elements(scope)
        /\ MarkOf(control, resource, b, y) = MarkOf(control, resource, a, x)
        /\ \A settings :
              /\ Holds(settings, y, control, resource) <=> Holds(settings, x, control, resource)
              /\ Severity(settings, y, control, resource) = Severity(settings, x, control, resource)
    BY <1>1, <1>2, <1>4, SubjectHere
  <2>2. Holds(t.estate[a], x, control, resource) /\ h.severity = Severity(t.estate[a], x, control, resource)
    BY <1>2, <2>1 DEF Item
  <2>3. Found(found, service, t, a, x, control, resource)
    BY <1>2, <2>1, <2>2 DEF Closing, JudgedAt, JudgedFully
  <2>4. CASE \E z \in found.findings : /\ z.control = control /\ z.resource = resource
                                       /\ z.severity = Severity(t.estate[a], x, control, resource)
    <3>1. PICK z \in found.findings : /\ z.control = control /\ z.resource = resource
                                      /\ z.severity = Severity(t.estate[a], x, control, resource)
      BY <2>4
    <3>2. JudgedTrue(found, Elements(scope), t, a, x)
      BY DEF Closing, JudgedAt
    <3>3. MarkOf(z.control, z.resource, a, x) = h.mark
      BY <1>2, <2>1, <3>1
    <3>4. MarkOf(z.control, z.resource, a, x) \in Marks
      BY <1>2, <3>3
    <3>5. FindingsWith(MarkedAt(k, i))[h.mark] = z.severity
      <4>1. FindingsWith(MarkedAt(k, i))[MarkOf(z.control, z.resource, a, x)] = z.severity
        BY <3>2, <3>4, FindingTold
      <4> QED BY <3>3, <4>1
    <3> QED BY <2>2, <3>1, <3>5 DEF Collects
  <2>5. CASE \E e \in found.errors : Relevant(e, service) /\ e.operation \in Excuses(control)
    <3>1. PICK e \in found.errors : Relevant(e, service) /\ e.operation \in Excuses(control)
      BY <2>5
    <3>2. FoundError(e, k, i, scope)
      BY DEF Closing, FoundAt
    <3>3. s.account = Accounts[k] /\ s.service = service /\ s.region = RegionOf(scope, i)
      BY <1>2, <1>4, <2>1, ScopeIs DEF Closing
    <3>4. Concerns(q.errors, e, s)
      BY <3>1, <3>2, <3>3, FoundConcerns
    <3>5. e \in q.errors
      BY DEF Collects
    <3> QED BY <1>2, <3>1, <3>4, <3>5 DEF Excused
  <2> QED BY <2>3, <2>4, <2>5 DEF Found
<1> QED BY <1>3, <1>4

\* of what held throughout, everything, but in incomplete scopes.
LEMMA CollectedHeld ==
    ASSUME NEW q, NEW k \in DOMAIN Accounts, NEW i \in DOMAIN Regions, NEW scope, NEW t,
           Collects(q, k, i, scope), Closing(k, i, scope, t), Facts(t), ToldHeld(report, t)
    PROVE  ToldHeld(q, t)
<1> DEFINE a == Accounts[k]
           x == Regions[i]
<1> SUFFICES ASSUME NEW m \in t.held, q.coverage[ScopeOfMark[m]] # <<>>
             PROVE  q.findings[m] # None \/ FALSE \in Elements(q.coverage[ScopeOfMark[m]])
  BY DEF ToldHeld
<1>0. PICK h \in HoldingAll(t.estate) : h.mark = m
  BY DEF Facts
<1>1. PICK b \in Elements(Accounts), y \in Elements(Regions), service \in Elements(Services) :
         \E control, resource :
            /\ Judges(service, control, resource) /\ Holds(t.estate[b], y, control, resource)
            /\ h = Item(t.estate[b], b, y, control, resource)
            /\ h.mark = MarkOf(control, resource, b, y) /\ h.control = control
            /\ h.mark \in Marks /\ ScopeOfMark[h.mark] = Scope(b, service, y)
            /\ ScopeOfMark[h.mark] \in FleetScopes
  BY HoldingMarks
<1>2. PICK control, resource :
         /\ Judges(service, control, resource)
         /\ h.mark = MarkOf(control, resource, b, y) /\ h.control = control
         /\ h.mark \in Marks /\ ScopeOfMark[h.mark] = Scope(b, service, y)
         /\ ScopeOfMark[h.mark] \in FleetScopes
  BY <1>1
<1> DEFINE s == ScopeOfMark[m]
<1>3. CASE s \notin ScopesRead(k, i, scope)
  <2>1. q.coverage[s] = report.coverage[s]
    BY <1>0, <1>2, <1>3, CoverageOfOthers
  <2>2. q.findings[m] = report.findings[m]
    BY <1>0, <1>2, <1>3, FindingsOfOthers
  <2> QED BY <2>1, <2>2 DEF ToldHeld
<1>4. CASE s \in ScopesRead(k, i, scope)
  <2>1. /\ b = a /\ service \in Elements(scope)
        /\ MarkOf(control, resource, b, y) = MarkOf(control, resource, a, x)
    BY <1>0, <1>1, <1>2, <1>4, SubjectHere
  <2>2. m = MarkOf(control, resource, a, x)
    BY <1>0, <1>2, <2>1
  <2>3. Names(found, control, resource) \/ \E e \in found.errors : Relevant(e, service)
    BY <1>2, <2>1, <2>2 DEF Closing, JudgedAt, JudgedHeld
  <2>4. CASE Names(found, control, resource)
    <3>1. PICK z \in found.findings : z.control = control /\ z.resource = resource
      BY <2>4 DEF Names
    <3>2. JudgedTrue(found, Elements(scope), t, a, x)
      BY DEF Closing, JudgedAt
    <3>3. MarkOf(z.control, z.resource, a, x) = m
      BY <2>2, <3>1
    <3>4. MarkOf(z.control, z.resource, a, x) \in Marks
      BY <1>0, <1>2, <3>3
    <3>5. FindingsWith(MarkedAt(k, i))[m] = z.severity
      <4>1. FindingsWith(MarkedAt(k, i))[MarkOf(z.control, z.resource, a, x)] = z.severity
        BY <3>2, <3>4, FindingTold
      <4> QED BY <3>3, <4>1
    <3>6. z.severity # None
      BY <3>2, NoneApart DEF JudgedTrue
    <3> QED BY <3>5, <3>6 DEF Collects
  <2>5. CASE \E e \in found.errors : Relevant(e, service)
    <3>1. PICK e \in found.errors : Relevant(e, service)
      BY <2>5
    <3>2. s.service = service /\ s \in FleetScopes
      BY <1>0, <1>2, ScopeIs
    <3>3. FALSE \in Elements(q.coverage[s])
      BY <1>4, <3>1, <3>2, CoverageOfRead
    <3> QED BY <3>3
  <2> QED BY <2>3, <2>4, <2>5
<1> QED BY <1>3, <1>4

\* All of it.
LEMMA ToldOfScope ==
    ASSUME NEW q, NEW k \in DOMAIN Accounts, NEW i \in DOMAIN Regions, NEW scope, NEW t,
           Collects(q, k, i, scope), Closing(k, i, scope, t), Facts(t), Told(report, t)
    PROVE  Told(q, t)
<1>1. ToldTrue(q, t)
  BY CollectedTrue DEF Told
<1>2. ToldFully(q, t)
  BY CollectedFully DEF Told
<1>3. ToldHeld(q, t)
  BY CollectedHeld DEF Told
<1> QED BY <1>1, <1>2, <1>3 DEF Told

\* The report after an account.
LEMMA ToldAfterAccount ==
    ASSUME NEW k, NEW r, AccountEnds(k, r), NEW t, Told(r, t)
    PROVE  Told(report', t)
BY DEF AccountEnds

\* The region's report is kept, or the account's global services are given up.
LEMMA ToldAfterRegion ==
    ASSUME NEW k \in DOMAIN Accounts, NEW i \in DOMAIN Regions, NEW g \in {"due", "read"}, NEW r,
           RegionEnds(k, i, g, r), Pending(g) => ReportAt(r, k, i, g) /\ SessionAt(r, k, i, g),
           NEW t, Told(r, t), Facts(t)
    PROVE  Told(report', t)
<1>1. CASE report' = r
  BY <1>1
<1>2. CASE i = Len(Regions) /\ Pending(g) /\ AccountEnds(k, GivenUp(r, k, i))
  <2>1. g = "due"
    BY <1>2 DEF Pending
  <2>2. ReportAt(r, k, i, "due") /\ SessionAt(r, k, i, "due") /\ Pending("due")
    BY <1>2, <2>1
  <2>3. Told(GivenUp(r, k, i), t)
    BY <1>2, <2>2, ToldOfNoSession
  <2> QED BY <1>2, <2>3, ToldAfterAccount
<1>3. CASE AccountEnds(k, r)
  BY <1>3 DEF AccountEnds
<1> QED BY <1>1, <1>2, <1>3 DEF RegionEnds

\* An account is opened or given up.
LEMMA ToldResolves ==
    ASSUME PlaceInv, ScanInv, ResolveExternalId, NEW t, Told(report, t), Facts(t)
    PROVE  Told(report', t)
<1>1. PICK k \in DOMAIN Accounts :
        /\ here = StartOf(k) /\ Account = Accounts[k]
        /\ \/ at' = "session" /\ here' = Place(k, 1, <<>>, <<>>, 0, "due") /\ report' = report
           \/ AccountEnds(k, [report EXCEPT
                 !.errors = @ \cup {Error("external-id", "AWS Account", None)},
                 !.coverage = Entered(@, Incomplete(ScopesOf(Accounts[k])))])
  BY ResolveDoes
<1>2. CASE report' = report
  BY <1>2
<1>3. CASE AccountEnds(k, [report EXCEPT
              !.errors = @ \cup {Error("external-id", "AWS Account", None)},
              !.coverage = Entered(@, Incomplete(ScopesOf(Accounts[k])))])
  <2>1. here.account = k
    BY <1>1, PlaceIs DEF StartOf
  <2>2. ReportAt(report, k, 0, "due")
    BY <2>1 DEF ScanInv, ResolveExternalId
  <2>3. Told([report EXCEPT
                !.errors = @ \cup {Error("external-id", "AWS Account", None)},
                !.coverage = Entered(@, Incomplete(ScopesOf(Accounts[k])))], t)
    BY <1>1, <2>2, ToldOfAccount
  <2> QED BY <1>3, <2>3, ToldAfterAccount
<1> QED BY <1>1, <1>2, <1>3

\* A session is opened or refused.
LEMMA ToldOpens ==
    ASSUME PlaceInv, ScanInv, OpenSession, NEW t, Told(report, t), Facts(t)
    PROVE  Told(report', t)
<1>1. PICK k \in DOMAIN Accounts, i \in DOMAIN Regions, g \in {"due", "read"} :
        /\ here = Place(k, i, <<>>, <<>>, 0, g) /\ Account = Accounts[k]
        /\ \/ SessionOpens(k, i, g)
           \/ \E operation \in {"assume-role", "verify-target"} :
                 RegionEnds(k, i, g, RefusedReport(k, i, operation))
  BY SessionDoes
<1>2. here.account = k /\ here.region = i /\ here.globals = g
  BY <1>1, PlaceIs
<1>3. ReportAt(report, k, i - 1, g) /\ SessionAt(report, k, i - 1, g)
  BY <1>2 DEF ScanInv, OpenSession
<1>4. i - 1 \in Nat /\ i \in Nat /\ i = (i - 1) + 1 /\ i <= Len(Regions)
  BY RegionBefore
<1>5. ASSUME NEW operation \in {"assume-role", "verify-target"},
             RegionEnds(k, i, g, RefusedReport(k, i, operation))
      PROVE  Told(report', t)
  <2>1. /\ ReportAt(RefusedReport(k, i, operation), k, i, g)
        /\ SessionAt(RefusedReport(k, i, operation), k, i, g)
    BY <1>1, <1>3, <1>4, ReportOfRefusal
  <2>2. Told(RefusedReport(k, i, operation), t)
    BY <1>1, <1>3, ToldOfRefusal
  <2> QED BY <1>5, <2>1, <2>2, ToldAfterRegion
<1>6. CASE SessionOpens(k, i, g)
  BY <1>6 DEF SessionOpens
<1> QED BY <1>1, <1>5, <1>6

\* _collect_scope's end: the scope's findings, errors and coverage are the report's.
LEMMA ScopeCloses ==
    ASSUME PlaceInv, ScanInv, ReadInv, CloseScope
    PROVE  /\ report' = Collected
           /\ \E k, i, scope :
                 /\ k \in DOMAIN Accounts /\ i \in DOMAIN Regions
                 /\ Closing(k, i, scope, Truth) /\ Collects(Collected, k, i, scope)
<1>1. PICK k, i, scope, call, g :
        /\ InScope(k, i, scope, <<>>, call, g) /\ Fields(k, i, scope, <<>>, call, g)
        /\ \/ report' = Collected
           \/ /\ ~ScansTrails \/ scope = <<"cloudtrail">>
              /\ RegionEnds(k, i, g, Collected)
  BY CloseDoes
<1>2. ReadingAt(report, found, k, i, scope, g)
  BY <1>1 DEF ScanInv, CloseScope, Reading, Fields
<1>3. /\ k \in DOMAIN Accounts /\ i \in DOMAIN Regions /\ g \in {"due", "read"}
      /\ scope \in {GlobalServices, <<"cloudtrail">>} \ {<<>>}
      /\ scope = <<"cloudtrail">> => ScansTrails /\ ~Pending(g)
      /\ scope # <<"cloudtrail">> => g = "read"
  BY <1>1 DEF InScope
<1>4. i - 1 \in Nat /\ i \in Nat /\ i = (i - 1) + 1 /\ i <= Len(Regions)
  BY <1>3, RegionBefore
<1>5. Elements(scope) \subseteq Elements(Services)
  <2>1. CASE scope = <<"cloudtrail">>
    BY <1>3, <2>1, ElementsOf DEF ScansTrails
  <2>2. CASE scope = GlobalServices
    BY <2>2, ServicesOf
  <2> QED BY <1>3, <2>1, <2>2
<1>6. /\ IsAReport(report)
      /\ \A s \in ScopesRead(k, i, scope) : report.coverage[s] = <<>>
            /\ s.region = RegionOf(scope, i)
  <2>1. CASE scope = GlobalServices
    <3>1. ReportAt(report, k, i - 1, "due") /\ GlobalServices # <<>>
      BY <1>2, <1>3, <2>1 DEF ReadingAt
    <3>2. scope # <<"cloudtrail">>
      BY <2>1, <3>1, GlobalsAre
    <3>3. ASSUME NEW s \in ScopesRead(k, i, scope)
          PROVE  report.coverage[s] = <<>> /\ s.region = RegionOf(scope, i)
      <4>1. s \in GlobalScopes(k, i)
        BY <1>3, <2>1, ServiceScopes
      <4>2. s \in ScopesOf(Accounts[k]) /\ s.region = "aws-global"
        BY <1>3, <4>1, GlobalScopesAre
      <4>3. ~Behind(k, s, k, i - 1, "due")
        BY <1>3, <4>1, GlobalMoves
      <4>4. Blank(report, s)
        BY <1>3, <3>1, <4>2, <4>3 DEF ReportAt, Covers
      <4> QED BY <3>2, <4>2, <4>4 DEF Blank, RegionOf
    <3> QED BY <3>1, <3>3 DEF ReportAt
  <2>2. CASE scope # GlobalServices
    <3>1. scope = <<"cloudtrail">> /\ ScansTrails
      BY <1>3, <2>2
    <3>2. ReportAt(report, k, i - 1, g)
      BY <1>2, <2>2 DEF ReadingAt
    <3>3. ASSUME NEW s \in ScopesRead(k, i, scope)
          PROVE  report.coverage[s] = <<>> /\ s.region = RegionOf(scope, i)
      <4>1. s \in TrailScope(k, i)
        BY <1>3, <3>1, ServiceScopes
      <4>2. s \in ScopesOf(Accounts[k]) /\ s.region = Regions[i]
        BY <1>3, <4>1, TrailScopeIs
      <4>3. ~Behind(k, s, k, i - 1, g)
        BY <1>3, <1>4, <4>1, TrailMoves
      <4>4. Blank(report, s)
        BY <1>3, <3>2, <4>2, <4>3 DEF ReportAt, Covers
      <4> QED BY <3>1, <4>2, <4>4 DEF Blank, RegionOf
    <3> QED BY <3>2, <3>3 DEF ReportAt
  <2> QED BY <2>1, <2>2
<1>7. JudgedAt(found, Elements(scope), Truth, Accounts[k], Regions[i])
  <2>1. Elements(scope) \ Elements(<<>>) = Elements(scope)
    BY ElementsOf
  <2>2. here.scope = scope /\ here.left = <<>> /\ Account = Accounts[k] /\ Region = Regions[i]
    BY <1>1 DEF Fields
  <2>3. Reading
    BY DEF CloseScope, Reading
  <2>4. JudgedAt(found, Elements(here.scope) \ Elements(here.left), Truth, Account, Region)
    BY <2>3 DEF ReadInv
  <2> QED BY <2>1, <2>2, <2>4
<1>8. Closing(k, i, scope, Truth)
  BY <1>2, <1>5, <1>6, <1>7 DEF Closing, ReadingAt
<1>9. Collects(Collected, k, i, scope)
  <2>1. Marked = MarkedAt(k, i)
    BY <1>1 DEF Marked, MarkedAt, Fields
  <2>2. Collected.findings = FindingsWith(MarkedAt(k, i))
    BY <1>1, <1>6, <2>1, CollectedIs
  <2>3. Collected.errors = report.errors \cup found.errors
    BY <1>1, <1>6, CollectedIs
  <2>4. Collected.coverage = Entered(report.coverage, EntriesFor(ScopesRead(k, i, scope)))
    BY <1>1, <1>6, CollectedIs
  <2> QED BY <2>2, <2>3, <2>4 DEF Collects
<1>10. ~Pending(g)
  BY <1>3 DEF Pending
<1>11. report' = Collected
  BY <1>1, <1>10 DEF RegionEnds, AccountEnds
<1> QED BY <1>3, <1>8, <1>9, <1>11

\* A scope ends in the report.
LEMMA ToldCloses ==
    ASSUME PlaceInv, ScanInv, ReadInv, CloseScope, Told(report, Truth), Facts(Truth)
    PROVE  Told(report', Truth)
<1>1. PICK k, i, scope :
         /\ k \in DOMAIN Accounts /\ i \in DOMAIN Regions
         /\ Closing(k, i, scope, Truth) /\ Collects(Collected, k, i, scope)
  BY ScopeCloses
<1>2. Told(Collected, Truth)
  BY <1>1, ToldOfScope
<1>3. report' = Collected
  BY ScopeCloses
<1> QED BY <1>2, <1>3

\* The report of a scan in progress tells what is so.
LEMMA ToldStep ==
    ASSUME PlaceInv, ScanInv, FactInv, ReadInv, Told(report, Truth),
           ResolveExternalId \/ OpenSession \/ ReadCall \/ CollectorCrash \/ Judge \/ RuleCrash
              \/ CloseScope
    PROVE  Told(report', Truth')
<1>1. Truth' = Truth
  BY TruthKept
<1>2. Facts(Truth)
  BY DEF FactInv, Facts, Truth
<1>3. CASE ReadCall \/ CollectorCrash \/ Judge \/ RuleCrash
  <2>1. report' = report
    BY <1>3 DEF ReadCall, CollectorCrash, Judge, RuleCrash
  <2> QED BY <1>1, <2>1
<1>4. CASE ResolveExternalId \/ OpenSession \/ CloseScope
  BY <1>1, <1>2, <1>4, ToldResolves, ToldOpens, ToldCloses
<1> QED BY <1>3, <1>4

----
(* Accounts that change *)

\* Truth u of a moment after a change since truth t.
Later(t, u) ==
    /\ u.changes # 0 /\ u.held \subseteq t.held
    /\ \A a \in Elements(Accounts) : \A x :
          MarkOf("IAM-003", "key", a, x) \in u.held => u.estate[a].key = t.estate[a].key

\* Settings that may have been seen may have been seen after a change,
LEMMA SeenLater ==
    ASSUME NEW t, NEW u, Later(t, u), NEW a \in Elements(Accounts), NEW x, NEW settings,
           Seen(settings, t, a, x)
    PROVE  Seen(settings, u, a, x)
<1>1. settings \in Settings /\ u.changes # 0
  BY DEF Seen, Later
<1>2. ASSUME NEW service \in Elements(Services), NEW control, NEW resource,
             Judges(service, control, resource), MarkOf(control, resource, a, x) \in u.held
      PROVE  Holds(settings, x, control, resource)
  BY <1>2 DEF Seen, Later
<1>3. ASSUME MarkOf("IAM-003", "key", a, x) \in u.held PROVE settings.key = u.estate[a].key
  BY <1>3 DEF Seen, Later
<1> QED BY <1>1, <1>2, <1>3 DEF Seen

\* and so may the answers of calls.
LEMMA EntryLater ==
    ASSUME NEW t, NEW u, Later(t, u), NEW a \in Elements(Accounts), NEW x, NEW v, NEW errors,
           NEW service, NEW c,
           Entry(v, errors, service, c, t, a, x)
    PROVE  Entry(v, errors, service, c, u, a, x)
BY SeenLater DEF Entry

\* Findings that were judged stay as good as they were.
LEMMA JudgedLater ==
    ASSUME NEW t, NEW u, Later(t, u), NEW f, NEW done, NEW a, NEW x, JudgedAt(f, done, t, a, x)
    PROVE  JudgedAt(f, done, u, a, x)
<1>1. u.changes # 0 /\ u.held \subseteq t.held
  BY DEF Later
<1>2. JudgedTrue(f, done, u, a, x)
  BY <1>1 DEF JudgedAt, JudgedTrue
<1>3. \A service \in done : JudgedFully(f, service, u, a, x)
  BY <1>1 DEF JudgedFully
<1>4. ASSUME NEW service \in done PROVE JudgedHeld(f, service, u, a, x)
  <2>1. JudgedHeld(f, service, t, a, x)
    BY DEF JudgedAt
  <2> QED BY <1>1, <2>1 DEF JudgedHeld
<1> QED BY <1>2, <1>3, <1>4 DEF JudgedAt

\* So does the report.
LEMMA ToldLater ==
    ASSUME NEW t, NEW u, Later(t, u), NEW r, Told(r, t)
    PROVE  Told(r, u)
<1>1. u.changes # 0 /\ u.held \subseteq t.held
  BY DEF Later
<1>2. ToldHeld(r, u)
  BY <1>1 DEF Told, ToldHeld
<1> QED BY <1>1, <1>2 DEF Told, ToldTrue, ToldFully

\* A setting is changed to one of its choices, and no other.
LEMMA SettingsChange ==
    ASSUME NEW s \in Settings, NEW setting \in DOMAIN Choices, NEW value \in Choices[setting]
    PROVE  /\ [s EXCEPT ![setting] = value] \in Settings
           /\ setting # "key" => [s EXCEPT ![setting] = value].key = s.key
<1>1. DOMAIN Choices = {"login", "mfa", "key", "grants", "block", "policy", "acl", "encrypted", "trail"}
  BY DEF Choices
<1> DEFINE C(n) == Choices[n]
           S == [login : C("login"), mfa : C("mfa"), key : C("key"), grants : C("grants"), block : C("block"),
                 policy : C("policy"), acl : C("acl"), encrypted : C("encrypted"),
                 trail : C("trail")]
<1>2. S = Settings
  BY DEF Settings
<1>3. s \in S /\ value \in C(setting)
  BY <1>2
<1> HIDE DEF C
<1>4. [s EXCEPT ![setting] = value] \in S
  <2>1. CASE setting = "login"
    BY <1>3, <2>1
  <2>2. CASE setting = "mfa"
    BY <1>3, <2>2
  <2>3. CASE setting = "key"
    BY <1>3, <2>3
  <2>4. CASE setting = "grants"
    BY <1>3, <2>4
  <2>5. CASE setting = "block"
    BY <1>3, <2>5
  <2>6. CASE setting = "policy"
    BY <1>3, <2>6
  <2>7. CASE setting = "acl"
    BY <1>3, <2>7
  <2>8. CASE setting = "encrypted"
    BY <1>3, <2>8
  <2>9. CASE setting = "trail"
    BY <1>3, <2>9
  <2> QED BY <1>1, <2>1, <2>2, <2>3, <2>4, <2>5, <2>6, <2>7, <2>8, <2>9
<1>5. ASSUME setting # "key" PROVE [s EXCEPT ![setting] = value].key = s.key
  <2>1. "key" \in DOMAIN s
    BY <1>3
  <2> QED BY <1>5, <2>1
<1> QED BY <1>2, <1>4, <1>5

\* A change is one of an account, and takes away what no longer holds.
LEMMA FactsChange ==
    ASSUME FactInv, Change
    PROVE  FactInv' /\ Later(Truth, Truth')
<1>1. PICK a \in Elements(Accounts), setting \in DOMAIN Options : \E value \in Options[setting] :
         /\ estate' = [estate EXCEPT ![a][setting] = value]
         /\ held' = (held \cap {h.mark : h \in HoldingAll(estate')})
                    \ {m \in held : setting = "key" /\ m.control = "IAM-003" /\ m.account = a}
  BY DEF Change
<1>2. PICK value \in Options[setting] :
         /\ estate' = [estate EXCEPT ![a][setting] = value]
         /\ held' = (held \cap {h.mark : h \in HoldingAll(estate')})
                    \ {m \in held : setting = "key" /\ m.control = "IAM-003" /\ m.account = a}
  BY <1>1
<1>3. setting \in DOMAIN Choices /\ value \in Choices[setting]
  BY <1>1, <1>2, FleetAssumption
<1>4. estate \in [Elements(Accounts) -> Settings] /\ changes \in Nat
  BY DEF FactInv
<1> DEFINE new == [estate[a] EXCEPT ![setting] = value]
<1>5. new \in Settings /\ (setting # "key" => new.key = estate[a].key)
  BY <1>3, <1>4, SettingsChange
<1>6. estate' = [estate EXCEPT ![a] = new]
  BY <1>2
<1> HIDE DEF new
<1>7. estate' \in [Elements(Accounts) -> Settings]
  BY <1>4, <1>5, <1>6
<1>8. changes' \in Nat /\ changes' # 0
  BY <1>4 DEF Change
<1>9. \A m \in held' : \E h \in HoldingAll(estate') : h.mark = m
  BY <1>2
<1>10. FactInv'
  BY <1>7, <1>8, <1>9 DEF FactInv
<1>11. held' \subseteq held
  BY <1>2
<1>12. ASSUME NEW b \in Elements(Accounts), NEW x, MarkOf("IAM-003", "key", b, x) \in held'
       PROVE  estate'[b].key = estate[b].key
  <2>1. CASE b # a
    BY <1>4, <1>6, <2>1
  <2>2. CASE b = a
    <3>1. MarkOf("IAM-003", "key", b, x).control = "IAM-003"
             /\ MarkOf("IAM-003", "key", b, x).account = b
      BY MarkOfIs
    <3>2. setting # "key"
      BY <1>2, <1>11, <1>12, <2>2, <3>1
    <3> QED BY <1>4, <1>5, <1>6, <2>2, <3>2
  <2> QED BY <2>1, <2>2
<1>13. Truth'.changes # 0 /\ Truth'.held \subseteq Truth.held
  BY <1>8, <1>11 DEF Truth
<1>14. \A b \in Elements(Accounts) : \A x :
          MarkOf("IAM-003", "key", b, x) \in Truth'.held
             => Truth'.estate[b].key = Truth.estate[b].key
  BY <1>12 DEF Truth
<1>15. Later(Truth, Truth')
  BY <1>13, <1>14 DEF Later
<1> QED BY <1>10, <1>15

\* What was read before a change may still have been so.
LEMMA ReadsChange ==
    ASSUME PlaceInv, FactInv, ReadInv, Change
    PROVE  ReadInv'
<1>1. UNCHANGED <<at, here, view, found>>
  BY DEF Change, scanning
<1>2. Later(Truth, Truth')
  BY FactsChange
<1>3. Account' = Account /\ Region' = Region /\ Service' = Service /\ Reading' = Reading
  BY <1>1 DEF Account, Region, Service, Reading
<1>4. ASSUME Reading PROVE Account \in Elements(Accounts)
  <2>1. PICK k, i, scope, left, call, g : InScope(k, i, scope, left, call, g)
    BY <1>4, ReadingPlace
  <2>2. Account = Accounts[k] /\ k \in DOMAIN Accounts
    BY <2>1, FieldsOf DEF InScope, Fields
  <2> QED BY <2>2, ListsOf
<1>5. ASSUME at = "call"
      PROVE  ReadUpTo(view, found.errors, Service, here.call, Truth', Account, Region)
  <2>1. ReadUpTo(view, found.errors, Service, here.call, Truth, Account, Region)
    BY <1>5 DEF ReadInv
  <2>2. Account \in Elements(Accounts)
    BY <1>4, <1>5 DEF Reading
  <2> QED BY <1>2, <2>1, <2>2, EntryLater DEF ReadUpTo
<1>6. ASSUME at = "judge"
      PROVE  AllEntries(view, found.errors, Service, Truth', Account, Region)
  <2>1. AllEntries(view, found.errors, Service, Truth, Account, Region)
    BY <1>6 DEF ReadInv
  <2>2. Account \in Elements(Accounts)
    BY <1>4, <1>6 DEF Reading
  <2> QED BY <1>2, <2>1, <2>2, EntryLater DEF AllEntries
<1>7. ASSUME Reading
      PROVE  JudgedAt(found, Elements(here.scope) \ Elements(here.left), Truth', Account, Region)
  BY <1>2, <1>7, JudgedLater DEF ReadInv
<1>8. at' = "call" =>
          /\ ReadUpTo(view', found'.errors, Service', here'.call, Truth', Account', Region')
          /\ Made(view', Calls(Service')[here'.call])
  BY <1>1, <1>3, <1>5 DEF ReadInv
<1>9. at' = "judge" => AllEntries(view', found'.errors, Service', Truth', Account', Region')
  BY <1>1, <1>3, <1>6
<1>10. Reading' => JudgedAt(found', Elements(here'.scope) \ Elements(here'.left), Truth', Account', Region')
  BY <1>1, <1>3, <1>7
<1> QED BY <1>8, <1>9, <1>10 DEF ReadInv

----
(* The fleet scan *)

\* All of it: the accounts, the open scope, the report.
TellInv == FactInv /\ ReadInv /\ Told(report, Truth)

\* The empty report tells nothing.
LEMMA NothingTold ==
    ASSUME NEW t, Facts(t)
    PROVE  Told(NoReport, t)
<1>1. \A m \in Marks : NoReport.findings[m] = None
  BY DEF NoReport
<1>2. \A s \in FleetScopes : NoReport.coverage[s] = <<>>
  BY DEF NoReport
<1>3. ToldTrue(NoReport, t)
  BY <1>1 DEF ToldTrue
<1>4. \A h \in HoldingAll(t.estate) : ScopeOfMark[h.mark] \in FleetScopes
  BY HoldingMarks
<1>5. ToldFully(NoReport, t)
  BY <1>2, <1>4 DEF ToldFully
<1>6. \A m \in t.held : ScopeOfMark[m] \in FleetScopes
  BY HeldMarks
<1>7. ToldHeld(NoReport, t)
  BY <1>2, <1>6 DEF ToldHeld
<1> QED BY <1>3, <1>5, <1>7 DEF Told

\* Between scans and before their first account there is nothing to tell.
LEMMA TellAtRest ==
    ASSUME FactInv', report' = NoReport, at' \notin {"call", "judge", "close"}
    PROVE  TellInv'
<1>1. Facts(Truth')
  BY DEF FactInv, Facts, Truth
<1>2. Told(report', Truth')
  BY <1>1, NothingTold
<1>3. ReadInv'
  BY NotReading
<1> QED BY <1>2, <1>3 DEF TellInv

\* In the beginning.
LEMMA TellInit == Init => TellInv
<1> SUFFICES ASSUME Init PROVE TellInv
  OBVIOUS
<1>1. estate \in [Elements(Accounts) -> Settings] /\ changes \in Nat /\ held = {}
  BY FleetAssumption DEF Init
<1>2. FactInv
  BY <1>1 DEF FactInv
<1>3. Facts(Truth)
  BY <1>1 DEF Facts, Truth
<1>4. Told(report, Truth)
  BY <1>3, NothingTold DEF Init
<1>5. ReadInv
  BY DEF Init, ReadInv, Reading
<1> QED BY <1>2, <1>4, <1>5 DEF TellInv

\* What a scan has read, found and reported is what the accounts say.
LEMMA TellStep == PlaceInv /\ LockInv /\ ScanInv /\ TellInv /\ [Next]_vars => TellInv'
<1> SUFFICES ASSUME PlaceInv, LockInv, ScanInv, TellInv, [Next]_vars PROVE TellInv'
  OBVIOUS
<1> USE DEF TellInv
<1>1. ASSUME UNCHANGED <<scanning, estate, changes, held>> PROVE TellInv'
  <2>1. at' = at /\ here' = here /\ view' = view /\ found' = found /\ report' = report
    BY <1>1 DEF scanning
  <2>2. Truth' = Truth
    BY <1>1 DEF Truth
  <2>3. FactInv'
    BY <1>1 DEF FactInv
  <2>4. Account' = Account /\ Region' = Region /\ Service' = Service /\ Reading' = Reading
    BY <2>1 DEF Account, Region, Service, Reading
  <2>5. ReadInv'
    BY <2>1, <2>2, <2>4 DEF ReadInv
  <2> QED BY <2>1, <2>2, <2>3, <2>5
<1>2. ASSUME NEW i \in Invocations, Begin(i) PROVE TellInv'
  <2>1. at' = "account" /\ report' = NoReport
    BY <1>2 DEF Begin, ScanInv, LockInv
  <2>2. estate' = estate /\ changes' = changes /\ held' = {h.mark : h \in HoldingAll(estate)}
    BY <1>2 DEF Begin
  <2>3. \A m \in held' : \E h \in HoldingAll(estate') : h.mark = m
    BY <2>2
  <2>4. FactInv'
    BY <2>2, <2>3 DEF FactInv
  <2> QED BY <2>1, <2>4, TellAtRest
<1>3. CASE Kill \/ Record
  <2>1. at' = "idle" /\ report' = NoReport /\ held' = {} /\ estate' = estate /\ changes' = changes
    BY <1>3 DEF Kill, Record, Reset
  <2>2. FactInv'
    BY <2>1 DEF FactInv
  <2> QED BY <2>1, <2>2, TellAtRest
<1>4. CASE ResolveExternalId \/ OpenSession \/ ReadCall \/ CollectorCrash \/ Judge \/ RuleCrash
              \/ CloseScope
  <2>1. ReadInv'
    BY <1>4, ReadsStep
  <2>2. Told(report', Truth')
    BY <1>4, ToldStep
  <2>3. estate' = estate /\ changes' = changes /\ held' = held
    BY <1>4, ScanKeepsLock
  <2>4. FactInv'
    BY <2>3 DEF FactInv
  <2> QED BY <2>1, <2>2, <2>4
<1>5. CASE Change
  <2>1. FactInv'
    BY <1>5, FactsChange
  <2>2. Later(Truth, Truth')
    BY <1>5, FactsChange
  <2>3. ReadInv'
    BY <1>5, ReadsChange
  <2>4. report' = report
    BY <1>5 DEF Change, scanning
  <2>5. Told(report', Truth')
    BY <2>2, <2>4, ToldLater
  <2> QED BY <2>1, <2>3, <2>5
<1>6. ASSUME NEW i \in Invocations, Skip(i) PROVE TellInv'
  BY <1>1, <1>6 DEF Skip
<1>7. CASE UNCHANGED vars
  BY <1>1, <1>7 DEF vars
<1> QED BY <1>2, <1>3, <1>4, <1>5, <1>6, <1>7 DEF Next, Scan

\* Always.
LEMMA Telling == Spec => [](PlaceInv /\ LockInv /\ ScanInv /\ TellInv)
<1>1. PlaceInv /\ LockInv /\ ScanInv /\ TellInv /\ [Next]_vars
         => (PlaceInv /\ LockInv /\ ScanInv /\ TellInv)'
  BY PlaceStep, LockStep, ScanStep, TellStep
<1>2. Init => ScanInv
  BY DEF Init, ScanInv, Reading
<1> QED BY <1>1, <1>2, ControlStarts, TellInit, PTL DEF Spec

\* A report that is to be recorded covers every scope.
LEMMA FullyCovered ==
    ASSUME ScanInv, at = "record", NEW s \in FleetScopes
    PROVE  report.coverage[s] # <<>>
<1>1. PICK a \in DOMAIN Accounts : s \in ScopesOf(Accounts[a])
  BY FleetScopesAre
<1>2. a < Len(Accounts) + 1
  BY <1>1, ListsOf
<1>3. Behind(a, s, Len(Accounts) + 1, 0, "due")
  BY <1>2 DEF Behind
<1>4. Exact(report, s)
  BY <1>1, <1>3 DEF ScanInv, ReportAt, Covers
<1> QED BY <1>4 DEF Exact

\* Errors take findings away or aggravate them, and only the findings that they
\* are about; of accounts that did not change a scan never reports more.
THEOREM ErrorsObscureOnly == Spec => []ErrorsOnlyObscure
<1>1. ScanInv /\ TellInv => ErrorsOnlyObscure
  <2> SUFFICES ASSUME ScanInv, TellInv, at = "record", changes = 0
               PROVE  LET holding == HoldingAll(estate) IN
                      /\ \A m \in Marks :
                            report.findings[m] # None =>
                               \E h \in holding : h.mark = m
                                  /\ AtLeast(report.findings[m], h.severity)
                      /\ \A h \in holding :
                            report.findings[h.mark] # h.severity =>
                               \E e \in report.errors :
                                  /\ Concerns(report.errors, e, ScopeOfMark[h.mark])
                                  /\ e.operation \in Decides(h.control)
                                        \cup {"collect", "scan", "assume-role", "verify-target", "external-id"}
    BY DEF ErrorsOnlyObscure
  <2>1. Truth.estate = estate /\ Truth.changes = 0
    BY DEF Truth
  <2>2. \A m \in Marks : report.findings[m] # None =>
           \E h \in HoldingAll(estate) : h.mark = m /\ AtLeast(report.findings[m], h.severity)
    BY <2>1 DEF TellInv, Told, ToldTrue
  <2>3. ASSUME NEW h \in HoldingAll(estate), report.findings[h.mark] # h.severity
        PROVE  \E e \in report.errors : /\ Concerns(report.errors, e, ScopeOfMark[h.mark])
                                        /\ e.operation \in Excuses(h.control)
    <3>1. ScopeOfMark[h.mark] \in FleetScopes
      BY HoldingMarks
    <3>2. report.coverage[ScopeOfMark[h.mark]] # <<>>
      BY <3>1, FullyCovered
    <3>3. Excused(report.errors, h.control, ScopeOfMark[h.mark])
      BY <2>1, <2>3, <3>2 DEF TellInv, Told, ToldFully
    <3> QED BY <3>3 DEF Excused
  <2> QED BY <2>2, <2>3 DEF Excuses
<1> QED BY <1>1, Telling, PTL

\* The drift of a run says of no mark that held throughout its scan that it is
\* resolved: the scope was covered completely, so the mark was reported.
LEMMA ResolvedWasGone ==
    ASSUME ScanInv, TellInv, at = "record", NEW m \in Marks,
           History!DriftOf(Recordable)[m] = "resolved"
    PROVE  m \notin held
<1> DEFINE s == ScopeOfMark[m]
<1>1. None # "resolved"
  BY HistoryAssumption DEF History!States
<1>2. Recordable.coverage[s] = "complete" /\ Recordable.findings[m] = None
  <2>1. "resolved" # "new" /\ "resolved" # "persistent" /\ "resolved" # "changed"
           /\ "resolved" # "unknown"
    OBVIOUS
  <2>2. /\ Recordable.coverage[s] # "absent"
        /\ History!Row(History!Previous(m), Recordable.findings[m], Recordable.coverage[s]) = "resolved"
    BY <1>1 DEF History!DriftOf
  <2>3. Recordable.findings[m] = None
    BY <2>1, <2>2 DEF History!Row
  <2>4. History!Previous(m) # None
    BY <1>1, <2>2, <2>3 DEF History!Row
  <2>5. History!Missing(Recordable.coverage[s]) = "resolved"
    BY <2>2, <2>3, <2>4 DEF History!Row
  <2> QED BY <2>1, <2>3, <2>5 DEF History!Missing
<1>3. s \in FleetScopes
  BY MarkScopes
<1>4. FALSE \notin Elements(report.coverage[s]) /\ report.coverage[s] # <<>>
  BY <1>2, <1>3 DEF Recordable
<1>5. report.findings[m] = None
  BY <1>2 DEF Recordable
<1>6. Truth.held = held
  BY DEF Truth
<1> QED BY <1>4, <1>5, <1>6 DEF TellInv, Told, ToldHeld

\* The history has a place for every invocation's drift.
DriftPlaces == DOMAIN fleetDrift = Invocations

\* Only a scan that is recorded writes drift, and its own.
LEMMA DriftKept ==
    ASSUME PlaceInv, [Next]_vars
    PROVE  \/ fleetDrift' = fleetDrift
           \/ at = "record" /\ fleetDrift' = [fleetDrift EXCEPT ![lock] = History!DriftOf(Recordable)]
<1>1. ASSUME Record
      PROVE  \/ fleetDrift' = fleetDrift
             \/ at = "record" /\ fleetDrift' = [fleetDrift EXCEPT ![lock] = History!DriftOf(Recordable)]
  BY <1>1 DEF Record, history, History!RecordScan
<1>2. ASSUME NEW j \in Invocations, Begin(j) \/ Skip(j) PROVE fleetDrift' = fleetDrift
  BY <1>2 DEF Begin, Skip, history
<1>3. ASSUME Kill \/ Change PROVE fleetDrift' = fleetDrift
  BY <1>3 DEF Kill, Change, history
<1>4. ASSUME ResolveExternalId \/ OpenSession \/ ReadCall \/ CollectorCrash \/ Judge
             \/ RuleCrash \/ CloseScope
      PROVE  fleetDrift' = fleetDrift
  BY <1>4, ScanKeepsLock
<1>5. CASE UNCHANGED vars
  BY <1>5 DEF vars, history
<1> QED BY <1>1, <1>2, <1>3, <1>4, <1>5 DEF Next, Scan

\* What the drift of a run calls resolved did not hold throughout its scan.
THEOREM NothingFalselyResolved == Spec => ResolvedIsReal
<1>1. Init => DriftPlaces
  BY DEF Init, History!HistoryInit, DriftPlaces
<1>2. PlaceInv /\ DriftPlaces /\ [Next]_vars => DriftPlaces'
  <2> SUFFICES ASSUME PlaceInv, DriftPlaces, [Next]_vars PROVE DriftPlaces'
    OBVIOUS
  <2> QED BY DriftKept DEF DriftPlaces
<1>3. PlaceInv /\ ScanInv /\ TellInv /\ DriftPlaces /\ [Next]_vars =>
         [\A i \in Invocations :
             fleetDrift[i] = None /\ fleetDrift'[i] # None =>
                \A m \in Marks : fleetDrift'[i][m] = "resolved" => m \notin held]_vars
  <2> SUFFICES ASSUME PlaceInv, ScanInv, TellInv, DriftPlaces, [Next]_vars, NEW i \in Invocations,
                      fleetDrift[i] = None, fleetDrift'[i] # None,
                      NEW m \in Marks, fleetDrift'[i][m] = "resolved"
               PROVE  m \notin held
    OBVIOUS
  <2>1. at = "record" /\ fleetDrift' = [fleetDrift EXCEPT ![lock] = History!DriftOf(Recordable)]
    BY DriftKept
  <2>2. i = lock
    BY <2>1
  <2>3. fleetDrift'[i] = History!DriftOf(Recordable)
    BY <2>1, <2>2 DEF DriftPlaces
  <2> QED BY <2>1, <2>3, ResolvedWasGone
<1> QED BY <1>1, <1>2, <1>3, Telling, PTL DEF Spec, ResolvedIsReal

----
(* The history of the fleet *)

\* The findings of a report are marks with severities.
Typed(r) == r.findings \in [Marks -> DOMAIN Rank \cup {None}]

\* Regions and accounts that end leave the findings as they are.
LEMMA TypedAfterRegion ==
    ASSUME NEW k, NEW i, NEW g, NEW r, RegionEnds(k, i, g, r), IsAReport(r), Typed(r)
    PROVE  Typed(report')
<1>1. CASE report' = r
  BY <1>1
<1>2. CASE report' = GivenUp(r, k, i)
  <2>1. GivenUp(r, k, i).findings = r.findings
    BY DEF GivenUp, IsAReport
  <2> QED BY <1>2, <2>1 DEF Typed
<1> QED BY <1>1, <1>2 DEF RegionEnds, AccountEnds

\* A scope that ends adds findings with severities.
LEMMA TypedCollected ==
    ASSUME PlaceInv, ScanInv, ReadInv, CloseScope, Typed(report)
    PROVE  Typed(report')
<1>1. PICK k, i, scope :
         /\ k \in DOMAIN Accounts /\ i \in DOMAIN Regions
         /\ Closing(k, i, scope, Truth) /\ Collects(Collected, k, i, scope)
  BY ScopeCloses
<1>2. JudgedTrue(found, Elements(scope), Truth, Accounts[k], Regions[i])
  BY <1>1 DEF Closing, JudgedAt
<1>3. ASSUME NEW m \in Marks PROVE FindingsWith(MarkedAt(k, i))[m] \in DOMAIN Rank \cup {None}
  <2>1. CASE FindingsWith(MarkedAt(k, i))[m] = report.findings[m]
    BY <2>1 DEF Typed
  <2>2. CASE MadeOf(m, FindingsWith(MarkedAt(k, i))[m], k, i, Elements(scope))
    BY <1>2, <2>2 DEF MadeOf, JudgedTrue
  <2> QED BY <1>2, <2>1, <2>2, ToldOfFinding
<1>4. report'.findings = FindingsWith(MarkedAt(k, i))
  BY <1>1, ScopeCloses DEF Collects
<1>5. FindingsWith(MarkedAt(k, i)) \in [Marks -> DOMAIN Rank \cup {None}]
  <2> DEFINE F == FindingsWith(MarkedAt(k, i))
  <2>1. F = [m \in Marks |-> F[m]]
    BY DEF FindingsWith
  <2>2. \A m \in Marks : F[m] \in DOMAIN Rank \cup {None}
    BY <1>3
  <2> HIDE DEF F
  <2>3. F \in [Marks -> DOMAIN Rank \cup {None}]
    BY <2>1, <2>2
  <2> QED BY <2>3 DEF F
<1> QED BY <1>4, <1>5 DEF Typed

\* Every step keeps the report typed.
LEMMA TypedStep == PlaceInv /\ LockInv /\ ScanInv /\ TellInv /\ Typed(report) /\ [Next]_vars
                      => Typed(report')
<1> SUFFICES ASSUME PlaceInv, LockInv, ScanInv, TellInv, Typed(report),
                    [Next]_vars PROVE Typed(report')
  OBVIOUS
<1>1. CASE report' = report
  BY <1>1
<1>2. ASSUME Kill \/ Record PROVE Typed(report')
  BY <1>2 DEF Kill, Record, Reset, NoReport, Typed
<1>3. CASE CloseScope
  BY <1>3, TypedCollected DEF TellInv
<1>4. CASE ResolveExternalId
  <2>1. PICK k \in DOMAIN Accounts :
          /\ here = StartOf(k)
          /\ \/ report' = report
             \/ AccountEnds(k, [report EXCEPT
                   !.errors = @ \cup {Error("external-id", "AWS Account", None)},
                   !.coverage = Entered(@, Incomplete(ScopesOf(Accounts[k])))])
    BY <1>4, ResolveDoes
  <2>2. IsAReport(report)
    BY <1>4 DEF ScanInv, ResolveExternalId, ReportAt
  <2>3. report'.findings = report.findings
    BY <2>1, <2>2 DEF AccountEnds, IsAReport
  <2> QED BY <2>3 DEF Typed
<1>5. CASE OpenSession
  <2>1. PICK k \in DOMAIN Accounts, i \in DOMAIN Regions, g \in {"due", "read"} :
          \/ SessionOpens(k, i, g)
          \/ \E operation \in {"assume-role", "verify-target"} :
                RegionEnds(k, i, g, RefusedReport(k, i, operation))
    BY <1>5, SessionDoes
  <2>2. IsAReport(report)
    BY <1>5 DEF ScanInv, OpenSession, ReportAt
  <2>3. ASSUME NEW operation \in {"assume-role", "verify-target"},
               RegionEnds(k, i, g, RefusedReport(k, i, operation))
        PROVE  Typed(report')
    <3>1. IsAReport(RefusedReport(k, i, operation))
      BY <2>2 DEF RefusedReport, IsAReport
    <3>2. RefusedReport(k, i, operation).findings = report.findings
      BY <2>2 DEF RefusedReport, IsAReport
    <3>3. Typed(RefusedReport(k, i, operation))
      BY <3>2 DEF Typed
    <3> QED BY <2>3, <3>1, <3>3, TypedAfterRegion
  <2>4. CASE SessionOpens(k, i, g)
    BY <1>1, <2>4 DEF SessionOpens
  <2> QED BY <2>1, <2>3, <2>4
<1>6. CASE ReadCall \/ CollectorCrash \/ Judge \/ RuleCrash
  BY <1>1, <1>6 DEF ReadCall, CollectorCrash, Judge, RuleCrash
<1>7. ASSUME NEW i \in Invocations, Begin(i) \/ Skip(i) PROVE Typed(report')
  BY <1>1, <1>7 DEF Begin, Skip, scanning
<1>8. CASE Change \/ UNCHANGED vars
  BY <1>1, <1>8 DEF Change, vars, scanning
<1> QED BY <1>2, <1>3, <1>4, <1>5, <1>6, <1>7, <1>8 DEF Next, Scan

\* Always.
TypedInv == Typed(report)

\* What is recorded is a report of the drift history.
LEMMA RecordableIs ==
    ASSUME Typed(report)
    PROVE  Recordable \in History!Reports
<1>1. Recordable.findings \in [Marks -> DOMAIN Rank \cup {None}]
  BY DEF Recordable, Typed
<1>2. Recordable.coverage \in [FleetScopes -> {"absent", "incomplete", "complete"}]
  BY DEF Recordable
<1>3. Recordable = [coverage |-> Recordable.coverage, findings |-> Recordable.findings]
  BY DEF Recordable
<1> QED BY <1>1, <1>2, <1>3 DEF History!Reports

\* Whatever its scans meet, the fleet's history is one of the drift history's:
\* what is proved of that holds of it.
THEOREM FleetKeepsHistory == Spec => History!HistorySpec
<1>1. Init => TypedInv /\ History!HistoryInit
  BY DEF Init, NoReport, Typed, TypedInv
<1>2. PlaceInv /\ LockInv /\ ScanInv /\ TellInv /\ TypedInv /\ [Next]_vars => TypedInv'
  BY TypedStep DEF TypedInv
<1>3. PlaceInv /\ LockInv /\ TypedInv /\ [Next]_vars => [History!HistoryNext]_(History!historyVars)
  <2> SUFFICES ASSUME PlaceInv, LockInv, TypedInv, [Next]_vars
               PROVE  History!HistoryNext \/ UNCHANGED <<fleetRuns, fleetDrift>>
    BY DEF History!historyVars
  <2>1. ASSUME Record PROVE History!HistoryNext \/ UNCHANGED <<fleetRuns, fleetDrift>>
    <3>1. CASE History!RecordScan(lock, Recordable)
      <4>1. lock \in Invocations
        BY <2>1 DEF Record, LockInv
      <4> QED BY <3>1, <4>1, RecordableIs DEF History!HistoryNext, TypedInv
    <3>2. CASE UNCHANGED history
      BY <3>2 DEF history
    <3> QED BY <2>1, <3>1, <3>2 DEF Record
  <2>2. ASSUME NEW j \in Invocations, Begin(j) \/ Skip(j) PROVE UNCHANGED <<fleetRuns, fleetDrift>>
    BY <2>2 DEF Begin, Skip, history
  <2>3. ASSUME Kill \/ Change PROVE UNCHANGED <<fleetRuns, fleetDrift>>
    BY <2>3 DEF Kill, Change, history
  <2>4. ASSUME ResolveExternalId \/ OpenSession \/ ReadCall \/ CollectorCrash \/ Judge
               \/ RuleCrash \/ CloseScope
        PROVE  UNCHANGED <<fleetRuns, fleetDrift>>
    BY <2>4, ScanKeepsLock
  <2>5. CASE UNCHANGED vars
    BY <2>5 DEF vars, history
  <2> QED BY <2>1, <2>2, <2>3, <2>4, <2>5 DEF Next, Scan
<1> QED BY <1>1, <1>2, <1>3, Telling, PTL DEF Spec, History!HistorySpec
====
