---- MODULE FleetScan ----
(***************************************************************************)
(* Scheduled fleet scans (scripts/scheduled_fleet_scan.py, cli.py,         *)
(* auditor/fleet_scan.py): an invocation that gets the file lock assumes a *)
(* role in every account and region, reads the account call by call, turns *)
(* what it read into findings and coverage, and records the run in the     *)
(* drift history.  Administrators change accounts meanwhile, calls fail,   *)
(* sessions are refused, and an invocation may be killed anywhere.         *)
(***************************************************************************)
EXTENDS AccountRules

CONSTANTS
    Accounts,     \* the configured targets, a sequence
    Regions,      \* the configured regions, a sequence
    Services,     \* the configured services, a sequence
    Threshold,    \* --fail-on, None without a gate
    Invocations,  \* 1..n in the order the scheduler makes them; also the run ids
    Estates,      \* initial settings: functions from accounts to their settings
    Options,      \* setting -> the values an administrator may change it to
    MaxChanges,   \* bound on changes
    MaxFaults,    \* bound on failed calls, sessions, collectors, rules and writes
    MaxKills      \* bound on killed invocations

Elements(s) == {s[i] : i \in DOMAIN s}

ScansTrails == "cloudtrail" \in Elements(Services)

\* parse_fleet_config puts the trails last, whatever the file's order.
GlobalServices == IF ScansTrails THEN SubSeq(Services, 1, Len(Services) - 1) ELSE Services

Scope(account, service, region) ==
    [account |-> account, service |-> service,
     region |-> IF service = "cloudtrail" THEN region ELSE "aws-global"]

ScopesOf(account) == {Scope(account, s, r) : s \in Elements(Services), r \in Elements(Regions)}

FleetScopes == UNION {ScopesOf(a) : a \in Elements(Accounts)}

\* What can be set in an account, and so what an account can be.
Choices ==
    [login |-> BOOLEAN, mfa |-> BOOLEAN, key |-> Keys \cup {None},
     grants |-> [user : Documents, group : Documents, role : Documents],
     block |-> SUBSET BlockFlags, policy |-> {"open", "constrained", None},
     acl |-> {"public", "private"}, encrypted |-> BOOLEAN,
     trail |-> [Elements(Regions) -> Trails \cup {None}]]

Settings ==
    [login : Choices.login, mfa : Choices.mfa, key : Choices.key, grants : Choices.grants,
     block : Choices.block, policy : Choices.policy, acl : Choices.acl,
     encrypted : Choices.encrypted, trail : Choices.trail]

\* parse_fleet_config refuses empty lists and repeated entries.
ASSUME FleetAssumption ==
    /\ \A list \in {Accounts, Regions} :
          /\ list # <<>> /\ list \in Seq(Elements(list))
          /\ \A i, j \in DOMAIN list : list[i] = list[j] => i = j
    /\ Services \in {<<"iam", "s3", "cloudtrail">>, <<"iam", "s3">>, <<"iam", "cloudtrail">>,
                     <<"s3", "cloudtrail">>, <<"iam">>, <<"s3">>, <<"cloudtrail">>}
    /\ "aws-global" \notin Elements(Regions) /\ None \notin Elements(Regions)
    /\ Threshold \in DOMAIN Rank \cup {None}
    /\ Invocations \subseteq Nat
    /\ Estates \subseteq [Elements(Accounts) -> Settings]
    /\ DOMAIN Options \subseteq DOMAIN Choices
    /\ \A setting \in DOMAIN Options : Options[setting] \subseteq Choices[setting]
    /\ MaxChanges \in Nat /\ MaxFaults \in Nat /\ MaxKills \in Nat

\* finding_record gives a finding its identity, apart from its severity.
Mark(f, account, region) ==
    Fingerprint([control |-> f.control, source_type |-> "aws", resource |-> f.resource, account |-> account,
                 region |-> Scope(account, ServiceOf(f.control), region).region])

\* What a scan of settings that misses nothing reports of an account and region.
Holding(settings, account, region) ==
    {[mark |-> Mark(f, account, region), severity |-> f.severity, control |-> f.control] :
        f \in UNION {Evaluate(s, FullView(settings, region, s)) : s \in Elements(Services)}}

HoldingAll(estates) ==
    UNION {Holding(estates[a], a, r) : a \in Elements(Accounts), r \in Elements(Regions)}

\* Every finding there can be.
Subjects ==
    {<<"IAM-001", "user">>, <<"IAM-006", "user">>, <<"IAM-002", "key">>, <<"IAM-003", "key">>,
     <<"S3-001", "bucket">>, <<"S3-002", "bucket">>, <<"S3-003", "bucket">>, <<"S3-004", "bucket">>,
     <<"CT-001", "aws-account">>, <<"CT-002", "aws-account">>, <<"CT-003", "trail">>, <<"CT-004", "trail">>}
        \cup ({"IAM-004", "IAM-005"} \X {"user policy", "group policy", "role policy"})

Marks ==
    {Mark([control |-> s[1], resource |-> s[2]], a, r) :
        s \in {t \in Subjects : ServiceOf(t[1]) \in Elements(Services)},
        a \in Elements(Accounts), r \in Elements(Regions)}

ScopeOfMark == [m \in Marks |-> Scope(m.account, ServiceOf(m.control), m.region)]

VARIABLES
    estate,      \* account -> settings
    invocation,  \* invocation -> waiting, running, skipped, killed or its scan's status
    lock,        \* the invocation that holds the scheduler's lock, None
    at,          \* idle, account, session, call, judge, close or record
    here,        \* account, region, services of the scope and what is left of them,
                 \* and whether the account's global services are due or read
    view,        \* call -> outcome, for the service being read
    found,       \* findings and errors of the scope being collected
    report,      \* findings (mark -> severity), errors and coverage so far
    fleetRuns, fleetDrift, \* the history, see DriftHistory
    changes, faults, kills,
    held         \* history variable: marks that held at every moment of this scan

history == <<fleetRuns, fleetDrift>>
scanning == <<at, here, view, found, report>>
vars == <<estate, invocation, lock, scanning, history, changes, faults, kills, held>>

History ==
    INSTANCE DriftHistory WITH
        Runs <- Invocations, Scopes <- FleetScopes, Fingerprints <- Marks, ScopeOf <- ScopeOfMark,
        Signatures <- DOMAIN Rank, SortKey <- [i \in Invocations |-> i],
        runs <- fleetRuns, drift <- fleetDrift

\* A mark without a row is told from one in any state.
ASSUME HistoryAssumption == None \notin History!States

Place(account, region, scope, left, call, globals) ==
    [account |-> account, region |-> region, scope |-> scope, left |-> left, call |-> call, globals |-> globals]

Nowhere == Place(0, 0, <<>>, <<>>, 0, "due")

StartOf(account) == Place(account, 0, <<>>, <<>>, 0, "due")

NothingFound == [findings |-> {}, errors |-> {}]

NoReport == [findings |-> [m \in Marks |-> None], errors |-> {}, coverage |-> [s \in FleetScopes |-> <<>>]]

Init ==
    /\ estate \in Estates
    /\ invocation = [i \in Invocations |-> "waiting"]
    /\ lock = None
    /\ at = "idle" /\ here = Nowhere /\ view = <<>>
    /\ found = NothingFound /\ report = NoReport
    /\ History!HistoryInit
    /\ changes = 0 /\ faults = 0 /\ kills = 0
    /\ held = {}

----
(* The scheduler *)

Due(i) == invocation[i] = "waiting" /\ \A j \in Invocations : j < i => invocation[j] # "waiting"

Begin(i) ==
    /\ Due(i) /\ lock = None
    /\ lock' = i
    /\ invocation' = [invocation EXCEPT ![i] = "running"]
    /\ at' = "account"
    /\ here' = StartOf(1)
    /\ held' = {h.mark : h \in HoldingAll(estate)}
    /\ UNCHANGED <<estate, view, found, report, history, changes, faults, kills>>

\* LOCK_NB: "already running; skipping this invocation", exit status 0.
Skip(i) ==
    /\ Due(i) /\ lock # None
    /\ invocation' = [invocation EXCEPT ![i] = "skipped"]
    /\ UNCHANGED <<estate, lock, scanning, history, changes, faults, kills, held>>

LockAfterDeath_FileStays == lock

\* The kernel drops a flock with its holder; the file itself means nothing.
LockAfterDeath == None

Reset ==
    /\ at' = "idle" /\ here' = Nowhere /\ view' = <<>>
    /\ found' = NothingFound /\ report' = NoReport
    /\ held' = {}

Kill ==
    /\ at # "idle" /\ kills < MaxKills
    /\ kills' = kills + 1
    /\ invocation' = [invocation EXCEPT ![lock] = "killed"]
    /\ lock' = LockAfterDeath
    /\ Reset
    /\ UNCHANGED <<estate, history, changes, faults>>

----
(* The scan *)

Step == UNCHANGED <<estate, invocation, lock, history, changes, kills, held>>

Works == Step /\ UNCHANGED faults

Fails == Step /\ faults < MaxFaults /\ faults' = faults + 1

Account == Accounts[here.account]

Region == Regions[here.region]

Error(operation, service, region) ==
    [operation |-> operation, category |-> "error", service |-> service,
     account |-> Account, region |-> region]

\* The coverage list, kept per scope: an entry says whether the scope was complete.
Entered(coverage, entries) ==
    [s \in FleetScopes |-> IF s \in DOMAIN entries THEN Append(coverage[s], entries[s]) ELSE coverage[s]]

Incomplete(scopes) == [s \in scopes |-> FALSE]

\* On to the next account, the report being r.
NextAccount(r) ==
    /\ report' = r
    /\ IF here.account < Len(Accounts)
       THEN at' = "account" /\ here' = StartOf(here.account + 1)
       ELSE at' = "record" /\ here' = Nowhere

Pending(globals) == GlobalServices # <<>> /\ globals = "due"

\* The next region, if there is anything to do in one, else the account is done:
\* global services that no session could read are incomplete.
NextRegion(r, globals) ==
    IF here.region < Len(Regions) /\ (ScansTrails \/ Pending(globals))
    THEN /\ report' = r
         /\ at' = "session"
         /\ here' = Place(here.account, here.region + 1, <<>>, <<>>, 0, globals)
    ELSE NextAccount(IF Pending(globals)
                     THEN [r EXCEPT !.coverage = Entered(@, Incomplete(
                              {Scope(Account, s, Region) : s \in Elements(GlobalServices)}))]
                     ELSE r)

\* resolve_external_id; without it the account is not scanned at all.
ResolveExternalId ==
    /\ at = "account"
    /\ \/ /\ Works
          /\ at' = "session"
          /\ here' = [here EXCEPT !.region = 1]
          /\ UNCHANGED report
       \/ /\ Fails
          /\ NextAccount([report EXCEPT !.errors = @ \cup {Error("external-id", "AWS Account", None)},
                                        !.coverage = Entered(@, Incomplete(ScopesOf(Account)))])
    /\ UNCHANGED <<view, found>>

Unasked(service) == [c \in Elements(Calls(service)) |-> Unread]

\* The first call from i on that is made, past the end if there is none.
FirstMade(service, v, i) ==
    CHOOSE j \in i .. Len(Calls(service)) + 1 :
        /\ j <= Len(Calls(service)) => Made(v, Calls(service)[j])
        /\ \A k \in i .. j - 1 : ~Made(v, Calls(service)[k])

\* Start reading the services of a scope in the session.
OpenScope(services, globals) ==
    /\ at' = "call"
    /\ here' = Place(here.account, here.region, services, services, 1, globals)
    /\ view' = Unasked(Head(services))
    /\ found' = NothingFound

\* _target_session: the role is refused, or its identity is not the account's.
OpenSession ==
    /\ at = "session"
    /\ \/ /\ Works
          /\ IF Pending(here.globals) THEN OpenScope(GlobalServices, "read")
             ELSE OpenScope(<<"cloudtrail">>, here.globals)
          /\ UNCHANGED report
       \/ \E operation \in {"assume-role", "verify-target"} :
          /\ Fails
          /\ NextRegion([report EXCEPT
                           !.errors = @ \cup {Error(operation, "AWS Account", Region)},
                           !.coverage = Entered(@, Incomplete(IF ScansTrails
                                                                 THEN {Scope(Account, "cloudtrail", Region)}
                                                                 ELSE {}))],
                        here.globals)
          /\ UNCHANGED <<view, found>>

Service == Head(here.left)

ScopeRegion == Scope(Account, here.scope[1], Region).region

\* safe_call: one failed call degrades what it would have told, never the scan.
ReadCall ==
    /\ at = "call"
    /\ LET call == Calls(Service)[here.call] IN
       \E outcome \in {Answer(estate[Account], Region, call), Failed} :
          /\ IF outcome = Failed THEN Fails ELSE Works
          /\ found' = IF outcome = Failed
                      THEN [found EXCEPT !.errors = @ \cup {Error(call, Service, ScopeRegion)}]
                      ELSE found
          /\ view' = [view EXCEPT ![call] = outcome]
    /\ LET next == FirstMade(Service, view', here.call + 1) IN
       IF next > Len(Calls(Service))
       THEN at' = "judge" /\ here' = [here EXCEPT !.call = 0]
       ELSE at' = "call" /\ here' = [here EXCEPT !.call = next]
    /\ UNCHANGED report

\* run_scan goes on with the next service of the scope.
NextService ==
    IF Len(here.left) > 1
    THEN /\ at' = "call"
         /\ here' = Place(here.account, here.region, here.scope, Tail(here.left), 1, here.globals)
         /\ view' = Unasked(here.left[2])
    ELSE /\ at' = "close"
         /\ here' = Place(here.account, here.region, here.scope, <<>>, 0, here.globals)
         /\ view' = <<>>

\* "a broken collector must not kill the run"; what it had read is lost.
CollectorCrash ==
    /\ at = "call"
    /\ Fails
    /\ found' = [found EXCEPT
          !.errors = {e \in @ : e.service # Service} \cup {Error("collect", Service, ScopeRegion)}]
    /\ NextService
    /\ UNCHANGED report

Judge ==
    /\ at = "judge"
    /\ Works
    /\ found' = [found EXCEPT !.findings = @ \cup Evaluate(Service, view)]
    /\ NextService
    /\ UNCHANGED report

\* A rule that raises ends run_scan: nothing that the scope's services said counts.
RuleCrash ==
    /\ at = "judge"
    /\ Fails
    /\ found' = [findings |-> {}, errors |-> {Error("scan", "AWS", ScopeRegion)}]
    /\ at' = "close"
    /\ here' = [here EXCEPT !.left = <<>>]
    /\ view' = <<>>
    /\ UNCHANGED report

Relevant_NotScan(error, service) == error.service = service

Relevant(error, service) == error.service = service \/ error.operation = "scan"

\* The scope's findings with their identities, and its services' coverage.
Marked == {[mark |-> Mark(f, Account, Region), severity |-> f.severity] : f \in found.findings}

Collected ==
    [report EXCEPT
        !.findings = [m \in Marks |->
            IF \E f \in Marked : f.mark = m THEN (CHOOSE f \in Marked : f.mark = m).severity ELSE @[m]],
        !.errors = @ \cup found.errors,
        !.coverage = Entered(@, [s \in {Scope(Account, v, Region) : v \in Elements(here.scope)} |->
            ~\E e \in found.errors : Relevant(e, s.service)])]

\* _collect_scope's end; the session that read the global services reads its trails.
CloseScope ==
    /\ at = "close"
    /\ Works
    /\ IF ScansTrails /\ here.scope # <<"cloudtrail">>
       THEN report' = Collected /\ OpenScope(<<"cloudtrail">>, "read")
       ELSE NextRegion(Collected, here.globals) /\ found' = NothingFound /\ UNCHANGED view

Gate ==
    IF Threshold = None THEN "NOT_CONFIGURED"
    ELSE IF \E m \in Marks : report.findings[m] # None /\ AtLeast(report.findings[m], Threshold)
    THEN "FAIL" ELSE "PASS"

Outcome == ClassifyScan(report.errors, Gate)

\* The report as the history keeps it.
Recordable ==
    [coverage |-> [s \in FleetScopes |->
        IF report.coverage[s] = <<>> THEN "absent"
        ELSE IF FALSE \in Elements(report.coverage[s]) THEN "incomplete" ELSE "complete"],
     findings |-> report.findings]

\* The run is recorded, or the history refuses it and the command fails.
Record ==
    /\ at = "record"
    /\ \/ /\ History!RecordScan(lock, Recordable)
          /\ invocation' = [invocation EXCEPT ![lock] = Outcome]
          /\ UNCHANGED faults
       \/ /\ faults < MaxFaults
          /\ faults' = faults + 1
          /\ invocation' = [invocation EXCEPT ![lock] = "ERROR"]
          /\ UNCHANGED history
    /\ lock' = None
    /\ Reset
    /\ UNCHANGED <<estate, changes, kills>>

----
(* Administrators *)

\* A key that is not what it was is another key, or one used since: that the key
\* was dormant has not held throughout.
Change ==
    /\ changes < MaxChanges
    /\ changes' = changes + 1
    /\ \E a \in Elements(Accounts), setting \in DOMAIN Options :
         \E value \in Options[setting] \ {estate[a][setting]} :
            /\ estate' = [estate EXCEPT ![a][setting] = value]
            /\ held' = (held \cap {h.mark : h \in HoldingAll(estate')})
                       \ {m \in held : setting = "key" /\ m.control = "IAM-003" /\ m.account = a}
    /\ UNCHANGED <<invocation, lock, scanning, history, faults, kills>>

Scan ==
    \/ ResolveExternalId \/ OpenSession \/ ReadCall \/ CollectorCrash
    \/ Judge \/ RuleCrash \/ CloseScope \/ Record

Next ==
    \/ \E i \in Invocations : Begin(i) \/ Skip(i)
    \/ Kill \/ Scan \/ Change

Spec == Init /\ [][Next]_vars

----
(* Properties *)

\* A session of the account was refused in the region.
Refused(errors, account, region) ==
    \E e \in errors : e.service = "AWS Account" /\ e.account = account /\ e.region = region

\* The errors that say a scope may have been read in part only, or not at all.
\* Global services are read in the first session there is, so only if all the
\* regions' sessions failed do those errors concern them.
Concerns(errors, e, s) ==
    /\ e.account = s.account
    /\ \/ e.operation = "external-id"
       \/ e.region = s.region /\ e.service \in {s.service, "AWS"}
       \/ e.region = s.region /\ e.service = "AWS Account"
       \/ /\ s.region = "aws-global" /\ e.service = "AWS Account"
          /\ \A r \in Elements(Regions) : Refused(errors, s.account, r)

Degraded(errors, s) == \E e \in errors : Concerns(errors, e, s)

\* A report covers every configured scope once, as complete exactly when no
\* error concerns that scope: a failure in another account, region or service
\* takes nothing away, and none of its own is forgotten.  Its findings are all
\* in covered scopes, or the history would refuse the run; and it passes or
\* fails a gate exactly if every scope is complete and every session was had
\* ("can never be reported as a clean pass", auditor/fleet_scan.py:66-68): one
\* refused in a region where nothing was left to read degrades the run too.
CoverageExact ==
    at = "record" =>
        /\ \A s \in FleetScopes :
              report.coverage[s] = <<~Degraded(report.errors, s)>>
        /\ History!Valid(Recordable)
        /\ Outcome \in {"PASS", "FAIL"} <=>
              /\ \A s \in FleetScopes : report.coverage[s] = <<TRUE>>
              /\ ~\E e \in report.errors : e.service = "AWS Account"

\* The calls that decide a rule, next to the listings they are made for.
Decides(control) ==
    CASE control \in {"IAM-001", "IAM-006"} -> {"ListUsers", "GetLoginProfile", "ListMFADevices"}
      [] control = "IAM-002" -> {"ListUsers", "ListAccessKeys"}
      [] control = "IAM-003" -> {"ListUsers", "ListAccessKeys", "GetAccessKeyLastUsed"}
      [] control \in {"IAM-004", "IAM-005"} ->
            {"ListUsers", "UserPolicies", "ListGroups", "GroupPolicies", "ListRoles", "RolePolicies"}
      [] control = "S3-001" -> {"ListBuckets", "GetPublicAccessBlock"}
      [] control = "S3-002" -> {"ListBuckets", "GetPublicAccessBlock", "GetBucketAcl"}
      [] control = "S3-003" -> {"ListBuckets", "GetPublicAccessBlock", "GetBucketPolicy", "GetBucketPolicyStatus"}
      [] control = "S3-004" -> {"ListBuckets", "GetBucketEncryption"}
      [] control \in {"CT-001", "CT-002", "CT-003"} -> {"DescribeTrails"}
      [] control = "CT-004" -> {"DescribeTrails", "GetTrailStatus"}

\* Errors only take away or aggravate.  Of accounts that did not change, a scan
\* with whatever failures reports nothing that a scan without failures would
\* not; it misses or misjudges a finding only if an error of the report names
\* a call that decides the rule, or the loss of the service, scope or session;
\* and it never plays a finding down.  "Unknown state is not a finding"
\* (auditor/rules/iam_rules.py:54), nor is it an all-clear.
ErrorsOnlyObscure ==
    at = "record" /\ changes = 0 =>
        LET holding == HoldingAll(estate) IN
        /\ \A m \in Marks :
              report.findings[m] # None =>
                 \E h \in holding : h.mark = m /\ AtLeast(report.findings[m], h.severity)
        /\ \A h \in holding :
              report.findings[h.mark] # h.severity =>
                 \E e \in report.errors :
                    /\ Concerns(report.errors, e, ScopeOfMark[h.mark])
                    /\ e.operation \in Decides(h.control)
                          \cup {"collect", "scan", "assume-role", "verify-target", "external-id"}

\* What the drift of a run calls resolved did not hold at some moment of that
\* run's scan, whatever failed and changed while it read the accounts.
ResolvedIsReal ==
    [][\A i \in Invocations :
          fleetDrift[i] = None /\ fleetDrift'[i] # None =>
             \A m \in Marks : fleetDrift'[i][m] = "resolved" => m \notin held]_vars

\* "Skipping this invocation" is said only while a scan runs: an invocation
\* that was killed leaves nothing behind that would stop the next ones.
SkipsOnlyWhileRunning ==
    [][\A i \in Invocations :
          invocation[i] = "waiting" /\ invocation'[i] = "skipped" =>
             \E j \in Invocations : invocation[j] = "running"]_vars
====
