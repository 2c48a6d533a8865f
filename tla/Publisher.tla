---- MODULE Publisher ----
(***************************************************************************)
(* The publisher Lambda (phase3/publisher.py): publish_snapshot and the    *)
(* S3/DynamoDB public store.  A worker is one Lambda invocation; every     *)
(* storage call is a step of its own, so invocations interleave, are       *)
(* retried by Step Functions or the scheduler, and die between two calls.  *)
(*                                                                         *)
(* A storage call either answers (the worker goes on), takes effect with   *)
(* its answer lost and is sent again by botocore (the worker stays), or    *)
(* raises (Fail, with or without the effect having happened before).       *)
(***************************************************************************)
EXTENDS Naturals

CONSTANTS
    Runs,               \* scan runs; a run's snapshot_id is HMAC(run_id)
    Workers,            \* concurrent Lambda invocations
    Bodies,             \* bytes a deployed redactor renders a run to
    CompletedAt,        \* run -> completed_at, a second-resolution UTC time
    ScanStatus,         \* run -> PASS, FAIL, UNKNOWN or ERROR
    ScopesComplete,     \* run -> complete_scopes > 0 and incomplete_scopes = 0
    Times,              \* times at which the workflow enters a failure state
    None

ScanStatuses == {"PASS", "FAIL", "UNKNOWN", "ERROR"}

Attempts ==
    {a \in [scan : ScanStatuses, publication : {"READY", "PAUSED"}, at : Nat] :
        a.publication = "PAUSED" => a.scan = "ERROR"}

Outcomes == {"PUBLISHED", "STALE_IGNORED", "RETAINED_LAST_GOOD", "STATUS_RECORDED"}

ASSUME PublisherAssumption ==
    /\ CompletedAt \in [Runs -> Nat]
    /\ ScanStatus \in [Runs -> ScanStatuses]
    /\ ScopesComplete \in [Runs -> BOOLEAN]
    /\ Times \subseteq Nat
    /\ None \notin Runs \cup Bodies \cup Attempts \cup Outcomes

\* A scan is PASS or FAIL only when no collector reported an error, and a
\* scope is incomplete only when one did (fleet_scan.py, classify_scan).
ASSUME FleetContract ==
    \A r \in Runs : ScanStatus[r] \in {"PASS", "FAIL"} => ScopesComplete[r]

VARIABLES
    objects,  \* S3 results bucket: snapshots/<id>.json -> body
    index,    \* DynamoDB RUN# items
    latest,   \* DynamoDB LATEST item: the run it points to
    status,   \* DynamoDB LATEST_STATUS item
    call      \* worker -> its invocation

vars == <<objects, index, latest, status, call>>

----
(* Data *)

PublishSteps == {"put_object", "put_run_index", "update_latest", "reread_latest"}

Steps == PublishSteps \cup {"record_attempt"}

Calls ==
    {c \in [pc : Steps \cup {"idle", "done", "failed"},
            run : Runs \cup {None},
            body : Bodies \cup {None},
            attempt : Attempts \cup {None},
            outcome : Outcomes \cup {None}] :
        c.pc \in PublishSteps => c.run \in Runs /\ c.body \in Bodies}

NoCall == [pc |-> "idle", run |-> None, body |-> None, attempt |-> None, outcome |-> None]

\* publish_snapshot's test for data that may replace the last good snapshot.
IsComplete(r) == ScanStatus[r] \in {"PASS", "FAIL"} /\ ScopesComplete[r]

\* The LATEST_STATUS item a scan, or a scan_failure / publication_failure
\* event, asks for.
ScanAttempt(r) == [scan |-> ScanStatus[r], publication |-> "READY", at |-> CompletedAt[r]]

FailureAttempt_Unclassified(kind, t) ==
    [scan |-> IF kind = "scan_failure" THEN "ERROR" ELSE "UNKNOWN",
     publication |-> IF kind = "publication_failure" THEN "PAUSED" ELSE "READY", at |-> t]

FailureAttempt(kind, t) ==
    [scan |-> "ERROR",
     publication |-> IF kind = "publication_failure" THEN "PAUSED" ELSE "READY", at |-> t]

ObjectVacant_Overwrites(r) == TRUE

\* put_object with IfNoneMatch = "*".
ObjectVacant(r) == objects[r] = None

Supersedes_Always(r) == TRUE

\* ConditionExpression of the LATEST update: strictly newer.
Supersedes(r) == latest # None => CompletedAt[latest] < CompletedAt[r]

StatusAdmits_AnyOrder(a) == TRUE

\* ConditionExpression of the LATEST_STATUS update: as new or newer.
StatusAdmits(a) == status # None => status.at <= a.at

StepAfter_PointerFirst ==
    [put_object |-> "update_latest", put_run_index |-> "record_attempt",
     update_latest |-> "put_run_index"]

\* Order of the calls publish makes, record_attempt being the caller's.
StepAfter ==
    [put_object |-> "put_run_index", put_run_index |-> "update_latest",
     update_latest |-> "record_attempt"]

RereadOutcome_Optimistic(r) == "PUBLISHED"

\* publish's answer after its conditional update was refused.
RereadOutcome(r) == IF latest = r THEN "PUBLISHED" ELSE "STALE_IGNORED"

FirstStep_StatusFirst(r) == "record_attempt"

FirstStep_PassOnly(r) == IF ScanStatus[r] = "PASS" THEN "put_object" ELSE "record_attempt"

\* Only a complete scan touches the object, the index and the pointer.
FirstStep(r) == IF IsComplete(r) THEN "put_object" ELSE "record_attempt"

----
(* Steps *)

Init ==
    /\ objects = [r \in Runs |-> None]
    /\ index = {}
    /\ latest = None
    /\ status = None
    /\ call = [w \in Workers |-> NoCall]

\* The worker's storage call answered, or took effect and is sent again.
Answered(w, next) == call' \in {next, call}

Goto(w, step) == [call EXCEPT ![w].pc = step]

\* A receipt event: the private report was read and redacted to body b.
InvokePublish(w, r, b) ==
    /\ call[w].pc \notin Steps
    /\ call' = [call EXCEPT ![w] =
                  [pc |-> FirstStep(r), run |-> r, body |-> b, attempt |-> ScanAttempt(r),
                   outcome |-> IF IsComplete(r) THEN None ELSE "RETAINED_LAST_GOOD"]]
    /\ UNCHANGED <<objects, index, latest, status>>

\* A scan_failure or publication_failure event.
InvokeStatus(w, kind, t) ==
    /\ call[w].pc \notin Steps
    /\ call' = [call EXCEPT ![w] =
                  [pc |-> "record_attempt", run |-> None, body |-> None,
                   attempt |-> FailureAttempt(kind, t), outcome |-> "STATUS_RECORDED"]]
    /\ UNCHANGED <<objects, index, latest, status>>

PutObject(w) ==
    /\ call[w].pc = "put_object"
    /\ ObjectVacant(call[w].run)
    /\ objects' = [objects EXCEPT ![call[w].run] = call[w].body]
    /\ Answered(w, Goto(w, StepAfter["put_object"]))
    /\ UNCHANGED <<index, latest, status>>

\* 412: the key is taken, and must hold the same bytes.
VerifyObject(w) ==
    /\ call[w].pc = "put_object"
    /\ ~ObjectVacant(call[w].run)
    /\ call' = Goto(w, IF objects[call[w].run] = call[w].body
                       THEN StepAfter["put_object"] ELSE "failed")
    /\ UNCHANGED <<objects, index, latest, status>>

\* The RUN# key carries the snapshot id, so a refused put finds the same id.
PutRunIndex(w) ==
    /\ call[w].pc = "put_run_index"
    /\ index' = index \cup {call[w].run}
    /\ Answered(w, Goto(w, StepAfter["put_run_index"]))
    /\ UNCHANGED <<objects, latest, status>>

UpdateLatest(w) ==
    /\ call[w].pc = "update_latest"
    /\ Supersedes(call[w].run)
    /\ latest' = call[w].run
    /\ Answered(w, [call EXCEPT ![w].pc = StepAfter["update_latest"], ![w].outcome = "PUBLISHED"])
    /\ UNCHANGED <<objects, index, status>>

\* ConditionalCheckFailed; the pointer is read back in a later call.
RefuseLatest(w) ==
    /\ call[w].pc = "update_latest"
    /\ ~Supersedes(call[w].run)
    /\ call' = Goto(w, "reread_latest")
    /\ UNCHANGED <<objects, index, latest, status>>

RereadLatest(w) ==
    /\ call[w].pc = "reread_latest"
    /\ call' = [call EXCEPT ![w].pc = StepAfter["update_latest"],
                            ![w].outcome = RereadOutcome(call[w].run)]
    /\ UNCHANGED <<objects, index, latest, status>>

RecordAttempt(w) ==
    /\ call[w].pc = "record_attempt"
    /\ StatusAdmits(call[w].attempt)
    /\ status' = call[w].attempt
    /\ Answered(w, Goto(w, "done"))
    /\ UNCHANGED <<objects, index, latest>>

\* A refused status update is ignored: a newer attempt is already recorded.
SkipAttempt(w) ==
    /\ call[w].pc = "record_attempt"
    /\ ~StatusAdmits(call[w].attempt)
    /\ call' = Goto(w, "done")
    /\ UNCHANGED <<objects, index, latest, status>>

\* PublicationError, a storage call that raised, or the invocation killed.
Fail(w) ==
    /\ call[w].pc \in Steps
    /\ call' = Goto(w, "failed")
    /\ UNCHANGED <<objects, index, latest, status>>

Progress(w) ==
    \/ PutObject(w)
    \/ VerifyObject(w)
    \/ PutRunIndex(w)
    \/ UpdateLatest(w)
    \/ RefuseLatest(w)
    \/ RereadLatest(w)
    \/ RecordAttempt(w)
    \/ SkipAttempt(w)

Next ==
    \E w \in Workers :
        \/ \E r \in Runs, b \in Bodies : InvokePublish(w, r, b)
        \/ \E kind \in {"scan_failure", "publication_failure"}, t \in Times :
              InvokeStatus(w, kind, t)
        \/ Progress(w)
        \/ Fail(w)

Spec == Init /\ [][Next]_vars

----
(* Properties *)

\* Every stored item has its shape; only an ERROR attempt pauses publication.
TypeOK ==
    /\ objects \in [Runs -> Bodies \cup {None}]
    /\ index \subseteq Runs
    /\ latest \in Runs \cup {None}
    /\ status \in Attempts \cup {None}
    /\ call \in [Workers -> Calls]

\* Whatever instant a reader follows LATEST, the run it names is complete and
\* its object and RUN# item exist, although the three are written by separate
\* calls of invocations that may die between them.
PointerServable ==
    latest # None => /\ objects[latest] # None
                     /\ latest \in index
                     /\ IsComplete(latest)

\* LATEST_STATUS never announces a complete scan the pointer has not reached:
\* "The latest complete scan is available" is true when it is shown.
StatusNotAhead ==
    status # None /\ status.scan \in {"PASS", "FAIL"} =>
        latest # None /\ status.at <= CompletedAt[latest]

\* An invocation's answer is still true when the caller reads it: PUBLISHED
\* means these bytes are stored and the pointer is at this run or a newer one,
\* STALE_IGNORED that another run as new or newer holds the pointer, and
\* RETAINED_LAST_GOOD that the scan was not complete.
RepliesHonest ==
    \A w \in Workers : call[w].pc = "done" =>
        LET r == call[w].run IN
        /\ call[w].outcome \in {"PUBLISHED", "STALE_IGNORED"} =>
              /\ objects[r] = call[w].body
              /\ latest # None /\ CompletedAt[r] <= CompletedAt[latest]
        /\ call[w].outcome = "PUBLISHED" =>
              latest = r \/ CompletedAt[r] < CompletedAt[latest]
        /\ call[w].outcome = "STALE_IGNORED" => latest # r
        /\ call[w].outcome = "RETAINED_LAST_GOOD" => ~IsComplete(r)

\* The attempt shown to readers never goes back in time, whichever of two
\* concurrent executions reports last.
StatusNeverRegresses ==
    [][status # None => status' # None /\ status.at <= status'.at]_status

\* What readers see through the pointer changes only by the abstract swap.
Shown == IF latest = None THEN None ELSE [run |-> latest, body |-> objects[latest]]

Site == INSTANCE PublicSite WITH
            shown <- Shown, Publishable <- {r \in Runs : IsComplete(r)}

\* The publisher implements PublicSite: no interleaving or crash of
\* invocations shows an older, incomplete, missing or rewritten snapshot.
ImplementsPublicSite == Site!Spec
====
