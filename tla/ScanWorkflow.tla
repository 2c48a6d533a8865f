---- MODULE ScanWorkflow ----
(***************************************************************************)
(* The scheduled-scan Step Functions state machine (stage1.tf) with the    *)
(* scan task, the snapshot-writer's receipts and failures, and the         *)
(* publisher Lambda, of which Publisher gives every storage call.  The     *)
(* private run history is RunLog, which PrivateStore implements.           *)
(*                                                                         *)
(* A run stands for its execution: CreateScanRunId gives each a UUID.      *)
(* Executions overlap: the schedule, its retries and operators start them. *)
(***************************************************************************)
EXTENDS Naturals

CONSTANTS
    Runs, Bodies, CompletedAt, ScanStatus, ScopesComplete, None,
    MaxTime,     \* bound on the clock
    Stage2       \* enable_stage2: the machine has the publication states

ASSUME WorkflowAssumption ==
    /\ MaxTime \in Nat
    /\ Stage2 \in BOOLEAN

VARIABLES
    clock,
    state,     \* run -> its execution's current state
    failedAt,  \* run -> EnteredTime of the failure state it went through
    writer,    \* run -> whether snapshot-writer invocations hold its report
    recorded,  \* private RUN# items and objects, as RunLog
    attempts,  \* private ATTEMPT# items
    objects, index, latest, status, call   \* the publisher's

pubVars == <<objects, index, latest, status, call>>
vars == <<clock, state, failedAt, writer, recorded, attempts, pubVars>>

Pub == INSTANCE Publisher WITH Workers <- Runs, Times <- 0..MaxTime

WholeHistory(S) == S

Log == INSTANCE RunLog WITH PriorOf <- WholeHistory

\* Publisher's assumptions, and that None is neither a time nor a set of runs.
ASSUME RunsAssumption ==
    /\ CompletedAt \in [Runs -> Nat]
    /\ ScanStatus \in [Runs -> Pub!ScanStatuses]
    /\ ScopesComplete \in [Runs -> BOOLEAN]
    /\ None \notin Runs \cup Bodies \cup Pub!Attempts \cup Pub!Outcomes
    /\ None \notin 0..MaxTime
    /\ \A S \in SUBSET Runs : S # None

ASSUME RunsFleetContract ==
    \A r \in Runs : ScanStatus[r] \in {"PASS", "FAIL"} => ScopesComplete[r]

----
(* States *)

Final == {"ScanSucceeded", "ScanFailed", "PublicationPaused", "Aborted"}

Working == {"ScanReadOnlyDemoAccount", "GetScanReceipt", "PublishSanitizedSnapshot",
            "RecordScanFailure", "PublishScanFailure", "RecordPublicationFailure"}

OnScanError_Unrecorded == "ScanFailed"

\* Catch of ScanReadOnlyDemoAccount and GetScanReceipt.
OnScanError == "RecordScanFailure"

OnPublishError_Succeeds == "ScanSucceeded"

OnPublishError_ScanFailure == "RecordScanFailure"

\* Catch of PublishSanitizedSnapshot.
OnPublishError == "RecordPublicationFailure"

\* scan-run-index has the run's RUN# item, and no ATTEMPT# item besides.
ReceiptFound(r) == recorded[r] # None /\ r \notin attempts

FailureTime_ScanStart(r) == 0

\* completed_at of a status event: the failure state's EnteredTime.
FailureTime(r) == failedAt[r]

Init ==
    /\ clock = 0
    /\ state = [r \in Runs |-> "NotStarted"]
    /\ failedAt = [r \in Runs |-> None]
    /\ writer = [r \in Runs |-> "none"]
    /\ attempts = {}
    /\ Log!Init
    /\ Pub!Init

----
(* Steps of an execution *)

Enter(r, s) == state' = [state EXCEPT ![r] = s]

\* A failure state is entered: its EnteredTime is the failure's time.
EnterFailure(r, s) == Enter(r, s) /\ failedAt' = [failedAt EXCEPT ![r] = clock]

Start(r) ==
    /\ state[r] = "NotStarted"
    /\ Enter(r, "ScanReadOnlyDemoAccount")
    /\ UNCHANGED <<clock, failedAt, writer, recorded, attempts, pubVars>>

\* run_scan_task invokes the snapshot writer with the finished report.  The
\* client may send it again; PrivateStore shows at most one invocation records.
Handoff(r) ==
    /\ state[r] = "ScanReadOnlyDemoAccount"
    /\ writer[r] = "none"
    /\ CompletedAt[r] <= clock
    /\ writer' = [writer EXCEPT ![r] = "running"]
    /\ UNCHANGED <<clock, state, failedAt, recorded, attempts, pubVars>>

\* The writer records the run, however the task that waited for it has ended:
\* the task's client gives up on a late answer before the writer's timeout.
Persist(r) ==
    /\ writer[r] = "running"
    /\ Log!Record(r)
    /\ writer' = [writer EXCEPT ![r] = "ended"]
    /\ UNCHANGED <<clock, state, failedAt, attempts, pubVars>>

\* The writer raised or died before the index item was written.
PersistFails(r) ==
    /\ writer[r] = "running"
    /\ writer' = [writer EXCEPT ![r] = "ended"]
    /\ UNCHANGED <<clock, state, failedAt, recorded, attempts, pubVars>>

\* The task ended with a valid receipt in its hands.
ScanEnds(r) ==
    /\ state[r] = "ScanReadOnlyDemoAccount"
    /\ recorded[r] # None
    /\ Enter(r, "GetScanReceipt")
    /\ UNCHANGED <<clock, failedAt, writer, recorded, attempts, pubVars>>

\* Catch States.ALL: no task, a failed scan, or a persist that raised, was not
\* answered in time, or whose lock release failed after the run was recorded.
ScanFails(r) ==
    /\ state[r] = "ScanReadOnlyDemoAccount"
    /\ EnterFailure(r, OnScanError)
    /\ UNCHANGED <<clock, writer, recorded, attempts, pubVars>>

\* Next is PublishSanitizedSnapshot, whose Lambda is invoked on entry.
GetReceipt(r) ==
    /\ state[r] = "GetScanReceipt"
    /\ ReceiptFound(r)
    /\ IF Stage2
       THEN /\ Enter(r, "PublishSanitizedSnapshot")
            /\ \E b \in Bodies : Pub!InvokePublish(r, r, b)
       ELSE Enter(r, "ScanSucceeded") /\ UNCHANGED pubVars
    /\ UNCHANGED <<clock, failedAt, writer, recorded, attempts>>

\* The receipt call failed, or the eventually consistent scan-run-index did
\* not show the run in five reads.
GetReceiptFails(r) ==
    /\ state[r] = "GetScanReceipt"
    /\ EnterFailure(r, OnScanError)
    /\ UNCHANGED <<clock, writer, recorded, attempts, pubVars>>

RecordScanFailure(r) ==
    /\ state[r] = "RecordScanFailure"
    /\ attempts' = attempts \cup {r}
    /\ IF Stage2
       THEN Enter(r, "PublishScanFailure") /\ Pub!InvokeStatus(r, "scan_failure", FailureTime(r))
       ELSE Enter(r, "ScanFailed") /\ UNCHANGED pubVars
    /\ UNCHANGED <<clock, failedAt, writer, recorded>>

\* A failure state has no Catch: when its call fails, with or without having
\* taken effect, so does the execution.
RecordScanFailureAborts(r) ==
    /\ state[r] = "RecordScanFailure"
    /\ attempts' \in {attempts, attempts \cup {r}}
    /\ Enter(r, "Aborted")
    /\ UNCHANGED <<clock, failedAt, writer, recorded, pubVars>>

\* A storage call of the publisher's invocation, or its death.
PublisherStep(r) ==
    /\ Pub!Progress(r) \/ Pub!Fail(r)
    /\ UNCHANGED <<clock, state, failedAt, writer, recorded, attempts>>

PublishReturns(r) ==
    /\ state[r] = "PublishSanitizedSnapshot" /\ call[r].pc = "done"
    /\ Enter(r, "ScanSucceeded")
    /\ UNCHANGED <<clock, failedAt, writer, recorded, attempts, pubVars>>

\* Catch States.ALL; the publisher is invoked again to record the failure.
PublishFails(r) ==
    /\ state[r] = "PublishSanitizedSnapshot" /\ call[r].pc = "failed"
    /\ EnterFailure(r, OnPublishError)
    /\ Pub!InvokeStatus(r, "publication_failure", clock)
    /\ UNCHANGED <<clock, writer, recorded, attempts>>

StatusReturns(r) ==
    /\ call[r].pc = "done"
    /\ \/ state[r] = "PublishScanFailure" /\ Enter(r, "ScanFailed")
       \/ state[r] = "RecordPublicationFailure" /\ Enter(r, "PublicationPaused")
    /\ UNCHANGED <<clock, failedAt, writer, recorded, attempts, pubVars>>

StatusAborts(r) ==
    /\ call[r].pc = "failed"
    /\ state[r] \in {"PublishScanFailure", "RecordPublicationFailure"}
    /\ Enter(r, "Aborted")
    /\ UNCHANGED <<clock, failedAt, writer, recorded, attempts, pubVars>>

Tick ==
    /\ clock < MaxTime
    /\ clock' = clock + 1
    /\ UNCHANGED <<state, failedAt, writer, recorded, attempts, pubVars>>

Execute(r) ==
    \/ Handoff(r)
    \/ ScanEnds(r)
    \/ ScanFails(r)
    \/ GetReceipt(r)
    \/ GetReceiptFails(r)
    \/ RecordScanFailure(r)
    \/ RecordScanFailureAborts(r)
    \/ PublisherStep(r)
    \/ PublishReturns(r)
    \/ PublishFails(r)
    \/ StatusReturns(r)
    \/ StatusAborts(r)

Next ==
    \/ Tick
    \/ \E r \in Runs :
          \/ Start(r)
          \/ Execute(r)
          \/ Persist(r)
          \/ PersistFails(r)

\* Step Functions moves every execution on: a task ends, or times out and is
\* caught; a Lambda ends by its timeout.
Spec == Init /\ [][Next]_vars /\ \A r \in Runs : WF_vars(Execute(r))

----
(* Properties *)

IsComplete(r) == Pub!IsComplete(r)

\* The execution's and the private store's variables have their shapes; an
\* execution that went through a failure state has not succeeded.
TypeOK ==
    /\ clock \in 0..MaxTime
    /\ state \in [Runs -> {"NotStarted"} \cup Working \cup Final]
    /\ failedAt \in [Runs -> (0..MaxTime) \cup {None}]
    /\ writer \in [Runs -> {"none", "running", "ended"}]
    /\ attempts \subseteq {r \in Runs : failedAt[r] # None}
    /\ \A r \in Runs : failedAt[r] # None => state[r] # "ScanSucceeded"

\* Readers are shown only recorded scans, and never one whose attempt the
\* private history lists as failed.
ServedNotFailed == latest # None => recorded[latest] # None /\ latest \notin attempts

\* An execution that succeeded left its run in the private history, itself or
\* a newer attempt in LATEST_STATUS, and, when it was complete, itself or a
\* newer scan as LATEST, whatever other executions did meanwhile.
SuccessHolds ==
    \A r \in Runs : state[r] = "ScanSucceeded" =>
        /\ recorded[r] # None
        /\ Stage2 =>
              /\ status # None /\ CompletedAt[r] <= status.at
              /\ IsComplete(r) => latest # None /\ CompletedAt[r] <= CompletedAt[latest]

\* An execution that ended in a failure state left the failure where operators
\* and readers look: an ATTEMPT# item for a failed scan, and a LATEST_STATUS
\* that is this failure or a later attempt.
FailureVisible ==
    \A r \in Runs :
        /\ state[r] = "ScanFailed" => r \in attempts
        /\ state[r] = "PublicationPaused" \/ (state[r] = "ScanFailed" /\ Stage2) =>
              status # None /\ failedAt[r] <= status.at

\* No scan is lost: each started one ends up in the run history or among the
\* failed attempts, unless recording its failure failed as well.
EveryScanAccounted ==
    \A r \in Runs : state[r] = "ScanReadOnlyDemoAccount" ~>
        recorded[r] # None \/ r \in attempts \/ state[r] = "Aborted"
====
