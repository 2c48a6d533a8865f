---- MODULE ScanWorkflow_proofs ----
(***************************************************************************)
(* Proofs about ScanWorkflow for any runs, bodies, clock and stage.  The   *)
(* publisher's part comes from Publisher_proofs: an execution's worker is  *)
(* the run itself, and the invariant ties its state to its invocation.     *)
(***************************************************************************)
EXTENDS ScanWorkflow, TLAPS

PP == INSTANCE Publisher_proofs WITH Workers <- Runs, Times <- 0..MaxTime

\* States an execution reaches once its scan may be published.
Publishing ==
    {"PublishSanitizedSnapshot", "ScanSucceeded", "RecordPublicationFailure",
     "PublicationPaused", "Aborted"}

Failing ==
    {"RecordScanFailure", "PublishScanFailure", "RecordPublicationFailure", "ScanFailed",
     "PublicationPaused", "Aborted"}

\* TypeOK, with the run history and the link from a failure's time to its state.
Typed ==
    /\ clock \in 0..MaxTime
    /\ state \in [Runs -> {"NotStarted"} \cup Working \cup Final]
    /\ failedAt \in [Runs -> (0..MaxTime) \cup {None}]
    /\ writer \in [Runs -> {"none", "running", "ended"}]
    /\ recorded \in [Runs -> (SUBSET Runs) \cup {None}]
    /\ \A r \in Runs : failedAt[r] # None => state[r] \in Failing
    /\ \A r \in Runs : r \in attempts => failedAt[r] # None
    /\ attempts \subseteq Runs

\* Only an execution past GetScanReceipt publishes, its own run, recorded and
\* not listed as failed; so a failed scan was never published.
ServedInv(r) ==
    /\ call[r].run \in {r, None}
    /\ latest = r \/ call[r].run # None =>
          state[r] \in Publishing /\ recorded[r] # None /\ r \notin attempts

\* What an execution has reached, or asked of its invocation, by its state.
StateInv(r) ==
    /\ state[r] = "GetScanReceipt" => recorded[r] # None
    /\ state[r] = "PublishSanitizedSnapshot" => call[r].run = r
    /\ state[r] \in {"RecordScanFailure", "PublishScanFailure", "RecordPublicationFailure"} =>
          failedAt[r] # None
    /\ state[r] \in {"PublishScanFailure", "RecordPublicationFailure"} =>
          call[r].attempt.at = failedAt[r]
    /\ state[r] \in {"PublishScanFailure", "ScanFailed"} => r \in attempts

\* What readers see of an execution that has ended.
EndInv(r) ==
    /\ state[r] = "ScanSucceeded" =>
          /\ recorded[r] # None
          /\ Stage2 =>
                /\ status # None /\ CompletedAt[r] <= status.at
                /\ IsComplete(r) => latest # None /\ CompletedAt[r] <= CompletedAt[latest]
    /\ state[r] = "PublicationPaused" \/ (state[r] = "ScanFailed" /\ Stage2) =>
          failedAt[r] # None /\ status # None /\ failedAt[r] <= status.at

RunInv(r) == ServedInv(r) /\ StateInv(r) /\ EndInv(r)

IInv ==
    /\ Typed
    /\ PP!IndInv
    /\ PP!DoneRecorded
    /\ \A r \in Runs : RunInv(r)

----
(* What the publisher keeps *)

\* The publisher instantiated here and the one the lemmas are about are the same.
LEMMA SamePublisher ==
    /\ Pub!Init <=> PP!Init
    /\ \A r : Pub!Progress(r) <=> PP!Progress(r)
    /\ \A r : Pub!Fail(r) <=> PP!Fail(r)
    /\ \A w, r, b : Pub!InvokePublish(w, r, b) <=> PP!InvokePublish(w, r, b)
    /\ \A w, kind, t : Pub!InvokeStatus(w, kind, t) <=> PP!InvokeStatus(w, kind, t)
    /\ \A r : Pub!IsComplete(r) <=> PP!IsComplete(r)
<1>1. Pub!Init <=> PP!Init
  BY DEF Pub!Init, PP!Init, Pub!NoCall, PP!NoCall
<1>2. \A r : Pub!Progress(r) <=> PP!Progress(r)
  BY DEF Pub!Progress, PP!Progress, Pub!PutObject, PP!PutObject, Pub!VerifyObject,
         PP!VerifyObject, Pub!PutRunIndex, PP!PutRunIndex, Pub!UpdateLatest, PP!UpdateLatest,
         Pub!RefuseLatest, PP!RefuseLatest, Pub!RereadLatest, PP!RereadLatest,
         Pub!RecordAttempt, PP!RecordAttempt, Pub!SkipAttempt, PP!SkipAttempt,
         Pub!Goto, PP!Goto, Pub!Answered, PP!Answered, Pub!StepAfter, PP!StepAfter,
         Pub!StatusAdmits, PP!StatusAdmits, Pub!Supersedes, PP!Supersedes,
         Pub!ObjectVacant, PP!ObjectVacant, Pub!RereadOutcome, PP!RereadOutcome
<1>3. \A r : Pub!Fail(r) <=> PP!Fail(r)
  BY DEF Pub!Fail, PP!Fail, Pub!Goto, PP!Goto, Pub!Steps, PP!Steps,
         Pub!PublishSteps, PP!PublishSteps
<1>4. \A w, r, b : Pub!InvokePublish(w, r, b) <=> PP!InvokePublish(w, r, b)
  BY DEF Pub!InvokePublish, PP!InvokePublish, Pub!FirstStep, PP!FirstStep, Pub!Steps,
         PP!Steps, Pub!PublishSteps, PP!PublishSteps, Pub!IsComplete, PP!IsComplete,
         Pub!ScanAttempt, PP!ScanAttempt
<1>5. \A w, kind, t : Pub!InvokeStatus(w, kind, t) <=> PP!InvokeStatus(w, kind, t)
  BY DEF Pub!InvokeStatus, PP!InvokeStatus, Pub!Steps, PP!Steps, Pub!PublishSteps,
         PP!PublishSteps, Pub!FailureAttempt, PP!FailureAttempt
<1>6. \A r : Pub!IsComplete(r) <=> PP!IsComplete(r)
  BY DEF Pub!IsComplete, PP!IsComplete
<1> QED BY <1>1, <1>2, <1>3, <1>4, <1>5, <1>6

\* The assumptions of Publisher hold of the instance.
LEMMA SameAssumptions ==
    /\ CompletedAt \in [Runs -> Nat]
    /\ ScanStatus \in [Runs -> PP!ScanStatuses]
    /\ ScopesComplete \in [Runs -> BOOLEAN]
    /\ 0..MaxTime \subseteq Nat
    /\ None \notin Runs \cup Bodies \cup PP!Attempts \cup PP!Outcomes
BY RunsAssumption, WorkflowAssumption
   DEF Pub!Attempts, PP!Attempts, Pub!Outcomes, PP!Outcomes, Pub!ScanStatuses, PP!ScanStatuses

\* The run's invocation takes its step in the publisher.
PublisherMoves(r) ==
    \/ Pub!Progress(r) \/ Pub!Fail(r)
    \/ \E b \in Bodies : Pub!InvokePublish(r, r, b)
    \/ \E kind \in {"scan_failure", "publication_failure"}, t \in 0..MaxTime :
          Pub!InvokeStatus(r, kind, t)

\* What readers see of the attempts and of the scans only gets newer.
SiteAdvances ==
    /\ status # None => status' # None /\ status.at <= status'.at
    /\ latest # None => latest' # None /\ CompletedAt[latest] <= CompletedAt[latest']

\* Such a step keeps the publisher's invariant and advances what readers see.
LEMMA PublisherStepKeeps ==
    ASSUME PP!IndInv, PP!DoneRecorded,
           UNCHANGED pubVars \/ \E r \in Runs : PublisherMoves(r)
    PROVE  PP!IndInv' /\ PP!DoneRecorded' /\ SiteAdvances
<1>1. [PP!Next]_PP!vars
  BY SamePublisher DEF PublisherMoves, PP!Next, PP!vars, pubVars
<1>2. PP!IndInv' /\ PP!DoneRecorded' /\ PP!TablesAdvance
  BY <1>1, SameAssumptions, RunsFleetContract, PP!IndStep, PP!DoneStep, PP!StepAdvances
<1>3. [status # None => status' # None /\ status.at <= status'.at]_status
  BY <1>1, SameAssumptions, RunsFleetContract, PP!StatusStep
<1>4. status # None => status.at \in Nat
  BY DEF PP!IndInv, PP!TypeOK, PP!Attempts
<1>5. latest # None => CompletedAt[latest] \in Nat
  BY SameAssumptions DEF PP!IndInv, PP!TypeOK
<1>6. latest' # latest /\ latest # None =>
         latest' # None /\ CompletedAt[latest] <= CompletedAt[latest']
  BY <1>2, <1>5, SameAssumptions DEF PP!TablesAdvance
<1> QED BY <1>2, <1>3, <1>4, <1>5, <1>6 DEF SiteAdvances

\* An invocation of run r leaves the other invocations alone, and the pointer
\* to the others.
LEMMA PublisherLocal ==
    ASSUME IInv, NEW r \in Runs, UNCHANGED pubVars \/ PublisherMoves(r)
    PROVE  /\ \A s \in Runs \ {r} : call'[s] = call[s] /\ (latest' = s => latest = s)
           /\ latest' = r => latest = r \/ call[r].run = r
<1>1. call \in [Runs -> PP!Calls] /\ call[r].run \in {r, None} /\ None \notin Runs
  BY SameAssumptions DEF IInv, RunInv, ServedInv, PP!IndInv, PP!TypeOK
<1>2. CASE Pub!Progress(r) \/ Pub!Fail(r)
  <2>1. /\ \A v \in Runs \ {r} : call'[v] = call[v]
        /\ latest' = latest \/ (latest' = call[r].run /\ call[r].run \in Runs)
    BY <1>2, SamePublisher, SameAssumptions, RunsFleetContract, PP!StepLocal DEF IInv
  <2> QED BY <1>1, <2>1
<1>3. ASSUME NEW b \in Bodies, Pub!InvokePublish(r, r, b)
      PROVE  latest' = latest /\ \A s \in Runs \ {r} : call'[s] = call[s]
  BY <1>1, <1>3 DEF Pub!InvokePublish
<1>4. ASSUME NEW kind, NEW t, Pub!InvokeStatus(r, kind, t)
      PROVE  latest' = latest /\ \A s \in Runs \ {r} : call'[s] = call[s]
  BY <1>1, <1>4 DEF Pub!InvokeStatus
<1> QED BY <1>2, <1>3, <1>4 DEF PublisherMoves, pubVars

----
(* The steps of an execution *)

\* The step leaves what the invariant says of run s untouched, or better.
Kept(s) ==
    /\ state'[s] = state[s] /\ failedAt'[s] = failedAt[s]
    /\ call'[s].run = call[s].run /\ call'[s].attempt = call[s].attempt
    /\ recorded[s] # None => recorded'[s] # None
    /\ s \in attempts' <=> s \in attempts
    /\ latest' = s => latest = s \/ call[s].run = s

LEMMA KeptRun ==
    ASSUME IInv, PP!IndInv', SiteAdvances, NEW s \in Runs, Kept(s)
    PROVE  RunInv(s)'
<1>1. ServedInv(s) /\ StateInv(s) /\ EndInv(s) /\ None \notin Runs
  BY SameAssumptions DEF IInv, RunInv
<1>2. CompletedAt[s] \in Nat /\ failedAt[s] \in Nat \cup {None}
  BY SameAssumptions DEF IInv, Typed
<1>3. /\ status # None => status.at \in Nat /\ status'.at \in Nat
      /\ latest # None => CompletedAt[latest] \in Nat /\ CompletedAt[latest'] \in Nat
  <2>1. status \in PP!Attempts \cup {None} /\ status' \in PP!Attempts \cup {None}
    BY DEF IInv, PP!IndInv, PP!TypeOK
  <2>2. latest \in Runs \cup {None} /\ latest' \in Runs \cup {None}
    BY DEF IInv, PP!IndInv, PP!TypeOK
  <2>3. status # None => status.at \in Nat /\ status'.at \in Nat
    BY <2>1 DEF SiteAdvances, PP!Attempts
  <2>4. latest # None => CompletedAt[latest] \in Nat /\ CompletedAt[latest'] \in Nat
    BY <2>2, SameAssumptions DEF SiteAdvances
  <2> QED BY <2>3, <2>4
<1>4. ServedInv(s)'
  BY <1>1 DEF Kept, ServedInv
<1>5. StateInv(s)'
  BY <1>1 DEF Kept, StateInv
<1>6. EndInv(s)'
  BY <1>1, <1>2, <1>3 DEF Kept, EndInv, SiteAdvances, IsComplete, Pub!IsComplete
<1> QED BY <1>4, <1>5, <1>6 DEF RunInv

\* A step of run r keeps the invariant if it does so for r.
LEMMA StepOf ==
    ASSUME IInv, Typed', NEW r \in Runs, UNCHANGED pubVars \/ PublisherMoves(r),
           \A s \in Runs \ {r} :
              /\ state'[s] = state[s] /\ failedAt'[s] = failedAt[s]
              /\ recorded[s] # None => recorded'[s] # None
              /\ s \in attempts' <=> s \in attempts,
           PP!IndInv' /\ PP!DoneRecorded' /\ SiteAdvances => RunInv(r)'
    PROVE  IInv'
<1>1. PP!IndInv' /\ PP!DoneRecorded' /\ SiteAdvances
  BY PublisherStepKeeps DEF IInv
<1>2. ASSUME NEW s \in Runs \ {r} PROVE RunInv(s)'
  <2>1. Kept(s)
    BY PublisherLocal DEF Kept
  <2> QED BY <1>1, <2>1, KeptRun
<1> QED BY <1>1, <1>2 DEF IInv

\* What a step of run r starts from.
LEMMA OfRun ==
    ASSUME IInv, NEW r \in Runs
    PROVE  /\ Typed /\ ServedInv(r) /\ StateInv(r) /\ EndInv(r)
           /\ failedAt[r] \in 0..MaxTime \cup {None} /\ clock # None /\ clock \in 0..MaxTime
           /\ None \notin Runs
BY RunsAssumption DEF IInv, RunInv, Typed

\* Steps outside the failure states, with no call of the publisher.
LEMMA TickStep ==
    ASSUME IInv, Tick PROVE IInv'
<1>1. Typed'
  <2>1. clock' \in 0..MaxTime
    BY WorkflowAssumption DEF Tick, IInv, Typed
  <2> QED BY <2>1 DEF Tick, IInv, Typed
<1>2. PP!IndInv' /\ PP!DoneRecorded' /\ SiteAdvances
  BY PublisherStepKeeps DEF IInv, Tick
<1>3. ASSUME NEW s \in Runs PROVE RunInv(s)'
  <2>1. Kept(s)
    BY DEF Tick, pubVars, Kept
  <2> QED BY <1>2, <2>1, KeptRun
<1> QED BY <1>1, <1>2, <1>3 DEF IInv

LEMMA StartStep ==
    ASSUME IInv, NEW r \in Runs, Start(r) PROVE IInv'
<1>1. Typed'
  BY DEF Start, Enter, IInv, Typed, Working, Final, Failing
<1>2. state'[r] = "ScanReadOnlyDemoAccount" /\ \A s \in Runs \ {r} : state'[s] = state[s]
  BY DEF Start, Enter, IInv, Typed
<1>3. RunInv(r)'
  BY <1>2, OfRun
     DEF Start, pubVars, RunInv, ServedInv, StateInv, EndInv, Publishing
<1> QED BY <1>1, <1>2, <1>3, StepOf DEF Start

LEMMA WriterStep ==
    ASSUME IInv, NEW r \in Runs, Handoff(r) \/ Persist(r) \/ PersistFails(r) PROVE IInv'
<1>1. recorded' = recorded \/ Log!Record(r)
  BY DEF Handoff, Persist, PersistFails
<1>2. recorded' \in [Runs -> (SUBSET Runs) \cup {None}] /\ \A s \in Runs : recorded[s] # None => recorded'[s] # None
  <2>1. WholeHistory(Log!Recorded) \in SUBSET Runs /\ WholeHistory(Log!Recorded) # None
    BY RunsAssumption DEF WholeHistory, Log!Recorded
  <2> QED BY <1>1, <2>1 DEF Log!Record, IInv, Typed
<1>3. Typed'
  BY <1>2 DEF Handoff, Persist, PersistFails, IInv, Typed
<1>4. UNCHANGED <<state, failedAt, attempts, pubVars>>
  BY DEF Handoff, Persist, PersistFails
<1>5. PP!IndInv' /\ PP!DoneRecorded' /\ SiteAdvances
  BY <1>4, PublisherStepKeeps DEF IInv
<1>6. ASSUME NEW s \in Runs PROVE RunInv(s)'
  <2>1. Kept(s)
    BY <1>2, <1>4 DEF pubVars, Kept
  <2> QED BY <1>5, <2>1, KeptRun
<1> QED BY <1>3, <1>5, <1>6 DEF IInv

LEMMA ScanEndsStep ==
    ASSUME IInv, NEW r \in Runs, ScanEnds(r) PROVE IInv'
<1>1. Typed'
  BY DEF ScanEnds, Enter, IInv, Typed, Working, Final, Failing
<1>2. state'[r] = "GetScanReceipt" /\ \A s \in Runs \ {r} : state'[s] = state[s]
  BY DEF ScanEnds, Enter, IInv, Typed
<1>3. RunInv(r)'
  BY <1>2, OfRun DEF ScanEnds, pubVars, RunInv, ServedInv, StateInv, EndInv, Publishing
<1> QED BY <1>1, <1>2, <1>3, StepOf DEF ScanEnds

\* A scan that failed, or whose receipt was not found, has not been published.
LEMMA ScanFailsStep ==
    ASSUME IInv, NEW r \in Runs, ScanFails(r) \/ GetReceiptFails(r) PROVE IInv'
<1>1. /\ state[r] \in {"ScanReadOnlyDemoAccount", "GetScanReceipt"}
      /\ state' = [state EXCEPT ![r] = "RecordScanFailure"]
      /\ failedAt' = [failedAt EXCEPT ![r] = clock]
      /\ UNCHANGED <<clock, writer, recorded, attempts, pubVars>>
  BY DEF ScanFails, GetReceiptFails, EnterFailure, Enter, OnScanError
<1>2. Typed'
  BY <1>1, OfRun DEF IInv, Typed, Working, Final, Failing
<1>3. /\ state'[r] = "RecordScanFailure" /\ failedAt'[r] = clock
      /\ \A s \in Runs \ {r} : state'[s] = state[s] /\ failedAt'[s] = failedAt[s]
  BY <1>1 DEF IInv, Typed
<1>4. RunInv(r)'
  BY <1>1, <1>3, OfRun DEF pubVars, RunInv, ServedInv, StateInv, EndInv, Publishing
<1> QED BY <1>1, <1>2, <1>3, <1>4, StepOf

\* The publisher is invoked for a recorded run that is not listed as failed.
LEMMA GetReceiptStep ==
    ASSUME IInv, NEW r \in Runs, GetReceipt(r) PROVE IInv'
<1>1. PICK next \in {"PublishSanitizedSnapshot", "ScanSucceeded"} :
         /\ state' = [state EXCEPT ![r] = next]
         /\ IF Stage2 THEN next = "PublishSanitizedSnapshot" /\ \E b \in Bodies : Pub!InvokePublish(r, r, b)
            ELSE next = "ScanSucceeded" /\ UNCHANGED pubVars
  BY DEF GetReceipt, Enter
<1>2. /\ state[r] = "GetScanReceipt" /\ recorded[r] # None /\ r \notin attempts
      /\ UNCHANGED <<clock, failedAt, writer, recorded, attempts>>
  BY DEF GetReceipt, ReceiptFound
<1>3. failedAt[r] = None
  BY <1>2 DEF IInv, Typed, Failing
<1>4. Typed'
  BY <1>1, <1>2, <1>3 DEF IInv, Typed, Working, Final
<1>5. state'[r] = next /\ \A s \in Runs \ {r} : state'[s] = state[s]
  BY <1>1 DEF IInv, Typed
<1>6. call'[r].run \in {r, None} /\ (Stage2 => call'[r].run = r)
  <2>1. call \in [Runs -> PP!Calls]
    BY DEF IInv, PP!IndInv, PP!TypeOK
  <2>2. CASE Stage2
    BY <1>1, <2>1, <2>2 DEF Pub!InvokePublish
  <2>3. CASE ~Stage2
    BY <1>1, <2>3, OfRun DEF pubVars, ServedInv
  <2> QED BY <2>2, <2>3
<1>7. UNCHANGED pubVars \/ PublisherMoves(r)
  BY <1>1 DEF PublisherMoves
<1>8. RunInv(r)'
  BY <1>1, <1>2, <1>3, <1>5, <1>6, OfRun
     DEF RunInv, ServedInv, StateInv, EndInv, Publishing
<1> QED BY <1>2, <1>4, <1>5, <1>7, <1>8, StepOf

\* The failure of a scan is recorded of a run that was never published.
LEMMA RecordScanFailureStep ==
    ASSUME IInv, NEW r \in Runs, RecordScanFailure(r) PROVE IInv'
<1>1. PICK next \in {"PublishScanFailure", "ScanFailed"} :
         /\ state' = [state EXCEPT ![r] = next]
         /\ IF Stage2
            THEN next = "PublishScanFailure" /\ Pub!InvokeStatus(r, "scan_failure", failedAt[r])
            ELSE next = "ScanFailed" /\ UNCHANGED pubVars
  BY DEF RecordScanFailure, Enter, FailureTime
<1>2. /\ state[r] = "RecordScanFailure" /\ attempts' = attempts \cup {r}
      /\ UNCHANGED <<clock, failedAt, writer, recorded>>
  BY DEF RecordScanFailure
<1>3. failedAt[r] \in 0..MaxTime /\ failedAt[r] # None
  BY <1>2, OfRun DEF StateInv
<1>4. Typed'
  BY <1>1, <1>2, <1>3 DEF IInv, Typed, Working, Final, Failing
<1>5. state'[r] = next /\ \A s \in Runs \ {r} : state'[s] = state[s]
  BY <1>1 DEF IInv, Typed
<1>6. latest # r /\ call[r].run = None
  BY <1>2, OfRun DEF ServedInv, Publishing
<1>7. /\ latest' # r /\ call'[r].run = None
      /\ Stage2 => call'[r].attempt.at = failedAt[r]
  <2>1. call \in [Runs -> PP!Calls]
    BY DEF IInv, PP!IndInv, PP!TypeOK
  <2>2. CASE Stage2
    BY <1>1, <1>6, <2>1, <2>2 DEF Pub!InvokeStatus, Pub!FailureAttempt
  <2>3. CASE ~Stage2
    BY <1>1, <1>6, <2>3 DEF pubVars
  <2> QED BY <2>2, <2>3
<1>8. UNCHANGED pubVars \/ PublisherMoves(r)
  BY <1>1, <1>3 DEF PublisherMoves
<1>9. RunInv(r)'
  BY <1>1, <1>2, <1>3, <1>5, <1>7, OfRun
     DEF RunInv, ServedInv, StateInv, EndInv, Publishing
<1> QED BY <1>2, <1>4, <1>5, <1>8, <1>9, StepOf

LEMMA RecordScanFailureAbortsStep ==
    ASSUME IInv, NEW r \in Runs, RecordScanFailureAborts(r) PROVE IInv'
<1>1. /\ state[r] = "RecordScanFailure" /\ attempts' \in {attempts, attempts \cup {r}}
      /\ state' = [state EXCEPT ![r] = "Aborted"]
      /\ UNCHANGED <<clock, failedAt, writer, recorded, pubVars>>
  BY DEF RecordScanFailureAborts, Enter
<1>2. failedAt[r] # None /\ latest # r /\ call[r].run = None
  BY <1>1, OfRun DEF StateInv, ServedInv, Publishing
<1>3. Typed'
  BY <1>1, <1>2 DEF IInv, Typed, Working, Final, Failing
<1>4. state'[r] = "Aborted" /\ \A s \in Runs \ {r} : state'[s] = state[s]
  BY <1>1 DEF IInv, Typed
<1>5. RunInv(r)'
  BY <1>1, <1>2, <1>4, OfRun DEF pubVars, RunInv, ServedInv, StateInv, EndInv
<1> QED BY <1>1, <1>3, <1>4, <1>5, StepOf

\* A call of the publisher's invocation, whatever the execution's state.
LEMMA PublisherStepStep ==
    ASSUME IInv, NEW r \in Runs, PublisherStep(r) PROVE IInv'
<1>1. /\ Pub!Progress(r) \/ Pub!Fail(r)
      /\ UNCHANGED <<clock, state, failedAt, writer, recorded, attempts>>
  BY DEF PublisherStep
<1>2. PublisherMoves(r)
  BY <1>1 DEF PublisherMoves
<1>3. Typed'
  BY <1>1 DEF IInv, Typed
<1>4. call'[r].run = call[r].run /\ call'[r].attempt = call[r].attempt
  BY <1>1, SamePublisher, SameAssumptions, RunsFleetContract, PP!StepLocal DEF IInv
<1>5. Kept(r)
  BY <1>1, <1>2, <1>4, PublisherLocal DEF Kept
<1>6. PP!IndInv' /\ SiteAdvances => RunInv(r)'
  BY <1>5, KeptRun
<1> QED BY <1>1, <1>2, <1>3, <1>6, StepOf

\* The invocation returned: its attempt is recorded and a complete scan shown.
LEMMA PublishReturnsStep ==
    ASSUME IInv, NEW r \in Runs, PublishReturns(r) PROVE IInv'
<1>1. /\ state[r] = "PublishSanitizedSnapshot" /\ call[r].pc = "done"
      /\ state' = [state EXCEPT ![r] = "ScanSucceeded"]
      /\ UNCHANGED <<clock, failedAt, writer, recorded, attempts, pubVars>>
  BY DEF PublishReturns, Enter
<1>2. failedAt[r] = None /\ call[r].run = r /\ recorded[r] # None /\ r \notin attempts
  BY <1>1, OfRun DEF Typed, Failing, StateInv, ServedInv
<1>3. Typed'
  BY <1>1, <1>2 DEF IInv, Typed, Working, Final
<1>4. state'[r] = "ScanSucceeded" /\ \A s \in Runs \ {r} : state'[s] = state[s]
  BY <1>1 DEF IInv, Typed
<1>5. status # None /\ call[r].attempt.at <= status.at
  BY <1>1 DEF IInv, PP!DoneRecorded
<1>6. PP!SelfInv(call[r]) /\ PP!TableInv(call[r])
  BY DEF IInv, PP!IndInv, PP!CallInv
<1>7. call[r].attempt.at = CompletedAt[r]
  BY <1>2, <1>6 DEF PP!SelfInv, PP!ScanAttempt
<1>8. IsComplete(r) => latest # None /\ CompletedAt[r] <= CompletedAt[latest]
  <2>1. PP!Landed(call[r]) \/ ~PP!IsComplete(r)
    BY <1>1, <1>2, <1>6, OfRun DEF PP!SelfInv
  <2> QED BY <1>2, <1>6, <2>1, SamePublisher DEF IsComplete, PP!TableInv
<1>9. RunInv(r)'
  BY <1>1, <1>2, <1>4, <1>5, <1>7, <1>8, OfRun
     DEF pubVars, RunInv, ServedInv, StateInv, EndInv, Publishing, IsComplete, Pub!IsComplete
<1> QED BY <1>1, <1>3, <1>4, <1>9, StepOf

LEMMA PublishFailsStep ==
    ASSUME IInv, NEW r \in Runs, PublishFails(r) PROVE IInv'
<1>1. /\ state[r] = "PublishSanitizedSnapshot"
      /\ state' = [state EXCEPT ![r] = "RecordPublicationFailure"]
      /\ failedAt' = [failedAt EXCEPT ![r] = clock]
      /\ Pub!InvokeStatus(r, "publication_failure", clock)
      /\ UNCHANGED <<clock, writer, recorded, attempts>>
  BY DEF PublishFails, EnterFailure, Enter, OnPublishError
<1>2. call[r].run = r /\ recorded[r] # None /\ r \notin attempts
  BY <1>1, OfRun DEF StateInv, ServedInv
<1>3. Typed'
  BY <1>1, OfRun DEF IInv, Typed, Working, Final, Failing
<1>4. /\ state'[r] = "RecordPublicationFailure" /\ failedAt'[r] = clock
      /\ \A s \in Runs \ {r} : state'[s] = state[s] /\ failedAt'[s] = failedAt[s]
  BY <1>1 DEF IInv, Typed
<1>5. call'[r].run = None /\ call'[r].attempt.at = clock
  <2>1. call \in [Runs -> PP!Calls]
    BY DEF IInv, PP!IndInv, PP!TypeOK
  <2> QED BY <1>1, <2>1 DEF Pub!InvokeStatus, Pub!FailureAttempt
<1>6. PublisherMoves(r)
  BY <1>1, OfRun DEF PublisherMoves
<1>7. RunInv(r)'
  BY <1>1, <1>2, <1>4, <1>5, OfRun DEF RunInv, ServedInv, StateInv, EndInv, Publishing
<1> QED BY <1>1, <1>3, <1>4, <1>6, <1>7, StepOf

LEMMA StatusEndsStep ==
    ASSUME IInv, NEW r \in Runs, StatusReturns(r) \/ StatusAborts(r) PROVE IInv'
<1>1. PICK next \in {"ScanFailed", "PublicationPaused", "Aborted"} :
         /\ state' = [state EXCEPT ![r] = next]
         /\ state[r] \in {"PublishScanFailure", "RecordPublicationFailure"}
         /\ next # "Aborted" => call[r].pc = "done"
         /\ next = "ScanFailed" => state[r] = "PublishScanFailure"
         /\ next = "PublicationPaused" => state[r] = "RecordPublicationFailure"
         /\ UNCHANGED <<clock, failedAt, writer, recorded, attempts, pubVars>>
  BY DEF StatusReturns, StatusAborts, Enter
<1>2. Typed'
  BY <1>1, OfRun DEF IInv, Typed, Working, Final, Failing, StateInv
<1>3. state'[r] = next /\ \A s \in Runs \ {r} : state'[s] = state[s]
  BY <1>1 DEF IInv, Typed
<1>4. next # "Aborted" => status # None /\ failedAt[r] <= status.at
  BY <1>1, OfRun DEF IInv, PP!DoneRecorded, StateInv
<1>5. RunInv(r)'
  BY <1>1, <1>3, <1>4, OfRun DEF pubVars, RunInv, ServedInv, StateInv, EndInv, Publishing
<1> QED BY <1>1, <1>2, <1>3, <1>5, StepOf

----
(* Theorems *)

LEMMA Invariance == Spec => []IInv
<1>1. Init => IInv
  <2> SUFFICES ASSUME Init PROVE IInv
    OBVIOUS
  <2>1. PP!IndInv /\ PP!DoneRecorded
    BY SamePublisher, SameAssumptions, RunsFleetContract, PP!InitInd DEF Init
  <2>2. Typed
    <3>1. clock \in 0..MaxTime
      BY WorkflowAssumption DEF Init
    <3>2. /\ state \in [Runs -> {"NotStarted"}] /\ writer \in [Runs -> {"none"}]
          /\ failedAt \in [Runs -> {None}] /\ recorded \in [Runs -> {None}] /\ attempts = {}
      BY DEF Init, Log!Init
    <3> QED BY <3>1, <3>2 DEF Typed
  <2>3. ASSUME NEW r \in Runs PROVE RunInv(r)
    <3>1. call[r].run = None /\ latest = None /\ None # r
      BY SameAssumptions DEF Init, Pub!Init, Pub!NoCall
    <3>2. state[r] = "NotStarted"
      BY DEF Init
    <3> QED BY <3>1, <3>2 DEF RunInv, ServedInv, StateInv, EndInv
  <2> QED BY <2>1, <2>2, <2>3 DEF IInv
<1>2. IInv /\ [Next]_vars => IInv'
  <2> SUFFICES ASSUME IInv, [Next]_vars PROVE IInv'
    OBVIOUS
  <2>1. CASE UNCHANGED vars
    <3>1. PP!IndInv' /\ PP!DoneRecorded' /\ SiteAdvances
      BY <2>1, PublisherStepKeeps DEF IInv, vars
    <3>2. \A s \in Runs : Kept(s)
      BY <2>1 DEF vars, pubVars, Kept
    <3>3. Typed'
      BY <2>1 DEF vars, IInv, Typed
    <3> QED BY <3>1, <3>2, <3>3, KeptRun DEF IInv
  <2>2. ASSUME NEW r \in Runs, Execute(r) PROVE IInv'
    BY <2>2, WriterStep, ScanEndsStep, ScanFailsStep, GetReceiptStep, RecordScanFailureStep,
       RecordScanFailureAbortsStep, PublisherStepStep, PublishReturnsStep, PublishFailsStep,
       StatusEndsStep DEF Execute
  <2> QED BY <2>1, <2>2, TickStep, StartStep, WriterStep DEF Next
<1> QED BY <1>1, <1>2, PTL DEF Spec

\* The execution's variables keep their shapes, and an execution that went
\* through a failure state never counts as succeeded.
THEOREM TypeCorrect == Spec => []TypeOK
<1>1. IInv => TypeOK
  BY DEF IInv, Typed, TypeOK, Failing
<1> QED BY <1>1, Invariance, PTL

\* Readers are shown only recorded scans that are not listed as failed, however
\* executions, receipts and publications overlap.
THEOREM ServedNeverFailed == Spec => []ServedNotFailed
<1>1. ASSUME IInv PROVE ServedNotFailed
  <2>1. latest \in Runs \cup {None}
    BY <1>1 DEF IInv, PP!IndInv, PP!TypeOK
  <2> QED BY <1>1, <2>1 DEF IInv, RunInv, ServedInv, ServedNotFailed
<1> QED BY <1>1, Invariance, PTL

\* What a successful execution has left stays, or is superseded by newer scans.
THEOREM SuccessAlwaysHolds == Spec => []SuccessHolds
<1>1. IInv => SuccessHolds
  BY DEF IInv, RunInv, EndInv, SuccessHolds
<1> QED BY <1>1, Invariance, PTL

\* A failed execution stays visible to operators and readers.
THEOREM FailureStaysVisible == Spec => []FailureVisible
<1>1. IInv => FailureVisible
  BY DEF IInv, RunInv, EndInv, StateInv, FailureVisible
<1> QED BY <1>1, Invariance, PTL
====
