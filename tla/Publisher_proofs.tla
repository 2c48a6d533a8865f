---- MODULE Publisher_proofs ----
(***************************************************************************)
(* Proofs about Publisher for any runs, workers, bodies and times.         *)
(***************************************************************************)
EXTENDS Publisher, TLAPS

\* The invocation's publish has returned: its pointer update succeeded or was refused.
Landed(c) == c.outcome \in {"PUBLISHED", "STALE_IGNORED"}

\* What an invocation knows of itself, step by step.
SelfInv(c) ==
    /\ c.pc \in PublishSteps => c.outcome = None
    /\ c.pc \in PublishSteps \/ Landed(c) =>
          c.run \in Runs /\ c.body \in Bodies /\ IsComplete(c.run)
    /\ c.outcome = "RETAINED_LAST_GOOD" => c.run \in Runs /\ ~IsComplete(c.run)
    /\ c.run \in Runs => c.attempt = ScanAttempt(c.run)
    /\ c.run = None /\ c.pc \in Steps => c.attempt \in Attempts /\ c.attempt.scan = "ERROR"
    /\ c.pc \in {"record_attempt", "done"} =>
          \/ c.run = None
          \/ c.run \in Runs /\ (Landed(c) \/ ~IsComplete(c.run))

\* What an invocation has left in the tables by each step.
TableInv(c) ==
    /\ c.pc \in PublishSteps \ {"put_object"} \/ Landed(c) => objects[c.run] = c.body
    /\ c.pc \in {"update_latest", "reread_latest"} \/ Landed(c) => c.run \in index
    /\ c.pc = "reread_latest" \/ Landed(c) =>
          latest # None /\ CompletedAt[c.run] <= CompletedAt[latest]
    /\ c.outcome = "PUBLISHED" => latest = c.run \/ CompletedAt[c.run] < CompletedAt[latest]
    /\ c.outcome = "STALE_IGNORED" => latest # c.run

CallInv(w) == SelfInv(call[w]) /\ TableInv(call[w])

IndInv ==
    /\ TypeOK
    /\ PointerServable
    /\ StatusNotAhead
    /\ \A w \in Workers : CallInv(w)

----

\* A worker's step sets only its own fields, within their types.
LEMMA GotoTyped ==
    ASSUME TypeOK, NEW w \in Workers, NEW step \in Steps \cup {"idle", "done", "failed"},
           step \in PublishSteps => call[w].pc \in PublishSteps
    PROVE  Goto(w, step) \in [Workers -> Calls]
BY DEF TypeOK, Goto, Calls

\* The order of publish's calls names real steps.
LEMMA StepAfterTyped ==
    /\ StepAfter["put_object"] = "put_run_index"
    /\ StepAfter["put_run_index"] = "update_latest"
    /\ StepAfter["update_latest"] = "record_attempt"
BY DEF StepAfter

\* The LATEST_STATUS items asked for are well formed.
LEMMA AttemptTyped ==
    /\ \A r \in Runs : ScanAttempt(r) \in Attempts
    /\ \A kind \in {"scan_failure", "publication_failure"}, t \in Times :
          FailureAttempt(kind, t) \in Attempts /\ FailureAttempt(kind, t).scan = "ERROR"
BY PublisherAssumption DEF Attempts, ScanAttempt, FailureAttempt, ScanStatuses

\* Every step of the publisher keeps the tables and the invocations well formed.
LEMMA TypeStep == TypeOK /\ [Next]_vars => TypeOK'
<1> SUFFICES ASSUME TypeOK, [Next]_vars PROVE TypeOK'
  OBVIOUS
<1>u. CASE UNCHANGED vars
  BY <1>u DEF TypeOK, vars
<1>a. ASSUME NEW w \in Workers, NEW r \in Runs, NEW b \in Bodies, InvokePublish(w, r, b)
      PROVE  TypeOK'
  <2>1. FirstStep(r) \in Steps
    BY DEF FirstStep, Steps, PublishSteps
  <2>2. call' \in [Workers -> Calls]
    BY <1>a, <2>1, AttemptTyped DEF InvokePublish, TypeOK, Calls, Outcomes, PublishSteps, Steps
  <2> QED BY <1>a, <2>2 DEF InvokePublish, TypeOK
<1>b. ASSUME NEW w \in Workers, NEW kind \in {"scan_failure", "publication_failure"},
             NEW t \in Times, InvokeStatus(w, kind, t)
      PROVE  TypeOK'
  <2>1. call' \in [Workers -> Calls]
    BY <1>b, AttemptTyped DEF InvokeStatus, TypeOK, Calls, Outcomes, Steps, PublishSteps
  <2> QED BY <1>b, <2>1 DEF InvokeStatus, TypeOK
<1>c. ASSUME NEW w \in Workers, PutObject(w) PROVE TypeOK'
  <2>1. Goto(w, StepAfter["put_object"]) \in [Workers -> Calls]
    BY <1>c, GotoTyped, StepAfterTyped DEF PutObject, PutRunIndex, Steps, PublishSteps
  <2>2. call' \in [Workers -> Calls]
    BY <1>c, <2>1 DEF PutObject, Answered, TypeOK
  <2>3. objects' \in [Runs -> Bodies \cup {None}]
    BY <1>c DEF PutObject, TypeOK, Calls
  <2> QED BY <1>c, <2>2, <2>3 DEF PutObject, TypeOK
<1>d. ASSUME NEW w \in Workers, VerifyObject(w) PROVE TypeOK'
  BY <1>d, GotoTyped, StepAfterTyped DEF VerifyObject, TypeOK, Steps, PublishSteps
<1>e. ASSUME NEW w \in Workers, PutRunIndex(w) PROVE TypeOK'
  <2>1. Goto(w, StepAfter["put_run_index"]) \in [Workers -> Calls]
    BY <1>e, GotoTyped, StepAfterTyped DEF PutObject, PutRunIndex, Steps, PublishSteps
  <2>2. call' \in [Workers -> Calls]
    BY <1>e, <2>1 DEF PutRunIndex, Answered, TypeOK
  <2> QED BY <1>e, <2>2 DEF PutRunIndex, TypeOK, Calls, PublishSteps
<1>f. ASSUME NEW w \in Workers, UpdateLatest(w) PROVE TypeOK'
  BY <1>f, StepAfterTyped DEF UpdateLatest, Answered, TypeOK, Calls, Steps, PublishSteps, Outcomes
<1>g. ASSUME NEW w \in Workers, RefuseLatest(w) PROVE TypeOK'
  BY <1>g, GotoTyped DEF RefuseLatest, TypeOK, Steps, PublishSteps
<1>h. ASSUME NEW w \in Workers, RereadLatest(w) PROVE TypeOK'
  <2>1. RereadOutcome(call[w].run) \in Outcomes
    BY DEF RereadOutcome, Outcomes
  <2>2. ASSUME NEW o \in Outcomes
        PROVE  [call EXCEPT ![w].pc = "record_attempt", ![w].outcome = o] \in [Workers -> Calls]
    <3>1. call[w] \in Calls
      BY DEF TypeOK
    <3>2. [call[w] EXCEPT !.pc = "record_attempt", !.outcome = o] \in Calls
      BY <3>1 DEF Calls, Steps, PublishSteps
    <3> QED BY <3>2 DEF TypeOK
  <2>3. call' \in [Workers -> Calls]
    BY <1>h, <2>1, <2>2, StepAfterTyped DEF RereadLatest
  <2> QED BY <1>h, <2>3 DEF RereadLatest, TypeOK
<1>i. ASSUME NEW w \in Workers, RecordAttempt(w) PROVE TypeOK'
  BY <1>i, GotoTyped DEF RecordAttempt, Answered, TypeOK, Calls, Steps, PublishSteps
<1>j. ASSUME NEW w \in Workers, SkipAttempt(w) PROVE TypeOK'
  BY <1>j, GotoTyped DEF SkipAttempt, TypeOK, Steps, PublishSteps
<1>k. ASSUME NEW w \in Workers, Fail(w) PROVE TypeOK'
  BY <1>k, GotoTyped DEF Fail, TypeOK, Steps, PublishSteps
<1> QED
  BY <1>u, <1>a, <1>b, <1>c, <1>d, <1>e, <1>f, <1>g, <1>h, <1>i, <1>j, <1>k DEF Next, Progress

\* Type correctness of the publisher for any runs, workers and times.
THEOREM TypeCorrect == Spec => []TypeOK
<1>1. Init => TypeOK
  BY DEF Init, TypeOK, NoCall, Calls, Steps, PublishSteps
<1> QED BY <1>1, TypeStep, PTL DEF Spec

----

\* How the shared tables may move: objects are never rewritten, the index
\* grows and the pointer advances.
TablesAdvance ==
    /\ \A r \in Runs : objects[r] # None => objects'[r] = objects[r]
    /\ index \subseteq index'
    /\ \/ latest' = latest
       \/ latest' \in Runs /\ (latest # None => CompletedAt[latest] < CompletedAt[latest'])

\* What an invocation has achieved survives every other invocation's step.
LEMMA CallInvStable ==
    ASSUME TypeOK, TypeOK', TablesAdvance, NEW v \in Workers, CallInv(v), call'[v] = call[v]
    PROVE  CallInv(v)'
<1>1. None \notin Runs /\ None \notin Bodies /\ \A r \in Runs : CompletedAt[r] \in Nat
  BY PublisherAssumption
<1>2. latest \in Runs \cup {None} /\ latest' \in Runs \cup {None}
  BY DEF TypeOK
<1>3. SelfInv(call[v])'
  BY DEF CallInv, SelfInv, Landed, IsComplete, ScanAttempt
<1>4. call[v].pc \in PublishSteps \/ Landed(call[v]) => call[v].run \in Runs /\ call[v].body \in Bodies
  BY DEF CallInv, SelfInv
<1>5. TableInv(call[v])
  BY DEF CallInv
<1>6. TableInv(call[v])'
  BY <1>1, <1>2, <1>4, <1>5 DEF TableInv, TablesAdvance, Landed, PublishSteps
<1> QED
  BY <1>3, <1>6 DEF CallInv

\* The three facts about the tables survive as well, while LATEST_STATUS is
\* not written and the pointer is not moved.
LEMMA TablesStable ==
    ASSUME TypeOK, PointerServable, StatusNotAhead, TablesAdvance,
           latest' = latest, status' = status
    PROVE  PointerServable' /\ StatusNotAhead'
BY DEF TypeOK, PointerServable, StatusNotAhead, TablesAdvance, IsComplete

\* Every step of the publisher preserves the inductive invariant.
LEMMA IndStep == IndInv /\ [Next]_vars => IndInv'
<1> SUFFICES ASSUME IndInv, [Next]_vars PROVE IndInv'
  OBVIOUS
<1> USE DEF IndInv
<1>t. TypeOK /\ TypeOK'
  BY TypeStep
<1>n. None \notin Runs /\ None \notin Bodies /\ None \notin Attempts /\ None \notin Outcomes
  BY PublisherAssumption
<1>u. CASE UNCHANGED vars
  <2>1. TablesAdvance
    BY <1>u DEF vars, TablesAdvance
  <2> QED BY <1>t, <1>u, <2>1, CallInvStable, TablesStable DEF vars
\* A step of worker w that moves the tables on leaves the others' facts alone.
<1>o. ASSUME NEW w \in Workers, TablesAdvance, \A v \in Workers \ {w} : call'[v] = call[v],
             CallInv(w)', PointerServable', StatusNotAhead'
      PROVE  IndInv'
  BY <1>o, <1>t, CallInvStable
<1>a. ASSUME NEW w \in Workers, NEW r \in Runs, NEW b \in Bodies, InvokePublish(w, r, b)
      PROVE  IndInv'
  <2>1. TablesAdvance /\ latest' = latest /\ status' = status
    BY <1>a DEF InvokePublish, TablesAdvance
  <2>2. call'[w] = [pc |-> FirstStep(r), run |-> r, body |-> b, attempt |-> ScanAttempt(r),
                    outcome |-> IF IsComplete(r) THEN None ELSE "RETAINED_LAST_GOOD"]
    BY <1>a, <1>t DEF InvokePublish, TypeOK
  <2>3. SelfInv(call'[w]) /\ TableInv(call[w])'
    BY <2>2, <1>n DEF Outcomes, SelfInv, TableInv, Landed, FirstStep, PublishSteps, Steps
  <2>4. CallInv(w)'
    BY <2>3 DEF CallInv, SelfInv, Landed, IsComplete, ScanAttempt
  <2>5. \A v \in Workers \ {w} : call'[v] = call[v]
    BY <1>a, <1>t DEF InvokePublish, TypeOK
  <2> QED BY <2>1, <2>4, <2>5, <1>o, <1>t, TablesStable
<1>b. ASSUME NEW w \in Workers, NEW kind \in {"scan_failure", "publication_failure"},
             NEW t \in Times, InvokeStatus(w, kind, t)
      PROVE  IndInv'
  <2>1. TablesAdvance /\ latest' = latest /\ status' = status
    BY <1>b DEF InvokeStatus, TablesAdvance
  <2>2. call'[w] = [pc |-> "record_attempt", run |-> None, body |-> None,
                    attempt |-> FailureAttempt(kind, t), outcome |-> "STATUS_RECORDED"]
    BY <1>b, <1>t DEF InvokeStatus, TypeOK
  <2>3. SelfInv(call'[w]) /\ TableInv(call[w])'
    BY <2>2, <1>n, AttemptTyped DEF SelfInv, TableInv, Landed, PublishSteps, Steps
  <2>4. CallInv(w)'
    BY <2>3 DEF CallInv, SelfInv, Landed, IsComplete, ScanAttempt
  <2>5. \A v \in Workers \ {w} : call'[v] = call[v]
    BY <1>b, <1>t DEF InvokeStatus, TypeOK
  <2> QED BY <2>1, <2>4, <2>5, <1>o, <1>t, TablesStable
\* From here on worker w is in the middle of an invocation.
<1>s. ASSUME NEW w \in Workers PROVE CallInv(w) /\ call[w] \in Calls
  BY <1>t DEF TypeOK
<1>c. ASSUME NEW w \in Workers, PutObject(w) PROVE IndInv'
  <2>1. call[w].run \in Runs /\ call[w].body \in Bodies
    BY <1>c, <1>s DEF PutObject, Calls, PublishSteps
  <2>2. TablesAdvance /\ latest' = latest /\ status' = status
    BY <1>c, <1>t DEF PutObject, TablesAdvance, ObjectVacant, TypeOK
  <2>3. \A v \in Workers \ {w} : call'[v] = call[v]
    BY <1>c, <1>t DEF PutObject, Answered, Goto, TypeOK
  <2>4. CASE call' = call
    BY <2>2, <2>4, <1>t, <1>s, CallInvStable, TablesStable
  <2>5. CASE call' = Goto(w, "put_run_index")
    <3>1. call'[w] = [call[w] EXCEPT !.pc = "put_run_index"]
      BY <2>5, <1>t DEF Goto, TypeOK
    <3>2. objects'[call[w].run] = call[w].body
      BY <1>c, <1>t, <2>1 DEF PutObject, TypeOK
    <3>a. SelfInv(call[w]) /\ call[w].pc = "put_object"
      BY <1>c, <1>s DEF PutObject, CallInv
    <3>b. /\ call'[w].pc = "put_run_index" /\ call'[w].outcome = call[w].outcome
          /\ call'[w].run = call[w].run /\ call'[w].body = call[w].body
          /\ call'[w].attempt = call[w].attempt
      BY <3>1, <1>s DEF Calls
    <3>c. SelfInv(call'[w])
      BY <1>n, <3>a, <3>b DEF SelfInv, Landed, PublishSteps, Steps
    <3>d. TableInv(call[w])'
      BY <1>n, <3>2, <3>a, <3>b DEF SelfInv, TableInv, Landed, PublishSteps, Outcomes
    <3>3. CallInv(w)'
      BY <3>c, <3>d DEF CallInv, SelfInv, Landed, IsComplete, ScanAttempt
    <3> QED BY <2>2, <2>3, <3>3, <1>o, <1>t, TablesStable
  <2> QED BY <1>c, <2>4, <2>5, StepAfterTyped DEF PutObject, Answered
<1>d. ASSUME NEW w \in Workers, VerifyObject(w) PROVE IndInv'
  <2>1. TablesAdvance /\ UNCHANGED <<objects, index, latest, status>>
    BY <1>d DEF VerifyObject, TablesAdvance
  <2>2. \A v \in Workers \ {w} : call'[v] = call[v]
    BY <1>d, <1>t DEF VerifyObject, Goto, TypeOK
  <2>3. SelfInv(call[w]) /\ TableInv(call[w]) /\ call[w].pc = "put_object"
    BY <1>d, <1>s DEF VerifyObject, CallInv
  <2>4. CASE objects[call[w].run] = call[w].body
    <3>1. call'[w] = [call[w] EXCEPT !.pc = "put_run_index"]
      BY <1>d, <1>t, <2>4, StepAfterTyped DEF VerifyObject, Goto, TypeOK
    <3>a. /\ call'[w].pc = "put_run_index" /\ call'[w].outcome = call[w].outcome
          /\ call'[w].run = call[w].run /\ call'[w].body = call[w].body
          /\ call'[w].attempt = call[w].attempt
      BY <3>1, <1>s DEF Calls
    <3>2. SelfInv(call'[w])
      BY <1>n, <2>3, <3>a DEF SelfInv, Landed, PublishSteps, Steps
    <3>3. TableInv(call[w])'
      BY <1>n, <2>1, <2>3, <2>4, <3>a DEF SelfInv, TableInv, Landed, PublishSteps, Outcomes
    <3>4. CallInv(w)'
      BY <3>2, <3>3 DEF CallInv, SelfInv, Landed, IsComplete, ScanAttempt
    <3> QED BY <2>1, <2>2, <3>4, <1>o, <1>t, TablesStable
  <2>5. CASE objects[call[w].run] # call[w].body
    <3>1. call'[w] = [call[w] EXCEPT !.pc = "failed"]
      BY <1>d, <1>t, <2>5 DEF VerifyObject, Goto, TypeOK
    <3>a. /\ call'[w].pc = "failed" /\ call'[w].outcome = call[w].outcome
          /\ call'[w].run = call[w].run /\ call'[w].body = call[w].body
          /\ call'[w].attempt = call[w].attempt
      BY <3>1, <1>s DEF Calls
    <3>2. SelfInv(call'[w])
      BY <1>n, <2>3, <3>a DEF SelfInv, Landed, PublishSteps, Steps
    <3>3. TableInv(call[w])'
      BY <1>n, <2>1, <2>3, <3>a DEF SelfInv, TableInv, Landed, PublishSteps, Outcomes
    <3>4. CallInv(w)'
      BY <3>2, <3>3 DEF CallInv, SelfInv, Landed, IsComplete, ScanAttempt
    <3> QED BY <2>1, <2>2, <3>4, <1>o, <1>t, TablesStable
  <2> QED BY <2>4, <2>5
<1>e. ASSUME NEW w \in Workers, PutRunIndex(w) PROVE IndInv'
  <2>1. TablesAdvance /\ latest' = latest /\ status' = status
    BY <1>e DEF PutRunIndex, TablesAdvance
  <2>2. \A v \in Workers \ {w} : call'[v] = call[v]
    BY <1>e, <1>t DEF PutRunIndex, Answered, Goto, TypeOK
  <2>3. CASE call' = call
    BY <2>1, <2>3, <1>t, <1>s, CallInvStable, TablesStable
  <2>4. CASE call' = Goto(w, "update_latest")
    <3>1. call'[w] = [call[w] EXCEPT !.pc = "update_latest"]
      BY <2>4, <1>t DEF Goto, TypeOK
    <3>2. CallInv(w)'
      BY <1>e, <1>n, <1>s, <3>1
         DEF PutRunIndex, CallInv, SelfInv, TableInv, Landed, PublishSteps, Steps, Calls,
             IsComplete, ScanAttempt, Outcomes
    <3> QED BY <2>1, <2>2, <3>2, <1>o, <1>t, TablesStable
  <2> QED BY <1>e, <2>3, <2>4, StepAfterTyped DEF PutRunIndex, Answered
<1>f. ASSUME NEW w \in Workers, UpdateLatest(w) PROVE IndInv'
  <2>1. call[w].run \in Runs /\ call[w].body \in Bodies
    BY <1>f, <1>s DEF UpdateLatest, Calls, PublishSteps
  <2>2. TablesAdvance /\ latest' = call[w].run /\ status' = status
    BY <1>f, <2>1 DEF UpdateLatest, TablesAdvance, Supersedes
  <2>3. PointerServable'
    BY <1>f, <1>n, <1>s, <2>1, <2>2
       DEF UpdateLatest, PointerServable, CallInv, SelfInv, TableInv, PublishSteps, IsComplete
  <2>4. StatusNotAhead'
    <3>1. status # None => status.at \in Nat
      BY <1>t DEF TypeOK, Attempts
    <3>2. CompletedAt[call[w].run] \in Nat /\ (latest # None => CompletedAt[latest] \in Nat)
      BY <1>t, <2>1, PublisherAssumption DEF TypeOK
    <3> QED BY <1>f, <1>n, <2>1, <2>2, <3>1, <3>2 DEF StatusNotAhead, UpdateLatest, Supersedes
  <2>5. \A v \in Workers \ {w} : call'[v] = call[v]
    BY <1>f, <1>t DEF UpdateLatest, Answered, TypeOK
  <2>6. CASE call' = call
    BY <2>2, <2>3, <2>4, <2>6, <1>t, <1>s, CallInvStable
  <2>7. CASE call' = [call EXCEPT ![w].pc = "record_attempt", ![w].outcome = "PUBLISHED"]
    <3>1. call'[w] = [call[w] EXCEPT !.pc = "record_attempt", !.outcome = "PUBLISHED"]
      BY <2>7, <1>t DEF TypeOK
    <3>2. CompletedAt[call[w].run] \in Nat
      BY <2>1, PublisherAssumption
    <3>a. SelfInv(call[w]) /\ TableInv(call[w]) /\ call[w].pc = "update_latest"
      BY <1>f, <1>s DEF UpdateLatest, CallInv
    <3>b. /\ call'[w].pc = "record_attempt" /\ call'[w].outcome = "PUBLISHED"
          /\ call'[w].run = call[w].run /\ call'[w].body = call[w].body
          /\ call'[w].attempt = call[w].attempt
      BY <3>1, <1>s DEF Calls
    <3>c. /\ latest' = call'[w].run /\ latest' # None
          /\ objects' = objects /\ index' = index
      BY <1>f, <1>n, <2>1, <2>2, <3>b DEF UpdateLatest
    <3>d. SelfInv(call'[w])
      BY <1>n, <2>1, <3>a, <3>b DEF SelfInv, Landed, PublishSteps, Steps
    <3>e. TableInv(call[w])'
      BY <1>n, <2>1, <3>2, <3>a, <3>b, <3>c DEF TableInv, Landed, PublishSteps
    <3>3. CallInv(w)'
      BY <3>d, <3>e DEF CallInv, SelfInv, Landed, IsComplete, ScanAttempt
    <3> QED BY <2>2, <2>3, <2>4, <2>5, <3>3, <1>o
  <2> QED BY <1>f, <2>6, <2>7, StepAfterTyped DEF UpdateLatest, Answered
<1>g. ASSUME NEW w \in Workers, RefuseLatest(w) PROVE IndInv'
  <2>1. TablesAdvance /\ latest' = latest /\ status' = status
    BY <1>g DEF RefuseLatest, TablesAdvance
  <2>2. \A v \in Workers \ {w} : call'[v] = call[v]
    BY <1>g, <1>t DEF RefuseLatest, Goto, TypeOK
  <2>3. call'[w] = [call[w] EXCEPT !.pc = "reread_latest"]
    BY <1>g, <1>t DEF RefuseLatest, Goto, TypeOK
  <2>4. call[w].run \in Runs /\ CompletedAt[call[w].run] \in Nat
    BY <1>g, <1>s, PublisherAssumption DEF RefuseLatest, Calls, PublishSteps
  <2>5. latest # None /\ CompletedAt[call[w].run] <= CompletedAt[latest]
    BY <1>g, <1>t, <2>4, PublisherAssumption DEF RefuseLatest, Supersedes, TypeOK
  <2>6. SelfInv(call[w]) /\ TableInv(call[w]) /\ call[w].pc = "update_latest"
    BY <1>g, <1>s DEF RefuseLatest, CallInv
  <2>a. /\ call'[w].pc = "reread_latest" /\ call'[w].outcome = call[w].outcome
        /\ call'[w].run = call[w].run /\ call'[w].body = call[w].body
        /\ call'[w].attempt = call[w].attempt
    BY <2>3, <1>s DEF Calls
  <2>7. SelfInv(call'[w])
    BY <1>n, <2>a, <2>6 DEF SelfInv, Landed, PublishSteps, Steps
  <2>8. UNCHANGED <<objects, index, latest>>
    BY <1>g DEF RefuseLatest
  <2>9. TableInv(call[w])'
    BY <1>n, <2>a, <2>5, <2>6, <2>8 DEF SelfInv, TableInv, Landed, PublishSteps, Outcomes
  <2>10. CallInv(w)'
    BY <2>7, <2>9 DEF CallInv, SelfInv, Landed, IsComplete, ScanAttempt
  <2> QED BY <2>1, <2>2, <2>10, <1>o, <1>t, TablesStable
<1>h. ASSUME NEW w \in Workers, RereadLatest(w) PROVE IndInv'
  <2>1. TablesAdvance /\ latest' = latest /\ status' = status
    BY <1>h DEF RereadLatest, TablesAdvance
  <2>2. \A v \in Workers \ {w} : call'[v] = call[v]
    BY <1>h, <1>t DEF RereadLatest, TypeOK
  <2>3. call'[w] = [call[w] EXCEPT !.pc = "record_attempt",
                       !.outcome = IF latest = call[w].run THEN "PUBLISHED" ELSE "STALE_IGNORED"]
    BY <1>h, <1>t, StepAfterTyped DEF RereadLatest, RereadOutcome, TypeOK
  <2>4. SelfInv(call[w]) /\ TableInv(call[w]) /\ call[w].pc = "reread_latest"
    BY <1>h, <1>s DEF RereadLatest, CallInv
  <2>5. UNCHANGED <<objects, index, latest>>
    BY <1>h DEF RereadLatest
  <2>6. CASE latest = call[w].run
    <3>1. call'[w] = [call[w] EXCEPT !.pc = "record_attempt", !.outcome = "PUBLISHED"]
      BY <2>3, <2>6
    <3>a. /\ call'[w].pc = "record_attempt" /\ call'[w].outcome = "PUBLISHED"
          /\ call'[w].run = call[w].run /\ call'[w].body = call[w].body
          /\ call'[w].attempt = call[w].attempt
      BY <3>1, <1>s DEF Calls
    <3>2. SelfInv(call'[w])
      BY <1>n, <2>4, <3>a DEF SelfInv, Landed, PublishSteps, Steps
    <3>3. TableInv(call[w])'
      BY <2>4, <2>5, <2>6, <3>a DEF SelfInv, TableInv, Landed, PublishSteps
    <3>4. CallInv(w)'
      BY <3>2, <3>3 DEF CallInv, SelfInv, Landed, IsComplete, ScanAttempt
    <3> QED BY <2>1, <2>2, <3>4, <1>o, <1>t, TablesStable
  <2>7. CASE latest # call[w].run
    <3>1. call'[w] = [call[w] EXCEPT !.pc = "record_attempt", !.outcome = "STALE_IGNORED"]
      BY <2>3, <2>7
    <3>a. /\ call'[w].pc = "record_attempt" /\ call'[w].outcome = "STALE_IGNORED"
          /\ call'[w].run = call[w].run /\ call'[w].body = call[w].body
          /\ call'[w].attempt = call[w].attempt
      BY <3>1, <1>s DEF Calls
    <3>2. SelfInv(call'[w])
      BY <1>n, <2>4, <3>a DEF SelfInv, Landed, PublishSteps, Steps
    <3>3. TableInv(call[w])'
      BY <2>4, <2>5, <2>7, <3>a DEF SelfInv, TableInv, Landed, PublishSteps
    <3>4. CallInv(w)'
      BY <3>2, <3>3 DEF CallInv, SelfInv, Landed, IsComplete, ScanAttempt
    <3> QED BY <2>1, <2>2, <3>4, <1>o, <1>t, TablesStable
  <2> QED BY <2>6, <2>7
<1>i. ASSUME NEW w \in Workers, RecordAttempt(w) PROVE IndInv'
  <2>1. TablesAdvance /\ latest' = latest /\ status' = call[w].attempt
    BY <1>i DEF RecordAttempt, TablesAdvance
  <2>2. StatusNotAhead'
    <3>1. CASE call[w].run = None
      BY <1>i, <1>s, <2>1, <3>1 DEF RecordAttempt, StatusNotAhead, CallInv, SelfInv, Steps
    <3>2. CASE call[w].run \in Runs
      <4>1. SelfInv(call[w]) /\ TableInv(call[w]) /\ call[w].pc = "record_attempt"
        BY <1>i, <1>s DEF RecordAttempt, CallInv
      <4>2. call[w].attempt = ScanAttempt(call[w].run)
        BY <4>1, <3>2 DEF SelfInv
      <4>3. CASE Landed(call[w])
        BY <2>1, <4>1, <4>2, <4>3 DEF StatusNotAhead, TableInv, ScanAttempt
      <4>4. CASE ~IsComplete(call[w].run)
        BY <2>1, <3>2, <4>2, <4>4, FleetContract DEF StatusNotAhead, IsComplete, ScanAttempt
      <4> QED BY <1>n, <3>2, <4>1, <4>3, <4>4 DEF SelfInv
    <3> QED BY <1>s, <3>1, <3>2 DEF Calls
  <2>3. PointerServable'
    BY <1>i DEF RecordAttempt, PointerServable, IsComplete
  <2>4. \A v \in Workers \ {w} : call'[v] = call[v]
    BY <1>i, <1>t DEF RecordAttempt, Answered, Goto, TypeOK
  <2>5. CASE call' = call
    BY <2>1, <2>2, <2>3, <2>5, <1>t, <1>s, CallInvStable
  <2>6. CASE call' = Goto(w, "done")
    <3>1. call'[w] = [call[w] EXCEPT !.pc = "done"]
      BY <2>6, <1>t DEF Goto, TypeOK
    <3>2. CallInv(w)'
      BY <1>i, <1>n, <1>s, <2>1, <3>1
         DEF RecordAttempt, CallInv, SelfInv, TableInv, Landed, PublishSteps, Steps, Calls,
             IsComplete, ScanAttempt, Outcomes
    <3> QED BY <2>1, <2>2, <2>3, <2>4, <3>2, <1>o
  <2> QED BY <1>i, <2>5, <2>6 DEF RecordAttempt, Answered
<1>j. ASSUME NEW w \in Workers, SkipAttempt(w) \/ Fail(w) PROVE IndInv'
  <2>1. TablesAdvance /\ latest' = latest /\ status' = status
    BY <1>j DEF SkipAttempt, Fail, TablesAdvance
  <2>2. \A v \in Workers \ {w} : call'[v] = call[v]
    BY <1>j, <1>t DEF SkipAttempt, Fail, Goto, TypeOK
  <2>3. PICK end \in {"done", "failed"} :
            /\ call'[w] = [call[w] EXCEPT !.pc = end]
            /\ end = "done" => call[w].pc = "record_attempt"
    BY <1>j, <1>t DEF SkipAttempt, Fail, Goto, TypeOK
  <2>4. call[w].pc \in Steps /\ UNCHANGED <<objects, index, latest, status>>
    BY <1>j DEF SkipAttempt, Fail, Steps
  <2>5. CallInv(w)'
    BY <1>n, <1>s, <2>3, <2>4
       DEF CallInv, SelfInv, TableInv, Landed, PublishSteps, Steps, Calls,
             IsComplete, ScanAttempt, Outcomes
  <2> QED BY <2>1, <2>2, <2>5, <1>o, <1>t, TablesStable
<1> QED
  BY <1>u, <1>a, <1>b, <1>c, <1>d, <1>e, <1>f, <1>g, <1>h, <1>i, <1>j DEF Next, Progress

\* Whatever the step, the shared tables only advance.
LEMMA StepAdvances == IndInv /\ [Next]_vars => TablesAdvance
<1> SUFFICES ASSUME IndInv, [Next]_vars PROVE TablesAdvance
  OBVIOUS
<1>1. ASSUME NEW w \in Workers, PutObject(w) PROVE TablesAdvance
  <2>1. \A r \in Runs : objects[r] # None => objects'[r] = objects[r]
    BY <1>1 DEF PutObject, ObjectVacant, IndInv, TypeOK
  <2> QED BY <1>1, <2>1 DEF PutObject, TablesAdvance
<1>2. ASSUME NEW w \in Workers, UpdateLatest(w) PROVE TablesAdvance
  BY <1>2 DEF UpdateLatest, Supersedes, TablesAdvance, IndInv, CallInv, SelfInv, PublishSteps
<1>3. ASSUME NEW w \in Workers, PutRunIndex(w) PROVE TablesAdvance
  BY <1>3 DEF PutRunIndex, TablesAdvance
<1>4. \/ UNCHANGED <<objects, index, latest>>
      \/ \E w \in Workers : PutObject(w) \/ UpdateLatest(w) \/ PutRunIndex(w)
  BY DEF Next, vars, Progress, InvokePublish, InvokeStatus, VerifyObject,
         RefuseLatest, RereadLatest, RecordAttempt, SkipAttempt, Fail
<1> QED BY <1>1, <1>2, <1>3, <1>4 DEF TablesAdvance

\* A run is listed only when it is complete and its object is there.
IndexServable == \A r \in index : IsComplete(r) /\ objects[r] # None

\* Every step keeps the listed runs served.
LEMMA IndexStep == IndInv /\ IndexServable /\ [Next]_vars => IndexServable'
<1> SUFFICES ASSUME IndInv, IndexServable, [Next]_vars PROVE IndexServable'
  OBVIOUS
<1>1. TablesAdvance /\ index \subseteq Runs /\ None \notin Bodies
  BY StepAdvances, PublisherAssumption DEF IndInv, TypeOK
<1>2. ASSUME NEW w \in Workers, PutRunIndex(w) PROVE IndexServable'
  <2>1. IsComplete(call[w].run) /\ objects[call[w].run] # None
    BY <1>1, <1>2 DEF PutRunIndex, IndInv, CallInv, SelfInv, TableInv, PublishSteps
  <2> QED BY <1>2, <2>1 DEF PutRunIndex, IndexServable, IsComplete
<1>3. CASE index' = index
  BY <1>1, <1>3 DEF IndexServable, TablesAdvance, IsComplete
<1>4. index' = index \/ \E w \in Workers : PutRunIndex(w)
  BY DEF Next, vars, Progress, InvokePublish, InvokeStatus, PutObject, VerifyObject,
         UpdateLatest, RefuseLatest, RereadLatest, RecordAttempt, SkipAttempt, Fail
<1> QED BY <1>2, <1>3, <1>4

----

\* An invocation changes its own pc and answer, and moves the pointer only to its run.
LEMMA StepLocal ==
    ASSUME IndInv, NEW w \in Workers, Progress(w) \/ Fail(w)
    PROVE  /\ \A v \in Workers \ {w} : call'[v] = call[v]
           /\ call'[w].run = call[w].run /\ call'[w].attempt = call[w].attempt
           /\ latest' = latest \/ (latest' = call[w].run /\ call[w].run \in Runs)
<1>1. call \in [Workers -> Calls] /\ call[w] \in Calls
  BY DEF IndInv, TypeOK
<1>2. PICK pc, outcome : call' \in {call, [call EXCEPT ![w].pc = pc],
                                  [call EXCEPT ![w].pc = pc, ![w].outcome = outcome]}
  BY DEF Progress, PutObject, VerifyObject, PutRunIndex, UpdateLatest, RefuseLatest,
         RereadLatest, RecordAttempt, SkipAttempt, Fail, Answered, Goto
<1>3. /\ \A v \in Workers \ {w} : call'[v] = call[v]
      /\ call'[w].run = call[w].run /\ call'[w].attempt = call[w].attempt
  BY <1>1, <1>2 DEF Calls
<1>4. latest' = latest \/ UpdateLatest(w)
  BY DEF Progress, PutObject, VerifyObject, PutRunIndex, RefuseLatest,
         RereadLatest, RecordAttempt, SkipAttempt, Fail
<1>5. UpdateLatest(w) => latest' = call[w].run /\ call[w].run \in Runs
  BY DEF UpdateLatest, IndInv, CallInv, SelfInv, PublishSteps
<1> QED BY <1>3, <1>4, <1>5

\* LATEST_STATUS is written only by RecordAttempt, and then to no older time.
LEMMA StatusStep ==
    IndInv /\ [Next]_vars => [status # None => status' # None /\ status.at <= status'.at]_status
<1> DEFINE Advance == status # None => status' # None /\ status.at <= status'.at
<1> SUFFICES ASSUME IndInv, [Next]_vars PROVE [Advance]_status
  OBVIOUS
<1>1. CASE UNCHANGED status
  BY <1>1
<1>2. ASSUME NEW w \in Workers, RecordAttempt(w) PROVE Advance
  <2>1. call[w].attempt # None
    BY <1>2, PublisherAssumption, AttemptTyped
       DEF IndInv, CallInv, SelfInv, RecordAttempt, Steps, TypeOK
  <2> QED BY <1>2, <2>1 DEF RecordAttempt, StatusAdmits
<1>3. [Next]_vars => UNCHANGED status \/ \E w \in Workers : RecordAttempt(w)
  BY DEF Next, vars, Progress, InvokePublish, InvokeStatus, PutObject, VerifyObject,
         PutRunIndex, UpdateLatest, RefuseLatest, RereadLatest, SkipAttempt, Fail
<1> QED BY <1>1, <1>2, <1>3

\* An invocation that has returned left its attempt, or a later one, in LATEST_STATUS.
DoneRecorded ==
    \A w \in Workers : call[w].pc = "done" =>
        status # None /\ call[w].attempt # None /\ call[w].attempt.at <= status.at

\* Every step keeps what the returned invocations have left.
LEMMA DoneStep == IndInv /\ DoneRecorded /\ [Next]_vars => DoneRecorded'
<1> SUFFICES ASSUME IndInv, DoneRecorded, [Next]_vars, NEW v \in Workers, call'[v].pc = "done"
             PROVE  status' # None /\ call'[v].attempt # None /\ call'[v].attempt.at <= status'.at
  BY DEF DoneRecorded
<1>1. IndInv' /\ status' \in Attempts \cup {None} /\ status \in Attempts \cup {None}
  BY IndStep DEF IndInv, TypeOK
<1>2. call \in [Workers -> Calls] /\ \A w \in Workers : call[w] \in Calls
  BY DEF IndInv, TypeOK
<1>3. status # None => status' # None /\ status.at <= status'.at
  <2>1. status # None => status.at \in Nat
    BY <1>1 DEF Attempts
  <2> QED BY <2>1, StatusStep
<1>4. CASE call'[v] = call[v]
  <2>1. status # None /\ call[v].attempt # None /\ call[v].attempt.at <= status.at
    BY <1>4 DEF DoneRecorded
  <2>2. call[v].attempt.at \in Nat /\ status.at \in Nat /\ status'.at \in Nat
    BY <1>1, <1>2, <1>3, <2>1 DEF Calls, Attempts
  <2> QED BY <1>3, <1>4, <2>1, <2>2
<1>5. CASE RecordAttempt(v) \/ SkipAttempt(v)
  <2>1. call'[v].attempt = call[v].attempt /\ call[v].pc = "record_attempt"
    BY <1>5, StepLocal DEF Progress, RecordAttempt, SkipAttempt
  <2>2. call[v].attempt \in Attempts /\ call[v].attempt # None
    BY <2>1, PublisherAssumption, AttemptTyped DEF IndInv, CallInv, SelfInv, Steps
  <2>3. CASE RecordAttempt(v)
    <3>1. call[v].attempt.at \in Nat
      BY <2>2 DEF Attempts
    <3> QED BY <2>1, <2>2, <2>3, <3>1 DEF RecordAttempt
  <2>4. CASE SkipAttempt(v)
    <3>1. status' = status /\ status # None /\ ~(status.at <= call[v].attempt.at)
      BY <2>4 DEF SkipAttempt, StatusAdmits
    <3>2. status.at \in Nat /\ call[v].attempt.at \in Nat
      BY <1>1, <2>2, <3>1 DEF Attempts
    <3> QED BY <2>1, <2>2, <3>1, <3>2
  <2> QED BY <1>5, <2>3, <2>4
<1>6. \/ call'[v] = call[v] \/ call'[v].pc # "done"
      \/ RecordAttempt(v) \/ SkipAttempt(v)
  <2>1. CASE UNCHANGED vars
    BY <2>1 DEF vars
  <2>2. ASSUME NEW w \in Workers, Progress(w) \/ Fail(w), w # v
        PROVE  call'[v] = call[v]
    BY <2>2, StepLocal
  <2>3. ASSUME NEW w \in Workers, NEW r \in Runs, NEW b \in Bodies, InvokePublish(w, r, b)
        PROVE  call'[v] = call[v] \/ call'[v].pc # "done"
    BY <1>2, <2>3 DEF InvokePublish, FirstStep
  <2>4. ASSUME NEW w \in Workers, NEW kind, NEW t, InvokeStatus(w, kind, t)
        PROVE  call'[v] = call[v] \/ call'[v].pc # "done"
    BY <1>2, <2>4 DEF InvokeStatus
  <2>5. ASSUME Progress(v) \/ Fail(v), ~RecordAttempt(v), ~SkipAttempt(v)
        PROVE  call'[v] = call[v] \/ call'[v].pc # "done"
    <3>1. \E pc \in PublishSteps \cup {"record_attempt", "failed"} : \E outcome :
             call' \in {call, [call EXCEPT ![v].pc = pc],
                        [call EXCEPT ![v].pc = pc, ![v].outcome = outcome]}
      BY <2>5, StepAfterTyped
         DEF Progress, PutObject, VerifyObject, PutRunIndex, UpdateLatest, RefuseLatest,
             RereadLatest, Fail, Answered, Goto, PublishSteps
    <3> QED BY <1>2, <3>1 DEF PublishSteps, Calls
  <2> QED BY <2>1, <2>2, <2>3, <2>4, <2>5 DEF Next
<1> QED BY <1>4, <1>5, <1>6

----

\* Before any invocation the tables are empty and nobody has answered.
LEMMA InitInd == Init => IndInv /\ IndexServable /\ DoneRecorded
<1>1. None \notin Runs /\ None \notin Outcomes
  BY PublisherAssumption
<1>2. ASSUME Init PROVE TypeOK
  BY <1>2 DEF Init, TypeOK, NoCall, Calls, Steps, PublishSteps
<1>3. ASSUME Init, NEW w \in Workers PROVE CallInv(w)
  <2>1. call[w].pc = "idle" /\ call[w].run = None /\ call[w].outcome = None
    BY <1>3 DEF Init, NoCall
  <2> QED BY <1>1, <2>1 DEF CallInv, SelfInv, TableInv, Landed, Outcomes, PublishSteps, Steps
<1>4. Init => DoneRecorded /\ IndexServable
  BY DEF Init, NoCall, DoneRecorded, IndexServable
<1> QED BY <1>2, <1>3, <1>4 DEF Init, IndInv, PointerServable, StatusNotAhead

\* The inductive invariant holds of every reachable state.
LEMMA Invariance == Spec => []IndInv
BY InitInd, IndStep, PTL DEF Spec

\* Following LATEST always reaches a complete run whose object and RUN# item
\* exist, whatever invocations interleave or die.
THEOREM PointerAlwaysServable == Spec => []PointerServable
<1>1. IndInv => PointerServable
  BY DEF IndInv
<1> QED BY <1>1, Invariance, PTL

\* LATEST_STATUS never announces a complete scan the pointer has not reached.
THEOREM StatusNeverAhead == Spec => []StatusNotAhead
<1>1. IndInv => StatusNotAhead
  BY DEF IndInv
<1> QED BY <1>1, Invariance, PTL

\* What an invocation answered stays true for as long as the answer stands.
THEOREM RepliesStayHonest == Spec => []RepliesHonest
<1>1. ASSUME IndInv PROVE RepliesHonest
  <2> SUFFICES ASSUME NEW w \in Workers, call[w].pc = "done"
               PROVE  LET r == call[w].run IN
                      /\ call[w].outcome \in {"PUBLISHED", "STALE_IGNORED"} =>
                            /\ objects[r] = call[w].body
                            /\ latest # None /\ CompletedAt[r] <= CompletedAt[latest]
                      /\ call[w].outcome = "PUBLISHED" =>
                            latest = r \/ CompletedAt[r] < CompletedAt[latest]
                      /\ call[w].outcome = "STALE_IGNORED" => latest # r
                      /\ call[w].outcome = "RETAINED_LAST_GOOD" => ~IsComplete(r)
    BY DEF RepliesHonest
  <2> QED BY <1>1 DEF IndInv, CallInv, SelfInv, TableInv, Landed
<1> QED BY <1>1, Invariance, PTL

\* No step of any invocation takes LATEST_STATUS back in time.
THEOREM StatusOnlyAdvances == Spec => StatusNeverRegresses
<1>1. IndInv /\ [Next]_vars =>
         [status # None => status' # None /\ status.at <= status'.at]_status
  BY StatusStep
<1> QED BY <1>1, Invariance, PTL DEF Spec, StatusNeverRegresses

----

\* The pointer moves only in UpdateLatest, and then to a newer complete run.
LEMMA StepShown ==
    ASSUME IndInv, [Next]_vars
    PROVE  [\E r \in {s \in Runs : IsComplete(s)}, b \in Bodies : Site!Swap(r, b)]_Shown
<1>n. None \notin Runs /\ None \notin Bodies
  BY PublisherAssumption
<1>1. CASE latest' = latest /\ (latest # None => objects'[latest] = objects[latest])
  BY <1>1 DEF Shown
<1>2. ASSUME NEW w \in Workers, PutObject(w)
      PROVE  latest' = latest /\ (latest # None => objects'[latest] = objects[latest])
  BY <1>2, <1>n DEF PutObject, ObjectVacant, IndInv, TypeOK, PointerServable
<1>3. ASSUME NEW w \in Workers, UpdateLatest(w)
      PROVE  \E r \in {s \in Runs : IsComplete(s)}, b \in Bodies : Site!Swap(r, b)
  <2>1. /\ call[w].run \in Runs /\ call[w].body \in Bodies /\ IsComplete(call[w].run)
        /\ objects[call[w].run] = call[w].body
    BY <1>3 DEF UpdateLatest, IndInv, CallInv, SelfInv, TableInv, PublishSteps
  <2>2. Shown' = [run |-> call[w].run, body |-> call[w].body]
    BY <1>n, <1>3, <2>1 DEF UpdateLatest, Shown
  <2>3. Shown # None => CompletedAt[Shown.run] < CompletedAt[call[w].run]
    BY <1>3 DEF Shown, UpdateLatest, Supersedes
  <2>4. Site!Swap(call[w].run, call[w].body)
    BY <2>2, <2>3 DEF Site!Swap
  <2> QED BY <2>1, <2>4
<1>4. \/ latest' = latest /\ objects' = objects
      \/ \E w \in Workers : PutObject(w) \/ UpdateLatest(w)
  BY DEF Next, vars, Progress, InvokePublish, InvokeStatus, VerifyObject, PutRunIndex,
         RefuseLatest, RereadLatest, RecordAttempt, SkipAttempt, Fail
<1> QED BY <1>1, <1>2, <1>3, <1>4

\* The publisher implements PublicSite: what the console shows changes only by
\* a single-step swap to a strictly newer complete scan.
THEOREM Refinement == Spec => ImplementsPublicSite
<1>1. Init => Site!Init
  BY DEF Init, Site!Init, Shown
<1>2. ASSUME IndInv, [Next]_vars PROVE [Site!Next]_Shown
  BY <1>2, StepShown DEF Site!Next
<1> QED BY <1>1, <1>2, Invariance, PTL DEF Spec, ImplementsPublicSite, Site!Spec
====
