---- MODULE PrivateStore_proofs ----
(***************************************************************************)
(* Proofs about PrivateStore for any runs, invocations, history window and *)
(* any lock expiry that is no shorter than the Lambda's timeout.           *)
(***************************************************************************)
EXTENDS PrivateStore, FiniteSetTheorems, TLAPS

\* The invocation can still take a step of the body of persist.
InBody(w) == call[w].pc \in Critical /\ Alive(w)

\* The lock such an invocation took cannot have expired yet.
HoldsLock(w) ==
    InBody(w) => /\ lock # None
                 /\ lock.owner = w
                 /\ call[w].started + LockTTL <= lock.expires

\* What the invocation knows of the tables, step by step.
CallInv(w) ==
    /\ call[w].started <= clock
    /\ InBody(w) /\ call[w].pc # "record_scan" /\ call[w].run \notin index =>
          call[w].prior = Prior(index)
    /\ call[w].pc = "put_item" => objects[call[w].run] = call[w].prior
    /\ call[w].pc \in {"release_lock", "ended"} /\ call[w].result # "error" =>
          /\ call[w].run \in index
          /\ objects[call[w].run] = call[w].prior

IndInv ==
    /\ TypeOK
    /\ IndexLoadable
    /\ \A w \in Invocations : HoldsLock(w) /\ CallInv(w)

----

\* The reports a scan is compared with are indexed ones.
LEMMA PriorSubset == ASSUME NEW S \in SUBSET Runs PROVE Prior(S) \subseteq S
BY DEF Prior, Window, Newest

\* The newest complete run is always among them.
LEMMA PriorHasBaseline ==
    ASSUME NEW S \in SUBSET Runs PROVE Newest(S \cap Complete) \subseteq Prior(S)
<1> SUFFICES ASSUME NEW n \in Newest(S \cap Complete), NEW c \in Window(S) \cap Complete
             PROVE  n \in Window(S)
  BY DEF Prior
<1> DEFINE Above(r) == {s \in S : SortKey[s] > SortKey[r]}
<1>1. n \in S /\ c \in S /\ SortKey[c] <= SortKey[n]
  BY DEF Newest, Window
<1>2. \A r \in Runs : SortKey[r] \in Nat
  BY PrivateStoreAssumption
<1>3. Above(n) \subseteq Above(c)
  BY <1>1, <1>2
<1>4. IsFiniteSet(Above(c))
  BY PrivateStoreAssumption, FS_Subset
<1>5. IsFiniteSet(Above(n)) /\ Cardinality(Above(n)) <= Cardinality(Above(c))
  BY <1>3, <1>4, FS_Subset
<1>6. Cardinality(Above(n)) \in Nat /\ Cardinality(Above(c)) \in Nat
  BY <1>4, <1>5, FS_CardinalityType
<1>7. Cardinality(Above(c)) < MaxHistory
  BY DEF Window
<1> QED BY <1>1, <1>5, <1>6, <1>7, PrivateStoreAssumption DEF Window

\* The order of persist's calls.
LEMMA StepAfterTyped ==
    /\ StepAfter["record_scan"] = "put_object"
    /\ StepAfter["put_object"] = "put_item"
    /\ StepAfter["put_item"] = "release_lock"
BY DEF StepAfter

----

\* The moves of an invocation keep the table of invocations well formed.
LEMMA MovesTyped ==
    ASSUME TypeOK, NEW w \in Invocations, call[w].pc \in Running
    PROVE  /\ \A step \in Running :
                 call[w].result = None \/ step = "release_lock" =>
                    Goto(w, step) \in [Invocations -> Calls]
           /\ Raise(w) \in [Invocations -> Calls]
           /\ End(w, "error") \in [Invocations -> Calls]
           /\ End(w, "ok") \in [Invocations -> Calls]
<1>1. call[w] \in Calls
  BY DEF TypeOK
<1>2. ASSUME NEW step \in Running, call[w].result = None \/ step = "release_lock"
      PROVE  Goto(w, step) \in [Invocations -> Calls]
  <2>1. [call[w] EXCEPT !.pc = step] \in Calls
    BY <1>1, <1>2 DEF Calls, Running, Critical
  <2> QED BY <2>1 DEF Goto, TypeOK
<1>3. Raise(w) \in [Invocations -> Calls]
  <2>1. [call[w] EXCEPT !.pc = "release_lock", !.prior = {}, !.result = "error"] \in Calls
    BY <1>1 DEF Calls, Running, Critical
  <2> QED BY <2>1 DEF Raise, TypeOK
<1>4. End(w, "error") \in [Invocations -> Calls]
  <2>1. [NoCall EXCEPT !.pc = "ended", !.result = "error"] \in Calls
    BY PrivateStoreAssumption DEF NoCall, Calls, Running, Critical
  <2> QED BY <2>1 DEF End, TypeOK
<1>5. End(w, "ok") \in [Invocations -> Calls]
  <2>1. [call[w] EXCEPT !.pc = "ended", !.started = 0, !.result = "ok"] \in Calls
    BY <1>1 DEF Calls, Running, Critical
  <2> QED BY <2>1 DEF End, TypeOK
<1> QED BY <1>2, <1>3, <1>4, <1>5

\* Every step of the store keeps the items and the invocations well formed.
LEMMA TypeStep == TypeOK /\ [Next]_vars => TypeOK'
<1> SUFFICES ASSUME TypeOK, [Next]_vars PROVE TypeOK'
  OBVIOUS
<1>s. ASSUME NEW w \in Invocations
      PROVE  /\ call[w] \in Calls
             /\ call[w].pc \in Running => call[w].run \in Runs
             /\ call[w].pc \in Running \ {"release_lock"} => call[w].result = None
  BY DEF TypeOK, Calls
<1>u. CASE UNCHANGED vars
  BY <1>u DEF TypeOK, vars
<1>a. CASE Tick
  BY <1>a DEF Tick, TypeOK
<1>b. ASSUME NEW w \in Invocations, NEW r \in Runs, Invoke(w, r) PROVE TypeOK'
  <2>1. [NoCall EXCEPT !.pc = "acquire_lock", !.run = r, !.started = clock] \in Calls
    BY PrivateStoreAssumption DEF TypeOK, NoCall, Calls, Running, Critical
  <2> QED BY <1>b, <2>1 DEF Invoke, TypeOK
<1>c. ASSUME NEW w \in Invocations, AcquireLock(w) PROVE TypeOK'
  <2>1. call[w].pc = "acquire_lock" /\ call[w].result = None
    BY <1>c, <1>s DEF AcquireLock, At, Running
  <2>2. call' \in [Invocations -> Calls]
    BY <1>c, <2>1, MovesTyped DEF AcquireLock, Answered, TypeOK, Running, Critical
  <2>3. lock' \in Locks
    BY <1>c, <1>s, PrivateStoreAssumption DEF AcquireLock, Locks, Calls
  <2> QED BY <1>c, <2>2, <2>3 DEF AcquireLock, TypeOK
<1>d. ASSUME NEW w \in Invocations, RefuseLock(w) PROVE TypeOK'
  BY <1>d, MovesTyped DEF RefuseLock, At, Running, TypeOK
<1>e. ASSUME NEW w \in Invocations, RecordScan(w) PROVE TypeOK'
  <2>1. call[w].pc = "record_scan" /\ call[w].result = None
    BY <1>e, <1>s DEF RecordScan, At, Running, Critical
  <2>2. Prior(index) \in SUBSET Runs
    BY PriorSubset DEF TypeOK
  <2>3. [call[w] EXCEPT !.pc = "put_object", !.prior = Prior(index)] \in Calls
    BY <1>s, <2>1, <2>2 DEF Calls, Running, Critical
  <2>4. call' \in [Invocations -> Calls]
    BY <1>e, <2>1, <2>3, MovesTyped, StepAfterTyped DEF RecordScan, TypeOK, Running, Critical
  <2> QED BY <1>e, <2>4 DEF RecordScan, TypeOK
<1>f. ASSUME NEW w \in Invocations, PutObject(w) PROVE TypeOK'
  <2>1. call[w].pc = "put_object" /\ call[w].result = None
    BY <1>f, <1>s DEF PutObject, At, Running, Critical
  <2>2. call' \in [Invocations -> Calls]
    BY <1>f, <2>1, MovesTyped, StepAfterTyped
       DEF PutObject, Answered, TypeOK, Running, Critical
  <2>3. objects' \in [Runs -> {None} \cup SUBSET Runs]
    BY <1>f, <1>s DEF PutObject, TypeOK, Calls
  <2> QED BY <1>f, <2>2, <2>3 DEF PutObject, TypeOK
<1>g. ASSUME NEW w \in Invocations, RefuseObject(w) \/ RefuseItem(w) PROVE TypeOK'
  BY <1>g, MovesTyped DEF RefuseObject, RefuseItem, At, Running, Critical, TypeOK
<1>h. ASSUME NEW w \in Invocations, PutItem(w) PROVE TypeOK'
  <2>1. call[w].pc = "put_item" /\ call[w].run \in Runs
    BY <1>h, <1>s DEF PutItem, At, Running, Critical
  <2>2. call' \in [Invocations -> Calls]
    BY <1>h, <2>1, MovesTyped, StepAfterTyped DEF PutItem, Answered, TypeOK, Running, Critical
  <2> QED BY <1>h, <2>1, <2>2 DEF PutItem, TypeOK
<1>i. ASSUME NEW w \in Invocations, ReleaseLock(w) PROVE TypeOK'
  <2>1. call[w].pc \in Running
    BY <1>i DEF ReleaseLock, At, Running
  <2>2. call' \in [Invocations -> Calls]
    BY <1>i, <2>1, MovesTyped DEF ReleaseLock, Answered, TypeOK
  <2> QED BY <1>i, <2>2 DEF ReleaseLock, TypeOK
<1>j. ASSUME NEW w \in Invocations, Fault(w) \/ Kill(w) PROVE TypeOK'
  BY <1>j, MovesTyped DEF Fault, Kill, TypeOK
<1> QED
  BY <1>u, <1>a, <1>b, <1>c, <1>d, <1>e, <1>f, <1>g, <1>h, <1>i, <1>j DEF Next, Persist

\* Type correctness of the private store.
THEOREM TypeCorrect == Spec => []TypeOK
<1>1. Init => TypeOK
  BY PrivateStoreAssumption DEF Init, TypeOK, NoCall, Calls, Running, Critical
<1> QED BY <1>1, TypeStep, PTL DEF Spec

----

\* A step of another invocation that takes neither the lock nor the index item
\* leaves what this one knows alone.
LEMMA CallInvStable ==
    ASSUME TypeOK, NEW v \in Invocations, CallInv(v), call'[v] = call[v],
           clock <= clock', clock' \in Nat, index \subseteq index', InBody(v) => index' = index,
           \A r \in Runs : objects[r] # None => objects'[r] = objects[r]
    PROVE  CallInv(v)'
<1>1. call[v] \in Calls
  BY DEF TypeOK
<1>2. call[v].started \in Nat /\ Lifetime \in Nat /\ clock \in Nat
  BY <1>1, PrivateStoreAssumption DEF Calls, TypeOK
<1>3. InBody(v)' => InBody(v)
  BY <1>2 DEF InBody, Alive
<1>4. call[v].prior # None
  BY <1>1, PrivateStoreAssumption DEF Calls
<1>5. call[v].pc = "put_item" => call[v].run \in Runs
  BY <1>1 DEF Calls, Running, Critical
<1>6. call[v].pc = "release_lock" => call[v].run \in Runs
  BY <1>1 DEF Calls, Running
<1>7. call[v].run \in index => call[v].run \in Runs
  BY DEF TypeOK
<1> QED BY <1>2, <1>3, <1>4, <1>5, <1>6, <1>7 DEF CallInv

\* The lock of an invocation that is in the body of persist is not taken away.
LEMMA HoldsLockStable ==
    ASSUME TypeOK, NEW v \in Invocations, HoldsLock(v), call'[v] = call[v],
           clock <= clock', clock' \in Nat, InBody(v) => lock' = lock
    PROVE  HoldsLock(v)'
<1>1. call[v] \in Calls
  BY DEF TypeOK
<1>2. call[v].started \in Nat /\ Lifetime \in Nat /\ clock \in Nat
  BY <1>1, PrivateStoreAssumption DEF Calls, TypeOK
<1>3. InBody(v)' => InBody(v)
  BY <1>2 DEF InBody, Alive
<1> QED BY <1>3 DEF HoldsLock

\* While an invocation is in the body of persist, its lock refuses the others.
LEMMA LockExcludes ==
    ASSUME TypeOK, NEW w \in Invocations, HoldsLock(w), InBody(w), NEW now \in Nat, now <= clock
    PROVE  ~LockFree(now)
<1>1. call[w] \in Calls /\ lock \in Locks \cup {None}
  BY DEF TypeOK
<1>2. lock # None /\ call[w].started + LockTTL <= lock.expires /\ lock.expires \in Nat
  BY <1>1 DEF HoldsLock, Locks
<1>3. clock <= call[w].started + Lifetime
  BY DEF InBody, Alive
<1>4. call[w].started \in Nat /\ clock \in Nat
  BY <1>1 DEF Calls, TypeOK
<1> QED BY <1>2, <1>3, <1>4, TimeoutWithinTTL, PrivateStoreAssumption DEF LockFree

\* Two invocations that still run never share the body of persist.
LEMMA Exclusive == (\A w \in Invocations : HoldsLock(w)) => MutualExclusion
BY DEF HoldsLock, InBody, MutualExclusion

\* Every step of the store preserves the inductive invariant.
LEMMA IndStep == IndInv /\ [Next]_vars => IndInv'
<1> SUFFICES ASSUME IndInv, [Next]_vars PROVE IndInv'
  OBVIOUS
<1> USE DEF IndInv
<1>t. TypeOK /\ TypeOK' /\ clock \in Nat /\ clock' \in Nat
  BY TypeStep DEF TypeOK
<1>n. None \notin {"ok", "error"} /\ \A S \in SUBSET Runs : S # None
  BY PrivateStoreAssumption
<1>s. ASSUME NEW w \in Invocations
      PROVE  /\ call[w] \in Calls
             /\ call[w].pc \in Running => call[w].run \in Runs
             /\ call[w].prior \in SUBSET Runs /\ call[w].started \in Nat
  BY <1>t DEF TypeOK, Calls
<1>u. CASE UNCHANGED vars
  <2>1. \A w \in Invocations : HoldsLock(w)' /\ CallInv(w)'
    BY <1>t, <1>u, HoldsLockStable, CallInvStable DEF vars
  <2> QED BY <1>t, <1>u, <2>1 DEF vars, IndexLoadable
<1>a. CASE Tick
  <2>1. \A w \in Invocations : HoldsLock(w)' /\ CallInv(w)'
    BY <1>t, <1>a, HoldsLockStable, CallInvStable DEF Tick
  <2> QED BY <1>t, <1>a, <2>1 DEF Tick, IndexLoadable
\* A step of invocation w that disturbs no other one that is in the body.
<1>o. ASSUME NEW w \in Invocations, clock' = clock,
             \A v \in Invocations \ {w} : call'[v] = call[v],
             \A v \in Invocations \ {w} : InBody(v) => lock' = lock /\ index' = index,
             index \subseteq index',
             \A r \in Runs : objects[r] # None => objects'[r] = objects[r],
             HoldsLock(w)', CallInv(w)', IndexLoadable'
      PROVE  IndInv'
  <2>1. ASSUME NEW v \in Invocations \ {w} PROVE HoldsLock(v)' /\ CallInv(v)'
    BY <1>o, <1>t, <2>1, HoldsLockStable, CallInvStable
  <2> QED BY <1>o, <1>t, <2>1
\* The same for a step that touches neither lock nor tables.
<1>p. ASSUME NEW w \in Invocations, UNCHANGED <<clock, lock, objects, index>>,
             \A v \in Invocations \ {w} : call'[v] = call[v], HoldsLock(w)', CallInv(w)'
      PROVE  IndInv'
  <2>1. IndexLoadable'
    BY <1>p DEF IndexLoadable
  <2> QED BY <1>o, <1>p, <2>1
\* An invocation that is not in the body and has no result claims nothing.
<1>q. ASSUME NEW w \in Invocations, call'[w].pc \notin Critical, call'[w].started <= clock',
             \/ call'[w].result = "error"
             \/ call'[w].pc \notin {"release_lock", "ended"}
      PROVE  HoldsLock(w)' /\ CallInv(w)'
  BY <1>q DEF HoldsLock, CallInv, InBody, Critical
<1>b. ASSUME NEW w \in Invocations, NEW r \in Runs, Invoke(w, r) PROVE IndInv'
  <2>1. call'[w] = [NoCall EXCEPT !.pc = "acquire_lock", !.run = r, !.started = clock]
    BY <1>b, <1>t DEF Invoke, TypeOK
  <2>2. call'[w].pc = "acquire_lock" /\ call'[w].started = clock
    BY <2>1 DEF NoCall
  <2>3. UNCHANGED <<clock, lock, objects, index>>
        /\ \A v \in Invocations \ {w} : call'[v] = call[v]
    BY <1>b, <1>t DEF Invoke, TypeOK
  <2>4. HoldsLock(w)' /\ CallInv(w)'
    BY <1>q, <1>t, <2>2, <2>3 DEF Critical
  <2> QED BY <1>p, <2>3, <2>4
\* An error that ends the invocation, or the body of persist.
<1>d. ASSUME NEW w \in Invocations, UNCHANGED <<clock, lock, objects, index>>,
             call' = End(w, "error") \/ call' = Raise(w)
      PROVE  IndInv'
  <2>1. \A v \in Invocations \ {w} : call'[v] = call[v]
    BY <1>d, <1>t DEF End, Raise, TypeOK
  <2>2. call'[w].pc \notin Critical /\ call'[w].result = "error"
        /\ call'[w].started \in {0, call[w].started}
    <3>1. CASE call' = End(w, "error")
      <4>1. call'[w] = [NoCall EXCEPT !.pc = "ended", !.result = "error"]
        BY <1>t, <3>1 DEF End, TypeOK
      <4> QED BY <4>1 DEF NoCall, Critical
    <3>2. CASE call' = Raise(w)
      <4>1. call'[w] = [call[w] EXCEPT !.pc = "release_lock", !.prior = {}, !.result = "error"]
        BY <1>t, <3>2 DEF Raise, TypeOK
      <4> QED BY <1>s, <4>1 DEF Calls, Critical
    <3> QED BY <1>d, <3>1, <3>2
  <2>3. CallInv(w)
    OBVIOUS
  <2>4. call'[w].started <= clock'
    BY <1>d, <1>t, <2>2, <2>3 DEF CallInv
  <2>5. HoldsLock(w)' /\ CallInv(w)'
    BY <1>q, <2>2, <2>4
  <2> QED BY <1>d, <1>p, <2>1, <2>5
<1>c. ASSUME NEW w \in Invocations, AcquireLock(w) PROVE IndInv'
  <2>1. call[w].pc = "acquire_lock" /\ LockFree(call[w].started) /\ call[w].started <= clock
        /\ UNCHANGED <<clock, objects, index>>
    BY <1>c DEF AcquireLock, At, CallInv
  <2>2. \A v \in Invocations : ~InBody(v)
    BY <1>s, <1>t, <2>1, LockExcludes
  <2>3. \A v \in Invocations \ {w} : call'[v] = call[v]
    BY <1>c, <1>t DEF AcquireLock, Answered, Goto, TypeOK
  <2>4. IndexLoadable'
    BY <2>1 DEF IndexLoadable
  <2>5. HoldsLock(w)' /\ CallInv(w)'
    <3>1. CASE call' = call
      BY <2>1, <3>1, <1>q DEF Critical
    <3>2. CASE call' = Goto(w, "record_scan")
      <4>1. call'[w] = [call[w] EXCEPT !.pc = "record_scan"]
        BY <1>t, <3>2 DEF Goto, TypeOK
      <4>2. call'[w].pc = "record_scan" /\ call'[w].started = call[w].started
        BY <1>s, <4>1 DEF Calls
      <4>3. lock' = [owner |-> w, expires |-> call[w].started + LockTTL]
        BY <1>c DEF AcquireLock
      <4>4. lock' # None
        BY <1>t, <4>3, PrivateStoreAssumption, <1>s DEF Locks
      <4>5. call[w].started + LockTTL <= lock'.expires
        BY <1>s, <4>3, PrivateStoreAssumption
      <4> QED BY <2>1, <4>2, <4>3, <4>4, <4>5 DEF HoldsLock, CallInv
    <3> QED BY <1>c, <3>1, <3>2 DEF AcquireLock, Answered
  <2> QED BY <1>o, <2>1, <2>2, <2>3, <2>4, <2>5
<1>e. ASSUME NEW w \in Invocations, RecordScan(w) PROVE IndInv'
  <2>1. CASE call' = Raise(w)
    BY <1>d, <1>e, <2>1 DEF RecordScan
  <2>2. CASE call' = [call EXCEPT ![w].pc = "put_object", ![w].prior = Prior(index)]
    <3>1. UNCHANGED <<clock, lock, objects, index>>
          /\ \A v \in Invocations \ {w} : call'[v] = call[v]
      BY <1>e, <1>t, <2>2 DEF RecordScan, TypeOK
    <3>2. call'[w] = [call[w] EXCEPT !.pc = "put_object", !.prior = Prior(index)]
      BY <1>t, <2>2 DEF TypeOK
    <3>3. call'[w].pc = "put_object" /\ call'[w].prior = Prior(index)
          /\ call'[w].started = call[w].started /\ call'[w].run = call[w].run
      BY <1>s, <3>2 DEF Calls
    <3>4. InBody(w) /\ HoldsLock(w) /\ CallInv(w)
      BY <1>e DEF RecordScan, At, InBody, Critical
    <3>5. HoldsLock(w)' /\ CallInv(w)'
      BY <3>1, <3>3, <3>4 DEF HoldsLock, CallInv
    <3> QED BY <1>p, <3>1, <3>5
  <2> QED BY <1>e, <2>1, <2>2, StepAfterTyped DEF RecordScan
<1>f. ASSUME NEW w \in Invocations, PutObject(w) PROVE IndInv'
  <2>1. /\ call[w].pc = "put_object" /\ call[w].run \in Runs /\ objects[call[w].run] = None
        /\ objects' = [objects EXCEPT ![call[w].run] = call[w].prior]
        /\ UNCHANGED <<clock, lock, index>>
    BY <1>f, <1>s DEF PutObject, At, Vacant, Running, Critical
  <2>2. \A v \in Invocations \ {w} : call'[v] = call[v]
    BY <1>f, <1>t DEF PutObject, Answered, Goto, TypeOK
  <2>3. \A r \in Runs : objects[r] # None => objects'[r] = objects[r]
    BY <2>1, <1>t DEF TypeOK
  <2>4. IndexLoadable'
    BY <2>1, <2>3, <1>t DEF IndexLoadable, TypeOK
  <2>5. InBody(w) /\ HoldsLock(w) /\ CallInv(w)
    BY <1>f DEF PutObject, At, InBody, Critical
  <2>6. HoldsLock(w)' /\ CallInv(w)'
    <3>1. CASE call' = call
      BY <2>1, <2>5, <3>1 DEF HoldsLock, CallInv, InBody, Alive
    <3>2. CASE call' = Goto(w, "put_item")
      <4>1. call'[w] = [call[w] EXCEPT !.pc = "put_item"]
        BY <1>t, <3>2 DEF Goto, TypeOK
      <4>2. call'[w].pc = "put_item" /\ call'[w].prior = call[w].prior
            /\ call'[w].started = call[w].started /\ call'[w].run = call[w].run
        BY <1>s, <4>1 DEF Calls
      <4>3. objects'[call[w].run] = call[w].prior
        BY <2>1, <1>t DEF TypeOK
      <4> QED BY <2>1, <2>5, <4>2, <4>3 DEF HoldsLock, CallInv
    <3> QED BY <1>f, <3>1, <3>2, StepAfterTyped DEF PutObject, Answered
  <2> QED BY <1>o, <2>1, <2>2, <2>3, <2>4, <2>6
<1>h. ASSUME NEW w \in Invocations, PutItem(w) PROVE IndInv'
  <2>1. /\ call[w].pc = "put_item" /\ call[w].run \in Runs /\ call[w].run \notin index
        /\ index' = index \cup {call[w].run} /\ UNCHANGED <<clock, lock, objects>>
    BY <1>h, <1>s DEF PutItem, At, Running, Critical
  <2>2. \A v \in Invocations \ {w} : call'[v] = call[v]
    BY <1>h, <1>t DEF PutItem, Answered, Goto, TypeOK
  <2>3. InBody(w) /\ HoldsLock(w) /\ CallInv(w)
    BY <1>h DEF PutItem, At, InBody, Critical
  <2>4. \A v \in Invocations \ {w} : ~InBody(v)
    BY <2>3 DEF HoldsLock
  <2>5. /\ objects[call[w].run] = call[w].prior /\ call[w].prior = Prior(index)
        /\ Prior(index) \subseteq index /\ call[w].prior # None
    BY <1>n, <1>s, <1>t, <2>1, <2>3, PriorSubset DEF CallInv, TypeOK
  <2>6. IndexLoadable'
    BY <2>1, <2>5 DEF IndexLoadable
  <2>7. HoldsLock(w)' /\ CallInv(w)'
    <3>1. CASE call' = call
      BY <2>1, <2>3, <3>1 DEF HoldsLock, CallInv, InBody, Alive
    <3>2. CASE call' = Goto(w, "release_lock")
      <4>1. call'[w] = [call[w] EXCEPT !.pc = "release_lock"]
        BY <1>t, <3>2 DEF Goto, TypeOK
      <4>2. call'[w].pc = "release_lock" /\ call'[w].prior = call[w].prior
            /\ call'[w].started = call[w].started /\ call'[w].run = call[w].run
        BY <1>s, <4>1 DEF Calls
      <4> QED BY <2>1, <2>3, <2>5, <4>2 DEF HoldsLock, CallInv, InBody, Critical
    <3> QED BY <1>h, <3>1, <3>2, StepAfterTyped DEF PutItem, Answered
  <2> QED BY <1>o, <2>1, <2>2, <2>4, <2>6, <2>7
<1>i. ASSUME NEW w \in Invocations, ReleaseLock(w) PROVE IndInv'
  <2>1. call[w].pc = "release_lock" /\ UNCHANGED <<clock, objects, index>>
    BY <1>i DEF ReleaseLock, At
  <2>2. \A v \in Invocations \ {w} : call'[v] = call[v]
    BY <1>i, <1>t DEF ReleaseLock, Answered, End, TypeOK
  <2>3. \A v \in Invocations \ {w} : InBody(v) => lock' = lock
    BY <1>i DEF ReleaseLock, ReleaseAllowed, HoldsLock
  <2>4. IndexLoadable'
    BY <2>1 DEF IndexLoadable
  <2>5. HoldsLock(w)' /\ CallInv(w)'
    <3>1. CASE call' = call
      BY <2>1, <3>1 DEF HoldsLock, CallInv, InBody, Critical
    <3>2. CASE call' = End(w, "error")
      <4>1. call'[w] = [NoCall EXCEPT !.pc = "ended", !.result = "error"]
        BY <1>t, <3>2 DEF End, TypeOK
      <4>2. call'[w].pc = "ended" /\ call'[w].result = "error" /\ call'[w].started = 0
        BY <4>1 DEF NoCall
      <4> QED BY <1>q, <1>t, <4>2 DEF Critical
    <3>3. CASE call[w].result # "error" /\ call' = End(w, "ok")
      <4>1. call'[w] = [call[w] EXCEPT !.pc = "ended", !.started = 0, !.result = "ok"]
        BY <1>t, <3>3 DEF End, TypeOK
      <4>2. call'[w].pc = "ended" /\ call'[w].started = 0
            /\ call'[w].prior = call[w].prior /\ call'[w].run = call[w].run
        BY <1>s, <4>1 DEF Calls
      <4>3. CallInv(w)
        OBVIOUS
      <4> QED BY <1>t, <2>1, <3>3, <4>2, <4>3 DEF HoldsLock, CallInv, InBody, Critical
    <3> QED BY <1>i, <3>1, <3>2, <3>3 DEF ReleaseLock, Answered
  <2> QED BY <1>o, <2>1, <2>2, <2>3, <2>4, <2>5
<1> QED
  BY <1>u, <1>a, <1>b, <1>c, <1>d, <1>e, <1>f, <1>h, <1>i
     DEF Next, Persist, RefuseLock, RefuseObject, RefuseItem, Fault, Kill

----

\* The inductive invariant holds of every reachable state.
LEMMA Invariance == Spec => []IndInv
<1>1. Init => IndInv
  <2>1. ASSUME Init PROVE TypeOK
    BY <2>1, PrivateStoreAssumption DEF Init, TypeOK, NoCall, Calls, Running, Critical
  <2>2. ASSUME Init, NEW w \in Invocations PROVE HoldsLock(w) /\ CallInv(w)
    <3>1. call[w].pc = "idle" /\ call[w].started = 0 /\ clock = 0
      BY <2>2 DEF Init, NoCall
    <3> QED BY <3>1 DEF HoldsLock, CallInv, InBody, Critical
  <2> QED BY <2>1, <2>2 DEF Init, IndInv, IndexLoadable
<1> QED BY <1>1, IndStep, PTL DEF Spec

\* No two running invocations are ever both between acquiring and releasing
\* the lock, for any timeout that does not exceed the lock's expiry.
THEOREM BodiesExclusive == Spec => []MutualExclusion
<1>1. IndInv => MutualExclusion
  BY Exclusive DEF IndInv
<1> QED BY <1>1, Invariance, PTL

\* Every indexed run's object and history can be loaded.
THEOREM IndexAlwaysLoadable == Spec => []IndexLoadable
<1>1. IndInv => IndexLoadable
  BY DEF IndInv
<1> QED BY <1>1, Invariance, PTL

\* A returned receipt describes what the store holds.
THEOREM ReceiptsAlwaysTrue == Spec => []ReceiptsTrue
<1>1. IndInv => ReceiptsTrue
  BY DEF IndInv, CallInv, ReceiptsTrue
<1> QED BY <1>1, Invariance, PTL

----

\* Only PutItem changes the index, and then it adds the run with the history
\* read under the lock.
LEMMA IndexSteps ==
    ASSUME IndInv, [Next]_vars
    PROVE  \/ /\ index' = index
              /\ \A r \in index : objects'[r] = objects[r]
           \/ \E r \in Runs \ index : /\ index' = index \cup {r}
                                      /\ objects' = objects
                                      /\ objects[r] = Prior(index)
<1>1. ASSUME NEW w \in Invocations, PutObject(w)
      PROVE  index' = index /\ \A r \in index : objects'[r] = objects[r]
  BY <1>1 DEF IndInv, IndexLoadable, TypeOK, PutObject, Vacant
<1>2. ASSUME NEW w \in Invocations, PutItem(w)
      PROVE  \E r \in Runs \ index :
                index' = index \cup {r} /\ objects' = objects /\ objects[r] = Prior(index)
  <2>1. call[w].run \in Runs \ index /\ call[w].pc = "put_item" /\ InBody(w)
    BY <1>2 DEF PutItem, At, IndInv, TypeOK, Calls, Running, Critical, InBody
  <2>2. objects[call[w].run] = Prior(index)
    BY <2>1 DEF IndInv, CallInv
  <2> QED BY <1>2, <2>1, <2>2 DEF PutItem
<1>3. \/ index' = index /\ objects' = objects
      \/ \E w \in Invocations : PutObject(w) \/ PutItem(w)
  BY DEF Next, vars, Tick, Persist, Invoke, AcquireLock, RefuseLock, RecordScan, RefuseObject,
         RefuseItem, ReleaseLock, Fault, Kill
<1> QED BY <1>1, <1>2, <1>3

\* A scan is never compared with a history that lacks the newest complete run.
THEOREM BaselineAlwaysKept == Spec => BaselineKept
<1> DEFINE Kept == \A r \in index' \ index : Newest(index \cap Complete) \subseteq objects[r]
<1>1. ASSUME IndInv, [Next]_vars PROVE [Kept]_index
  <2>1. index \in SUBSET Runs
    BY <1>1 DEF IndInv, TypeOK
  <2>2. Newest(index \cap Complete) \subseteq Prior(index)
    BY <2>1, PriorHasBaseline
  <2> QED BY <1>1, <2>2, IndexSteps
<1> QED BY <1>1, Invariance, PTL DEF Spec, BaselineKept

\* The store implements RunLog: whatever interleaves or dies, runs are recorded
\* as if one at a time, each once and against the whole history before it.
THEOREM Refinement == Spec => ImplementsRunLog
<1> DEFINE recorded == [r \in Runs |-> IF r \in index THEN objects[r] ELSE None]
<1>1. Init => Log!Init
  BY DEF Init, Log!Init
<1>2. ASSUME IndInv, [Next]_vars PROVE [Log!Next]_recorded
  <2>1. index = Log!Recorded
    BY <1>2 DEF Log!Recorded, IndInv, TypeOK, IndexLoadable
  <2>2. CASE index' = index /\ \A r \in index : objects'[r] = objects[r]
    BY <2>2
  <2>3. ASSUME NEW r \in Runs \ index, index' = index \cup {r}, objects' = objects,
               objects[r] = Prior(index)
        PROVE  Log!Record(r)
    BY <2>1, <2>3 DEF Log!Record
  <2> QED BY <1>2, <2>2, <2>3, IndexSteps DEF Log!Next
<1> QED BY <1>1, <1>2, Invariance, PTL DEF Spec, ImplementsRunLog, Log!Spec
====
