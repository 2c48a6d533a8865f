---- MODULE PrivateStore ----
(***************************************************************************)
(* PrivateSnapshotStore.persist (phase3/private_snapshot_store.py) as the  *)
(* snapshot-writer Lambda runs it: a DynamoDB lock with an expiry and an   *)
(* owner, the rebuilt history, an immutable S3 object and a RUN# item.     *)
(*                                                                         *)
(* An invocation is one call of the Lambda.  The scan task's own client    *)
(* sends a persist again when its answer is late, so several invocations   *)
(* may persist one run.  A storage call answers, takes effect with its     *)
(* answer lost and is sent again by botocore, or raises.                   *)
(***************************************************************************)
EXTENDS Naturals, FiniteSets

CONSTANTS
    Runs,
    Invocations,
    SortKey,      \* run -> place of RUN#<completed_at>#<run_id> in the index
    Complete,     \* runs whose item has status_pk <account>#complete
    MaxHistory,   \* MAX_HISTORY_RUNS
    LockTTL,      \* LOCK_TTL_SECONDS
    Lifetime,     \* the Lambda's timeout
    None

Locks == [owner : Invocations, expires : Nat]

ASSUME PrivateStoreAssumption ==
    /\ IsFiniteSet(Runs)
    /\ SortKey \in [Runs -> Nat]
    /\ \A r, s \in Runs : SortKey[r] = SortKey[s] => r = s
    /\ Complete \subseteq Runs
    /\ MaxHistory \in Nat \ {0}
    /\ LockTTL \in Nat /\ Lifetime \in Nat
    /\ None \notin Runs \cup Invocations \cup Locks \cup {"ok", "error"}
    /\ \A S \in SUBSET Runs : S # None

\* timeout = 300 in stage1.tf, LOCK_TTL_SECONDS = 3600.
ASSUME TimeoutWithinTTL == Lifetime <= LockTTL

VARIABLES
    clock,    \* seconds
    lock,     \* the LOCK#SCAN item: None or its owner and expiry
    objects,  \* private S3 bucket: run -> the prior runs its drift was computed from
    index,    \* RUN# items
    call      \* invocation -> its progress

vars == <<clock, lock, objects, index, call>>

----
(* Data *)

Critical == {"record_scan", "put_object", "put_item"}

Running == {"acquire_lock", "release_lock"} \cup Critical

Calls ==
    {c \in [pc : Running \cup {"idle", "ended"},
            run : Runs \cup {None},
            started : Nat,
            prior : SUBSET Runs,
            result : {None, "ok", "error"}] :
        /\ c.pc \in Running \/ c.result = "ok" => c.run \in Runs
        /\ c.pc \in Running \ {"release_lock"} => c.result = None
        /\ c.result = "ok" => c.pc = "ended"}

NoCall == [pc |-> "idle", run |-> None, started |-> 0, prior |-> {}, result |-> None]

LockFree_NeverExpires(now) == lock = None

\* ConditionExpression of the lock, at the time the caller read before.
LockFree(now) == lock # None => lock.expires < now

ReleaseAllowed_AnyOwner(w) == TRUE

\* ConditionExpression of the lock's deletion.
ReleaseAllowed(w) == lock # None /\ lock.owner = w

Window(S) == {r \in S : Cardinality({s \in S : SortKey[s] > SortKey[r]}) < MaxHistory}

Newest(S) == {r \in S : \A s \in S : SortKey[s] <= SortKey[r]}

Prior_WindowOnly(S) == Window(S)

\* _prior_reports: the newest runs, and the newest complete one from
\* status-index when none of them is complete.  A run that has left the window
\* was written MaxHistory runs ago, so that eventually consistent index has it.
Prior(S) ==
    Window(S) \cup IF Window(S) \cap Complete = {} THEN Newest(S \cap Complete) ELSE {}

StepAfter_IndexFirst ==
    [record_scan |-> "put_item", put_item |-> "put_object", put_object |-> "release_lock"]

\* Order of persist's calls.
StepAfter ==
    [record_scan |-> "put_object", put_object |-> "put_item", put_item |-> "release_lock"]

Vacant_Upsert(r) == TRUE

\* IfNoneMatch = "*" on the object.
Vacant(r) == objects[r] = None

----
(* Steps *)

Init ==
    /\ clock = 0
    /\ lock = None
    /\ objects = [r \in Runs |-> None]
    /\ index = {}
    /\ call = [w \in Invocations |-> NoCall]

\* Lambda stops an invocation at its timeout.
Alive(w) == clock <= call[w].started + Lifetime

At(w, step) == call[w].pc = step /\ Alive(w)

Goto(w, step) == [call EXCEPT ![w].pc = step]

\* The storage call answered, or took effect and is sent again.
Answered(next) == call' \in {next, call}

Raise_Swallowed(w) == [call EXCEPT ![w].result = "error"]

\* The body of persist raised; its finally clause still releases the lock.
Raise(w) ==
    [call EXCEPT ![w].pc = "release_lock", ![w].prior = {}, ![w].result = "error"]

\* The invocation returned its receipt, or an error of which nothing is kept.
End(w, result) ==
    [call EXCEPT ![w] = IF result = "ok"
                        THEN [@ EXCEPT !.pc = "ended", !.started = 0, !.result = "ok"]
                        ELSE [NoCall EXCEPT !.pc = "ended", !.result = "error"]]

\* started is also now = int(time.time()), read before the lock's update and
\* sent with every attempt of it.
Invoke(w, r) ==
    /\ call[w].pc = "idle"
    /\ call' = [call EXCEPT ![w] =
                  [NoCall EXCEPT !.pc = "acquire_lock", !.run = r, !.started = clock]]
    /\ UNCHANGED <<clock, lock, objects, index>>

AcquireLock(w) ==
    /\ At(w, "acquire_lock")
    /\ LockFree(call[w].started)
    /\ lock' = [owner |-> w, expires |-> call[w].started + LockTTL]
    /\ Answered(Goto(w, "record_scan"))
    /\ UNCHANGED <<clock, objects, index>>

\* "another scan is already recording this account", also when that other scan
\* is this one, whose earlier attempt took effect.  Nothing is released.
RefuseLock(w) ==
    /\ At(w, "acquire_lock")
    /\ ~LockFree(call[w].started)
    /\ call' = End(w, "error")
    /\ UNCHANGED <<clock, lock, objects, index>>

\* _prior_reports, _rebuild_history and record_scan.  The history is read and
\* its immutable objects loaded in one step.  The stored copy of this run
\* carries drift and so differs from the report: "run ID already exists with
\* different contents".
RecordScan(w) ==
    /\ At(w, "record_scan")
    /\ LET prior == Prior(index)
       IN  call' = IF call[w].run \in prior \/ \E r \in prior : objects[r] = None
                   THEN Raise(w)
                   ELSE [call EXCEPT ![w].pc = StepAfter["record_scan"], ![w].prior = prior]
    /\ UNCHANGED <<clock, lock, objects, index>>

PutObject(w) ==
    /\ At(w, "put_object")
    /\ Vacant(call[w].run)
    /\ objects' = [objects EXCEPT ![call[w].run] = call[w].prior]
    /\ Answered(Goto(w, StepAfter["put_object"]))
    /\ UNCHANGED <<clock, lock, index>>

\* 412, for another invocation's object or for this one's earlier attempt.
RefuseObject(w) ==
    /\ At(w, "put_object")
    /\ ~Vacant(call[w].run)
    /\ call' = Raise(w)
    /\ UNCHANGED <<clock, lock, objects, index>>

PutItem(w) ==
    /\ At(w, "put_item")
    /\ call[w].run \notin index
    /\ index' = index \cup {call[w].run}
    /\ Answered(Goto(w, StepAfter["put_item"]))
    /\ UNCHANGED <<clock, lock, objects>>

RefuseItem(w) ==
    /\ At(w, "put_item")
    /\ call[w].run \in index
    /\ call' = Raise(w)
    /\ UNCHANGED <<clock, lock, objects, index>>

\* A refused deletion counts as released: an expired lock may have been
\* claimed by a newer scan.
ReleaseLock(w) ==
    /\ At(w, "release_lock")
    /\ lock' = IF ReleaseAllowed(w) THEN None ELSE lock
    /\ Answered(End(w, IF call[w].result = "error" THEN "error" ELSE "ok"))
    /\ UNCHANGED <<clock, objects, index>>

\* A storage call raised, whether or not it took effect.  A failed release
\* turns a recorded scan into an error.
Fault(w) ==
    /\ call[w].pc \in Running /\ Alive(w)
    /\ call' = IF call[w].pc \in Critical THEN Raise(w) ELSE End(w, "error")
    /\ UNCHANGED <<clock, lock, objects, index>>

\* The Lambda runs into its timeout or dies; no finally clause runs.
Kill(w) ==
    /\ call[w].pc \in Running
    /\ call' = End(w, "error")
    /\ UNCHANGED <<clock, lock, objects, index>>

\* Time is observable while an invocation runs or a lock is held.
Tick ==
    /\ \/ \E w \in Invocations : call[w].pc \in Running /\ Alive(w)
       \/ lock # None /\ clock <= lock.expires
    /\ clock' = clock + 1
    /\ UNCHANGED <<lock, objects, index, call>>

Persist(w) ==
    \/ AcquireLock(w)
    \/ RefuseLock(w)
    \/ RecordScan(w)
    \/ PutObject(w)
    \/ RefuseObject(w)
    \/ PutItem(w)
    \/ RefuseItem(w)
    \/ ReleaseLock(w)

Next ==
    \/ Tick
    \/ \E w \in Invocations :
          \/ \E r \in Runs : Invoke(w, r)
          \/ Persist(w)
          \/ Fault(w)
          \/ Kill(w)

\* Time passes; no invocation is assumed to make progress.
Spec == Init /\ [][Next]_vars /\ WF_vars(Tick)

----
(* Properties *)

\* The stored items and the invocations have their shapes; one that failed
\* takes no further step of the body of persist.
TypeOK ==
    /\ clock \in Nat
    /\ lock \in Locks \cup {None}
    /\ objects \in [Runs -> {None} \cup SUBSET Runs]
    /\ index \subseteq Runs
    /\ call \in [Invocations -> Calls]

\* Two invocations that can still take a step are never both between acquiring
\* the lock and releasing it, although locks expire, releases are resent and
\* holders die.
MutualExclusion ==
    \A v, w \in Invocations :
        call[v].pc \in Critical /\ Alive(v) /\ call[w].pc \in Critical /\ Alive(w) => v = w

\* Every indexed run can be loaded with the history it was compared with, so a
\* crash never leaves an index item that makes the next scan fail.
IndexLoadable == \A r \in index : objects[r] # None /\ objects[r] \subseteq index \ {r}

\* A receipt describes what is stored: the run is indexed and its drift counts
\* are those of the stored object.
ReceiptsTrue ==
    \A w \in Invocations : call[w].pc = "ended" /\ call[w].result = "ok" =>
        call[w].run \in index /\ objects[call[w].run] = call[w].prior

\* A scan enters the index compared with the newest complete scan, even when
\* more than a window of incomplete scans followed that one.
BaselineKept ==
    [][\A r \in index' \ index : Newest(index \cap Complete) \subseteq objects[r]]_index

\* Whoever dies or loses an answer, the lock can again be taken later.
LockRecovers == []<>LockFree(clock)

\* The run history seen through the index is recorded one scan at a time.
Log == INSTANCE RunLog WITH
           PriorOf <- Prior,
           recorded <- [r \in Runs |-> IF r \in index THEN objects[r] ELSE None]

\* Interleaved, retried and dying invocations record runs as if one at a time:
\* each once, never changed, against the whole history before it.
ImplementsRunLog == Log!Spec
====
