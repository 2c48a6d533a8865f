---- MODULE PublicApi_proofs ----
(***************************************************************************)
(* Proofs about PublicApi for any readers, access modes and publishers.    *)
(* What the publishers keep is taken from Publisher_proofs; the invariant  *)
(* adds what a request in progress already knows of the tables.            *)
(***************************************************************************)
EXTENDS PublicApi, TLAPS

PP == INSTANCE Publisher_proofs

Requests ==
    [pc : Reading \cup {"none", "done"}, path : Paths \cup {None}, query : Queries \cup {None},
     signedIn : BOOLEAN, pointer : Runs \cup {None}, attempt : Publishers!Attempts \cup {None},
     code : Codes \cup {None}, shown : Responses \cup {None}, listed : SUBSET Runs,
     cache : {"no-store", "public, max-age=30", "private, no-store", None},
     faulty : BOOLEAN, before : Runs \cup {None}, sent : Nat]

\* The pointer has been at this run, which is still served.
Reached(r) ==
    /\ r \in Runs /\ Publishers!IsComplete(r) /\ objects[r] # None
    /\ latest # None /\ CompletedAt[r] <= CompletedAt[latest]

\* If this attempt speaks of a complete scan, the pointer has reached it.
Announced(a) ==
    a # None /\ a.scan \in {"PASS", "FAIL"} => latest # None /\ a.at <= CompletedAt[latest]

\* What a request has read is still so, and how it is answered.
ReadInv(q) ==
    /\ q.pc \in {"latest_status", "object"} /\ q.pointer # None => Reached(q.pointer)
    /\ q.pc = "object" => q.pointer # None /\ Announced(q.attempt)
    /\ q.pc \in {"latest_status", "object"} /\ q.before # None =>
          q.pointer # None /\ CompletedAt[q.before] <= CompletedAt[q.pointer]

ResponseInv(q) ==
    /\ q.shown # None =>
          /\ Reached(q.shown.run) /\ objects[q.shown.run] = q.shown.body
          /\ Announced(q.shown.attempt)
    /\ \A r \in q.listed : Publishers!IsComplete(r) /\ objects[r] # None
    /\ q.pc = "done" <=> q.code # None
    /\ q.shown # None \/ q.listed # {} => q.code = 200
    /\ q.code = 200 \/ q.pc \in Reading => mode # "unusable"
    /\ q.pc = "done" /\ mode # "public" => q.cache = "private, no-store"

\* A request of nobody known to the console gets no further than its 401.
AdmittedInv(q) == Admitted(q.signedIn) \/ (q.pc \notin Reading /\ q.code \in {None, 401})

\* What the reader was shown before is still served, and binds the next answer.
BeforeInv(q) == q.before # None => mode # "unusable" /\ Reached(q.before)

HistoryInv(q) ==
    /\ BeforeInv(q)
    /\ q.before # None /\ q.shown # None =>
          CompletedAt[q.before] <= CompletedAt[q.shown.run]
    /\ q.before # None /\ ServesSnapshot(q.path) /\ q.query = "valid" =>
          q.code \in {None, 200} \/ q.faulty \/ (q.code = 401 /\ ~q.signedIn)

RequestInv(q) ==
    q \in Requests /\ ReadInv(q) /\ ResponseInv(q) /\ AdmittedInv(q) /\ HistoryInv(q)

IInv ==
    /\ PP!IndInv
    /\ PP!IndexServable
    /\ request \in [Readers -> Requests]
    /\ \A u \in Readers : RequestInv(request[u])

----
(* What the publishers keep *)

\* The publisher instantiated here and the one the lemmas are about are the same.
LEMMA SamePublisher ==
    /\ Publishers!Next <=> PP!Next
    /\ Publishers!Init <=> PP!Init
    /\ \A r : Publishers!IsComplete(r) <=> PP!IsComplete(r)
<1>1. Publishers!Next <=> PP!Next
  BY DEF Publishers!Next, PP!Next, Publishers!InvokePublish, PP!InvokePublish,
         Publishers!InvokeStatus, PP!InvokeStatus, Publishers!Progress, PP!Progress,
         Publishers!Fail, PP!Fail, Publishers!PutObject, PP!PutObject,
         Publishers!VerifyObject, PP!VerifyObject, Publishers!PutRunIndex, PP!PutRunIndex,
         Publishers!UpdateLatest, PP!UpdateLatest, Publishers!RefuseLatest, PP!RefuseLatest,
         Publishers!RereadLatest, PP!RereadLatest, Publishers!RecordAttempt, PP!RecordAttempt,
         Publishers!SkipAttempt, PP!SkipAttempt, Publishers!Goto, PP!Goto,
         Publishers!Answered, PP!Answered, Publishers!FirstStep, PP!FirstStep,
         Publishers!StepAfter, PP!StepAfter, Publishers!StatusAdmits, PP!StatusAdmits,
         Publishers!Supersedes, PP!Supersedes, Publishers!ObjectVacant, PP!ObjectVacant,
         Publishers!IsComplete, PP!IsComplete, Publishers!ScanAttempt, PP!ScanAttempt,
         Publishers!FailureAttempt, PP!FailureAttempt, Publishers!RereadOutcome,
         PP!RereadOutcome, Publishers!Steps, PP!Steps, Publishers!PublishSteps, PP!PublishSteps
<1>2. Publishers!Init <=> PP!Init
  BY DEF Publishers!Init, PP!Init, Publishers!NoCall, PP!NoCall
<1>3. \A r : Publishers!IsComplete(r) <=> PP!IsComplete(r)
  BY DEF Publishers!IsComplete, PP!IsComplete
<1> QED BY <1>1, <1>2, <1>3

\* The assumptions of Publisher hold of the instance.
LEMMA SameAssumptions ==
    /\ CompletedAt \in [Runs -> Nat]
    /\ ScanStatus \in [Runs -> PP!ScanStatuses]
    /\ ScopesComplete \in [Runs -> BOOLEAN]
    /\ Times \subseteq Nat
    /\ None \notin Runs \cup Bodies \cup PP!Attempts \cup PP!Outcomes
    /\ PP!Attempts = Publishers!Attempts
BY ApiAssumption
   DEF Publishers!Attempts, PP!Attempts, Publishers!Outcomes, PP!Outcomes,
       Publishers!ScanStatuses, PP!ScanStatuses

\* A publisher's step keeps the publishers' invariant and advances the tables.
LEMMA PublishersStep ==
    PP!IndInv /\ PP!IndexServable /\ [Publishers!Next]_store =>
       PP!IndInv' /\ PP!IndexServable' /\ PP!TablesAdvance
BY SamePublisher, SameAssumptions, ApiFleetContract, PP!IndStep, PP!IndexStep, PP!StepAdvances
   DEF store, PP!vars

LEMMA PublishersInit == Init => PP!IndInv /\ PP!IndexServable
BY SamePublisher, SameAssumptions, ApiFleetContract, PP!InitInd DEF Init
----
(* Requests beside the publishers *)

\* What a request knows of the tables survives what publishers do to them.
LEMMA RequestStable ==
    ASSUME PP!IndInv, PP!IndInv', PP!TablesAdvance, UNCHANGED <<mode, request>>,
           NEW u \in Readers, RequestInv(request[u])
    PROVE  RequestInv(request[u])'
<1>1. /\ \A r \in Runs : objects[r] # None => objects'[r] = objects[r]
      /\ \/ latest' = latest
         \/ latest' \in Runs /\ (latest # None => CompletedAt[latest] < CompletedAt[latest'])
  BY DEF PP!TablesAdvance
<1>2. latest \in Runs \cup {None} /\ latest' \in Runs \cup {None}
  BY DEF PP!IndInv, PP!TypeOK
<1>3. None \notin Runs /\ None \notin Bodies /\ \A r \in Runs : CompletedAt[r] \in Nat
  BY ApiAssumption
<1>4. latest # None =>
         latest' # None /\ \A t \in Nat : t <= CompletedAt[latest] => t <= CompletedAt[latest']
  <2>1. CASE latest' = latest
    BY <2>1
  <2>2. CASE latest' # latest /\ latest # None
    <3>1. latest' \in Runs /\ latest \in Runs /\ CompletedAt[latest] < CompletedAt[latest']
      BY <1>1, <1>2, <2>2
    <3> QED BY <1>3, <3>1
  <2> QED BY <2>1, <2>2
<1>5. ASSUME NEW r, Reached(r) PROVE Reached(r)' /\ objects'[r] = objects[r]
  BY <1>1, <1>3, <1>4, <1>5 DEF Reached, Publishers!IsComplete
<1>6. ASSUME NEW a \in Publishers!Attempts \cup {None}, Announced(a) PROVE Announced(a)'
  <2>1. a # None => a.at \in Nat
    BY DEF Publishers!Attempts
  <2> QED BY <1>4, <1>6, <2>1 DEF Announced
<1> DEFINE q == request[u]
<1>7. q \in Requests /\ q' = q
  BY DEF RequestInv
<1>8. ReadInv(q)'
  <2>1. q.attempt \in Publishers!Attempts \cup {None}
    BY <1>7 DEF Requests
  <2> QED BY <1>5, <1>6, <1>7, <2>1 DEF RequestInv, ReadInv
<1>9. ResponseInv(q)'
  <2>1. q.shown # None => q.shown.attempt \in Publishers!Attempts \cup {None}
    BY <1>7 DEF Requests, Responses
  <2>2. q.listed \subseteq Runs
    BY <1>7 DEF Requests
  <2>3. \A r \in q.listed : Publishers!IsComplete(r)' /\ objects'[r] # None
    <3> SUFFICES ASSUME NEW r \in q.listed
                 PROVE  Publishers!IsComplete(r)' /\ objects'[r] # None
      OBVIOUS
    <3>1. r \in Runs /\ Publishers!IsComplete(r) /\ objects[r] # None
      BY <2>2 DEF RequestInv, ResponseInv
    <3> QED BY <1>1, <3>1 DEF Publishers!IsComplete
  <2>4. q.shown # None =>
          /\ Reached(q.shown.run)' /\ objects'[q.shown.run] = q.shown.body
          /\ Announced(q.shown.attempt)'
    BY <1>5, <1>6, <2>1 DEF RequestInv, ResponseInv
  <2> QED BY <1>7, <2>3, <2>4 DEF RequestInv, ResponseInv
<1>10. HistoryInv(q)'
  BY <1>5, <1>7 DEF RequestInv, HistoryInv, BeforeInv
<1>11. (q \in Requests)'
  BY <1>7
<1>12. AdmittedInv(q)'
  BY <1>7 DEF RequestInv, AdmittedInv, Admitted
<1> QED BY <1>8, <1>9, <1>10, <1>11, <1>12 DEF RequestInv

----
(* The steps of a request *)

\* A step that gives one reader a request in order keeps the invariant.
LEMMA BecomesKeeps ==
    ASSUME IInv, NEW u \in Readers, NEW q, Becomes(u, q), RequestInv(q)
    PROVE  IInv'
<1>1. PP!IndInv' /\ PP!IndexServable'
  BY PublishersStep DEF Becomes, IInv
<1>2. request' \in [Readers -> Requests]
  BY DEF Becomes, IInv, RequestInv
<1>3. \A r : Reached(r)' <=> Reached(r)
  BY DEF Becomes, Reached, store, Publishers!IsComplete
<1>4. \A a : Announced(a)' <=> Announced(a)
  BY DEF Becomes, Announced, store
<1>5. ASSUME NEW p, NEW v \in Readers, request'[v] = p, RequestInv(p)
      PROVE  RequestInv(request[v])'
  <2>1. mode' = mode /\ objects' = objects /\ latest' = latest
    BY DEF Becomes, store
  <2>2. ReadInv(request[v])'
    BY <1>3, <1>4, <1>5, <2>1 DEF RequestInv, ReadInv
  <2>3. ResponseInv(request[v])'
    <3>1. ResponseInv(p)
      BY <1>5 DEF RequestInv
    <3>2. ResponseInv(p)'
      BY <1>3, <1>4, <2>1, <3>1 DEF ResponseInv, Publishers!IsComplete
    <3> QED BY <1>5, <3>2 DEF ResponseInv
  <2>4. HistoryInv(request[v])'
    BY <1>3, <1>5, <2>1 DEF RequestInv, HistoryInv, BeforeInv
  <2>5. (request[v] \in Requests)'
    <3>1. p \in Requests
      BY <1>5 DEF RequestInv
    <3> QED BY <1>5, <3>1
  <2>6. AdmittedInv(request[v])'
    BY <1>5, <2>1 DEF RequestInv, AdmittedInv, Admitted
  <2> QED BY <2>2, <2>3, <2>4, <2>5, <2>6 DEF RequestInv
<1>6. ASSUME NEW v \in Readers PROVE RequestInv(request[v])'
  <2>1. CASE v = u
    BY <1>5, <2>1 DEF Becomes, IInv
  <2>2. CASE v # u
    BY <1>5, <2>2 DEF Becomes, IInv
  <2> QED BY <2>1, <2>2
<1> QED BY <1>1, <1>2, <1>6 DEF IInv

\* None is none of the values a request's fields take.
LEMMA NoneApart ==
    /\ None \notin Runs /\ None \notin Bodies /\ None \notin Publishers!Attempts
    /\ None \notin Codes /\ None \notin Paths /\ None \notin Responses
BY ApiAssumption

LEMMA CacheTyped ==
    \A code : Cache(code) \in {"no-store", "public, max-age=30", "private, no-store", None}
BY DEF Cache

LEMMA RespondsTyped ==
    ASSUME NEW q \in Requests, NEW code \in Codes,
           NEW shown \in Responses \cup {None}, NEW listed \in SUBSET Runs
    PROVE  LET p == Responds(q, code, shown, listed) IN
           /\ p \in Requests
           /\ p.pc = "done" /\ p.code = code /\ p.shown = shown /\ p.listed = listed
           /\ p.cache = Cache(code) /\ p.before = q.before /\ p.path = q.path
           /\ p.query = q.query /\ p.faulty = q.faulty /\ p.signedIn = q.signedIn
<1>1. PICK cache \in {"no-store", "public, max-age=30", "private, no-store", None} :
         cache = Cache(code)
  BY CacheTyped
<1>2. PICK p : p = [q EXCEPT !.pc = "done", !.code = code, !.shown = shown,
                             !.listed = listed, !.cache = cache]
  OBVIOUS
<1>3. /\ p.pc = "done" /\ p.code = code /\ p.shown = shown /\ p.listed = listed
      /\ p.cache = cache /\ p.before = q.before /\ p.path = q.path
      /\ p.query = q.query /\ p.faulty = q.faulty /\ p.signedIn = q.signedIn
  BY <1>2 DEF Requests
<1>4. p \in Requests
  BY <1>2 DEF Requests
<1> QED BY <1>1, <1>2, <1>3, <1>4 DEF Responds

\* A response of data is in order if the data are.
LEMMA AnswersKeep ==
    ASSUME NEW q \in Requests, BeforeInv(q), mode # "unusable", Admitted(q.signedIn),
           NEW shown \in Responses \cup {None}, NEW listed \in SUBSET Runs,
           shown # None =>
              /\ Reached(shown.run) /\ objects[shown.run] = shown.body
              /\ Announced(shown.attempt)
              /\ q.before # None => CompletedAt[q.before] <= CompletedAt[shown.run],
           \A r \in listed : Publishers!IsComplete(r) /\ objects[r] # None
    PROVE  RequestInv(Responds(q, 200, shown, listed))
<1>1. PICK p : p = Responds(q, 200, shown, listed)
  OBVIOUS
<1>2. 200 \in Codes /\ None # 200
  BY NoneApart DEF Codes
<1>3. /\ p \in Requests
      /\ p.pc = "done" /\ p.code = 200 /\ p.shown = shown /\ p.listed = listed
      /\ p.cache = Cache(200) /\ p.before = q.before /\ p.signedIn = q.signedIn
  BY <1>1, <1>2, RespondsTyped
<1>4. ReadInv(p)
  BY <1>3 DEF ReadInv
<1>5. ResponseInv(p)
  <2>1. mode # "public" => p.cache = "private, no-store"
    BY <1>3 DEF Cache
  <2> QED BY <1>2, <1>3, <2>1 DEF ResponseInv
<1>6. HistoryInv(p)
  BY <1>3 DEF HistoryInv, BeforeInv
<1>7. AdmittedInv(p)
  BY <1>3 DEF AdmittedInv
<1> QED BY <1>1, <1>3, <1>4, <1>5, <1>6, <1>7 DEF RequestInv

\* A refusal carries no data and is in order if the reader may get its code.
LEMMA RefusesKeeps ==
    ASSUME NEW q \in Requests, BeforeInv(q),
           NEW code \in Codes, code # 200, Admitted(q.signedIn) \/ code = 401,
           q.before # None /\ ServesSnapshot(q.path) /\ q.query = "valid" =>
              q.faulty \/ (code = 401 /\ ~q.signedIn)
    PROVE  RequestInv(Refuses(q, code))
<1>1. PICK p : p = Refuses(q, code)
  OBVIOUS
<1>2. p \in Requests
  BY <1>1, RespondsTyped DEF Refuses
<1>3. /\ p.pc = "done" /\ p.code = code /\ p.shown = None /\ p.listed = {}
      /\ p.cache = Cache(code) /\ p.before = q.before /\ p.path = q.path
      /\ p.query = q.query /\ p.faulty = q.faulty /\ p.signedIn = q.signedIn
  BY <1>1, RespondsTyped DEF Refuses
<1>4. ReadInv(p)
  BY <1>3 DEF ReadInv
<1>5. ResponseInv(p)
  BY <1>3, NoneApart DEF ResponseInv, Reading, Cache
<1>6. HistoryInv(p)
  BY <1>3 DEF HistoryInv, BeforeInv
<1>7. AdmittedInv(p)
  BY <1>3 DEF AdmittedInv, Reading
<1> QED BY <1>1, <1>2, <1>4, <1>5, <1>6, <1>7 DEF RequestInv

\* A request that goes on has answered nothing yet.
LEMMA ReadsOnKeeps ==
    ASSUME NEW q \in Requests, q.pc \in Reading, mode # "unusable", Admitted(q.signedIn),
           q.code = None, q.shown = None, q.listed = {}, BeforeInv(q), ReadInv(q)
    PROVE  RequestInv(q)
<1>1. ResponseInv(q)
  <2>1. q.pc # "done"
    BY DEF Reading
  <2>2. None # 200
    BY NoneApart DEF Codes
  <2> QED BY <2>1, <2>2 DEF ResponseInv
<1>2. HistoryInv(q)
  BY DEF HistoryInv
<1> QED BY <1>1, <1>2 DEF RequestInv, AdmittedInv

\* What a reader's step knows of the request it works on.
LEMMA InReading ==
    ASSUME IInv, NEW u \in Readers, request[u].pc \in Reading
    PROVE  /\ request[u] \in Requests /\ BeforeInv(request[u]) /\ mode # "unusable"
           /\ Admitted(request[u].signedIn)
           /\ request[u].code = None /\ request[u].shown = None /\ request[u].listed = {}
           /\ ReadInv(request[u])
<1>1. RequestInv(request[u]) /\ request[u].pc # "done"
  BY DEF IInv, Reading
<1>2. ResponseInv(request[u]) /\ HistoryInv(request[u])
  BY <1>1 DEF RequestInv
<1>3. request[u].code = None /\ mode # "unusable"
  BY <1>1, <1>2 DEF ResponseInv
<1>4. request[u].shown = None /\ request[u].listed = {}
  BY <1>2, <1>3, NoneApart DEF ResponseInv, Codes
<1>5. BeforeInv(request[u])
  BY <1>2 DEF HistoryInv
<1>6. Admitted(request[u].signedIn)
  BY <1>1 DEF RequestInv, AdmittedInv
<1> QED BY <1>1, <1>3, <1>4, <1>5, <1>6 DEF RequestInv

LEMMA SendStep ==
    ASSUME IInv, NEW u \in Readers, NEW path \in Paths, NEW query \in Queries,
           NEW signedIn \in BOOLEAN, Send(u, path, query, signedIn)
    PROVE  IInv'
<1>1. PICK q : q = Received(u, path, query, signedIn)
  OBVIOUS
<1>2. RequestInv(request[u]) /\ request[u] \in Requests
  BY DEF IInv, RequestInv
<1>3. request[u].shown # None => request[u].shown \in Responses /\ mode # "unusable"
  BY <1>2 DEF RequestInv, ResponseInv, Requests
<1>4. PICK before \in Runs \cup {None} :
         before = IF request[u].shown # None THEN request[u].shown.run ELSE request[u].before
  BY <1>2, <1>3 DEF Requests, Responses
<1>5. q = [NoRequest EXCEPT !.path = path, !.query = query, !.signedIn = signedIn,
                            !.sent = request[u].sent + 1, !.before = before]
  BY <1>1, <1>4 DEF Received
<1>6. /\ q.pc = "none" /\ q.path = path /\ q.query = query /\ q.pointer = None
      /\ q.signedIn = signedIn
      /\ q.attempt = None /\ q.code = None /\ q.shown = None /\ q.listed = {}
      /\ q.cache = None /\ q.faulty = FALSE /\ q.before = before
  BY <1>5 DEF NoRequest
<1>7. q \in Requests
  <2>1. request[u].sent \in Nat
    BY <1>2 DEF Requests
  <2>2. request[u].sent + 1 \in Nat
    BY <2>1
  <2> QED BY <1>5, <2>2 DEF NoRequest, Requests
<1>8. BeforeInv(q)
  <2>1. CASE request[u].shown # None
    <3>1. Reached(request[u].shown.run)
      BY <1>2, <2>1 DEF RequestInv, ResponseInv
    <3> QED BY <1>3, <1>4, <1>6, <2>1, <3>1 DEF BeforeInv
  <2>2. CASE request[u].shown = None
    <3>1. BeforeInv(request[u])
      BY <1>2 DEF RequestInv, HistoryInv
    <3> QED BY <1>4, <1>6, <2>2, <3>1 DEF BeforeInv
  <2> QED BY <2>1, <2>2
<1>9. CASE mode = "unusable"
  <2>1. RequestInv(Refuses(q, 503))
    BY <1>6, <1>7, <1>8, <1>9, RefusesKeeps DEF BeforeInv, Codes, Admitted
  <2> QED BY <1>1, <1>9, <2>1, BecomesKeeps DEF Send
<1>10. CASE mode # "unusable" /\ ~Admitted(signedIn)
  <2>1. RequestInv(Refuses(q, 401))
    BY <1>6, <1>7, <1>8, <1>10, RefusesKeeps DEF Admitted, Codes
  <2> QED BY <1>1, <1>10, <2>1, BecomesKeeps DEF Send
<1>11. CASE mode # "unusable" /\ Admitted(signedIn)
  <2>1. PICK p : p = [q EXCEPT !.pc = "static_mode"]
    OBVIOUS
  <2>2. /\ p \in Requests /\ p.pc = "static_mode" /\ p.before = q.before
        /\ p.signedIn = signedIn
        /\ p.code = None /\ p.shown = None /\ p.listed = {}
    BY <1>6, <1>7, <2>1 DEF Requests, Reading
  <2>3. RequestInv(p)
    BY <1>8, <1>11, <2>2, ReadsOnKeeps DEF BeforeInv, ReadInv, Reading
  <2> QED BY <1>1, <1>11, <2>1, <2>3, BecomesKeeps DEF Send
<1> QED BY <1>9, <1>10, <1>11

LEMMA ReadStaticModeStep ==
    ASSUME IInv, NEW u \in Readers, ReadStaticMode(u) PROVE IInv'
<1>1. PICK q : q = request[u]
  OBVIOUS
<1>2. /\ q \in Requests /\ BeforeInv(q) /\ mode # "unusable" /\ q.pc = "static_mode"
      /\ Admitted(q.signedIn)
      /\ q.code = None /\ q.shown = None /\ q.listed = {}
  BY <1>1, InReading DEF ReadStaticMode, Reading
<1>3. CASE q.path = "elsewhere"
  <2>1. RequestInv(Refuses(q, 404))
    BY <1>2, <1>3, RefusesKeeps DEF Codes, ServesSnapshot
  <2> QED BY <1>1, <1>3, <2>1, BecomesKeeps DEF ReadStaticMode
<1>4. CASE q.path # "elsewhere" /\ q.query = "malformed"
  <2>1. RequestInv(Refuses(q, 400))
    BY <1>2, <1>4, RefusesKeeps DEF Codes
  <2> QED BY <1>1, <1>4, <2>1, BecomesKeeps DEF ReadStaticMode
<1>5. CASE q.path # "elsewhere" /\ q.query # "malformed"
  <2>1. PICK pc \in {"latest", "runs"} : pc = IF ServesSnapshot(q.path) THEN "latest" ELSE "runs"
    OBVIOUS
  <2>2. PICK p : p = [q EXCEPT !.pc = pc]
    OBVIOUS
  <2>3. /\ p \in Requests /\ p.pc = pc /\ p.before = q.before /\ p.signedIn = q.signedIn
        /\ p.code = None /\ p.shown = None /\ p.listed = {}
    BY <1>2, <2>2 DEF Requests, Reading
  <2>4. RequestInv(p)
    BY <1>2, <2>3, ReadsOnKeeps DEF BeforeInv, ReadInv, Reading
  <2> QED BY <1>1, <1>5, <2>1, <2>2, <2>4, BecomesKeeps DEF ReadStaticMode
<1> QED BY <1>3, <1>4, <1>5

\* The pointer read is consistent, so it is no older than what was shown before.
LEMMA ReadLatestStep ==
    ASSUME IInv, NEW u \in Readers, ReadLatest(u) PROVE IInv'
<1>1. PICK q : q = request[u]
  OBVIOUS
<1>2. /\ q \in Requests /\ BeforeInv(q) /\ mode # "unusable" /\ Admitted(q.signedIn)
      /\ q.code = None /\ q.shown = None /\ q.listed = {}
  BY <1>1, InReading DEF ReadLatest, Reading
<1>3. latest \in Runs \cup {None}
  BY DEF IInv, PP!IndInv, PP!TypeOK
<1>4. PICK p : p = [q EXCEPT !.pc = "latest_status", !.pointer = latest]
  OBVIOUS
<1>5. /\ p \in Requests /\ p.pc = "latest_status" /\ p.before = q.before /\ p.pointer = latest
      /\ p.signedIn = q.signedIn
      /\ p.code = None /\ p.shown = None /\ p.listed = {}
  BY <1>2, <1>3, <1>4 DEF Requests, Reading
<1>6. latest # None => Reached(latest)
  <2>1. latest \in Runs => CompletedAt[latest] \in Nat
    BY ApiAssumption
  <2> QED BY <1>3, <2>1, SamePublisher DEF IInv, PP!IndInv, PP!PointerServable, Reached
<1>7. ReadInv(p)
  BY <1>2, <1>5, <1>6 DEF ReadInv, BeforeInv, Reached
<1>8. RequestInv(p)
  BY <1>2, <1>5, <1>7, ReadsOnKeeps DEF BeforeInv, Reading
<1> QED BY <1>1, <1>4, <1>8, BecomesKeeps DEF ReadLatest, PointerRead

\* LATEST_STATUS is never ahead of the pointer when it is read.
LEMMA ReadLatestStatusStep ==
    ASSUME IInv, NEW u \in Readers, ReadLatestStatus(u) PROVE IInv'
<1>1. PICK q : q = [request[u] EXCEPT !.attempt = status]
  OBVIOUS
<1>2. /\ request[u] \in Requests /\ BeforeInv(request[u]) /\ mode # "unusable"
      /\ Admitted(request[u].signedIn)
      /\ request[u].code = None /\ request[u].shown = None /\ request[u].listed = {}
      /\ ReadInv(request[u]) /\ request[u].pc = "latest_status"
  BY InReading DEF ReadLatestStatus, Reading
<1>3. status \in Publishers!Attempts \cup {None} /\ Announced(status)
  BY SameAssumptions DEF IInv, PP!IndInv, PP!TypeOK, PP!StatusNotAhead, Announced
<1>4. /\ q \in Requests /\ q.pc = "latest_status" /\ q.before = request[u].before
      /\ q.signedIn = request[u].signedIn
      /\ q.pointer = request[u].pointer /\ q.attempt = status
      /\ q.code = None /\ q.shown = None /\ q.listed = {}
  BY <1>1, <1>2, <1>3 DEF Requests
<1>5. BeforeInv(q)
  BY <1>2, <1>4 DEF BeforeInv
<1>6. CASE q.pointer = None
  <2>1. RequestInv(Refuses(q, 503))
    BY <1>2, <1>4, <1>5, <1>6, RefusesKeeps DEF ReadInv, Codes
  <2> QED BY <1>1, <1>6, <2>1, BecomesKeeps DEF ReadLatestStatus
<1>7. CASE q.pointer # None
  <2>1. PICK p : p = [q EXCEPT !.pc = "object"]
    OBVIOUS
  <2>2. /\ p \in Requests /\ p.pc = "object" /\ p.before = q.before /\ p.signedIn = q.signedIn
        /\ p.pointer = q.pointer /\ p.attempt = status
        /\ p.code = None /\ p.shown = None /\ p.listed = {}
    BY <1>4, <2>1 DEF Requests, Reading
  <2>3. ReadInv(p)
    BY <1>2, <1>3, <1>4, <1>7, <2>2 DEF ReadInv
  <2>4. Admitted(p.signedIn) /\ BeforeInv(p)
    BY <1>2, <1>4, <1>5, <2>2 DEF BeforeInv, Admitted
  <2>5. RequestInv(p)
    BY <1>2, <2>2, <2>3, <2>4, ReadsOnKeeps DEF Reading
  <2> QED BY <1>1, <1>7, <2>1, <2>5, BecomesKeeps DEF ReadLatestStatus
<1> QED BY <1>6, <1>7

\* The object behind the pointer is there, so a valid request is answered.
LEMMA ReadObjectStep ==
    ASSUME IInv, NEW u \in Readers, ReadObject(u) PROVE IInv'
<1>1. PICK q : q = request[u]
  OBVIOUS
<1>2. /\ q \in Requests /\ BeforeInv(q) /\ mode # "unusable" /\ q.pc = "object" /\ ReadInv(q)
      /\ Admitted(q.signedIn)
  BY <1>1, InReading DEF ReadObject, Reading
<1>3. Reached(q.pointer) /\ Announced(q.attempt)
  BY <1>2 DEF ReadInv
<1>4. objects[q.pointer] \in Bodies
  BY <1>3, NoneApart DEF Reached, IInv, PP!IndInv, PP!TypeOK
<1>5. CASE q.query = "unknown_filter"
  <2>1. RequestInv(Refuses(q, 400))
    BY <1>2, <1>5, RefusesKeeps DEF Codes
  <2> QED BY <1>1, <1>4, <1>5, <2>1, NoneApart, BecomesKeeps DEF ReadObject
<1>6. CASE q.query # "unknown_filter"
  <2>1. PICK attempt : attempt = IF q.path = "/api/latest" THEN Attempt(q.pointer, q.attempt) ELSE None
    OBVIOUS
  <2>2. attempt \in Publishers!Attempts \cup {None} /\ Announced(attempt)
    BY <1>2, <1>3, <2>1 DEF Attempt, Announced, Requests
  <2>3. PICK shown : shown = [run |-> q.pointer, body |-> objects[q.pointer], attempt |-> attempt]
    OBVIOUS
  <2>4. shown \in Responses /\ shown = Shown(q)
    BY <1>3, <1>4, <2>1, <2>2, <2>3 DEF Responses, Shown, Reached
  <2>5. q.before # None => CompletedAt[q.before] <= CompletedAt[q.pointer]
    BY <1>2 DEF ReadInv
  <2>6. RequestInv(Responds(q, 200, shown, {}))
    BY <1>2, <1>3, <2>2, <2>3, <2>4, <2>5, AnswersKeep
  <2> QED BY <1>1, <1>4, <1>6, <2>4, <2>6, NoneApart, BecomesKeeps DEF ReadObject
<1> QED BY <1>5, <1>6

LEMMA ListRunsStep ==
    ASSUME IInv, NEW u \in Readers, ListRuns(u) PROVE IInv'
<1>1. PICK q : q = request[u]
  OBVIOUS
<1>2. /\ q \in Requests /\ BeforeInv(q) /\ mode # "unusable" /\ Admitted(q.signedIn)
  BY <1>1, InReading DEF ListRuns, Reading
<1>3. PICK listed \in SUBSET index : Becomes(u, Responds(q, 200, None, listed))
  BY <1>1 DEF ListRuns
<1>4. \A r \in listed : r \in Runs /\ Publishers!IsComplete(r) /\ objects[r] # None
  BY SamePublisher DEF IInv, PP!IndInv, PP!TypeOK, PP!IndexServable
<1>5. RequestInv(Responds(q, 200, None, listed))
  BY <1>2, <1>4, AnswersKeep
<1> QED BY <1>3, <1>5, BecomesKeeps

LEMMA ReadFailsStep ==
    ASSUME IInv, NEW u \in Readers, ReadFails(u) PROVE IInv'
<1>1. PICK q : q = [request[u] EXCEPT !.faulty = TRUE]
  OBVIOUS
<1>2. request[u] \in Requests /\ BeforeInv(request[u]) /\ Admitted(request[u].signedIn)
  BY InReading DEF ReadFails
<1>3. q \in Requests /\ q.faulty /\ BeforeInv(q) /\ Admitted(q.signedIn)
  BY <1>1, <1>2 DEF Requests, BeforeInv
<1>4. PICK code \in {503, 400} : Unavailable(q) = Refuses(q, code)
  BY DEF Unavailable
<1>5. RequestInv(Refuses(q, code))
  BY <1>3, RefusesKeeps DEF Codes
<1> QED BY <1>1, <1>4, <1>5, BecomesKeeps DEF ReadFails

----
(* Theorems *)

LEMMA Invariance == Spec => []IInv
<1>1. Init => IInv
  <2> SUFFICES ASSUME Init PROVE IInv
    OBVIOUS
  <2>1. NoRequest \in Requests
    BY DEF NoRequest, Requests
  <2>2. RequestInv(NoRequest)
    <3>1. 200 # None
      BY NoneApart DEF Codes
    <3> QED BY <2>1, <3>1 DEF NoRequest, RequestInv, ReadInv, ResponseInv, HistoryInv, BeforeInv,
                               AdmittedInv, Reading
  <2> QED BY <2>1, <2>2, PublishersInit DEF Init, IInv
<1>2. IInv /\ [Next]_vars => IInv'
  <2> SUFFICES ASSUME IInv, [Next]_vars PROVE IInv'
    OBVIOUS
  <2>1. CASE Publish \/ UNCHANGED vars
    <3>1. [Publishers!Next]_store /\ UNCHANGED <<mode, request>>
      BY <2>1 DEF Publish, vars
    <3>2. PP!IndInv' /\ PP!IndexServable' /\ PP!TablesAdvance
      BY <3>1, PublishersStep DEF IInv
    <3>3. \A u \in Readers : RequestInv(request[u])'
      BY <3>1, <3>2, RequestStable DEF IInv
    <3>4. request' \in [Readers -> Requests]
      BY <3>1 DEF IInv
    <3> QED BY <3>2, <3>3, <3>4 DEF IInv
  <2>2. ASSUME NEW u \in Readers, Handle(u) PROVE IInv'
    BY <2>2, SendStep, ReadStaticModeStep, ReadLatestStep, ReadLatestStatusStep,
       ReadObjectStep, ListRunsStep, ReadFailsStep DEF Handle
  <2> QED BY <2>1, <2>2 DEF Next
<1> QED BY <1>1, <1>2, PTL DEF Spec

\* Requests keep their shapes: data comes only with a 200, never from a
\* deployment that cannot authenticate nor, from a console by invitation, to
\* anyone who is not signed in or by way of a shared cache.
THEOREM TypeCorrect == Spec => []TypeOK
<1>1. ASSUME IInv, NEW u \in Readers
      PROVE  /\ request[u].pc \in Reading \cup {"none", "done"}
             /\ request[u].path \in Paths \cup {None}
             /\ request[u].pc = "done" <=> request[u].code # None
             /\ request[u].shown # None \/ request[u].listed # {} => request[u].code = 200
             /\ request[u].code = 200 => mode # "unusable"
             /\ mode = "invite_only" /\ ~request[u].signedIn =>
                   request[u].pc \notin Reading /\ request[u].code \in {None, 401}
             /\ request[u].pc = "done" /\ mode # "public" =>
                   request[u].cache = "private, no-store"
  <2>1. request[u] \in Requests /\ ResponseInv(request[u]) /\ AdmittedInv(request[u])
    BY <1>1 DEF IInv, RequestInv
  <2>2. /\ request[u].pc \in Reading \cup {"none", "done"}
        /\ request[u].path \in Paths \cup {None}
    BY <2>1 DEF Requests
  <2>3. /\ request[u].pc = "done" <=> request[u].code # None
        /\ request[u].shown # None \/ request[u].listed # {} => request[u].code = 200
        /\ request[u].code = 200 => mode # "unusable"
        /\ request[u].pc = "done" /\ mode # "public" =>
              request[u].cache = "private, no-store"
    BY <2>1 DEF ResponseInv
  <2> QED BY <2>1, <2>2, <2>3 DEF AdmittedInv, Admitted
<1>2. ASSUME IInv PROVE TypeOK
  BY <1>1, <1>2 DEF TypeOK
<1> QED BY <1>2, Invariance, PTL

\* However publications tear the three reads, a newer complete scan is only
\* announced to a reader who will be shown it.
THEOREM TornReadsAlwaysCatchUp == Spec => []TornReadsCatchUp
<1>1. ASSUME IInv PROVE TornReadsCatchUp
  <2> SUFFICES ASSUME NEW u \in Readers, request[u].shown # None,
                      request[u].shown.attempt # None,
                      request[u].shown.attempt.scan \in {"PASS", "FAIL"}
               PROVE  CompletedAt[latest] >= request[u].shown.attempt.at
    BY DEF TornReadsCatchUp
  <2>1. latest # None /\ request[u].shown.attempt.at <= CompletedAt[latest]
    BY <1>1 DEF IInv, RequestInv, ResponseInv, Announced
  <2> QED BY <2>1
<1> QED BY <1>1, Invariance, PTL

\* Who was shown a scan gets an answer to every valid request whose own calls
\* work, whatever is being published meanwhile.
THEOREM ServedOnceShownAlways == Spec => []ServedOnceShown
<1>1. IInv => ServedOnceShown
  BY DEF IInv, ServedOnceShown, RequestInv, HistoryInv
<1> QED BY <1>1, Invariance, PTL

\* Responses list and show complete scans, with the bytes stored for them.
THEOREM ShownAlwaysPublished == Spec => []ShownIsPublished
<1>1. IInv => ShownIsPublished
  BY DEF IInv, ShownIsPublished, RequestInv, ResponseInv, Reached
<1> QED BY <1>1, Invariance, PTL

\* No reader is taken back to an older scan than it has seen.
THEOREM NeverTakenBack == Spec => []NeverBack
<1>1. IInv => NeverBack
  BY DEF IInv, NeverBack, RequestInv, HistoryInv
<1> QED BY <1>1, Invariance, PTL
====
