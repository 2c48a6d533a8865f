---- MODULE PublicApi ----
(***************************************************************************)
(* The public read API (phase3/public_api.py, phase3/access.py) beside the *)
(* publisher that writes what it reads.  A request is authenticated, reads *)
(* the static-mode flag and then, in three separate calls, the LATEST      *)
(* pointer, the LATEST_STATUS item and the snapshot object, between which  *)
(* publishers go on.  A reader makes one request after the other.          *)
(***************************************************************************)
EXTENDS Naturals

CONSTANTS
    Runs, Workers, Bodies, CompletedAt, ScanStatus, ScopesComplete, Times, None,  \* as in Publisher
    Readers,
    AccessModes,  \* PHASE3_ACCESS_MODE settings: public, invite_only, or that without an issuer
    MaxRequests   \* bound on the requests of a reader

VARIABLES
    objects, index, latest, status, call,  \* as in Publisher
    mode,                                  \* the deployment's access mode
    request                                \* reader -> its request, or the last response

store == <<objects, index, latest, status, call>>
vars == <<store, mode, request>>

Publishers == INSTANCE Publisher

----
(* Requests and responses *)

\* "/api/findings" stands for "/api/drift" too, which differs in what it selects.
Paths == {"/api/latest", "/api/findings", "/api/runs", "elsewhere"}

\* What _query and _parse_limit refuse before the reads, and an unknown
\* severity or state, which is refused after them.
Queries == {"valid", "malformed", "unknown_filter"}

ServesSnapshot(path) == path \in {"/api/latest", "/api/findings"}

Reading == {"static_mode", "latest", "latest_status", "object", "runs"}

Codes == {200, 400, 401, 404, 503}

Responses ==
    [run : Runs, body : Bodies, attempt : Publishers!Attempts \cup {None}]

\* Publisher's assumptions, and that None is no value of a request's fields.
ASSUME ApiAssumption ==
    /\ CompletedAt \in [Runs -> Nat]
    /\ ScanStatus \in [Runs -> Publishers!ScanStatuses]
    /\ ScopesComplete \in [Runs -> BOOLEAN]
    /\ Times \subseteq Nat
    /\ None \notin Runs \cup Bodies \cup Publishers!Attempts \cup Publishers!Outcomes
    /\ None \notin Paths \cup Queries
    /\ None \notin Codes
    /\ None \notin Responses

ASSUME ApiFleetContract ==
    \A r \in Runs : ScanStatus[r] \in {"PASS", "FAIL"} => ScopesComplete[r]

\* before is the run the reader was last shown, faulty that a read raised.
NoRequest ==
    [pc |-> "none", path |-> None, query |-> None, signedIn |-> FALSE,
     pointer |-> None, attempt |-> None, code |-> None, shown |-> None, listed |-> {}, cache |-> None,
     faulty |-> FALSE, before |-> None, sent |-> 0]

Init ==
    /\ Publishers!Init
    /\ mode \in AccessModes
    /\ request = [u \in Readers |-> NoRequest]

\* Only a 503 is marked no-store; _private overrides what _response said.
Cache(code) ==
    IF mode # "public" THEN "private, no-store"
    ELSE IF code = 503 THEN "no-store" ELSE "public, max-age=30"

Responds(q, code, shown, listed) ==
    [q EXCEPT !.pc = "done", !.code = code, !.shown = shown,
              !.listed = listed, !.cache = Cache(code)]

Refuses(q, code) == Responds(q, code, None, {})

\* The store raises PublicApiError, a ValueError, which the routes with a
\* query take for an invalid one.
Unavailable(q) ==
    Refuses(q, IF q.pc = "static_mode" \/ q.path = "/api/latest" THEN 503 ELSE 400)

Becomes(u, q) ==
    /\ request' = [request EXCEPT ![u] = q]
    /\ UNCHANGED <<store, mode>>

----
(* Steps of a request *)

Admitted_ByGateway(signedIn) == TRUE

\* The claims that API Gateway's authorizer passes on are checked once more.
Admitted(signedIn) == mode # "invite_only" \/ signedIn

Received(u, path, query, signedIn) ==
    [NoRequest EXCEPT
        !.path = path, !.query = query, !.signedIn = signedIn, !.sent = request[u].sent + 1,
        !.before = IF request[u].shown # None THEN request[u].shown.run
                   ELSE request[u].before]

\* authenticate decides before anything is read.
Send(u, path, query, signedIn) ==
    /\ request[u].pc \notin Reading
    /\ request[u].sent < MaxRequests
    /\ query = "malformed" => path \in {"/api/findings", "/api/runs"}
    /\ query = "unknown_filter" => path = "/api/findings"
    /\ Becomes(u,
          LET q == Received(u, path, query, signedIn) IN
          IF mode = "unusable" THEN Refuses(q, 503)
          ELSE IF ~Admitted(signedIn) THEN Refuses(q, 401)
          ELSE [q EXCEPT !.pc = "static_mode"])

\* The flag only becomes a header; then the route is chosen.
ReadStaticMode(u) ==
    LET q == request[u] IN
    /\ q.pc = "static_mode"
    /\ Becomes(u,
          IF q.path = "elsewhere" THEN Refuses(q, 404)
          ELSE IF q.query = "malformed" THEN Refuses(q, 400)
          ELSE [q EXCEPT !.pc = IF ServesSnapshot(q.path) THEN "latest" ELSE "runs"])

PointerRead_Eventual == {None} \cup {r \in index : latest # None /\ CompletedAt[r] <= CompletedAt[latest]}

\* ConsistentRead = True.
PointerRead == {latest}

ReadLatest(u) ==
    /\ request[u].pc = "latest"
    /\ \E pointer \in PointerRead :
          Becomes(u, [request[u] EXCEPT !.pc = "latest_status", !.pointer = pointer])

\* Without a pointer the response is about the attempt alone.
ReadLatestStatus(u) ==
    LET q == [request[u] EXCEPT !.attempt = status] IN
    /\ request[u].pc = "latest_status"
    /\ Becomes(u, IF q.pointer = None THEN Refuses(q, 503) ELSE [q EXCEPT !.pc = "object"])

\* _latest_response: the attempt counts only if it is newer than the snapshot.
Attempt(pointer, attempt) ==
    IF attempt # None /\ attempt.at > CompletedAt[pointer] THEN attempt ELSE None

Shown(q) ==
    [run |-> q.pointer, body |-> objects[q.pointer],
     attempt |-> IF q.path = "/api/latest" THEN Attempt(q.pointer, q.attempt) ELSE None]

ReadObject(u) ==
    LET q == request[u] IN
    /\ q.pc = "object"
    /\ Becomes(u,
          IF objects[q.pointer] = None THEN Unavailable(q)
          ELSE IF q.query = "unknown_filter" THEN Refuses(q, 400)
          ELSE Responds(q, 200, Shown(q), {}))

\* list_runs: an eventually consistent query, of a page larger than the runs.
ListRuns(u) ==
    /\ request[u].pc = "runs"
    /\ \E listed \in SUBSET index : Becomes(u, Responds(request[u], 200, None, listed))

\* A call raises, or its answer is refused.
ReadFails(u) ==
    /\ request[u].pc \in Reading
    /\ Becomes(u, Unavailable([request[u] EXCEPT !.faulty = TRUE]))

Handle(u) ==
    \/ \E path \in Paths, query \in Queries, signedIn \in BOOLEAN : Send(u, path, query, signedIn)
    \/ ReadStaticMode(u) \/ ReadLatest(u) \/ ReadLatestStatus(u) \/ ReadObject(u)
    \/ ListRuns(u) \/ ReadFails(u)

Publish == Publishers!Next /\ UNCHANGED <<mode, request>>

Next == Publish \/ \E u \in Readers : Handle(u)

Spec == Init /\ [][Next]_vars

----
(* Properties *)

\* Requests have their shapes, and only a 200 carries data.  For who is not
\* signed in, the invite-only console reads nothing and answers 401, even if API
\* Gateway let the request through; no shared cache may keep what it answers.
TypeOK ==
    \A u \in Readers :
       LET q == request[u] IN
       /\ q.pc \in Reading \cup {"none", "done"}
       /\ q.path \in Paths \cup {None}
       /\ q.pc = "done" <=> q.code # None
       /\ q.shown # None \/ q.listed # {} => q.code = 200
       /\ q.code = 200 => mode # "unusable"
       /\ mode = "invite_only" /\ ~q.signedIn =>
             q.pc \notin Reading /\ q.code \in {None, 401}
       /\ q.pc = "done" /\ mode # "public" => q.cache = "private, no-store"

\* The three reads are torn by publications, but only so far: when the attempt
\* of a response says that a newer scan passed or failed its gate than the one
\* it shows, readers get that scan or a newer one from then on; the status
\* never announces what nobody can see.
TornReadsCatchUp ==
    \A u \in Readers :
       LET shown == request[u].shown IN
       shown # None /\ shown.attempt # None /\ shown.attempt.scan \in {"PASS", "FAIL"} =>
          CompletedAt[latest] >= shown.attempt.at

\* Once the reader was shown a scan, a valid request is refused only if one of
\* its own calls failed or its reader is no longer signed in: no publication in
\* progress takes the data away.
ServedOnceShown ==
    \A u \in Readers :
       LET q == request[u] IN
       q.before # None /\ ServesSnapshot(q.path) /\ q.query = "valid" =>
          q.code \in {None, 200} \/ q.faulty \/ (q.code = 401 /\ ~q.signedIn)

\* What a response lists or shows are complete scans whose object is there, as
\* it is now, whichever calls of publishers came between the reads.
ShownIsPublished ==
    \A u \in Readers :
       /\ \A r \in request[u].listed : Publishers!IsComplete(r) /\ objects[r] # None
       /\ request[u].shown # None =>
             /\ Publishers!IsComplete(request[u].shown.run)
             /\ objects[request[u].shown.run] = request[u].shown.body

\* A reader who asks again is never taken back to an older scan.
NeverBack ==
    \A u \in Readers :
       LET q == request[u] IN
       q.shown # None /\ q.before # None =>
          CompletedAt[q.before] <= CompletedAt[q.shown.run]

\* "Backend failures return 503 without caching", for every route
\* (tests/test_phase3_public_api_routes.py:96).
BackendFailureIs503 ==
    \A u \in Readers :
       request[u].faulty => request[u].code = 503 /\ request[u].cache # "public, max-age=30"
====
