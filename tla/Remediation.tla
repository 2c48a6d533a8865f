---- MODULE Remediation ----
(***************************************************************************)
(* auditor/remediation.py: an approved plan of exact edits is applied to a *)
(* private copy of the source and rescanned, after the pull request that   *)
(* reviewed it was verified on GitHub.  Runs of the command, of the AI     *)
(* analyst's proposal check and of the CI scan go on while the source, the *)
(* plan file and the pull request change and other runs use the same       *)
(* output directory.                                                       *)
(***************************************************************************)
EXTENDS IacScan, Functions

CONSTANTS
    Runs,
    Crews,         \* what the runs may be: sandbox, proposal (the AI analyst's) or ci
    Sensitive,     \* files the digest and the sandbox leave out
    Secret,        \* fragments that are credentials
    Base,          \* the tree the pull request is based on
    Edits,         \* tree -> what it may be edited to; a tree does not come back
    Plans,         \* sequences of [path, before, after]
    Targets,       \* the plan's target_fingerprints
    Commits,       \* commit -> its tree
    Pushes,        \* commit -> what may be pushed after it; no commit comes back
    Proposal,      \* the commit of the opened pull request
    Wordings,      \* how the body may spell the digest's line
    MaxReviews,    \* bound on the named reviewer's reviews
    Shapes,        \* what an injected rescan may return
    Exceptions,    \* the records of the exceptions file
    Times,         \* instants at which a CI scan may load and judge them
    Threshold      \* fail_on

Fragment == DOMAIN Violations

Trees == [Files -> Seq(Fragment)]

Operations == [path : Files, before : Fragment, after : Fragment]

Outputs == {"patch", "report", "result"}

----

VARIABLES
    source,     \* the working tree
    plan,       \* the plan file: its operations and the digest of its approved review
    pull,       \* the pull request: head, decision, body
    reviews,    \* the named reviewer's reviews
    run,        \* the runs
    out,        \* the files in the output directory the sandbox runs share
    temps       \* the .name.tmp files in it

vars == <<source, plan, pull, reviews, run, out, temps>>

----
(* Plans and previews *)

Occurrences(content, fragment) == {i \in DOMAIN content : content[i] = fragment}

Replaced(content, op) ==
    [i \in DOMAIN content |-> IF content[i] = op.before THEN op.after ELSE content[i]]

Applied(tree, op) == [tree EXCEPT ![op.path] = Replaced(@, op)]

\* The tree after each operation, one exact replacement at a time.
Stages(tree, ops) ==
    LET t[i \in 0..Len(ops)] == IF i = 0 THEN tree ELSE Applied(t[i - 1], ops[i])
    IN t

Paths(ops) == {ops[i].path : i \in DOMAIN ops}

\* _read_changes: every edit matches exactly once, and no secret is shown.
Applicable(tree, ops) ==
    /\ Paths(ops) \cap Sensitive = {}
    /\ \A i \in DOMAIN ops :
         Cardinality(Occurrences(Stages(tree, ops)[i - 1][ops[i].path], ops[i].before)) = 1
    /\ \A f \in Paths(ops) :
         (Fragments(tree[f]) \cup Fragments(Stages(tree, ops)[Len(ops)][f])) \cap Secret = {}

Edited(tree, ops) == Stages(tree, ops)[Len(ops)]

Changes(tree, ops) ==
    [f \in Paths(ops) |-> [before |-> tree[f], after |-> Edited(tree, ops)[f]]]

\* _source_digest stands for the tree it was computed of.
Digest(tree) == Restrict(tree, Files \ Sensitive)

\* The identity preview_sha256 is the hash of.
Preview(digest, changes) == [source |-> digest, targets |-> Targets, changes |-> changes]

----
(* What is assumed of the constants *)

\* Every tree the source may become is a tree; a plan has operations, which name
\* files and fragments.
ASSUME TreesAssumption ==
    /\ Base \in DOMAIN Edits
    /\ \A t \in DOMAIN Edits : t \in Trees /\ Edits[t] \subseteq DOMAIN Edits
    /\ Plans \subseteq Seq(Operations) /\ << >> \notin Plans

\* Each file of the source is read at a few moments and its contents compared:
\* one changed and changed back in between would pass for one never changed.
ASSUME SourceMovesOn ==
    \A t \in DOMAIN Edits : \A u \in Edits[t] : \A f \in Files \ Sensitive :
        u[f] = Base[f] => t[f] = Base[f]

\* So is the head of the pull request, compared at two of four moments.
ASSUME HeadMovesOn ==
    /\ Proposal \in DOMAIN Commits
    /\ \A c \in DOMAIN Commits : Pushes[c] \subseteq DOMAIN Commits
    /\ \E age \in [DOMAIN Commits -> 1..Cardinality(DOMAIN Commits)] :
         \A c \in DOMAIN Commits : \A d \in Pushes[c] : age[c] < age[d]

ASSUME RunsAssumption ==
    /\ Crews \subseteq [Runs -> {"sandbox", "proposal", "ci"}]
    /\ Shapes \subseteq {"report", "malformed", "foreign"}
    /\ MaxReviews \in Nat
    /\ None \notin {"report", "ReviewDigestMismatch", "ReviewVerificationUnavailable",
                     "ReviewNotApproved", "EditMismatch", "RescanFailed",
                     "InvalidRescanOutput", "UnsafeRescanSource", "TargetFindingRemains",
                     "RescanDidNotPass", "SourceChangedDuringRescan",
                     "SourceChangedDuringSandbox"}

----
(* The review on GitHub *)

\* The pull request's body line and the text the verifier looks for in it.
MarkerFound(body, preview) == body = [wording |-> "Preview", digest |-> preview]

OpenAndApproved(p) == p.open /\ p.approved

Latest(seen) == {r \in seen : \A q \in seen : q.at <= r.at}

\* Of several reviews of the latest second, all must approve the head.
ReviewerApproved(seen, head) ==
    seen # {} /\ \A r \in Latest(seen) : r.state = "APPROVED" /\ r.commit = head

ChangedFiles(commit) == {f \in Files : Commits[commit][f] # Base[f]}

\* The listing is of the present head, the contents of the head first read.
FilesMatch(listed, head, changes) ==
    /\ ChangedFiles(listed) = DOMAIN changes
    /\ \A f \in DOMAIN changes :
         Commits[listed][f] = Commits[head][f] /\ Commits[head][f] = changes[f].after

----
(* Runs *)

\* view holds the files a read or a digest in progress has read.
NoRun == [pc |-> "start", role |-> None, ops |-> <<>>, review |-> None, preview |-> None,
          view |-> << >>, seen |-> None, cause |-> None, sandbox |-> << >>, patch |-> None,
          shape |-> None, report |-> None, loaded |-> None, reason |-> None, todo |-> <<>>]

Init ==
    /\ source = Base
    /\ \E ops \in Plans :
         LET reviewed == Preview(Digest(Base), Changes(Base, ops)) IN
         /\ plan \in {[ops |-> ops, review |-> d] : d \in {None, reviewed}}
         /\ pull \in {[head |-> Proposal, open |-> TRUE, approved |-> FALSE,
                       body |-> [wording |-> w, digest |-> reviewed]] : w \in Wordings}
    /\ reviews = {}
    /\ \E crew \in Crews : run = [w \in Runs |-> [NoRun EXCEPT !.role = crew[w]]]
    /\ out = << >>
    /\ temps = {}

At(w, pc) == run[w].pc = pc

Role(w) == run[w].role

\* A run forgets what it does not use again.
Ended(r, pc) == [NoRun EXCEPT !.pc = pc, !.role = r.role]

Step(w, pc) == run' = [run EXCEPT ![w].pc = pc]

Raise(w) == run' = [run EXCEPT ![w] = Ended(run[w], "raised")]

\* _result_blocked writes the report, if there is one, and the result; a proposal
\* is answered in memory.
Block(w, r, reason) ==
    run' = [run EXCEPT ![w] =
              IF Role(w) = "proposal" THEN Ended(r, "answered")
              ELSE [Ended(r, "open") EXCEPT
                      !.reason = reason, !.cause = r.cause, !.preview = r.preview,
                      !.sandbox = IF r.shape = None THEN << >> ELSE r.sandbox,
                      !.report = r.report,
                      !.todo = IF r.shape = None THEN <<"result">> ELSE <<"report", "result">>]]

Environment == UNCHANGED <<source, plan, pull, reviews>>

NoOutput == UNCHANGED <<out, temps>>

\* The plan is read once; the outputs must not exist yet.
Load(w) ==
    /\ At(w, "start") /\ Role(w) # "ci"
    /\ IF /\ Role(w) = "sandbox"
          /\ plan.review = None \/ DOMAIN out # {}
       THEN Raise(w)
       ELSE run' = [run EXCEPT ![w].pc = "read", ![w].ops = plan.ops, ![w].review = plan.review]
    /\ Environment /\ NoOutput

\* One more file is read into a tree.
With(tree, f) == [g \in DOMAIN tree \cup {f} |-> IF g = f THEN source[f] ELSE tree[g]]

\* The first of a plan's files that was not read yet.
Unread(view, ops) ==
    {ops[i].path : i \in {j \in DOMAIN ops : /\ ops[j].path \notin DOMAIN view
                                           /\ \A k \in 1..(j - 1) : ops[k].path \in DOMAIN view}}

\* create_remediation_preview reads the changed files one after the other ...
ReadChanges(w) ==
    LET ops == run[w].ops IN
    /\ At(w, "read")
    /\ IF Paths(ops) \cap Sensitive # {} THEN Raise(w)
       ELSE \E f \in Unread(run[w].view, ops) :
         LET view == With(run[w].view, f) IN
         IF DOMAIN view # Paths(ops) THEN run' = [run EXCEPT ![w].view = view]
         ELSE IF Applicable(view, ops)
         THEN run' = [run EXCEPT ![w].pc = "digest", ![w].patch = Changes(view, ops),
                                 ![w].view = << >>]
         ELSE Raise(w)
    /\ Environment /\ NoOutput

\* os.walk comes to the files in their order.
FirstOf(S) == {f \in S : \A g \in S : PathOrder[f] <= PathOrder[g]}

ToDigest(w) == (Files \ Sensitive) \ DOMAIN run[w].view

\* ... and digests the tree, file by file again.
DigestSource(w) ==
    /\ At(w, "digest")
    /\ \E f \in FirstOf(ToDigest(w)) :
         LET view == With(run[w].view, f)
             r == [run[w] EXCEPT !.preview = Preview(view, run[w].patch), !.patch = None,
                                 !.review = None, !.view = << >>]
         IN IF ToDigest(w) # {f} THEN run' = [run EXCEPT ![w].view = view]
            ELSE IF Role(w) = "sandbox" /\ run[w].review # r.preview
            THEN Block(w, r, "ReviewDigestMismatch")
            ELSE run' = [run EXCEPT ![w] =
                   [r EXCEPT !.pc = IF Role(w) = "sandbox" THEN "view" ELSE "copy"]]
    /\ Environment /\ NoOutput

\* No token, no gh, a timeout, an error or an answer that is not JSON.
Unverifiable(w) ==
    /\ run[w].pc \in {"view", "reviews", "files", "again"}
    /\ Block(w, run[w], "ReviewVerificationUnavailable")
    /\ Environment /\ NoOutput

ViewPull(w) ==
    /\ At(w, "view")
    /\ run' = [run EXCEPT ![w].pc = "reviews", ![w].seen = pull]
    /\ Environment /\ NoOutput

\* Both answers are judged together; "cause" notes a body that was refused.
ReadReviews(w) ==
    /\ At(w, "reviews")
    /\ LET seen == run[w].seen
           marked == MarkerFound(seen.body, run[w].preview)
       IN CASE OpenAndApproved(seen) /\ marked /\ ReviewerApproved(reviews, seen.head)
                 -> run' = [run EXCEPT ![w].pc = "files", ![w].seen = [head |-> seen.head]]
            [] OpenAndApproved(seen) /\ ~marked
                 -> Block(w, [run[w] EXCEPT !.cause = seen.body], "ReviewNotApproved")
            [] OTHER -> Block(w, run[w], "ReviewNotApproved")
    /\ Environment /\ NoOutput

ReadFiles(w) ==
    /\ At(w, "files")
    /\ IF FilesMatch(pull.head, run[w].seen.head, run[w].preview.changes)
       THEN Step(w, "again")
       ELSE Block(w, run[w], "ReviewNotApproved")
    /\ Environment /\ NoOutput

StillApproved_AnyHead(w) ==
    OpenAndApproved(pull) /\ MarkerFound(pull.body, run[w].preview)

StillApproved(w) ==
    /\ OpenAndApproved(pull) /\ MarkerFound(pull.body, run[w].preview)
    /\ pull.head = run[w].seen.head

ViewAgain(w) ==
    /\ At(w, "again")
    /\ IF StillApproved(w) THEN Step(w, "copy")
       ELSE Block(w, run[w], "ReviewNotApproved")
    /\ Environment /\ NoOutput

ToCopy_All(w) == Files \ DOMAIN run[w].sandbox

ToCopy(w) == (Files \ Sensitive) \ DOMAIN run[w].sandbox

\* So does _copy_sandbox.
Copy(w) ==
    /\ At(w, "copy")
    /\ \E f \in FirstOf(ToCopy(w)) :
         run' = [run EXCEPT
           ![w].sandbox = With(@, f),
           ![w].pc = IF ToCopy(w) = {f} THEN "apply" ELSE "copy"]
    /\ Environment /\ NoOutput

\* The edits are read again, from the copy.
Apply(w) ==
    /\ At(w, "apply")
    /\ LET s == run[w].sandbox
           ops == run[w].ops
       IN IF Applicable(s, ops)
          THEN run' = [run EXCEPT ![w].pc = "rescan", ![w].ops = << >>,
                                  ![w].patch = Changes(s, ops), ![w].sandbox = Edited(s, ops)]
          ELSE IF Role(w) = "proposal" THEN Block(w, run[w], "EditMismatch") ELSE Raise(w)
    /\ Environment /\ NoOutput

RescanFails(w) ==
    /\ At(w, "rescan")
    /\ Block(w, run[w], "RescanFailed")
    /\ Environment /\ NoOutput

\* The sandbox has no exceptions file; the rescan is a parameter of the function.
Rescan(w) ==
    /\ At(w, "rescan")
    /\ \E shape \in Shapes, outcome \in Outcomes, order \in Orders :
         run' = [run EXCEPT ![w].pc = "judge", ![w].shape = shape,
                   ![w].report = IF shape = "report"
                     THEN ScanPaths(run[w].sandbox, outcome, order, {}, Threshold, 0, 0)
                     ELSE None]
    /\ Environment /\ NoOutput

\* The order of the checks decides which reason is recorded.
Verdict(r) ==
    CASE r.shape = "malformed" -> "InvalidRescanOutput"
      [] r.shape = "foreign" -> "UnsafeRescanSource"
      [] r.shape = "report" /\ r.report.fingerprints \cap Targets # {} -> "TargetFindingRemains"
      [] r.shape = "report" /\ r.report.fingerprints \cap Targets = {}
           /\ (r.report.status # "PASS" \/ r.report.gate # "PASS") -> "RescanDidNotPass"
      [] OTHER -> None

Judge(w) ==
    /\ At(w, "judge")
    /\ IF Verdict(run[w]) = None THEN Step(w, "recheck")
       ELSE Block(w, run[w], Verdict(run[w]))
    /\ Environment /\ NoOutput

SourceUnchanged_Skipped(w, view) == TRUE

SourceUnchanged(w, view) == view = run[w].preview.source

\* The source is digested once more before anything vouches for it.
Recheck(w) ==
    /\ At(w, "recheck")
    /\ \E f \in FirstOf(ToDigest(w)) :
         LET view == With(run[w].view, f) IN
         IF ToDigest(w) # {f} THEN run' = [run EXCEPT ![w].view = view]
         ELSE IF ~SourceUnchanged(w, view)
         THEN Block(w, run[w], IF Role(w) = "proposal" THEN "SourceChangedDuringRescan"
                                                       ELSE "SourceChangedDuringSandbox")
         ELSE run' = [run EXCEPT ![w] =
                IF Role(w) = "proposal" THEN Ended(run[w], "answered")
                ELSE [run[w] EXCEPT !.pc = "open", !.view = << >>,
                                    !.todo = <<"patch", "report", "result">>]]
    /\ Environment /\ NoOutput

----
(* The output directory: _write_new *)

\* The temporary file is created exclusively.
OpenTemp(w) ==
    /\ At(w, "open")
    /\ LET o == Head(run[w].todo) IN
       IF o \in temps THEN Raise(w) /\ UNCHANGED temps
       ELSE Step(w, "link") /\ temps' = temps \cup {o}
    /\ UNCHANGED out /\ Environment

Linkable_Overwrites(o) == TRUE

Linkable(o) == o \notin DOMAIN out

\* What a file holds: the changes, the report or the record of its run.
Content(w, o) ==
    [by |-> w, reason |-> run[w].reason,
     body |-> CASE o = "patch" -> run[w].patch
                [] o = "report" -> [scanned |-> run[w].sandbox, report |-> run[w].report]
                [] o = "result" -> run[w].preview]

\* Linking it under its name is exclusive too, and the temporary file goes.
LinkOutput(w) ==
    /\ At(w, "link")
    /\ LET o == Head(run[w].todo) IN
       /\ temps' = temps \ {o}
       /\ IF Linkable(o)
          THEN /\ out' = [p \in DOMAIN out \cup {o} |->
                              IF p = o THEN Content(w, o) ELSE out[p]]
               /\ run' = [run EXCEPT ![w] =
                    IF Len(run[w].todo) = 1 THEN Ended(run[w], "ended")
                    ELSE [run[w] EXCEPT !.pc = "open", !.todo = Tail(run[w].todo)]]
          ELSE Raise(w) /\ UNCHANGED out
    /\ Environment

\* A stopped process leaves what it wrote, its temporary file included; stopped
\* anywhere else it only never takes its next step.
Crash(w) ==
    /\ run[w].pc \in {"open", "link"}
    /\ run' = [run EXCEPT ![w] = Ended(run[w], "crashed")]
    /\ Environment /\ NoOutput

----
(* The CI scan: scan_paths on the working tree *)

\* The exceptions are validated against the time they are loaded at.
LoadExceptions(w) ==
    /\ At(w, "start") /\ Role(w) = "ci"
    /\ \E t \in Times : run' = [run EXCEPT ![w].pc = "scan", ![w].loaded = t]
    /\ Environment /\ NoOutput

\* The tools run in between, on a checkout that nobody edits meanwhile; the gate
\* is judged at the time they have ended.
ScanTree(w) ==
    /\ At(w, "scan")
    /\ \E outcome \in Outcomes, order \in Orders, t \in {u \in Times : u >= run[w].loaded} :
         run' = [run EXCEPT ![w].pc = "judged", ![w].sandbox = source,
                   ![w].report = ScanPaths(source, outcome, order, Exceptions, Threshold,
                                           run[w].loaded, t)]
    /\ Environment /\ NoOutput

----
(* The others, while a run has yet to look *)

Verifying == {"start", "read", "digest", "view", "reviews", "files", "again"}

Watches(role, pcs) == \E w \in Runs : Role(w) = role /\ run[w].pc \in pcs

EditSource ==
    /\ \/ Watches("sandbox", Verifying \cup {"copy", "apply", "rescan", "judge", "recheck"})
       \/ Watches("proposal", {"read", "digest", "copy", "apply", "rescan", "judge", "recheck"})
       \/ Watches("ci", {"start"})
    /\ \E t \in Edits[source] : source' = t
    /\ UNCHANGED <<plan, pull, reviews, run, out, temps>>

EditPlan ==
    /\ Watches("sandbox", {"start"})
    /\ \E ops \in Plans : plan' = [plan EXCEPT !.ops = ops]
    /\ UNCHANGED <<source, pull, reviews, run, out, temps>>

\* Stale approvals may be dismissed or kept.
Push ==
    /\ Watches("sandbox", Verifying)
    /\ \E c \in Pushes[pull.head], kept \in BOOLEAN :
         pull' = [pull EXCEPT !.head = c, !.approved = kept /\ @]
    /\ UNCHANGED <<source, plan, reviews, run, out, temps>>

\* Review times are whole seconds: two reviews may have the same.
Review ==
    /\ Watches("sandbox", Verifying) /\ Cardinality(reviews) < MaxReviews
    /\ \E state \in {"APPROVED", "CHANGES_REQUESTED"}, at \in 0..MaxReviews :
         /\ at <= Cardinality(reviews) /\ \A r \in reviews : r.at <= at
         /\ reviews' = reviews \cup {[commit |-> pull.head, state |-> state, at |-> at]}
         /\ pull' = [pull EXCEPT !.approved = state = "APPROVED"]
    /\ UNCHANGED <<source, plan, run, out, temps>>

\* The author writes another digest, that of the source and the plan as they are.
EditBody ==
    /\ Watches("sandbox", Verifying)
    /\ \E w \in Wordings :
         pull' = [pull EXCEPT !.body =
           [wording |-> w, digest |-> Preview(Digest(source), Changes(source, plan.ops))]]
    /\ UNCHANGED <<source, plan, reviews, run, out, temps>>

ClosePull ==
    /\ Watches("sandbox", Verifying) /\ pull.open
    /\ pull' = [pull EXCEPT !.open = FALSE]
    /\ UNCHANGED <<source, plan, reviews, run, out, temps>>

Next ==
    \/ \E w \in Runs :
         \/ Load(w) \/ ReadChanges(w) \/ DigestSource(w) \/ Unverifiable(w) \/ ViewPull(w)
         \/ ReadReviews(w) \/ ReadFiles(w) \/ ViewAgain(w) \/ Copy(w) \/ Apply(w)
         \/ RescanFails(w) \/ Rescan(w) \/ Judge(w) \/ Recheck(w)
         \/ OpenTemp(w) \/ LinkOutput(w) \/ Crash(w) \/ LoadExceptions(w) \/ ScanTree(w)
    \/ EditSource \/ EditPlan \/ Push \/ Review \/ EditBody \/ ClosePull

Spec == Init /\ [][Next]_vars

----
(* Properties *)

ChangeSets == [before : Seq(Fragment), after : Seq(Fragment)]

IsSandboxTree(t) == DOMAIN t \subseteq Files \ Sensitive /\ \A f \in DOMAIN t : t[f] \in Seq(Fragment)

\* The type of the state; a sandbox and a digest never hold a sensitive file
\* (_is_sensitive in _source_digest and _copy_sandbox).
TypeOK ==
    /\ source \in [Files -> Seq(Fragment)]
    /\ plan.ops \in Plans
    /\ pull.head \in DOMAIN Commits /\ pull.open \in BOOLEAN /\ pull.approved \in BOOLEAN
    /\ \A r \in reviews : r.commit \in DOMAIN Commits /\ r.at \in 0..MaxReviews
    /\ \A w \in Runs :
         LET r == run[w] IN
         /\ r.role \in {"sandbox", "proposal", "ci"}
         /\ IsSandboxTree(r.view)
         /\ r.role # "ci" => IsSandboxTree(r.sandbox)
         /\ r.preview # None => IsSandboxTree(r.preview.source)
         /\ r.patch # None => \A f \in DOMAIN r.patch : r.patch[f] \in ChangeSets
         /\ r.pc \in {"start", "read", "digest", "view", "reviews", "files", "again", "copy",
                      "apply", "rescan", "judge", "recheck", "open", "link", "ended",
                      "answered", "raised", "crashed", "scan", "judged"}
    /\ DOMAIN out \subseteq Outputs
    /\ temps \subseteq Outputs

Rewritten(tree, changes) ==
    [f \in DOMAIN tree |-> IF f \in DOMAIN changes THEN changes[f].after ELSE tree[f]]

\* A PASS result vouches for one thing only: the patch beside it is the reviewed
\* one, and the report beside it is a passing scan, by the same run, of exactly
\* the reviewed tree with exactly those edits, whatever changed meanwhile and
\* whichever other runs wrote into the directory (run_sandbox_remediation).
PassVouches ==
    ("result" \in DOMAIN out /\ out["result"].reason = None) =>
        LET preview == out["result"].body IN
        /\ DOMAIN out = Outputs
        /\ {out[o].by : o \in Outputs} = {out["result"].by}
        /\ out["patch"].body = preview.changes
        /\ out["report"].body.scanned = Rewritten(preview.source, preview.changes)
        /\ out["report"].body.report.status = "PASS"
        /\ out["report"].body.report.fingerprints \cap Targets = {}

Verified(w) ==
    /\ Role(w) = "sandbox" /\ run[w].seen # None /\ run[w].reason = None
    /\ run[w].pc \in {"copy", "apply", "rescan", "judge", "recheck", "open", "link"}

\* What a run goes on with after _verify_github_review was approved as a commit:
\* the named reviewer approved the head, and the head changes the preview's files
\* to the preview's contents and nothing else, although four calls were made
\* while it could be pushed to.
ApprovedCommit ==
    \A w \in Runs : Verified(w) =>
        LET head == run[w].seen.head
            changes == run[w].preview.changes
        IN /\ \E r \in reviews : r.commit = head /\ r.state = "APPROVED"
           /\ ChangedFiles(head) = DOMAIN changes
           /\ \A f \in DOMAIN changes : Commits[head][f] = changes[f].after

Excepted(f, at) == \E x \in Exceptions : Active(x, at) /\ Matches(f, x)

Reads(scanner, kind) ==
    \/ scanner = "builtin" /\ kind = "iam"
    \/ scanner = "checkov" /\ kind \in {"terraform", "kubernetes"}
    \/ scanner = "conftest" /\ kind \in {"terraform", "kubernetes", "iam", "trust"}

\* What there is to report of a tree, by every scanner of every file it can read.
Reports(tree) ==
    {r \in UNION {Seen(tree, f, s) : f \in Candidates(tree), s \in {"builtin", "checkov", "conftest"}} :
        Readable(tree[r.evidence.file]) /\ Reads(r.scanner, Kind[r.evidence.file])}

\* A scan that passes has seen everything it can know to be its own: HCL and YAML
\* files, and JSON text named as a policy, that do not parse, and manifests or
\* statements that are not valid, fail it; and in every file it could read, each
\* violation at or above the threshold is excused by an exception in force when
\* the gate was judged, of itself or of another report of the same control on
\* the same resource, whichever tool call failed and in whatever order Checkov
\* answered (scan_paths, deduplicate_findings, evaluate_exceptions).
PassIsThorough ==
    \A w \in Runs : (run[w].report # None /\ run[w].report.status = "PASS") =>
        LET tree == run[w].sandbox IN
        /\ \A f \in DOMAIN tree :
             /\ Format[f] \in {"hcl", "yaml"} => Readable(tree[f])
             /\ f \in NamedPolicy /\ Decodes(tree[f]) => Readable(tree[f])
             /\ Kind[f] \in {"kubernetes"} \cup PolicyKinds /\ Readable(tree[f])
                  => WellFormed(tree[f])
        /\ \A r \in Reports(tree) : AtLeast(r.severity, Threshold) =>
             /\ Role(w) = "ci"
             /\ \E q \in Reports(tree) : Same(q, r) /\ Excepted(q, run[w].report.at)

\* docs/remediation.md:58-59, 76-79: the workflow opens the pull request with the
\* preview's digest in its body, and the command checks that the body contains
\* it, so a run never refuses a body that does.
DigestInBodyAccepted ==
    \A w \in Runs : run[w].cause # None => run[w].cause.digest # run[w].preview
====
