---- MODULE IacScan ----
(***************************************************************************)
(* scan_paths (auditor/iac/scanning.py): the files of a directory are      *)
(* classified, the built-in IAM rules, Checkov (once per framework) and    *)
(* Conftest (once per file) look at them, and the answers become one       *)
(* report.  A tree maps each file to its content, a sequence of fragments  *)
(* that stand for the statements, resources or manifests written in it.    *)
(***************************************************************************)
EXTENDS ScanContract, Sequences, FiniteSets

CONSTANTS
    Files,
    Format,        \* file -> hcl, yaml, json or other, as its name says
    Kind,          \* file -> terraform, kubernetes, iam, trust (a role's trust policy) or other
    NamedPolicy,   \* JSON files with "iam" or "policy" in their name
    PathOrder,     \* file -> its place in the walk over the directory
    Orders,        \* the places Checkov may give the files in its answer
    Violations,    \* fragment -> the rules it breaks, [scanner, control, severity, resource]
    Broken,        \* fragments that do not parse
    Undecodable,   \* fragments that are not UTF-8
    Malformed,     \* fragments that parse, but are no valid IAM statement or manifest
    MaxToolFaults  \* bound on the tool calls of one scan that go wrong

PolicyKinds == {"iam", "trust"}

Rules == UNION {Violations[c] : c \in DOMAIN Violations}

Rankings == {order \in [Files -> Nat] : \A f, g \in Files : order[f] = order[g] => f = g}

\* Names decide how a file is read; Terraform in JSON and symbolic links, which
\* are refused, are left out.
ASSUME FilesAssumption ==
    /\ Kind \in [Files -> {"terraform", "kubernetes", "other"} \cup PolicyKinds]
    /\ \A f \in Files :
         /\ Kind[f] = "terraform" <=> Format[f] = "hcl"
         /\ Kind[f] = "kubernetes" => Format[f] \in {"yaml", "json"}
         /\ Kind[f] \in PolicyKinds \/ f \in NamedPolicy => Format[f] = "json"
    /\ {PathOrder} \cup Orders \subseteq Rankings

\* A control has one severity: the rules of iam_rules that apply to a document,
\* the bundled security.rego, and Checkov, which tells none offline.
ASSUME OneSeverity ==
    \A u, v \in Rules :
       u.scanner = v.scanner /\ u.control = v.control => u.severity = v.severity

Fragments(content) == {content[i] : i \in DOMAIN content}

Decodes(content) == Fragments(content) \cap Undecodable = {}

Readable(content) == Decodes(content) /\ Fragments(content) \cap Broken = {}

WellFormed(content) == Fragments(content) \cap Malformed = {}

HasFramework(f) == Kind[f] \in {"terraform", "kubernetes"}

Error(operation, about) ==
    [operation |-> operation, category |-> "scanner_error", about |-> about]

----
(* Inputs *)

\* classify_input: HCL is not parsed here, YAML and JSON must parse, and a
\* manifest has an apiVersion and a kind.
Classified(tree, f) ==
    \/ Kind[f] = "terraform"
    \/ Kind[f] \in PolicyKinds /\ Readable(tree[f])
    \/ Kind[f] = "kubernetes" /\ Readable(tree[f]) /\ WellFormed(tree[f])

Candidates(tree) == {f \in DOMAIN tree : Classified(tree, f)}

\* What a JSON file is for is known only once it parses, so one that does not is
\* passed over, unless its name says it is a policy and it is UTF-8.
UnreadableInputs(tree) ==
    {f \in DOMAIN tree :
        \/ Format[f] = "yaml" /\ ~Readable(tree[f])
        \/ f \in NamedPolicy /\ Decodes(tree[f]) /\ ~Readable(tree[f])
        \/ Kind[f] = "kubernetes" /\ Readable(tree[f]) /\ ~WellFormed(tree[f])}

DiscoveryErrors(tree) ==
    {Error("scan-input", f) : f \in UnreadableInputs(tree)}
        \cup {Error("scan-input", e) : e \in IF Candidates(tree) = {} THEN {None} ELSE {}}

Frameworks(tree) == {Kind[f] : f \in {g \in Candidates(tree) : HasFramework(g)}}

----
(* Tools *)

\* The calls of a scan: each tool's version, Checkov per framework, Conftest per file.
Calls ==
    ({"version"} \X {"checkov", "conftest"})
        \cup ({"checkov"} \X {"terraform", "kubernetes"})
        \cup ({"conftest"} \X Files)

\* lost: no usable answer (not found, not started, timed out, not its JSON);
\* partial: findings, with parsing or evaluation errors or an unexpected exit.
Outcomes ==
    {o \in [Calls -> {"ok", "lost", "partial"}] :
        /\ \A c \in Calls : o[c] = "partial" => c[1] # "version"
        /\ Cardinality({c \in Calls : o[c] # "ok"}) <= MaxToolFaults}

Ran(outcome, scanner) == outcome[<<"version", scanner>>] = "ok"

UsedScanners(tree) ==
    {s \in {"checkov", "conftest"} :
        IF s = "conftest" THEN Candidates(tree) # {} ELSE Frameworks(tree) # {}}

\* A finding as a scanner reports it, its place being its evidence.
Reported(f, i, v) ==
    [scanner |-> v.scanner, control |-> v.control, severity |-> v.severity,
     source_type |-> IF Kind[f] = "trust" THEN "iam" ELSE Kind[f],
     resource |-> v.resource, evidence |-> [file |-> f, place |-> i],
     location |-> [file |-> f, line |-> IF v.scanner = "builtin" THEN None ELSE i],
     account |-> None, region |-> None]

\* What a scanner that reads file f reports.
Seen(tree, f, scanner) ==
    {Reported(f, p[1], p[2]) : p \in
        {q \in (DOMAIN tree[f]) \X Rules :
            q[2] \in Violations[tree[f][q[1]]] /\ q[2].scanner = scanner}}

CheckovFindings(tree, outcome) ==
    UNION {Seen(tree, f, "checkov") :
        f \in {g \in Candidates(tree) :
                 /\ HasFramework(g) /\ Readable(tree[g])
                 /\ Ran(outcome, "checkov") /\ outcome[<<"checkov", Kind[g]>>] # "lost"}}

\* A file Checkov cannot parse is one of its parsing_errors.
CheckovErrors(tree, outcome) ==
    {Error("checkov", k) :
        k \in {j \in Frameworks(tree) :
                 /\ Ran(outcome, "checkov")
                 /\ \/ outcome[<<"checkov", j>>] # "ok"
                    \/ \E f \in Candidates(tree) : Kind[f] = j /\ ~Readable(tree[f])}}

ConftestFindings(tree, outcome) ==
    UNION {Seen(tree, f, "conftest") :
        f \in {g \in Candidates(tree) :
                 /\ Readable(tree[g])
                 /\ Ran(outcome, "conftest") /\ outcome[<<"conftest", g>>] # "lost"}}

ConftestErrors(tree, outcome) ==
    {Error("conftest", f) :
        f \in {g \in Candidates(tree) :
                 /\ Ran(outcome, "conftest")
                 /\ (outcome[<<"conftest", g>>] # "ok" \/ ~Readable(tree[g]))}}

\* The project's own IAM rules; a trust policy grants nothing and has no findings.
PolicyFindings(tree) ==
    UNION {Seen(tree, f, "builtin") :
        f \in {g \in Candidates(tree) : Kind[g] = "iam" /\ WellFormed(tree[g])}}

PolicyErrors(tree) ==
    {Error("iam-policy", f) :
        f \in {g \in Candidates(tree) : Kind[g] \in PolicyKinds /\ ~WellFormed(tree[g])}}

\* A scanner that is needed and cannot be run is an error, not a shorter scan.
VersionErrors(tree, outcome) ==
    {Error("version", s) : s \in {t \in UsedScanners(tree) : ~Ran(outcome, t)}}

----
(* The report *)

Deduplicate_ByControl(found, order) ==
    {r \in found : ~\E q \in found : /\ r.scanner = q.scanner /\ r.control = q.control
                                    /\ PathOrder[q.evidence.file] < PathOrder[r.evidence.file]}

\* One scanner's observations of one control at one identity; the identity of a
\* resource does not tell its file.
Same(r, q) ==
    /\ r.scanner = q.scanner /\ r.control = q.control
    /\ r.source_type = q.source_type /\ Identity(r) = Identity(q)

\* Checkov lists its findings as it likes, the others answer file by file.
Precedes(q, r, order) ==
    LET rank == IF r.scanner = "checkov" THEN order ELSE PathOrder IN
    \/ rank[q.evidence.file] < rank[r.evidence.file]
    \/ q.evidence.file = r.evidence.file /\ q.evidence.place < r.evidence.place

\* The first observation stays, with its location, and takes the evidence of the
\* others, which nothing here depends on.
Deduplicate(found, order) ==
    {r \in found : ~\E q \in found : Same(q, r) /\ Precedes(q, r, order)}

\* Exceptions are loaded before the tools run and judged after: two times.
ScanErrors(tree, outcome, exceptions, loadedAt) ==
    DiscoveryErrors(tree) \cup VersionErrors(tree, outcome) \cup PolicyErrors(tree)
        \cup CheckovErrors(tree, outcome) \cup ConftestErrors(tree, outcome)
        \cup {Error("exceptions", e) :
                e \in IF LoadableExceptions(exceptions, loadedAt) THEN {} ELSE {None}}

ScanPaths(tree, outcome, order, exceptions, threshold, loadedAt, judgedAt) ==
    LET errors == ScanErrors(tree, outcome, exceptions, loadedAt)
        loaded == IF LoadableExceptions(exceptions, loadedAt) THEN exceptions ELSE {}
        findings == Deduplicate(PolicyFindings(tree) \cup CheckovFindings(tree, outcome)
                                    \cup ConftestFindings(tree, outcome), order)
        gate == CASE \E f \in findings : Gates(f, loaded, threshold, judgedAt) -> "FAIL"
                  [] errors = {} /\ ~\E f \in findings : Gates(f, loaded, threshold, judgedAt)
                        -> "PASS"
                  [] OTHER -> "NOT_CONFIGURED"
    IN [status |-> ClassifyScan(errors, gate), gate |-> gate,
        fingerprints |-> {Fingerprint(f) : f \in findings}, local |-> TRUE, at |-> judgedAt]
====
