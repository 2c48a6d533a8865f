---- MODULE RoleReview ----
(***************************************************************************)
(* The reviewed evidence of one Terraform role (phase3/role_capture.py,    *)
(* phase3/role_evidence.py, scripts/record_phase3_role_review.py): a       *)
(* capture reads the role from IAM and writes a redacted projection (the   *)
(* tracked half, committed) and the source it was made from (the private   *)
(* half, gitignored); a person reads the source and records the review in  *)
(* the manifest; the Terraform workflow assumes the role only if the gate  *)
(* accepts manifest and projection.  A digest is modelled by the content   *)
(* it is the digest of.                                                    *)
(***************************************************************************)
EXTENDS Naturals, Sequences

CONSTANTS
    Captures,    \* runs of capture_phase3_role_evidence.py that may overlap
    Arns,        \* roles that may be configured for the stack and phase
    RoleStates,  \* ARN -> what IAM may hold for it: [trust, attached, inline, boundary]
    MaxTrouble,  \* bound on role changes, failed calls, crashes and edits together
    None         \* no directory; the content of a file that was not written out

VARIABLES
    role,      \* the role of each ARN, as IAM holds it now
    dir,       \* the two halves: None, or file -> [doc, by]
    cap,       \* the captures: [pc, arn, got, half, made]
    record,    \* the role's record in phase3-role-scope.json
    rec,       \* record_phase3_role_review.py: [pc, arn, re, evidence, source, original]
    damaged,   \* a capture died while it wrote, or somebody edited the projection
    trouble

vars == <<role, dir, cap, record, rec, damaged, trouble>>

----
(* Evidence *)

Evidence == <<"trust", "attached", "inline", "boundary">>

FilesOf == [tracked |-> Evidence, private |-> Append(Evidence, "metadata")]

Names(half) == {FilesOf[half][i] : i \in DOMAIN FilesOf[half]}

RedactedResource(r) == IF r = "*" THEN "*" ELSE "<RESOURCE>"

\* Names and resources go, versions and actions stay.
RedactedPolicy(p, name) ==
    [p EXCEPT !.name = name, !.resource = RedactedResource(@)]

RedactedPolicies(ps, name) == [i \in DOMAIN ps |-> RedactedPolicy(ps[i], name)]

\* redact_role_artifacts.
Redacted(a) ==
    [trust    |-> a.trust,
     attached |-> RedactedPolicies(a.attached, "policy/<RESOURCE>"),
     inline   |-> RedactedPolicies(a.inline, "<POLICY_NAME>"),
     boundary |-> RedactedPolicies(a.boundary, "policy/<RESOURCE>")]

PoliciesOf(a) ==
    UNION {{ps[i] : i \in DOMAIN ps} : ps \in {a.attached, a.inline, a.boundary}}

Roles == UNION {RoleStates[arn] : arn \in Arns}

\* What a file may hold, and a directory: the files there are, and who made them.
Policies ==
    UNION {{p, RedactedPolicy(p, "policy/<RESOURCE>"), RedactedPolicy(p, "<POLICY_NAME>")} :
             p \in UNION {PoliciesOf(r) : r \in Roles}}

Docs == Arns \cup {None} \cup {r.trust : r \in Roles} \cup Seq(Policies)

Directory(files) == [files -> [doc : Docs, by : Captures]]

ASSUME RolesAssumption ==
    \A r \in Roles : {r.attached, r.inline, r.boundary} \subseteq Seq(PoliciesOf(r))

\* A missing directory is told from every directory, and from the names of the halves.
ASSUME NoneAssumption ==
    \A half \in DOMAIN FilesOf :
      None # half /\ \A files \in SUBSET Names(half) : None \notin Directory(files)

\* What stops a capture: a credential in a policy, a service principal, and a
\* GitHub claim that is not the protected workflow's.
Redactable(a) ==
    /\ \A p \in PoliciesOf(a) : p.actions # "credential"
    /\ a.trust.principal # "service"
    /\ a.trust.claims # "foreign"

Distinct(s) == \A i, j \in DOMAIN s : s[i] = s[j] => i = j

\* The judgement of role_evidence.py on a projection.
Acceptable(e) ==
    /\ e.trust = [principal |-> "provider", claims |-> "workflow"]
    /\ Distinct(e.attached)
    /\ Distinct([i \in DOMAIN e.inline |-> e.inline[i].name])

----
(* Directories *)

Complete(half) == dir[half] # None /\ DOMAIN dir[half] = Names(half)

Content(half) == [f \in Names(half) |-> dir[half][f].doc]

Readable(half) == Complete(half) /\ \A f \in Names(half) : dir[half][f].doc # None

ProjectionVerified_Unchecked(arn) ==
    /\ Readable("tracked")
    /\ Readable("private")
    /\ Content("private").metadata = arn
    /\ Redactable(Content("private"))

\* verify_role_capture, without its comparison with an earlier review.
ProjectionVerified(arn) ==
    /\ Complete("tracked")
    /\ Readable("private")
    /\ Content("private").metadata = arn
    /\ Redactable(Content("private"))
    /\ Content("tracked") = Redacted(Content("private"))

SameAsReviewed(arn) ==
    /\ record.arn = arn
    /\ record.evidence = Content("tracked")
    /\ record.source = Content("private")

Verified(arn, superseded) ==
    /\ ProjectionVerified(arn)
    /\ record.status \in {"pending", "reviewed"}
    /\ record.status = "reviewed" /\ ~superseded => SameAsReviewed(arn)

\* validate_role_scope_evidence: what the workflow runs before it assumes the role.
GateAccepts(arn) ==
    /\ record.status = "reviewed"
    /\ record.arn = arn
    /\ Readable("tracked")
    /\ record.evidence = Content("tracked")
    /\ Acceptable(Content("tracked"))

Blank(status) == [status |-> status, arn |-> None, evidence |-> None, source |-> None]

Idle == [pc |-> "idle", arn |-> None, got |-> <<>>, half |-> None, made |-> FALSE]

NoReview ==
    [pc |-> "idle", arn |-> None, re |-> FALSE, evidence |-> None, source |-> None,
     original |-> None]

Init ==
    /\ role \in [Arns -> Roles]
    /\ \A arn \in Arns : role[arn] \in RoleStates[arn]
    /\ dir = [half \in {"tracked", "private"} |-> None]
    /\ cap = [c \in Captures |-> Idle]
    /\ record = Blank("pending")
    /\ rec = NoReview
    /\ damaged = FALSE
    /\ trouble = 0

Troubled == trouble < MaxTrouble /\ trouble' = trouble + 1

----
(* capture_role_evidence *)

Known == <<role, record, rec>>

Start(c, arn) ==
    /\ cap[c].pc = "idle"
    /\ dir.tracked = None /\ dir.private = None
    /\ cap' = [cap EXCEPT ![c] = [Idle EXCEPT !.pc = "role", !.arn = arn]]
    /\ UNCHANGED <<Known, dir, damaged, trouble>>

Got(c, pc, got) == cap' = [cap EXCEPT ![c].pc = pc, ![c].got = got]

\* GetRole answers the trust policy and the ARN of the boundary, not its document.
ReadRole(c) ==
    /\ cap[c].pc = "role"
    /\ Got(c, "attached", [trust    |-> role[cap[c].arn].trust,
                           boundary |-> role[cap[c].arn].boundary])
    /\ UNCHANGED <<Known, dir, damaged, trouble>>

ReadAttached(c) ==
    /\ cap[c].pc = "attached"
    /\ Got(c, "inline", [trust    |-> cap[c].got.trust,
                         boundary |-> cap[c].got.boundary,
                         attached |-> role[cap[c].arn].attached])
    /\ UNCHANGED <<Known, dir, damaged, trouble>>

\* The boundary that GetRole named, with the document it has by now.
BoundaryNow(c) ==
    LET named == cap[c].got.boundary
        now   == role[cap[c].arn].boundary
        same(p, q) == p.name = q.name
    IN IF /\ DOMAIN named = DOMAIN now
          /\ \A i \in DOMAIN named : same(named[i], now[i])
       THEN now ELSE named

\* list_role_policies and the boundary come last; then the capture is refused
\* or redacted in memory.
ReadInlineAndBoundary(c) ==
    /\ cap[c].pc = "inline"
    /\ LET all == [trust    |-> cap[c].got.trust,
                   attached |-> cap[c].got.attached,
                   inline   |-> role[cap[c].arn].inline,
                   boundary |-> BoundaryNow(c)]
       IN IF Redactable(all)
          THEN cap' = [cap EXCEPT ![c].pc = "mkdir", ![c].got = all, ![c].half = "tracked"]
          ELSE cap' = [cap EXCEPT ![c] = Idle]
    /\ UNCHANGED <<Known, dir, damaged, trouble>>

\* An IAM call fails, or answers something that is not the policy asked for.
ReadFails(c) ==
    /\ cap[c].pc \in {"role", "attached", "inline"}
    /\ Troubled
    /\ cap' = [cap EXCEPT ![c] = Idle]
    /\ UNCHANGED <<Known, dir, damaged>>

Artifacts(c) ==
    IF cap[c].half = "tracked" THEN Redacted(cap[c].got)
    ELSE [f \in Names("private") |->
            IF f = "metadata" THEN cap[c].arn ELSE cap[c].got[f]]

\* mkdir fails when the directory is there: another capture was faster.
MakeDirectory(c) ==
    LET half == cap[c].half IN
    /\ cap[c].pc = "mkdir"
    /\ IF dir[half] = None
       THEN /\ dir' = [dir EXCEPT ![half] = <<>>]
            /\ cap' = [cap EXCEPT ![c].pc = "write", ![c].made = TRUE]
       ELSE /\ dir' = dir
            /\ cap' = [cap EXCEPT ![c].pc = "undo", ![c].made = FALSE]
    /\ UNCHANGED <<Known, damaged, trouble>>

Unwritten(half) == {i \in DOMAIN FilesOf[half] : FilesOf[half][i] \notin DOMAIN dir[half]}

NextFile(half) ==
    FilesOf[half][CHOOSE i \in Unwritten(half) : \A j \in Unwritten(half) : i <= j]

WithFile(d, f, doc, c) ==
    [g \in DOMAIN d \cup {f} |-> IF g = f THEN [doc |-> doc, by |-> c] ELSE d[g]]

\* The files are opened exclusively and written one after the other.
WriteFile(c) ==
    LET half == cap[c].half
        f    == NextFile(half)
    IN /\ cap[c].pc = "write"
       /\ dir' = [dir EXCEPT ![half] = WithFile(@, f, Artifacts(c)[f], c)]
       /\ cap' = [cap EXCEPT ![c] =
                    IF ~(Names(half) \subseteq DOMAIN dir'[half]) THEN @
                    ELSE IF half = "tracked"
                         THEN [@ EXCEPT !.pc = "mkdir", !.half = "private"]
                         ELSE Idle]
       /\ UNCHANGED <<Known, damaged, trouble>>

\* The next file cannot be created, or it is created and not written out.
Interrupted(c) ==
    LET half == cap[c].half IN
    \/ dir' = dir
    \/ /\ cap[c].pc = "write"
       /\ dir' = [dir EXCEPT ![half] = WithFile(@, NextFile(half), None, c)]

WriteFails(c) ==
    /\ cap[c].pc \in {"mkdir", "write"}
    /\ Troubled
    /\ Interrupted(c)
    /\ cap' = [cap EXCEPT ![c].pc = "undo", ![c].made = (cap[c].pc = "write")]
    /\ UNCHANGED <<Known, damaged>>

Undone_ByName(d, c) == IF cap[c].made THEN None ELSE <<>>

\* The except clause of _write_artifacts: by inode, and only its own directory.
Undone(d, c) ==
    LET kept == {f \in DOMAIN d : d[f].by # c}
    IN IF kept = {} /\ cap[c].made THEN None ELSE [f \in kept |-> d[f]]

Undo(c) ==
    LET half == cap[c].half IN
    /\ cap[c].pc = "undo"
    /\ dir' = [dir EXCEPT ![half] = IF @ = None THEN None ELSE Undone(@, c)]
    /\ cap' = [cap EXCEPT ![c] = IF half = "private" THEN [@ EXCEPT !.pc = "rollback"] ELSE Idle]
    /\ UNCHANGED <<Known, damaged, trouble>>

\* _rollback_artifacts: all of the tracked half, or nothing if any of it changed.
RolledBack(c) ==
    IF Complete("tracked") /\ Content("tracked") = Redacted(cap[c].got)
    THEN None ELSE dir.tracked

Rollback(c) ==
    /\ cap[c].pc = "rollback"
    /\ dir' = [dir EXCEPT !.tracked = RolledBack(c)]
    /\ cap' = [cap EXCEPT ![c] = Idle]
    /\ UNCHANGED <<Known, damaged, trouble>>

\* The process is killed.  What it wrote so far stays.
Die(c) ==
    /\ cap[c].pc # "idle"
    /\ Troubled
    /\ Interrupted(c)
    /\ damaged' = (damaged \/ cap[c].half # None)
    /\ cap' = [cap EXCEPT ![c] = Idle]
    /\ UNCHANGED Known

Capture(c) ==
    \/ \E arn \in Arns : Start(c, arn)
    \/ ReadRole(c) \/ ReadAttached(c) \/ ReadInlineAndBoundary(c) \/ ReadFails(c)
    \/ MakeDirectory(c) \/ WriteFile(c) \/ WriteFails(c)
    \/ Undo(c) \/ Rollback(c) \/ Die(c)

----
(* record_review *)

Disk == <<role, dir, cap, damaged>>

Verify(arn, re) ==
    /\ rec.pc = "idle"
    /\ Verified(arn, re)
    /\ rec' = [NoReview EXCEPT !.pc = "read", !.arn = arn, !.re = re,
                               !.evidence = Content("tracked"), !.source = Content("private")]
    /\ UNCHANGED <<Disk, record, trouble>>

ReadManifest ==
    /\ rec.pc = "read"
    /\ IF record.status = "pending" \/ (rec.re /\ record.status = "reviewed")
       THEN rec' = [rec EXCEPT !.pc = "write", !.original = record]
       ELSE rec' = NoReview
    /\ UNCHANGED <<Disk, record, trouble>>

WriteManifest ==
    /\ rec.pc = "write"
    /\ record' = [status |-> "reviewed", arn |-> rec.arn,
                  evidence |-> rec.evidence, source |-> rec.source]
    /\ rec' = [rec EXCEPT !.pc = "judge"]
    /\ UNCHANGED <<Disk, trouble>>

\* The gate and the verifier look at the new record; if one of them objects, the
\* bytes read before are written back.
Judge ==
    /\ rec.pc = "judge"
    /\ record' = IF GateAccepts(rec.arn) /\ Verified(rec.arn, FALSE)
                 THEN record ELSE rec.original
    /\ rec' = NoReview
    /\ UNCHANGED <<Disk, trouble>>

\* The manifest is rewritten in place: a crash may leave it unreadable.
RecorderDies ==
    /\ rec.pc # "idle"
    /\ Troubled
    /\ record' \in {record} \cup IF rec.pc = "write" THEN {Blank("unreadable")} ELSE {}
    /\ rec' = NoReview
    /\ UNCHANGED Disk

Record ==
    \/ \E arn \in Arns, re \in BOOLEAN : Verify(arn, re)
    \/ ReadManifest \/ WriteManifest \/ Judge \/ RecorderDies

----
(* Outside *)

ChangeRole(arn) ==
    /\ Troubled
    /\ \E r \in RoleStates[arn] \ {role[arn]} : role' = [role EXCEPT ![arn] = r]
    /\ UNCHANGED <<dir, cap, record, rec, damaged>>

\* Somebody changes a committed projection, in place or by putting another file there.
EditProjection(f) ==
    /\ dir.tracked # None /\ f \in DOMAIN dir.tracked
    /\ Troubled
    /\ \E r \in Roles, by \in {dir.tracked[f].by, None} :
         /\ dir.tracked[f].doc # Redacted(r)[f]
         /\ dir' = [dir EXCEPT !.tracked[f] = [doc |-> Redacted(r)[f], by |-> by]]
    /\ damaged' = TRUE
    /\ UNCHANGED <<role, cap, record, rec>>

\* The operator clears the evidence for a new capture, while none runs.
RemoveEvidence ==
    /\ \A c \in Captures : cap[c].pc = "idle"
    /\ dir.tracked # None \/ dir.private # None
    /\ dir' = [half \in DOMAIN dir |-> None]
    /\ damaged' = FALSE
    /\ UNCHANGED <<role, cap, record, rec, trouble>>

RestoreManifest ==
    /\ record.status = "unreadable"
    /\ record' = Blank("pending")
    /\ UNCHANGED <<Disk, rec, trouble>>

Next ==
    \/ \E c \in Captures : Capture(c)
    \/ Record
    \/ \E arn \in Arns : ChangeRole(arn)
    \/ \E f \in Names("tracked") : EditProjection(f)
    \/ RemoveEvidence
    \/ RestoreManifest

Spec == Init /\ [][Next]_vars

----
(* Properties *)

\* Unless a capture was killed or the projection edited, the two halves stand
\* together whenever no capture runs: both are missing, or both are complete and
\* the tracked one is the redaction of the private one.  The cleaning up of
\* _write_artifacts and the rollback of capture_role_evidence owe this for a
\* failure at any file of either half, also when two captures started together:
\* the loser takes away nothing of the winner's.
HalvesAgree ==
    /\ \A c \in Captures : cap[c].pc = "idle"
    /\ ~damaged
    => \/ dir.tracked = None /\ dir.private = None
       \/ /\ Complete("tracked") /\ Complete("private")
          /\ Content("tracked") = Redacted(Content("private"))
          /\ \E c \in Captures : \A half \in DOMAIN dir :
               \A f \in Names(half) : dir[half][f].by = c

\* Whatever the gate accepts was verified: the projection in the repository is
\* the redaction of the source the recorded digests name, which was captured
\* for the very ARN that is about to be assumed.  Edits, failed recordings,
\* crashes of the recorder and new captures in between do not change that
\* (validate_role_scope_evidence sees no private source, and relies on
\* record_review for it).
GateMeansVerified ==
    \A arn \in Arns :
      GateAccepts(arn) =>
        /\ record.source.metadata = arn
        /\ Redactable(record.source)
        /\ Content("tracked") = Redacted(record.source)

====
