---- MODULE RoleReview_proofs ----
(***************************************************************************)
(* GateMeansVerified and HalvesAgree for any captures, roles and bounds.   *)
(* For the gate, the invariant follows the three places a review can be    *)
(* in: the manifest, the memory of the recorder, and the bytes it would    *)
(* write back.                                                             *)
(***************************************************************************)
EXTENDS RoleReview, TLAPS

\* A review that some verified capture stands behind.
Backed(r) ==
    /\ r.source.metadata = r.arn
    /\ Redactable(r.source)
    /\ r.evidence = Redacted(r.source)

Sound(r) == r.status = "reviewed" => Backed(r)

RecShape ==
    rec = [pc |-> rec.pc, arn |-> rec.arn, re |-> rec.re, evidence |-> rec.evidence,
           source |-> rec.source, original |-> rec.original]

IInv ==
    /\ RecShape
    /\ Sound(record)
    /\ rec.pc # "idle" => Backed(rec)
    /\ rec.pc \in {"write", "judge"} => Sound(rec.original)

\* Only a verified capture starts a recording: verify_role_capture compares the
\* projection with the redaction of the source before record_review goes on.
LEMMA VerifyBacks ==
    ASSUME NEW arn, NEW re, Verify(arn, re)
    PROVE  Backed(rec') /\ RecShape' /\ rec'.pc = "read" /\ record' = record
<1>1. rec' = [pc |-> "read", arn |-> arn, re |-> re, evidence |-> Content("tracked"),
              source |-> Content("private"), original |-> None]
  BY DEF Verify, NoReview
<1>2. ProjectionVerified(arn)
  BY DEF Verify, Verified
<1>3. Backed(rec')
  BY <1>1, <1>2 DEF Backed, ProjectionVerified
<1> QED BY <1>1, <1>3 DEF RecShape, Verify

\* Captures and the world outside leave manifest and recorder alone.
LEMMA CaptureKnows ==
    ASSUME NEW c, Capture(c)
    PROVE  UNCHANGED <<record, rec>>
BY DEF Capture, Start, ReadRole, ReadAttached, ReadInlineAndBoundary, ReadFails,
       MakeDirectory, WriteFile, WriteFails, Undo, Rollback, Die, Known

LEMMA UnchangedKeeps ==
    ASSUME IInv, UNCHANGED <<record, rec>>
    PROVE  IInv'
BY DEF IInv, RecShape, Sound, Backed

\* The initial manifest claims nothing.
LEMMA InitIInv == Init => IInv
BY DEF Init, IInv, Blank, NoReview, RecShape, Sound

\* The manifest only ever gets what the recorder verified, or gets back what was
\* there before.
LEMMA RecordKeeps ==
    ASSUME IInv, Record
    PROVE  IInv'
<1>1. ASSUME NEW arn \in Arns, NEW re \in BOOLEAN, Verify(arn, re)
      PROVE  IInv'
  BY <1>1, VerifyBacks DEF IInv, Sound
<1>2. CASE ReadManifest
  <2>1. UNCHANGED record
    BY <1>2 DEF ReadManifest
  <2>2. CASE rec' = NoReview
    BY <2>1, <2>2 DEF IInv, RecShape, NoReview, Sound, Backed
  <2>3. CASE rec.pc = "read" /\ rec' = [rec EXCEPT !.pc = "write", !.original = record]
    <3>1. rec' = [pc |-> "write", arn |-> rec.arn, re |-> rec.re, evidence |-> rec.evidence,
                  source |-> rec.source, original |-> record]
      BY <2>3 DEF IInv, RecShape
    <3> QED BY <2>1, <2>3, <3>1 DEF IInv, RecShape, Sound, Backed
  <2> QED BY <1>2, <2>2, <2>3 DEF ReadManifest
<1>3. CASE WriteManifest
  <2>1. rec' = [pc |-> "judge", arn |-> rec.arn, re |-> rec.re, evidence |-> rec.evidence,
                source |-> rec.source, original |-> rec.original]
    BY <1>3 DEF WriteManifest, IInv, RecShape
  <2>2. Backed(record')
    BY <1>3 DEF WriteManifest, IInv, Backed
  <2> QED BY <1>3, <2>1, <2>2 DEF WriteManifest, IInv, RecShape, Sound, Backed
<1>4. CASE Judge
  <2>1. record' = record \/ record' = rec.original
    BY <1>4 DEF Judge
  <2> QED BY <1>4, <2>1 DEF Judge, IInv, RecShape, NoReview, Sound, Backed
<1>5. CASE RecorderDies
  <2>1. record' = record \/ record' = Blank("unreadable")
    BY <1>5 DEF RecorderDies
  <2> QED BY <1>5, <2>1 DEF RecorderDies, IInv, RecShape, NoReview, Sound, Backed, Blank
<1> QED BY <1>1, <1>2, <1>3, <1>4, <1>5 DEF Record

LEMMA NextKeeps == IInv /\ [Next]_vars => IInv'
<1> SUFFICES ASSUME IInv, [Next]_vars PROVE IInv'
  OBVIOUS
<1>1. CASE Record
  BY <1>1, RecordKeeps
<1>2. ASSUME NEW c \in Captures, Capture(c) PROVE IInv'
  BY <1>2, CaptureKnows, UnchangedKeeps
<1>3. CASE RestoreManifest
  BY <1>3 DEF RestoreManifest, IInv, RecShape, Sound, Backed, Blank
<1>4. CASE UNCHANGED <<record, rec>>
  BY <1>4, UnchangedKeeps
<1>5. ASSUME NEW arn \in Arns, ChangeRole(arn) PROVE UNCHANGED <<record, rec>>
  BY <1>5 DEF ChangeRole
<1>6. ASSUME NEW f \in Names("tracked"), EditProjection(f) PROVE UNCHANGED <<record, rec>>
  BY <1>6 DEF EditProjection
<1>7. CASE RemoveEvidence
  BY <1>7, UnchangedKeeps DEF RemoveEvidence
<1>8. CASE UNCHANGED vars
  BY <1>8, UnchangedKeeps DEF vars
<1> QED BY <1>1, <1>2, <1>3, <1>4, <1>5, <1>6, <1>7, <1>8 DEF Next

\* What the gate accepts was verified, for every number of captures, every role
\* and every sequence of failures: the gate itself never sees a private source.
THEOREM GateTheorem == Spec => []GateMeansVerified
<1>1. IInv => GateMeansVerified
  BY DEF IInv, GateMeansVerified, GateAccepts, Sound, Backed
<1> QED BY <1>1, InitIInv, NextKeeps, PTL DEF Spec

----
(***************************************************************************)
(* HalvesAgree.  At most one capture owns the tracked half at a time: the  *)
(* one whose mkdir succeeded.  What the others do, and what they clean up  *)
(* when they fail, leaves the directories as they are; what the owner has  *)
(* on disk is known at each of its steps.                                  *)
(***************************************************************************)
Working == {"mkdir", "write", "undo", "rollback"}

Halves == {"tracked", "private"}

\* What a capture has read by the time it is at pc.
ReadBy(pc) ==
    CASE pc = "role"     -> {}
      [] pc = "attached" -> {"trust", "boundary"}
      [] pc = "inline"   -> {"trust", "boundary", "attached"}
      [] OTHER           -> Names("tracked")

Given == UNION {PoliciesOf(r) : r \in Roles}

Readings == [trust    |-> {r.trust : r \in Roles},
             attached |-> Seq(Given),
             inline   |-> Seq(Given),
             boundary |-> Seq(Given)]

CapTyped(q) ==
    /\ q = [pc |-> q.pc, arn |-> q.arn, got |-> q.got, half |-> q.half, made |-> q.made]
    /\ q.pc \in {"idle", "role", "attached", "inline"} \cup Working
    /\ q.half \in IF q.pc \in Working THEN Halves ELSE {None}
    /\ q.pc = "rollback" => q.half = "private"
    /\ q.pc # "idle" =>
         /\ q.arn \in Arns
         /\ \A f \in ReadBy(q.pc) : q.got[f] \in Readings[f]

DirTyped ==
    \A half \in Halves :
      \/ dir[half] = None
      \/ DOMAIN dir[half] \subseteq Names(half) /\ dir[half] \in Directory(DOMAIN dir[half])

\* Capture c has taken the tracked half for itself: it made the directory, and
\* has neither finished nor given up.
Owns(c) ==
    /\ cap[c].pc \in Working
    /\ \/ cap[c].half = "private"
       \/ cap[c].pc = "write"
       \/ cap[c].pc = "undo" /\ cap[c].made

MadeBy(half, c) ==
    dir[half] # None /\ \A f \in DOMAIN dir[half] : dir[half][f].by = c

\* So far c wrote what it meant to, and there is more to write.
Writing(half, c) ==
    /\ MadeBy(half, c)
    /\ DOMAIN dir[half] # Names(half)
    /\ \A f \in DOMAIN dir[half] : dir[half][f].doc = Artifacts(c)[f]

Tracked(c) ==
    /\ Complete("tracked")
    /\ MadeBy("tracked", c)
    /\ Content("tracked") = Redacted(cap[c].got)

\* What an owner's half looks like at every point of _write_artifacts.
Underway(c) ==
    LET half == cap[c].half
        pc   == cap[c].pc
    IN /\ half = "tracked" => dir.private = None
       /\ half = "private" => Tracked(c)
       /\ \/ pc = "write" /\ Writing(half, c)
          \/ pc = "undo" /\ cap[c].made /\ MadeBy(half, c)
          \/ /\ half = "private" /\ dir.private = None
             /\ pc = "undo" => ~cap[c].made
             /\ pc \in {"mkdir", "undo", "rollback"}

Agreed ==
    \/ dir.tracked = None /\ dir.private = None
    \/ /\ Complete("tracked") /\ Complete("private")
       /\ Content("tracked") = Redacted(Content("private"))
       /\ \E c \in Captures : MadeBy("tracked", c) /\ MadeBy("private", c)

\* A capture that runs and owns nothing finds none of its own files.
Apart(c) ==
    cap[c].pc # "idle" /\ ~Owns(c) /\ dir.tracked # None =>
      \A f \in DOMAIN dir.tracked : dir.tracked[f].by # c

OneOwner == \A c, d \in Captures : Owns(c) /\ Owns(d) => c = d

Standing ==
    /\ DirTyped
    /\ OneOwner
    /\ \A c \in Captures : Owns(c) => Underway(c)
    /\ \A c \in Captures : Apart(c)
    /\ (\A c \in Captures : ~Owns(c)) => Agreed

Shapes ==
    /\ role \in [Arns -> Roles]
    /\ dir = [half \in Halves |-> dir[half]]
    /\ DOMAIN cap = Captures
    /\ \A c \in Captures : CapTyped(cap[c])

HInv == Shapes /\ (~damaged => Standing)

LEMMA NamesAre ==
    /\ DOMAIN FilesOf = Halves
    /\ Names("tracked") = {"trust", "attached", "inline", "boundary"}
    /\ Names("private") = {"trust", "attached", "inline", "boundary", "metadata"}
<1>1. FilesOf.tracked = <<"trust", "attached", "inline", "boundary">>
  BY DEF FilesOf, Evidence
<1>2. /\ DOMAIN FilesOf.private = 1 .. 5
      /\ FilesOf.private[1] = "trust" /\ FilesOf.private[2] = "attached"
      /\ FilesOf.private[3] = "inline" /\ FilesOf.private[4] = "boundary"
      /\ FilesOf.private[5] = "metadata"
  <2>1. FilesOf.private = Append(Evidence, "metadata")
    BY DEF FilesOf
  <2>2. Evidence \in Seq({"trust", "attached", "inline", "boundary"}) /\ Len(Evidence) = 4
    BY DEF Evidence
  <2> QED BY <2>1, <2>2 DEF Evidence
<1>3. DOMAIN FilesOf = Halves
  BY DEF FilesOf, Halves
<1>4. Names("tracked") = {"trust", "attached", "inline", "boundary"}
  BY <1>1 DEF Names
<1>5. Names("private") = {"trust", "attached", "inline", "boundary", "metadata"}
  BY <1>2 DEF Names
<1> QED BY <1>3, <1>4, <1>5

\* An unfinished directory has a next file.
LEMMA NextIsNew ==
    ASSUME NEW half \in Halves, dir[half] # None,
           DOMAIN dir[half] \subseteq Names(half), DOMAIN dir[half] # Names(half)
    PROVE  NextFile(half) \in Names(half) \ DOMAIN dir[half]
<1> DEFINE U == Unwritten(half)
<1>1. PICK f \in Names(half) : f \notin DOMAIN dir[half]
  OBVIOUS
<1>2. DOMAIN FilesOf[half] \subseteq 1 .. 5
  BY DEF FilesOf, Evidence, Halves
<1>3. U \subseteq 1 .. 5 /\ U # {}
  BY <1>1, <1>2 DEF Unwritten, Names
<1>4. \E i \in U : \A j \in U : i <= j
  <2> HIDE DEF U
  <2>1. PICK i \in U : TRUE
    BY <1>3
  <2>2. CASE 1 \in U
    BY <2>2, <1>3
  <2>3. CASE 1 \notin U /\ 2 \in U
    BY <2>3, <1>3
  <2>4. CASE 1 \notin U /\ 2 \notin U /\ 3 \in U
    BY <2>4, <1>3
  <2>5. CASE 1 \notin U /\ 2 \notin U /\ 3 \notin U /\ 4 \in U
    BY <2>5, <1>3
  <2>6. CASE 1 \notin U /\ 2 \notin U /\ 3 \notin U /\ 4 \notin U
    BY <2>6, <2>1, <1>3
  <2> QED BY <2>2, <2>3, <2>4, <2>5, <2>6
<1>5. PICK i \in U : NextFile(half) = FilesOf[half][i]
  BY <1>4 DEF NextFile
<1> QED BY <1>5 DEF Unwritten, Names

\* What a capture writes fits in a file.
LEMMA RedactedSeq ==
    ASSUME NEW ps \in Seq(Given), NEW name \in {"policy/<RESOURCE>", "<POLICY_NAME>"}
    PROVE  RedactedPolicies(ps, name) \in Seq(Policies)
<1>1. \A p \in Given : RedactedPolicy(p, name) \in Policies
  BY DEF Policies, Given
<1>2. DOMAIN ps = 1 .. Len(ps) /\ Len(ps) \in Nat /\ \A i \in DOMAIN ps : ps[i] \in Given
  OBVIOUS
<1>3. RedactedPolicies(ps, name) = [i \in 1 .. Len(ps) |-> RedactedPolicy(ps[i], name)]
  BY <1>2 DEF RedactedPolicies
<1> HIDE DEF RedactedPolicies
<1> QED BY <1>1, <1>2, <1>3

LEMMA GivenSeq ==
    ASSUME NEW ps \in Seq(Given)
    PROVE  ps \in Seq(Policies)
<1>1. Given \subseteq Policies
  BY DEF Policies, Given
<1>2. DOMAIN ps = 1 .. Len(ps) /\ Len(ps) \in Nat /\ \A i \in DOMAIN ps : ps[i] \in Given
  OBVIOUS
<1>3. ps = [i \in 1 .. Len(ps) |-> ps[i]]
  BY <1>2
<1> QED BY <1>1, <1>2, <1>3

LEMMA ArtifactsTyped ==
    ASSUME NEW c \in Captures, CapTyped(cap[c]), cap[c].pc \in Working,
           NEW f \in Names(cap[c].half)
    PROVE  Artifacts(c)[f] \in Docs
<1> DEFINE got == cap[c].got
<1>1. /\ got.trust \in {r.trust : r \in Roles}
      /\ got.attached \in Seq(Given) /\ got.inline \in Seq(Given) /\ got.boundary \in Seq(Given)
      /\ cap[c].arn \in Arns /\ cap[c].half \in Halves
  <2>1. ReadBy(cap[c].pc) = {"trust", "attached", "inline", "boundary"}
    BY NamesAre DEF ReadBy, Working
  <2>2. /\ Readings["trust"] = {r.trust : r \in Roles}
        /\ Readings["attached"] = Seq(Given) /\ Readings["inline"] = Seq(Given)
        /\ Readings["boundary"] = Seq(Given)
    BY DEF Readings
  <2> QED BY <2>1, <2>2 DEF CapTyped, Working
<1> HIDE DEF got
<1>2. CASE cap[c].half = "tracked"
  <2>1. Artifacts(c) = [trust |-> got.trust,
                        attached |-> RedactedPolicies(got.attached, "policy/<RESOURCE>"),
                        inline |-> RedactedPolicies(got.inline, "<POLICY_NAME>"),
                        boundary |-> RedactedPolicies(got.boundary, "policy/<RESOURCE>")]
    BY <1>2 DEF Artifacts, Redacted, got
  <2>2. /\ RedactedPolicies(got.attached, "policy/<RESOURCE>") \in Seq(Policies)
        /\ RedactedPolicies(got.inline, "<POLICY_NAME>") \in Seq(Policies)
        /\ RedactedPolicies(got.boundary, "policy/<RESOURCE>") \in Seq(Policies)
    BY <1>1, RedactedSeq
  <2> QED BY <1>1, <1>2, <2>1, <2>2, NamesAre DEF Docs
<1>3. CASE cap[c].half = "private"
  <2>1. Artifacts(c) = [g \in Names("private") |->
                          IF g = "metadata" THEN cap[c].arn ELSE got[g]]
    BY <1>3 DEF Artifacts, got
  <2>2. /\ got.attached \in Seq(Policies) /\ got.inline \in Seq(Policies)
        /\ got.boundary \in Seq(Policies)
    BY <1>1, GivenSeq
  <2> QED BY <1>1, <1>3, <2>1, <2>2, NamesAre DEF Docs
<1> QED BY <1>1, <1>2, <1>3 DEF Halves

\* What IAM answers.
LEMMA RoleTyped ==
    ASSUME NEW r \in Roles
    PROVE  /\ r.trust \in Readings.trust
           /\ r.attached \in Readings.attached
           /\ r.inline \in Readings.inline
           /\ r.boundary \in Readings.boundary
<1>1. PoliciesOf(r) \subseteq Given
  BY DEF Given
<1>2. ASSUME NEW ps \in Seq(PoliciesOf(r)) PROVE ps \in Seq(Given)
  <2>1. /\ DOMAIN ps = 1 .. Len(ps) /\ Len(ps) \in Nat
        /\ \A i \in DOMAIN ps : ps[i] \in PoliciesOf(r)
    OBVIOUS
  <2>2. ps = [i \in 1 .. Len(ps) |-> ps[i]]
    BY <2>1
  <2> QED BY <1>1, <2>1, <2>2
<1>3. {r.attached, r.inline, r.boundary} \subseteq Seq(PoliciesOf(r))
  BY RolesAssumption
<1> QED BY <1>2, <1>3 DEF Readings

LEMMA ReadByAt ==
    /\ ReadBy("role") = {}
    /\ ReadBy("attached") = {"trust", "boundary"}
    /\ ReadBy("inline") = {"trust", "boundary", "attached"}
    /\ \A pc \in Working : ReadBy(pc) = {"trust", "attached", "inline", "boundary"}
BY NamesAre DEF ReadBy, Working

\* A step of a capture changes its own state and a directory.
LEMMA CaptureLocal ==
    ASSUME Shapes, NEW c \in Captures, Capture(c)
    PROVE  /\ cap' = [cap EXCEPT ![c] = cap'[c]]
           /\ role' = role
           /\ dir' = [half \in Halves |-> dir'[half]]
<1> USE DEF Shapes
<1>1. role' = role
  BY DEF Capture, Start, ReadRole, ReadAttached, ReadInlineAndBoundary, ReadFails,
         MakeDirectory, WriteFile, WriteFails, Undo, Rollback, Die, Known
<1>2. dir' = [half \in Halves |-> dir'[half]]
  BY DEF Capture, Start, ReadRole, ReadAttached, ReadInlineAndBoundary, ReadFails,
         MakeDirectory, WriteFile, WriteFails, Interrupted, Undo, Rollback, Die
<1>3. cap' = [cap EXCEPT ![c] = cap'[c]]
  <2>1. CASE \E arn \in Arns : Start(c, arn)
    BY <2>1 DEF Start
  <2>2. CASE ReadRole(c) \/ ReadAttached(c)
    BY <2>2 DEF ReadRole, ReadAttached, Got
  <2>3. CASE ReadInlineAndBoundary(c)
    BY <2>3 DEF ReadInlineAndBoundary
  <2>4. CASE ReadFails(c) \/ Rollback(c) \/ Die(c)
    BY <2>4 DEF ReadFails, Rollback, Die
  <2>5. CASE MakeDirectory(c) \/ WriteFails(c)
    BY <2>5 DEF MakeDirectory, WriteFails
  <2>6. CASE WriteFile(c) \/ Undo(c)
    BY <2>6 DEF WriteFile, Undo
  <2> QED BY <2>1, <2>2, <2>3, <2>4, <2>5, <2>6 DEF Capture
<1> QED BY <1>1, <1>2, <1>3

\* A step of a capture keeps the shape of its state.
LEMMA CaptureTyped ==
    ASSUME Shapes, NEW c \in Captures, Capture(c)
    PROVE  CapTyped(cap'[c])
<1> DEFINE q == cap[c]
           Answers(pc, got) == \A f \in ReadBy(pc) : got[f] \in Readings[f]
<1> USE NoneAssumption DEF Shapes
<1>1. q = [pc |-> q.pc, arn |-> q.arn, got |-> q.got, half |-> q.half, made |-> q.made]
      /\ CapTyped(q)
  BY DEF CapTyped
<1>2. CapTyped(Idle)
  BY DEF CapTyped, Idle, Working
<1>3. CASE cap' = [cap EXCEPT ![c] = Idle]
  BY <1>2, <1>3
<1>4. ASSUME NEW arn \in Arns, Start(c, arn) PROVE CapTyped(cap'[c])
  <2>1. cap'[c] = [pc |-> "role", arn |-> arn, got |-> <<>>, half |-> None, made |-> FALSE]
    BY <1>4 DEF Start, Idle
  <2> QED BY <2>1, ReadByAt DEF CapTyped, Working
<1>5. q.pc \in {"role", "attached", "inline"} => role[q.arn] \in Roles /\ q.half = None
  BY <1>1 DEF CapTyped, Working
<1>6. ASSUME NEW pc, NEW got, Got(c, pc, got), q.pc \in {"role", "attached", "inline"},
             pc \in {"attached", "inline"}, Answers(pc, got)
      PROVE  CapTyped(cap'[c])
  <2>1. cap'[c] = [pc |-> pc, arn |-> q.arn, got |-> got, half |-> q.half, made |-> q.made]
    BY <1>1, <1>6 DEF Got
  <2> QED BY <2>1, <1>1, <1>5, <1>6 DEF CapTyped, Working
<1>7. CASE ReadRole(c)
  <2>1. Answers("attached", [trust |-> role[q.arn].trust, boundary |-> role[q.arn].boundary])
    BY <1>5, <1>7, RoleTyped, ReadByAt DEF ReadRole
  <2> QED BY <1>6, <1>7, <2>1 DEF ReadRole, Got
<1>8. CASE ReadAttached(c)
  <2>1. Answers("inline", [trust |-> q.got.trust, boundary |-> q.got.boundary,
                           attached |-> role[q.arn].attached])
    BY <1>1, <1>5, <1>8, RoleTyped, ReadByAt DEF ReadAttached, CapTyped
  <2> QED BY <1>6, <1>8, <2>1 DEF ReadAttached, Got
<1>9. CASE ReadInlineAndBoundary(c)
  <2>1. PICK all : /\ all = [trust    |-> q.got.trust,
                             attached |-> q.got.attached,
                             inline   |-> role[q.arn].inline,
                             boundary |-> BoundaryNow(c)]
                   /\ \/ cap' = [cap EXCEPT ![c].pc = "mkdir", ![c].got = all,
                                            ![c].half = "tracked"]
                      \/ cap' = [cap EXCEPT ![c] = Idle]
    BY <1>9 DEF ReadInlineAndBoundary
  <2>2. BoundaryNow(c) \in Readings.boundary
    BY <1>1, <1>5, <1>9, RoleTyped, ReadByAt DEF BoundaryNow, CapTyped, ReadInlineAndBoundary
  <2>3. Answers("mkdir", all)
    BY <1>1, <1>5, <1>9, <2>1, <2>2, RoleTyped, ReadByAt
    DEF CapTyped, Working, ReadInlineAndBoundary
  <2>4. CASE cap' = [cap EXCEPT ![c].pc = "mkdir", ![c].got = all, ![c].half = "tracked"]
    <3>1. cap'[c] = [pc |-> "mkdir", arn |-> q.arn, got |-> all, half |-> "tracked",
                     made |-> q.made]
      BY <1>1, <2>4
    <3> QED
      BY <3>1, <1>1, <1>9, <2>3 DEF CapTyped, Working, Halves, ReadInlineAndBoundary
  <2> QED BY <2>1, <2>4, <1>3
<1>10. ASSUME q.pc \in Working, NEW pc \in Working \ {"rollback"}, NEW half \in Halves, NEW made,
              cap'[c] = [pc |-> pc, arn |-> q.arn, got |-> q.got, half |-> half, made |-> made]
       PROVE  CapTyped(cap'[c])
  <2>1. Answers(pc, q.got) /\ q.arn \in Arns
    BY <1>1, <1>10, ReadByAt DEF CapTyped, Working
  <2> QED BY <1>10, <2>1 DEF CapTyped, Working
<1>11. ASSUME q.pc \in Working, NEW pc \in {"mkdir", "write", "undo"}, NEW made \in BOOLEAN,
              cap' = [cap EXCEPT ![c].pc = pc, ![c].made = made]
       PROVE  CapTyped(cap'[c])
  <2>1. cap'[c] = [pc |-> pc, arn |-> q.arn, got |-> q.got, half |-> q.half, made |-> made]
    BY <1>1, <1>11
  <2>2. q.half \in Halves
    BY <1>1, <1>11 DEF CapTyped
  <2> QED BY <2>1, <2>2, <1>10, <1>11 DEF Working
<1>12. CASE MakeDirectory(c)
  BY <1>11, <1>12 DEF MakeDirectory, Working
<1>13. CASE WriteFile(c)
  <2>1. CASE cap'[c] = q
    BY <1>1, <2>1
  <2>2. CASE cap'[c] = [q EXCEPT !.pc = "mkdir", !.half = "private"]
    <3>1. cap'[c] = [pc |-> "mkdir", arn |-> q.arn, got |-> q.got, half |-> "private",
                     made |-> q.made]
      BY <1>1, <2>2
    <3>2. /\ \A f \in ReadBy("mkdir") : q.got[f] \in Readings[f]
          /\ q.arn \in Arns
      BY <1>1, <1>13, ReadByAt DEF WriteFile, CapTyped, Working
    <3> QED BY <3>1, <3>2 DEF CapTyped, Working, Halves
  <2>3. CASE cap'[c] = Idle
    BY <1>2, <2>3
  <2> QED BY <1>13, <2>1, <2>2, <2>3 DEF WriteFile
<1>14. CASE WriteFails(c)
  BY <1>11, <1>14 DEF WriteFails, Working
<1>15. CASE Undo(c)
  <2>1. CASE q.half = "private" /\ cap'[c] = [q EXCEPT !.pc = "rollback"]
    <3>1. cap'[c] = [pc |-> "rollback", arn |-> q.arn, got |-> q.got, half |-> "private",
                     made |-> q.made]
      BY <1>1, <2>1
    <3>2. /\ \A f \in ReadBy("rollback") : q.got[f] \in Readings[f]
          /\ q.arn \in Arns
      BY <1>1, <1>15, ReadByAt DEF Undo, CapTyped, Working
    <3> QED BY <3>1, <3>2 DEF CapTyped, Working, Halves
  <2>2. CASE cap'[c] = Idle
    BY <1>2, <2>2
  <2> QED BY <1>15, <2>1, <2>2 DEF Undo
<1>16. CASE ReadFails(c) \/ Rollback(c) \/ Die(c)
  BY <1>3, <1>16 DEF ReadFails, Rollback, Die
<1> QED BY <1>4, <1>7, <1>8, <1>9, <1>12, <1>13, <1>14, <1>15, <1>16 DEF Capture

----

\* An owner has made the tracked half.
LEMMA OwnerHasTracked ==
    ASSUME Shapes, Standing, NEW c \in Captures, Owns(c)
    PROVE  MadeBy("tracked", c)
BY DEF Standing, Underway, Writing, Tracked, Owns, Shapes, CapTyped, Halves, Working

\* A step that leaves the directories alone, by a capture that owns nothing.
LEMMA BystanderKeeps ==
    ASSUME Shapes, Standing, NEW c \in Captures,
           cap' = [cap EXCEPT ![c] = cap'[c]], dir' = dir,
           ~Owns(c), ~Owns(c)',
           cap'[c].pc = "idle" \/ cap[c].pc # "idle" \/ dir.tracked = None
    PROVE  Standing'
<1>1. \A d \in Captures : d # c => cap'[d] = cap[d]
  BY DEF Shapes
<1>2. \A d \in Captures : Owns(d)' <=> Owns(d)
  BY <1>1 DEF Owns
<1>3. \A d \in Captures : Owns(d)' => Owns(d) /\ d # c /\ cap'[d] = cap[d]
  BY <1>1, <1>2
<1>4. ASSUME NEW d \in Captures, Owns(d)' PROVE Underway(d)'
  <2>1. Underway(d) /\ cap'[d] = cap[d]
    BY <1>3, <1>4 DEF Standing
  <2>2. Artifacts(d)' = Artifacts(d)
    BY <2>1 DEF Artifacts
  <2>3. \A half : MadeBy(half, d)' = MadeBy(half, d)
    BY DEF MadeBy
  <2>4. \A half : Writing(half, d)' = Writing(half, d)
    BY <2>2, <2>3 DEF Writing
  <2>5. Tracked(d)' = Tracked(d)
    BY <2>1, <2>3 DEF Tracked, Complete, Content
  <2> QED BY <2>1, <2>3, <2>4, <2>5 DEF Underway
<1>5. ASSUME NEW d \in Captures PROVE Apart(d)'
  <2>1. Apart(d)
    BY DEF Standing
  <2> QED BY <1>1, <1>2, <2>1 DEF Apart
<1>6. Agreed => Agreed'
  BY DEF Agreed, Complete, Content, MadeBy
<1>7. DirTyped' /\ OneOwner'
  BY <1>2 DEF Standing, DirTyped, OneOwner
<1> QED BY <1>2, <1>4, <1>5, <1>6, <1>7 DEF Standing

\* A step after which the tracked half is c's, or gone.
LEMMA OwnerKeeps ==
    ASSUME Shapes, Standing, NEW c \in Captures,
           cap' = [cap EXCEPT ![c] = cap'[c]], DirTyped',
           \A d \in Captures : Owns(d) => d = c,
           dir'.tracked = None \/ MadeBy("tracked", c)',
           \/ Owns(c)' /\ Underway(c)'
           \/ cap'[c].pc = "idle" /\ Agreed'
    PROVE  Standing'
<1>1. \A d \in Captures : d # c => cap'[d] = cap[d]
  BY DEF Shapes
<1>2. \A d \in Captures : Owns(d)' => d = c
  BY <1>1 DEF Owns
<1>3. ASSUME NEW d \in Captures PROVE Apart(d)'
  BY <1>2 DEF Apart, MadeBy
<1>4. cap'[c].pc = "idle" => ~Owns(c)'
  BY DEF Owns, Working
<1> QED BY <1>2, <1>3, <1>4 DEF Standing, OneOwner

\* Who owns a half is the only one.
LEMMA OwnerIsOnly ==
    ASSUME Standing, NEW c \in Captures, Owns(c)
    PROVE  Underway(c) /\ \A d \in Captures : Owns(d) => d = c
BY DEF Standing, OneOwner

\* A directory with nobody's files but c's, and one more file of c's.
Folder(half, c, d) ==
    /\ d # None
    /\ DOMAIN d \subseteq Names(half)
    /\ d \in Directory(DOMAIN d)
    /\ \A g \in DOMAIN d : d[g].by = c

LEMMA WithFileMakes ==
    ASSUME NEW half \in Halves, NEW c \in Captures, NEW d, Folder(half, c, d),
           NEW f \in Names(half), NEW doc \in Docs
    PROVE  /\ Folder(half, c, WithFile(d, f, doc, c))
           /\ DOMAIN WithFile(d, f, doc, c) = DOMAIN d \cup {f}
<1> DEFINE e == [g \in DOMAIN d \cup {f} |-> IF g = f THEN [doc |-> doc, by |-> c] ELSE d[g]]
<1>1. WithFile(d, f, doc, c) = e
  BY DEF WithFile
<1>2. \A g \in DOMAIN d : d[g] \in [doc : Docs, by : Captures]
  BY DEF Folder, Directory
<1>3. DOMAIN e = DOMAIN d \cup {f} /\ DOMAIN e \subseteq Names(half)
  BY DEF Folder
<1>4. e \in Directory(DOMAIN e)
  BY <1>2 DEF Directory
<1>5. e # None
  <2> HIDE DEF e
  <2> QED BY <1>3, <1>4, NoneAssumption, NamesAre
<1>6. \A g \in DOMAIN e : e[g].by = c
  BY DEF Folder
<1> HIDE DEF e
<1> QED BY <1>1, <1>3, <1>4, <1>5, <1>6 DEF Folder

LEMMA WithFileHolds ==
    ASSUME NEW d, NEW f, NEW doc, NEW c, NEW g \in DOMAIN d \cup {f}
    PROVE  WithFile(d, f, doc, c)[g].doc = IF g = f THEN doc ELSE d[g].doc
BY DEF WithFile

LEMMA EmptyMakes ==
    ASSUME NEW half \in Halves
    PROVE  <<>> \in Directory({}) /\ <<>> # None /\ DOMAIN <<>> = {} /\ Names(half) # {}
<1>1. <<>> \in Directory({}) /\ DOMAIN <<>> = {}
  BY DEF Directory
<1> QED BY <1>1, NoneAssumption, NamesAre DEF Halves

\* The actions of a capture that is not killed.
LEMMA ReadsKeep ==
    ASSUME Shapes, Standing, NEW c \in Captures,
           \/ \E arn \in Arns : Start(c, arn)
           \/ ReadRole(c) \/ ReadAttached(c) \/ ReadInlineAndBoundary(c) \/ ReadFails(c)
    PROVE  Standing'
<1>1. Capture(c) /\ dir' = dir
  BY DEF Capture, Start, ReadRole, ReadAttached, ReadInlineAndBoundary, ReadFails, Known
<1>2. cap' = [cap EXCEPT ![c] = cap'[c]]
  BY <1>1, CaptureLocal
<1>3. ~Owns(c)
  BY DEF Start, ReadRole, ReadAttached, ReadInlineAndBoundary, ReadFails, Owns, Working
<1>4. cap'[c].pc = "idle" \/ cap[c].pc # "idle" \/ dir.tracked = None
  BY DEF Start, ReadRole, ReadAttached, ReadInlineAndBoundary, ReadFails
<1>5. c \in DOMAIN cap /\ CapTyped(cap[c])
  BY DEF Shapes
<1>6. \/ cap'[c].pc \notin Working
      \/ cap'[c].pc = "mkdir" /\ cap'[c].half = "tracked"
  <2>1. CASE \E arn \in Arns : Start(c, arn)
    BY <1>5, <2>1 DEF Start, Idle, Working
  <2>2. CASE ReadRole(c) \/ ReadAttached(c)
    BY <1>5, <2>2 DEF ReadRole, ReadAttached, Got, Working, CapTyped
  <2>3. CASE ReadInlineAndBoundary(c)
    <3>1. CASE cap' = [cap EXCEPT ![c] = Idle]
      BY <1>5, <3>1 DEF Idle, Working
    <3>2. ASSUME NEW all, cap' = [cap EXCEPT ![c].pc = "mkdir", ![c].got = all,
                                             ![c].half = "tracked"]
          PROVE  cap'[c].pc = "mkdir" /\ cap'[c].half = "tracked"
      BY <1>5, <3>2 DEF CapTyped
    <3> QED BY <2>3, <3>1, <3>2 DEF ReadInlineAndBoundary
  <2>4. CASE ReadFails(c)
    BY <1>5, <2>4 DEF ReadFails, Idle, Working
  <2> QED BY <2>1, <2>2, <2>3, <2>4
<1>7. ~Owns(c)'
  BY <1>6 DEF Owns
<1> QED BY <1>1, <1>2, <1>3, <1>4, <1>7, BystanderKeeps

LEMMA MakeDirectoryKeeps ==
    ASSUME Shapes, Standing, NEW c \in Captures, MakeDirectory(c)
    PROVE  Standing'
<1> PICK half : half = cap[c].half
  OBVIOUS
<1>1. Capture(c) /\ cap[c].pc = "mkdir"
  BY DEF Capture, MakeDirectory
<1>2. cap' = [cap EXCEPT ![c] = cap'[c]] /\ dir' = [h \in Halves |-> dir'[h]]
  BY <1>1, CaptureLocal
<1>3. /\ c \in DOMAIN cap /\ CapTyped(cap[c]) /\ half \in Halves
      /\ dir = [h \in Halves |-> dir[h]]
  BY <1>1 DEF Shapes, CapTyped, Working
<1>4. CASE dir[half] # None
  <2>1. dir' = dir
    BY <1>4 DEF MakeDirectory
  <2>a. cap'[c] = [pc |-> "undo", arn |-> cap[c].arn, got |-> cap[c].got, half |-> half,
                   made |-> FALSE]
    BY <1>3, <1>4 DEF MakeDirectory, CapTyped
  <2>2. cap'[c].pc = "undo" /\ ~cap'[c].made /\ cap'[c].half = half
    BY <2>a
  <2>3. half = "tracked"
    <3> SUFFICES ASSUME half = "private" PROVE FALSE
      BY <1>3 DEF Halves
    <3>1. Owns(c)
      BY <1>1 DEF Owns, Working
    <3>2. Underway(c)
      BY <3>1, OwnerIsOnly
    <3> QED BY <1>1, <1>4, <3>2 DEF Underway
  <2>4. ~Owns(c) /\ ~Owns(c)'
    BY <1>1, <2>2, <2>3 DEF Owns
  <2> QED BY <1>1, <1>2, <2>1, <2>4, BystanderKeeps
<1>5. CASE dir[half] = None
  <2>1. dir' = [dir EXCEPT ![half] = <<>>]
    BY <1>5 DEF MakeDirectory
  <2>2. cap'[c] = [pc |-> "write", arn |-> cap[c].arn, got |-> cap[c].got, half |-> half,
                   made |-> TRUE]
    BY <1>3, <1>5 DEF MakeDirectory, CapTyped
  <2>3. DirTyped'
    BY <1>3, <2>1, EmptyMakes DEF Standing, DirTyped, Halves
  <2>4. Owns(c)'
    BY <1>3, <2>2 DEF Owns, Working
  <2>5. Writing(half, c)'
    BY <1>3, <2>1, EmptyMakes DEF Writing, MadeBy
  <2>6. CASE half = "tracked"
    <3>1. \A d \in Captures : ~Owns(d)
      BY <1>5, <2>6, OwnerHasTracked DEF MadeBy
    <3>2. dir.private = None
      BY <1>5, <2>6, <3>1 DEF Standing, Agreed, Complete
    <3>3. Underway(c)'
      BY <1>3, <2>1, <2>2, <2>5, <2>6, <3>2 DEF Underway, Halves
    <3>4. MadeBy("tracked", c)'
      BY <2>5, <2>6 DEF Writing
    <3> QED BY <1>2, <2>3, <2>4, <3>1, <3>3, <3>4, OwnerKeeps
  <2>7. CASE half = "private"
    <3>1. Owns(c)
      BY <1>1, <2>7 DEF Owns, Working
    <3>2. Tracked(c) /\ \A d \in Captures : Owns(d) => d = c
      BY <2>7, <3>1, OwnerIsOnly DEF Underway
    <3>3. dir'.tracked = dir.tracked
      BY <1>3, <2>1, <2>7 DEF Halves
    <3>4. Tracked(c)'
      BY <2>2, <3>2, <3>3 DEF Tracked, MadeBy, Complete, Content
    <3>5. Underway(c)'
      BY <2>2, <2>5, <2>7, <3>4 DEF Underway
    <3>6. MadeBy("tracked", c)'
      BY <3>4 DEF Tracked
    <3> QED BY <1>2, <2>3, <2>4, <3>2, <3>5, <3>6, OwnerKeeps
  <2> QED BY <1>3, <2>6, <2>7 DEF Halves
<1> QED BY <1>4, <1>5

\* What a capture that writes has on disk, and what one file more makes of it.
LEMMA NextFileMakes ==
    ASSUME Shapes, Standing, NEW c \in Captures, cap[c].pc = "write",
           NEW half, half = cap[c].half, NEW doc \in Docs, NEW f, f = NextFile(half),
           dir'[half] = WithFile(dir[half], f, doc, c),
           \A h \in Halves : h # half => dir'[h] = dir[h]
    PROVE  /\ half \in Halves
           /\ Writing(half, c)
           /\ f \in Names(half)
           /\ DOMAIN dir'[half] = DOMAIN dir[half] \cup {f}
           /\ \A g \in DOMAIN dir'[half] :
                dir'[half][g].doc = IF g = f THEN doc ELSE dir[half][g].doc
           /\ MadeBy(half, c)'
           /\ DirTyped'
<1>1. half \in Halves /\ dir = [h \in Halves |-> dir[h]]
  BY DEF Shapes, CapTyped, Working
<1>2. Owns(c)
  BY DEF Owns, Working
<1>3. Writing(half, c)
  BY <1>2, OwnerIsOnly DEF Underway
<1>4. Folder(half, c, dir[half]) /\ DOMAIN dir[half] # Names(half)
  BY <1>1, <1>3 DEF Writing, MadeBy, Standing, DirTyped, Folder
<1>5. f \in Names(half)
  BY <1>1, <1>4, NextIsNew DEF Folder
<1>6. PICK h, g, d, e : h = half /\ g = f /\ d = dir[half] /\ e = dir'[half]
  OBVIOUS
<1>7. Folder(half, c, e) /\ DOMAIN e = DOMAIN dir[half] \cup {f}
  <2>1. h \in Halves /\ Folder(h, c, d) /\ g \in Names(h) /\ e = WithFile(d, g, doc, c)
    BY <1>1, <1>4, <1>5, <1>6
  <2>2. Folder(h, c, e)
    BY <2>1, WithFileMakes
  <2>3. DOMAIN e = DOMAIN d \cup {g}
    BY <2>1, WithFileMakes
  <2> QED BY <1>6, <2>2, <2>3
<1>8. \A x \in DOMAIN e : e[x].doc = IF x = f THEN doc ELSE dir[half][x].doc
  BY <1>6, <1>7, WithFileHolds
<1>9. DirTyped'
  BY <1>6, <1>7 DEF Standing, DirTyped, Folder
<1> QED BY <1>1, <1>3, <1>5, <1>6, <1>7, <1>8, <1>9 DEF MadeBy, Folder

\* The redaction of the private half, once it is written, is what the capture
\* wrote to the tracked one.
LEMMA RedactedArtifacts ==
    ASSUME NEW c \in Captures, cap[c].half = "private"
    PROVE  Redacted(Artifacts(c)) = Redacted(cap[c].got)
<1>1. Artifacts(c) = [g \in {"trust", "attached", "inline", "boundary", "metadata"} |->
                        IF g = "metadata" THEN cap[c].arn ELSE cap[c].got[g]]
  BY NamesAre DEF Artifacts
<1> QED BY <1>1 DEF Redacted

LEMMA WriteFileKeeps ==
    ASSUME Shapes, Standing, NEW c \in Captures, WriteFile(c)
    PROVE  Standing'
<1> PICK half : half = cap[c].half
  OBVIOUS
<1> DEFINE f == NextFile(half)
<1>1. Capture(c) /\ cap[c].pc = "write"
  BY DEF Capture, WriteFile
<1>2. cap' = [cap EXCEPT ![c] = cap'[c]]
  BY <1>1, CaptureLocal
<1>3. c \in DOMAIN cap /\ CapTyped(cap[c]) /\ half \in Halves
  BY <1>1 DEF Shapes, CapTyped, Working
<1>4. dir' = [dir EXCEPT ![half] = WithFile(@, f, Artifacts(c)[f], c)]
  BY DEF WriteFile
<1>5. DOMAIN dir[half] \subseteq Names(half) /\ dir[half] # None /\ DOMAIN dir[half] # Names(half)
  BY <1>1, <1>3, OwnerIsOnly DEF Owns, Underway, Working, Writing, MadeBy, Standing, DirTyped
<1>6. f \in Names(half)
  BY <1>3, <1>5, NextIsNew
<1>7. Artifacts(c)[f] \in Docs
  BY <1>1, <1>3, <1>6, ArtifactsTyped DEF Working
<1>12. /\ dir'[half] = WithFile(dir[half], f, Artifacts(c)[f], c)
       /\ \A h \in Halves : h # half => dir'[h] = dir[h]
  BY <1>3, <1>4 DEF Shapes
<1>8. /\ Writing(half, c) /\ MadeBy(half, c)' /\ DirTyped'
      /\ DOMAIN dir'[half] = DOMAIN dir[half] \cup {f}
      /\ \A g \in DOMAIN dir'[half] : dir'[half][g].doc = Artifacts(c)[g]
      /\ \A h \in Halves : h # half => dir'[h] = dir[h]
  <2>1. PICK g, doc : g = f /\ doc = Artifacts(c)[f]
    OBVIOUS
  <2>2. dir'[half] = WithFile(dir[half], g, doc, c) /\ doc \in Docs /\ g = NextFile(half)
    BY <1>7, <1>12, <2>1
  <2> HIDE DEF f
  <2>3. /\ Writing(half, c) /\ MadeBy(half, c)' /\ DirTyped'
        /\ DOMAIN dir'[half] = DOMAIN dir[half] \cup {g}
        /\ \A h \in DOMAIN dir'[half] :
             dir'[half][h].doc = IF h = g THEN doc ELSE dir[half][h].doc
    <3>1. Writing(half, c)
      BY <1>1, <1>12, <2>2, NextFileMakes
    <3>2. MadeBy(half, c)'
      BY <1>1, <1>12, <2>2, NextFileMakes
    <3>3. DirTyped'
      BY <1>1, <1>12, <2>2, NextFileMakes
    <3>4. DOMAIN dir'[half] = DOMAIN dir[half] \cup {g}
      BY <2>2 DEF WithFile
    <3>5. \A h \in DOMAIN dir'[half] :
             dir'[half][h].doc = IF h = g THEN doc ELSE dir[half][h].doc
      BY <1>1, <1>12, <2>2, NextFileMakes
    <3> QED BY <3>1, <3>2, <3>3, <3>4, <3>5
  <2> QED BY <1>12, <2>1, <2>3 DEF Writing
<1>9. Owns(c) /\ Underway(c) /\ \A d \in Captures : Owns(d) => d = c
  BY <1>1, OwnerIsOnly DEF Owns, Working
<1>10. CASE ~(Names(half) \subseteq DOMAIN dir'[half])
  <2>1. cap'[c] = cap[c]
    BY <1>3, <1>10 DEF WriteFile
  <2>2. Owns(c)' /\ Artifacts(c)' = Artifacts(c)
    BY <1>9, <2>1 DEF Owns, Artifacts
  <2>3. Writing(half, c)'
    BY <1>8, <1>10, <2>2 DEF Writing
  <2>4. CASE half = "tracked"
    <3>1. Underway(c)'
      BY <1>1, <1>8, <1>9, <2>1, <2>3, <2>4 DEF Underway, Halves
    <3> QED BY <1>2, <1>8, <1>9, <2>2, <2>4, <3>1, OwnerKeeps
  <2>5. CASE half = "private"
    <3>1. dir'.tracked = dir.tracked /\ Tracked(c)
      BY <1>8, <1>9, <2>5 DEF Underway, Halves
    <3>2. Tracked(c)'
      BY <2>1, <3>1 DEF Tracked, MadeBy, Complete, Content
    <3>3. Underway(c)' /\ MadeBy("tracked", c)'
      BY <1>1, <2>1, <2>3, <2>5, <3>2 DEF Underway, Tracked
    <3> QED BY <1>2, <1>8, <1>9, <2>2, <3>3, OwnerKeeps
  <2> QED BY <1>3, <2>4, <2>5 DEF Halves
<1>11. CASE Names(half) \subseteq DOMAIN dir'[half]
  <2>1. DOMAIN dir'[half] = Names(half)
    BY <1>5, <1>6, <1>8, <1>11
  <2>2. Complete(half)'
    BY <1>8, <2>1 DEF Complete, MadeBy
  <2>3. Content(half)' = [g \in Names(half) |-> Artifacts(c)[g]]
    BY <1>8, <2>1 DEF Content
  <2>4. CASE half = "tracked"
    <3>1. cap'[c] = [pc |-> "mkdir", arn |-> cap[c].arn, got |-> cap[c].got,
                     half |-> "private", made |-> cap[c].made]
      BY <1>3, <1>11, <2>4 DEF WriteFile, CapTyped
    <3>2. Artifacts(c) = Redacted(cap[c].got)
      BY <2>4 DEF Artifacts
    <3>3. Content("tracked")' = Redacted(cap'[c].got)
      BY <2>3, <2>4, <3>1, <3>2, NamesAre DEF Redacted
    <3>4. Tracked(c)'
      BY <1>8, <2>2, <2>4, <3>3 DEF Tracked
    <3>5. dir'.private = None
      BY <1>8, <1>9, <2>4 DEF Underway, Halves
    <3>6. Owns(c)' /\ Underway(c)' /\ MadeBy("tracked", c)'
      BY <3>1, <3>4, <3>5 DEF Owns, Underway, Working, Tracked
    <3> QED BY <1>2, <1>8, <1>9, <3>6, OwnerKeeps
  <2>5. CASE half = "private"
    <3>1. cap'[c].pc = "idle"
      BY <1>3, <1>11, <2>5 DEF WriteFile, Idle
    <3>2. dir'.tracked = dir.tracked /\ Tracked(c)
      BY <1>8, <1>9, <2>5 DEF Underway, Halves
    <3>3. Complete("tracked")' /\ MadeBy("tracked", c)'
      BY <3>2 DEF Tracked, MadeBy, Complete
    <3>4. Content("tracked")' = Redacted(cap[c].got)
      BY <3>2 DEF Tracked, Content
    <3>5. Content("private")' = Artifacts(c)
      BY <2>3, <2>5 DEF Artifacts
    <3>6. Agreed'
      BY <1>8, <2>2, <2>5, <3>3, <3>4, <3>5, RedactedArtifacts DEF Agreed
    <3> QED BY <1>2, <1>8, <1>9, <3>1, <3>3, <3>6, OwnerKeeps
  <2> QED BY <1>3, <2>4, <2>5 DEF Halves
<1> QED BY <1>10, <1>11

\* A failing write leaves what was there, or one unfinished file more.
LEMMA WriteFailsKeeps ==
    ASSUME Shapes, Standing, NEW c \in Captures, WriteFails(c)
    PROVE  Standing'
<1> PICK half : half = cap[c].half
  OBVIOUS
<1>1. Capture(c) /\ cap[c].pc \in {"mkdir", "write"}
  BY DEF Capture, WriteFails
<1>2. cap' = [cap EXCEPT ![c] = cap'[c]]
  BY <1>1, CaptureLocal
<1>3. c \in DOMAIN cap /\ CapTyped(cap[c]) /\ half \in Halves
  BY <1>1 DEF Shapes, CapTyped, Working
<1>4. /\ cap'[c].pc = "undo" /\ cap'[c].arn = cap[c].arn /\ cap'[c].got = cap[c].got
      /\ cap'[c].half = half
      /\ cap[c].pc = "write" => cap'[c].made
      /\ cap[c].pc = "mkdir" => ~cap'[c].made
  <2>1. PICK made : made = (cap[c].pc = "write")
    OBVIOUS
  <2>2. cap' = [cap EXCEPT ![c].pc = "undo", ![c].made = made]
    BY <2>1 DEF WriteFails
  <2>3. cap'[c] = [pc |-> "undo", arn |-> cap[c].arn, got |-> cap[c].got, half |-> half,
                   made |-> made]
    BY <1>3, <2>2 DEF CapTyped
  <2>4. cap'[c].made = made
    BY <2>3
  <2>5. /\ cap[c].pc = "write" => cap'[c].made
        /\ cap[c].pc = "mkdir" => ~cap'[c].made
    <3>1. cap[c].pc = "mkdir" => cap[c].pc # "write"
      OBVIOUS
    <3>2. cap'[c].made = (cap[c].pc = "write")
      BY <2>1, <2>4, Zenon
    <3> QED BY <3>1, <3>2, Zenon
  <2> QED BY <2>3, <2>5
<1>5. CASE cap[c].pc = "mkdir" /\ half = "tracked"
  <2>1. dir' = dir
    BY <1>5 DEF WriteFails, Interrupted
  <2>2. ~Owns(c) /\ ~Owns(c)'
    BY <1>4, <1>5 DEF Owns
  <2> QED BY <1>1, <1>2, <2>1, <2>2, BystanderKeeps
<1>6. CASE cap[c].pc = "mkdir" /\ half = "private"
  <2>1. dir' = dir
    BY <1>6 DEF WriteFails, Interrupted
  <2>2. Owns(c) /\ Owns(c)'
    BY <1>4, <1>6 DEF Owns, Working
  <2>3. Underway(c) /\ \A d \in Captures : Owns(d) => d = c
    BY <2>2, OwnerIsOnly
  <2>4. Tracked(c)'
    BY <1>4, <1>6, <2>1, <2>3 DEF Underway, Tracked, MadeBy, Complete, Content
  <2>5. Underway(c)' /\ MadeBy("tracked", c)'
    BY <1>4, <1>6, <2>1, <2>3, <2>4 DEF Underway, Tracked
  <2>6. DirTyped'
    BY <2>1 DEF Standing, DirTyped
  <2> QED BY <1>2, <2>2, <2>3, <2>5, <2>6, OwnerKeeps
<1>7. CASE cap[c].pc = "write"
  <2>1. Owns(c) /\ Owns(c)'
    BY <1>4, <1>7 DEF Owns, Working
  <2>2. Underway(c) /\ \A d \in Captures : Owns(d) => d = c
    BY <2>1, OwnerIsOnly
  <2>3. MadeBy(half, c)' /\ DirTyped' /\ \A h \in Halves : h # half => dir'[h] = dir[h]
    <3>1. CASE dir' = dir
      BY <1>7, <2>2, <3>1 DEF Underway, Writing, MadeBy, Standing, DirTyped
    <3>2. CASE dir' = [dir EXCEPT ![half] = WithFile(@, NextFile(half), None, c)]
      <4>1. PICK f, doc : f = NextFile(half) /\ doc = None
        OBVIOUS
      <4>2. /\ dir'[half] = WithFile(dir[half], f, doc, c)
            /\ doc \in Docs
            /\ \A h \in Halves : h # half => dir'[h] = dir[h]
        BY <1>3, <3>2, <4>1 DEF Docs, Shapes
      <4>3. MadeBy(half, c)'
        BY <1>7, <4>1, <4>2, NextFileMakes
      <4>4. DirTyped'
        BY <1>7, <4>1, <4>2, NextFileMakes
      <4> QED BY <4>2, <4>3, <4>4
    <3> QED BY <3>1, <3>2 DEF WriteFails, Interrupted
  <2>4. CASE half = "tracked"
    <3>1. Underway(c)'
      BY <1>4, <1>7, <2>2, <2>3, <2>4 DEF Underway, Halves
    <3> QED BY <1>2, <2>1, <2>2, <2>3, <2>4, <3>1, OwnerKeeps
  <2>5. CASE half = "private"
    <3>1. dir'.tracked = dir.tracked /\ Tracked(c)
      BY <2>2, <2>3, <2>5 DEF Underway, Halves
    <3>2. Tracked(c)'
      BY <1>4, <3>1 DEF Tracked, MadeBy, Complete, Content
    <3>3. Underway(c)' /\ MadeBy("tracked", c)'
      BY <1>4, <1>7, <2>3, <2>5, <3>2 DEF Underway, Tracked
    <3> QED BY <1>2, <2>1, <2>2, <2>3, <3>3, OwnerKeeps
  <2> QED BY <1>3, <2>4, <2>5 DEF Halves
<1> QED BY <1>1, <1>3, <1>5, <1>6, <1>7 DEF Halves

\* Cleaning up takes away what the capture made, and nothing else.
LEMMA UndoKeeps ==
    ASSUME Shapes, Standing, NEW c \in Captures, Undo(c)
    PROVE  Standing'
<1> PICK half : half = cap[c].half
  OBVIOUS
<1>1. Capture(c) /\ cap[c].pc = "undo"
  BY DEF Capture, Undo
<1>2. cap' = [cap EXCEPT ![c] = cap'[c]] /\ dir' = [h \in Halves |-> dir'[h]]
  BY <1>1, CaptureLocal
<1>3. /\ c \in DOMAIN cap /\ CapTyped(cap[c]) /\ half \in Halves
      /\ dir = [h \in Halves |-> dir[h]]
  BY <1>1 DEF Shapes, CapTyped, Working
<1>4. dir' = [dir EXCEPT ![half] = IF @ = None THEN None ELSE Undone(@, c)]
  BY DEF Undo
<1>5. CASE ~Owns(c)
  <2>1. half = "tracked" /\ ~cap[c].made
    BY <1>1, <1>3, <1>5 DEF Owns, Working, Halves
  <2>2. cap'[c].pc = "idle"
    BY <1>3, <2>1 DEF Undo, Idle
  <2>3. ~Owns(c)'
    BY <2>2 DEF Owns, Working
  <2>4. ASSUME dir.tracked # None PROVE Undone(dir.tracked, c) = dir.tracked
    <3>1. \A f \in DOMAIN dir.tracked : dir.tracked[f].by # c
      BY <1>1, <1>5, <2>4 DEF Standing, Apart
    <3>2. dir.tracked = [f \in DOMAIN dir.tracked |-> dir.tracked[f]]
      BY <2>4 DEF Standing, DirTyped, Halves, Directory
    <3>3. PICK d : d = dir.tracked
      OBVIOUS
    <3>4. {f \in DOMAIN d : d[f].by # c} = DOMAIN d
      BY <3>1, <3>3
    <3> QED BY <2>1, <3>2, <3>3, <3>4 DEF Undone
  <2>5. dir' = dir
    BY <1>3, <1>4, <2>1, <2>4
  <2> QED BY <1>1, <1>2, <1>5, <2>2, <2>3, <2>5, BystanderKeeps
<1>6. CASE Owns(c)
  <2>1. Underway(c) /\ \A d \in Captures : Owns(d) => d = c
    BY <1>6, OwnerIsOnly
  <2>2. dir'[half] = None /\ \A h \in Halves : h # half => dir'[h] = dir[h]
    <3>1. CASE dir[half] = None
      BY <1>3, <1>4, <3>1
    <3>2. CASE dir[half] # None
      <4>1. cap[c].made /\ MadeBy(half, c)
        BY <1>1, <2>1, <3>2 DEF Underway
      <4>2. Undone(dir[half], c) = None
        BY <4>1 DEF Undone, MadeBy
      <4> QED BY <1>3, <1>4, <4>2
    <3> QED BY <3>1, <3>2
  <2>3. DirTyped'
    BY <2>2 DEF Standing, DirTyped
  <2>4. CASE half = "tracked"
    <3>1. cap'[c].pc = "idle"
      BY <1>3, <2>4 DEF Undo, Idle
    <3>2. dir'.tracked = None /\ dir'.private = None
      BY <2>1, <2>2, <2>4 DEF Underway, Halves
    <3>3. Agreed'
      BY <3>2 DEF Agreed
    <3> QED BY <1>2, <2>1, <2>3, <3>1, <3>2, <3>3, OwnerKeeps
  <2>5. CASE half = "private"
    <3>1. cap'[c] = [pc |-> "rollback", arn |-> cap[c].arn, got |-> cap[c].got,
                     half |-> "private", made |-> cap[c].made]
      BY <1>3, <2>5 DEF Undo, CapTyped
    <3>2. dir'.tracked = dir.tracked /\ dir'.private = None /\ Tracked(c)
      BY <2>1, <2>2, <2>5 DEF Underway, Halves
    <3>3. Tracked(c)'
      BY <3>1, <3>2 DEF Tracked, MadeBy, Complete, Content
    <3>4. Owns(c)' /\ Underway(c)' /\ MadeBy("tracked", c)'
      BY <3>1, <3>2, <3>3 DEF Owns, Working, Underway, Tracked
    <3> QED BY <1>2, <2>1, <2>3, <3>4, OwnerKeeps
  <2> QED BY <1>3, <2>4, <2>5 DEF Halves
<1> QED BY <1>5, <1>6

\* The rollback of a capture finds the tracked half as the capture left it.
LEMMA RollbackKeeps ==
    ASSUME Shapes, Standing, NEW c \in Captures, Rollback(c)
    PROVE  Standing'
<1>1. Capture(c) /\ cap[c].pc = "rollback"
  BY DEF Capture, Rollback
<1>2. cap' = [cap EXCEPT ![c] = cap'[c]] /\ cap'[c].pc = "idle"
  BY <1>1, CaptureLocal DEF Rollback, Shapes, Idle
<1>3. cap[c].half = "private" /\ dir = [h \in Halves |-> dir[h]]
  BY <1>1 DEF Shapes, CapTyped
<1>4. Owns(c)
  BY <1>1, <1>3 DEF Owns, Working
<1>5. Underway(c) /\ \A d \in Captures : Owns(d) => d = c
  BY <1>4, OwnerIsOnly
<1>6. Tracked(c) /\ dir.private = None
  BY <1>1, <1>3, <1>5 DEF Underway
<1>7. RolledBack(c) = None
  BY <1>6 DEF RolledBack, Tracked
<1>8. dir'.tracked = None /\ dir'.private = None
  BY <1>3, <1>6, <1>7 DEF Rollback, Halves
<1>9. Agreed' /\ DirTyped'
  BY <1>8 DEF Agreed, DirTyped, Halves
<1> QED BY <1>2, <1>5, <1>8, <1>9, OwnerKeeps

\* A capture that is killed before it writes leaves nothing behind; afterwards
\* the evidence counts as damaged.
LEMMA DieKeeps ==
    ASSUME Shapes, Standing, NEW c \in Captures, Die(c), ~damaged'
    PROVE  Standing'
<1>1. Capture(c) /\ cap[c].half = None
  BY DEF Capture, Die
<1>2. cap[c].pc \notin Working
  BY <1>1, NoneAssumption, NamesAre DEF Shapes, CapTyped
<1>3. cap' = [cap EXCEPT ![c] = cap'[c]] /\ cap'[c].pc = "idle"
  BY <1>1, CaptureLocal DEF Die, Shapes, Idle
<1>4. dir' = dir
  BY <1>2 DEF Die, Interrupted, Working
<1>5. ~Owns(c) /\ ~Owns(c)'
  BY <1>2, <1>3 DEF Owns, Working
<1> QED BY <1>3, <1>4, <1>5, BystanderKeeps

\* Every step keeps the shapes.
LEMMA ShapesKept == Shapes /\ [Next]_vars => Shapes'
<1> SUFFICES ASSUME Shapes, [Next]_vars PROVE Shapes'
  OBVIOUS
<1>1. ASSUME NEW c \in Captures, Capture(c) PROVE Shapes'
  <2>1. /\ cap' = [cap EXCEPT ![c] = cap'[c]] /\ role' = role
        /\ dir' = [half \in Halves |-> dir'[half]]
    BY <1>1, CaptureLocal
  <2>2. CapTyped(cap'[c])
    BY <1>1, CaptureTyped
  <2> QED BY <2>1, <2>2 DEF Shapes
<1>2. CASE UNCHANGED <<role, dir, cap>>
  BY <1>2 DEF Shapes
<1>3. CASE Record
  BY <1>2, <1>3 DEF Record, Verify, ReadManifest, WriteManifest, Judge, RecorderDies, Disk
<1>4. ASSUME NEW arn \in Arns, ChangeRole(arn) PROVE Shapes'
  BY <1>4 DEF ChangeRole, Shapes, Roles
<1>5. ASSUME NEW f \in Names("tracked"), EditProjection(f) PROVE Shapes'
  BY <1>5 DEF EditProjection, Shapes
<1>6. CASE RemoveEvidence
  BY <1>6 DEF RemoveEvidence, Shapes
<1>7. CASE RestoreManifest \/ UNCHANGED vars
  BY <1>2, <1>7 DEF RestoreManifest, Disk, vars
<1> QED BY <1>1, <1>3, <1>4, <1>5, <1>6, <1>7 DEF Next

\* As long as nothing is damaged, what stands stays standing.
LEMMA StandingKept == HInv /\ [Next]_vars /\ ~damaged' => Standing'
<1> SUFFICES ASSUME HInv, [Next]_vars, ~damaged' PROVE Standing'
  OBVIOUS
<1>1. CASE RemoveEvidence
  <2>1. \A half \in Halves : dir'[half] = None
    BY <1>1 DEF RemoveEvidence, HInv, Shapes
  <2>2. \A c \in Captures : cap'[c].pc = "idle"
    BY <1>1 DEF RemoveEvidence
  <2>3. \A c \in Captures : ~Owns(c)'
    BY <2>2 DEF Owns, Working
  <2> QED BY <2>1, <2>2, <2>3 DEF Standing, DirTyped, OneOwner, Apart, Agreed, Halves
<1>2. ASSUME NEW c \in Captures, Capture(c) PROVE Standing'
  <2>1. ~damaged
    BY <1>2 DEF Capture, Start, ReadRole, ReadAttached, ReadInlineAndBoundary, ReadFails,
                MakeDirectory, WriteFile, WriteFails, Undo, Rollback, Die
  <2>2. Shapes /\ Standing
    BY <2>1 DEF HInv
  <2> QED BY <1>2, <2>2, ReadsKeep, MakeDirectoryKeeps, WriteFileKeeps, WriteFailsKeeps,
             UndoKeeps, RollbackKeeps, DieKeeps DEF Capture
<1>3. CASE UNCHANGED <<dir, cap, damaged>>
  <2>1. Standing
    BY <1>3 DEF HInv
  <2>2. \A c \in Captures : Owns(c)' = Owns(c) /\ Apart(c)' = Apart(c)
    BY <1>3 DEF Owns, Apart
  <2>3. Agreed' = Agreed /\ DirTyped' = DirTyped
    BY <1>3 DEF Agreed, Complete, Content, MadeBy, DirTyped
  <2>4. ASSUME NEW c \in Captures, Underway(c) PROVE Underway(c)'
    <3>1. \A half : Writing(half, c)' = Writing(half, c) /\ MadeBy(half, c)' = MadeBy(half, c)
      BY <1>3 DEF Writing, MadeBy, Artifacts
    <3>2. Tracked(c)' = Tracked(c)
      BY <1>3 DEF Tracked, MadeBy, Complete, Content
    <3> QED BY <1>3, <2>4, <3>1, <3>2 DEF Underway
  <2> QED BY <2>1, <2>2, <2>3, <2>4 DEF Standing, OneOwner
<1>4. CASE Record
  BY <1>3, <1>4 DEF Record, Verify, ReadManifest, WriteManifest, Judge, RecorderDies, Disk
<1>5. ASSUME NEW arn \in Arns, ChangeRole(arn) PROVE Standing'
  BY <1>3, <1>5 DEF ChangeRole
<1>6. ASSUME NEW f \in Names("tracked"), EditProjection(f) PROVE Standing'
  BY <1>6 DEF EditProjection
<1>7. CASE RestoreManifest \/ UNCHANGED vars
  BY <1>3, <1>7 DEF RestoreManifest, Disk, vars
<1> QED BY <1>1, <1>2, <1>4, <1>5, <1>6, <1>7 DEF Next

LEMMA HInvInitially == Init => HInv
<1> SUFFICES ASSUME Init PROVE HInv
  OBVIOUS
<1>1. \A c \in Captures : CapTyped(cap[c])
  BY DEF Init, Idle, CapTyped, Working
<1>2. Shapes
  BY <1>1 DEF Init, Shapes, Halves
<1>3. \A c \in Captures : cap[c].pc = "idle"
  BY DEF Init, Idle
<1>4. \A c \in Captures : ~Owns(c)
  BY <1>3 DEF Owns, Working
<1>5. Standing
  BY <1>3, <1>4 DEF Init, Standing, DirTyped, OneOwner, Apart, Agreed, Halves
<1> QED BY <1>2, <1>5 DEF HInv

\* When no capture runs, the two halves are both missing, or complete and one the
\* redaction of the other, by one and the same capture, for any number of
\* captures and failures: what _write_artifacts and the rollback clean up after
\* a failure at any file, and what they leave to the capture that was faster.
THEOREM HalvesAlwaysAgree == Spec => []HalvesAgree
<1>1. HInv => HalvesAgree
  <2> SUFFICES ASSUME HInv, \A c \in Captures : cap[c].pc = "idle", ~damaged
               PROVE  \/ dir.tracked = None /\ dir.private = None
                      \/ /\ Complete("tracked") /\ Complete("private")
                         /\ Content("tracked") = Redacted(Content("private"))
                         /\ \E c \in Captures : \A half \in DOMAIN dir :
                              \A f \in Names(half) : dir[half][f].by = c
    BY DEF HalvesAgree
  <2>1. \A c \in Captures : ~Owns(c)
    BY DEF Owns, Working
  <2>2. Agreed /\ DOMAIN dir = Halves
    BY <2>1 DEF HInv, Standing, Shapes
  <2> QED BY <2>2 DEF Agreed, MadeBy, Complete, Halves
<1>2. HInv /\ [Next]_vars => HInv'
  BY ShapesKept, StandingKept DEF HInv
<1> QED BY <1>1, <1>2, HInvInitially, PTL DEF Spec

====
