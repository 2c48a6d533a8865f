---- MODULE Remediation_proofs ----
(***************************************************************************)
(* Proofs about Remediation.                                               *)
(***************************************************************************)
EXTENDS Remediation, WellFoundedInduction, TLAPS

----
(* Plans applied to trees *)

\* A set of numbers has a least one.
LEMMA SetMinimum ==
    ASSUME NEW S, S \subseteq Nat, S # {}
    PROVE  \E n \in S : \A m \in S : ~(m < n)
<1>1. \E n \in S : \A m \in S : ~(<<m, n>> \in OpToRel(<, Nat))
  BY WFMin, NatLessThanWellFounded
<1> QED
  BY <1>1 DEF OpToRel

\* Induction over the natural numbers, with a set in the place of a predicate.
LEMMA SetInduction ==
    ASSUME NEW S, 0 \in S, \A n \in Nat : n \in S => n + 1 \in S
    PROVE  Nat \subseteq S
<1> DEFINE Missing == Nat \ S
<1> SUFFICES ASSUME Missing # {} PROVE FALSE
  OBVIOUS
<1>1. PICK n \in Missing : \A m \in Missing : ~(m < n)
  BY SetMinimum
<1>2. n # 0 /\ n - 1 \in Nat /\ n - 1 < n
  BY SMT
<1>3. n - 1 \in S
  BY <1>1, <1>2
<1>4. (n - 1) + 1 \in S
  BY <1>2, <1>3
<1> QED
  BY <1>4

\* A plan has a tree after each of its operations: the recursive definition of
\* Stages is one of a function.
LEMMA StagesDefined ==
    ASSUME NEW tree, NEW ops, Len(ops) \in Nat
    PROVE  Stages(tree, ops) =
             [i \in 0..Len(ops) |->
                IF i = 0 THEN tree ELSE Applied(Stages(tree, ops)[i - 1], ops[i])]
<1> DEFINE Body(s, n) ==
      [i \in 0..n |-> IF i = 0 THEN tree ELSE Applied(s[i - 1], ops[i])]
           Found == {n \in Nat : \E s : s = Body(s, n)}
<1>1. \E s : s = Body(s, 0)
  <2>1. Body(<<>>, 0) = Body(Body(<<>>, 0), 0)
    OBVIOUS
  <2> QED
    BY <2>1
<1>2. ASSUME NEW n \in Nat, NEW s, s = Body(s, n)
      PROVE  \E u : u = Body(u, n + 1)
  <2>1. PICK u : u = [i \in 0..(n + 1) |->
                        IF i <= n THEN s[i] ELSE Applied(s[n], ops[n + 1])]
    OBVIOUS
  <2>2. \A i \in 0..n : s[i] = IF i = 0 THEN tree ELSE Applied(s[i - 1], ops[i])
    BY <1>2
  <2>3. ASSUME NEW i \in 0..(n + 1)
        PROVE  u[i] = IF i = 0 THEN tree ELSE Applied(u[i - 1], ops[i])
    <3>1. CASE i = 0
      BY <2>1, <2>2, <3>1
    <3>2. CASE i # 0 /\ i <= n
      <4>1. u[i] = s[i] /\ u[i - 1] = s[i - 1]
        BY <2>1, <3>2
      <4> QED
        BY <4>1, <2>2, <3>2
    <3>3. CASE i = n + 1
      BY <2>1, <3>3
    <3> QED
      BY <3>1, <3>2, <3>3
  <2>4. u = [i \in 0..(n + 1) |-> u[i]]
    BY <2>1
  <2>5. u = Body(u, n + 1)
    BY <2>3, <2>4
  <2> QED
    BY <2>5
<1>3. Nat \subseteq Found
  <2>1. 0 \in Found
    BY <1>1
  <2>2. \A n \in Nat : n \in Found => n + 1 \in Found
    <3> HIDE DEF Body
    <3> QED
      BY <1>2
  <2> HIDE DEF Found
  <2> QED
    BY <2>1, <2>2, SetInduction
<1>4. PICK s : s = Body(s, Len(ops))
  BY <1>3
<1>5. Stages(tree, ops) = Body(Stages(tree, ops), Len(ops))
  BY <1>4 DEF Stages
<1> QED
  BY <1>5

LEMMA FirstStage ==
    ASSUME NEW tree, NEW ops \in Seq(Operations)
    PROVE  /\ Len(ops) \in Nat
           /\ Stages(tree, ops)[0] = tree
<1>1. Len(ops) \in Nat
  OBVIOUS
<1>2. 0 \in 0..Len(ops)
  BY <1>1
<1> QED
  BY <1>1, <1>2, StagesDefined

LEMMA NextStage ==
    ASSUME NEW tree, NEW ops \in Seq(Operations), NEW n \in Nat, n + 1 <= Len(ops)
    PROVE  /\ Stages(tree, ops)[n + 1] = Applied(Stages(tree, ops)[n], ops[n + 1])
           /\ ops[n + 1] \in Operations
           /\ ops[n + 1].path \in Paths(ops)
<1>1. Len(ops) \in Nat /\ n + 1 \in 0..Len(ops) /\ n + 1 # 0 /\ (n + 1) - 1 = n
  OBVIOUS
<1>2. Stages(tree, ops)[n + 1] = Applied(Stages(tree, ops)[(n + 1) - 1], ops[n + 1])
  BY <1>1, StagesDefined
<1>3. n + 1 \in DOMAIN ops /\ ops[n + 1] \in Operations
  BY <1>1
<1> QED
  BY <1>1, <1>2, <1>3 DEF Paths

\* An edit keeps a content a content.
LEMMA ReplacedTyped ==
    ASSUME NEW content \in Seq(Fragment), NEW op \in Operations
    PROVE  Replaced(content, op) \in Seq(Fragment)
<1>1. op.after \in Fragment /\ DOMAIN content = 1..Len(content) /\ Len(content) \in Nat
  BY DEF Operations
<1>2. \A i \in 1..Len(content) : content[i] \in Fragment
  OBVIOUS
<1>3. Replaced(content, op) \in [1..Len(content) -> Fragment]
  BY <1>1, <1>2 DEF Replaced
<1> QED
  BY <1>1, <1>3

\* Edits keep the files and touch only those the plan names.
LEMMA StagesTyped ==
    ASSUME NEW D, NEW tree \in [D -> Seq(Fragment)], NEW ops \in Seq(Operations)
    PROVE  \A i \in 0..Len(ops) :
             /\ Stages(tree, ops)[i] \in [D -> Seq(Fragment)]
             /\ \A f \in D \ Paths(ops) : Stages(tree, ops)[i][f] = tree[f]
<1> DEFINE S(i) == Stages(tree, ops)[i]
           Holds(i) == /\ S(i) \in [D -> Seq(Fragment)]
                       /\ \A f \in D \ Paths(ops) : S(i)[f] = tree[f]
           Good == {i \in Nat : i <= Len(ops) => Holds(i)}
<1>1. Len(ops) \in Nat
  OBVIOUS
<1>2. Holds(0)
  BY FirstStage
<1>3. ASSUME NEW n \in Nat, n + 1 <= Len(ops), Holds(n)
      PROVE  Holds(n + 1)
  <2>1. PICK op : op = ops[n + 1]
    OBVIOUS
  <2>2. S(n + 1) = Applied(S(n), op) /\ op \in Operations /\ op.path \in Paths(ops)
    BY <1>3, <2>1, NextStage
  <2>3. op.path \in Files
    BY <2>2 DEF Operations
  <2>4. op.path \in D => Replaced(S(n)[op.path], op) \in Seq(Fragment)
    BY <1>3, <2>2, ReplacedTyped
  <2> HIDE DEF S
  <2>5. S(n + 1) \in [D -> Seq(Fragment)]
    BY <1>3, <2>2, <2>4 DEF Applied
  <2>6. ASSUME NEW f \in D \ Paths(ops) PROVE S(n + 1)[f] = tree[f]
    BY <1>3, <2>2 DEF Applied
  <2> QED
    BY <2>5, <2>6
<1>4. Nat \subseteq Good
  <2>1. 0 \in Good
    BY <1>2
  <2>2. \A n \in Nat : n \in Good => n + 1 \in Good
    <3> HIDE DEF Holds
    <3> QED
      BY <1>1, <1>3
  <2> HIDE DEF Good
  <2> QED
    BY <2>1, <2>2, SetInduction
<1> QED
  BY <1>1, <1>4

IsTree(tree) == tree \in [DOMAIN tree -> Seq(Fragment)]

\* What an edit makes of a file depends on that file alone.
LEMMA StagesLocal ==
    ASSUME NEW t, NEW s, IsTree(t), IsTree(s), NEW f \in DOMAIN t, f \in DOMAIN s, t[f] = s[f],
           NEW ops \in Seq(Operations)
    PROVE  \A i \in 0..Len(ops) : Stages(t, ops)[i][f] = Stages(s, ops)[i][f]
<1> DEFINE D == DOMAIN t
           E == DOMAIN s
<1>t. t \in [D -> Seq(Fragment)] /\ s \in [E -> Seq(Fragment)]
  BY DEF IsTree
<1> DEFINE T(i) == Stages(t, ops)[i]
           S(i) == Stages(s, ops)[i]
           Good == {i \in Nat : i <= Len(ops) => T(i)[f] = S(i)[f]}
<1>1. Len(ops) \in Nat
  OBVIOUS
<1>2. T(0)[f] = S(0)[f]
  BY FirstStage
<1>3. ASSUME NEW n \in Nat, n + 1 <= Len(ops), T(n)[f] = S(n)[f]
      PROVE  T(n + 1)[f] = S(n + 1)[f]
  <2>1. PICK op : op = ops[n + 1]
    OBVIOUS
  <2>2. T(n + 1) = Applied(T(n), op) /\ S(n + 1) = Applied(S(n), op)
    BY <1>3, <2>1, NextStage
  <2>3. n \in 0..Len(ops)
    BY <1>1, <1>3
  <2>4. T(n) \in [D -> Seq(Fragment)] /\ S(n) \in [E -> Seq(Fragment)]
    BY <1>t, <2>3, StagesTyped
  <2> HIDE DEF T, S
  <2>5. T(n + 1)[f] = IF f = op.path THEN Replaced(T(n)[f], op) ELSE T(n)[f]
    BY <2>2, <2>4 DEF Applied
  <2>6. S(n + 1)[f] = IF f = op.path THEN Replaced(S(n)[f], op) ELSE S(n)[f]
    BY <2>2, <2>4 DEF Applied
  <2> QED
    BY <1>3, <2>5, <2>6
<1>4. Nat \subseteq Good
  <2>1. 0 \in Good
    BY <1>2
  <2>2. \A n \in Nat : n \in Good => n + 1 \in Good
    <3> HIDE DEF T, S
    <3> QED
      BY <1>1, <1>3
  <2> HIDE DEF Good
  <2> QED
    BY <2>1, <2>2, SetInduction
<1> QED
  BY <1>1, <1>4

\* So does the change that a preview shows of it.
LEMMA ChangeOfFile ==
    ASSUME NEW t, NEW s, IsTree(t), IsTree(s), NEW ops \in Seq(Operations),
           NEW f \in Paths(ops), f \in DOMAIN t, f \in DOMAIN s, t[f] = s[f]
    PROVE  Changes(t, ops)[f] = Changes(s, ops)[f]
<1>1. Len(ops) \in 0..Len(ops)
  OBVIOUS
<1>2. \A i \in 0..Len(ops) : Stages(t, ops)[i][f] = Stages(s, ops)[i][f]
  BY StagesLocal
<1>3. Edited(t, ops)[f] = Edited(s, ops)[f]
  BY <1>1, <1>2 DEF Edited
<1> QED
  BY <1>3 DEF Changes

LEMMA PathsAreFiles ==
    ASSUME NEW ops \in Seq(Operations)
    PROVE  Paths(ops) \subseteq Files
<1>1. \A i \in DOMAIN ops : ops[i] \in Operations
  OBVIOUS
<1> QED
  BY <1>1 DEF Paths, Operations

\* The edited tree is the tree with the changes the preview shows.
LEMMA EditedIsRewritten ==
    ASSUME NEW D, NEW tree \in [D -> Seq(Fragment)], NEW ops \in Seq(Operations)
    PROVE  /\ Edited(tree, ops) \in [D -> Seq(Fragment)]
           /\ Edited(tree, ops) = Rewritten(tree, Changes(tree, ops))
<1>1. Len(ops) \in 0..Len(ops)
  OBVIOUS
<1>2. Edited(tree, ops) \in [D -> Seq(Fragment)]
  BY <1>1, StagesTyped DEF Edited
<1>3. \A f \in D \ Paths(ops) : Edited(tree, ops)[f] = tree[f]
  BY <1>1, StagesTyped DEF Edited
<1>4. \A f \in D : Edited(tree, ops)[f] = Rewritten(tree, Changes(tree, ops))[f]
  BY <1>3 DEF Changes, Rewritten
<1>5. Rewritten(tree, Changes(tree, ops)) =
        [f \in D |-> Rewritten(tree, Changes(tree, ops))[f]]
  BY DEF Rewritten
<1> QED
  BY <1>2, <1>4, <1>5

\* Both contents of a change are contents.
LEMMA ChangesTyped ==
    ASSUME NEW D, NEW tree \in [D -> Seq(Fragment)], NEW ops \in Seq(Operations),
           Paths(ops) \subseteq D
    PROVE  \A f \in DOMAIN Changes(tree, ops) : Changes(tree, ops)[f] \in ChangeSets
<1>1. \A f \in D : Edited(tree, ops)[f] \in Seq(Fragment)
  BY EditedIsRewritten
<1> QED
  BY <1>1 DEF Changes, ChangeSets

----
(* What a passing scan has seen *)

Found(tree, outcome) ==
    PolicyFindings(tree) \cup CheckovFindings(tree, outcome) \cup ConftestFindings(tree, outcome)

Findings(tree, outcome, order) == Deduplicate(Found(tree, outcome), order)

IsCheckout(tree) == DOMAIN tree \subseteq Files /\ \A f \in DOMAIN tree : tree[f] \in Seq(Fragment)

\* Every error of a scan is a scanner's, so a scan that passes had none.
LEMMA PassHasNoErrors ==
    ASSUME NEW tree, NEW outcome, NEW order, NEW exceptions, NEW loadedAt, NEW judgedAt,
           ScanPaths(tree, outcome, order, exceptions, Threshold, loadedAt, judgedAt).status = "PASS"
    PROVE  ScanErrors(tree, outcome, exceptions, loadedAt) = {}
<1>1. PICK errors : errors = ScanErrors(tree, outcome, exceptions, loadedAt)
  OBVIOUS
<1>2. \A e \in errors : e.category = "scanner_error"
  <2>1. \A e \in errors : \E operation, about : e = Error(operation, about)
    BY <1>1 DEF ScanErrors, DiscoveryErrors, VersionErrors, PolicyErrors, CheckovErrors,
                ConftestErrors
  <2> QED
    BY <2>1 DEF Error
<1>3. \E gate : ClassifyScan(errors, gate) = "PASS"
  BY <1>1 DEF ScanPaths
<1> QED
  BY <1>1, <1>2, <1>3 DEF ClassifyScan

\* Nor did any of its findings close the gate.
LEMMA PassHasNoGating ==
    ASSUME NEW tree, NEW outcome, NEW order, NEW exceptions, NEW loadedAt, NEW judgedAt,
           ScanPaths(tree, outcome, order, exceptions, Threshold, loadedAt, judgedAt).status = "PASS"
    PROVE  \A r \in Findings(tree, outcome, order) : ~Gates(r, exceptions, Threshold, judgedAt)
<1>1. ScanErrors(tree, outcome, exceptions, loadedAt) = {}
  BY PassHasNoErrors
<1>2. LoadableExceptions(exceptions, loadedAt)
  BY <1>1 DEF ScanErrors
<1>3. PICK findings : findings = Findings(tree, outcome, order)
  OBVIOUS
<1>4. SUFFICES ASSUME \E r \in findings : Gates(r, exceptions, Threshold, judgedAt) PROVE FALSE
  BY <1>3
<1>5. ScanPaths(tree, outcome, order, exceptions, Threshold, loadedAt, judgedAt).status
        = ClassifyScan({}, "FAIL")
  BY <1>1, <1>2, <1>3, <1>4 DEF ScanPaths, Findings, Found
<1> QED
  BY <1>5 DEF ClassifyScan

\* A finding and the report it is about.
LEMMA SeenFields ==
    ASSUME NEW tree, NEW f, NEW s, NEW r \in Seen(tree, f, s)
    PROVE  /\ r.scanner = s /\ r.evidence.file = f /\ r.evidence.place \in DOMAIN tree[f]
           /\ \E v \in Rules : /\ v.scanner = r.scanner /\ v.control = r.control
                               /\ v.severity = r.severity
<1>1. PICK p \in (DOMAIN tree[f]) \X Rules : r = Reported(f, p[1], p[2]) /\ p[2].scanner = s
  BY DEF Seen
<1> QED
  BY <1>1 DEF Reported

\* A finding is a scanner's of a file it can read.
LEMMA FoundIsReport ==
    ASSUME NEW tree, NEW outcome, NEW r \in Found(tree, outcome)
    PROVE  r \in Reports(tree)
<1>1. PICK f \in Candidates(tree), s \in {"builtin", "checkov", "conftest"} :
        r \in Seen(tree, f, s) /\ Readable(tree[f]) /\ Reads(s, Kind[f])
  <2>1. CASE r \in PolicyFindings(tree)
    BY <2>1 DEF PolicyFindings, Candidates, Classified, Reads
  <2>2. CASE r \in CheckovFindings(tree, outcome)
    BY <2>2 DEF CheckovFindings, HasFramework, Reads
  <2>3. CASE r \in ConftestFindings(tree, outcome)
    BY <2>3 DEF ConftestFindings, Candidates, Classified, PolicyKinds, Reads
  <2> QED
    BY <2>1, <2>2, <2>3 DEF Found
<1>2. r.scanner = s /\ r.evidence.file = f
  BY <1>1, SeenFields
<1> QED
  BY <1>1, <1>2 DEF Reports

LEMMA ReportFields ==
    ASSUME NEW tree, IsCheckout(tree), NEW r \in Reports(tree)
    PROVE  /\ r.evidence.file \in Files /\ r.evidence.place \in Nat
           /\ \E v \in Rules : /\ v.scanner = r.scanner /\ v.control = r.control
                               /\ v.severity = r.severity
<1>1. PICK f \in DOMAIN tree, s \in {"builtin", "checkov", "conftest"} : r \in Seen(tree, f, s)
  BY DEF Reports, Candidates
<1>2. DOMAIN tree[f] \subseteq Nat /\ f \in Files
  <2>1. tree[f] \in Seq(Fragment) /\ f \in Files
    BY DEF IsCheckout
  <2>2. DOMAIN tree[f] = 1..Len(tree[f]) /\ Len(tree[f]) \in Nat
    BY <2>1
  <2> QED
    BY <2>1, <2>2
<1> QED
  BY <1>1, <1>2, SeenFields

\* Of several reports of one control at one identity the first one stays.
LEMMA FirstStays ==
    ASSUME NEW tree, IsCheckout(tree), NEW outcome, NEW order \in Orders,
           NEW r \in Found(tree, outcome)
    PROVE  \E q \in Findings(tree, outcome, order) : Same(q, r)
<1> DEFINE found == Found(tree, outcome)
           rank == IF r.scanner = "checkov" THEN order ELSE PathOrder
           Alike == {q \in found : Same(q, r)}
           Ranks == {rank[q.evidence.file] : q \in Alike}
<1>1. rank \in [Files -> Nat]
  BY FilesAssumption DEF Rankings
<1>2. \A q \in found : q.evidence.file \in Files /\ q.evidence.place \in Nat
  BY FoundIsReport, ReportFields
<1>3. r \in Alike
  BY DEF Same
<1>4. PICK n \in Ranks : \A m \in Ranks : ~(m < n)
  <2>1. Ranks \subseteq Nat
    <3> HIDE DEF rank
    <3> QED
      BY <1>1, <1>2
  <2>2. Ranks # {}
    BY <1>3
  <2> QED
    BY <2>1, <2>2, SetMinimum
<1> DEFINE First == {q \in Alike : rank[q.evidence.file] = n}
           Places == {q.evidence.place : q \in First}
<1>5. PICK k \in Places : \A m \in Places : ~(m < k)
  <2>1. Places \subseteq Nat
    <3> HIDE DEF rank
    <3> QED
      BY <1>2
  <2>2. Places # {}
    BY <1>4
  <2> QED
    BY <2>1, <2>2, SetMinimum
<1>6. PICK q \in First : q.evidence.place = k
  OBVIOUS
<1>7. q \in found /\ Same(q, r) /\ rank[q.evidence.file] = n
  BY <1>6
<1>8. ASSUME NEW p \in found, Same(p, q), Precedes(p, q, order) PROVE FALSE
  <2>1. p \in Alike
    BY <1>7, <1>8 DEF Same
  <2>2. q.scanner = r.scanner
    BY <1>7 DEF Same
  <2>3. CASE rank[p.evidence.file] < rank[q.evidence.file]
    BY <1>4, <1>7, <2>1, <2>3
  <2>4. CASE p.evidence.file = q.evidence.file /\ p.evidence.place < q.evidence.place
    <3>1. p \in First
      BY <1>7, <2>1, <2>4
    <3> QED
      BY <1>5, <1>6, <2>4, <3>1
  <2> HIDE DEF rank
  <2>5. rank = IF q.scanner = "checkov" THEN order ELSE PathOrder
    BY <2>2 DEF rank
  <2> QED
    BY <1>8, <2>3, <2>4, <2>5 DEF Precedes
<1> QED
  BY <1>7, <1>8 DEF Findings, Deduplicate

\* Reports of one control have one severity.
LEMMA SameSeverity ==
    ASSUME NEW tree, IsCheckout(tree), NEW q \in Reports(tree), NEW r \in Reports(tree), Same(q, r)
    PROVE  q.severity = r.severity
<1>1. PICK u \in Rules : u.scanner = q.scanner /\ u.control = q.control /\ u.severity = q.severity
  BY ReportFields
<1>2. PICK v \in Rules : v.scanner = r.scanner /\ v.control = r.control /\ v.severity = r.severity
  BY ReportFields
<1> QED
  BY <1>1, <1>2, OneSeverity DEF Same

\* A scan without errors has the findings of every scanner that reads a file it
\* can read.
LEMMA ReportIsFound ==
    ASSUME NEW tree, NEW outcome, NEW exceptions, NEW loadedAt,
           ScanErrors(tree, outcome, exceptions, loadedAt) = {},
           NEW r \in Reports(tree)
    PROVE  r \in Found(tree, outcome)
<1>1. PICK f \in Candidates(tree), s \in {"builtin", "checkov", "conftest"} :
        r \in Seen(tree, f, s) /\ Readable(tree[f]) /\ Reads(s, Kind[f])
  <2>1. PICK f \in Candidates(tree), s \in {"builtin", "checkov", "conftest"} : r \in Seen(tree, f, s)
    BY DEF Reports
  <2>2. r.scanner = s /\ r.evidence.file = f
    BY <2>1, SeenFields
  <2> QED
    BY <2>1, <2>2 DEF Reports
<1>3. VersionErrors(tree, outcome) = {} /\ CheckovErrors(tree, outcome) = {}
      /\ ConftestErrors(tree, outcome) = {} /\ PolicyErrors(tree) = {}
  BY DEF ScanErrors
<1>4. CASE s = "builtin" /\ Kind[f] = "iam"
  <2>1. WellFormed(tree[f])
    BY <1>1, <1>3, <1>4 DEF PolicyErrors, PolicyKinds
  <2> QED
    BY <1>1, <1>4, <2>1 DEF PolicyFindings, Found
<1>5. CASE s = "checkov" /\ Kind[f] \in {"terraform", "kubernetes"}
  <2>1. HasFramework(f) /\ Kind[f] \in Frameworks(tree)
    BY <1>1, <1>5 DEF HasFramework, Frameworks
  <2>2. Ran(outcome, "checkov")
    BY <1>3, <2>1 DEF VersionErrors, UsedScanners
  <2>3. outcome[<<"checkov", Kind[f]>>] = "ok"
    BY <1>3, <2>1, <2>2 DEF CheckovErrors
  <2> QED
    BY <1>1, <1>5, <2>1, <2>2, <2>3 DEF CheckovFindings, Found
<1>6. CASE s = "conftest"
  <2>1. Ran(outcome, "conftest")
    BY <1>1, <1>3 DEF VersionErrors, UsedScanners
  <2>2. outcome[<<"conftest", f>>] = "ok"
    BY <1>1, <1>3, <2>1 DEF ConftestErrors
  <2> QED
    BY <1>1, <1>6, <2>1, <2>2 DEF ConftestFindings, Found
<1> QED
  BY <1>1, <1>4, <1>5, <1>6 DEF Reads

\* What a passing scan could know to be its own was read.
LEMMA PassReadsFiles ==
    ASSUME NEW tree, IsCheckout(tree), NEW outcome, NEW exceptions, NEW loadedAt,
           ScanErrors(tree, outcome, exceptions, loadedAt) = {},
           NEW f \in DOMAIN tree
    PROVE  /\ Format[f] \in {"hcl", "yaml"} => Readable(tree[f])
           /\ f \in NamedPolicy /\ Decodes(tree[f]) => Readable(tree[f])
           /\ Kind[f] \in {"kubernetes"} \cup PolicyKinds /\ Readable(tree[f])
                => WellFormed(tree[f])
<1>1. VersionErrors(tree, outcome) = {} /\ CheckovErrors(tree, outcome) = {}
      /\ DiscoveryErrors(tree) = {} /\ PolicyErrors(tree) = {}
  BY DEF ScanErrors
<1>2. UnreadableInputs(tree) = {}
  BY <1>1 DEF DiscoveryErrors
<1>3. ASSUME Format[f] = "hcl" PROVE Readable(tree[f])
  <2>1. Kind[f] = "terraform"
    BY <1>3, FilesAssumption DEF IsCheckout
  <2>2. f \in Candidates(tree) /\ Kind[f] \in Frameworks(tree)
    BY <2>1 DEF Candidates, Classified, HasFramework, Frameworks
  <2>3. Ran(outcome, "checkov")
    BY <1>1, <2>2 DEF VersionErrors, UsedScanners
  <2> QED
    BY <1>1, <2>2, <2>3 DEF CheckovErrors
<1>4. Format[f] = "yaml" => Readable(tree[f])
  BY <1>2 DEF UnreadableInputs
<1>5. f \in NamedPolicy /\ Decodes(tree[f]) => Readable(tree[f])
  BY <1>2 DEF UnreadableInputs
<1>6. Kind[f] = "kubernetes" /\ Readable(tree[f]) => WellFormed(tree[f])
  BY <1>2 DEF UnreadableInputs
<1>7. Kind[f] \in PolicyKinds /\ Readable(tree[f]) => WellFormed(tree[f])
  BY <1>1 DEF PolicyErrors, Candidates, Classified
<1> QED
  BY <1>3, <1>4, <1>5, <1>6, <1>7

----
(* The invariant *)

Fields == DOMAIN NoRun

Started == {"read", "digest", "view", "reviews", "files", "again", "copy", "apply"}

Approving == {"copy", "apply", "rescan", "judge", "recheck", "open", "link"}

Leaves == {"raised", "answered", "crashed", "ended"}

\* A file that is in a view was as reviewed when it was read; any other one is now.
AsReviewed(view, f) == IF f \in DOMAIN view THEN view[f] = Base[f] ELSE source[f] = Base[f]

\* An order in which the commits may become the head.
Age == CHOOSE age \in [DOMAIN Commits -> 1..Cardinality(DOMAIN Commits)] :
         \A c \in DOMAIN Commits : \A d \in Pushes[c] : age[c] < age[d]

\* One commit is another, or may come to be the head after it.
Later(c, d) == c = d \/ Age[c] < Age[d]

Writing(q) == q.pc \in {"open", "link"}

Typed(q) ==
    /\ DOMAIN q = Fields
    /\ q.role \in {"sandbox", "proposal", "ci"}
    /\ q.pc \in {"start"} \cup Started \cup Approving \cup Leaves \cup {"scan", "judged"}
    /\ q.role = "ci" => q.pc \in {"start", "scan", "judged"}
    /\ q.pc \in {"scan", "judged"} => q.role = "ci"
    /\ q.pc \in {"view", "reviews", "files", "again", "open", "link"} => q.role = "sandbox"
    /\ q.pc \in Started => q.ops \in Plans
    /\ q.role # "ci" => IsSandboxTree(q.sandbox)
    /\ q.preview # None => IsSandboxTree(q.preview.source)
    /\ q.patch # None => \A f \in DOMAIN q.patch : q.patch[f] \in ChangeSets
    /\ q.pc \in {"apply", "rescan", "judge", "recheck"} =>
         q.sandbox \in [Files \ Sensitive -> Seq(Fragment)]
    /\ q.pc = "judge" => q.shape \in Shapes
    /\ q.pc = "scan" => q.loaded \in Times
    /\ Writing(q) => q.todo \in {<<"patch", "report", "result">>, <<"report", "result">>, <<"result">>}

\* Trees hold no sensitive file and a view is forgotten with the read it is of.
Viewing(q) ==
    /\ IsSandboxTree(q.view)
    /\ q.pc \notin {"read", "digest", "recheck"} => q.view = << >>
    /\ q.role = "ci" => IsCheckout(q.sandbox)

\* A report is one of the tree beside it.
Thorough(q) ==
    /\ q.pc \in {"start", "scan", "rescan"} \cup Started => q.report = None /\ q.shape = None
    /\ q.role # "ci" /\ q.shape = None /\ ~Writing(q) => q.report = None
    /\ q.report # None =>
         \E outcome \in Outcomes, order \in Orders, loadedAt \in Times \cup {0} :
           q.report = ScanPaths(q.sandbox, outcome, order, IF q.role = "ci" THEN Exceptions ELSE {},
                                Threshold, loadedAt, q.report.at)

HasApproval(head) == \E r \in reviews : r.commit = head /\ r.state = "APPROVED"

\* What was approved and when: the listing is of a commit between the two views.
Approved(q) ==
    /\ q.pc \in {"reviews", "files", "again"} =>
         q.seen.head \in DOMAIN Commits /\ Later(q.seen.head, pull.head)
    /\ q.pc \in {"files", "again"} => HasApproval(q.seen.head)
    /\ q.pc = "again" =>
         \E p \in DOMAIN Commits : /\ Later(q.seen.head, p) /\ Later(p, pull.head)
                                  /\ FilesMatch(p, q.seen.head, q.preview.changes)
    /\ q.role = "sandbox" /\ q.pc \in Approving /\ q.reason = None =>
         /\ HasApproval(q.seen.head)
         /\ FilesMatch(q.seen.head, q.seen.head, q.preview.changes)

Tested(q) ==
    /\ q.patch = q.preview.changes
    /\ q.sandbox = Rewritten(q.preview.source, q.preview.changes)

Passing(q) == q.report.status = "PASS" /\ q.report.fingerprints \cap Targets = {}

PatchOut(w, q) == "patch" \in DOMAIN out /\ out["patch"].by = w /\ out["patch"].body = q.patch

ReportOut(w, q) ==
    /\ "report" \in DOMAIN out /\ out["report"].by = w
    /\ out["report"].body.scanned = q.sandbox /\ out["report"].body.report = q.report

\* While a file is the reviewed one, what a run holds was made of that.
Held(q) ==
    /\ q.pc = "read" => \A f \in DOMAIN q.view : source[f] = Base[f] => q.view[f] = Base[f]
    /\ q.pc = "digest" =>
         /\ q.patch = [f \in Paths(q.ops) |-> q.patch[f]]
         /\ \A f \in Paths(q.ops) :
              AsReviewed(q.view, f) => q.patch[f] = Changes(Digest(Base), q.ops)[f]
    /\ q.pc \in {"start"} \cup Started =>
         \A f \in DOMAIN q.sandbox : source[f] = Base[f] => q.sandbox[f] = Base[f]
    /\ q.pc \in {"rescan", "judge", "recheck"} =>
         ((\A f \in Files \ Sensitive : AsReviewed(q.view, f)) => Tested(q))

\* What a run's preview, its report and the files it has written are worth.
Vouched(w, q) ==
    /\ q.pc \in {"read", "digest"} => q.review.source = Digest(Base)
    /\ q.pc \in Started \ {"read"} => Paths(q.ops) \cap Sensitive = {}
    /\ q.pc \in (Started \ {"read", "digest"}) \cup {"rescan", "judge", "recheck"} =>
         q.preview.source = Digest(Base)
    /\ q.pc \in Started \ {"read", "digest"} => q.preview.changes = Changes(Digest(Base), q.ops)
    /\ q.pc = "recheck" => Passing(q)
    /\ Writing(q) /\ q.reason = None =>
         /\ Tested(q) /\ Passing(q)
         /\ q.todo # <<"patch", "report", "result">> => PatchOut(w, q)
         /\ q.todo = <<"result">> => ReportOut(w, q)

RunInv(w, q) ==
    /\ Typed(q) /\ Viewing(q) /\ Thorough(q) /\ Approved(q)
    /\ q.role = "sandbox" => Vouched(w, q) /\ Held(q)

PlanInv ==
    /\ DOMAIN plan = {"ops", "review"}
    /\ plan.ops \in Plans
    /\ plan.review # None => plan.review.source = Digest(Base)

PullInv ==
    /\ DOMAIN pull = {"head", "open", "approved", "body"}
    /\ pull.head \in DOMAIN Commits /\ pull.open \in BOOLEAN /\ pull.approved \in BOOLEAN

ReviewsInv ==
    /\ \A r \in reviews : r.commit \in DOMAIN Commits /\ r.at \in 0..MaxReviews
    /\ reviews # {} => Latest(reviews) # {}

FilesInv == DOMAIN out \subseteq Outputs /\ temps \subseteq Outputs

IInv ==
    /\ source \in DOMAIN Edits
    /\ PlanInv /\ PullInv /\ ReviewsInv /\ FilesInv /\ PassVouches
    /\ DOMAIN run = Runs
    /\ \A w \in Runs : RunInv(w, run[w])

----
(* The order of the commits *)

LEMMA AgeOrders ==
    /\ Age \in [DOMAIN Commits -> 1..Cardinality(DOMAIN Commits)]
    /\ \A c \in DOMAIN Commits : \A d \in Pushes[c] : Age[c] < Age[d]
BY HeadMovesOn DEF Age

LEMMA LaterPushed ==
    ASSUME NEW c \in DOMAIN Commits, NEW d \in DOMAIN Commits, Later(c, d), NEW e \in Pushes[d]
    PROVE  Later(c, e)
<1>1. e \in DOMAIN Commits
  BY HeadMovesOn
<1>2. Age[c] \in Int /\ Age[d] \in Int /\ Age[e] \in Int
  BY <1>1, AgeOrders
<1> QED
  BY <1>2, AgeOrders DEF Later

LEMMA LaterBothWays ==
    ASSUME NEW c \in DOMAIN Commits, NEW d \in DOMAIN Commits, Later(c, d), Later(d, c)
    PROVE  c = d
<1>1. Age[c] \in Int /\ Age[d] \in Int
  BY AgeOrders
<1> QED
  BY <1>1 DEF Later

----
(* One run's step *)

\* Run w goes on as q, the others stay as they are.
Turn(w, q) ==
    /\ DOMAIN run' = Runs /\ run'[w] = q
    /\ \A v \in Runs \ {w} : run'[v] = run[v]

LEMMA EmptySandbox == DOMAIN << >> = {} /\ IsSandboxTree(<< >>)
<1>1. DOMAIN << >> = {}
  OBVIOUS
<1> QED
  BY <1>1 DEF IsSandboxTree

LEMMA NoRunFields ==
    /\ Fields = {"pc", "role", "ops", "review", "preview", "view", "seen", "cause", "sandbox",
                 "patch", "shape", "report", "loaded", "reason", "todo"}
    /\ NoRun.report = None /\ NoRun.shape = None /\ NoRun.preview = None /\ NoRun.patch = None
    /\ NoRun.sandbox = << >> /\ NoRun.view = << >>
BY DEF Fields, NoRun

\* A run that has ended keeps nothing.
LEMMA EndedInv ==
    ASSUME NEW w, NEW r, r.role \in {"sandbox", "proposal"}, NEW pc \in Leaves
    PROVE  RunInv(w, Ended(r, pc))
<1>1. PICK q : q = Ended(r, pc)
  OBVIOUS
<1>2. /\ DOMAIN q = Fields /\ q.pc = pc /\ q.role = r.role /\ q.view = << >> /\ q.report = None
      /\ q.preview = None /\ q.patch = None /\ q.sandbox = << >> /\ q.shape = None
  BY <1>1, NoRunFields DEF Ended, Fields, NoRun
<1>3. Typed(q)
  BY <1>2, EmptySandbox DEF Typed, Leaves, Started, Approving, Writing
<1>v. Viewing(q)
  BY <1>2, EmptySandbox DEF RunInv, Typed, Viewing, Started, Approving, Leaves
<1>h. q.role = "sandbox" => Held(q)
  BY <1>2 DEF RunInv, Typed, Held, Started, Approving, Leaves, Tested
<1>4. Thorough(q)
  BY <1>2 DEF Thorough, Leaves, Started
<1>5. Approved(q)
  BY <1>2 DEF Approved, Leaves, Approving
<1>6. Vouched(w, q)
  BY <1>2 DEF Vouched, Leaves, Started, Writing
<1> QED
  BY <1>1, <1>3, <1>4, <1>5, <1>6, <1>v, <1>h DEF RunInv

LEMMA RaiseInv ==
    ASSUME NEW w \in Runs, DOMAIN run = Runs, run[w].role \in {"sandbox", "proposal"}, Raise(w)
    PROVE  \E q : Turn(w, q) /\ RunInv(w, q)
<1>1. Turn(w, Ended(run[w], "raised"))
  BY DEF Raise, Turn
<1>2. RunInv(w, Ended(run[w], "raised"))
  BY EndedInv DEF Leaves
<1> QED
  BY <1>1, <1>2

\* What a blocked run has left to write has a reason with it.
LEMMA BlockInv ==
    ASSUME NEW w \in Runs, DOMAIN run = Runs, NEW r, NEW reason, reason # None,
           r.role = run[w].role, r.role \in {"sandbox", "proposal"},
           r.preview # None => IsSandboxTree(r.preview.source), IsSandboxTree(r.sandbox),
           r.shape = None => r.report = None,
           r.report # None =>
             \E outcome \in Outcomes, order \in Orders, loadedAt \in Times \cup {0} :
               r.report = ScanPaths(r.sandbox, outcome, order, {}, Threshold, loadedAt, r.report.at),
           Block(w, r, reason)
    PROVE  \E q : Turn(w, q) /\ RunInv(w, q)
<1>1. CASE Role(w) = "proposal"
  <2>1. Turn(w, Ended(r, "answered"))
    BY <1>1 DEF Block, Turn
  <2>2. RunInv(w, Ended(r, "answered"))
    BY EndedInv DEF Leaves
  <2> QED
    BY <2>1, <2>2
<1>2. CASE Role(w) # "proposal"
  <2>1. PICK q : Turn(w, q) /\ q = [Ended(r, "open") EXCEPT
                      !.reason = reason, !.cause = r.cause, !.preview = r.preview,
                      !.sandbox = IF r.shape = None THEN << >> ELSE r.sandbox,
                      !.report = r.report,
                      !.todo = IF r.shape = None THEN <<"result">> ELSE <<"report", "result">>]
    BY <1>2 DEF Block, Turn
  <2>2. /\ DOMAIN q = Fields /\ q.pc = "open" /\ q.role = "sandbox" /\ q.view = << >>
        /\ q.report = r.report
        /\ q.preview = r.preview /\ q.reason = reason /\ q.patch = None
        /\ q.sandbox = IF r.shape = None THEN << >> ELSE r.sandbox
        /\ q.todo = IF r.shape = None THEN <<"result">> ELSE <<"report", "result">>
    BY <1>2, <2>1, NoRunFields DEF Ended, Fields, NoRun, Role
  <2>3. Typed(q)
    BY <2>2, EmptySandbox DEF Typed, Leaves, Started, Approving, Writing
  <2>v. Viewing(q)
    BY <2>2, EmptySandbox DEF RunInv, Typed, Viewing, Started, Approving, Leaves
  <2>h. q.role = "sandbox" => Held(q)
    BY <2>2 DEF RunInv, Typed, Held, Started, Approving, Leaves, Tested
  <2>4. Thorough(q)
    BY <2>2 DEF Thorough, Started, Writing
  <2>5. Approved(q)
    BY <2>2 DEF Approved
  <2>6. Vouched(w, q)
    BY <2>2 DEF Vouched, Started, Writing
  <2> QED
    BY <2>1, <2>3, <2>4, <2>5, <2>6, <2>v, <2>h DEF RunInv
<1> QED
  BY <1>1, <1>2

LEMMA LoadInv ==
    ASSUME IInv, NEW w \in Runs, Load(w)
    PROVE  \E q : Turn(w, q) /\ RunInv(w, q)
<1>1. PICK r : r = run[w]
  OBVIOUS
<1>2. RunInv(w, r) /\ DOMAIN run = Runs /\ PlanInv /\ r.pc = "start" /\ r.role # "ci"
  BY <1>1 DEF IInv, Load, At, Role
<1>3. r.role \in {"sandbox", "proposal"}
  BY <1>2 DEF RunInv, Typed
<1>4. CASE Raise(w)
  BY <1>1, <1>2, <1>3, <1>4, RaiseInv
<1>5. CASE ~Raise(w)
  <2>1. /\ run' = [run EXCEPT ![w].pc = "read", ![w].ops = plan.ops, ![w].review = plan.review]
        /\ r.role = "sandbox" => plan.review # None
    BY <1>1, <1>5 DEF Load, Role
  <2>2. PICK q : Turn(w, q) /\ q = [r EXCEPT !.pc = "read", !.ops = plan.ops, !.review = plan.review]
    BY <1>1, <1>2, <2>1 DEF Turn
  <2>3. /\ DOMAIN q = Fields /\ q.pc = "read" /\ q.ops = plan.ops /\ q.review = plan.review
        /\ q.role = r.role /\ q.view = r.view /\ q.report = r.report
        /\ q.preview = r.preview /\ q.patch = r.patch
        /\ q.sandbox = r.sandbox /\ q.shape = r.shape /\ q.reason = r.reason /\ q.todo = r.todo
    BY <1>2, <2>2, NoRunFields DEF RunInv, Typed
  <2>4. Typed(q)
    BY <1>2, <1>3, <2>3 DEF RunInv, Typed, PlanInv, Started, Writing
  <2>v. Viewing(q)
    BY <1>2, <1>3, <2>3, EmptySandbox DEF RunInv, Typed, Viewing, Started, Approving, Leaves
  <2>h. q.role = "sandbox" => Held(q)
    <3>1. DOMAIN q.view = {}
      BY <1>2, <2>3, EmptySandbox DEF RunInv, Viewing
    <3> QED
      BY <1>2, <2>3, <3>1 DEF RunInv, Held, Started
  <2>5. Thorough(q)
    BY <1>2, <2>3 DEF RunInv, Thorough, Started
  <2>6. Approved(q)
    BY <2>3 DEF Approved, Approving
  <2>7. q.role = "sandbox" => Vouched(w, q)
    BY <1>2, <2>1, <2>3 DEF RunInv, Vouched, PlanInv, Started, Writing
  <2> QED
    BY <2>2, <2>4, <2>5, <2>6, <2>7, <2>v, <2>h DEF RunInv
<1> QED
  BY <1>4, <1>5

\* One more file is in the view.
LEMMA WithFile ==
    ASSUME source \in Trees, NEW view, IsSandboxTree(view), NEW f \in Files \ Sensitive
    PROVE  IsSandboxTree(With(view, f))
BY DEF With, IsSandboxTree, Trees

\* A file read now is as reviewed if it is so now.
LEMMA WithReviewed ==
    ASSUME NEW view, NEW f, f \notin DOMAIN view, NEW g, AsReviewed(With(view, f), g)
    PROVE  AsReviewed(view, g)
BY DEF With, AsReviewed

LEMMA DigestOfBase == Digest(Base) \in [Files \ Sensitive -> Seq(Fragment)]
                      /\ \A f \in Files \ Sensitive : Digest(Base)[f] = Base[f]
BY TreesAssumption DEF Digest, Restrict, Trees

\* A view of everything that is the reviewed tree holds every file as reviewed.
LEMMA ViewOfBase ==
    ASSUME NEW view, view = Digest(Base), NEW f \in Files \ Sensitive
    PROVE  AsReviewed(view, f)
BY DigestOfBase DEF AsReviewed

LEMMA ReadChangesInv ==
    ASSUME IInv, NEW w \in Runs, ReadChanges(w)
    PROVE  \E q : Turn(w, q) /\ RunInv(w, q)
<1>1. PICK r : r = run[w]
  OBVIOUS
<1>2. RunInv(w, r) /\ DOMAIN run = Runs /\ r.pc = "read" /\ source \in Trees
  BY <1>1, TreesAssumption DEF IInv, ReadChanges, At
<1>3. r.role \in {"sandbox", "proposal"} /\ r.ops \in Plans /\ r.ops \in Seq(Operations)
      /\ IsSandboxTree(r.view)
  BY <1>2, TreesAssumption DEF RunInv, Typed, Viewing, Started
<1>4. CASE Raise(w)
  BY <1>1, <1>2, <1>3, <1>4, RaiseInv
<1>5. CASE ~Raise(w)
  <2>1. Paths(r.ops) \cap Sensitive = {}
    BY <1>1, <1>5 DEF ReadChanges
  <2>2. PICK f \in Unread(r.view, r.ops) :
          \/ run' = [run EXCEPT ![w].view = With(r.view, f)]
          \/ /\ DOMAIN With(r.view, f) = Paths(r.ops)
             /\ run' = [run EXCEPT ![w].pc = "digest",
                                   ![w].patch = Changes(With(r.view, f), r.ops),
                                   ![w].view = << >>]
    BY <1>1, <1>5, <2>1 DEF ReadChanges
  <2>3. PICK view : view = With(r.view, f)
    OBVIOUS
  <2>4. f \in Paths(r.ops) /\ f \notin DOMAIN r.view
    BY <2>2 DEF Unread, Paths
  <2>5. f \in Files \ Sensitive
    BY <1>3, <2>1, <2>4, PathsAreFiles
  <2>6. /\ IsSandboxTree(view) /\ view = [g \in DOMAIN view |-> view[g]]
        /\ DOMAIN view = DOMAIN r.view \cup {f} /\ view[f] = source[f]
        /\ \A g \in DOMAIN r.view : g # f => view[g] = r.view[g]
    <3>1. IsSandboxTree(view)
      BY <1>2, <1>3, <2>3, <2>5, WithFile
    <3> QED
      BY <2>3, <3>1 DEF With
  <2>7. r.role = "sandbox" => \A g \in DOMAIN view : source[g] = Base[g] => view[g] = Base[g]
    BY <1>2, <2>6 DEF RunInv, Held
  <2>8. CASE run' = [run EXCEPT ![w].view = view]
    <3>1. PICK q : Turn(w, q) /\ q = [r EXCEPT !.view = view]
      BY <1>1, <1>2, <2>8 DEF Turn
    <3>2. /\ DOMAIN q = Fields /\ q.pc = "read" /\ q.ops = r.ops /\ q.review = r.review
          /\ q.role = r.role /\ q.view = view /\ q.report = r.report /\ q.preview = r.preview
          /\ q.patch = r.patch /\ q.loaded = r.loaded /\ q.seen = r.seen
          /\ q.sandbox = r.sandbox /\ q.shape = r.shape /\ q.reason = r.reason /\ q.todo = r.todo
      BY <1>2, <3>1, NoRunFields DEF RunInv, Typed
    <3>3. Typed(q)
      BY <1>2, <1>3, <3>2 DEF RunInv, Typed, Started, Writing
    <3>4. Viewing(q)
      BY <1>3, <2>6, <3>2 DEF Viewing
    <3>5. Thorough(q)
      BY <1>2, <3>2 DEF RunInv, Thorough, Started
    <3>6. Approved(q)
      BY <3>2 DEF Approved, Approving
    <3>7. q.role = "sandbox" => Vouched(w, q)
      BY <1>2, <3>2 DEF RunInv, Vouched, Started, Writing
    <3>8. q.role = "sandbox" => Held(q)
      BY <1>2, <2>7, <3>2 DEF RunInv, Held, Started
    <3> QED
      BY <3>1, <3>3, <3>4, <3>5, <3>6, <3>7, <3>8 DEF RunInv
  <2>9. CASE /\ DOMAIN view = Paths(r.ops)
             /\ run' = [run EXCEPT ![w].pc = "digest", ![w].patch = Changes(view, r.ops),
                                   ![w].view = << >>]
    <3>1. PICK q : Turn(w, q) /\ q = [r EXCEPT !.pc = "digest", !.patch = Changes(view, r.ops),
                                              !.view = << >>]
      BY <1>1, <1>2, <2>9 DEF Turn
    <3>2. /\ DOMAIN q = Fields /\ q.pc = "digest" /\ q.ops = r.ops /\ q.review = r.review
          /\ q.role = r.role /\ q.view = << >> /\ q.report = r.report /\ q.preview = r.preview
          /\ q.patch = Changes(view, r.ops)
          /\ q.sandbox = r.sandbox /\ q.shape = r.shape /\ q.reason = r.reason /\ q.todo = r.todo
      BY <1>2, <3>1, NoRunFields DEF RunInv, Typed
    <3>3. view \in [DOMAIN view -> Seq(Fragment)]
      BY <2>6 DEF IsSandboxTree
    <3>4. \A g \in DOMAIN q.patch : q.patch[g] \in ChangeSets
      BY <1>3, <2>9, <3>2, <3>3, ChangesTyped
    <3>5. Typed(q)
      BY <1>2, <1>3, <3>2, <3>4 DEF RunInv, Typed, Started, Writing
    <3>6. Viewing(q)
      BY <1>3, <3>2, EmptySandbox DEF Viewing
    <3>7. Thorough(q)
      BY <1>2, <3>2 DEF RunInv, Thorough, Started
    <3>8. Approved(q)
      BY <3>2 DEF Approved, Approving
    <3>9. q.role = "sandbox" => Vouched(w, q)
      BY <1>2, <2>1, <3>2 DEF RunInv, Vouched, Started, Writing
    <3>10. ASSUME q.role = "sandbox" PROVE Held(q)
      <4>1. ASSUME NEW g \in Paths(r.ops), source[g] = Base[g]
            PROVE  Changes(view, r.ops)[g] = Changes(Digest(Base), r.ops)[g]
        <5>1. g \in Files \ Sensitive
          BY <1>3, <2>1, <4>1, PathsAreFiles
        <5>2. g \in DOMAIN view /\ view[g] = Digest(Base)[g] /\ g \in DOMAIN Digest(Base)
          BY <2>7, <2>9, <3>2, <3>10, <4>1, <5>1, DigestOfBase
        <5>3. IsTree(view) /\ IsTree(Digest(Base))
          BY <3>3, DigestOfBase DEF IsTree
        <5> QED
          BY <1>3, <4>1, <5>2, <5>3, ChangeOfFile
      <4>2. Changes(view, r.ops) = [g \in Paths(r.ops) |-> Changes(view, r.ops)[g]]
        BY DEF Changes
      <4>3. \A g : AsReviewed(q.view, g) => source[g] = Base[g]
        BY <3>2 DEF AsReviewed
      <4>4. \A g \in DOMAIN q.sandbox : source[g] = Base[g] => q.sandbox[g] = Base[g]
        BY <1>2, <3>2, <3>10 DEF RunInv, Held, Started
      <4> QED
        BY <3>2, <4>1, <4>2, <4>3, <4>4 DEF Held
    <3> QED
      BY <3>1, <3>5, <3>6, <3>7, <3>8, <3>9, <3>10 DEF RunInv
  <2> QED
    BY <2>2, <2>3, <2>8, <2>9
<1> QED
  BY <1>4, <1>5

\* One more file is digested or digested again.
LEMMA ToDigestFile ==
    ASSUME IInv, NEW w \in Runs, NEW f \in FirstOf(ToDigest(w))
    PROVE  f \in Files \ Sensitive /\ f \notin DOMAIN run[w].view
BY DEF FirstOf, ToDigest

\* A sandbox run goes on only with the preview that was reviewed, and it was made
\* of the files as they were reviewed.
LEMMA DigestSourceInv ==
    ASSUME IInv, NEW w \in Runs, DigestSource(w)
    PROVE  \E q : Turn(w, q) /\ RunInv(w, q)
<1>1. PICK r : r = run[w]
  OBVIOUS
<1>2. RunInv(w, r) /\ DOMAIN run = Runs /\ r.pc = "digest" /\ source \in Trees
  BY <1>1, TreesAssumption DEF IInv, DigestSource, At
<1>3. r.role \in {"sandbox", "proposal"} /\ r.ops \in Plans /\ r.report = None /\ r.shape = None
      /\ IsSandboxTree(r.sandbox) /\ IsSandboxTree(r.view)
  BY <1>2 DEF RunInv, Typed, Viewing, Thorough, Started
<1>4. PICK f \in FirstOf(ToDigest(w)) :
        LET view == With(r.view, f)
            u == [r EXCEPT !.preview = Preview(view, r.patch), !.patch = None,
                           !.review = None, !.view = << >>]
        IN IF ToDigest(w) # {f} THEN run' = [run EXCEPT ![w].view = view]
           ELSE IF r.role = "sandbox" /\ r.review # u.preview
           THEN Block(w, u, "ReviewDigestMismatch")
           ELSE run' = [run EXCEPT ![w] =
                  [u EXCEPT !.pc = IF r.role = "sandbox" THEN "view" ELSE "copy"]]
  BY <1>1 DEF DigestSource, Role
<1>5. f \in Files \ Sensitive /\ f \notin DOMAIN r.view
  BY <1>1, ToDigestFile
<1>6. PICK view : view = With(r.view, f)
  OBVIOUS
<1>7. IsSandboxTree(view)
  BY <1>2, <1>3, <1>5, <1>6, WithFile
<1>8. CASE ToDigest(w) # {f}
  <2>1. PICK q : Turn(w, q) /\ q = [r EXCEPT !.view = view]
    BY <1>1, <1>2, <1>4, <1>6, <1>8 DEF Turn
  <2>2. /\ DOMAIN q = Fields /\ q.pc = "digest" /\ q.ops = r.ops /\ q.review = r.review
        /\ q.role = r.role /\ q.view = view /\ q.report = None /\ q.preview = r.preview
        /\ q.patch = r.patch
        /\ q.sandbox = r.sandbox /\ q.shape = None /\ q.reason = r.reason /\ q.todo = r.todo
    BY <1>2, <1>3, <2>1, NoRunFields DEF RunInv, Typed
  <2>3. Typed(q)
    BY <1>2, <1>3, <2>2 DEF RunInv, Typed, Started, Writing
  <2>4. Viewing(q)
    BY <1>3, <1>7, <2>2 DEF Viewing
  <2>5. Thorough(q)
    BY <2>2 DEF Thorough
  <2>6. Approved(q)
    BY <2>2 DEF Approved, Approving
  <2>7. q.role = "sandbox" => Vouched(w, q)
    BY <1>2, <2>2 DEF RunInv, Vouched, Started, Writing
  <2>8. ASSUME q.role = "sandbox" PROVE Held(q)
    <3>1. \A g : AsReviewed(view, g) => AsReviewed(r.view, g)
      BY <1>5, <1>6, WithReviewed
    <3>2. Held(r)
      BY <1>2, <2>2, <2>8 DEF RunInv
    <3> QED
      BY <1>2, <2>2, <3>1, <3>2 DEF Held, Started
  <2> QED
    BY <2>1, <2>3, <2>4, <2>5, <2>6, <2>7, <2>8 DEF RunInv
<1>9. CASE ToDigest(w) = {f}
  <2>1. PICK p : p = Preview(view, r.patch)
    OBVIOUS
  <2>2. p.source = view /\ p.changes = r.patch
    BY <2>1 DEF Preview
  <2>3. PICK u : u = [r EXCEPT !.preview = p, !.patch = None, !.review = None, !.view = << >>]
    OBVIOUS
  <2>4. /\ DOMAIN u = Fields /\ u.pc = "digest" /\ u.ops = r.ops /\ u.preview = p /\ u.patch = None
        /\ u.role = r.role /\ u.view = << >> /\ u.report = None /\ u.shape = None
        /\ u.sandbox = r.sandbox /\ u.reason = r.reason /\ u.todo = r.todo
    BY <1>2, <1>3, <2>3, NoRunFields DEF RunInv, Typed
  <2>5. CASE r.role = "sandbox" /\ r.review # p
    <3>1. Block(w, u, "ReviewDigestMismatch")
      BY <1>4, <1>6, <1>9, <2>1, <2>3, <2>4, <2>5
    <3>2. None # "ReviewDigestMismatch"
      BY RunsAssumption
    <3> QED
      BY <1>1, <1>2, <1>3, <1>7, <2>2, <2>4, <3>1, <3>2, BlockInv
  <2>6. CASE ~(r.role = "sandbox" /\ r.review # p)
    <3>1. run' = [run EXCEPT ![w] = [u EXCEPT !.pc = IF r.role = "sandbox" THEN "view" ELSE "copy"]]
      BY <1>4, <1>6, <1>9, <2>1, <2>3, <2>4, <2>6
    <3>2. PICK q : Turn(w, q) /\ q = [u EXCEPT !.pc = IF r.role = "sandbox" THEN "view" ELSE "copy"]
      BY <1>1, <1>2, <3>1 DEF Turn
    <3>3. /\ DOMAIN q = Fields /\ q.pc = (IF r.role = "sandbox" THEN "view" ELSE "copy")
          /\ q.ops = r.ops
          /\ q.role = r.role /\ q.view = << >> /\ q.report = None /\ q.preview = p /\ q.patch = None
          /\ q.sandbox = r.sandbox /\ q.shape = None /\ q.reason = r.reason /\ q.todo = r.todo
      BY <2>4, <3>2, NoRunFields
    <3>4. Typed(q)
      BY <1>2, <1>3, <1>7, <2>2, <3>3 DEF RunInv, Typed, Started, Writing
    <3>5. Viewing(q)
      BY <1>3, <3>3, EmptySandbox DEF Viewing
    <3>6. Thorough(q)
      BY <3>3 DEF Thorough
    <3>7. Approved(q)
      BY <1>3, <3>3 DEF Approved, Approving
    <3>8. ASSUME q.role = "sandbox" PROVE Vouched(w, q) /\ Held(q)
      <4>1. r.review = p /\ Vouched(w, r) /\ Held(r) /\ q.pc = "view"
        BY <1>2, <2>6, <3>3, <3>8 DEF RunInv
      <4>2. view = Digest(Base)
        BY <1>2, <2>2, <4>1 DEF Vouched
      <4>3. Paths(r.ops) \cap Sensitive = {}
        BY <1>2, <4>1 DEF Vouched, Started
      <4>4. ASSUME NEW g \in Paths(r.ops)
            PROVE  r.patch[g] = Changes(Digest(Base), r.ops)[g]
        <5>1. g \in Files \ Sensitive
          BY <1>3, <4>3, PathsAreFiles, TreesAssumption
        <5>2. AsReviewed(view, g)
          BY <4>2, <5>1, ViewOfBase
        <5>3. AsReviewed(r.view, g)
          BY <1>5, <1>6, <5>2, WithReviewed
        <5> QED
          BY <1>2, <4>1, <5>3 DEF Held
      <4>5. r.patch = Changes(Digest(Base), r.ops)
        <5>1. r.patch = [g \in Paths(r.ops) |-> r.patch[g]]
          BY <1>2, <4>1 DEF Held
        <5>2. Changes(Digest(Base), r.ops) =
                [g \in Paths(r.ops) |-> Changes(Digest(Base), r.ops)[g]]
          BY DEF Changes
        <5> QED
          BY <4>4, <5>1, <5>2
      <4>6. \A g \in DOMAIN q.sandbox : source[g] = Base[g] => q.sandbox[g] = Base[g]
        BY <1>2, <3>3, <4>1 DEF Held, Started
      <4>7. Vouched(w, q)
        BY <2>2, <3>3, <4>1, <4>2, <4>3, <4>5 DEF Vouched, Started, Writing
      <4>8. Held(q)
        BY <3>3, <4>1, <4>6 DEF Held
      <4> QED
        BY <4>7, <4>8
    <3> QED
      BY <3>2, <3>4, <3>5, <3>6, <3>7, <3>8 DEF RunInv
  <2> QED
    BY <2>5, <2>6
<1> QED
  BY <1>8, <1>9

\* A run blocked with what it holds.
LEMMA BlockSelfInv ==
    ASSUME IInv, NEW w \in Runs, run[w].role # "ci", ~Writing(run[w]),
           NEW u, u.role = run[w].role, u.preview = run[w].preview, u.sandbox = run[w].sandbox,
           u.shape = run[w].shape, u.report = run[w].report,
           NEW reason, reason # None, Block(w, u, reason)
    PROVE  \E q : Turn(w, q) /\ RunInv(w, q)
<1>1. PICK r : r = run[w]
  OBVIOUS
<1>2. Typed(r) /\ Thorough(r) /\ DOMAIN run = Runs
  BY <1>1 DEF IInv, RunInv
<1>3. r.role \in {"sandbox", "proposal"} /\ IsSandboxTree(r.sandbox)
      /\ (r.preview # None => IsSandboxTree(r.preview.source))
  BY <1>1, <1>2 DEF Typed
<1>4. r.shape = None => r.report = None
  BY <1>1, <1>2 DEF Thorough
<1>5. r.report # None =>
        \E outcome \in Outcomes, order \in Orders, loadedAt \in Times \cup {0} :
          r.report = ScanPaths(r.sandbox, outcome, order, {}, Threshold, loadedAt, r.report.at)
  BY <1>1, <1>2 DEF Thorough
<1> QED
  BY <1>1, <1>2, <1>3, <1>4, <1>5, BlockInv

LEMMA UnverifiableInv ==
    ASSUME IInv, NEW w \in Runs, Unverifiable(w)
    PROVE  \E q : Turn(w, q) /\ RunInv(w, q)
<1>1. run[w].role # "ci" /\ ~Writing(run[w])
  BY DEF IInv, RunInv, Typed, Unverifiable, Writing
<1>2. Block(w, run[w], "ReviewVerificationUnavailable") /\ "ReviewVerificationUnavailable" # None
  BY RunsAssumption DEF Unverifiable
<1> QED
  BY <1>1, <1>2, BlockSelfInv

LEMMA ViewPullInv ==
    ASSUME IInv, NEW w \in Runs, ViewPull(w)
    PROVE  \E q : Turn(w, q) /\ RunInv(w, q)
<1>1. PICK r : r = run[w]
  OBVIOUS
<1>2. RunInv(w, r) /\ DOMAIN run = Runs /\ r.pc = "view" /\ PullInv
  BY <1>1 DEF IInv, ViewPull, At
<1>3. PICK q : Turn(w, q) /\ q = [r EXCEPT !.pc = "reviews", !.seen = pull]
  BY <1>1, <1>2 DEF Turn, ViewPull
<1>4. /\ DOMAIN q = Fields /\ q.pc = "reviews" /\ q.seen = pull /\ q.ops = r.ops
      /\ q.role = r.role /\ q.view = r.view /\ q.report = r.report
      /\ q.preview = r.preview /\ q.patch = r.patch
      /\ q.sandbox = r.sandbox /\ q.shape = r.shape /\ q.reason = r.reason /\ q.todo = r.todo
  BY <1>2, <1>3, NoRunFields DEF RunInv, Typed
<1>5. Typed(q)
  BY <1>2, <1>4 DEF RunInv, Typed, Started, Writing
<1>v. Viewing(q)
  BY <1>2, <1>4, EmptySandbox DEF RunInv, Typed, Viewing, Started, Approving, Leaves
<1>h. q.role = "sandbox" => Held(q)
  BY <1>2, <1>4 DEF RunInv, Typed, Held, Started, Approving, Leaves, Tested
<1>6. Thorough(q)
  BY <1>2, <1>4 DEF RunInv, Thorough, Started
<1>7. Approved(q)
  <2>1. pull.head \in DOMAIN Commits /\ Later(pull.head, pull.head)
    BY <1>2 DEF PullInv, Later
  <2> QED
    BY <1>4, <2>1 DEF Approved, Approving
<1>8. q.role = "sandbox" => Vouched(w, q)
  BY <1>2, <1>4 DEF RunInv, Vouched, Started, Writing
<1> QED
  BY <1>3, <1>5, <1>6, <1>7, <1>8, <1>v, <1>h DEF RunInv

LEMMA ReadReviewsInv ==
    ASSUME IInv, NEW w \in Runs, ReadReviews(w)
    PROVE  \E q : Turn(w, q) /\ RunInv(w, q)
<1>1. PICK r : r = run[w]
  OBVIOUS
<1>2. RunInv(w, r) /\ DOMAIN run = Runs /\ r.pc = "reviews" /\ ReviewsInv
  BY <1>1 DEF IInv, ReadReviews, At
<1>3. r.role # "ci" /\ ~Writing(r) /\ DOMAIN r = Fields /\ "ReviewNotApproved" # None
  BY <1>2, RunsAssumption DEF RunInv, Typed, Writing
<1>4. CASE /\ OpenAndApproved(r.seen) /\ MarkerFound(r.seen.body, r.preview)
           /\ ReviewerApproved(reviews, r.seen.head)
  <2>1. run' = [run EXCEPT ![w].pc = "files", ![w].seen = [head |-> r.seen.head]]
    BY <1>1, <1>4 DEF ReadReviews
  <2>2. PICK q : Turn(w, q) /\ q = [r EXCEPT !.pc = "files", !.seen = [head |-> r.seen.head]]
    BY <1>1, <1>2, <2>1 DEF Turn
  <2>3. /\ DOMAIN q = Fields /\ q.pc = "files" /\ q.seen.head = r.seen.head /\ q.ops = r.ops
        /\ q.role = r.role /\ q.view = r.view /\ q.report = r.report
        /\ q.preview = r.preview /\ q.patch = r.patch
        /\ q.sandbox = r.sandbox /\ q.shape = r.shape /\ q.reason = r.reason /\ q.todo = r.todo
    BY <1>3, <2>2, NoRunFields
  <2>4. Typed(q)
    BY <1>2, <2>3 DEF RunInv, Typed, Started, Writing
  <2>v. Viewing(q)
    BY <1>2, <2>3, EmptySandbox DEF RunInv, Typed, Viewing, Started, Approving, Leaves
  <2>h. q.role = "sandbox" => Held(q)
    BY <1>2, <2>3 DEF RunInv, Typed, Held, Started, Approving, Leaves, Tested
  <2>5. Thorough(q)
    BY <1>2, <2>3 DEF RunInv, Thorough, Started
  <2>6. HasApproval(q.seen.head)
    <3>1. PICK v \in Latest(reviews) : v.state = "APPROVED" /\ v.commit = r.seen.head
      BY <1>2, <1>4 DEF ReviewerApproved, ReviewsInv
    <3> QED
      BY <2>3, <3>1 DEF HasApproval, Latest
  <2>7. Approved(q)
    BY <1>2, <2>3, <2>6 DEF RunInv, Approved, Approving
  <2>8. q.role = "sandbox" => Vouched(w, q)
    BY <1>2, <2>3 DEF RunInv, Vouched, Started, Writing
  <2> QED
    BY <2>2, <2>4, <2>5, <2>7, <2>8, <2>v, <2>h DEF RunInv
<1>5. CASE ~(/\ OpenAndApproved(r.seen) /\ MarkerFound(r.seen.body, r.preview)
             /\ ReviewerApproved(reviews, r.seen.head))
  <2>1. PICK u : u = [r EXCEPT !.cause = r.seen.body]
    OBVIOUS
  <2>2. /\ u.role = r.role /\ u.preview = r.preview /\ u.sandbox = r.sandbox
        /\ u.shape = r.shape /\ u.report = r.report
    BY <1>3, <2>1, NoRunFields
  <2>3. Block(w, u, "ReviewNotApproved") \/ Block(w, r, "ReviewNotApproved")
    BY <1>1, <1>5, <2>1 DEF ReadReviews
  <2> QED
    BY <1>1, <1>3, <2>2, <2>3, BlockSelfInv
<1> QED
  BY <1>4, <1>5

LEMMA ReadFilesInv ==
    ASSUME IInv, NEW w \in Runs, ReadFiles(w)
    PROVE  \E q : Turn(w, q) /\ RunInv(w, q)
<1>1. PICK r : r = run[w]
  OBVIOUS
<1>2. RunInv(w, r) /\ DOMAIN run = Runs /\ r.pc = "files" /\ PullInv
  BY <1>1 DEF IInv, ReadFiles, At
<1>3. r.role # "ci" /\ ~Writing(r) /\ DOMAIN r = Fields /\ "ReviewNotApproved" # None
  BY <1>2, RunsAssumption DEF RunInv, Typed, Writing
<1>4. CASE FilesMatch(pull.head, r.seen.head, r.preview.changes)
  <2>1. PICK q : Turn(w, q) /\ q = [r EXCEPT !.pc = "again"]
    BY <1>1, <1>2, <1>4 DEF Turn, ReadFiles, Step
  <2>2. /\ DOMAIN q = Fields /\ q.pc = "again" /\ q.seen = r.seen /\ q.ops = r.ops
        /\ q.role = r.role /\ q.view = r.view /\ q.report = r.report
        /\ q.preview = r.preview /\ q.patch = r.patch
        /\ q.sandbox = r.sandbox /\ q.shape = r.shape /\ q.reason = r.reason /\ q.todo = r.todo
    BY <1>3, <2>1, NoRunFields
  <2>3. Typed(q)
    BY <1>2, <2>2 DEF RunInv, Typed, Started, Writing
  <2>v. Viewing(q)
    BY <1>2, <2>2, EmptySandbox DEF RunInv, Typed, Viewing, Started, Approving, Leaves
  <2>h. q.role = "sandbox" => Held(q)
    BY <1>2, <2>2 DEF RunInv, Typed, Held, Started, Approving, Leaves, Tested
  <2>4. Thorough(q)
    BY <1>2, <2>2 DEF RunInv, Thorough, Started
  <2>5. Approved(q)
    <3>1. pull.head \in DOMAIN Commits /\ Later(pull.head, pull.head)
      BY <1>2 DEF PullInv, Later
    <3>2. r.seen.head \in DOMAIN Commits /\ Later(r.seen.head, pull.head)
          /\ HasApproval(r.seen.head)
      BY <1>2 DEF RunInv, Approved
    <3> QED
      BY <1>4, <2>2, <3>1, <3>2 DEF Approved, Approving
  <2>6. q.role = "sandbox" => Vouched(w, q)
    BY <1>2, <2>2 DEF RunInv, Vouched, Started, Writing
  <2> QED
    BY <2>1, <2>3, <2>4, <2>5, <2>6, <2>v, <2>h DEF RunInv
<1>5. CASE ~FilesMatch(pull.head, r.seen.head, r.preview.changes)
  <2>1. Block(w, r, "ReviewNotApproved")
    BY <1>1, <1>5 DEF ReadFiles
  <2> QED
    BY <1>1, <1>3, <2>1, BlockSelfInv
<1> QED
  BY <1>4, <1>5

\* The head is the one first viewed, so it was the head when its files were listed.
LEMMA ViewAgainInv ==
    ASSUME IInv, NEW w \in Runs, ViewAgain(w)
    PROVE  \E q : Turn(w, q) /\ RunInv(w, q)
<1>1. PICK r : r = run[w]
  OBVIOUS
<1>2. RunInv(w, r) /\ DOMAIN run = Runs /\ r.pc = "again"
  BY <1>1 DEF IInv, ViewAgain, At
<1>3. r.role # "ci" /\ ~Writing(r) /\ DOMAIN r = Fields /\ "ReviewNotApproved" # None
  BY <1>2, RunsAssumption DEF RunInv, Typed, Writing
<1>4. CASE StillApproved(w)
  <2>1. PICK q : Turn(w, q) /\ q = [r EXCEPT !.pc = "copy"]
    BY <1>1, <1>2, <1>4 DEF Turn, ViewAgain, Step
  <2>2. /\ DOMAIN q = Fields /\ q.pc = "copy" /\ q.seen = r.seen /\ q.ops = r.ops
        /\ q.role = r.role /\ q.view = r.view /\ q.report = r.report
        /\ q.preview = r.preview /\ q.patch = r.patch
        /\ q.sandbox = r.sandbox /\ q.shape = r.shape /\ q.reason = r.reason /\ q.todo = r.todo
    BY <1>3, <2>1, NoRunFields
  <2>3. Typed(q)
    BY <1>2, <2>2 DEF RunInv, Typed, Started, Writing
  <2>v. Viewing(q)
    BY <1>2, <2>2, EmptySandbox DEF RunInv, Typed, Viewing, Started, Approving, Leaves
  <2>h. q.role = "sandbox" => Held(q)
    BY <1>2, <2>2 DEF RunInv, Typed, Held, Started, Approving, Leaves, Tested
  <2>4. Thorough(q)
    BY <1>2, <2>2 DEF RunInv, Thorough, Started
  <2>5. Approved(q)
    <3>1. PICK p \in DOMAIN Commits :
            /\ Later(r.seen.head, p) /\ Later(p, pull.head)
            /\ FilesMatch(p, r.seen.head, r.preview.changes)
      BY <1>2 DEF RunInv, Approved
    <3>2. r.seen.head = pull.head /\ r.seen.head \in DOMAIN Commits /\ HasApproval(r.seen.head)
      BY <1>1, <1>2, <1>4 DEF StillApproved, RunInv, Approved
    <3>3. p = r.seen.head
      BY <3>1, <3>2, LaterBothWays
    <3> QED
      BY <2>2, <3>1, <3>2, <3>3 DEF Approved
  <2>6. q.role = "sandbox" => Vouched(w, q)
    BY <1>2, <2>2 DEF RunInv, Vouched, Started, Writing
  <2> QED
    BY <2>1, <2>3, <2>4, <2>5, <2>6, <2>v, <2>h DEF RunInv
<1>5. CASE ~StillApproved(w)
  <2>1. Block(w, r, "ReviewNotApproved")
    BY <1>1, <1>5 DEF ViewAgain
  <2> QED
    BY <1>1, <1>3, <2>1, BlockSelfInv
<1> QED
  BY <1>4, <1>5

\* File by file the copy becomes the source, if that stays as it was reviewed.
LEMMA CopyInv ==
    ASSUME IInv, NEW w \in Runs, Copy(w)
    PROVE  \E q : Turn(w, q) /\ RunInv(w, q)
<1>1. PICK r : r = run[w]
  OBVIOUS
<1>2. RunInv(w, r) /\ DOMAIN run = Runs /\ r.pc = "copy" /\ source \in Trees
  BY <1>1, TreesAssumption DEF IInv, Copy, At
<1>3. r.role \in {"sandbox", "proposal"} /\ DOMAIN r = Fields /\ IsSandboxTree(r.sandbox)
      /\ r.view = << >>
  BY <1>2 DEF RunInv, Typed, Viewing
<1>4. PICK f \in ToCopy(w) :
        run' = [run EXCEPT ![w].sandbox = With(@, f),
                           ![w].pc = IF ToCopy(w) = {f} THEN "apply" ELSE "copy"]
  BY DEF Copy, FirstOf
<1>5. PICK s : s = With(r.sandbox, f)
  OBVIOUS
<1>6. f \in Files \ Sensitive /\ ToCopy(w) = (Files \ Sensitive) \ DOMAIN r.sandbox
  BY <1>1 DEF ToCopy
<1>7. PICK q : Turn(w, q) /\ q = [r EXCEPT !.sandbox = s,
                                         !.pc = IF ToCopy(w) = {f} THEN "apply" ELSE "copy"]
  BY <1>1, <1>2, <1>4, <1>5 DEF Turn
<1>8. /\ DOMAIN q = Fields /\ q.pc = (IF ToCopy(w) = {f} THEN "apply" ELSE "copy")
      /\ q.seen = r.seen /\ q.ops = r.ops /\ q.sandbox = s
      /\ q.role = r.role /\ q.view = << >> /\ q.report = r.report /\ q.preview = r.preview
      /\ q.patch = r.patch /\ q.shape = r.shape /\ q.reason = r.reason /\ q.todo = r.todo
  BY <1>3, <1>7, NoRunFields
<1>9. /\ IsSandboxTree(s) /\ s = [g \in DOMAIN s |-> s[g]] /\ DOMAIN s = DOMAIN r.sandbox \cup {f}
      /\ s[f] = source[f] /\ \A g \in DOMAIN r.sandbox : g # f => s[g] = r.sandbox[g]
  <2>1. IsSandboxTree(s)
    BY <1>2, <1>3, <1>5, <1>6, WithFile
  <2> QED
    BY <1>5, <2>1 DEF With
<1>10. q.pc = "apply" => s \in [Files \ Sensitive -> Seq(Fragment)]
  <2>1. q.pc = "apply" => DOMAIN s = Files \ Sensitive
    BY <1>3, <1>6, <1>8, <1>9 DEF IsSandboxTree
  <2> QED
    BY <1>9, <2>1 DEF IsSandboxTree
<1>11. Typed(q)
  BY <1>2, <1>3, <1>8, <1>9, <1>10 DEF RunInv, Typed, Started, Writing
<1>12. Viewing(q)
  BY <1>3, <1>8, EmptySandbox DEF Viewing
<1>13. Thorough(q)
  BY <1>2, <1>8 DEF RunInv, Thorough, Started
<1>14. Approved(q)
  BY <1>2, <1>8 DEF RunInv, Approved, Approving
<1>15. q.role = "sandbox" => Vouched(w, q)
  BY <1>2, <1>8 DEF RunInv, Vouched, Started, Writing
<1>16. ASSUME q.role = "sandbox" PROVE Held(q)
  <2>1. Held(r)
    BY <1>2, <1>8, <1>16 DEF RunInv
  <2>2. ASSUME NEW g \in DOMAIN s, source[g] = Base[g] PROVE s[g] = Base[g]
    BY <1>2, <1>9, <2>1, <2>2 DEF Held, Started
  <2> QED
    BY <1>8, <2>2 DEF Held, Started
<1> QED
  BY <1>7, <1>11, <1>12, <1>13, <1>14, <1>15, <1>16 DEF RunInv

\* Applied to the copy, the plan makes the changes that were reviewed.
LEMMA ApplyInv ==
    ASSUME IInv, NEW w \in Runs, Apply(w)
    PROVE  \E q : Turn(w, q) /\ RunInv(w, q)
<1>1. PICK r : r = run[w]
  OBVIOUS
<1>2. RunInv(w, r) /\ DOMAIN run = Runs /\ r.pc = "apply"
  BY <1>1 DEF IInv, Apply, At
<1>3. r.role \in {"sandbox", "proposal"} /\ ~Writing(r) /\ DOMAIN r = Fields
      /\ "EditMismatch" # None /\ r.ops \in Seq(Operations)
      /\ r.sandbox \in [Files \ Sensitive -> Seq(Fragment)]
  BY <1>2, RunsAssumption, TreesAssumption DEF RunInv, Typed, Writing, Started
<1>4. CASE Applicable(r.sandbox, r.ops)
  <2>1. run' = [run EXCEPT ![w].pc = "rescan", ![w].ops = << >>,
                           ![w].patch = Changes(r.sandbox, r.ops),
                           ![w].sandbox = Edited(r.sandbox, r.ops)]
    BY <1>1, <1>4 DEF Apply
  <2>2. PICK q : Turn(w, q) /\ q = [r EXCEPT !.pc = "rescan", !.ops = << >>,
                                           !.patch = Changes(r.sandbox, r.ops),
                                           !.sandbox = Edited(r.sandbox, r.ops)]
    BY <1>1, <1>2, <2>1 DEF Turn
  <2>3. /\ DOMAIN q = Fields /\ q.pc = "rescan" /\ q.seen = r.seen
        /\ q.sandbox = Edited(r.sandbox, r.ops) /\ q.patch = Changes(r.sandbox, r.ops)
        /\ q.role = r.role /\ q.view = r.view /\ q.report = r.report /\ q.preview = r.preview
        /\ q.shape = r.shape /\ q.reason = r.reason /\ q.todo = r.todo
    BY <1>3, <2>2, NoRunFields
  <2>4. Paths(r.ops) \subseteq Files \ Sensitive
    <3>1. \A i \in DOMAIN r.ops : r.ops[i] \in Operations
      BY <1>3
    <3> QED
      BY <1>4, <3>1 DEF Applicable, Paths, Operations
  <2>5. \A f \in DOMAIN q.patch : q.patch[f] \in ChangeSets
    <3>1. PICK tree : tree = r.sandbox
      OBVIOUS
    <3>2. PICK ops : ops = r.ops
      OBVIOUS
    <3>3. PICK D : D = Files \ Sensitive
      OBVIOUS
    <3>4. tree \in [D -> Seq(Fragment)] /\ ops \in Seq(Operations) /\ Paths(ops) \subseteq D
      BY <1>3, <2>4, <3>1, <3>2, <3>3
    <3>5. \A f \in DOMAIN Changes(tree, ops) : Changes(tree, ops)[f] \in ChangeSets
      BY <3>4, ChangesTyped, Zenon
    <3> QED
      BY <2>3, <3>1, <3>2, <3>5, Zenon
  <2>6. /\ q.sandbox \in [Files \ Sensitive -> Seq(Fragment)]
        /\ q.sandbox = Rewritten(r.sandbox, Changes(r.sandbox, r.ops))
    BY <1>3, <2>3, EditedIsRewritten
  <2>7. Typed(q)
    <3>1. IsSandboxTree(q.sandbox)
      BY <2>6 DEF IsSandboxTree
    <3> QED
      BY <1>2, <2>3, <2>5, <2>6, <3>1 DEF RunInv, Typed, Started, Approving, Writing
  <2>v. Viewing(q)
    BY <1>2, <1>3, <2>3, EmptySandbox DEF RunInv, Viewing
  <2>8. Thorough(q)
    BY <1>2, <2>3 DEF RunInv, Thorough, Started
  <2>9. Approved(q)
    BY <1>2, <2>3 DEF RunInv, Approved, Approving
  <2>10. q.role = "sandbox" => Vouched(w, q)
    BY <1>2, <2>3 DEF RunInv, Vouched, Started, Writing
  <2>11. ASSUME q.role = "sandbox" PROVE Held(q)
    <3>1. Vouched(w, r) /\ Held(r) /\ q.view = << >>
      BY <1>2, <2>3, <2>11 DEF RunInv, Viewing
    <3>2. ASSUME \A f \in Files \ Sensitive : AsReviewed(q.view, f) PROVE Tested(q)
      <4>1. \A f \in Files \ Sensitive : source[f] = Base[f]
        BY <3>1, <3>2 DEF AsReviewed
      <4>2. \A f \in Files \ Sensitive : r.sandbox[f] = Digest(Base)[f]
        BY <1>2, <1>3, <3>1, <4>1, DigestOfBase DEF Held, Started
      <4>3. r.sandbox = Digest(Base)
        BY <1>3, <4>2, DigestOfBase
      <4>4. r.preview.source = r.sandbox /\ r.preview.changes = Changes(r.sandbox, r.ops)
        BY <1>2, <3>1, <4>3 DEF Vouched, Started
      <4> QED
        BY <2>3, <2>6, <4>4 DEF Tested
    <3> QED
      BY <2>3, <3>2 DEF Held, Started
  <2> QED
    BY <2>2, <2>7, <2>8, <2>9, <2>10, <2>11, <2>v DEF RunInv
<1>5. CASE ~Applicable(r.sandbox, r.ops)
  <2>1. Block(w, r, "EditMismatch") \/ Raise(w)
    BY <1>1, <1>5 DEF Apply
  <2> QED
    BY <1>1, <1>2, <1>3, <2>1, BlockSelfInv, RaiseInv
<1> QED
  BY <1>4, <1>5

LEMMA RescanFailsInv ==
    ASSUME IInv, NEW w \in Runs, RescanFails(w)
    PROVE  \E q : Turn(w, q) /\ RunInv(w, q)
<1>1. run[w].role # "ci" /\ ~Writing(run[w])
  BY DEF IInv, RunInv, Typed, RescanFails, At, Writing
<1>2. Block(w, run[w], "RescanFailed") /\ "RescanFailed" # None
  BY RunsAssumption DEF RescanFails
<1> QED
  BY <1>1, <1>2, BlockSelfInv

LEMMA RescanInv ==
    ASSUME IInv, NEW w \in Runs, Rescan(w)
    PROVE  \E q : Turn(w, q) /\ RunInv(w, q)
<1>1. PICK r : r = run[w]
  OBVIOUS
<1>2. RunInv(w, r) /\ DOMAIN run = Runs /\ r.pc = "rescan"
  BY <1>1 DEF IInv, Rescan, At
<1>3. r.role # "ci" /\ DOMAIN r = Fields /\ None # "report"
  BY <1>2, RunsAssumption DEF RunInv, Typed
<1>4. PICK shape \in Shapes, outcome \in Outcomes, order \in Orders :
         run' = [run EXCEPT ![w].pc = "judge", ![w].shape = shape,
                   ![w].report = IF shape = "report"
                     THEN ScanPaths(r.sandbox, outcome, order, {}, Threshold, 0, 0) ELSE None]
  BY <1>1 DEF Rescan
<1>5. PICK report : report = IF shape = "report"
                     THEN ScanPaths(r.sandbox, outcome, order, {}, Threshold, 0, 0) ELSE None
  OBVIOUS
<1>6. PICK q : Turn(w, q) /\ q = [r EXCEPT !.pc = "judge", !.shape = shape, !.report = report]
  BY <1>1, <1>2, <1>4, <1>5 DEF Turn
<1>7. /\ DOMAIN q = Fields /\ q.pc = "judge" /\ q.seen = r.seen
      /\ q.sandbox = r.sandbox /\ q.patch = r.patch
      /\ q.role = r.role /\ q.view = r.view /\ q.report = report /\ q.preview = r.preview
      /\ q.shape = shape /\ q.reason = r.reason /\ q.todo = r.todo
  BY <1>3, <1>6, NoRunFields
<1>8. Typed(q)
  BY <1>2, <1>7 DEF RunInv, Typed, Started, Approving, Writing
<1>v. Viewing(q)
  BY <1>2, <1>7, EmptySandbox DEF RunInv, Typed, Viewing, Started, Approving, Leaves
<1>h. q.role = "sandbox" => Held(q)
  BY <1>2, <1>7 DEF RunInv, Typed, Held, Started, Approving, Leaves, Tested
<1>9. Thorough(q)
  <2>1. shape = "report" => report.at = 0
    BY <1>5 DEF ScanPaths
  <2> QED
    BY <1>3, <1>5, <1>7, <2>1 DEF Thorough, Started
<1>10. Approved(q)
  BY <1>2, <1>7 DEF RunInv, Approved, Approving
<1>11. q.role = "sandbox" => Vouched(w, q)
  BY <1>2, <1>7 DEF RunInv, Vouched, Started, Writing, Tested
<1> QED
  BY <1>6, <1>8, <1>9, <1>10, <1>11, <1>v, <1>h DEF RunInv

LEMMA JudgeInv ==
    ASSUME IInv, NEW w \in Runs, Judge(w)
    PROVE  \E q : Turn(w, q) /\ RunInv(w, q)
<1>1. PICK r : r = run[w]
  OBVIOUS
<1>2. RunInv(w, r) /\ DOMAIN run = Runs /\ r.pc = "judge"
  BY <1>1 DEF IInv, Judge, At
<1>3. r.role # "ci" /\ DOMAIN r = Fields /\ ~Writing(r) /\ r.shape \in Shapes
  BY <1>2 DEF RunInv, Typed, Writing
<1>4. CASE Verdict(r) = None
  <2>1. PICK q : Turn(w, q) /\ q = [r EXCEPT !.pc = "recheck"]
    BY <1>1, <1>2, <1>4 DEF Turn, Judge, Step
  <2>2. /\ DOMAIN q = Fields /\ q.pc = "recheck" /\ q.seen = r.seen
        /\ q.sandbox = r.sandbox /\ q.patch = r.patch
        /\ q.role = r.role /\ q.view = r.view /\ q.report = r.report /\ q.preview = r.preview
        /\ q.shape = r.shape /\ q.reason = r.reason /\ q.todo = r.todo
    BY <1>3, <2>1, NoRunFields
  <2>3. Typed(q)
    BY <1>2, <2>2 DEF RunInv, Typed, Started, Approving, Writing
  <2>v. Viewing(q)
    BY <1>2, <2>2, EmptySandbox DEF RunInv, Typed, Viewing, Started, Approving, Leaves
  <2>h. q.role = "sandbox" => Held(q)
    BY <1>2, <2>2 DEF RunInv, Typed, Held, Started, Approving, Leaves, Tested
  <2>4. Thorough(q)
    BY <1>2, <2>2 DEF RunInv, Thorough, Started, Writing
  <2>5. Approved(q)
    BY <1>2, <2>2 DEF RunInv, Approved, Approving
  <2>6. Passing(q)
    <3>1. r.shape \in {"report", "malformed", "foreign"}
      BY <1>3, RunsAssumption
    <3>2. /\ r.shape = "report" /\ r.report.fingerprints \cap Targets = {}
          /\ r.report.status = "PASS" /\ r.report.gate = "PASS"
      BY <1>4, <3>1, RunsAssumption DEF Verdict
    <3> QED
      BY <2>2, <3>2 DEF Passing
  <2>7. q.role = "sandbox" => Vouched(w, q)
    BY <1>2, <2>2, <2>6 DEF RunInv, Vouched, Started, Writing, Tested
  <2> QED
    BY <2>1, <2>3, <2>4, <2>5, <2>7, <2>v, <2>h DEF RunInv
<1>5. CASE Verdict(r) # None
  <2>1. Block(w, r, Verdict(r))
    BY <1>1, <1>5 DEF Judge
  <2> QED
    BY <1>1, <1>3, <1>5, <2>1, BlockSelfInv
<1> QED
  BY <1>4, <1>5

\* Every file still has the content the preview was made of, so it had it all along.
LEMMA RecheckInv ==
    ASSUME IInv, NEW w \in Runs, Recheck(w)
    PROVE  \E q : Turn(w, q) /\ RunInv(w, q)
<1>1. PICK r : r = run[w]
  OBVIOUS
<1>2. RunInv(w, r) /\ DOMAIN run = Runs /\ r.pc = "recheck" /\ source \in Trees
  BY <1>1, TreesAssumption DEF IInv, Recheck, At
<1>3. r.role \in {"sandbox", "proposal"} /\ DOMAIN r = Fields /\ ~Writing(r)
  BY <1>2 DEF RunInv, Typed, Writing
<1>4. PICK f \in FirstOf(ToDigest(w)) :
        LET view == With(r.view, f) IN
        IF ToDigest(w) # {f} THEN run' = [run EXCEPT ![w].view = view]
        ELSE IF ~SourceUnchanged(w, view)
        THEN Block(w, r, IF Role(w) = "proposal" THEN "SourceChangedDuringRescan"
                                                 ELSE "SourceChangedDuringSandbox")
        ELSE run' = [run EXCEPT ![w] =
               IF Role(w) = "proposal" THEN Ended(r, "answered")
               ELSE [r EXCEPT !.pc = "open", !.view = << >>,
                              !.todo = <<"patch", "report", "result">>]]
  BY <1>1 DEF Recheck
<1>5. PICK view : view = With(r.view, f)
  OBVIOUS
<1>6. f \in Files \ Sensitive /\ f \notin DOMAIN r.view
  BY <1>1, ToDigestFile
<1>7. IsSandboxTree(view)
  BY <1>2, <1>5, <1>6, WithFile DEF RunInv, Viewing
<1>8. \A g : AsReviewed(view, g) => AsReviewed(r.view, g)
  BY <1>5, <1>6, WithReviewed
<1>9. CASE ToDigest(w) # {f}
  <2>1. PICK q : Turn(w, q) /\ q = [r EXCEPT !.view = view]
    BY <1>1, <1>2, <1>4, <1>5, <1>9 DEF Turn
  <2>2. /\ DOMAIN q = Fields /\ q.pc = "recheck" /\ q.seen = r.seen
        /\ q.sandbox = r.sandbox /\ q.patch = r.patch
        /\ q.role = r.role /\ q.view = view /\ q.report = r.report /\ q.preview = r.preview
        /\ q.shape = r.shape /\ q.reason = r.reason /\ q.todo = r.todo
    BY <1>2, <1>3, <2>1, NoRunFields
  <2>3. Typed(q)
    BY <1>2, <2>2 DEF RunInv, Typed, Started, Approving, Writing
  <2>4. Viewing(q)
    BY <1>3, <1>7, <2>2 DEF Viewing
  <2>5. Thorough(q)
    BY <1>2, <2>2 DEF RunInv, Thorough, Started, Writing
  <2>6. Approved(q)
    BY <1>2, <2>2 DEF RunInv, Approved, Approving
  <2>7. q.role = "sandbox" => Vouched(w, q)
    BY <1>2, <2>2 DEF RunInv, Vouched, Started, Writing, Passing
  <2>8. ASSUME q.role = "sandbox" PROVE Held(q)
    <3>1. (\A g \in Files \ Sensitive : AsReviewed(q.view, g)) => Tested(r)
      BY <1>2, <1>8, <2>2, <2>8 DEF RunInv, Held
    <3> QED
      BY <2>2, <3>1 DEF Held, Started, Tested
  <2> QED
    BY <2>1, <2>3, <2>4, <2>5, <2>6, <2>7, <2>8 DEF RunInv
<1>10. CASE ToDigest(w) = {f} /\ ~SourceUnchanged(w, view)
  <2>1. PICK reason : /\ reason \in {"SourceChangedDuringRescan", "SourceChangedDuringSandbox"}
                      /\ Block(w, r, reason)
    BY <1>4, <1>5, <1>10
  <2>2. reason # None
    BY <2>1, RunsAssumption
  <2> QED
    BY <1>1, <1>3, <2>1, <2>2, BlockSelfInv
<1>11. CASE ToDigest(w) = {f} /\ SourceUnchanged(w, view) /\ Role(w) = "proposal"
  <2>1. Turn(w, Ended(r, "answered"))
    BY <1>2, <1>4, <1>5, <1>11 DEF Turn
  <2>2. RunInv(w, Ended(r, "answered"))
    BY <1>3, EndedInv DEF Leaves
  <2> QED
    BY <2>1, <2>2
<1>12. CASE ToDigest(w) = {f} /\ SourceUnchanged(w, view) /\ Role(w) # "proposal"
  <2>1. PICK q : Turn(w, q) /\ q = [r EXCEPT !.pc = "open", !.view = << >>,
                                           !.todo = <<"patch", "report", "result">>]
    BY <1>2, <1>4, <1>5, <1>12 DEF Turn
  <2>2. /\ DOMAIN q = Fields /\ q.pc = "open" /\ q.seen = r.seen
        /\ q.sandbox = r.sandbox /\ q.patch = r.patch
        /\ q.role = r.role /\ q.view = << >> /\ q.report = r.report /\ q.preview = r.preview
        /\ q.shape = r.shape /\ q.reason = r.reason
        /\ q.todo = <<"patch", "report", "result">> /\ r.role = "sandbox"
    BY <1>1, <1>3, <1>12, <2>1, NoRunFields DEF Role
  <2>3. Typed(q)
    BY <1>2, <2>2 DEF RunInv, Typed, Started, Approving, Writing
  <2>4. Viewing(q)
    BY <2>2, EmptySandbox DEF Viewing
  <2>5. Thorough(q)
    BY <1>2, <2>2 DEF RunInv, Thorough, Started, Writing
  <2>6. Approved(q)
    BY <1>2, <2>2 DEF RunInv, Approved, Approving
  <2>7. Vouched(w, q)
    <3>1. Vouched(w, r) /\ Held(r)
      BY <1>2, <2>2 DEF RunInv
    <3>2. view = Digest(Base)
      BY <1>1, <1>2, <1>12, <3>1 DEF Vouched, SourceUnchanged
    <3>3. \A g \in Files \ Sensitive : AsReviewed(r.view, g)
      BY <1>8, <3>2, ViewOfBase
    <3>4. Tested(r) /\ Passing(r)
      BY <1>2, <3>1, <3>3 DEF Vouched, Held
    <3>5. Tested(q) /\ Passing(q)
      BY <2>2, <3>4 DEF Tested, Passing
    <3>6. q.todo # <<"result">>
      BY <2>2
    <3> QED
      BY <2>2, <3>5, <3>6 DEF Vouched, Started, Writing
  <2>8. Held(q)
    BY <2>2 DEF Held, Started
  <2> QED
    BY <2>1, <2>3, <2>4, <2>5, <2>6, <2>7, <2>8 DEF RunInv
<1> QED
  BY <1>9, <1>10, <1>11, <1>12

LEMMA CrashInv ==
    ASSUME IInv, NEW w \in Runs, Crash(w)
    PROVE  \E q : Turn(w, q) /\ RunInv(w, q)
<1>1. run[w].role \in {"sandbox", "proposal"} /\ DOMAIN run = Runs
  BY DEF IInv, RunInv, Typed, Crash
<1>2. Turn(w, Ended(run[w], "crashed"))
  BY <1>1 DEF Crash, Turn
<1>3. RunInv(w, Ended(run[w], "crashed"))
  BY <1>1, EndedInv DEF Leaves
<1> QED
  BY <1>2, <1>3

LEMMA LoadExceptionsInv ==
    ASSUME IInv, NEW w \in Runs, LoadExceptions(w)
    PROVE  \E q : Turn(w, q) /\ RunInv(w, q)
<1>1. PICK r : r = run[w]
  OBVIOUS
<1>2. RunInv(w, r) /\ DOMAIN run = Runs /\ r.pc = "start" /\ r.role = "ci"
  BY <1>1 DEF IInv, LoadExceptions, At, Role
<1>3. PICK t \in Times : \E q : Turn(w, q) /\ q = [r EXCEPT !.pc = "scan", !.loaded = t]
  BY <1>1, <1>2 DEF LoadExceptions, Turn
<1>4. PICK q : Turn(w, q) /\ q = [r EXCEPT !.pc = "scan", !.loaded = t]
  BY <1>3
<1>5. /\ DOMAIN q = Fields /\ q.pc = "scan" /\ q.loaded = t /\ q.sandbox = r.sandbox /\ q.patch = r.patch
      /\ q.role = "ci" /\ q.view = r.view /\ q.report = r.report /\ q.preview = r.preview
      /\ q.shape = r.shape /\ q.reason = r.reason /\ q.todo = r.todo
  BY <1>2, <1>4, NoRunFields DEF RunInv, Typed
<1>6. Typed(q)
  BY <1>2, <1>5 DEF RunInv, Typed, Started, Approving, Writing
<1>v. Viewing(q)
  BY <1>2, <1>5, EmptySandbox DEF RunInv, Typed, Viewing, Started, Approving, Leaves
<1>h. q.role = "sandbox" => Held(q)
  BY <1>2, <1>5 DEF RunInv, Typed, Held, Started, Approving, Leaves, Tested
<1>7. Thorough(q)
  BY <1>2, <1>5 DEF RunInv, Thorough, Started, Writing
<1>8. Approved(q)
  BY <1>5 DEF Approved, Approving
<1> QED
  BY <1>4, <1>5, <1>6, <1>7, <1>8, <1>v, <1>h DEF RunInv

LEMMA ScanTreeInv ==
    ASSUME IInv, NEW w \in Runs, ScanTree(w)
    PROVE  \E q : Turn(w, q) /\ RunInv(w, q)
<1>1. PICK r : r = run[w]
  OBVIOUS
<1>2. RunInv(w, r) /\ DOMAIN run = Runs /\ r.pc = "scan" /\ r.role = "ci"
  BY <1>1 DEF IInv, ScanTree, At, RunInv, Typed
<1>3. PICK outcome \in Outcomes, order \in Orders, t \in {u \in Times : u >= r.loaded} :
        run' = [run EXCEPT ![w].pc = "judged", ![w].sandbox = source,
                  ![w].report = ScanPaths(source, outcome, order, Exceptions, Threshold, r.loaded, t)]
  BY <1>1 DEF ScanTree
<1>4. PICK report : report = ScanPaths(source, outcome, order, Exceptions, Threshold, r.loaded, t)
  OBVIOUS
<1>5. PICK q : Turn(w, q) /\ q = [r EXCEPT !.pc = "judged", !.sandbox = source, !.report = report]
  BY <1>1, <1>2, <1>3, <1>4 DEF Turn
<1>6. /\ DOMAIN q = Fields /\ q.pc = "judged" /\ q.sandbox = source /\ q.patch = r.patch
      /\ q.role = "ci" /\ q.view = r.view /\ q.report = report /\ q.preview = r.preview
      /\ q.shape = r.shape /\ q.reason = r.reason /\ q.todo = r.todo
  BY <1>2, <1>5, NoRunFields DEF RunInv, Typed
<1>7. Typed(q)
  BY <1>2, <1>6 DEF RunInv, Typed, Started, Approving, Writing
<1>v. Viewing(q)
  <2>1. IsCheckout(source)
    BY TreesAssumption DEF IInv, IsCheckout, Trees
  <2> QED
    BY <1>2, <1>6, <2>1 DEF RunInv, Viewing
<1>h. q.role = "sandbox" => Held(q)
  BY <1>2, <1>6 DEF RunInv, Typed, Held, Started, Approving, Leaves, Tested
<1>8. Thorough(q)
  <2>1. report.at = t
    BY <1>4 DEF ScanPaths
  <2>2. r.loaded \in Times
    BY <1>2 DEF RunInv, Typed
  <2> QED
    BY <1>4, <1>6, <2>1, <2>2 DEF Thorough, Started
<1>9. Approved(q)
  BY <1>6 DEF Approved, Approving
<1> QED
  BY <1>5, <1>6, <1>7, <1>8, <1>9, <1>v, <1>h DEF RunInv

LEMMA OpenTempInv ==
    ASSUME IInv, NEW w \in Runs, OpenTemp(w)
    PROVE  (\E q : Turn(w, q) /\ RunInv(w, q)) /\ temps' \subseteq Outputs
<1>1. PICK r : r = run[w]
  OBVIOUS
<1>2. RunInv(w, r) /\ DOMAIN run = Runs /\ r.pc = "open" /\ temps \subseteq Outputs
  BY <1>1 DEF IInv, OpenTemp, At, FilesInv
<1>3. r.role \in {"sandbox", "proposal"} /\ DOMAIN r = Fields
      /\ r.todo \in {<<"patch", "report", "result">>, <<"report", "result">>, <<"result">>}
  BY <1>2 DEF RunInv, Typed, Writing
<1>4. CASE Raise(w) /\ UNCHANGED temps
  BY <1>1, <1>2, <1>3, <1>4, RaiseInv
<1>5. CASE Step(w, "link") /\ temps' = temps \cup {Head(r.todo)}
  <2>1. PICK q : Turn(w, q) /\ q = [r EXCEPT !.pc = "link"]
    BY <1>1, <1>2, <1>5 DEF Turn, Step
  <2>2. /\ DOMAIN q = Fields /\ q.pc = "link" /\ q.seen = r.seen
        /\ q.sandbox = r.sandbox /\ q.patch = r.patch
        /\ q.role = r.role /\ q.view = r.view /\ q.report = r.report /\ q.preview = r.preview
        /\ q.shape = r.shape /\ q.reason = r.reason /\ q.todo = r.todo
    BY <1>3, <2>1, NoRunFields
  <2>3. Typed(q)
    BY <1>2, <2>2 DEF RunInv, Typed, Started, Approving, Writing
  <2>v. Viewing(q)
    BY <1>2, <2>2, EmptySandbox DEF RunInv, Typed, Viewing, Started, Approving, Leaves
  <2>h. q.role = "sandbox" => Held(q)
    BY <1>2, <2>2 DEF RunInv, Typed, Held, Started, Approving, Leaves, Tested
  <2>4. Thorough(q)
    BY <1>2, <2>2 DEF RunInv, Thorough, Started, Writing
  <2>5. Approved(q)
    BY <1>2, <2>2 DEF RunInv, Approved, Approving
  <2>6. q.role = "sandbox" => Vouched(w, q)
    <3>1. Tested(r) = Tested(q) /\ Passing(r) = Passing(q) /\ PatchOut(w, r) = PatchOut(w, q)
          /\ ReportOut(w, r) = ReportOut(w, q)
      BY <2>2 DEF Tested, Passing, PatchOut, ReportOut
    <3> QED
      BY <1>2, <2>2, <3>1 DEF RunInv, Vouched, Started, Writing
  <2>7. Head(r.todo) \in Outputs
    BY <1>3 DEF Outputs
  <2> QED
    BY <1>2, <1>5, <2>1, <2>3, <2>4, <2>5, <2>6, <2>7, <2>v, <2>h DEF RunInv
<1> QED
  BY <1>1, <1>4, <1>5 DEF OpenTemp

----
(* What the others see *)

\* The source does not come back, reviews and outputs stay, the head goes on.
World ==
    /\ \A f \in Files \ Sensitive : source'[f] = Base[f] => source[f] = Base[f]
    /\ reviews \subseteq reviews'
    /\ \A c \in DOMAIN Commits : Later(c, pull.head) => Later(c, pull'.head)
    /\ \A o \in DOMAIN out : o \in DOMAIN out' /\ out'[o] = out[o]

LEMMA CarriedInv ==
    ASSUME World, NEW w, NEW q, RunInv(w, q)
    PROVE  RunInv(w, q)'
<1>1. Approved(q)'
  <2>1. \A head : HasApproval(head) => HasApproval(head)'
    BY DEF World, HasApproval
  <2>2. \A c \in DOMAIN Commits : Later(c, pull.head) => Later(c, pull.head)'
    BY DEF World, Later
  <2> QED
    BY <2>1, <2>2 DEF RunInv, Approved, Later
<1>2. q.role = "sandbox" => Vouched(w, q)'
  <2>1. PatchOut(w, q) => PatchOut(w, q)'
    BY DEF World, PatchOut
  <2>2. ReportOut(w, q) => ReportOut(w, q)'
    BY DEF World, ReportOut
  <2> QED
    BY <2>1, <2>2 DEF RunInv, Vouched, Writing, Tested, Passing
<1>3. ASSUME q.role = "sandbox" PROVE Held(q)'
  <2>1. Held(q) /\ Vouched(w, q)
    BY <1>3 DEF RunInv
  <2>2. \A f \in Files \ Sensitive : source'[f] = Base[f] => source[f] = Base[f]
    BY DEF World
  <2>3. \A f \in Files \ Sensitive : AsReviewed(q.view, f)' => AsReviewed(q.view, f)
    BY <2>2 DEF AsReviewed
  <2>4. DOMAIN q.view \subseteq Files \ Sensitive /\ DOMAIN q.sandbox \subseteq Files \ Sensitive
    BY <1>3 DEF RunInv, Viewing, Typed, IsSandboxTree
  <2>5. q.pc = "digest" => Paths(q.ops) \subseteq Files \ Sensitive
    <3>1. q.pc = "digest" => q.ops \in Plans /\ Paths(q.ops) \cap Sensitive = {}
      BY <2>1 DEF RunInv, Typed, Vouched, Started
    <3> QED
      BY <3>1, PathsAreFiles, TreesAssumption
  <2>6. q.pc = "read" => \A f \in DOMAIN q.view : source'[f] = Base[f] => q.view[f] = Base[f]
    BY <2>1, <2>2, <2>4 DEF Held
  <2>7. q.pc = "digest" =>
         /\ q.patch = [f \in Paths(q.ops) |-> q.patch[f]]
         /\ \A f \in Paths(q.ops) :
              AsReviewed(q.view, f)' => q.patch[f] = Changes(Digest(Base), q.ops)[f]
    BY <2>1, <2>3, <2>5 DEF Held
  <2>8. q.pc \in {"start"} \cup Started =>
         \A f \in DOMAIN q.sandbox : source'[f] = Base[f] => q.sandbox[f] = Base[f]
    BY <2>1, <2>2, <2>4 DEF Held
  <2>9. q.pc \in {"rescan", "judge", "recheck"} =>
         ((\A f \in Files \ Sensitive : AsReviewed(q.view, f)') => Tested(q))
    BY <2>1, <2>3 DEF Held
  <2> QED
    BY <2>6, <2>7, <2>8, <2>9 DEF Held, Tested
<1>4. Typed(q)' /\ Thorough(q)'
  BY DEF RunInv, Typed, Thorough, Writing
<1>5. Viewing(q)'
  BY DEF RunInv, Viewing
<1> QED
  BY <1>1, <1>2, <1>3, <1>4, <1>5 DEF RunInv

----
(* Linking an output *)

LEMMA Todos ==
    /\ Head(<<"patch", "report", "result">>) = "patch"
    /\ Head(<<"report", "result">>) = "report"
    /\ Head(<<"result">>) = "result"
    /\ Tail(<<"patch", "report", "result">>) = <<"report", "result">>
    /\ Tail(<<"report", "result">>) = <<"result">>
    /\ Len(<<"patch", "report", "result">>) = 3
    /\ Len(<<"report", "result">>) = 2
    /\ Len(<<"result">>) = 1
    /\ <<"report", "result">> # <<"patch", "report", "result">>
    /\ <<"result">> # <<"patch", "report", "result">>
    /\ <<"result">> # <<"report", "result">>
OBVIOUS

\* The output is linked, or the run is raised over a file that is there.
LEMMA LinkCases ==
    ASSUME IInv, NEW w \in Runs, LinkOutput(w)
    PROVE  \/ Raise(w) /\ UNCHANGED out
           \/ \E o \in Outputs \ DOMAIN out :
                /\ o = Head(run[w].todo)
                /\ out' = [p \in DOMAIN out \cup {o} |-> IF p = o THEN Content(w, o) ELSE out[p]]
                /\ Len(run[w].todo) = 1 => Turn(w, Ended(run[w], "ended"))
                /\ Len(run[w].todo) # 1 =>
                     Turn(w, [run[w] EXCEPT !.pc = "open", !.todo = Tail(run[w].todo)])
<1>1. PICK r : r = run[w]
  OBVIOUS
<1>2. r.todo \in {<<"patch", "report", "result">>, <<"report", "result">>, <<"result">>}
      /\ DOMAIN run = Runs /\ DOMAIN r = Fields
  BY <1>1 DEF IInv, RunInv, Typed, Writing, LinkOutput, At
<1>3. Head(r.todo) \in Outputs
  BY <1>2, Todos DEF Outputs
<1>4. PICK o : o = Head(r.todo)
  OBVIOUS
<1>5. CASE ~Linkable(o)
  BY <1>1, <1>4, <1>5 DEF LinkOutput
<1>6. CASE Linkable(o)
  <2>1. run' = [run EXCEPT ![w] =
          IF Len(r.todo) = 1 THEN Ended(r, "ended")
          ELSE [r EXCEPT !.pc = "open", !.todo = Tail(r.todo)]]
    BY <1>1, <1>4, <1>6 DEF LinkOutput
  <2>2. Len(r.todo) = 1 => Turn(w, Ended(r, "ended"))
    BY <1>1, <1>2, <2>1 DEF Turn
  <2>3. Len(r.todo) # 1 => Turn(w, [r EXCEPT !.pc = "open", !.todo = Tail(r.todo)])
    BY <1>1, <1>2, <2>1 DEF Turn
  <2>4. out' = [p \in DOMAIN out \cup {o} |-> IF p = o THEN Content(w, o) ELSE out[p]]
    BY <1>1, <1>4, <1>6 DEF LinkOutput
  <2>5. o \in Outputs \ DOMAIN out
    BY <1>3, <1>4, <1>6 DEF Linkable
  <2> QED
    BY <1>1, <1>4, <2>2, <2>3, <2>4, <2>5
<1> QED
  BY <1>5, <1>6

LEMMA LinkWorld ==
    ASSUME IInv, NEW w \in Runs, LinkOutput(w)
    PROVE  World /\ temps' \subseteq Outputs /\ DOMAIN out' \subseteq Outputs
<1>1. UNCHANGED <<source, reviews, pull>>
  BY DEF LinkOutput, Environment
<1>2. \A o \in DOMAIN out : o \in DOMAIN out' /\ out'[o] = out[o]
  BY LinkCases
<1>3. World
  BY <1>1, <1>2 DEF World, Later
<1>4. DOMAIN out' \subseteq Outputs
  <2>1. DOMAIN out \subseteq Outputs
    BY DEF IInv, FilesInv
  <2>2. DOMAIN out' = DOMAIN out \/ \E o \in Outputs : DOMAIN out' = DOMAIN out \cup {o}
    BY LinkCases
  <2> QED
    BY <2>1, <2>2
<1>5. temps' \subseteq Outputs
  BY DEF LinkOutput, IInv, FilesInv
<1> QED
  BY <1>3, <1>4, <1>5

LEMMA LinkOutputInv ==
    ASSUME IInv, NEW w \in Runs, LinkOutput(w)
    PROVE  \E q : Turn(w, q) /\ RunInv(w, q)'
<1>1. PICK r : r = run[w]
  OBVIOUS
<1>2. RunInv(w, r) /\ DOMAIN run = Runs /\ r.pc = "link"
  BY <1>1 DEF IInv, LinkOutput, At
<1>3. r.role \in {"sandbox", "proposal"} /\ DOMAIN r = Fields
      /\ r.todo \in {<<"patch", "report", "result">>, <<"report", "result">>, <<"result">>}
  BY <1>2 DEF RunInv, Typed, Writing
<1>4. World
  BY LinkWorld
<1>5. CASE Raise(w)
  <2>1. PICK q : Turn(w, q) /\ RunInv(w, q)
    BY <1>1, <1>2, <1>3, <1>5, RaiseInv
  <2> QED
    BY <1>4, <2>1, CarriedInv
<1>6. CASE \E o \in Outputs \ DOMAIN out :
                /\ o = Head(r.todo)
                /\ out' = [p \in DOMAIN out \cup {o} |-> IF p = o THEN Content(w, o) ELSE out[p]]
                /\ Len(r.todo) = 1 => Turn(w, Ended(r, "ended"))
                /\ Len(r.todo) # 1 =>
                     Turn(w, [r EXCEPT !.pc = "open", !.todo = Tail(r.todo)])
  <2>1. PICK o \in Outputs \ DOMAIN out :
                /\ o = Head(r.todo)
                /\ out' = [p \in DOMAIN out \cup {o} |-> IF p = o THEN Content(w, o) ELSE out[p]]
                /\ Len(r.todo) = 1 => Turn(w, Ended(r, "ended"))
                /\ Len(r.todo) # 1 =>
                     Turn(w, [r EXCEPT !.pc = "open", !.todo = Tail(r.todo)])
    BY <1>6
  <2>2. CASE Len(r.todo) = 1
    <3>1. Turn(w, Ended(r, "ended"))
      BY <2>1, <2>2
    <3>2. RunInv(w, Ended(r, "ended"))
      BY <1>3, EndedInv DEF Leaves
    <3>3. PICK q : q = Ended(r, "ended")
      OBVIOUS
    <3> QED
      BY <1>4, <3>1, <3>2, <3>3, CarriedInv
  <2>3. CASE Len(r.todo) # 1
    <3>1. PICK q : Turn(w, q) /\ q = [r EXCEPT !.pc = "open", !.todo = Tail(r.todo)]
      BY <2>1, <2>3
    <3>2. /\ DOMAIN q = Fields /\ q.pc = "open" /\ q.seen = r.seen
          /\ q.sandbox = r.sandbox /\ q.patch = r.patch
          /\ q.role = r.role /\ q.view = r.view /\ q.report = r.report /\ q.preview = r.preview
          /\ q.shape = r.shape /\ q.reason = r.reason /\ q.todo = Tail(r.todo)
      BY <1>3, <3>1, NoRunFields
    <3>3. \/ r.todo = <<"patch", "report", "result">> /\ o = "patch"
             /\ q.todo = <<"report", "result">>
          \/ r.todo = <<"report", "result">> /\ o = "report" /\ q.todo = <<"result">>
      BY <1>3, <2>1, <2>3, <3>2, Todos
    <3>4. Typed(q)'
      BY <1>2, <3>2, <3>3 DEF RunInv, Typed, Started, Approving, Writing
    <3>v. Viewing(q)'
      BY <1>2, <3>2, <3>3, EmptySandbox DEF RunInv, Typed, Viewing, Started, Approving, Leaves
    <3>h. q.role = "sandbox" => Held(q)'
      BY <1>2, <3>2, <3>3 DEF RunInv, Typed, Held, Started, Approving, Leaves, Tested
    <3>5. Thorough(q)'
      BY <1>2, <3>2 DEF RunInv, Thorough, Started, Writing
    <3>6. Approved(q)
      BY <1>2, <3>2 DEF RunInv, Approved, Approving
    <3>7. Approved(q)'
      <4>1. reviews' = reviews /\ pull' = pull
        BY DEF LinkOutput, Environment
      <4> QED
        BY <3>6, <4>1 DEF Approved, HasApproval, Later
    <3>8. ASSUME q.role = "sandbox" PROVE Vouched(w, q)'
      <4>1. Vouched(w, r)
        BY <1>2, <3>2, <3>8 DEF RunInv
      <4>2. q.reason = None => Tested(q) /\ Passing(q)
        BY <1>2, <3>2, <4>1 DEF Vouched, Writing, Tested, Passing
      <4>3. q.reason = None => PatchOut(w, q)'
        <5>1. CASE o = "patch"
          <6>1. out'["patch"] = Content(w, "patch") /\ "patch" \in DOMAIN out'
            BY <2>1, <5>1
          <6>2. Content(w, "patch").by = w /\ Content(w, "patch").body = r.patch
            BY <1>1 DEF Content
          <6> QED
            BY <3>2, <6>1, <6>2 DEF PatchOut
        <5>2. CASE o # "patch"
          <6>1. q.reason = None => PatchOut(w, r)
            BY <1>2, <3>2, <3>3, <4>1, <5>2, Todos DEF Vouched, Writing
          <6> QED
            BY <1>4, <3>2, <6>1 DEF World, PatchOut
        <5> QED
          BY <5>1, <5>2
      <4>4. q.todo = <<"result">> => ReportOut(w, q)'
        <5>1. q.todo = <<"result">> => o = "report"
          BY <3>3, Todos
        <5>2. o = "report" => out'["report"] = Content(w, "report") /\ "report" \in DOMAIN out'
          BY <2>1
        <5>3. /\ Content(w, "report").by = w
              /\ Content(w, "report").body = [scanned |-> r.sandbox, report |-> r.report]
          BY <1>1 DEF Content
        <5>4. ASSUME o = "report" PROVE ReportOut(w, q)'
          <6>1. /\ out'["report"].by = w
                /\ out'["report"].body.scanned = r.sandbox
                /\ out'["report"].body.report = r.report
            BY <5>2, <5>3, <5>4
          <6> QED
            BY <3>2, <5>2, <5>4, <6>1 DEF ReportOut
        <5> QED
          BY <5>1, <5>4
      <4> QED
        BY <3>2, <4>2, <4>3, <4>4 DEF Vouched, Started, Writing, Tested, Passing
    <3> QED
      BY <3>1, <3>4, <3>5, <3>7, <3>8, <3>v, <3>h DEF RunInv
  <2> QED
    BY <2>2, <2>3
<1> QED
  BY <1>1, <1>5, <1>6, LinkCases

\* The result is the last of the three that a run writes.
LEMMA LinkVouches ==
    ASSUME IInv, NEW w \in Runs, LinkOutput(w)
    PROVE  PassVouches'
<1>1. PICK r : r = run[w]
  OBVIOUS
<1>2. RunInv(w, r) /\ r.pc = "link" /\ PassVouches /\ DOMAIN out \subseteq Outputs
  BY <1>1 DEF IInv, LinkOutput, At, FilesInv
<1>3. r.todo \in {<<"patch", "report", "result">>, <<"report", "result">>, <<"result">>}
  BY <1>2 DEF RunInv, Typed, Writing
<1>4. CASE UNCHANGED out
  BY <1>2, <1>4 DEF PassVouches
<1>5. CASE ~UNCHANGED out
  <2>1. PICK o \in Outputs \ DOMAIN out :
          /\ o = Head(r.todo)
          /\ out' = [p \in DOMAIN out \cup {o} |-> IF p = o THEN Content(w, o) ELSE out[p]]
    BY <1>1, <1>5, LinkCases
  <2>2. CASE o # "result"
    <3>1. "result" \in DOMAIN out' => "result" \in DOMAIN out /\ out'["result"] = out["result"]
      BY <2>1, <2>2
    <3>2. DOMAIN out # Outputs
      BY <2>1
    <3> QED
      BY <1>2, <3>1, <3>2 DEF PassVouches
  <2>3. CASE o = "result"
    <3>1. r.todo = <<"result">>
      BY <1>3, <2>1, <2>3, Todos
    <3>2. out'["result"] = Content(w, "result")
      BY <2>1, <2>3
    <3>3. /\ Content(w, "result").by = w /\ Content(w, "result").reason = r.reason
          /\ Content(w, "result").body = r.preview
      BY <1>1 DEF Content
    <3>4. SUFFICES ASSUME r.reason = None PROVE PassVouches'
      BY <3>2, <3>3 DEF PassVouches
    <3>5. Vouched(w, r)
      BY <1>2 DEF RunInv, Typed
    <3>6. Tested(r) /\ Passing(r) /\ PatchOut(w, r) /\ ReportOut(w, r)
      BY <1>2, <3>1, <3>4, <3>5, Todos DEF Vouched, Writing
    <3>7. DOMAIN out' = Outputs /\ out'["patch"] = out["patch"] /\ out'["report"] = out["report"]
      BY <1>2, <2>1, <2>3, <3>6 DEF PatchOut, ReportOut, Outputs
    <3>8. \A p \in Outputs : out'[p].by = w
      BY <3>2, <3>3, <3>6, <3>7 DEF PatchOut, ReportOut, Outputs
    <3>9. {out'[p].by : p \in Outputs} = {out'["result"].by}
      BY <3>8 DEF Outputs
    <3>10. /\ out'["result"].body = r.preview
           /\ out'["patch"].body = r.preview.changes
           /\ out'["report"].body.scanned = Rewritten(r.preview.source, r.preview.changes)
           /\ out'["report"].body.report.status = "PASS"
           /\ out'["report"].body.report.fingerprints \cap Targets = {}
      BY <3>2, <3>3, <3>6, <3>7 DEF Tested, Passing, PatchOut, ReportOut
    <3> QED
      BY <3>7, <3>9, <3>10 DEF PassVouches
  <2> QED
    BY <2>2, <2>3
<1> QED
  BY <1>4, <1>5

----
(* The invariant is inductive *)

LEMMA InitInv == Init => IInv
<1> SUFFICES ASSUME Init PROVE IInv
  OBVIOUS
<1>1. source = Base /\ reviews = {} /\ out = << >> /\ temps = {}
  BY DEF Init
<1>2. source \in DOMAIN Edits
  BY <1>1, TreesAssumption
<1>3. PlanInv
  <2>1. PICK ops \in Plans :
          plan \in {[ops |-> ops, review |-> d] :
                     d \in {None, Preview(Digest(Base), Changes(Base, ops))}}
    BY DEF Init
  <2> QED
    BY <2>1 DEF PlanInv, Preview
<1>4. PullInv
  <2>1. PICK body : pull = [head |-> Proposal, open |-> TRUE, approved |-> FALSE, body |-> body]
    BY DEF Init
  <2> QED
    BY <2>1, HeadMovesOn DEF PullInv
<1>5. DOMAIN out = {}
  BY <1>1
<1>6. FilesInv /\ PassVouches /\ ReviewsInv
  BY <1>1, <1>5 DEF FilesInv, PassVouches, ReviewsInv
<1>7. PICK crew \in Crews : run = [w \in Runs |-> [NoRun EXCEPT !.role = crew[w]]]
  BY DEF Init
<1>8. ASSUME NEW w \in Runs PROVE RunInv(w, run[w])
  <2>1. PICK r : r = run[w]
    OBVIOUS
  <2>2. crew[w] \in {"sandbox", "proposal", "ci"}
    BY <1>7, RunsAssumption
  <2>3. r = [NoRun EXCEPT !.role = crew[w]]
    BY <1>7, <2>1
  <2>4. /\ DOMAIN r = Fields /\ r.pc = "start" /\ r.role = crew[w] /\ r.report = None
        /\ r.preview = None /\ r.patch = None /\ r.sandbox = << >> /\ r.shape = None /\ r.view = << >>
    BY <2>3 DEF Fields, NoRun
  <2>5. Typed(r)
    BY <2>2, <2>4, EmptySandbox DEF Typed, Leaves, Started, Approving, Writing
  <2>v. Viewing(r)
    BY <2>2, <2>4, EmptySandbox DEF Viewing, IsCheckout
  <2>h. r.role = "sandbox" => Held(r)
    BY <2>2, <2>4 DEF RunInv, Typed, Held, Started, Approving, Leaves, Tested
  <2>6. Thorough(r)
    BY <2>4 DEF Thorough
  <2>7. Approved(r)
    BY <2>4 DEF Approved, Approving
  <2>8. Vouched(w, r)
    <3>1. DOMAIN r.sandbox = {}
      BY <2>4
    <3> QED
      BY <2>4, <3>1 DEF Vouched, Started, Writing
  <2> QED
    BY <2>1, <2>5, <2>6, <2>7, <2>8, <2>v, <2>h DEF RunInv
<1> QED
  BY <1>2, <1>3, <1>4, <1>6, <1>7, <1>8 DEF IInv

\* What a run's step keeps, if it keeps its own part.
LEMMA TurnInv ==
    ASSUME IInv, NEW w \in Runs, \E q : Turn(w, q) /\ RunInv(w, q)', World,
           UNCHANGED <<source, plan, pull, reviews>>, PassVouches', FilesInv'
    PROVE  IInv'
<1>1. PICK q : Turn(w, q) /\ RunInv(w, q)'
  OBVIOUS
<1>2. ASSUME NEW v \in Runs PROVE RunInv(v, run[v])'
  <2>1. CASE v = w
    BY <1>1, <2>1 DEF Turn
  <2>2. CASE v # w
    <3>1. PICK r : r = run[v]
      OBVIOUS
    <3>2. RunInv(v, r)
      BY <3>1 DEF IInv
    <3>3. RunInv(v, r)'
      BY <3>2, CarriedInv
    <3>4. run'[v] = r
      BY <1>1, <2>2, <3>1 DEF Turn
    <3> QED
      BY <3>3, <3>4
  <2> QED
    BY <2>1, <2>2
<1>3. DOMAIN run' = Runs
  BY <1>1 DEF Turn
<1>4. (source \in DOMAIN Edits)' /\ PlanInv' /\ PullInv' /\ ReviewsInv'
  BY DEF IInv, PlanInv, PullInv, ReviewsInv
<1> QED
  BY <1>2, <1>3, <1>4 DEF IInv

\* Most of a run's steps leave the environment and the outputs alone.
LEMMA QuietTurnInv ==
    ASSUME IInv, NEW w \in Runs, \E q : Turn(w, q) /\ RunInv(w, q),
           Environment, UNCHANGED out, temps' \subseteq Outputs
    PROVE  IInv'
<1>1. UNCHANGED <<source, plan, pull, reviews, out>>
  BY DEF Environment
<1>2. World
  BY <1>1 DEF World, Later
<1>3. PICK q : Turn(w, q) /\ RunInv(w, q)
  OBVIOUS
<1>4. RunInv(w, q)'
  BY <1>2, <1>3, CarriedInv
<1>5. PassVouches' /\ FilesInv'
  BY <1>1 DEF IInv, PassVouches, FilesInv
<1> QED
  BY <1>1, <1>2, <1>3, <1>4, <1>5, TurnInv

LEMMA RunStepInv ==
    ASSUME IInv, NEW w \in Runs,
           \/ Load(w) \/ ReadChanges(w) \/ DigestSource(w) \/ Unverifiable(w) \/ ViewPull(w)
           \/ ReadReviews(w) \/ ReadFiles(w) \/ ViewAgain(w) \/ Copy(w) \/ Apply(w)
           \/ RescanFails(w) \/ Rescan(w) \/ Judge(w) \/ Recheck(w)
           \/ OpenTemp(w) \/ LinkOutput(w) \/ Crash(w) \/ LoadExceptions(w) \/ ScanTree(w)
    PROVE  IInv'
<1>1. CASE LinkOutput(w)
  <2>1. UNCHANGED <<source, plan, pull, reviews>>
    BY <1>1 DEF LinkOutput, Environment
  <2>2. FilesInv'
    BY <1>1, LinkWorld DEF FilesInv
  <2> QED
    BY <1>1, <2>1, <2>2, LinkWorld, LinkOutputInv, LinkVouches, TurnInv
<1>2. CASE OpenTemp(w)
  <2>1. Environment /\ UNCHANGED out
    BY <1>2 DEF OpenTemp
  <2> QED
    BY <1>2, <2>1, OpenTempInv, QuietTurnInv
<1>3. CASE ~LinkOutput(w) /\ ~OpenTemp(w)
  <2>1. Environment /\ NoOutput
    BY <1>3 DEF Load, ReadChanges, DigestSource, Unverifiable, ViewPull, ReadReviews, ReadFiles,
                ViewAgain, Copy, Apply, RescanFails, Rescan, Judge, Recheck, Crash,
                LoadExceptions, ScanTree
  <2>2. \E q : Turn(w, q) /\ RunInv(w, q)
    BY <1>3, LoadInv, ReadChangesInv, DigestSourceInv, UnverifiableInv, ViewPullInv,
       ReadReviewsInv, ReadFilesInv, ViewAgainInv, CopyInv, ApplyInv, RescanFailsInv, RescanInv,
       JudgeInv, RecheckInv, CrashInv, LoadExceptionsInv, ScanTreeInv
  <2>3. UNCHANGED out /\ temps' \subseteq Outputs
    BY <2>1 DEF NoOutput, IInv, FilesInv
  <2> QED
    BY <2>1, <2>2, <2>3, QuietTurnInv
<1> QED
  BY <1>1, <1>2, <1>3

\* The others change what they change, and no run.
LEMMA OthersInv ==
    ASSUME IInv, UNCHANGED <<run, out, temps>>, World,
           (source \in DOMAIN Edits)', PlanInv', PullInv', ReviewsInv'
    PROVE  IInv'
<1>1. ASSUME NEW v \in Runs PROVE RunInv(v, run[v])'
  <2>1. PICK r : r = run[v]
    OBVIOUS
  <2>2. RunInv(v, r)
    BY <2>1 DEF IInv
  <2>3. RunInv(v, r)'
    BY <2>2, CarriedInv
  <2>4. run'[v] = r
    BY <2>1
  <2> QED
    BY <2>3, <2>4
<1>2. PassVouches' /\ FilesInv' /\ DOMAIN run' = Runs
  BY DEF IInv, PassVouches, FilesInv
<1> QED
  BY <1>1, <1>2 DEF IInv

LEMMA EditSourceInv == IInv /\ EditSource => IInv'
<1> SUFFICES ASSUME IInv, EditSource PROVE IInv'
  OBVIOUS
<1>1. PICK t \in Edits[source] : source' = t
  BY DEF EditSource
<1>2. UNCHANGED <<plan, pull, reviews, run, out, temps>>
  BY DEF EditSource
<1>3. source' \in DOMAIN Edits
  BY <1>1, TreesAssumption DEF IInv
<1>4. World
  <2>1. \A f \in Files \ Sensitive : source'[f] = Base[f] => source[f] = Base[f]
    BY <1>1, SourceMovesOn DEF IInv
  <2> QED
    BY <1>2, <2>1 DEF World, Later
<1>5. PlanInv' /\ PullInv' /\ ReviewsInv'
  BY <1>2 DEF IInv, PlanInv, PullInv, ReviewsInv
<1> QED
  BY <1>2, <1>3, <1>4, <1>5, OthersInv

LEMMA EditPlanInv == IInv /\ EditPlan => IInv'
<1> SUFFICES ASSUME IInv, EditPlan PROVE IInv'
  OBVIOUS
<1>1. PICK ops \in Plans : plan' = [plan EXCEPT !.ops = ops]
  BY DEF EditPlan
<1>2. UNCHANGED <<source, pull, reviews, run, out, temps>>
  BY DEF EditPlan
<1>3. PlanInv'
  BY <1>1 DEF IInv, PlanInv
<1>4. World
  BY <1>2 DEF World, Later
<1>5. (source \in DOMAIN Edits)' /\ PullInv' /\ ReviewsInv'
  BY <1>2 DEF IInv, PullInv, ReviewsInv
<1> QED
  BY <1>2, <1>3, <1>4, <1>5, OthersInv

LEMMA PushInv == IInv /\ Push => IInv'
<1> SUFFICES ASSUME IInv, Push PROVE IInv'
  OBVIOUS
<1>1. PICK c \in Pushes[pull.head], kept \in BOOLEAN :
        pull' = [pull EXCEPT !.head = c, !.approved = kept /\ @]
  BY DEF Push
<1>2. UNCHANGED <<source, plan, reviews, run, out, temps>>
  BY DEF Push
<1>3. pull.head \in DOMAIN Commits /\ c \in DOMAIN Commits
  BY HeadMovesOn DEF IInv, PullInv
<1>4. DOMAIN pull' = DOMAIN pull /\ pull'.head = c /\ pull'.open = pull.open
      /\ pull'.approved \in BOOLEAN
  BY <1>1 DEF IInv, PullInv
<1>5. PullInv'
  BY <1>3, <1>4 DEF IInv, PullInv
<1>6. World
  <2>1. ASSUME NEW d \in DOMAIN Commits, Later(d, pull.head) PROVE Later(d, pull'.head)
    BY <1>3, <1>4, <2>1, LaterPushed
  <2>2. \A f \in Files \ Sensitive : source'[f] = Base[f] => source[f] = Base[f]
    BY <1>2
  <2> QED
    BY <1>2, <2>1, <2>2 DEF World
<1>7. (source \in DOMAIN Edits)' /\ PlanInv' /\ ReviewsInv'
  BY <1>2 DEF IInv, PlanInv, ReviewsInv
<1> QED
  BY <1>2, <1>5, <1>6, <1>7, OthersInv

LEMMA ReviewInv == IInv /\ Review => IInv'
<1> SUFFICES ASSUME IInv, Review PROVE IInv'
  OBVIOUS
<1>1. PICK state \in {"APPROVED", "CHANGES_REQUESTED"}, at \in 0..MaxReviews :
         /\ \A r \in reviews : r.at <= at
         /\ reviews' = reviews \cup {[commit |-> pull.head, state |-> state, at |-> at]}
         /\ pull' = [pull EXCEPT !.approved = state = "APPROVED"]
  BY DEF Review
<1>2. UNCHANGED <<source, plan, run, out, temps>>
  BY DEF Review
<1>3. DOMAIN pull' = DOMAIN pull /\ pull'.head = pull.head /\ pull'.open = pull.open
      /\ pull'.approved \in BOOLEAN
  BY <1>1 DEF IInv, PullInv
<1>4. PullInv'
  BY <1>3 DEF IInv, PullInv
<1>5. World
  BY <1>1, <1>2, <1>3 DEF World, Later
<1>6. ReviewsInv'
  <2>1. PICK v : v = [commit |-> pull.head, state |-> state, at |-> at]
    OBVIOUS
  <2>2. v.commit \in DOMAIN Commits /\ v.at = at /\ at \in 0..MaxReviews /\ at \in Int
    BY <2>1, RunsAssumption DEF IInv, PullInv
  <2>3. \A r \in reviews' : r.commit \in DOMAIN Commits /\ r.at \in 0..MaxReviews
    BY <1>1, <2>1, <2>2 DEF IInv, ReviewsInv
  <2>4. v \in Latest(reviews')
    BY <1>1, <2>1, <2>2 DEF Latest
  <2> QED
    BY <2>3, <2>4 DEF ReviewsInv
<1>7. (source \in DOMAIN Edits)' /\ PlanInv'
  BY <1>2 DEF IInv, PlanInv
<1> QED
  BY <1>2, <1>4, <1>5, <1>6, <1>7, OthersInv

LEMMA PullChangesInv == IInv /\ (EditBody \/ ClosePull) => IInv'
<1> SUFFICES ASSUME IInv, EditBody \/ ClosePull PROVE IInv'
  OBVIOUS
<1>1. PICK body : pull' = [pull EXCEPT !.body = body] \/ pull' = [pull EXCEPT !.open = FALSE]
  BY DEF EditBody, ClosePull
<1>2. UNCHANGED <<source, plan, reviews, run, out, temps>>
  BY DEF EditBody, ClosePull
<1>3. DOMAIN pull' = DOMAIN pull /\ pull'.head = pull.head /\ pull'.open \in BOOLEAN
      /\ pull'.approved = pull.approved
  BY <1>1 DEF IInv, PullInv
<1>4. PullInv'
  BY <1>3 DEF IInv, PullInv
<1>5. World
  BY <1>2, <1>3 DEF World, Later
<1>6. (source \in DOMAIN Edits)' /\ PlanInv' /\ ReviewsInv'
  BY <1>2 DEF IInv, PlanInv, ReviewsInv
<1> QED
  BY <1>2, <1>4, <1>5, <1>6, OthersInv

LEMMA StutterInv == IInv /\ UNCHANGED vars => IInv'
<1> SUFFICES ASSUME IInv, UNCHANGED vars PROVE IInv'
  OBVIOUS
<1>1. UNCHANGED <<source, plan, pull, reviews, run, out, temps>>
  BY DEF vars
<1>2. World
  BY <1>1 DEF World, Later
<1>3. (source \in DOMAIN Edits)' /\ PlanInv' /\ PullInv' /\ ReviewsInv'
  BY <1>1 DEF IInv, PlanInv, PullInv, ReviewsInv
<1> QED
  BY <1>1, <1>2, <1>3, OthersInv

LEMMA Invariance == Spec => []IInv
<1>1. IInv /\ [Next]_vars => IInv'
  BY RunStepInv, EditSourceInv, EditPlanInv, PushInv, ReviewInv, PullChangesInv, StutterInv
     DEF Next
<1> QED
  BY InitInv, <1>1, PTL DEF Spec

----
(* Theorems *)

\* The state has its type; no sandbox and no digest ever holds a sensitive file,
\* whatever the trees, the plans and the number of runs.
THEOREM TypeCorrect == Spec => []TypeOK
<1>1. IInv => TypeOK
  <2> SUFFICES ASSUME IInv PROVE TypeOK
    OBVIOUS
  <2>1. source \in [Files -> Seq(Fragment)]
    BY TreesAssumption DEF IInv, Trees
  <2>2. plan.ops \in Plans /\ pull.head \in DOMAIN Commits /\ pull.open \in BOOLEAN
        /\ pull.approved \in BOOLEAN /\ DOMAIN out \subseteq Outputs /\ temps \subseteq Outputs
        /\ \A r \in reviews : r.commit \in DOMAIN Commits /\ r.at \in 0..MaxReviews
    BY DEF IInv, PlanInv, PullInv, ReviewsInv, FilesInv
  <2>3. ASSUME NEW w \in Runs PROVE Typed(run[w]) /\ IsSandboxTree(run[w].view)
    BY DEF IInv, RunInv, Viewing
  <2> QED
    BY <2>1, <2>2, <2>3 DEF TypeOK, Typed, Started, Approving, Leaves
<1> QED
  BY <1>1, Invariance, PTL

\* A PASS result stands beside the reviewed patch and a passing report of exactly
\* the reviewed tree with exactly those edits, by one run (run_sandbox_remediation).
THEOREM PassAlwaysVouches == Spec => []PassVouches
<1>1. IInv => PassVouches
  BY DEF IInv
<1> QED
  BY <1>1, Invariance, PTL

\* A run goes on only with the edits of a head that the reviewer approved and that
\* makes nothing but these (_verify_github_review).
THEOREM CommitAlwaysApproved == Spec => []ApprovedCommit
<1>1. IInv => ApprovedCommit
  <2> SUFFICES ASSUME IInv, NEW w \in Runs, Verified(w)
               PROVE  /\ \E r \in reviews : r.commit = run[w].seen.head /\ r.state = "APPROVED"
                      /\ ChangedFiles(run[w].seen.head) = DOMAIN run[w].preview.changes
                      /\ \A f \in DOMAIN run[w].preview.changes :
                           Commits[run[w].seen.head][f] = run[w].preview.changes[f].after
    BY DEF ApprovedCommit
  <2>1. Approved(run[w])
    BY DEF IInv, RunInv
  <2> QED
    BY <2>1 DEF Approved, Verified, Role, HasApproval, FilesMatch, Approving
<1> QED
  BY <1>1, Invariance, PTL

\* A scan that passes, of the sandbox or of the working tree, has read every file
\* that it can know to be its own, and each violation in the files it read is
\* excused by an exception in force, of itself or of another report of the same
\* control on the same resource, whichever tool calls failed and in whatever order
\* Checkov answered (scan_paths, deduplicate_findings, evaluate_exceptions).
THEOREM PassAlwaysThorough == Spec => []PassIsThorough
<1>1. IInv => PassIsThorough
  <2> SUFFICES ASSUME IInv, NEW w \in Runs, run[w].report # None, run[w].report.status = "PASS"
      PROVE  LET tree == run[w].sandbox IN
             /\ \A f \in DOMAIN tree :
                  /\ Format[f] \in {"hcl", "yaml"} => Readable(tree[f])
                  /\ f \in NamedPolicy /\ Decodes(tree[f]) => Readable(tree[f])
                  /\ Kind[f] \in {"kubernetes"} \cup PolicyKinds /\ Readable(tree[f])
                       => WellFormed(tree[f])
             /\ \A r \in Reports(tree) : AtLeast(r.severity, Threshold) =>
                  /\ Role(w) = "ci"
                  /\ \E q \in Reports(tree) : Same(q, r) /\ Excepted(q, run[w].report.at)
    BY DEF PassIsThorough
  <2>1. PICK u : u = run[w]
    OBVIOUS
  <2>2. PICK tree : tree = u.sandbox
    OBVIOUS
  <2>3. PICK exceptions : exceptions = IF u.role = "ci" THEN Exceptions ELSE {}
    OBVIOUS
  <2>4. PICK outcome \in Outcomes, order \in Orders, loadedAt \in Times \cup {0} :
          u.report = ScanPaths(tree, outcome, order, exceptions, Threshold, loadedAt, u.report.at)
    BY <2>1, <2>2, <2>3 DEF IInv, RunInv, Thorough
  <2>5. PICK at : at = u.report.at
    OBVIOUS
  <2>6. ScanPaths(tree, outcome, order, exceptions, Threshold, loadedAt, at).status = "PASS"
    BY <2>1, <2>4, <2>5
  <2>7. ScanErrors(tree, outcome, exceptions, loadedAt) = {}
    BY <2>6, PassHasNoErrors
  <2>8. IsCheckout(tree)
    BY <2>1, <2>2 DEF IInv, RunInv, Typed, Viewing, IsSandboxTree, IsCheckout
  <2>9. ASSUME NEW f \in DOMAIN tree
        PROVE  /\ Format[f] \in {"hcl", "yaml"} => Readable(tree[f])
               /\ f \in NamedPolicy /\ Decodes(tree[f]) => Readable(tree[f])
               /\ Kind[f] \in {"kubernetes"} \cup PolicyKinds /\ Readable(tree[f])
                    => WellFormed(tree[f])
    BY <2>7, <2>8, PassReadsFiles
  <2>10. ASSUME NEW r \in Reports(tree), AtLeast(r.severity, Threshold)
         PROVE  /\ Role(w) = "ci"
                /\ \E q \in Reports(tree) : Same(q, r) /\ Excepted(q, at)
    <3>1. r \in Found(tree, outcome)
      BY <2>7, ReportIsFound
    <3>2. PICK q \in Findings(tree, outcome, order) : Same(q, r)
      BY <2>8, <3>1, FirstStays
    <3>3. q \in Reports(tree)
      BY FoundIsReport DEF Findings, Deduplicate
    <3>4. q.severity = r.severity
      BY <2>8, <3>2, <3>3, SameSeverity
    <3>5. ~Gates(q, exceptions, Threshold, at)
      BY <2>6, PassHasNoGating
    <3>6. PICK x \in exceptions : Matches(q, x) /\ Active(x, at)
      BY <2>10, <3>4, <3>5 DEF Gates
    <3>7. Role(w) = "ci" /\ Excepted(q, at)
      BY <2>1, <2>3, <3>6 DEF Excepted, Role
    <3> QED
      BY <3>2, <3>3, <3>7
  <2> QED
    BY <2>1, <2>2, <2>5, <2>9, <2>10
<1> QED
  BY <1>1, Invariance, PTL
====
