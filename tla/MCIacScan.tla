---- MODULE MCIacScan ----
(***************************************************************************)
(* An instance of Remediation for its scans: a CI scan, or a proposal, of  *)
(* two Terraform files that may name the same bucket, a manifest and a     *)
(* policy in JSON, with an exception for each scanner's finding in a.tf.   *)
(***************************************************************************)
EXTENDS Remediation, TLC

CONSTANT w1

MCFiles == {"a.tf", "b.tf", "pod.json", "iam.json"}

MCFormat == [f \in MCFiles |-> IF f \in {"a.tf", "b.tf"} THEN "hcl" ELSE "json"]

MCKind == [f \in MCFiles |->
             CASE f = "pod.json" -> "kubernetes" [] f = "iam.json" -> "iam" [] OTHER -> "terraform"]

MCPathOrder == ("a.tf" :> 1) @@ ("b.tf" :> 2) @@ ("iam.json" :> 3) @@ ("pod.json" :> 4)

MCOrders == {MCPathOrder, [f \in MCFiles |-> 4 - MCPathOrder[f]]}

Rule(scanner, control, resource) ==
    [scanner |-> scanner, control |-> control, severity |-> "HIGH", resource |-> resource]

PublicBucket(name) == {Rule("checkov", "acl", name), Rule("conftest", "public", name)}

MCViolations ==
    ("logs" :> PublicBucket("logs")) @@ ("data" :> PublicBucket("data"))
      @@ ("star" :> {Rule("builtin", "admin", None)})
      @@ [c \in {"private", "pod", "no kind", "scoped", "{", "latin-1"} |-> {}]

MCTree(a, b, pod, iam) ==
    ("a.tf" :> <<a>>) @@ ("b.tf" :> b) @@ ("pod.json" :> <<pod>>) @@ ("iam.json" :> <<iam>>)

MCBase == MCTree("logs", <<"logs">>, "pod", "scoped")

\* Every other tree is one edit away.
MCEdited ==
    {MCTree(a, b, pod, iam) : a \in {"logs", "private"},
                              b \in {<<"private">>, <<"data">>, <<"logs", "data">>, <<"{">>},
                              pod \in {"pod", "no kind", "{", "latin-1"},
                              iam \in {"scoped", "star", "{", "latin-1"}}

MCEdits == [t \in {MCBase} \cup MCEdited |-> IF t = MCBase THEN MCEdited ELSE {}]

MCPlans == {<<[path |-> "a.tf", before |-> "logs", after |-> "private"]>>}

MCCommits == "fix" :> MCBase
MCPushes == "fix" :> {}

MCCrews == {[w \in Runs |-> role] : role \in {"ci", "proposal"}}

MCTargets == {Fingerprint(Reported("a.tf", 1, Rule("checkov", "acl", "logs")))}

MCExceptions ==
    {[scope |-> "file", control |-> c, file |-> "a.tf", created |-> 0, expires |-> 1] :
        c \in {"acl", "public"}}
====
