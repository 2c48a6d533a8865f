---- MODULE MCRemediation ----
(***************************************************************************)
(* Instances of Remediation: a bucket's public setting is fixed in main.tf *)
(* while role.json may gain a statement, and the fix may come twice.       *)
(***************************************************************************)
EXTENDS Remediation, TLC

MCFiles == {"main.tf", "role.json", ".env"}

MCFormat == ("main.tf" :> "hcl") @@ ("role.json" :> "json") @@ (".env" :> "other")

MCKind == ("main.tf" :> "terraform") @@ ("role.json" :> "iam") @@ (".env" :> "other")

MCPathOrder == (".env" :> 1) @@ ("main.tf" :> 2) @@ ("role.json" :> 3)

\* Checkov has one file to speak of.
MCOrders == {MCPathOrder}

MCRule == [scanner |-> "checkov", control |-> "public", severity |-> "HIGH", resource |-> "bucket"]

MCViolations ==
    ("public" :> {MCRule}) @@ ("private" :> {})
      @@ ("star" :> {[scanner |-> s, control |-> "admin", severity |-> "CRITICAL",
                      resource |-> None] : s \in {"builtin", "conftest"}})
      @@ ("scoped" :> {}) @@ ("narrow" :> {}) @@ ("token" :> {}) @@ ("{" :> {})

MCTree(main, role) == ("main.tf" :> main) @@ ("role.json" :> role) @@ (".env" :> <<"token">>)

MCBase == MCTree(<<"public">>, <<"scoped">>)

\* One edit that no plan fits any more, and one that every plan still fits.
MCDoubled == MCTree(<<"public", "public">>, <<"scoped">>)
MCAdded == MCTree(<<"public">>, <<"scoped", "narrow">>)
MCBoth == MCTree(<<"public", "public">>, <<"scoped", "narrow">>)

MCEdits == (MCBase :> {MCDoubled, MCAdded}) @@ (MCDoubled :> {MCBoth})
             @@ (MCAdded :> {MCBoth}) @@ (MCBoth :> {})

MCFix == [path |-> "main.tf", before |-> "public", after |-> "private"]

MCPlans == {<<MCFix>>, <<MCFix, [path |-> "role.json", before |-> "scoped", after |-> "{"]>>}

MCCommits == ("fix" :> MCTree(<<"private">>, <<"scoped">>))
               @@ ("more" :> MCTree(<<"private">>, <<"star">>))

MCPushes == ("more" :> {"fix"}) @@ ("fix" :> {})

MCCrews == {[w \in Runs |-> role] : role \in {"sandbox", "proposal"}}

MCTargets == {Fingerprint(Reported("main.tf", 1, MCRule))}

Workers == Permutations(Runs)
====
