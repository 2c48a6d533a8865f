---- MODULE MCFleetScan ----
(***************************************************************************)
(* Two invocations, two accounts and two regions.  The first account has   *)
(* slips in its IAM and S3 settings or trails, the second is well kept;    *)
(* an administrator may change one setting.                                *)
(***************************************************************************)
EXTENDS FleetScan, TLC

CONSTANTS a1, a2, r1, r2

MCAccounts == <<a1, a2>>
MCRegions == <<r1, r2>>
MCServices == <<"iam", "s3", "cloudtrail">>
MCInvocations == 1 .. 2

Nothing == [allows |-> {}, managed |-> FALSE]
Trail(multi, delivery) == [multi |-> multi, validated |-> multi, delivery |-> delivery]
\* One multi-region trail, homed in the first region.
OneTrail == r1 :> Trail(TRUE, "logging") @@ r2 :> None
Key(active, age, used) == [active |-> active, age |-> age, used |-> used]

WellKept ==
    [login |-> TRUE, mfa |-> TRUE, key |-> None,
     grants |-> [user |-> Nothing, group |-> Nothing, role |-> Nothing],
     block |-> BlockFlags, policy |-> None, acl |-> "private", encrypted |-> TRUE,
     trail |-> OneTrail]

\* Slips in settings that are read and judged apart, so several at a time.
Slips ==
    {[WellKept EXCEPT !.mfa = FALSE, !.key = Key(TRUE, 200, 1),
        !.grants.group = [allows |-> {"admin", "service"}, managed |-> FALSE],
        !.block = {"IgnorePublicAcls"}, !.acl = "public", !.policy = "constrained"],
     [WellKept EXCEPT !.mfa = FALSE, !.login = FALSE, !.key = Key(TRUE, 60, None),
        !.grants.role = [allows |-> {"service"}, managed |-> TRUE],
        !.block = {"RestrictPublicBuckets"}, !.policy = "open"],
     [WellKept EXCEPT !.key = Key(TRUE, 91, 45), !.acl = "public", !.encrypted = FALSE,
        !.grants.user = [allows |-> {"service"}, managed |-> FALSE]],
     [WellKept EXCEPT !.key = Key(FALSE, 10, None), !.block = {}, !.policy = "open",
        !.trail = r1 :> Trail(FALSE, "failing") @@ r2 :> None]}

Young == [WellKept EXCEPT !.key = Key(TRUE, 45, None)]

MCEstates == {a1 :> s @@ a2 :> Young : s \in Slips}

MCOptions ==
    [mfa |-> {FALSE}, key |-> {None, Key(TRUE, 200, 90)}, block |-> {{}, BlockFlags},
     policy |-> {None}, trail |-> {OneTrail}]
====
