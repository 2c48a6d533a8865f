---- MODULE AccountRules ----
(***************************************************************************)
(* What one scan of an AWS account reads and what it makes of it: the API  *)
(* calls of the IAM, S3 and CloudTrail collectors, in their order, with    *)
(* what a denied or failed call leaves unknown, and the rules over what    *)
(* was read (auditor/collectors, auditor/normalize, auditor/rules).        *)
(* Resources of a kind are collected and judged independently, so each     *)
(* account here has one user, group, role and bucket, and at most one      *)
(* trail homed in a region.                                                *)
(***************************************************************************)
EXTENDS ScanContract, Sequences

CONSTANTS
    Failed,         \* the outcome of a call that AWS denied, throttled or broke off
    Unread,         \* a call that was not made
    MaxKeyAge,      \* thresholds in days, auditor/config.py
    CriticalKeyAge,
    UnusedKeyDays

BlockFlags == {"BlockPublicAcls", "IgnorePublicAcls", "BlockPublicPolicy", "RestrictPublicBuckets"}

\* Access keys by days, policy documents by what they allow, trails.
Keys == [active : BOOLEAN, age : Nat, used : Nat \cup {None}]
Documents == [allows : SUBSET {"admin", "service"}, managed : BOOLEAN]
Trails == [multi : BOOLEAN, validated : BOOLEAN, delivery : {"logging", "stopped", "failing"}]

\* What is judged, and the words among the answers.
Resources ==
    {"user", "key", "bucket", "aws-account", "trail", "user policy", "group policy", "role policy"}

Words == {"public", "private", "open", "constrained", "logging", "stopped", "failing"}

\* The three ways to have no value are told apart, and from every value.
ASSUME AnswerAssumption ==
    /\ Failed # Unread /\ None \notin {Failed, Unread}
    /\ \A nothing \in {None, Failed, Unread} :
          /\ nothing \notin BOOLEAN /\ nothing \notin Resources \cup Words \cup DOMAIN Rank /\ nothing \notin Nat
          /\ nothing \notin Keys /\ nothing \notin Documents /\ nothing \notin Trails
          /\ \A flags \in SUBSET BlockFlags : nothing # flags

\* The registry: the severities a rule may give; Finding.build raises on others.
Severities ==
    [control \in {"IAM-001", "IAM-002", "IAM-003", "IAM-004", "IAM-005", "IAM-006",
                  "S3-001", "S3-002", "S3-003", "S3-004",
                  "CT-001", "CT-002", "CT-003", "CT-004"} |->
        CASE control \in {"IAM-001", "CT-001", "CT-004"} -> {"HIGH"}
          [] control = "IAM-002" -> {"HIGH", "MEDIUM"}
          [] control = "IAM-003" -> {"MEDIUM", "LOW"}
          [] control = "IAM-004" -> {"CRITICAL"}
          [] control = "IAM-005" -> {"HIGH", "LOW"}
          [] control = "IAM-006" -> {"INFO"}
          [] control = "S3-002" -> {"CRITICAL", "LOW"}
          [] control = "S3-003" -> {"CRITICAL", "MEDIUM", "LOW"}
          [] OTHER -> {"MEDIUM"}]

ServiceOf(control) ==
    CASE control \in {"IAM-001", "IAM-002", "IAM-003", "IAM-004", "IAM-005", "IAM-006"} -> "iam"
      [] control \in {"S3-001", "S3-002", "S3-003", "S3-004"} -> "s3"
      [] OTHER -> "cloudtrail"

----
(* Collection *)

\* Each collector's calls in order; "Policies" are the list and document calls
\* of one principal, any of which leaves its document unread.
Calls(service) ==
    CASE service = "iam" ->
            <<"ListUsers", "GetLoginProfile", "ListMFADevices", "ListAccessKeys",
              "GetAccessKeyLastUsed", "ListGroupsForUser", "UserPolicies", "ListGroups",
              "GroupPolicies", "GetGroup", "ListRoles", "RolePolicies">>
      [] service = "s3" ->
            <<"ListBuckets", "GetBucketLocation", "GetPublicAccessBlock", "GetBucketEncryption",
              "GetBucketPolicy", "GetBucketPolicyStatus", "GetBucketAcl">>
      [] service = "cloudtrail" -> <<"DescribeTrails", "GetTrailStatus">>

\* What AWS answers.  "Not configured" is an answer: an empty block, no policy.
\* A key or trail deleted since it was listed leaves the call without one.
Answer(account, region, call) ==
    CASE call = "GetLoginProfile" -> account.login
      [] call = "ListMFADevices" -> account.mfa
      [] call = "ListAccessKeys" -> account.key
      [] call = "GetAccessKeyLastUsed" -> IF account.key = None THEN Unread ELSE account.key.used
      [] call = "UserPolicies" -> account.grants.user
      [] call = "GroupPolicies" -> account.grants.group
      [] call = "RolePolicies" -> account.grants.role
      [] call = "GetPublicAccessBlock" -> account.block
      [] call = "GetBucketEncryption" -> account.encrypted
      [] call = "GetBucketPolicy" -> account.policy
      [] call = "GetBucketPolicyStatus" -> account.policy = "open"
      [] call = "GetBucketAcl" -> account.acl
      [] call = "DescribeTrails" -> account.trail[region]
      [] call = "GetTrailStatus" -> IF account.trail[region] = None THEN Unread
                                                               ELSE account.trail[region].delivery
      [] OTHER -> TRUE

\* The listings a call is made for, and only if they named something.
Listing(call) ==
    CASE call \in {"GetLoginProfile", "ListMFADevices", "ListAccessKeys", "ListGroupsForUser",
                   "UserPolicies"} -> {"ListUsers"}
      [] call = "GetAccessKeyLastUsed" -> {"ListUsers", "ListAccessKeys"}
      [] call \in {"GroupPolicies", "GetGroup"} -> {"ListGroups"}
      [] call = "RolePolicies" -> {"ListRoles"}
      [] call \in {"GetBucketLocation", "GetPublicAccessBlock", "GetBucketEncryption",
                   "GetBucketPolicy", "GetBucketPolicyStatus", "GetBucketAcl"} -> {"ListBuckets"}
      [] call = "GetTrailStatus" -> {"DescribeTrails"}
      [] OTHER -> {}

Known(answer) == answer \notin {Failed, Unread}

Made(view, call) == \A c \in Listing(call) : Known(view[c]) /\ view[c] # None

----
(* Rules: a view maps the calls of one service to their outcomes *)

Finding(control, resource, severity) ==
    [control |-> control, resource |-> resource, severity |-> severity]

When(condition, control, resource, severity) ==
    IF condition THEN {Finding(control, resource, severity)} ELSE {}

\* Unknown is neither: a finding needs both calls answered.
MfaRules(view) ==
    LET unprotected == view["ListMFADevices"] = FALSE IN
    When(unprotected /\ view["GetLoginProfile"] = TRUE, "IAM-001", "user", "HIGH")
        \cup When(unprotected /\ view["GetLoginProfile"] = FALSE, "IAM-006", "user", "INFO")

Dormant_DeniedIsNever(key, used) ==
    IF Known(used) /\ used # None THEN used >= UnusedKeyDays ELSE key.age > UnusedKeyDays

\* used is the number of days since the key was used, None for never.
Dormant(key, used) ==
    /\ Known(used)
    /\ IF used = None THEN key.age > UnusedKeyDays ELSE used >= UnusedKeyDays

AccessKeyRules(view) ==
    LET key == view["ListAccessKeys"] IN
    IF ~Known(key) \/ key = None THEN {}
    ELSE When(key.active /\ key.age > MaxKeyAge, "IAM-002", "key",
              IF key.age > CriticalKeyAge THEN "HIGH" ELSE "MEDIUM")
           \cup When(~key.active, "IAM-003", "key", "LOW")
           \cup When(key.active /\ Dormant(key, view["GetAccessKeyLastUsed"]), "IAM-003", "key", "MEDIUM")

\* A full wildcard supersedes the service-wide one in the same document.
PermissionRules(view) ==
    UNION {LET document == view[p[1]] IN
           IF ~Known(document) THEN {}
           ELSE IF "admin" \in document.allows THEN {Finding("IAM-004", p[2], "CRITICAL")}
           ELSE When("service" \in document.allows, "IAM-005", p[2],
                     IF document.managed THEN "LOW" ELSE "HIGH") :
           p \in {<<"UserPolicies", "user policy">>, <<"GroupPolicies", "group policy">>,
                  <<"RolePolicies", "role policy">>}}

\* Flags that are on; an unread block counts as no protection.
Block(view) == IF Known(view["GetPublicAccessBlock"]) THEN view["GetPublicAccessBlock"] ELSE {}

PublicAccessBlockRule(view) ==
    When(Known(view["GetPublicAccessBlock"]) /\ Block(view) # BlockFlags, "S3-001", "bucket", "MEDIUM")

AclRule(view) ==
    When(view["GetBucketAcl"] = "public", "S3-002", "bucket",
         IF "IgnorePublicAcls" \in Block(view) THEN "LOW" ELSE "CRITICAL")

\* A policy is public by its statements or, they being unread, by its status.
PolicyRule(view) ==
    When(view["GetBucketPolicy"] \in {"open", "constrained"} \/ view["GetBucketPolicyStatus"] = TRUE,
         "S3-003", "bucket",
         IF Block(view) \cap {"BlockPublicPolicy", "RestrictPublicBuckets"} # {} THEN "LOW"
         ELSE IF view["GetBucketPolicy"] = "constrained" THEN "MEDIUM" ELSE "CRITICAL")

EncryptionRule_DeniedIsAbsent(view) ==
    When(view["GetBucketEncryption"] \in {FALSE, Failed}, "S3-004", "bucket", "MEDIUM")

EncryptionRule(view) == When(view["GetBucketEncryption"] = FALSE, "S3-004", "bucket", "MEDIUM")

\* Without an answer nothing is said; an empty one is judged for the account.
TrailRules(view) ==
    LET trail == view["DescribeTrails"] IN
    IF ~Known(trail) THEN {}
    ELSE IF trail = None THEN {Finding("CT-001", "aws-account", "HIGH")}
    ELSE When(~trail.multi, "CT-002", "aws-account", "MEDIUM")
           \cup When(~trail.validated, "CT-003", "trail", "MEDIUM")
           \cup When(view["GetTrailStatus"] \in {"stopped", "failing"}, "CT-004", "trail", "HIGH")

Evaluate(service, view) ==
    CASE service = "iam" -> MfaRules(view) \cup AccessKeyRules(view) \cup PermissionRules(view)
      [] service = "s3" -> PublicAccessBlockRule(view) \cup AclRule(view) \cup PolicyRule(view)
                             \cup EncryptionRule(view)
      [] service = "cloudtrail" -> TrailRules(view)

\* The answers a service gives when nothing fails and nothing changes.
FullView(account, region, service) ==
    LET calls == {Calls(service)[i] : i \in DOMAIN Calls(service)}
        exists == [c \in calls |->
                     \A l \in Listing(c) : Answer(account, region, l) # None]
    IN [c \in calls |-> IF exists[c] THEN Answer(account, region, c) ELSE Unread]
====
