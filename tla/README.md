# TLA+ models of Vorrin (account-access-auditor)

The auditor scans AWS accounts read-only, keeps the scans and their drift, and,
in its "Phase 3" control plane, scans one demo account every six hours, keeps
the reports in a private store and publishes a redacted snapshot to a public
console with an assistant, Rin. What is hard in it is not the scanning but what
happens between the pieces: executions overlap, Lambdas are stopped between two
storage calls, calls are sent again, reports arrive late or out of order, and
every reader must still be shown a complete scan and an honest status.

The same questions return where people change things: a remediation is reviewed
while its source changes, a role is captured file by file and reviewed before
Terraform may assume it, a fleet scan loses a region in the middle.

`PROJECT.json` maps every definition to the lines it stands for, lists the
runs, the mutants each property is known to catch, the hazards and the proved
theorems.

## Inventory

| Component | State | Operations | Hard behaviour | What makes it correct | Modelled in |
|---|---|---|---|---|---|
| Publisher, public store (`phase3/publisher.py`) | S3 objects, `RUN#` items, `LATEST`, `LATEST_STATUS` | publish a receipt; record a scan or publication failure | four storage calls per publication, each failing, repeated or interleaved with another execution's | readers see one complete scan, replaced only by a newer one; status in order and never ahead of it | `Publisher`, `PublicSite` |
| Private snapshot store (`phase3/private_snapshot_store.py`, `snapshot_writer.py`) | lock item, S3 objects, `RUN#` and `ATTEMPT#` items | persist, get receipt, record failure | expiring lock, late release, orphaned objects, the client's retry, a bounded history window | scans recorded one at a time, each once, against the whole history | `PrivateStore`, `RunLog` |
| Scheduled-scan workflow (`infra/phase3/control-plane/stage1.tf`, `phase3/scan_task.py`) | executions | scan, hand off, receipt, publish, record failures | overlapping executions, answers later than their timeouts, failures while recording failures | a success is in both stores; a failure is visible; no scan is lost | `ScanWorkflow` |
| Fleet history (`auditor/history.py`) | SQLite runs, coverage, findings, drift | record_scan, listings | out-of-order and repeated runs, incomplete scopes | drift against the last complete scan of each scope, lossless | `DriftHistory` |
| Rin, quotas, kill switch (`phase3/rin_service.py`, `quotas.py`, `kill_switch.py`) | feature item, quota counters | question, charge, recheck, ask; disable, recover | flag and counters in different Lambdas, non-idempotent increments, midnight | provider calls capped; nobody drains the others' allowance; the switch holds | `RinService` |
| Public API (`phase3/public_api.py`, `access.py`) | none; reads the public store and the feature item | latest, runs, findings, drift | torn reads of pointer, status and object; failing reads | what is shown was published, is never taken back, and a failure is reported as one | `PublicApi` with `Publisher` |
| Fleet scan (`auditor/fleet_scan.py`, `fleet.py`, `scripts/scheduled_fleet_scan.py`) | lock file; per-run findings, errors, coverage | scan accounts, regions, services; record the run | partial failure of sessions, regions, collectors, rules; accounts that change; killed and overlapping invocations | coverage is complete exactly where nothing failed; failures never invent, play down or resolve a finding | `FleetScan` with `DriftHistory` |
| Collectors, rules, normalisation (`auditor/collectors`, `rules`, `normalize`) | none | one call after the other, fourteen rules | denied, failed and absent answers | unknown state is neither a finding nor an all-clear | `AccountRules` |
| Scan contract, exceptions (`models/contracts.py`, `severity.py`, `exceptions.py`) | none | status, exit code, identity, exceptions and gate | expiry between load and judgement | a gate is passed only by what was read | `ScanContract` |
| IaC scanning (`auditor/iac/scanning.py`) | none | discovery, built-in rules, Checkov, Conftest | a tool missing, hanging or answering rubbish for some files; findings merged across files before exceptions are applied | a scan passes only on what it read, and on violations that are excused | `IacScan` |
| Remediation (`auditor/remediation.py`, `remediation-pr.yml`) | plan, pull request, sandbox, output files | preview, verify review, copy, apply, rescan, recheck, write | source, plan, pull request and reviews change under it; runs share a directory; results half written | a PASS vouches for exactly the reviewed edits of the reviewed source | `Remediation` with `IacScan` |
| Role capture and review (`phase3/role_capture.py`, `role_evidence.py`, `scripts/record_phase3_role_review.py`) | tracked and private directories, manifest | capture, clean up, roll back, verify, record, gate | failures and kills at any file, overlapping captures, edits, crashed recordings | both halves or none; the gate accepts only what was verified | `RoleReview` |
| Stage gates (`phase3/stage_gates.py`, `stage_evidence.py`) | stage records, reviews | validate | order and freshness | no stage passes on stale or earlier evidence | not modelled |
| Redaction (`phase3/redaction.py`) | none | redact, validate | | only allow-listed data leaves | not modelled |
| Supply chain, AI analyst, session guard, CLI arguments, reporters, console, lab, evidence scripts | | | I/O, text and rendering | | not modelled |

How they interact: the schedule starts an execution; its task scans and invokes
the snapshot writer, which records the report and its drift (computed by the
fleet history over the rebuilt runs); the execution asks the writer for the
receipt and invokes the publisher with it, which redacts and publishes; failure
states record the attempt in both stores. The public API and Rin only read the
public store; the kill switch writes the feature item both of them read. Outside
the control plane, the operator's fleet scan records into the same history; the
remediation and the CI scan share `scan_paths`; and the Terraform workflow
assumes a role only if the gate accepts what a capture and a review left in the
repository.

## Modules

**`PublicSite`** is what the console promises: nothing, or one complete scan
with a fixed body, replaced in one step by a strictly newer complete scan.

**`Publisher`** is the publisher Lambda. A worker is an invocation; each S3 or
DynamoDB call of `publish_snapshot`, `publish` and `record_attempt` is an
action, guarded by the call's condition. A call may answer, take effect and be
sent again (`Answered` leaves the worker where it is), or raise before or after
its effect (`Fail`). Bodies differ between redactor versions, since a run's key
does not. `Shown` maps the stored state to `PublicSite`.

**`RunLog`** is what the private history promises: each run recorded once, for
ever, against the history at that instant.

**`PrivateStore`** is `persist` under the `LOCK#SCAN` item. Time is a clock in
seconds; an invocation is alive until its Lambda timeout; the lock is free once
its expiry is before the time its claimant read. Errors go through the
`finally` clause (`Raise`), kills do not (`Kill`).

**`ScanWorkflow`** composes them: executions of both state machines (`Stage2`),
the publisher's steps by `Pub == INSTANCE Publisher`, the private history by
`Log == INSTANCE RunLog`, which `PrivateStore` is shown to implement. A persist
goes on after the task that waited for it has failed.

**`DriftHistory`** is `record_scan`, one SQLite transaction and so one action,
over per-scope coverage.

**`RinService`** is one action per storage or provider call of a question,
against the kill switch, its recovery by a replaced item, lost responses and
midnight.

**`PublicApi`** is the read side: a request is authenticated and makes the
store's calls one by one, beside `Publishers == INSTANCE Publisher`. A response
remembers what it showed, so properties can relate a reader's answers to the
store and to each other, and whether the reader was signed in, so `TypeOK` can
say that no one else is answered with data while access is invite-only. A read
may fail or be refused.

**`ScanContract`** holds what all scans share: severities, status, exit codes,
the identity of a finding, exceptions and the gate.

**`AccountRules`** is one account's settings, the calls that read them and the
rules over what was read. `FullView` is the view of a scan that read
everything, which `FleetScan` uses as the reference.

**`FleetScan`** is an invocation of the scheduled scan: lock, external id,
session, one action per AWS call (or the crash of a collector), judgement,
coverage, status, and the record in the history by `History == INSTANCE
DriftHistory`. `held` remembers what was so throughout the scan.

**`IacScan`** computes every answer `scan_paths` may give for a tree, for each
choice of the tool calls that fail and of the order in which Checkov lists its
findings. A file is of a format and, if it is in scope, of a kind; discovery
knows the first from the name and the second only by parsing, so the model
passes over the JSON files the code passes over. `Deduplicate` keeps the first
of the findings that agree in scanner, control and resource, with its location.

**`Remediation`** is the command, the analyst's proposal check and the CI scan
as processes over one source, plan, pull request and output directory. Each
GitHub call, file read, copied file, rescan and file operation is an action:
`view` is what a preview or a digest in progress has read so far, file by file,
and the source may change in between. `out` is a partial function: the files
that exist in the shared directory.

**`RoleReview`** is captures, the recorder and the gate over the two evidence
directories and the manifest's record. Digests are modelled by their contents;
a file knows which capture created it, as the code does by inode.

**`X_proofs`** holds the theorems about `X`, for `Publisher`, `PrivateStore`,
`ScanWorkflow`, `RinService`, `PublicApi`, `Remediation` and `RoleReview`;
**`FleetHistory_proofs`** those about `DriftHistory` and `FleetScan`.
**`MC...`** modules give the constants for TLC. Operators named `X_Variant` are
plausible bugs of `X`, used only to test that a property would notice them.

## Runs

| Run | Shows | Instance and why it is enough |
|---|---|---|
| `publish` | readers see `PublicSite`; the pointer is servable; status never regresses nor runs ahead; replies are honest | 2 invocations, each restarting without end; 4 runs: an older one, two of one second (the condition is strict), a newer incomplete one; 2 bodies. Two invocations reach every race on a key, and a third publication can happen between two calls of one. |
| `private_store` | mutual exclusion, loadable index, true receipts, kept baseline, `RunLog`; the lock can always be taken again | 3 invocations, 3 runs, window of 1 so that the baseline leaves it, TTL equal to the timeout (the tightest allowed). Symmetry is sound here for the liveness property as well: invocations and the clock only go forward, so no state repeats but by stuttering, and the fairness is of `Tick` alone. |
| `workflow` | success and failure of an execution agree with both stores; every started scan is accounted for | 2 overlapping executions of complete scans, 4 instants, fairness |
| `public` | what readers are shown | 1 publisher invocation and its successors beside 1 reader with 2 requests; 3 runs, the newest incomplete; 2 bodies; all access modes. One invocation takes its calls between any two of the reader's, and its successors publish older runs late. |
| `fleet` | coverage, findings and drift of scans that partly fail | 2 accounts, 2 regions, 3 services, 2 invocations, so that the second is compared with the first; 1 failed call, 1 change, 1 kill. A scan handles its scopes apart, so a second fault in another scope would meet the same code; two accounts suffice to see a fault spill over. |
| `drift` | drift is lossless between complete scans; baselines are protected | 3 runs in all orders, 2 scopes with a finding each, 2 contents |
| `remediation` | what a PASS vouches for | 2 runs, of the command or of the proposal check, in one directory; 3 files, of which one is left out; 2 edits of the source, in any order and between any two reads; a plan of one and one of two operations, a commit that was approved and one pushed after it, 1 failing tool call |
| `iac_scan` | what a passing scan has seen | 1 scan, of the CI or of a proposal; 2 Terraform files that may name the same bucket, a manifest and a policy in JSON, each valid, invalid, unparsable or undecodable; 129 trees; 1 failing tool call; both orders of Checkov; for each of two scanners an exception for one of the files, which expires. Findings are merged in pairs, so two files show what the order decides. |
| `role_review` | captured halves agree; the gate accepts what was verified | 2 overlapping captures, restarting without end; 2 ARNs, one of which changes; 2 troubles (changed role, failed call or write, kill, edit) in any combination |
| `rin` | caps, shared allowance, the switch | 3 questions of 2 sessions, session limit 1, cap 2, one midnight, one lost response; that the cap holds where the sessions' limits alone would not keep it is the theorem's |
| `remediation_marker` (violated) | see Findings | 1 run, the body the workflow writes |
| `public_failure` (violated) | see Findings | as `public` |

Deadlock is not checked where the system stops by itself: every run recorded,
every execution, scan or remediation ended, every question answered. `publish`,
`public` and `role_review` check it.

Bounds are constants: `MaxTime`, `MaxDay` and `MaxLost` (clock, days, lost
responses), `MaxRequests`, `MaxChanges`, `MaxFaults`, `MaxKills`,
`MaxToolFaults`, `MaxReviews` and `MaxTrouble`, the sets of runs, invocations
and questions. `PrivateStore`'s clock
is not bounded: `Tick` is enabled only while time can be observed, and an ended
invocation forgets its start.

**Fairness.** `PrivateStore` assumes only `WF(Tick)`: time passes. No
invocation has to make progress, since any may die. `ScanWorkflow` assumes
weak fairness of each execution's own steps: Step Functions moves an execution
on, a task ends or times out and is caught, a Lambda ends by its timeout. The
late persist of an abandoned writer is not fair. The other modules state safety
only.

## Findings

*The proposal workflow's pull requests are always refused.*
`remediation-pr.yml:111` writes `Remediation preview SHA-256: ...` into the
body; `_verify_github_review` looks for `Remediation Preview SHA-256: ...`
(`remediation.py:751-754`). `docs/remediation.md:57-58` and `:77-80` say that
the command checks for the digest the workflow put there. `remediation_marker`
gives the trace. In the run `remediation` the body is spelled as the verifier
wants it, so that what follows is explored.

*A failing store is answered as the reader's mistake.* `PublicApiError` is a
`ValueError`, and the handlers of `/api/runs`, `/api/findings` and `/api/drift`
answer every `ValueError` with a 400 that caches may keep for 30 seconds
(`public_api.py:200`, `:210`);
`tests/test_phase3_public_api_routes.py:96` expects a 503 with `no-store`, and
misses it because its store raises another type. `public_failure` gives the
trace.

Divergences between texts and code that no run shows:

- *ScanFailed* says "the previous complete private snapshot remains
  authoritative" (`stage1.tf:89`), but the failed scan may have been recorded:
  the lock's release raises after the item was written
  (`private_snapshot_store.py:104-105`), the task gives up on an answer early,
  or the receipt is not visible in time. *PublicationPaused* says the previous
  public snapshot remains active (`stage1.tf:137`), but `record_attempt` may fail
  after `publish` moved the pointer (`publisher.py:45-56`). `ServedNotFailed` and
  `SuccessHolds` say what does hold.
- `docs/iac-scanning.md:32-34` says that a malformed supported file is an
  `ERROR`, never a clean pass. In a directory, discovery skips a `.json` file
  that does not parse unless its name contains `iam` or `policy`, and one that is
  not UTF-8 even then (`scanning.py:506-519`), be it a manifest or a policy.
- `docs/iac-scanning.md:98-100` and `:117` give an exception one exact scope and
  let it lower its own finding only. `deduplicate_findings` merges the findings
  of one control on equally named resources of several files and keeps the
  location of the first (`scanning.py:383-408`), by which an exception for a
  source file is matched (`exceptions.py:194-195`): the gate may pass with a
  violation in `b.tf` that only `a.tf` is excused for. For this and the previous
  point `PassIsThorough` says what does hold: every file whose format or name
  shows what it is was read, and of each violation another report of that
  control on that resource name is excused.
- `collectors/s3.py:69-70` says the rules stay silent when the public access
  block could not be read; `_acl_rule` and `_policy_rule` then report at their
  highest severity. `ErrorsOnlyObscure` allows that: a failure may aggravate.
- `cloudtrail_rules.py:8` calls CT-001 and CT-002 account-level, but they are
  judged per region over trails homed there (`collectors/cloudtrail.py:39`), so
  a region covered by another region's multi-region trail is reported.
- `docs/private-access.md:114-115` describes static mode as a behaviour; in the
  API it changes one header.
- Two or more inline policies can never pass the gate: redaction gives all of
  them the name `<POLICY_NAME>` and `_validate_inline_policies` wants distinct
  names. For managed policies `_managed_policy_identity` handles this.

Observations that contradict no document: `DriftReplays` is about complete
scans because a finding first seen by an incomplete one is announced as new
again by the next scan, and never as resolved; a run recorded late is compared
with a newer baseline; provider calls are capped by the day a question was
charged on, so a question charged before midnight may reach the provider after
it; a lost response can charge a question more than once, never less. One
account is read call by call, and so is one role: a change in between gives a
view that never existed at one instant. A reader's response is torn in the same
way, which is why `TornReadsCatchUp` bounds the tear instead of excluding it.
The gate compares projections, so a role whose new resource names are redacted
alike is accepted on the earlier review. The recorder rewrites the manifest in
place and two recorders would lose each other's record; the model has one.
A killed remediation leaves its `.name.tmp` file, and a source that changed and
changed back looks unchanged to a digest.

## Proofs

Checked by TLAPS for all values of the constants, from the assumptions named in
the modules.

*Publisher* (`PublisherAssumption`, `FleetContract`). `TypeOK` is inductive.
The other invariants follow from `IndInv`, which adds what an invocation past a
step may rely on: its object is stored with its own body, its `RUN#` item
exists, the pointer is as new as its run. These facts are stable because
objects and index items are immutable and the pointer only advances, so no step
of another worker disturbs them. From them: `PointerServable`,
`StatusNotAhead`, `RepliesHonest`, `StatusNeverRegresses`, and the refinement
of `PublicSite`, where every step but `UpdateLatest` leaves `Shown` unchanged.
`FleetContract` (PASS or FAIL implies complete scopes) is what
`fleet_scan.py` and `classify_scan` establish; `StatusNotAhead` needs it.

*PrivateStore* (`PrivateStoreAssumption`, `TimeoutWithinTTL`). The key lemma is
that an invocation alive in the body of `persist` owns the lock and the lock
has not expired: it was taken at or after the invocation read the clock, for a
TTL no shorter than the timeout. `TimeoutWithinTTL` (300 s against 3600 s) is
therefore necessary. Mutual exclusion follows; with it the history an
invocation read is the index until it writes, which gives the loadable index,
the receipts, the baseline and the refinement of `RunLog`.

*RoleReview* (`RolesAssumption`, `NoneAssumption`: the policies of a role are
sequences, a missing directory is no directory). The gate sees neither a
capture nor a private source, so `GateMeansVerified` is not inductive. `IInv`
follows a review through the places it can be in: the manifest's record, the
recorder's memory, and the record it would restore; each is backed by a source
whose redaction it is. Only `Verify` creates a review, and it compares the two
halves (`VerifyBacks`). For `HalvesAgree`, `HInv` names an owner: the capture
whose `mkdir` of the tracked half succeeded and that has neither finished nor
cleaned up. There is at most one; at each of its steps `Underway` says what it
has on disk; all other captures find no file of their own there (`Apart`), so
neither their failures nor their cleaning up changes anything; and without an
owner the halves agree. A kill or an edit ends these claims (`damaged`) until
the directories are cleared.

*RinService* (`RinAssumption`). The caps are facts about numbers of questions,
so the invariant counts: those whose session was charged are no more than the
session's counter, those charged to the day no more than the global one, and
the global one, with the questions between the two increments added, is covered
by the sessions' units and the repeated increments. The lemmas on one question
more or less (from `FiniteSetTheorems`) carry the counts from one state to the
next. `SwitchHolds` holds because the last check reads the item again.

*DriftHistory* (`DriftAssumption`, `NoneAssumption`). One transaction is one
step, so the work is in the lemmas about the operators: the newest complete
scan of a scope is unique, a late run never becomes it, and the row of a
finding says what was open before. `NoneAssumption` was too weak at first: a
proof failed because `None` could have been a row of drift states.

*FleetScan* (`FleetAssumption`: what `parse_fleet_config` accepts, and settings
of the shapes there are; `AnswerAssumption`, `HistoryAssumption`: the ways to
have no value are told from values). Nothing bounds the accounts, regions,
invocations, changes, failures or kills. The invariant has three layers, each
proved with the ones before it.

1. `PlaceInv` and `LockInv` say where a scan can be (`here` is a place of the
   configuration, the view is that of the service being read) and that the
   holder of the lock is the one invocation that runs. From these follows
   `SkipsOnlyWhileRunning`.
2. `ScanInv` says what the report covers there. At a place, some scopes are
   *behind* it, those of earlier accounts, of earlier regions and, once they
   were read, the global ones. A scope behind has one entry, equal to what the
   errors say (`Exact`), and one ahead has no entry and no finding (`Blank`);
   and every error is of something behind (`Placed`). A session's error
   concerns the global scopes only when all regions have one, so the last
   refusal may change what is known of scopes far from it: `SessionAt` counts
   the refused regions on the way. At the end everything is behind, which is
   `CoverageExact`.
3. `TellInv` says what the view, the scope and the report tell of the accounts.
   Each outcome in a view is an answer of settings the account had during the
   scan, or has an error of its own (`Entry`). Of the rules three facts are
   proved, control by control, for any settings and any part of the calls
   answered: a rule reports nothing that the full view would not report
   (`Sound`), no less severely, and everything unless a call that decides it is
   unanswered (`Complete`); and if no call failed, what was so in all settings
   the answers came from is reported (`Shown`), although the view as a whole
   may never have existed at one instant. `Told` carries this through scope,
   account and report. A change of an account only weakens what has to be told
   (`Later`): `held` loses what no longer holds, and nothing is claimed to be
   so any more. `ErrorsOnlyObscure` and `ResolvedIsReal` follow, the latter
   because the history resolves only in complete scopes, where what held was
   reported.

`FleetKeepsHistory` shows that every step of a fleet scan is a step of
`DriftHistory` or leaves it alone. So `DriftReplays` and `BaselineProtected`
hold of what scans record. It needs `History!Valid` of every finished report,
from layer 2, and that severities are severities, from layer 3.

Two properties were false as first stated, though no run had found it. A
session refused in a region where nothing is left to read makes no scope
incomplete but degrades the run, so `CoverageExact` now names it. And a key
may be replaced, or used, between the listing and the question when it was last
used: both keys are dormant, the mixture is not, so a key that changed has not
been dormant throughout (`Change`).

*PublicApi* (`ApiAssumption`, `ApiFleetContract`, which restate the publisher's
assumptions). The reader's calls are interleaved with a publisher whose
invariant is used, not proved again: `PP == INSTANCE Publisher_proofs`. On top
of it the invariant relates each of a request's reads to the store as it was
then: what the pointer named is still stored, with the same body, and the
pointer has not gone back since. So a torn answer is torn in one direction only.

*ScanWorkflow* (`WorkflowAssumption`, and `RunsAssumption` and `RunsFleetContract`
which restate the publisher's). Again by
`PP == INSTANCE Publisher_proofs`, with runs as workers. An execution past a
stage relies on what that stage left in a store that only grows (`ATTEMPT#` and
`RUN#` items, the run log) or only advances (pointer, status); and its worker
publishes nothing but its own run, recorded and not listed as failed.

*Remediation* (`TreesAssumption`, `RunsAssumption`, `SourceMovesOn`,
`HeadMovesOn`; of `IacScan`, `FilesAssumption` and `OneSeverity`). `IInv` says of each run, by its place in the program, what its
copies agree with: the preview with the plan and the source it was read from,
the sandbox with the preview, the report with the sandbox, the head with an
approving review; and of the output directory which run its files are by.
`Linkable` keeps a second run from replacing files, which makes the last point
stable. The edits are a recursive function of the plan; `SetInduction`, taken
from the well-foundedness of the naturals, shows that it is defined and
preserves the type. A preview or a digest is read file by file, so the trees it
is compared with may never have existed: `Viewing` and `Held` say of each file
that while it is as reviewed in the source, so is what was read or copied of it.
`SourceMovesOn` keeps that true, a file never becoming the reviewed one again,
and the last digest, which finds each file as reviewed (`AsReviewed`), makes
use of it. `SourceMovesOn`
and `HeadMovesOn` are limits of the code, not of the model: it compares each
file by digest and the head by name at a few moments, so a file that changed
and changed back, or a head that was pushed away and back, would go unnoticed.

For `PassAlwaysThorough`, a violation in a file that could be read is a report
(`Reports`), and if the scan had no error every report was found (`ReportIsFound`).
Among the reports of one control on one resource there is a first
(`SetMinimum`), which `Deduplicate` keeps (`FirstStays`); it is as severe
(`OneSeverity`), so a gate that passed found it excused. The claim about files
follows from the errors discovery and the built-in rules report (`PassReadsFiles`).

So every safety invariant, action property and refinement that a passing run
checks is also a theorem. Only model-checked: `LockRecovers` and
`EveryScanAccounted`, which need fairness and `ENABLED`, out of the prover's
reach. That a finding *is* resolved, or a scan recorded, is not claimed of
`FleetScan`: its scheduler is not fair.

## Abstractions and what is left out

- Clocks of Lambdas and of Step Functions agree; a storage call of a killed
  Lambda does not take effect after its death.
- `_prior_reports` and the loading of objects are one step; both are immutable
  or guarded by the lock. `status-index` is eventually consistent, but the run
  it is asked for left the window long before, so it is read exactly.
- The 60-day retention (item filter, S3 lifecycle, TTL) is not modelled.
- Completion times are whole seconds; the attempts' millisecond times compare
  in the same order as strings.
- `get_scan_receipt`'s five reads are one step that succeeds or fails.
- `ScanWorkflow`: `SuccessHolds` is about executions that succeed, not about one
  that ends in *PublicationPaused*; `EveryScanAccounted` accepts an execution
  whose failure state failed itself (`Aborted`).
- Rin: request parsing, configuration, the published scan's freshness, both
  guardrails and the validation of the answer are the choice whether a question
  ends (`End`). A repeated quota invocation starts after the lost one stopped.
- `PublicApi`: the query is valid, malformed or asks for an unknown severity;
  limits and the shape of a finding are left out; `/api/findings` stands for
  `/api/drift` as well. A browser may show an answer again for the 30 seconds it
  may cache it; the properties are about the answers of the API.
- `AccountRules`: one user, key, bucket, grant of each kind and trail per region.
  A policy is what the rules ask of it (what it allows, to whom). Paging is part
  of a call. The IAM collector makes twelve kinds of calls for that user, those
  for the groups it is in included.
- `FleetScan`: the fleet file is a constant, read once; accounts that share an
  id are refused when it is loaded. Ages of keys do not advance.
- `IacScan`: a file is a sequence of fragments, each with the violations the
  tools find in it. Which tool finds what is a constant. The evidence that
  merged findings gather decides nothing and is left out.
- `Remediation`: a digest is the tree it was computed of, so the contents of a
  file and commits do not come back (`Edits`, `Pushes`). The edits are applied in
  one step, in a sandbox nobody else writes to, and a rescan of it is one step;
  the CI scan reads the tree in one step too, on a checkout nobody edits.
- `RoleReview`: one stack and phase. The digest check of a roll-back and its
  removal are one step. The operator clears the directories only while no
  capture runs. Paging of the policy listings is part of a read.

## Not modelled

- *Stage gates and evidence*: one pass over a record a person wrote, with
  hundreds of format checks and no state of its own.
- *Supply-chain manifest*: hashes and external signature commands. It is made of
  a report and files given to it, and does not itself tie them to one scan.
- *Redaction, AI analyst*: conversions and validation of text.
- *Reporters, console, web bundle, CLI arguments, lab, metrics and evidence
  scripts*: rendering, packaging and I/O.
- *Per-scope baselines behind the history window*: `PrivateStore` keeps run ids
  without scopes, `DriftHistory` keeps scopes without a window. No module joins
  the two yet.

## What could follow

`PrivateStore` composed with `DriftHistory` for the window, where a baseline
may lie behind the runs that are fetched; redaction as operators against a
reference; several users, keys and buckets in `AccountRules`, whose findings
would then differ by resource as well as by control.
