---- MODULE RinService ----
(***************************************************************************)
(* Questions to Rin (phase3/rin_service.py), the quota writer that charges *)
(* them (phase3/quotas.py) and the budget kill switch                      *)
(* (phase3/kill_switch.py).  A question reads the feature flag, is charged *)
(* to its session and then to the day's global allowance by a second       *)
(* Lambda, reads the flag again and only then reaches the provider.  All   *)
(* of this runs while other questions, the switch, its recovery and        *)
(* midnight do.                                                            *)
(***************************************************************************)
EXTENDS Naturals, FiniteSets

CONSTANTS
    Questions,      \* invocations of the Rin Lambda
    Sessions,       \* session tokens, or verified users: quota_identity
    Global,         \* the partition of the daily counter
    SessionLimit,   \* SESSION_QUESTION_LIMIT
    DailyCap,       \* PHASE3_RIN_DAILY_CAP
    MaxDay,         \* bound: days that pass
    MaxLost         \* bound: responses lost after their effect

ASSUME RinAssumption ==
    /\ IsFiniteSet(Questions) /\ IsFiniteSet(Sessions)
    /\ Global \notin Sessions
    /\ SessionLimit \in Nat \ {0} /\ DailyCap \in Nat \ {0}
    /\ MaxDay \in Nat /\ MaxLost \in Nat

Days == 0 .. MaxDay

Stages == {"idle", "opened", "session", "global", "charged", "cleared", "done"}

VARIABLES
    today,
    item,       \* the feature table's PLATFORM/CONFIG item
    used,       \* the quota table: partition, day -> count
    question,   \* question -> where its invocation stands
    lost        \* responses lost so far

vars == <<today, item, used, question, lost>>

Items == [present : BOOLEAN, rin_enabled : BOOLEAN, static_mode : BOOLEAN]

QuestionStates ==
    [stage : Stages, session : Sessions, day : Days, enabled : BOOLEAN, asked : BOOLEAN]

----
(* Data *)

Limit(partition) == IF partition = Global THEN DailyCap ELSE SessionLimit

BelowLimit_Inclusive(partition, day) == used[partition][day] <= Limit(partition)

\* The condition of _increment: attribute_not_exists(#count) OR #count < :limit.
BelowLimit(partition, day) == used[partition][day] < Limit(partition)

\* The counter that a question's quota writer increments next.
Partition_Reversed(q) ==
    IF question[q].stage = "session" THEN Global ELSE question[q].session

Partition(q) == IF question[q].stage = "session" THEN question[q].session ELSE Global

\* Feature flag as the request starts: rin_enabled alone.
EnabledAtStart == item.present /\ item.rin_enabled

StillEnabled_FirstRead(q) == question[q].enabled

\* rin_enabled_now, read again after the charge.
StillEnabled(q) == item.present /\ item.rin_enabled /\ ~item.static_mode

Moved(q, stage) == question' = [question EXCEPT ![q].stage = stage]

----
(* One question *)

\* _configured_rin_response reads the flag before anything else.
Open(q) ==
    /\ question[q].stage = "idle"
    /\ question' = [question EXCEPT ![q] = [@ EXCEPT !.stage = "opened", !.enabled = EnabledAtStart]]
    /\ UNCHANGED <<today, item, used, lost>>

\* The request, the configuration, the published scan and the finding are in
\* order: the quota writer is invoked and reads the clock, once.
InvokeQuota(q) ==
    /\ question[q].stage = "opened"
    /\ question[q].enabled
    /\ question' = [question EXCEPT ![q] = [@ EXCEPT !.stage = "session", !.day = today]]
    /\ UNCHANGED <<today, item, used, lost>>

\* Both conditional increments of consume_quota, the session's first.
Charge(q) ==
    /\ question[q].stage \in {"session", "global"}
    /\ BelowLimit(Partition(q), question[q].day)
    /\ used' = [used EXCEPT ![Partition(q)][question[q].day] = @ + 1]
    /\ Moved(q, IF question[q].stage = "session" THEN "global" ELSE "charged")
    /\ UNCHANGED <<today, item, lost>>

\* The condition fails: SESSION_LIMIT or DAILY_LIMIT, answered with 429.
Refuse(q) ==
    /\ question[q].stage \in {"session", "global"}
    /\ ~BelowLimit(Partition(q), question[q].day)
    /\ Moved(q, "done")
    /\ UNCHANGED <<today, item, used, lost>>

\* The table counts the unit and its response is lost: botocore sends the
\* increment again.
ChargeLost(q) ==
    /\ lost < MaxLost
    /\ question[q].stage \in {"session", "global"}
    /\ BelowLimit(Partition(q), question[q].day)
    /\ used' = [used EXCEPT ![Partition(q)][question[q].day] = @ + 1]
    /\ lost' = lost + 1
    /\ UNCHANGED <<today, item, question>>

\* The connection to the quota writer breaks, however far it came: botocore
\* invokes it again, and it reads the clock again.
InvokeLost(q) ==
    /\ lost < MaxLost
    /\ question[q].stage \in {"session", "global", "charged"}
    /\ question' = [question EXCEPT ![q] = [@ EXCEPT !.stage = "session", !.day = today]]
    /\ lost' = lost + 1
    /\ UNCHANGED <<today, item, used>>

Recheck(q) ==
    /\ question[q].stage = "charged"
    /\ Moved(q, IF StillEnabled(q) THEN "cleared" ELSE "done")
    /\ UNCHANGED <<today, item, used, lost>>

\* The input guardrail is clear and the secret is read: the one call of the
\* provider, which has no retry.
Ask(q) ==
    /\ question[q].stage = "cleared" /\ ~question[q].asked
    /\ question' = [question EXCEPT ![q].asked = TRUE]
    /\ UNCHANGED <<today, item, used, lost>>

\* Every other way a request ends: its answer or any rejection, a dependency
\* that fails, or a Lambda that times out.
End(q) ==
    /\ question[q].stage \notin {"idle", "done"}
    /\ Moved(q, "done")
    /\ UNCHANGED <<today, item, used, lost>>

----
(* The platform *)

\* disable_live_features: one update, on the condition that the item exists;
\* without it the switch raises and changes nothing.
Disable ==
    /\ item.present
    /\ item' = [item EXCEPT !.rin_enabled = FALSE, !.static_mode = TRUE]
    /\ UNCHANGED <<today, used, question, lost>>

\* Recovery is a Terraform replacement of the item: destroyed, then created.
DestroyItem ==
    /\ item.present
    /\ item' = [present |-> FALSE, rin_enabled |-> FALSE, static_mode |-> FALSE]
    /\ UNCHANGED <<today, used, question, lost>>

CreateItem(enabled) ==
    /\ ~item.present
    /\ item' = [present |-> TRUE, rin_enabled |-> enabled, static_mode |-> FALSE]
    /\ UNCHANGED <<today, used, question, lost>>

Midnight ==
    /\ today < MaxDay
    /\ today' = today + 1
    /\ UNCHANGED <<item, used, question, lost>>

Init ==
    /\ today = 0
    /\ item = [present |-> TRUE, rin_enabled |-> TRUE, static_mode |-> FALSE]
    /\ used = [p \in Sessions \cup {Global} |-> [d \in Days |-> 0]]
    /\ question \in [Questions -> {q \in QuestionStates :
          q.stage = "idle" /\ q.day = 0 /\ ~q.enabled /\ ~q.asked}]
    /\ lost = 0

Next ==
    \/ \E q \in Questions :
          \/ Open(q)
          \/ InvokeQuota(q)
          \/ Charge(q)
          \/ Refuse(q)
          \/ ChargeLost(q)
          \/ InvokeLost(q)
          \/ Recheck(q)
          \/ Ask(q)
          \/ End(q)
    \/ Disable
    \/ DestroyItem
    \/ \E enabled \in BOOLEAN : CreateItem(enabled)
    \/ Midnight

Spec == Init /\ [][Next]_vars

----
(* Properties *)

\* Every variable has its shape, and no counter passes its limit.
TypeOK ==
    /\ today \in Days
    /\ item \in Items
    /\ used \in [Sessions \cup {Global} -> [Days -> Nat]]
    /\ \A p \in Sessions \cup {Global}, d \in Days : used[p][d] <= Limit(p)
    /\ question \in [Questions -> QuestionStates]
    /\ lost \in 0 .. MaxLost

Asked(d) == {q \in Questions : question[q].asked /\ question[q].day = d}

AskedBy(s, d) == {q \in Asked(d) : question[q].session = s}

\* Whatever is lost, sent again or raced, the provider is not called for more
\* questions charged to a day than its cap, nor for more questions of one
\* session than its limit.
SpendCapped ==
    \A d \in Days :
        /\ Cardinality(Asked(d)) <= DailyCap
        /\ \A s \in Sessions : Cardinality(AskedBy(s, d)) <= SessionLimit

\* What a day's sessions were charged, unit by unit.
SessionUnits(d) == {u \in Sessions \X (1 .. SessionLimit) : u[2] <= used[u[1]][d]}

\* A session cannot drain the allowance of the others: what a day's sessions
\* took from it is within what they were charged themselves, but for the
\* increments that a lost response repeated.
AllowanceShared ==
    \A d \in Days : used[Global][d] <= Cardinality(SessionUnits(d)) + lost

\* Questions that may read the provider's secret and call it, or have.
Cleared == {q \in Questions : question[q].stage = "cleared" \/ question[q].asked}

\* "The request path rechecks the kill-switch flag before reading the provider
\* secret" (docs/operations-runbook.md:204-205): from the step that flips the
\* switch until the item is replaced no further question is let through to the
\* provider, whatever it read when it started and whatever it was charged.
SwitchHolds ==
    [][item.static_mode => Cleared' \subseteq Cleared]_vars
====
