---- MODULE RinService_proofs ----
(***************************************************************************)
(* Proofs about RinService for any questions, sessions, limits and losses. *)
(* The caps are facts about numbers of questions, so the invariant counts: *)
(* who reached a stage is never more than what the counter of the stage    *)
(* says, although units may be charged for nobody.                         *)
(***************************************************************************)
EXTENDS RinService, FiniteSetTheorems, TLAPS

Partitions == Sessions \cup {Global}

\* The provider is called last, and nothing but the end comes after it.
AskedLast ==
    \A q \in Questions : question[q].asked => question[q].stage \in {"cleared", "done"}

\* Questions whose session was charged for the day.
PaidBy(s, d) ==
    {q \in Questions :
        /\ question[q].session = s /\ question[q].day = d
        /\ question[q].asked \/ question[q].stage \in {"global", "charged", "cleared"}}

\* Questions for which the day's allowance was charged.
Paid(d) ==
    {q \in Questions :
        /\ question[q].day = d
        /\ question[q].asked \/ question[q].stage \in {"charged", "cleared"}}

\* Questions between the two increments.
Between(d) == {q \in Questions : question[q].day = d /\ question[q].stage = "global"}

Counted ==
    \A d \in Days :
        /\ \A s \in Sessions : Cardinality(PaidBy(s, d)) <= used[s][d]
        /\ Cardinality(Paid(d)) <= used[Global][d]
        /\ used[Global][d] + Cardinality(Between(d)) <= Cardinality(SessionUnits(d)) + lost

IInv == TypeOK /\ AskedLast /\ Counted

----

\* The counted sets are finite, and the units are those of a finite table.
LEMMA CountedFinite ==
    /\ \A S \in SUBSET Questions : IsFiniteSet(S) /\ Cardinality(S) \in Nat
    /\ \A d \in Days : IsFiniteSet(SessionUnits(d)) /\ Cardinality(SessionUnits(d)) \in Nat
<1>1. \A S \in SUBSET Questions : IsFiniteSet(S) /\ Cardinality(S) \in Nat
  BY RinAssumption, FS_Subset, FS_CardinalityType
<1>2. IsFiniteSet(1 .. SessionLimit)
  BY RinAssumption, FS_Interval
<1>3. IsFiniteSet(Sessions \X (1 .. SessionLimit))
  BY <1>2, RinAssumption, FS_Product
<1>4. \A d \in Days : SessionUnits(d) \in SUBSET (Sessions \X (1 .. SessionLimit))
  BY DEF SessionUnits
<1> QED BY <1>1, <1>3, <1>4, FS_Subset, FS_CardinalityType

\* A set that lost members, or gained none, counts no more than before.
LEMMA Fewer ==
    ASSUME NEW S, IsFiniteSet(S), NEW T \in SUBSET S
    PROVE  Cardinality(T) \in Nat /\ Cardinality(S) \in Nat /\ Cardinality(T) <= Cardinality(S)
BY FS_Subset, FS_CardinalityType

\* One question joins at most.
LEMMA OneMore ==
    ASSUME NEW S, IsFiniteSet(S), NEW x, NEW T \in SUBSET (S \cup {x})
    PROVE  Cardinality(T) \in Nat /\ Cardinality(S) \in Nat /\ Cardinality(T) <= Cardinality(S) + 1
<1>1. Cardinality(S) \in Nat
  BY FS_CardinalityType
<1>2. /\ IsFiniteSet(S \cup {x})
      /\ Cardinality(S \cup {x}) =
            IF x \in S THEN Cardinality(S) ELSE Cardinality(S) + 1
  BY FS_AddElement
<1>3. Cardinality(T) \in Nat /\ Cardinality(T) <= Cardinality(S \cup {x})
  BY <1>2, Fewer
<1> QED BY <1>1, <1>2, <1>3

\* One question leaves for good.
LEMMA OneLess ==
    ASSUME NEW S, IsFiniteSet(S), NEW x \in S, NEW T \in SUBSET (S \ {x})
    PROVE  Cardinality(T) \in Nat /\ Cardinality(S) \in Nat /\ Cardinality(T) + 1 <= Cardinality(S)
<1>1. Cardinality(S) \in Nat
  BY FS_CardinalityType
<1>2. /\ IsFiniteSet(S \ {x})
      /\ Cardinality(S \ {x}) =
            IF x \in S THEN Cardinality(S) - 1 ELSE Cardinality(S)
  BY FS_RemoveElement
<1>3. Cardinality(T) \in Nat /\ Cardinality(T) <= Cardinality(S \ {x})
  BY <1>2, Fewer
<1> QED BY <1>1, <1>2, <1>3

----

\* A question that takes a well-formed state leaves the others as they are.
LEMMA OneQuestion ==
    ASSUME TypeOK, NEW q \in Questions, NEW r \in QuestionStates,
           question' = [question EXCEPT ![q] = r]
    PROVE  /\ question' \in [Questions -> QuestionStates]
           /\ question'[q] = r
           /\ \A p \in Questions \ {q} : question'[p] = question[p]
<1>1. question \in [Questions -> QuestionStates]
  BY DEF TypeOK
<1>2. question' \in [Questions -> QuestionStates]
  BY <1>1
<1>3. question'[q] = r
  BY <1>1
<1>4. \A p \in Questions \ {q} : question'[p] = question[p]
  BY <1>1
<1> QED BY <1>2, <1>3, <1>4

\* A question is opened, or its quota writer invoked, on its own and unasked as it was.
LEMMA Begins ==
    ASSUME TypeOK, NEW q \in Questions, Open(q) \/ InvokeQuota(q) \/ InvokeLost(q)
    PROVE  /\ question' \in [Questions -> QuestionStates]
           /\ question'[q].stage \in {"opened", "session"}
           /\ question'[q].asked = question[q].asked
           /\ \A p \in Questions \ {q} : question'[p] = question[p]
<1>1. PICK r \in QuestionStates : r = question[q]
  BY DEF TypeOK
<1>2. today \in Days
  BY DEF TypeOK
<1>3. CASE Open(q)
  <2>1. PICK s : s = [r EXCEPT !.stage = "opened", !.enabled = EnabledAtStart]
    OBVIOUS
  <2>2. EnabledAtStart \in BOOLEAN
    BY DEF EnabledAtStart
  <2>3. s \in QuestionStates /\ s.stage = "opened" /\ s.asked = r.asked
    BY <2>1, <2>2 DEF QuestionStates, Stages
  <2>4. question' = [question EXCEPT ![q] = s]
    BY <1>1, <1>3, <2>1 DEF Open
  <2> QED BY <1>1, <2>3, <2>4, OneQuestion
<1>4. CASE InvokeQuota(q) \/ InvokeLost(q)
  <2>1. PICK s : s = [r EXCEPT !.stage = "session", !.day = today]
    OBVIOUS
  <2>2. s \in QuestionStates /\ s.stage = "session" /\ s.asked = r.asked
    BY <1>2, <2>1 DEF QuestionStates, Stages
  <2>3. question' = [question EXCEPT ![q] = s]
    BY <1>1, <1>4, <2>1 DEF InvokeQuota, InvokeLost
  <2> QED BY <1>1, <2>2, <2>3, OneQuestion
<1> QED BY <1>3, <1>4

\* Every step keeps the tables and the questions well formed, and no counter
\* passes its limit: each increment is conditional.
LEMMA TypeStep == TypeOK /\ [Next]_vars => TypeOK'
<1> SUFFICES ASSUME TypeOK, [Next]_vars PROVE TypeOK'
  OBVIOUS
<1> USE RinAssumption DEF TypeOK
<1>1. ASSUME NEW q \in Questions, Open(q) PROVE TypeOK'
  BY <1>1, Begins DEF Open
<1>2. ASSUME NEW q \in Questions, InvokeQuota(q) PROVE TypeOK'
  BY <1>2, Begins DEF InvokeQuota
<1>3. ASSUME NEW q \in Questions, NEW stage \in Stages, Moved(q, stage)
      PROVE  question' \in [Questions -> QuestionStates]
  BY <1>3 DEF Moved, QuestionStates
<1>4. ASSUME NEW q \in Questions PROVE Partition(q) \in Partitions /\ question[q].day \in Days
  BY DEF Partition, Partitions, QuestionStates
<1>5. ASSUME NEW p \in Partitions, NEW d \in Days, BelowLimit(p, d),
             used' = [used EXCEPT ![p][d] = @ + 1]
      PROVE  /\ used' \in [Partitions -> [Days -> Nat]]
             /\ \A r \in Partitions, e \in Days : used'[r][e] <= Limit(r)
  BY <1>5 DEF Partitions, BelowLimit, Limit
<1>6. ASSUME NEW q \in Questions, Charge(q) PROVE TypeOK'
  <2>1. question' \in [Questions -> QuestionStates]
    BY <1>6, <1>3 DEF Charge, Stages
  <2>2. /\ used' \in [Partitions -> [Days -> Nat]]
        /\ \A r \in Partitions, e \in Days : used'[r][e] <= Limit(r)
    BY <1>6, <1>4, <1>5 DEF Charge
  <2> QED BY <1>6, <2>1, <2>2 DEF Charge, Partitions, Limit
<1>7. ASSUME NEW q \in Questions, Refuse(q) PROVE TypeOK'
  BY <1>7, <1>3 DEF Refuse, Stages
<1>8. ASSUME NEW q \in Questions, ChargeLost(q) PROVE TypeOK'
  <2>1. /\ used' \in [Partitions -> [Days -> Nat]]
        /\ \A r \in Partitions, e \in Days : used'[r][e] <= Limit(r)
    BY <1>8, <1>4, <1>5 DEF ChargeLost
  <2> QED BY <1>8, <2>1 DEF ChargeLost, Partitions, Limit
<1>9. ASSUME NEW q \in Questions, InvokeLost(q) PROVE TypeOK'
  <2>1. question' \in [Questions -> QuestionStates]
    BY <1>9, Begins
  <2>2. lost' \in 0 .. MaxLost
    BY <1>9 DEF InvokeLost
  <2> QED BY <1>9, <2>1, <2>2 DEF InvokeLost
<1>10. ASSUME NEW q \in Questions, Recheck(q) PROVE TypeOK'
  BY <1>10, <1>3 DEF Recheck, Stages
<1>11. ASSUME NEW q \in Questions, Ask(q) PROVE TypeOK'
  BY <1>11 DEF Ask, QuestionStates
<1>12. ASSUME NEW q \in Questions, End(q) PROVE TypeOK'
  BY <1>12, <1>3 DEF End, Stages
<1>13. CASE Disable
  BY <1>13 DEF Disable, Items
<1>14. CASE DestroyItem
  BY <1>14 DEF DestroyItem, Items
<1>15. ASSUME NEW enabled \in BOOLEAN, CreateItem(enabled) PROVE TypeOK'
  BY <1>15 DEF CreateItem, Items
<1>16. CASE Midnight
  BY <1>16 DEF Midnight, Days
<1>17. CASE UNCHANGED vars
  BY <1>17 DEF vars
<1> QED
  BY <1>1, <1>2, <1>6, <1>7, <1>8, <1>9, <1>10, <1>11, <1>12, <1>13, <1>14, <1>15,
     <1>16, <1>17 DEF Next

----

\* Nobody is asked about again: what a question that was asked still does is end.
LEMMA AskedLastStep == TypeOK /\ AskedLast /\ [Next]_vars => AskedLast'
<1> SUFFICES ASSUME TypeOK, AskedLast, [Next]_vars PROVE AskedLast'
  OBVIOUS
<1> USE DEF TypeOK, AskedLast
<1>1. ASSUME NEW q \in Questions, NEW stage \in {"done", "session", "global", "charged", "cleared"},
             Moved(q, stage), stage = "done" \/ ~question[q].asked
      PROVE  AskedLast'
  BY <1>1 DEF Moved, QuestionStates
<1>2. ASSUME NEW q \in Questions, Open(q) \/ InvokeQuota(q) \/ InvokeLost(q) PROVE AskedLast'
  <2>1. /\ question'[q].asked = question[q].asked
        /\ \A p \in Questions \ {q} : question'[p] = question[p]
    BY <1>2, Begins
  <2>2. ~question[q].asked
    BY <1>2 DEF Open, InvokeQuota, InvokeLost
  <2> QED BY <2>1, <2>2
<1>3. ASSUME NEW q \in Questions, Charge(q) \/ Refuse(q) PROVE AskedLast'
  BY <1>3, <1>1 DEF Charge, Refuse
<1>4. ASSUME NEW q \in Questions, Recheck(q) \/ End(q) PROVE AskedLast'
  BY <1>4, <1>1 DEF Recheck, End
<1>5. ASSUME NEW q \in Questions, Ask(q) PROVE AskedLast'
  BY <1>5 DEF Ask, QuestionStates
<1>6. ASSUME UNCHANGED question PROVE AskedLast'
  BY <1>6
<1> QED
  BY <1>2, <1>3, <1>4, <1>5, <1>6
     DEF Next, ChargeLost, Disable, DestroyItem, CreateItem, Midnight, vars

\* The counters stand and nobody enters a counted set.
LEMMA NobodyCounted ==
    ASSUME TypeOK, Counted, lost' \in {lost, lost + 1}, used' = used,
           \A d \in Days :
              /\ Paid(d)' \subseteq Paid(d) /\ Between(d)' \subseteq Between(d)
              /\ \A s \in Sessions : PaidBy(s, d)' \subseteq PaidBy(s, d)
    PROVE  Counted'
<1> SUFFICES ASSUME NEW d \in Days
             PROVE  /\ \A s \in Sessions : Cardinality(PaidBy(s, d)') <= used[s][d]
                    /\ Cardinality(Paid(d)') <= used[Global][d]
                    /\ used[Global][d] + Cardinality(Between(d)')
                          <= Cardinality(SessionUnits(d)) + lost'
  BY DEF Counted, SessionUnits
<1>1. used[Global][d] \in Nat /\ \A s \in Sessions : used[s][d] \in Nat
  BY DEF TypeOK
<1>2. \A s \in Sessions : Cardinality(PaidBy(s, d)') <= used[s][d]
  <2> SUFFICES ASSUME NEW s \in Sessions PROVE Cardinality(PaidBy(s, d)') <= used[s][d]
    OBVIOUS
  <2>1. IsFiniteSet(PaidBy(s, d)) /\ PaidBy(s, d)' \in SUBSET PaidBy(s, d)
    BY CountedFinite DEF PaidBy
  <2> QED BY <2>1, <1>1, Fewer DEF Counted
<1>3. IsFiniteSet(Paid(d)) /\ Paid(d)' \in SUBSET Paid(d)
  BY CountedFinite DEF Paid
<1>4. IsFiniteSet(Between(d)) /\ Between(d)' \in SUBSET Between(d)
  BY CountedFinite DEF Between
<1>5. Cardinality(Paid(d)') <= used[Global][d]
  BY <1>1, <1>3, Fewer DEF Counted
<1>6. Cardinality(Between(d)') \in Nat /\ Cardinality(Between(d)) \in Nat
      /\ Cardinality(Between(d)') <= Cardinality(Between(d))
  BY <1>4, Fewer
<1>7. Cardinality(SessionUnits(d)) \in Nat /\ lost \in Nat
  BY CountedFinite, RinAssumption DEF TypeOK
<1>8. used[Global][d] + Cardinality(Between(d)) <= Cardinality(SessionUnits(d)) + lost
  BY DEF Counted
<1> QED BY <1>1, <1>2, <1>5, <1>6, <1>7, <1>8

\* A session's increment adds one unit to those of the day, for the session's counter
\* is below its limit.
LEMMA UnitAdded ==
    ASSUME TypeOK, NEW s \in Sessions, NEW e \in Days, BelowLimit(s, e),
           used' = [used EXCEPT ![s][e] = @ + 1]
    PROVE  /\ Cardinality(SessionUnits(e)') = Cardinality(SessionUnits(e)) + 1
           /\ \A d \in Days \ {e} : SessionUnits(d)' = SessionUnits(d)
           /\ used'[Global] = used[Global]
<1>1. used[s][e] \in Nat /\ used[s][e] + 1 \in 1 .. SessionLimit /\ s # Global
  BY RinAssumption DEF TypeOK, BelowLimit, Limit
<1>2. /\ \A t \in Sessions, d \in Days :
            used'[t][d] = IF t = s /\ d = e THEN used[t][d] + 1 ELSE used[t][d]
      /\ used'[Global] = used[Global]
  BY <1>1 DEF TypeOK
<1>3. \A t \in Sessions, d \in Days : used[t][d] \in Nat
  BY DEF TypeOK
<1>4. SessionUnits(e)' = SessionUnits(e) \cup {<<s, used[s][e] + 1>>}
  BY <1>1, <1>2, <1>3 DEF SessionUnits
<1>5. <<s, used[s][e] + 1>> \notin SessionUnits(e)
  BY <1>1 DEF SessionUnits
<1>6. IsFiniteSet(SessionUnits(e))
  BY CountedFinite
<1>7. Cardinality(SessionUnits(e) \cup {<<s, used[s][e] + 1>>}) = Cardinality(SessionUnits(e)) + 1
  BY <1>5, <1>6, FS_AddElement
<1>8. \A d \in Days \ {e} : SessionUnits(d)' = SessionUnits(d)
  BY <1>2 DEF SessionUnits
<1> QED BY <1>2, <1>4, <1>7, <1>8

\* The day's allowance has a counter of its own: no session's unit is touched.
LEMMA AllowanceTaken ==
    ASSUME TypeOK, NEW e \in Days, used' = [used EXCEPT ![Global][e] = @ + 1]
    PROVE  /\ \A d \in Days : SessionUnits(d)' = SessionUnits(d)
           /\ \A s \in Sessions : used'[s] = used[s]
           /\ \A d \in Days : used'[Global][d] = IF d = e THEN used[Global][d] + 1
                                                    ELSE used[Global][d]
<1>1. Global \notin Sessions
  BY RinAssumption
<1>2. \A s \in Sessions : used'[s] = used[s]
  BY <1>1 DEF TypeOK
<1> QED BY <1>2 DEF TypeOK, SessionUnits

\* The first increment: the session pays, and the question stands between the two.
LEMMA SessionCharged ==
    ASSUME TypeOK, TypeOK', AskedLast, Counted, NEW q \in Questions, Charge(q),
           question[q].stage = "session"
    PROVE  Counted'
<1>0. PICK payer \in Sessions, e \in Days : question[q].session = payer /\ question[q].day = e
  BY DEF TypeOK, QuestionStates
<1>1. BelowLimit(payer, e) /\ used' = [used EXCEPT ![payer][e] = @ + 1]
  BY <1>0 DEF Charge, Partition
<1>2. question' = [question EXCEPT ![q].stage = "global"] /\ lost' = lost
  BY DEF Charge, Moved
<1>3. ~question[q].asked
  BY DEF AskedLast
<1>4. /\ Cardinality(SessionUnits(e)') = Cardinality(SessionUnits(e)) + 1
      /\ \A d \in Days \ {e} : SessionUnits(d)' = SessionUnits(d)
      /\ used'[Global] = used[Global]
  BY <1>1, UnitAdded
<1>5. /\ \A p \in Questions \ {q} : question'[p] = question[p]
      /\ question'[q].stage = "global" /\ question'[q].day = e
      /\ question'[q].session = payer /\ question'[q].asked = question[q].asked
  BY <1>0, <1>2 DEF TypeOK, QuestionStates
<1> SUFFICES ASSUME NEW d \in Days
             PROVE  /\ \A t \in Sessions : Cardinality(PaidBy(t, d)') <= used'[t][d]
                    /\ Cardinality(Paid(d)') <= used'[Global][d]
                    /\ used'[Global][d] + Cardinality(Between(d)')
                          <= Cardinality(SessionUnits(d)') + lost'
  BY DEF Counted
<1>6. used[Global][d] \in Nat /\ (\A t \in Sessions : used[t][d] \in Nat) /\ lost \in Nat
      /\ Cardinality(SessionUnits(d)) \in Nat
  BY CountedFinite, RinAssumption DEF TypeOK
<1>7. ASSUME NEW t \in Sessions PROVE Cardinality(PaidBy(t, d)') <= used'[t][d]
  <2>1. IsFiniteSet(PaidBy(t, d)) /\ Cardinality(PaidBy(t, d)) <= used[t][d]
    BY CountedFinite DEF PaidBy, Counted
  <2>2. CASE t = payer /\ d = e
    <3>1. PaidBy(t, d)' \in SUBSET (PaidBy(t, d) \cup {q})
      BY <1>5 DEF PaidBy
    <3>2. used'[t][d] = used[t][d] + 1
      BY <1>1, <2>2 DEF TypeOK
    <3>3. Cardinality(PaidBy(t, d)') \in Nat /\ Cardinality(PaidBy(t, d)) \in Nat
          /\ Cardinality(PaidBy(t, d)') <= Cardinality(PaidBy(t, d)) + 1
      BY <2>1, <3>1, OneMore
    <3> QED BY <1>6, <2>1, <3>2, <3>3
  <2>3. CASE ~(t = payer /\ d = e)
    <3>1. PaidBy(t, d)' \in SUBSET PaidBy(t, d)
      BY <1>5, <2>3 DEF PaidBy
    <3>2. used'[t][d] = used[t][d]
      BY <1>1, <2>3 DEF TypeOK
    <3>3. Cardinality(PaidBy(t, d)') <= Cardinality(PaidBy(t, d))
          /\ Cardinality(PaidBy(t, d)') \in Nat /\ Cardinality(PaidBy(t, d)) \in Nat
      BY <2>1, <3>1, Fewer
    <3> QED BY <1>6, <2>1, <3>2, <3>3
  <2> QED BY <2>2, <2>3
<1>8. Cardinality(Paid(d)') <= used'[Global][d]
  <2>1. IsFiniteSet(Paid(d)) /\ Cardinality(Paid(d)) <= used[Global][d]
    BY CountedFinite DEF Paid, Counted
  <2>2. Paid(d)' \in SUBSET Paid(d)
    BY <1>3, <1>5 DEF Paid
  <2>3. Cardinality(Paid(d)') \in Nat /\ Cardinality(Paid(d)) \in Nat
        /\ Cardinality(Paid(d)') <= Cardinality(Paid(d))
    BY <2>1, <2>2, Fewer
  <2> QED BY <1>4, <1>6, <2>1, <2>3
<1>9. used'[Global][d] + Cardinality(Between(d)') <= Cardinality(SessionUnits(d)') + lost'
  <2>1. /\ IsFiniteSet(Between(d))
        /\ used[Global][d] + Cardinality(Between(d)) <= Cardinality(SessionUnits(d)) + lost
    BY CountedFinite DEF Between, Counted
  <2>2. CASE d = e
    <3>1. Between(d)' \in SUBSET (Between(d) \cup {q})
      BY <1>5 DEF Between
    <3>2. Cardinality(Between(d)') \in Nat /\ Cardinality(Between(d)) \in Nat
          /\ Cardinality(Between(d)') <= Cardinality(Between(d)) + 1
      BY <2>1, <3>1, OneMore
    <3> QED BY <1>2, <1>4, <1>6, <2>1, <2>2, <3>2
  <2>3. CASE d # e
    <3>1. Between(d)' \in SUBSET Between(d)
      BY <1>5, <2>3 DEF Between
    <3>2. Cardinality(Between(d)') \in Nat /\ Cardinality(Between(d)) \in Nat
          /\ Cardinality(Between(d)') <= Cardinality(Between(d))
      BY <2>1, <3>1, Fewer
    <3> QED BY <1>2, <1>4, <1>6, <2>1, <2>3, <3>2
  <2> QED BY <2>2, <2>3
<1> QED BY <1>7, <1>8, <1>9

\* The second increment: the question leaves the set between for the paid ones.
LEMMA GlobalCharged ==
    ASSUME TypeOK, TypeOK', AskedLast, Counted, NEW q \in Questions, Charge(q),
           question[q].stage = "global"
    PROVE  Counted'
<1>0. PICK e \in Days : question[q].day = e
  BY DEF TypeOK, QuestionStates
<1>1. used' = [used EXCEPT ![Global][e] = @ + 1]
  BY <1>0 DEF Charge, Partition
<1>2. question' = [question EXCEPT ![q].stage = "charged"] /\ lost' = lost
  BY DEF Charge, Moved
<1>3. /\ \A d \in Days : SessionUnits(d)' = SessionUnits(d)
      /\ \A s \in Sessions : used'[s] = used[s]
      /\ \A d \in Days : used'[Global][d] = IF d = e THEN used[Global][d] + 1
                                               ELSE used[Global][d]
  BY <1>1, AllowanceTaken
<1>4. /\ \A p \in Questions \ {q} : question'[p] = question[p]
      /\ question'[q].stage = "charged" /\ question'[q].day = e
      /\ question'[q].session = question[q].session /\ question'[q].asked = question[q].asked
  BY <1>0, <1>2 DEF TypeOK, QuestionStates
<1> SUFFICES ASSUME NEW d \in Days
             PROVE  /\ \A t \in Sessions : Cardinality(PaidBy(t, d)') <= used'[t][d]
                    /\ Cardinality(Paid(d)') <= used'[Global][d]
                    /\ used'[Global][d] + Cardinality(Between(d)')
                          <= Cardinality(SessionUnits(d)') + lost'
  BY DEF Counted
<1>5. used[Global][d] \in Nat /\ (\A t \in Sessions : used[t][d] \in Nat) /\ lost \in Nat
      /\ Cardinality(SessionUnits(d)) \in Nat
  BY CountedFinite, RinAssumption DEF TypeOK
<1>6. ASSUME NEW t \in Sessions PROVE Cardinality(PaidBy(t, d)') <= used'[t][d]
  <2>1. IsFiniteSet(PaidBy(t, d)) /\ Cardinality(PaidBy(t, d)) <= used[t][d]
    BY CountedFinite DEF PaidBy, Counted
  <2>2. PaidBy(t, d)' \in SUBSET PaidBy(t, d)
    BY <1>0, <1>4 DEF PaidBy
  <2>3. Cardinality(PaidBy(t, d)') \in Nat /\ Cardinality(PaidBy(t, d)) \in Nat
        /\ Cardinality(PaidBy(t, d)') <= Cardinality(PaidBy(t, d))
    BY <2>1, <2>2, Fewer
  <2> QED BY <1>3, <1>5, <2>1, <2>3
<1>7. Cardinality(Paid(d)') <= used'[Global][d]
  <2>1. IsFiniteSet(Paid(d)) /\ Cardinality(Paid(d)) <= used[Global][d]
    BY CountedFinite DEF Paid, Counted
  <2>2. CASE d = e
    <3>1. Paid(d)' \in SUBSET (Paid(d) \cup {q})
      BY <1>4 DEF Paid
    <3>2. used'[Global][d] = used[Global][d] + 1
      BY <1>3, <2>2
    <3>3. Cardinality(Paid(d)') \in Nat /\ Cardinality(Paid(d)) \in Nat
          /\ Cardinality(Paid(d)') <= Cardinality(Paid(d)) + 1
      BY <2>1, <3>1, OneMore
    <3> QED BY <1>5, <2>1, <3>2, <3>3
  <2>3. CASE d # e
    <3>1. Paid(d)' \in SUBSET Paid(d)
      BY <1>4, <2>3 DEF Paid
    <3>2. Cardinality(Paid(d)') \in Nat /\ Cardinality(Paid(d)) \in Nat
          /\ Cardinality(Paid(d)') <= Cardinality(Paid(d))
      BY <2>1, <3>1, Fewer
    <3> QED BY <1>3, <1>5, <2>1, <2>3, <3>2
  <2> QED BY <2>2, <2>3
<1>8. used'[Global][d] + Cardinality(Between(d)') <= Cardinality(SessionUnits(d)') + lost'
  <2>1. /\ IsFiniteSet(Between(d))
        /\ used[Global][d] + Cardinality(Between(d)) <= Cardinality(SessionUnits(d)) + lost
    BY CountedFinite DEF Between, Counted
  <2>2. CASE d = e
    <3>1. q \in Between(d) /\ Between(d)' \in SUBSET (Between(d) \ {q})
      BY <1>0, <1>4, <2>2 DEF Between
    <3>2. Cardinality(Between(d)') \in Nat /\ Cardinality(Between(d)) \in Nat
          /\ Cardinality(Between(d)') + 1 <= Cardinality(Between(d))
      BY <2>1, <3>1, OneLess
    <3> QED BY <1>2, <1>3, <1>5, <2>1, <2>2, <3>2
  <2>3. CASE d # e
    <3>1. Between(d)' \in SUBSET Between(d)
      BY <1>4, <2>3 DEF Between
    <3>2. Cardinality(Between(d)') \in Nat /\ Cardinality(Between(d)) \in Nat
          /\ Cardinality(Between(d)') <= Cardinality(Between(d))
      BY <2>1, <3>1, Fewer
    <3> QED BY <1>2, <1>3, <1>5, <2>1, <2>3, <3>2
  <2> QED BY <2>2, <2>3
<1> QED BY <1>6, <1>7, <1>8

\* A unit that is charged and not answered counts for nobody: a session's is covered
\* by the unit itself, one of the day's allowance by the loss.
LEMMA LostCharged ==
    ASSUME TypeOK, TypeOK', Counted, NEW q \in Questions, ChargeLost(q)
    PROVE  Counted'
<1>0. PICK payer \in Sessions, e \in Days : question[q].session = payer /\ question[q].day = e
  BY DEF TypeOK, QuestionStates
<1>1. Global \notin Sessions
  BY RinAssumption
<1>2. question' = question /\ lost' = lost + 1
  BY DEF ChargeLost
<1>3. \A d \in Days : /\ Paid(d)' = Paid(d) /\ Between(d)' = Between(d)
                       /\ \A s \in Sessions : PaidBy(s, d)' = PaidBy(s, d)
  BY <1>2 DEF Paid, Between, PaidBy
<1>4. \A d \in Days :
        /\ used[Global][d] \in Nat /\ (\A t \in Sessions : used[t][d] \in Nat) /\ lost \in Nat
        /\ Cardinality(SessionUnits(d)) \in Nat
        /\ Cardinality(Paid(d)) \in Nat /\ Cardinality(Between(d)) \in Nat
        /\ \A s \in Sessions : Cardinality(PaidBy(s, d)) \in Nat
  BY CountedFinite, RinAssumption DEF TypeOK, Paid, Between, PaidBy
<1>5. CASE question[q].stage = "session"
  <2>1. BelowLimit(payer, e) /\ used' = [used EXCEPT ![payer][e] = @ + 1]
    BY <1>0, <1>5 DEF ChargeLost, Partition
  <2>2. /\ Cardinality(SessionUnits(e)') = Cardinality(SessionUnits(e)) + 1
        /\ \A d \in Days \ {e} : SessionUnits(d)' = SessionUnits(d)
        /\ used'[Global] = used[Global]
    BY <1>1, <2>1, UnitAdded
  <2>3. \A t \in Sessions, d \in Days : used[t][d] <= used'[t][d]
    BY <1>1, <1>4, <2>1 DEF TypeOK
  <2>4. \A t \in Sessions, d \in Days : used'[t][d] \in Nat
    BY DEF TypeOK
  <2> SUFFICES ASSUME NEW d \in Days
               PROVE  /\ \A t \in Sessions : Cardinality(PaidBy(t, d)') <= used'[t][d]
                      /\ Cardinality(Paid(d)') <= used'[Global][d]
                      /\ used'[Global][d] + Cardinality(Between(d)')
                            <= Cardinality(SessionUnits(d)') + lost'
    BY DEF Counted
  <2>5. Cardinality(SessionUnits(d)) <= Cardinality(SessionUnits(d)')
    BY <1>4, <2>2
  <2>6. Cardinality(SessionUnits(d)') \in Nat
    BY <1>1, <1>4, <2>2
  <2>7. \A t \in Sessions : Cardinality(PaidBy(t, d)) <= used[t][d]
    BY DEF Counted
  <2>8. /\ Cardinality(Paid(d)) <= used[Global][d]
        /\ used[Global][d] + Cardinality(Between(d)) <= Cardinality(SessionUnits(d)) + lost
    BY DEF Counted
  <2>9. \A t \in Sessions : Cardinality(PaidBy(t, d)) <= used'[t][d]
    BY <1>4, <2>3, <2>4, <2>7
  <2> QED BY <1>2, <1>3, <1>4, <2>2, <2>5, <2>6, <2>8, <2>9
<1>6. CASE question[q].stage = "global"
  <2>1. used' = [used EXCEPT ![Global][e] = @ + 1]
    BY <1>0, <1>6 DEF ChargeLost, Partition
  <2>2. /\ \A d \in Days : SessionUnits(d)' = SessionUnits(d)
        /\ \A s \in Sessions : used'[s] = used[s]
        /\ \A d \in Days : used'[Global][d] = IF d = e THEN used[Global][d] + 1
                                                 ELSE used[Global][d]
    BY <1>1, <2>1, AllowanceTaken
  <2> QED BY <1>2, <1>3, <1>4, <2>2 DEF Counted
<1> QED BY <1>5, <1>6 DEF ChargeLost

\* Every step keeps the counts.
LEMMA CountedStep == IInv /\ [Next]_vars => Counted'
<1> SUFFICES ASSUME TypeOK, AskedLast, Counted, [Next]_vars PROVE Counted'
  BY DEF IInv
<1>1. TypeOK' /\ lost \in Nat
  BY TypeStep, RinAssumption DEF TypeOK
<1>2. ASSUME UNCHANGED <<question, used, lost>> PROVE Counted'
  BY <1>1, <1>2, NobodyCounted DEF Paid, PaidBy, Between
<1>3. ASSUME NEW q \in Questions, Charge(q) PROVE Counted'
  BY <1>1, <1>3, SessionCharged, GlobalCharged DEF Charge
<1>4. ASSUME NEW q \in Questions, ChargeLost(q) PROVE Counted'
  BY <1>1, <1>4, LostCharged
\* The other steps of a question charge nothing and let it into no counted set.
<1>5. ASSUME NEW q \in Questions, UNCHANGED used, lost' \in {lost, lost + 1},
             \A p \in Questions \ {q} : question'[p] = question[p],
             question'[q].stage # "global",
             question'[q].asked \/ question'[q].stage \in {"charged", "cleared"} =>
                /\ question'[q].day = question[q].day
                /\ question'[q].session = question[q].session
                /\ question[q].asked \/ question[q].stage \in {"charged", "cleared"}
      PROVE  Counted'
  <2>1. \A d \in Days :
          /\ Paid(d)' \subseteq Paid(d) /\ Between(d)' \subseteq Between(d)
          /\ \A s \in Sessions : PaidBy(s, d)' \subseteq PaidBy(s, d)
    BY <1>5 DEF Paid, PaidBy, Between
  <2> QED BY <1>5, <2>1, NobodyCounted
<1>6. ASSUME NEW q \in Questions, Open(q) PROVE Counted'
  BY <1>1, <1>5, <1>6 DEF Open, TypeOK, QuestionStates, AskedLast
<1>7. ASSUME NEW q \in Questions, InvokeQuota(q) PROVE Counted'
  BY <1>1, <1>5, <1>7 DEF InvokeQuota, TypeOK, QuestionStates, AskedLast
<1>8. ASSUME NEW q \in Questions, Refuse(q) \/ End(q) PROVE Counted'
  <2>1. /\ \A p \in Questions \ {q} : question'[p] = question[p]
        /\ question'[q].stage = "done" /\ question'[q].day = question[q].day
        /\ question'[q].session = question[q].session /\ question'[q].asked = question[q].asked
    BY <1>8 DEF Refuse, End, Moved, TypeOK, QuestionStates
  <2>2. used' = used /\ lost' = lost
    BY <1>8 DEF Refuse, End
  <2> QED BY <1>5, <2>1, <2>2
<1>9. ASSUME NEW q \in Questions, InvokeLost(q) PROVE Counted'
  BY <1>1, <1>5, <1>9 DEF InvokeLost, TypeOK, QuestionStates, AskedLast
<1>10. ASSUME NEW q \in Questions, Recheck(q) PROVE Counted'
  BY <1>1, <1>5, <1>10 DEF Recheck, Moved, TypeOK, QuestionStates
<1>11. ASSUME NEW q \in Questions, Ask(q) PROVE Counted'
  BY <1>1, <1>5, <1>11 DEF Ask, TypeOK, QuestionStates
<1> QED
  BY <1>2, <1>3, <1>4, <1>6, <1>7, <1>8, <1>9, <1>10, <1>11
     DEF Next, Disable, DestroyItem, CreateItem, Midnight, vars

\* The first question finds every counter at zero.
LEMMA InitIInv == Init => IInv
<1> SUFFICES ASSUME Init PROVE IInv
  OBVIOUS
<1>1. \A p \in Partitions, d \in Days : used[p][d] = 0
  BY DEF Init, Partitions
<1>2. TypeOK
  <2>1. today \in Days /\ lost \in 0 .. MaxLost
    BY RinAssumption DEF Init, Days
  <2>2. used \in [Partitions -> [Days -> Nat]]
    BY DEF Init, Partitions
  <2>3. \A p \in Partitions, d \in Days : used[p][d] <= Limit(p)
    BY <1>1, RinAssumption DEF Limit
  <2> QED BY <2>1, <2>2, <2>3 DEF Init, TypeOK, Items, Partitions
<1>3. AskedLast
  BY DEF Init, AskedLast
<1>4. \A d \in Days : /\ Paid(d) = {} /\ Between(d) = {}
                       /\ \A s \in Sessions : PaidBy(s, d) = {}
  BY DEF Init, Paid, PaidBy, Between, QuestionStates
<1>5. Counted
  <2>1. Cardinality({}) = 0
    BY FS_EmptySet
  <2>2. lost = 0 /\ \A d \in Days : Cardinality(SessionUnits(d)) \in Nat
    BY CountedFinite DEF Init
  <2>3. ASSUME NEW d \in Days
        PROVE  /\ Cardinality(Paid(d)) = 0 /\ Cardinality(Between(d)) = 0
               /\ \A s \in Sessions : Cardinality(PaidBy(s, d)) = 0
               /\ used[Global][d] = 0 /\ \A s \in Sessions : used[s][d] = 0
    BY <1>1, <1>4, <2>1 DEF Partitions
  <2> QED BY <2>2, <2>3 DEF Counted
<1> QED BY <1>2, <1>3, <1>5 DEF IInv

LEMMA IInvStep == IInv /\ [Next]_vars => IInv'
BY TypeStep, AskedLastStep, CountedStep DEF IInv

----

\* No counter of the quota table passes its limit, for any number of sessions,
\* questions and lost responses (phase3/quotas.py increments conditionally).
THEOREM TypeCorrect == Spec => []TypeOK
<1>1. IInv => TypeOK
  BY DEF IInv
<1> QED BY <1>1, InitIInv, IInvStep, PTL DEF Spec

\* The provider is never called for more questions of a day than the cap, nor
\* of a session than its limit, although charge and call are separate steps and
\* the charge is repeated when its answer is lost.
THEOREM SpendStaysCapped == Spec => []SpendCapped
<1>1. IInv => SpendCapped
  <2> SUFFICES ASSUME IInv, NEW d \in Days
               PROVE  /\ Cardinality(Asked(d)) <= DailyCap
                      /\ \A s \in Sessions : Cardinality(AskedBy(s, d)) <= SessionLimit
    BY DEF SpendCapped
  <2>1. /\ used[Global][d] \in Nat /\ used[Global][d] <= DailyCap
        /\ \A s \in Sessions : used[s][d] \in Nat /\ used[s][d] <= SessionLimit
    BY RinAssumption DEF IInv, TypeOK, Limit
  <2>2. Cardinality(Asked(d)) <= DailyCap
    <3>1. IsFiniteSet(Paid(d)) /\ Asked(d) \in SUBSET Paid(d)
      BY CountedFinite DEF Paid, Asked
    <3>2. Cardinality(Paid(d)) <= used[Global][d]
      BY DEF IInv, Counted
    <3> QED BY <2>1, <3>1, <3>2, Fewer, RinAssumption
  <2>3. ASSUME NEW s \in Sessions PROVE Cardinality(AskedBy(s, d)) <= SessionLimit
    <3>1. IsFiniteSet(PaidBy(s, d)) /\ AskedBy(s, d) \in SUBSET PaidBy(s, d)
      BY CountedFinite DEF PaidBy, AskedBy, Asked
    <3>2. Cardinality(PaidBy(s, d)) <= used[s][d]
      BY DEF IInv, Counted
    <3> QED BY <2>1, <3>1, <3>2, Fewer, RinAssumption
  <2> QED BY <2>2, <2>3
<1> QED BY <1>1, InitIInv, IInvStep, PTL DEF Spec

\* What a day's allowance lost, its sessions paid for, but for repeated increments.
THEOREM AllowanceStaysShared == Spec => []AllowanceShared
<1>1. IInv => AllowanceShared
  <2> SUFFICES ASSUME IInv, NEW d \in Days
               PROVE  used[Global][d] <= Cardinality(SessionUnits(d)) + lost
    BY DEF AllowanceShared
  <2>1. used[Global][d] + Cardinality(Between(d)) <= Cardinality(SessionUnits(d)) + lost
    BY DEF IInv, Counted
  <2>2. /\ used[Global][d] \in Nat /\ lost \in Nat /\ Cardinality(SessionUnits(d)) \in Nat
        /\ Cardinality(Between(d)) \in Nat
    BY CountedFinite, RinAssumption DEF IInv, TypeOK, Between
  <2> QED BY <2>1, <2>2
<1> QED BY <1>1, InitIInv, IInvStep, PTL DEF Spec

\* Once the switch is flipped no question is let through to the provider any
\* more: only Recheck does that, and it reads the flag when it does.
THEOREM SwitchAlwaysHolds == Spec => SwitchHolds
<1>1. TypeOK /\ [Next]_vars => [item.static_mode => Cleared' \subseteq Cleared]_vars
  <2> SUFFICES ASSUME TypeOK, Next, item.static_mode PROVE Cleared' \subseteq Cleared
    OBVIOUS
  <2> USE DEF TypeOK, Cleared
  <2>1. ASSUME NEW q \in Questions, NEW stage, stage # "cleared", Moved(q, stage)
        PROVE  Cleared' \subseteq Cleared
    BY <2>1 DEF Moved, QuestionStates
  <2>2. ASSUME NEW q \in Questions, Open(q) \/ InvokeQuota(q) \/ InvokeLost(q)
        PROVE  Cleared' \subseteq Cleared
    <3>1. /\ question'[q].stage # "cleared" /\ question'[q].asked = question[q].asked
          /\ \A p \in Questions \ {q} : question'[p] = question[p]
      BY <2>2, Begins
    <3> QED BY <3>1
  <2>3. ASSUME NEW q \in Questions, Charge(q) \/ Refuse(q) \/ End(q)
        PROVE  Cleared' \subseteq Cleared
    BY <2>3, <2>1 DEF Charge, Refuse, End
  <2>4. ASSUME NEW q \in Questions, Recheck(q) PROVE Cleared' \subseteq Cleared
    BY <2>4, <2>1 DEF Recheck, StillEnabled
  <2>5. ASSUME NEW q \in Questions, Ask(q) PROVE Cleared' \subseteq Cleared
    BY <2>5 DEF Ask, QuestionStates
  <2>6. ASSUME UNCHANGED question PROVE Cleared' \subseteq Cleared
    BY <2>6
  <2> QED
    BY <2>2, <2>3, <2>4, <2>5, <2>6
       DEF Next, ChargeLost, Disable, DestroyItem, CreateItem, Midnight
<1> QED BY <1>1, TypeCorrect, PTL DEF Spec, SwitchHolds

====
