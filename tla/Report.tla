------------------------------- MODULE Report -------------------------------
(***************************************************************************)
(* What is told about the ledger: the cohorts of the measured report       *)
(* (recovery/report.py), who waits for a human (recovery/human_review.py), *)
(* the totals, tabs and groups of the dashboard (orchestrator.py).  Nothing*)
(* here is stored: every operator is a query of RecoveryLedger's tables.   *)
(***************************************************************************)
EXTENDS RecoveryLedger

CONSTANTS
    Planted,    \* the entities of the live demo, live_demo_at_risk_ids
    Businesses  \* the customers whose customer_type is B2B

Known == {r \in Losses : status[r] # "ABSENT"}
Decided == {r \in Known : attempts[r] # <<>>}
Latest(r) == attempts[r][Len(attempts[r])]

\* A sum of amounts is the number of their units.
Units(amount) == UNION {{x} \X (1..amount[x]) : x \in DOMAIN amount}
Total(amount) == Cardinality(Units(amount))

\* at_risk_minor, summed.
Minor(rows) == Total([r \in rows |-> Value[EntityOf(r)]])

\* What detection writes into claimable and loss_category; checkouts and invoices have
\* no failure reason and are B1 and B4.
NotClaimed == {"INSUFFICIENT_FUNDS", "STOLEN_CARD"}
Claimable == {r \in Known : Failure[EntityOf(r)] \notin NotClaimed}
Segment == {r \in Known : Failure[EntityOf(r)] = "INSUFFICIENT_FUNDS"}

-----------------------------------------------------------------------------
(* human_review.py.                                                        *)

\* Mutant: the escalations are forgotten.
AwaitingHeld(a) == a.reason = "held_for_approval"

\* is_awaiting_human, of one attempt.
IsAwaitingHuman(a) ==
    \/ a.action = "ESCALATE_HUMAN" /\ a.executedAt = Never
    \/ a.reason = "held_for_approval"

\* awaiting_human_at_risk_ids
AwaitingHuman == {r \in Decided : IsAwaitingHuman(Latest(r))}

\* _latest_attempt_subquery with _awaiting_filter, the same question put in SQL.
ReviewRows ==
    {r \in Decided : \E n \in DOMAIN attempts[r] :
        LET a == attempts[r][n] IN
        /\ \A m \in DOMAIN attempts[r] : m <= n
        /\ \/ a.action = "ESCALATE_HUMAN" /\ a.executedAt = Never
           \/ a.reason = "held_for_approval"}

InHumanHands == Minor(ReviewRows)

\* human_review_queue: why a row is in it.
ReviewReason(r) ==
    LET e == EntityOf(r)
        stored == EscalationReason(Kind[e], Failure[e], Len(attempts[r]), e \in Revoked,
                                   Value[e] >= ReviewThreshold)
    IN
    IF Latest(r).action # "ESCALATE_HUMAN" THEN "value_threshold"
    ELSE IF stored = NoEscalation THEN "escalate_human" ELSE stored

\* get_human_review_queue, by_reason
ReviewCounts ==
    [reason \in {ReviewReason(r) : r \in ReviewRows} |->
        Cardinality({r \in ReviewRows : ReviewReason(r) = reason})]

-----------------------------------------------------------------------------
(* report.py.                                                              *)

CohortOf(r) == IF EntityOf(r) \in Holdout THEN "HOLDOUT" ELSE "TREATMENT"

Recovered(rows) == {r \in rows : outcome[r] = "RECOVERED"}

\* excluded_ids of build_report
Excluded == AwaitingHuman \cup {r \in Known : EntityOf(r) \in Planted}

\* _cohort_for: the losses of a population that count in a cohort, and those it counts
\* as recovered.
CohortRows(population, cohort) ==
    {r \in (population \cap Decided) \ Excluded : CohortOf(r) = cohort}
CohortRecovered(population, cohort) == CohortRows(population, cohort) \cap Recovered(Losses)

\* CohortStats
CohortStats(population, cohort) ==
    LET rows == CohortRows(population, cohort)
        recovered == CohortRecovered(population, cohort)
    IN [total |-> Cardinality(rows), atRisk |-> Minor(rows),
        recovered |-> Minor(recovered), recoveredStrong |-> Cardinality(recovered \cap strong)]

\* CohortStats.rate and render()'s NET: what the treatment recovered less what the
\* holdout's rate would have brought in anyway.
Net(population) ==
    LET t == CohortStats(population, "TREATMENT")
        h == CohortStats(population, "HOLDOUT")
    IN t.recovered - (IF h.total = 0 THEN 0
                      ELSE (t.atRisk * h.recoveredStrong) \div h.total)

CompliancePrefixed ==
    {"h1_no_consent_record", "h1_not_opted_in", "h2_revoked_mandate_blocks_charge",
     "h4_open_dispute", "h5_hard_bounced", "h6_refund_recorded", "h9_dnd_registered"}
RulePrefixed == {"h3_policy_stop", "h7_contact_cap", "h8_quiet_hours", "h10_min_gap"}

\* build_report's three tallies of latest attempts that were not let through.
NotActioned ==
    LET rest == Decided \ AwaitingHuman
        Tally(reasons) == Cardinality({r \in rest : Latest(r).reason \in reasons})
    IN
    [awaitingHuman |-> Cardinality(AwaitingHuman),
     suppressedCompliance |-> Tally(CompliancePrefixed),
     stoppedByRules |->
        Tally(RulePrefixed \cup {"recovery_disabled_for_business", "dry_run",
                                 "no_approved_template"})]

-----------------------------------------------------------------------------
(* orchestrator.py.                                                        *)

\* get_kpis, total_recovered_minor
TotalRecovered == Minor(Recovered(Losses))

\* _customer_type_summary of a tab: the losses of its entity types whose customer is of
\* its type.
TabKinds == [B2C |-> {"PAYMENT", "CHECKOUT"}, B2B |-> {"INVOICE", "SUBSCRIPTION"}]
TabRows(tab) ==
    {r \in Known : /\ Kind[EntityOf(r)] \in TabKinds[tab]
                   /\ CustomerOf[EntityOf(r)] \in Businesses <=> tab = "B2B"}
TabSummary(tab) ==
    [count |-> Cardinality(TabRows(tab)), atRisk |-> Minor(TabRows(tab)),
     recovered |-> Minor(Recovered(TabRows(tab))),
     recoveredCount |-> Cardinality(Recovered(TabRows(tab)))]

\* _payment_transactions and get_transactions_b2b: the loss shown beside an entity is the
\* one detected last.
ShownLoss(e) ==
    LET rows == {r \in Known : EntityOf(r) = e} IN
    {r \in rows : \A s \in rows : s[2] <= r[2]}

\* explain_batch_groups: where an attempt of a loss is counted.
GroupOf(r, n) ==
    LET a == attempts[r][n] IN
    IF a.executedAt # Never
    THEN IF outcome[r] = "RECOVERED" THEN "recovered" ELSE "executed_pending"
    ELSE IF a.reason \in CompliancePrefixed \cup {"h3_policy_stop"} THEN "suppressed"
    ELSE "stopped_held"

\* The attempts decided in a batch's time, and the money its recovered group shows.
BatchGroup(group, from, to) ==
    {a \in Losses \X (1..MaxAttempts) :
        LET r == a[1] n == a[2] IN
        /\ n \in DOMAIN attempts[r] /\ attempts[r][n].decidedAt \in from..to
        /\ GroupOf(r, n) = group}
GroupRecovered(group, from, to) ==
    Total([a \in IF group \in {"recovered", "executed_pending"}
                 THEN BatchGroup(group, from, to) ELSE {}
              |-> IF outcome[a[1]] = "RECOVERED" THEN Value[EntityOf(a[1])] ELSE 0])

-----------------------------------------------------------------------------
(* The money that came in: each success event brings the entity's value.   *)
MoneyPaid == Total([e \in {f \in Entities : paidAt[f] # Never} |-> Value[e]])

-----------------------------------------------------------------------------
(* Properties.                                                             *)

\* human_review.py:1-10: report, KPI tile and queue "can never disagree" about which rows
\* wait for a human.  They do not, and every recovered loss of the grand total is in exactly
\* one place: in a cohort of the headline or of the segment, in human hands, with the live
\* demo or in no population; and the tabs do not tell of more.
ReportAddsUp ==
    /\ AwaitingHuman = ReviewRows
    /\ \A r \in Recovered(Losses) :
          LET walledOff == r \in ReviewRows \/ EntityOf(r) \in Planted IN
          Cardinality({place \in {Claimable, Segment} \X {"TREATMENT", "HOLDOUT"} :
                          r \in CohortRecovered(place[1], place[2])})
              = IF walledOff \/ r \notin Claimable \cup Segment THEN 0 ELSE 1
    /\ TabSummary("B2C").recovered + TabSummary("B2B").recovered <= TotalRecovered

\* What the report has once claimed it never takes back: no recovered loss leaves its
\* cohort, though attempts, reviews, refunds and late payments go on, unless a session that
\* read it before commits.
HeadlineNeverShrinks ==
    [][\A r \in Recovered(Losses), cohort \in {"TREATMENT", "HOLDOUT"} :
          r \in CohortRecovered(Claimable, cohort)
              => r \in CohortRecovered(Claimable, cohort)' \/ Overwriting(r)]_vars

\* The nudge cadence decided on a retry at a time.
Retried(t) ==
    \E r \in Losses : \E n \in DOMAIN attempts[r] :
        attempts[r][n].decidedAt = t /\ Retry(r, n)

\* A batch's groups count the money of a loss once (explain_batch_groups finds a batch's
\* attempts by their time): no loss has two executed attempts that were decided in one
\* batch's time, unless the cadence ran in it too.  Then it may: while a retry waits in
\* the queue the next sweep decides on another.
GroupsCountOnce ==
    \A t \in 1..clock :
        Retried(t) \/ GroupRecovered("recovered", t, t) <= TotalRecovered

\* orchestrator.py:282-292: the grand total is "just adding up every dollar that has
\* actually come back".  No more is credited than was paid.
EveryDollarOnce == TotalRecovered <= MoneyPaid
=============================================================================
