------------------------------- MODULE Scoring -------------------------------
(***************************************************************************)
(* What the batch's order rests on: the features of a loss                 *)
(* (scoring/features.py), the score (scoring/port.py and baseline.py; the  *)
(* trained boosters of model.py are a constant), the profile rows run_batch*)
(* upserts, and the training rows export.py reads back.                    *)
(*                                                                         *)
(* A loss is named by its entity.  The ledger of its customer goes on      *)
(* changing while it waits, and every query of features.py reads that      *)
(* ledger again with the same bound, the loss's detected_at.               *)
(***************************************************************************)
EXTENDS Integers, Sequences, FiniteSets, SequencesExt

CONSTANTS
    Payments, Invoices,  \* the entities
    Customers,
    CustomerOf,          \* [entity -> Customers]
    B2B,                 \* the customers whose customer_type is B2B
    NoEmail,             \* the customers without an email
    Term,                \* due_at is issued_at and this long
    FailureWeight,       \* FAILURE_WEIGHT of a payment's failure
    Booster(_),          \* what the trained model makes of a feature row
    Week,                \* seven days
    Overlong,            \* the 45 days of the MSMED Act
    BatchLimit,          \* max_entities_per_batch
    GivenUp,             \* bound: how a loss may end without money
    LastStart,           \* bound: no payment or invoice after this time
    LastDeploy,          \* bound: RISK_MODEL changes no later
    MaxTime              \* bound: the clock stops here

Never == 0
Entities == Payments \cup Invoices
Resolved == {"RECOVERED", "LOST", "EXPIRED"}
Models == {"off", "baseline", "xgboost"}
Unscored == [version |-> "none"]

ASSUME ScoringConstantsOK ==
    /\ Payments \cap Invoices = {} /\ IsFiniteSet(Entities)
    /\ CustomerOf \in [Entities -> Customers]
    /\ {Term, Week, Overlong, BatchLimit, LastStart, LastDeploy, MaxTime} \subseteq Nat
    /\ MaxTime # 0
    /\ FailureWeight \in Int /\ GivenUp \subseteq {"LOST", "EXPIRED"}

VARIABLES
    clock,
    startedAt,      \* payments.initiated_at, invoices.issued_at
    succeededAt,    \* completed_at of a CAPTURED payment, invoices.paid_at
    detectedAt,     \* revenue_at_risk.detected_at of the entity's loss
    status,         \* and its status
    contactedAt,    \* executed_at of its attempt
    model,          \* RISK_MODEL of the running processes
    profile         \* the loss's customer_recovery_profile row

historyVars == <<startedAt, succeededAt, detectedAt, status, contactedAt>>
scoreVars == <<clock, historyVars, model, profile>>

ScoringTypeOK ==
    /\ clock \in 1..MaxTime
    /\ {startedAt, succeededAt, detectedAt, contactedAt} \subseteq [Entities -> 0..MaxTime]
    /\ status \in [Entities -> {"NONE", "OPEN"} \cup Resolved]
    /\ model \in Models
    /\ \A e \in Entities :
          profile[e] # Unscored =>
              /\ DOMAIN profile[e] = {"score", "version", "features"}
              /\ profile[e].version \in {"off", "score@v1", "score_ml@v1"}

ScoringInit ==
    /\ clock = 1
    /\ startedAt = [e \in Entities |-> Never]
    /\ succeededAt = [e \in Entities |-> Never]
    /\ detectedAt = [e \in Entities |-> Never]
    /\ status = [e \in Entities |-> "NONE"]
    /\ contactedAt = [e \in Entities |-> Never]
    /\ model \in Models
    /\ profile = [e \in Entities |-> Unscored]

-----------------------------------------------------------------------------
(* Features.  A rate is kept as its numerator and denominator.             *)

Siblings(e) == {f \in Entities : CustomerOf[f] = CustomerOf[e]}
NoFeatures == [customerType |-> "unknown"]

\* The rest of build_features, from the rows that count as prior.
FeaturesFrom(e, payments, invoices, losses, contacts) ==
    LET before == detectedAt[e]
        resolved == {f \in losses : status[f] \in Resolved}
        successes == {succeededAt[f] : f \in {g \in payments \cup invoices :
                                                succeededAt[g] # Never}}
        late == {i \in invoices : succeededAt[i] > startedAt[i] + Term}
        isInvoice == e \in Invoices
    IN
    [customerType |-> IF CustomerOf[e] \in B2B THEN "B2B" ELSE "B2C",
     nPrior |-> Cardinality(payments) + Cardinality(invoices),
     nResolved |-> Cardinality(resolved),
     nRecovered |-> Cardinality({f \in resolved : status[f] = "RECOVERED"}),
     sinceSuccess |-> {before - t : t \in {s \in successes : \A u \in successes : u <= s}},
     contacts |-> contacts,
     isPayment |-> e \in Payments,
     daysOverdue |-> IF isInvoice /\ before > startedAt[e] + Term
                     THEN before - (startedAt[e] + Term) ELSE 0,
     nLate |-> Cardinality(late),
     nInvoices |-> Cardinality(invoices)]

\* The per-row queries: _prior_payments, _prior_invoices, _prior_at_risk, _contacts_last_7d.
Prior(S, at, before) == {e \in S : at[e] # Never /\ at[e] < before}
QueryFeatures(e) ==
    LET before == detectedAt[e]
        mine == Siblings(e)
    IN FeaturesFrom(e, Prior(mine \cap Payments, startedAt, before),
                    Prior(mine \cap Invoices, startedAt, before),
                    Prior(mine \ {e}, detectedAt, before),
                    Cardinality({f \in Prior(mine, contactedAt, before) :
                                    contactedAt[f] >= before - Week}))

\* Mutant: rows at the very moment of detection count as prior.
BisectRight(rows, key, x) == Cardinality({i \in DOMAIN rows : key[rows[i]] <= x})

\* bisect_left: where x would go in rows, which are in the order of their key.
BisectLeft(rows, key, x) == Cardinality({i \in DOMAIN rows : key[rows[i]] < x})

\* ORDER BY: rows of one moment come in any order.
InOrder(rows, key) == \A i, j \in DOMAIN rows : i <= j => key[rows[i]] <= key[rows[j]]

\* build_feature_context keeps a customer's rows as a list in the order of their time ...
Loaded(S, key) == CHOOSE rows \in SetToSeqs({e \in S : key[e] # Never}) : InOrder(rows, key)

\* ... and build_features cuts it where the loss was detected.
CutAt(rows, key, x) == {rows[i] : i \in 1..BisectLeft(rows, key, x)}

ContextFeatures(e) ==
    LET before == detectedAt[e]
        mine == Siblings(e)
        contacts == Loaded(mine, contactedAt)
    IN FeaturesFrom(e, CutAt(Loaded(mine \cap Payments, startedAt), startedAt, before),
                    CutAt(Loaded(mine \cap Invoices, startedAt), startedAt, before),
                    CutAt(Loaded(mine, detectedAt), detectedAt, before) \ {e},
                    BisectLeft(contacts, contactedAt, before)
                        - BisectLeft(contacts, contactedAt, before - Week))

-----------------------------------------------------------------------------
(* Scores, in thousandths of the logistic's argument: 0 is the score 0.5.  *)

AtMost(x, most) == IF x > most THEN most ELSE x
AtLeast(x, least) == IF x < least THEN least ELSE x
Rate(n, of, ifNone) == IF of = 0 THEN ifNone ELSE (1000 * n) \div of

\* baseline._terms, without those that do not depend on the ledger.
Terms(f) ==
    LET shared ==
            [prior_recovery_rate |-> (4 * Rate(f.nRecovered, f.nResolved, 500)) \div 5 - 400,
             n_prior_transactions |-> AtMost(50 * f.nPrior, 500),
             contacts_last_7d |-> AtLeast(-150 * f.contacts, -450)]
    IN
    IF f = NoFeatures THEN [days_overdue |-> 0, prior_late_rate |-> 0]
    ELSE IF f.customerType = "B2C"
    THEN [failure_code_canonical |-> IF f.isPayment THEN FailureWeight ELSE 0] @@ shared
    ELSE [days_overdue |-> AtLeast(-((500 * f.daysOverdue) \div Overlong), -1000),
          prior_late_rate |-> -((3 * Rate(f.nLate, f.nInvoices, 0)) \div 5),
          crosses_msmed_45d |-> IF f.daysOverdue > Overlong THEN -300 ELSE 0] @@ shared

BaseValue == -300
Total(terms) == BaseValue + FoldFunction(LAMBDA x, y : x + y, 0, terms)

\* Mutant: a score is versioned by the RISK_MODEL that was asked for.
ScoreByModelName(f, works) ==
    IF model = "off" THEN [score |-> 0, version |-> model]
    ELSE IF model = "xgboost" /\ works THEN [score |-> Booster(f), version |-> model]
    ELSE [score |-> Total(Terms(f)), version |-> model]

\* port.score; the trained model may fail to load or to predict, row by row.
ScoreOf(f, works) ==
    IF model = "off" THEN [score |-> 0, version |-> "off"]
    ELSE IF model = "xgboost" /\ works
    THEN [score |-> Booster(f), version |-> "score_ml@v1"]
    ELSE [score |-> Total(Terms(f)), version |-> "score@v1"]

\* _likelihood_label: 0.65 and 0.40 as arguments of the logistic.
Likelihood(score) == IF score >= 619 THEN "high" ELSE IF score >= -405 THEN "medium" ELSE "low"

\* get_predictions: how many profiles carry each label.
Predictions ==
    [label \in {"high", "medium", "low"} |->
        Cardinality({e \in Entities : /\ profile[e] # Unscored
                                      /\ Likelihood(profile[e].score) = label})]

\* What export_rows writes of a loss that has its outcome.
TrainingRows ==
    {[loss |-> e, features |-> ContextFeatures(e), label |-> status[e] = "RECOVERED"] :
        e \in {f \in Entities : status[f] \in Resolved /\ CustomerOf[f] \notin NoEmail}}

-----------------------------------------------------------------------------
(* What happens in the customer's ledger.                                  *)

Start(e) ==
    /\ startedAt[e] = Never /\ clock <= LastStart
    /\ startedAt' = [startedAt EXCEPT ![e] = clock]
    /\ UNCHANGED <<clock, succeededAt, detectedAt, status, contactedAt, model, profile>>

Succeed(e) ==
    /\ startedAt[e] # Never /\ succeededAt[e] = Never
    /\ succeededAt' = [succeededAt EXCEPT ![e] = clock]
    /\ UNCHANGED <<clock, startedAt, detectedAt, status, contactedAt, model, profile>>

\* A payment failed, or the sweep found an invoice overdue.
Detect(e) ==
    /\ startedAt[e] # Never /\ succeededAt[e] = Never /\ status[e] = "NONE"
    /\ e \in Invoices => clock > startedAt[e] + Term
    /\ detectedAt' = [detectedAt EXCEPT ![e] = clock]
    /\ status' = [status EXCEPT ![e] = "OPEN"]
    /\ UNCHANGED <<clock, startedAt, succeededAt, contactedAt, model, profile>>

Contact(e) ==
    /\ status[e] = "OPEN" /\ contactedAt[e] = Never
    /\ contactedAt' = [contactedAt EXCEPT ![e] = clock]
    /\ UNCHANGED <<clock, startedAt, succeededAt, detectedAt, status, model, profile>>

\* Attribution and the nudge cadence close the loss.
Resolve(e) ==
    /\ status[e] = "OPEN"
    /\ \E s \in (IF succeededAt[e] # Never THEN {"RECOVERED"} ELSE GivenUp) :
          status' = [status EXCEPT ![e] = s]
    /\ UNCHANGED <<clock, startedAt, succeededAt, detectedAt, contactedAt, model, profile>>

\* Mutant: a rescored row keeps the features it was first scored with.
KeepsFeatures(old, new) ==
    IF old = Unscored THEN new ELSE [new EXCEPT !.features = old.features]

\* ON CONFLICT DO UPDATE of a profile row, which lists every column that is scored.
Upserted(old, new) == new

\* run_batch, up to the decisions: every OPEN loss is scored from one bulk load, and the
\* profiles of those that survive the limit are written; the model works or fails row by row.
ScoreBatch(works) ==
    LET candidates == {e \in Entities : status[e] = "OPEN"} IN
    \E rows \in SUBSET candidates :
        /\ rows # {} /\ Cardinality(rows) <= BatchLimit
        /\ rows = candidates \/ Cardinality(rows) = BatchLimit
        /\ profile' = [e \in Entities |->
              IF e \notin rows THEN profile[e]
              ELSE LET known == CustomerOf[e] \notin NoEmail
                       f == IF known THEN ContextFeatures(e) ELSE NoFeatures
                       s == IF known THEN ScoreOf(f, works[e])
                                     ELSE [score |-> 0, version |-> "off"]
                   IN Upserted(profile[e], [score |-> s.score, version |-> s.version,
                                            features |-> f])]
        /\ UNCHANGED <<clock, historyVars, model>>

\* RISK_MODEL is read when a process starts.
Deploy(m) ==
    /\ clock <= LastDeploy /\ m # model
    /\ model' = m
    /\ UNCHANGED <<clock, historyVars, profile>>

ScoringTick ==
    /\ clock < MaxTime
    /\ clock' = clock + 1
    /\ UNCHANGED <<historyVars, model, profile>>

ScoringNext ==
    \/ \E e \in Entities : Start(e) \/ Succeed(e) \/ Detect(e) \/ Contact(e) \/ Resolve(e)
    \/ \E works \in [Entities -> BOOLEAN] : ScoreBatch(works)
    \/ \E m \in Models : Deploy(m)
    \/ ScoringTick

-----------------------------------------------------------------------------
(* Properties.                                                             *)

\* The batch's bulk load and the queries of a single row see the same history
\* (features.py:184-206: "same `< before` cutoff as the queries above"), whatever fell on
\* the same moment: serving one row and training on all of them give the same features.
ContextAgrees ==
    \A e \in Entities : detectedAt[e] # Never => ContextFeatures(e) = QueryFeatures(e)

\* A profile is always the whole of one scoring: its score is what the scorer its version
\* names makes of its own features, after rescoring under another RISK_MODEL, a model that
\* fails on the way, or a ledger that moved on (run_batch's upsert).
ProfileIsWhole ==
    \A e \in Entities :
        LET p == profile[e] IN
        /\ p.version = "off" => p.score = 0
        /\ p.version = "score@v1" => p.score = Total(Terms(p.features))
        /\ p.version = "score_ml@v1" => p.score = Booster(p.features)

\* features.py:17-20: every query is bounded by detected_at "so a feature can never see
\* data from after the point it would have been computed at".  Once a loss is detected,
\* nothing that happens later changes its features.
NoHindsight ==
    [][\A e \in Entities : detectedAt[e] # Never => QueryFeatures(e)' = QueryFeatures(e)]_scoreVars
=============================================================================
