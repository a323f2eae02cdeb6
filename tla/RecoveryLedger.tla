--------------------------- MODULE RecoveryLedger ---------------------------
(***************************************************************************)
(* The loss ledger: revenue_at_risk rows with their recovery_attempts and  *)
(* recovery_outcomes, and every transaction that writes them: detection    *)
(* (risk/detect.py, risk/sweeps.py), the decision batch (recovery/batch.py *)
(* through execute_action of bounds.py), attribution                       *)
(* (recovery/attribution.py), the nudge cadence (recovery/nudge_retry.py)  *)
(* and the success handler (on_payment_succeeded).                         *)
(*                                                                         *)
(* The long transactions are split in two: Begin reads the committed rows  *)
(* and works out a verdict for each, Commit writes the verdicts by primary *)
(* key, without looking again (READ COMMITTED, no version column), or      *)
(* rolls back on a unique index.  Anything may happen between the two: the *)
(* poller, the request threads and the scripts are sessions of their own.  *)
(*                                                                         *)
(* The outbound queue is seen from outside, as Outbox promises it: a       *)
(* queued attempt is executed once or dropped once, at any time.           *)
(***************************************************************************)
EXTENDS Bounds, Policy, Sequences, FiniteSets

CONSTANTS
    Entities,       \* payment intents, subscriptions, checkouts and invoices
    Kind,           \* [Entities -> EntityType]
    Failure,        \* [Entities -> failure reason or NoFailure]
    CustomerOf,
    Value,          \* [Entities -> Nat]
    Holdout,        \* the entities assign_cohort puts in the holdout
    Revoked,        \* the subscriptions whose mandate is revoked
    Window,         \* [Entities -> Nat], the attribution window
    ReviewThreshold,   \* HUMAN_REVIEW_THRESHOLD_MINOR
    ApprovalAbove,     \* human_approval_above_minor
    BatchLimit,        \* max_entities_per_batch
    StaleAfter,        \* DISPATCH_STALE_AFTER
    MaxTries,          \* NUDGE_RETRY_MAX_TRIES
    ChannelAnswers,    \* what the channel bounds and the template check may say
    Procs,             \* sessions that run transactions
    MaxLosses,      \* bound: loss rows per entity
    MaxAttempts,    \* bound: attempt rows per loss
    LastFact,       \* bound: no dispute or refund after this time
    MaxFacts,       \* bound: disputes and refunds at a time
    MaxLag,         \* bound: how late a success may be taken up
    MaxInPlay,      \* bound: entities of which anything is known
    MaxTime         \* bound: the clock stops here

Never == 0
NoToken == <<>>
NoReason == "no reason"
NoOutcome == "no outcome"
Nobody == "nobody"

\* A loss row is the k-th that detection opens for its entity.
Losses == Entities \X (1..MaxLosses)
EntityOf(r) == r[1]
Tokens == (Losses \X Nat) \cup {NoToken}

ASSUME LedgerConstantsOK ==
    /\ Kind \in [Entities -> {"PAYMENT", "SUBSCRIPTION", "CHECKOUT", "INVOICE"}]
    /\ Failure \in [Entities -> (DOMAIN Taxonomy) \cup {NoFailure}]
    /\ \A e \in Entities :
          Failure[e] = NoFailure <=> Kind[e] \in {"CHECKOUT", "INVOICE"}
    /\ Value \in [Entities -> Nat] /\ Window \in [Entities -> Nat]
    /\ {ReviewThreshold, ApprovalAbove, BatchLimit, StaleAfter, MaxTries, MaxLosses,
        MaxAttempts, LastFact, MaxFacts, MaxLag, MaxInPlay,
        MaxTime} \subseteq Nat
    /\ MaxTime > 0
    /\ IsFiniteSet(Entities) /\ Nobody \notin Entities
    /\ NoReason \notin ChannelAnswers

VARIABLES
    clock,
    status,     \* revenue_at_risk.status, ABSENT before detection
    outcome,    \* recovery_outcomes.outcome of the row, or NoOutcome
    attempts,   \* its recovery_attempts, in attempt_number order
    strong,     \* the losses whose outcome has attribution_confidence STRONG
    paidAt, paidToken,    \* the success event of an entity, and its token; that of a
                          \* subscription is a payment made up by simulate_world
    disputed, refunded,   \* payments with an open dispute, with a refund
    enabled, dryRun,      \* businesses.recovery_enabled, businesses.dry_run
    txn,        \* the open transaction of a session: what it will write
    nudgesDue   \* some session has run attribution and goes on with the nudges

bookVars == <<status, outcome, attempts, strong>>
eventVars == <<paidAt, paidToken, disputed, refunded>>
switchVars == <<enabled, dryRun>>
vars == <<clock, bookVars, eventVars, switchVars, txn, nudgesDue>>

Unresolved == {"OPEN", "IN_RECOVERY"}
Closed == {"SUPPRESSED", "RECOVERED", "EXPIRED", "LOST"}
Outcomes == {"RECOVERED", "EXPIRED", "NOT_RECOVERED"}
Keep == "keep"

\* What suppressed_reason may hold, with NULL.
Reasons ==
    EntityReasons \cup ChannelAnswers \cup
    {NoReason, "recovery_disabled_for_business", "holdout_cohort", "held_for_approval",
     "dry_run", "dispatch_expired_unsent"}

Attempt == [action : Actions, decidedAt : Nat, expiresAt : Nat, executedAt : Nat,
            reason : Reasons, token : BOOLEAN]

Verdict == [status : {Keep} \cup Unresolved \cup Closed, outcome : Outcomes \cup {NoOutcome},
            strong : BOOLEAN, number : 0..(MaxAttempts + 1), new : Seq(Attempt)]
\* What a session has in hand of a row, and compares with nothing when it writes.
Reading == [status : {"ABSENT"} \cup Unresolved \cup Closed,
            outcome : Outcomes \cup {NoOutcome}, decisions : Nat]
Txn == [open : BOOLEAN, verdict : [Losses -> Verdict], read : [Losses -> Reading],
        paid : Entities \cup {Nobody}, token : Tokens, at : Nat]

Unchanged == [status |-> Keep, outcome |-> NoOutcome, strong |-> FALSE, number |-> 0,
              new |-> <<>>]
NotRead == [status |-> "ABSENT", outcome |-> NoOutcome, decisions |-> 0]
NoTxn == [open |-> FALSE, verdict |-> [r \in Losses |-> Unchanged],
          read |-> [r \in Losses |-> NotRead], paid |-> Nobody,
          token |-> NoToken, at |-> Never]

TypeOK ==
    /\ clock \in 1..MaxTime
    /\ status \in [Losses -> {"ABSENT"} \cup Unresolved \cup Closed]
    /\ outcome \in [Losses -> Outcomes \cup {NoOutcome}]
    /\ attempts \in [Losses -> Seq(Attempt)]
    /\ strong \subseteq Losses
    /\ paidAt \in [Entities -> Nat]
    /\ paidToken \in [Entities -> Tokens]
    /\ disputed \subseteq Entities /\ refunded \subseteq Entities
    /\ enabled \in BOOLEAN /\ dryRun \in BOOLEAN
    /\ nudgesDue \in BOOLEAN
    /\ txn \in [Procs -> Txn]

\* The schema's defaults: recovery is off and dry until told otherwise.
Init ==
    /\ clock = 1
    /\ status = [r \in Losses |-> "ABSENT"]
    /\ outcome = [r \in Losses |-> NoOutcome]
    /\ attempts = [r \in Losses |-> <<>>]
    /\ strong = {}
    /\ paidAt = [e \in Entities |-> Never]
    /\ paidToken = [e \in Entities |-> NoToken]
    /\ disputed = {} /\ refunded = {}
    /\ enabled = FALSE /\ dryRun = TRUE
    /\ txn = [p \in Procs |-> NoTxn]
    /\ nudgesDue = FALSE

\* Nobody has paid for e, nor is such an event being taken up.
Unpaid(e) == paidAt[e] = Never /\ \A q \in Procs : txn[q].paid # e

InPlay ==
    {e \in Entities : \/ ~Unpaid(e) \/ e \in disputed \cup refunded
                      \/ \E r \in Losses : EntityOf(r) = e /\ status[r] # "ABSENT"}

MayCome(e) == Cardinality(InPlay \cup {e}) <= MaxInPlay

-----------------------------------------------------------------------------
(* Detection.                                                              *)

\* open_at_risk: ON CONFLICT DO NOTHING on the index of OPEN rows.
OpenAtRisk(r) ==
    LET e == EntityOf(r) IN
    /\ MayCome(e)
    /\ status[r] = "ABSENT"
    /\ \A s \in Losses : EntityOf(s) = e =>
          /\ status[s] # "OPEN"
          /\ s[2] < r[2] => status[s] # "ABSENT"
    /\ status' = [status EXCEPT ![r] = "OPEN"]
    /\ UNCHANGED <<clock, outcome, attempts, strong, eventVars, switchVars, txn, nudgesDue>>

\* payment.failed (which may come late or again) and a revoked mandate.
FailureEvent(r) ==
    /\ Kind[EntityOf(r)] \in {"PAYMENT", "SUBSCRIPTION"}
    /\ OpenAtRisk(r)

\* The two sweeps.  Checkouts are STARTED when they are swept and ABANDONED from
\* then on; invoices are ISSUED or OVERDUE, and swept again on every run.
Sweep(r) ==
    LET e == EntityOf(r) IN
    /\ Kind[e] \in {"CHECKOUT", "INVOICE"}
    /\ Kind[e] = "CHECKOUT" => r[2] = 1
    /\ paidAt[e] = Never
    /\ OpenAtRisk(r)

-----------------------------------------------------------------------------
(* execute_action.                                                         *)

\* Mutant: the holdout is not asked for.
ActionReasonForAll(e, action) ==
    LET entityReason == EntityReason(action, [type |-> Kind[e], revoked |-> e \in Revoked,
                                              refunded |-> e \in refunded,
                                              disputed |-> e \in disputed])
        policyReason == PolicyReason(Value[e], ApprovalAbove)
    IN
    IF ~enabled THEN "recovery_disabled_for_business"
    ELSE IF entityReason # Allowed THEN entityReason
    ELSE IF policyReason # Allowed THEN policyReason
    ELSE IF dryRun THEN "dry_run" ELSE Allowed

\* Every check but those of the channel, in order.
ActionReason(e, action) ==
    LET entityReason == EntityReason(action, [type |-> Kind[e], revoked |-> e \in Revoked,
                                              refunded |-> e \in refunded,
                                              disputed |-> e \in disputed])
        policyReason == PolicyReason(Value[e], ApprovalAbove)
    IN
    IF ~enabled THEN "recovery_disabled_for_business"
    ELSE IF entityReason # Allowed THEN entityReason
    ELSE IF e \in Holdout THEN "holdout_cohort"
    ELSE IF policyReason # Allowed THEN policyReason
    ELSE IF dryRun THEN "dry_run" ELSE Allowed

\* The attempt row: an action with a channel is queued, one without is executed on the
\* spot, a refused one keeps its reason.  Only what is attributed by TOKEN has one.
NewAttempt(e, action, answer) ==
    LET before == ActionReason(e, action)
        reason == IF before = Allowed /\ NeedsChannel(action) THEN answer ELSE before
    IN [action |-> action,
        decidedAt |-> clock, expiresAt |-> clock + Window[e],
        executedAt |-> IF reason = Allowed /\ ~NeedsChannel(action) THEN clock ELSE Never,
        reason |-> IF reason = Allowed THEN NoReason ELSE reason,
        token |-> /\ reason = Allowed /\ NeedsChannel(action)
                  /\ Kind[e] \in {"PAYMENT", "CHECKOUT"}]

Authorised(a) == a.reason = NoReason
Queued(a) == NeedsChannel(a.action) /\ a.executedAt = Never /\ a.reason = NoReason

\* _TERMINAL_SUPPRESSIONS and its prefixes.
TerminalReasons ==
    {"h1_no_consent_record", "h1_not_opted_in", "h2_revoked_mandate_blocks_charge",
     "h3_policy_stop", "h4_open_dispute", "h5_hard_bounced", "h6_refund_recorded",
     "h9_dnd_registered"}

-----------------------------------------------------------------------------
(* The verdicts of the four transactions on one row, from what is committed *)
(* now.                                                                    *)

\* Mutant: an authorised loss stays OPEN.
BatchVerdictOpen(r, answer) ==
    LET e == EntityOf(r)
        n == Len(attempts[r]) + 1
        action == Decide(Kind[e], Failure[e], n, e \in Revoked, Value[e] >= ReviewThreshold)
        a == NewAttempt(e, action, answer)
    IN [Unchanged EXCEPT
            !.number = n, !.new = <<a>>,
            !.status = IF a.reason \in TerminalReasons THEN "SUPPRESSED" ELSE Keep]

\* run_batch, for a row it takes up.
BatchVerdict(r, answer) ==
    LET e == EntityOf(r)
        n == Len(attempts[r]) + 1
        action == Decide(Kind[e], Failure[e], n, e \in Revoked, Value[e] >= ReviewThreshold)
        a == NewAttempt(e, action, answer)
    IN [Unchanged EXCEPT
            !.number = n, !.new = <<a>>,
            !.status = IF Authorised(a) THEN "IN_RECOVERY"
                       ELSE IF a.reason \in TerminalReasons THEN "SUPPRESSED" ELSE Keep]

\* The events that can prove r recovered; a subscription takes any payment of the
\* customer (_find_subscription_match).
Payers(r) ==
    IF Kind[EntityOf(r)] = "SUBSCRIPTION"
    THEN {f \in Entities : /\ Kind[f] \in {"PAYMENT", "SUBSCRIPTION"}
                           /\ CustomerOf[f] = CustomerOf[EntityOf(r)]}
    ELSE {EntityOf(r)}

TokenMatch(r) ==
    \E n \in DOMAIN attempts[r], f \in Entities :
        attempts[r][n].token /\ paidToken[f] = <<r, n>>

\* Mutant: the window has no start.
WindowMatchAnytime(r) ==
    LET a == attempts[r][Len(attempts[r])] IN
    \E f \in Payers(r) : paidAt[f] # Never /\ paidAt[f] <= a.expiresAt

\* The window of the latest attempt, from its decision.
WindowMatch(r) ==
    LET a == attempts[r][Len(attempts[r])] IN
    \E f \in Payers(r) : paidAt[f] \in a.decidedAt..a.expiresAt

\* Mutant: only the outcome is looked at.
UndecidedByOutcome(r) == outcome[r] = NoOutcome

\* Neither transaction looks at a row that has its outcome.
Undecided(r) == status[r] \in Unresolved /\ outcome[r] = NoOutcome

\* Mutant: the outcome's name is written as the row's status.
AttributionVerdictNamed(r, asOf) ==
    IF ~Undecided(r) \/ attempts[r] = <<>> THEN Unchanged
    ELSE IF TokenMatch(r) \/ WindowMatch(r)
    THEN [Unchanged EXCEPT !.status = "RECOVERED", !.outcome = "RECOVERED"]
    ELSE IF attempts[r][Len(attempts[r])].expiresAt < asOf
    THEN [Unchanged EXCEPT !.status = "NOT_RECOVERED", !.outcome = "EXPIRED"]
    ELSE Unchanged

\* A token, or the payment intent itself, is STRONG evidence; an order, an invoice or a
\* subscription that is paid in the window is WEAK.
StrongMatch(r) == TokenMatch(r) \/ Kind[EntityOf(r)] = "PAYMENT"

\* run_attribution
AttributionVerdict(r, asOf) ==
    IF ~Undecided(r) \/ attempts[r] = <<>> THEN Unchanged
    ELSE IF TokenMatch(r) \/ WindowMatch(r)
    THEN [Unchanged EXCEPT !.status = "RECOVERED", !.outcome = "RECOVERED",
                           !.strong = StrongMatch(r)]
    ELSE IF attempts[r][Len(attempts[r])].expiresAt < asOf
    THEN [Unchanged EXCEPT !.status = "EXPIRED", !.outcome = "EXPIRED"]
    ELSE Unchanged

\* The nudges of a row that were sent, by attempt number.
SentNudges(r) ==
    {n \in DOMAIN attempts[r] : attempts[r][n].token /\ attempts[r][n].executedAt # Never}

LatestNudge(r) ==
    attempts[r][CHOOSE n \in SentNudges(r) : \A m \in SentNudges(r) : m <= n]

\* Mutant: the window of the latest nudge is not waited for.
NudgeVerdictEarly(r, answer) ==
    IF ~Undecided(r) \/ SentNudges(r) = {} THEN Unchanged
    ELSE IF Cardinality(SentNudges(r)) >= MaxTries
    THEN [Unchanged EXCEPT !.status = "LOST", !.outcome = "NOT_RECOVERED"]
    ELSE [Unchanged EXCEPT
            !.number = Len(attempts[r]) + 1,
            !.new = <<NewAttempt(EntityOf(r), LatestNudge(r).action, answer)>>]

\* process_expired_nudges
NudgeVerdict(r, answer) ==
    IF ~Undecided(r) \/ SentNudges(r) = {} THEN Unchanged
    ELSE IF LatestNudge(r).expiresAt >= clock THEN Unchanged
    ELSE IF Cardinality(SentNudges(r)) >= MaxTries
    THEN [Unchanged EXCEPT !.status = "LOST", !.outcome = "NOT_RECOVERED"]
    ELSE [Unchanged EXCEPT
            !.number = Len(attempts[r]) + 1,
            !.new = <<NewAttempt(EntityOf(r), LatestNudge(r).action, answer)>>]

\* Mutant: a loss with attempts is closed too.
SuccessVerdictAlways(r, e) ==
    IF EntityOf(r) = e /\ Kind[e] = "PAYMENT" /\ status[r] \in Unresolved
    THEN [Unchanged EXCEPT !.status = "RECOVERED"]
    ELSE Unchanged

\* on_payment_succeeded: attribution has the last word on a loss with attempts.
SuccessVerdict(r, e) ==
    IF EntityOf(r) = e /\ Kind[e] = "PAYMENT" /\ status[r] \in Unresolved
       /\ attempts[r] = <<>>
    THEN [Unchanged EXCEPT !.status = "RECOVERED"]
    ELSE Unchanged

-----------------------------------------------------------------------------
(* The transactions.                                                       *)

ReadNow(r) == [status |-> status[r], outcome |-> outcome[r], decisions |-> Len(attempts[r])]

\* The session keeps what it read of the rows that it will write.
Begin(p, verdict, paid, token, at) ==
    /\ ~txn[p].open
    /\ txn' = [txn EXCEPT ![p] =
                  [open |-> TRUE, verdict |-> verdict,
                   read |-> [r \in Losses |-> IF verdict[r] = Unchanged THEN NotRead
                                                                     ELSE ReadNow(r)],
                   paid |-> paid, token |-> token, at |-> at]]
    /\ UNCHANGED <<clock, bookVars, eventVars, switchVars>>

\* A sweep of every loss; one that finds nothing to write leaves nothing open.
BeginSweep(p, verdict) ==
    \/ (\E r \in Losses : verdict[r] # Unchanged) /\ Begin(p, verdict, Nobody, NoToken, Never)
    \/ /\ ~txn[p].open
       /\ \A r \in Losses : verdict[r] = Unchanged
       /\ UNCHANGED <<clock, bookVars, eventVars, switchVars, txn>>

HasRoom(r) == Len(attempts[r]) < MaxAttempts

\* Mutant: a recovered loss is selected again.
CandidatesRecovered == {r \in Losses : status[r] \in {"OPEN", "RECOVERED"} /\ HasRoom(r)}

\* What run_batch selects.
Candidates == {r \in Losses : status[r] = "OPEN" /\ HasRoom(r)}

\* The scores decide which candidates survive max_entities_per_batch: any may.
BeginBatch(p) ==
    /\ \E rows \in SUBSET Candidates, answer \in [Entities -> ChannelAnswers] :
        /\ rows # {}
        /\ rows = Candidates \/ Cardinality(rows) = BatchLimit
        /\ Cardinality(rows) <= BatchLimit
        /\ Begin(p, [r \in Losses |-> IF r \in rows
                                      THEN BatchVerdict(r, answer[EntityOf(r)])
                                      ELSE Unchanged],
                 Nobody, NoToken, Never)
    /\ UNCHANGED nudgesDue

\* run_attribution is given the time (live_poll) or takes that of the last event
\* it knows of (simulate_replies), which lags but never leads.  Both go on with the
\* nudges, live_poll even when attribution was rolled back.
BeginAttribution(p) ==
    /\ \E asOf \in 1..clock :
        /\ asOf = clock \/ \A e \in Entities : paidAt[e] <= asOf
        /\ BeginSweep(p, [r \in Losses |-> AttributionVerdict(r, asOf)])
    /\ nudgesDue' = TRUE

BeginNudges(p) ==
    /\ nudgesDue
    /\ \E answer \in [Entities -> ChannelAnswers] :
        LET verdict == [r \in Losses |-> NudgeVerdict(r, answer[EntityOf(r)])] IN
        /\ \A r \in Losses : verdict[r].number <= MaxAttempts
        /\ BeginSweep(p, verdict)
    /\ nudgesDue' = FALSE

\* The tokens a customer who pays for e at a time can come with: none, or one that had
\* been sent to them for e.
TokensFor(e, at) ==
    {t \in Losses \X (1..MaxAttempts) :
        /\ EntityOf(t[1]) = e
        /\ t[2] \in SentNudges(t[1]) /\ attempts[t[1]][t[2]].executedAt <= at}
    \cup {NoToken}

\* A success event is taken up, perhaps a while after it happened.
BeginSuccess(p) ==
    /\ UNCHANGED nudgesDue
    /\ \E e \in Entities, at \in 1..clock :
        /\ Kind[e] # "SUBSCRIPTION" /\ Unpaid(e) /\ MayCome(e)
        /\ clock <= at + MaxLag
        /\ \E token \in TokensFor(e, at) :
              Begin(p, [r \in Losses |-> SuccessVerdict(r, e)], e, token, at)

\* simulate_world answers the latest attempt on a loss, sent or not, at a time within its
\* window, be it to come, and with its token, if the event has a place for one; the
\* event is drained at once (simulate_replies).
SimulateReply(p) ==
    /\ UNCHANGED nudgesDue
    /\ \E r \in Losses :
        LET e == EntityOf(r)
            n == Len(attempts[r])
            a == attempts[r][n]
        IN
        /\ status[r] \in Unresolved /\ attempts[r] # <<>> /\ Unpaid(e)
        /\ \E at \in (IF a.executedAt = Never THEN a.decidedAt ELSE a.executedAt)
                        ..a.expiresAt :
              Begin(p, [s \in Losses |-> SuccessVerdict(s, e)], e,
                    IF a.token THEN <<r, n>> ELSE NoToken, at)

\* recovery_outcomes_at_risk_uq and recovery_attempts_correlation_id_uq
Conflicts(v, r) ==
    \/ v.outcome # NoOutcome /\ outcome[r] # NoOutcome
    \/ v.new # <<>> /\ v.number <= Len(attempts[r])

Commit(p) ==
    LET v == txn[p].verdict IN
    /\ txn[p].open
    /\ \A r \in Losses : ~Conflicts(v[r], r)
    /\ status' = [r \in Losses |-> IF v[r].status = Keep THEN status[r] ELSE v[r].status]
    /\ outcome' = [r \in Losses |->
                      IF v[r].outcome = NoOutcome THEN outcome[r] ELSE v[r].outcome]
    /\ attempts' = [r \in Losses |-> attempts[r] \o v[r].new]
    /\ strong' = {r \in Losses : IF v[r].outcome = NoOutcome THEN r \in strong
                                                            ELSE v[r].strong}
    /\ paidAt' = [e \in Entities |-> IF e = txn[p].paid THEN txn[p].at ELSE paidAt[e]]
    /\ paidToken' = [e \in Entities |->
                        IF e = txn[p].paid THEN txn[p].token ELSE paidToken[e]]
    /\ txn' = [txn EXCEPT ![p] = NoTxn]
    /\ UNCHANGED <<clock, disputed, refunded, switchVars, nudgesDue>>

\* The unique index refuses the whole transaction, or the session is lost.
Rollback(p) ==
    /\ txn[p].open
    /\ txn' = [txn EXCEPT ![p] = NoTxn]
    /\ UNCHANGED <<clock, bookVars, eventVars, switchVars, nudgesDue>>

-----------------------------------------------------------------------------
(* The outbound queue, and the world.                                      *)

Send(r) ==
    \E n \in DOMAIN attempts[r] :
        /\ Queued(attempts[r][n])
        /\ clock <= attempts[r][n].decidedAt + StaleAfter
        /\ attempts' = [attempts EXCEPT ![r][n].executedAt = clock,
                                        ![r][n].expiresAt = clock + Window[EntityOf(r)]]
        /\ UNCHANGED <<clock, status, outcome, strong, eventVars, switchVars, txn, nudgesDue>>

DropQueued(r) ==
    \E n \in DOMAIN attempts[r] :
        /\ Queued(attempts[r][n])
        /\ attempts' = [attempts EXCEPT ![r][n].reason = "dispatch_expired_unsent"]
        /\ UNCHANGED <<clock, status, outcome, strong, eventVars, switchVars, txn, nudgesDue>>

RoomForFact(e) ==
    /\ MayCome(e) /\ clock <= LastFact
    /\ Cardinality(disputed) + Cardinality(refunded) < MaxFacts

OpenDispute(e) ==
    /\ RoomForFact(e)
    /\ Kind[e] = "PAYMENT" /\ e \notin disputed
    /\ disputed' = disputed \cup {e}
    /\ UNCHANGED <<clock, bookVars, paidAt, paidToken, refunded, switchVars, txn, nudgesDue>>

CloseDispute(e) ==
    /\ clock <= LastFact
    /\ e \in disputed
    /\ disputed' = disputed \ {e}
    /\ UNCHANGED <<clock, bookVars, paidAt, paidToken, refunded, switchVars, txn, nudgesDue>>

Refund(e) ==
    /\ RoomForFact(e)
    /\ Kind[e] = "PAYMENT" /\ e \notin refunded
    /\ refunded' = refunded \cup {e}
    /\ UNCHANGED <<clock, bookVars, paidAt, paidToken, disputed, switchVars, txn, nudgesDue>>

\* launch_recovery and the flags of recovery/run.py; nothing turns it off again.
SwitchOn(live) ==
    /\ enabled' = TRUE
    /\ dryRun' = IF live THEN FALSE ELSE dryRun
    /\ UNCHANGED <<clock, bookVars, eventVars, txn, nudgesDue>>

Tick ==
    /\ clock < MaxTime
    /\ clock' = clock + 1
    /\ UNCHANGED <<bookVars, eventVars, switchVars, txn, nudgesDue>>

Next ==
    \/ \E r \in Losses :
          \/ FailureEvent(r) \/ Sweep(r)
          \/ Send(r) \/ DropQueued(r)
    \/ \E p \in Procs :
          \/ BeginBatch(p) \/ BeginAttribution(p) \/ BeginNudges(p)
          \/ BeginSuccess(p) \/ SimulateReply(p)
          \/ Commit(p) \/ Rollback(p)
    \/ \E e \in Entities : OpenDispute(e) \/ CloseDispute(e) \/ Refund(e)
    \/ \E live \in BOOLEAN : SwitchOn(live)
    \/ Tick

Spec == Init /\ [][Next]_vars

-----------------------------------------------------------------------------
(* Properties.                                                             *)

\* The sessions that are about to write a row which is no longer what they read, and the
\* step in which one of them does so or is refused.
Torn ==
    {x \in Procs \X Losses :
        /\ txn[x[1]].open /\ txn[x[1]].verdict[x[2]] # Unchanged
        /\ txn[x[1]].read[x[2]] # ReadNow(x[2])}

Overwriting(r) == \E p \in Procs : <<p, r>> \in Torn \ Torn'

\* The row and its outcome tell the same story: the row is RECOVERED, EXPIRED or LOST
\* exactly when the outcome says so, except that a payment nobody acted on is closed
\* without one.
Agrees(r) ==
    /\ outcome[r] = "EXPIRED" <=> status[r] = "EXPIRED"
    /\ outcome[r] = "NOT_RECOVERED" <=> status[r] = "LOST"
    /\ outcome[r] = "RECOVERED" => status[r] = "RECOVERED"
    /\ status[r] = "RECOVERED" /\ outcome[r] = NoOutcome => attempts[r] = <<>>

\* Whichever of the four transactions closes a row, and whatever the others do meanwhile,
\* row and outcome go on to agree, and a loss with attempts is never closed past
\* attribution (detect.py:151-163).  Only the commit of a session whose reading of the row
\* is out of date can part them.
OutcomeAgrees ==
    [][\A r \in Losses : Agrees(r) => Agrees(r)' \/ Overwriting(r)]_vars

\* A closed loss stays closed, as what it was, though detection, batch, sweeps and late
\* payments keep coming for its entity, unless a session that read it before it was closed
\* commits (no run checks it by itself, ImplementsLossLife says more).
ClosedIsFinal ==
    [][\A r \in Losses :
          status[r] \in Closed => status'[r] = status[r] \/ Overwriting(r)]_vars

\* Read case by case, the ledger lives the life that LossLife promises, though four
\* transactions of four modules write it: a loss is concluded once, from a stage it may be
\* concluded from, and given up only after it was acted on and decided on MaxTries times.
\* What a session overwrites keeps its outcome, its decisions and what was done.
LifeOf(r) ==
    [stage |-> status[r], outcome |-> outcome[r], decisions |-> Len(attempts[r]),
     acted |-> \E n \in DOMAIN attempts[r] : attempts[r][n].executedAt # Never]

Lives == [r \in Losses |-> LifeOf(r)]

Life == INSTANCE LossLife WITH Cases <- Losses, Workers <- Procs, Tries <- MaxTries,
                               life <- Lives, torn <- Torn

ImplementsLossLife == Life!LifeSpec

\* A loss is acted on exactly when it has left OPEN for recovery: while it is OPEN or
\* once it is SUPPRESSED nothing was queued or executed for it, so that no second batch
\* acts on what a first one is already recovering, even one that overlaps with it.
ActedOnLeavesOpen ==
    \A r \in Losses :
        status[r] \in {"ABSENT", "OPEN", "SUPPRESSED"} =>
            \A n \in DOMAIN attempts[r] :
                attempts[r][n].executedAt = Never /\ ~Queued(attempts[r][n])

\* The control group stays untouched: nothing is queued or executed for a loss of
\* the holdout, by the batch or by the retries of the nudge cadence.
HoldoutUntouched ==
    \A r \in Losses : EntityOf(r) \in Holdout =>
        \A n \in DOMAIN attempts[r] :
            attempts[r][n].executedAt = Never /\ ~Queued(attempts[r][n])

\* Attempt n of r is a retry: it was decided on when the window of an earlier nudge, which
\* had been sent, was over.
Retry(r, n) ==
    \E k \in SentNudges(r) : k < n /\ attempts[r][k].expiresAt < attempts[r][n].decidedAt

\* A recovery is credited only for a payment that can be one's own doing
\* (attribution.py:193-219): of an entity that can pay for this loss, made after one of the
\* attempts on it was decided on, and either in the window of that attempt or with its
\* token, however late the event comes and whatever is decided or sent meanwhile.
CreditIsEarned ==
    \A r \in Losses : outcome[r] = "RECOVERED" =>
        \E n \in DOMAIN attempts[r], f \in Payers(r) :
            /\ paidAt[f] # Never /\ paidAt[f] >= attempts[r][n].decidedAt
            /\ paidToken[f] = <<r, n>> \/ paidAt[f] <= attempts[r][n].expiresAt

\* detect.py:147-151: a loss paid elsewhere is closed, or "the bounds layer wastes a
\* decision on a loss that isn't one".  Nothing is queued for a payment loss whose
\* intent has succeeded since the loss was detected.
PaidLeftAlone ==
    [][\A r \in Losses :
          /\ Kind[EntityOf(r)] = "PAYMENT" /\ status[r] = "OPEN"
          /\ attempts[r] # <<>>
          /\ paidAt[EntityOf(r)] \in attempts[r][1].decidedAt..clock
          => \A n \in DOMAIN attempts'[r] : ~Queued(attempts'[r][n])]_vars

\* batch.py:39-45: dry_run, a switched-off business and quiet hours leave the loss
\* OPEN, since SUPPRESSED "would permanently lock the loss out the moment the
\* business re-enables recovery or quiet hours pass".  A loss is closed by
\* policy_stop only after something was tried for it, unless policy stops at once.
NotLockedOut ==
    \A r \in Losses :
        /\ status[r] = "SUPPRESSED"
        /\ attempts[r][Len(attempts[r])].reason = "h3_policy_stop"
        /\ Taxonomy[Failure[EntityOf(r)]].default # "STOP"
        => \E n \in DOMAIN attempts[r] : attempts[r][n].executedAt # Never

=============================================================================
