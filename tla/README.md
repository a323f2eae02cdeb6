# Revenue recovery: a TLA+ verification project

TLA+ models of the parts of `src/app` in which a wrong interleaving, a crash or an
unlucky order of legal calls costs money or contacts a customer who should be left
alone, with the TLC runs that check them on small instances and the TLAPS proofs
that check them for all.

## 1. The system

Webhooks and imports land as raw events. The **inbound worker** claims them,
normalizes them and upserts the canonical rows (payments, subscriptions, checkouts,
invoices). **Detection** opens a loss (`revenue_at_risk`) for a failed payment or a
revoked mandate, and two **sweeps** open one for an abandoned checkout and an overdue
invoice. The **decision batch** takes the OPEN losses, asks the **policy** for an
action and the **bounds** for permission, and writes a `recovery_attempts` row: either
refused with a reason, or executed on the spot, or queued in `outbound_dispatches`.
The **dispatch worker** sends what is queued through a **channel** and closes the row
and the attempt. **Attribution** credits a loss with a payment or writes it off; the
**nudge cadence** retries or closes what a nudge did not convert.

One Postgres, one API process, one worker process, but more than two threads of
control: the API's request threads call `launch_recovery`, `simulate_replies` and
`drain()` themselves, the lifespan's live-poll thread sweeps every few seconds, and
`run_forever` of the dispatch worker polls beside them. They interact only through the
tables, under READ COMMITTED with no version columns; `FOR UPDATE SKIP LOCKED`, leases
and a few unique indexes are all that keeps them apart.

| component | state | operations | what is hard | modelled |
|---|---|---|---|---|
| dispatch queue (`dispatch_queue.py`) | `outbound_dispatches` rows | `enqueue_one`, `priority_for` | one row per attempt and channel, expiry fixed at enqueue | `DispatchWorker` |
| dispatch worker (`dispatch_worker.py`) | row status, lease, tries, message id; attempt's `executed_at`/`suppressed_reason`; `last_contacted_at` | `_claim_batch`, `_process_one`, `drain`, `run_forever` | a provider call between two commits, leases, crashes, retries, deferrals | `DispatchWorker` |
| channels (`channels.py`) | none | `send_*`, `provider_for` | the answer can be lost after the message is taken | seen from the worker |
| bounds (`bounds.py`) | reads | `execute_action`, H1 to H10 | checked at the decision, only partly again when sent | `Bounds`, both models |
| policy (`policy.py`, `vocabulary.py`) | none | `decide` | attempt counts at their limits | `Policy` |
| detection and sweeps (`risk/`) | `revenue_at_risk` | `open_at_risk`, `on_payment_succeeded`, two sweeps | re-running, late and repeated events, partial unique index | `RecoveryLedger` |
| decision batch (`recovery/batch.py`) | loss status, attempts | `run_batch` | refused attempts that count as tries, concurrent batches | `RecoveryLedger` |
| attribution (`recovery/attribution.py`) | loss status, `recovery_outcomes` | `run_attribution` | windows, a clock that lags, overlapping writers | `RecoveryLedger` |
| nudge cadence (`recovery/nudge_retry.py`) | attempts, outcomes | `process_expired_nudges` | what is in the queue is not looked at | `RecoveryLedger` |
| orchestrator, live poll | a process-wide lock; seen message ids | `launch_recovery`, `ensure_live_poll`, `simulate_replies`, `_sweep_attribution`, reply polling; KPIs, tabs, groups | sequences of the above, one session each; a rolled-back sweep goes on; what is seen is forgotten by a restart | `LiveReplies`, the sweeps and `simulate_replies` in `RecoveryLedger`, the views in `Report` and `Scoring`; the reconciling of receipts: no |
| inbound worker and ingest (`worker.py`, `ingest/`) | `raw_events`: status, lease, `attempt_count` | claim, one event, dead-letter, idempotent insert | partial commit on a normalization error, errors nobody catches, order, crashes | `InboundWorker` |
| normalize and upserts (`normalize/`) | canonical rows, the log `revenue_events` | one upsert per entity kind | late, repeated and reordered events; counts and sums read before they are written; which stage refuses what | `Normalize` (one payload), `InboundWorker` (many); what reaches the ledger also in `RecoveryLedger` |
| live demo (`live_demo.py`) | planted rows, attempts of two legs under one token | plant, launch, `record_reply` | fan-out, replies before the send is committed, a reply that names no message | `LiveReplies` |
| token redirect (`recovery/api.py`) | click time | redirect | a click is a token that comes back with a payment | the token only |
| human review (`recovery/human_review.py`) | none | who waits for a human, in Python and in SQL; the queue and its reasons | two forms of one question; a later attempt changes the answer | `Report` |
| report (`recovery/report.py`) | none | cohorts, exclusions, lift and NET, tallies | rows counted twice or not at all | `Report` |
| scoring (`scoring/`) | `customer_recovery_profile` | features by query and in bulk, baseline, choice of the scorer, training rows | what is prior; a scorer that fails for one row; rescoring | `Scoring`; the trained boosters are a constant |
| explain (`explain.py`) | `recovery_explanations` | evidence, model call, number check, template, cache | a model call between lookup and insert; numbers written in two ways | `Explain`, for the scope of a loss |
| seed and world simulator | none | generated corpus; `simulate()` makes up payments | payments with times and tokens of their own | `simulate()` in `RecoveryLedger`; the corpus: no |
| dashboard, API | none | views, wording | none | no: reads only |
| migrations, scripts | none | set-up | none | no: schema management |

### Properties that make the components correct

* dispatch: a message is sent once unless a fault destroyed the trace of the last one;
  the row and the attempt agree; a closed row stays closed; every row closes; caps and
  gaps are exceeded at most by what was already under way.
* ledger: status and outcome agree; a closed loss stays closed; what is acted on leaves
  OPEN; the holdout is not touched; credit comes after a decision; one live loss per
  entity; nobody who has paid is contacted; nothing is locked out by refusals.
* inbound: an event has its effect once, whatever is reclaimed; attempts of an intent are
  numbered without gaps; a loss is open exactly when the log says so; a failing event
  ends dead-lettered and stops no other; an event that comes in order is not given up.
* normalize: what is accepted has what detection and the upserts read of it.
* told of the ledger: every recovered loss is counted in one place, the headline takes
  nothing back, a batch's groups count a loss once, no dollar is credited twice.
* scoring: both ways to load features agree; a profile is the whole of one scoring; no
  feature changes with hindsight.
* explanations: one narrative per viewer at most, and nothing shown that was not verified.
* live demo: a YES recovers what it was an answer to, once; the call is credited with
  nothing; a YES that was heard counts; an outcome stands whatever is launched again.

`PROJECT.json` lists the hazards at the line where each bites, with the properties that
cover it, or the reason none does yet.

## 2. The modules

| module | is |
|---|---|
| `Bounds` | the checks of `bounds.py` as operators that return the first refusal, used by both models as the code uses them in both places; the channel a batch chooses |
| `Policy` | `decide()`, the taxonomy columns it reads, and the reason the batch gives for asking a human |
| `Outbox` | what the outbound queue promises, with no workers, leases, clocks or retries |
| `DispatchWorker` | queue, workers, provider and faults; the properties; the inductive invariant; the mapping to `Outbox` |
| `MCDispatch` | constants and symmetry for the dispatch runs |
| `DispatchProofs` | type correctness, the lease invariant and the bounds on repeats and caps of `DispatchWorker` |
| `DispatchRefines` | that a closed row is final and that the queue implements `Outbox` |
| `InboundWorker` | raw events, their workers, the canonical rows and the detection they feed |
| `MCInbound` | constants and symmetry for the inbound runs, the payloads behind the events |
| `Normalize` | the pipeline's stages on one payload: mappings, refusals, what an upsert insists on, which detection is called |
| `NormalizeProofs` | what every accepted payload has |
| `InboundProofs` | types, the inductive invariant and the safety theorems of `InboundWorker` |
| `LossLife` | what the ledger promises about the life of one loss: its stages, what may follow what, and when it may be given up |
| `RecoveryLedger` | losses, attempts and outcomes, and the transactions that write them; the mapping to `LossLife` |
| `Report` | what is told of the ledger: report, human review, dashboard totals, tabs and groups |
| `MCLedger` | constants for the ledger runs |
| `Scoring` | a customer's history, the features of its losses, scores, profiles and training rows |
| `Explain` | narratives: evidence, model call, number check, template, the stored row |
| `ExplainProofs` | that both ways to load features agree, profiles are whole, and narratives bounded and verified, whoever asks and however often losses are rescored |
| `MCExplain` | constants and symmetry for `Scores` and `FeaturesLeak` |
| `LiveReplies` | planting, launching and answering, with the poller's tick, its restarts and its sweeps |
| `MCLive` | constants and symmetry for the live demo's run |
| `LiveProofs` | the invariant of the live demo and its six properties |
| `LedgerProofs` | types, holdout, credit, retries, the books, and that the ledger implements `LossLife`, for sessions that overlap |
| `ReportProofs` | that the views add up, on the ledger's invariants |

### `DispatchWorker` and the code

The row's columns are variables by their own names (`status`, `scheduledFor`,
`lockedUntil`, `expiresAt`, `messageId` for "`provider_message_id` is set", `tries`,
`sentAt`), so are the two columns of the attempt it closes. A worker has a `phase`
(where it stands in `_process_one`), the `batch` it claimed and has not done, the row
in hand, and what it read of that row before the call.

`_process_one` reads, checks, calls the provider, commits the id and commits the
outcome. A branch that calls no provider is one action (`Skip`, `Recover`, `Expire`,
`Suppress`, `Defer`): its read and its commit have nothing but database work between.
The branch that calls one is split where something else can happen: `CallProvider`,
then `ProviderAccepts` or `ProviderFails`, then `RecordId` (the commit of its own that
line 228 makes, only when the provider returns an id) and `CommitSent`. The guards
carry the order of the checks: the id of an earlier send first (line 110), then expiry,
then the bounds, then the hourly cap.

Two details of the session matter. It writes only the columns it changed, so a failed
send of a row that was read as PENDING (another worker had put it back) does not set
`status` again: `seenPending`. And the time and number of tries committed after the call
are the ones read before it: `seenAt`, `seenTries`.

`Crash` loses a worker with what it had not committed; `ProcessError` is an exception
that `drain()` catches, which goes on with the next row; `misreported` of
`ProviderFails` is a message that went out and whose answer did not come back.
Consent (H1), bounces (H5) and the DND register (H9) are one switch per contact here,
since the worker treats the three refusals alike. `EMERGENCY_STOP` (a constant of the
process) and a missing business or row of contactability are left out.

### `RecoveryLedger` and the code

A loss row is `<<entity, k>>`, the k-th that detection opens for the entity. The long
transactions (`run_batch`, `run_attribution`, `process_expired_nudges`,
`normalize_raw_event` for a success) are split in two: a Begin action reads committed
rows and works out a verdict for each loss with the code's own conditions, `Commit`
writes them by primary key without looking again, as SQLAlchemy's flush does, and a
unique index (`recovery_outcomes_at_risk_uq`, the attempt's correlation id) can refuse
the whole transaction, which `Rollback` then undoes. Anything may happen between the two:
the poller's thread, the request threads and the scripts have sessions of their own, and
nothing but those two indexes keeps them apart.

A session keeps in `read` what it read of the rows it will write (`ReadNow`); the code
compares it with nothing when it writes. `Torn` are the sessions and rows whose reading is
out of date, and `Overwriting(r)` is the step in which such a session writes r or is
refused. `detect.py:180` shows what that may do: a success that found no attempts closes
the loss over a batch's first attempt, and the loss is RECOVERED with attempts and no
outcome; or the batch commits last and puts a loss that was closed back IN_RECOVERY. So
row and outcome, and what was closed, stay right in every step (`OutcomeAgrees`,
`ClosedIsFinal`) but that of a session with a reading out of date, and `LossLife` says what
even that one leaves alone (`Overwritten`): the outcome a loss has, its decisions and what
was done for it; it happens once per reading, and a reading goes out of date only when
another step moves the row. Credit, the holdout, the taking up of losses, the report's sums
and the groups need no such exception.

An attempt has a token when it is authorised, has a channel and its entity is a payment
or a checkout (`bounds.py:256-269`): only those are attributed by token, and only those are
nudges to the cadence (`nudge_retry.py:46`). `Queued` is any authorised attempt with a
channel that is yet to leave.

The outbound queue is seen through its promise: a queued attempt is executed once
(`Send`, which moves the window to the time it was sent) or dropped once (`DropQueued`),
at any time. That is what `DispatchRefines` proves of the queue, seen from the attempt.
`nudgesDue` keeps the order of every caller: attribution first, then the nudges, even
when attribution was rolled back (`live_poll.py:184-202`).

`BeginSuccess` takes up a payment that was made up to `MaxLag` ago. `SimulateReply` is
`simulate_world.simulate`: it answers the latest attempt of a loss, sent or not, at a time
inside its window, with the token of that attempt when the event has a place for one; `BeginAttribution` with a clock of its own and `BeginNudges` are the
rest of `simulate_replies`. `strong` is `attribution_confidence = STRONG`, which the
report's lift and NET count.

Left out: categories, the method of an outcome, the lower confidence labels, batch
counters, the second leg of the live demo (`LiveReplies` has it). Amounts are a constant
of the entity. A retry's window is as long as the first one's.

### `Report` and the code

`Report` has no variables: its operators are the queries, over `RecoveryLedger`'s state,
of `report.py` (`CohortStats`, `Net`, `NotActioned`), `human_review.py` (`AwaitingHuman`
in Python, `ReviewRows` in SQL, `ReviewReason`) and `orchestrator.py` (`TotalRecovered`,
`TabSummary`, `ShownLoss`, `BatchGroup`, `GroupRecovered`). `MoneyPaid` is what the
provider moved: one success event per entity. `ReportAddsUp` relates five of them: Python
and SQL agree on every row that waits for a human; each recovered loss of the grand total is in one cohort of one population, in human hands or
the live demo's, and the tabs tell of no more. `HeadlineNeverShrinks` and
`GroupsCountOnce` relate the views to later states and to the times of the batches. A sum
of amounts is the number of their units (`Units`, `Total`), so that what the library
proves of cardinalities holds of sums. `GroupsCountOnce` leaves out the moments in which
the cadence decided on a retry (`Retried`): while a retry waits in the queue the next
sweep decides on another, and when both are sent a group that spans both counts the
loss twice.
Left out: ranking, row layout and the wording of `render()`. The report's docstring
(`report.py:3-6`) speaks of strongly attributed recoveries while the headline's amount
counts all (line 80); lift and NET use the strong ones. The model follows the code.

### `Normalize` and the code

A payload is a record: its provider, the canonical type of its event, and for each mapping
(a source object and a canonical field) what stands at its path: nothing, an empty
string, a value that does not parse or has no value mapping, a good one. `Stage` is the
first stage that refuses it, `UpsertRefuses` whether stage 6 does, `Detection` which
function of `detect.py` is called. The event's type is mapped from the envelope and its
kind from the shape of the payload, and nothing compares the two, so a payload may claim
to be a `MANDATE_REVOKED` about a payment; the model has those too. Field mappings are
the seeded ones; instrument and error descriptions take any value and are left out.

### `Scoring` and `Explain` and the code

`Scoring` has the columns that features read (`startedAt`, `succeededAt`, `detectedAt`,
`status`, `contactedAt`) and the profile row. `QueryFeatures` are the queries per row
(`_prior_payments` and its siblings), `ContextFeatures` the same from the lists of
`build_feature_context`, in the order of their time with ties in any order (`InOrder`),
cut with `bisect_left`; both end in `FeaturesFrom`. Weights are
kept in thousandths of the logistic's argument (`Terms`, `Total`), which keeps their
order; `Booster` is whatever the trained model makes of a row, and it may fail for any
one row (`works`), upon which `port.score` falls back to the baseline. `ScoreBatch` is
the first half of `run_batch`, with its ranking any choice of rows within the limit.
Features that no event changes (segment, bank, hour of day) are left out, as are
`train.py` and `diversity.py`, which write model files offline.

`Explain` puts the viewers beside it. `Ask` looks for a stored row and builds the bundle;
the model is asked outside of any step; `Store` renders and inserts. Of a text only its
strays count, the numbers that are not in its bundle. `AllowedFactors` is the allowlist of
lines 241-249, with signs and without. ATTEMPT, SUPPRESSION, BATCH and GROUP have bundles of
their own and are left out, and so is the text itself.

### `InboundWorker` and the code

`raw_events` is `queue` (by `received_at`) with `status`, `leased` and `tries` of each
event. An event is one transaction, `Begin` to `Normalized`, `Refused` or `Raised`: what
the code reads before it writes (is the object known, how many payments has the intent,
how much is refunded, is the customer there) is read in `Begin` and used at the end.

Two of these transactions overlap less than it looks. `track_unmapped_fields` updates a
row per payload field that no mapping covers, every razorpay payload has such fields
(`entity`, `contains`), and the rows stay locked to the end of the transaction:
transactions of razorpay run one after another, those of shopify and the storefront,
whose payloads are mapped entirely, do not. `Waits` is that lock, together with the two
unique keys on which one transaction waits for another: two payloads about one object
that has no row yet, and one phone-only customer. The first lock is what makes counting
payments and adding refunds safe; with it dropped (the mutant `NeverWaits`) a refund is
lost and two payments share a number. No run has two events of one new object under way.

`Unreadable` are events that stages 1 to 5 refuse, `Incomplete` those an upsert refuses
after `_get_or_create_customer` has inserted the customer. `Refused` commits what had
been written by then (`pipeline.py:5-8` promises that nothing is): the customer's row, and
the counters of the payload's unmapped fields, which the model has only as locks. `Raised` is any other error: no one catches it, and
the worker's batch stays PROCESSING until its lease passes. The one such error in the
model is the second insert of a customer without an email (`CustomerFails`).

Which events are `Unreadable`, `Incomplete`, `PhoneOnly` or `WithReason` is a constant of
the run; `EventsHavePayloads` in `MCInbound` has TLC compare it with what `Normalize` makes
of a payload for each.

Left out: amounts, order links, and the rows of `dead_letter_events`, which are only
written. Signature and freshness of a webhook decide, without any state, whether `Receive`
is called. `received_at` is taken before the insert
commits, so two requests could commit in the other order within milliseconds; the model
has them in order. Losses are seen before anything is decided on them;
`RecoveryLedger` has the rest of their life.

### `LiveReplies` and the code

A customer writes YES to a number, not to a message, so what the program knows of an
answer is its text, its time and which attempts this customer has. `record_reply` takes
the nudge executed last before that time whose loss is unresolved (`AwaitingReply`,
`MatchReply`), imports a captured payment with that nudge's token (`IngestReply`) and
runs attribution (`AttributeReply`): three transactions, between which the queue, a
launch and the clock go on.

`plant` is two transactions: detection opens the loss (`Plant`), `live_demo` is stamped
on it later (`Stamp`), and `LaunchRecovery` may come in between, in which case the batch
decides the loss as an ordinary one. `LaunchRecovery` lists what is `pending`, `Launch`
decides one of them: a call and a message, the token on the message's attempt only
(`FanOut`), each leg allowed or refused by the bounds. The loss is put IN_RECOVERY
without a look at what has become of it since it was listed.

The poller is one thread (`start` keeps it so), hence `step`: its tick polls the replies,
records them one after another, newest first (`InHand` is the newest of the `page`),
then runs the two sweeps. An error loses
the reply in hand or rolls a sweep back and the tick goes on. `Restart` loses the thread
and `seen`; the next launch or page load starts it again (`PageLoad`).

A message is `TAKEN` when the provider has it and `SENT` when that is committed, with a
time that was read before the provider was called; answers can come, and be polled,
between the three. Attribution and cadence are those of `RecoveryLedger` for losses whose
only payments are such answers, in one step each: how they overlap with other
transactions is the question of `RecoveryLedger`.

Left out: `simulate_replies` (in `RecoveryLedger`); the call's
dispatch, which nobody answers by message; `_reconcile_twilio_dispatches`, which only
annotates receipts; the webhook route for replies, which nothing is configured to
call (`live_poll.py:9-16`).

## 3. The runs

Passing runs:

| run | question | result |
|---|---|---|
| `DispatchPrompt` | two workers, three rows on one contact, two faults, an opt-out, the kill switch, a quiet hour: does the protocol hold while nobody outlives a lease? | types, `OneHolder`, `SendsAccountedFor`, `BooksAgree`, `RateExcessBounded`, `ClosedIsFinal`, the inductive invariant, and `ImplementsOutbox` hold |
| `DispatchOverrun` | the same when a worker may take any time | the weekly cap is exceeded at most by one per other worker and fault, a row with an id is repeated at most once per worker and lost trace, nothing is booked as sent that was not |
| `DispatchLive` | does every row close? | yes: `expires_at` ends every loop of retries, deferrals, leases and exceptions |
| `LedgerOverlap` | a payment of the holdout or an abandoned checkout, detected once or twice, through all transactions in two sessions that overlap, with late and made-up payments, disputes and refunds | every loss lives the life of `LossLife`; status, outcome and attempts agree and the headline takes nothing back, unless a session overwrites what it has not seen; the holdout stays untouched, credit is earned by the loss's own payer; report, queue, tabs and groups add up |
| `LiveDemo` | two losses of one number, launched, sent and answered by one message in any order, with a restart, a lost reply or a failed sweep | a YES redeems only what was sent before it and recovers one loss per life of the poller; a heard YES counts; the call gets no credit; outcomes stand |
| `InboundSafe` | two workers, two attempts of one intent, two refunds and an order that is refused, then raises; any order of arrival, one crash | one holder, effects once, attempts numbered, losses follow from the log, PROCESSED and DEAD are final |
| `Scores` | a payment and an invoice of one customer, scored and rescored under changing models while their history goes on; two viewers ask for one explanation | both ways to load features agree, profiles are whole, at most one narrative per viewer, and only verified numbers but for a name that reads as one |

Runs that show a disagreement between the code and what it says of itself. Each checks
one property that quotes a comment; `PROJECT.json` has the quotes under `findings`.

| run | what the trace shows |
|---|---|
| `LedgerPaid` | a loss with a dry-run attempt is paid, stays OPEN, and the next batch contacts the customer |
| `LedgerLockedOut` | dry-run attempts count as tries; the first live batch gets STOP from the policy and closes a loss for which nothing was tried |
| `DollarOnce` | the index that keeps one loss per entity covers OPEN rows only; the invoice sweep opens a second loss once the first is IN_RECOVERY, and the one payment is credited to both |
| `FeaturesLeak` | which rows are prior is bounded by `detected_at`, their status and success times are of now: an earlier loss that is resolved later changes the features |
| `InboundPoison` | the second event of a customer with a phone number and no email raises an error that no one counts; it is claimed, fails and leaves its batch stranded for a lease, forever |

`ClosedIsFinal`, `RateExcessBounded` and the other properties of `DispatchPrompt` are false
when workers outlive their leases (a late `ProviderFails` reopens a row another worker
has closed), which is why they are checked under `PromptSpec`.

### Bounds

Every bound is a constant with a comment that starts with "bound:".

* `MaxTime` stops the clock. Leases, windows and backoffs are one or two ticks, so that
  a run has room for a claim, a lapse, a reclaim and an expiry. `DispatchLive` has the
  longest (8), so that the clock passes the last possible `expires_at` plus a lease.
* `LastEnqueue`, `LastSwitch`, `LastFact`: after them no row is enqueued, no consent or
  switch changes, no dispute or refund comes. Their effect does not depend on how late
  they come but on what has been read before; the runs let them come up to the first
  reads.
* `MaxFacts`: one dispute or refund on record at a time. `execute_action` stops at the
  first it finds (`bounds.py:173`, `:175`) with the same result, so a second one on the
  same payment changes no step.
* `MaxFaults` counts crashes, exceptions and lost answers. One suffices to lose a
  trace, two to lose the repeat's trace too. `LastFault` leaves `DispatchLive` time to
  recover from the last.
* `LockTimeout = 0` in `DispatchOverrun` lets a lease lapse with any tick, so that in
  three ticks two workers overtake each other repeatedly.
* Three rows: one whose provider returns an id (`d1`) and two others, which is enough
  to have a batch, a row behind it, and a contact shared by all. `d2` and `d3` have the same
  constants and are interchangeable, as are the workers (`SYMMETRY`).
* `MaxLosses`, `MaxAttempts`: loss rows per entity and attempts per loss. Two attempts
  give a first action and its retry; `LedgerLockedOut` uses four (three tries of the
  policy and one more).
* `MaxInPlay` is the number of entities of which anything is known in one behaviour: any
  one, in `LedgerOverlap`. Both sessions work on its losses, of which there may be two (the
  second is redetected once the first has left OPEN). No transaction reads another entity's
  rows to decide on one, but for a subscription's payers; several rows in one transaction
  are the theorems' business. The sessions are interchangeable (`SYMMETRY`).
* `Window` is 0 for the checkout in `LedgerOverlap` (its windows close with the tick they
  opened in) and 1 for the payment: a window can close between any two steps and a payment
  can come inside, at the edge and after. `MaxLag` 1 lets a payment be taken up after the
  window it was made in.
* `DollarOnce` has one invoice and two losses, which is all it takes.
* `Scores` has one payment and one invoice of one customer: either can be the other's
  history. `Term` is 0, so an invoice is overdue with the next tick; `LastStart` and
  `LastDeploy` 1 and `FirstAsk` 3 let history and scores differ by the time anyone asks, and
  `Asked` is the payment, whose name reads as a number. `FeaturesLeak` has a second invoice.
  `GivenUp` has one of the two ways to end without money, which no formula tells apart.

* `InboundWorker` has no clock: `Lapse` is the passing of a lease, possible when no live
  worker is at the event. A batch is in-memory and database work of milliseconds and the
  lease is five minutes, so a worker that outlives it is left out here, unlike in
  the dispatch worker, whose batch makes network calls.
* `InboundSafe` has five events, received in any of the 120 orders: two payments (for the
  numbers), two refunds of one of them (for the sum; they are interchangeable), and an
  order, of another provider, so that transactions do overlap. Batches of two let
  a crash strand an event not begun. `MAX_ATTEMPTS` is two: refused once and refused
  for good.
* `LiveDemo` has two losses (which one was meant is the question), one request, one
  answer, one fault (`MaxFaults` counts restarts and errors together) and two ticks. With
  `Window` 0 what is sent in the first tick has lapsed in the second, so a YES comes in
  time, in the same tick as the sweep, or too late. Three attempts per loss: a batch's or
  a retry's, and the two legs of a launch. `MaxTries` is 1, so the cadence gives up at the
  first nudge; with 2 the run passes too, in 10.7 million states; retries are the
  business of `LedgerOverlap`. `PageSize` 2 lets a poll list the answer or miss it.

Deadlock is not checked anywhere: with a bounded clock and bounded counts every run
ends in a state where nothing more may happen.

### Fairness

`FairSpec` of `DispatchWorker` assumes weak fairness of each worker's `Claim`
(`run_forever` polls in an endless loop), of each worker's `ProcessOne` (`drain` is a
plain loop and every provider call ends: smtplib and the Twilio client time out), and of
the clock. No fairness is assumed for crashes, exceptions, opt-outs, switches or
enqueuing. `EveryRowCloses` is checked under `PromptSpec`, i.e. for workers that finish
a batch within its lease; a crashed worker is one that claims again later, which stands
for the restarted process or any other.

`InboundWorker` assumes weak fairness of `Claim` (`run_forever` polls; a process that an
error ended is started again, or a request thread claims), of a worker's own steps and
of `Lapse`. None for crashes, and none for `Receive`. `EveryEventSettles` fails under it
with no crash at all.

## 4. The proofs

`tlapm` checks them for every number of workers and rows and every value of the
constants that satisfies `ConstantsOK`; no bound is needed.

* `TypeCorrect`: `Spec => []TypeOK`, leases respected or not.
* `LeaseExcludes`, `NoUnexplainedRepeat`, `BooksAlwaysAgree`: `PromptSpec` implies
  `[]OneHolder`, `[]SendsAccountedFor` and `[]BooksAgree`.
* `LeaseInvariant` states the invariant itself, `RateExcessIsBounded` that `PromptSpec`
  implies `[]RateExcessBounded`.
* `BookedWasAccepted`, `RepeatsAreBounded`, `ContactExcessIsBounded`: `Spec`, workers of any
  speed, implies `[]SentWasAccepted`, `[]RepeatsBounded` and `[]ContactExcessBounded`.
* `ClosedRowsStayClosed`: `PromptSpec => ClosedIsFinal`.
* `QueueImplementsOutbox`, `OutcomesAreHonest`: `PromptSpec => Ledger!OutboxSpec`, with
  `sends` and `lost` as the outbox's `accepted` and `forgotten` and the status reduced to
  absent, queued, delivered, dropped.

The argument is one inductive invariant, `LeaseInv`. `SendsAccountedFor` is not
inductive: that `CallProvider` is no repeat needs that no other worker has the row under
way, which needs `OneHolder`; that a second worker cannot claim a held row needs that
the row is IN_FLIGHT (`HeldInFlight`) with a lease that has not lapsed (`WithinLease`),
and that is exactly what `PromptTick` assumes and `LOCK_TIMEOUT` does not enforce.
`PhaseShape` ties a worker's variables to its phase, `IdMatchesPhase` says when the id is
on the row, which `Recover` relies on. `BooksAgree` is inductive with them because
`_finalize_attempt` runs in the row's own commit. There is one lemma per conjunct
(`ShapeStep`, `HolderStep`, `FlightStep`, `LeaseStep`, `IdStep`, `SendsStep`,
`BooksStep`), each with one step per action. The refinement reuses the invariant: in
`OutboxStep` each action of `PromptNext` maps to one action of `Outbox` or to a stutter;
`Crash` with a message just accepted is `Forget`, a misreported failure is `Misreport`.

What holds of workers that outlive their leases needs other invariants, and `WorkersOK`:
there are finitely many workers and at least one, since the bounds count them.
`SentWasAccepted` rests on what a worker in a call has seen (`BookedInv`). `RepeatsBounded`
says nothing of the calls that are still under way; `RepeatsInv` does: before the id is on
the row each untraced acceptance is in the hands of a worker that has yet to record it,
and afterwards what was sent, together with the calls under way, is within the bound.
For the caps the number of executed attempts is not enough either, since a worker may
have passed the check and not have booked: `ContactsInv` counts, with the executed
attempts, those in a worker's hands (`Hands`) and those whose id a crash left on the row
unbooked (`Orphans`, at most one for each fault, `OrphansInv`). A call is entered only
below the cap, with at most the other workers' calls beside it. `RateInv` is the same
for the hourly cap, which needs the leases: only then does a SENT row keep its time.

`InboundWorker`, for all events, objects and workers, from `InboundConstantsOK` (finitely
many events and objects, so that rows can be counted; statuses that are not `ABSENT`):
`InboundTypes`, `LeaseExcludes`, `EffectsAreOnce`, `NumbersHaveNoGaps`,
`LossesFollowTheLog` and `DoneIsFinal`. The invariant is the properties together with
`InboundInv`, which `InboundSafe` checks too. `EffectsOnce` and `AttemptsNumbered` are not
inductive: a worker writes a sum and a count that it has read before. `ReadsStillHold` says
they are still right when it writes, which holds because `OneAfterAnother` leaves only
transactions of other providers in between, and those touch neither payments nor
refunds. `InboundInvariant` states `InboundInv` itself. That an event under way is not in the log needs it to be PROCESSING
(`HeldInLease`), and `tries` stays within its type by `TriesLeft`. `LossesExplained` needs
`RowsMatchLog`: a payment that becomes attempt #1 is the first the log knows of its intent.

`Normalize`, for every payload: `DetectionHasMoney` says that whatever is accepted has an
amount. `on_payment_failed` and `on_mandate_revoked` read `event.money.amount_minor` of an
event whose money is Optional (`pipeline.py:86, 102`); an `AttributeError` there would not be
a `NormalizationError` and would strand the batch as `InboundPoison` shows. It holds
because every upsert insists on money, whatever the event claims to be.
`FailuresArePayments`: what reaches `on_payment_failed` is a payment and has an intent, since
no other kind has a failure code mapped. `FewDeviations` has TLC evaluate both, and more,
on payloads with up to two unusual paths.

`EscalationsHaveReasons` is about `Policy` alone: `_escalation_reason` works out a second
time why `decide` asked for a human, and the two agree for every attempt number and value.
`MCLedger` has TLC evaluate it for the first six attempts (`EscalationsMirrorDecide`), and
that a batch's choice of a channel (`ChooseChannel`) and the bounds read the contact's rows
alike (`ChoiceMirrorsBounds`).

`RecoveryLedger`, for all entities, sessions, windows, limits and channel answers, from
`LedgerConstantsOK` (the entities are finitely many, none of them is the name for nobody,
and no answer of a channel reads as no reason). `LedgerTypes`, `HoldoutStaysUntouched`,
`CreditsAreEarned`, `ActedOnIsTakenUp`, `RetriesWait`, `OutcomesAgree`, `ClosedStaysClosed`
and `LedgerKeepsLossLife`, that the ledger implements `LossLife`, hold however the sessions
overlap; nothing is assumed of their order. A verdict is
worked out in one step and written in another, so no property is inductive by itself.
The invariants say of every open transaction what its verdicts are.

* `PlansSpareHoldout`: nothing of a plan for a holdout loss will reach anybody.
* `EvidenceInv`, for credit and retries: a plan that credits has its payment already, of
  an entity that can pay for the loss, with the token or in the window of one of its
  attempts (`Earned`); a payment stays, and so does a window that it fell into
  (`WindowStands`: a send moves it, but not before the payment); what a plan adds is timely, and what an attempt was
  decided for was there then (`PlansHold`). A token that comes with a payment is one of a
  loss that had been decided on (`TokensTimely`), a payment that is being taken up is not
  there yet and one session has it (`TakenUpOnce`), attempts are in the order of their
  decisions (`AttemptsTimely`). `RetriesFollowNudges` is proved for its own sake and
  because `ActedOnLeavesOpen` and `GroupsCountOnce` rest on it: an attempt is added to a
  loss that was acted on only when the window of a sent nudge is over. That
  `ActedOnLeavesOpen` survives overlap is the unique index on correlation ids: of two
  batches that take up one loss the second is refused as a whole.
* `LifeInv`, for the books: a plan fits what its session read of the row (`Planned`: it
  concludes the row, dismisses one without attempts, decides on an OPEN one or goes on
  with one in recovery), and the row is still so or has visibly been written since
  (`ReadsHold`): it has more attempts, an outcome or is RECOVERED (`Stale`). Stale readings
  stay stale (`ReadStands`), since a step adds an attempt, gives the one outcome, closes a
  row as RECOVERED or leaves it (`RowsAdvance`). This is what a session without locks and
  versions can rely on. One lemma per transaction (`BatchSound`, `AttributionSound`,
  `NudgeSound`, `SuccessSound`) shows that what it plans is `Sound`, and
  `ReadsWhatItPlans` that it fits the reading; that the cadence never meets an OPEN row
  needs `ActedOnLeavesOpen`. `RowsInv`: a row has no outcome before it leaves OPEN, and one
  in recovery has an attempt.
* For the refinement a loss is mapped to its stage (the row's status), its outcome, the
  number of its attempts and whether one was executed (`LifeOf`). When the row is as it was
  read the commit is one move of `LossLife`, or nothing (`FreshGoes`; `MovesByField` says
  what the moves do); otherwise it is at most what `Overwritten` allows (`PlanOverwrites`),
  where the unique index on outcomes is what saves the first one. A send makes `ActedOn`
  (`SendGoes`), also for a loss that has been concluded while its message was waiting.
  `TornGrows`: a reading goes out of date only with a move of its row. `OutcomesAgree` and
  `ClosedStaysClosed` follow from the moves (`GoesAgree`, `GoesKeepClosed`).

`Report`, on the ledger's invariants. `ReportsAddUp`: the amounts of
two sets of losses that share none add up (`PartsAddUp`), the populations and cohorts
share none, and the question in Python and the one in SQL have one answer (`OneQuestion`).
That a recovered loss is a known one is `AbsentUntold`: what is not there has neither an
outcome nor a plan. `GroupsCountALossOnce`: with no retry decided in a moment
`RetriesFollowNudges` leaves a loss at most one executed attempt of that moment
(`OneExecuted`), so naming the losses of a group by their attempts makes them no more
(`RenamedIsNoMore`). `HeadlineStands`: a loss that has an outcome was never read as one
without, so whoever writes it had read it before (`RecoveredRests`), and is `Overwriting`.

`LiveReplies`, for any number of losses, requests, messages, restarts and faults, from
`LiveConstantsOK`: `LiveTypeOK`, `AnswersAreTimely`, `CallsAreNeverCredited`,
`OneYesOneRecovery`, `EveryYesCounts` and `OutcomesStand`, all from `LiveInv`.
`AnswersWhatWasSent` has to hold of the reply in hand, between the match and the payment
(`TargetSent`), and an attempt keeps its token and its times once it is sent. `PaidOnce` counts what `RepliesRecoverOnce` bounds: the payments of a
message, and the one on its way, are at most one for each life of the poller in which it
was seen. `CreditsPaid` says that a credited attempt carries the token of a payment, and
a call carries none. For `HeardYesCounts` the answer remembers which losses it could be
meant for and their outcomes then; `AnswerableFits` says that such a loss, as long as its
outcome is the same, is unresolved with a nudge that the match would find, so a YES that
finds none was overtaken by an outcome.

`Scoring` and `Explain`, for any finite number of viewers (`ExplainConstantsOK`), finitely
many entities (`ScoringConstantsOK`), any models and any history. `ScoringTypes` is
inductive. `LoadsAgree` needs three facts. Any finite set of rows can be listed in the
order of any time (`OrderExists`: the place of a row is the number of those before it),
so `Loaded` is such a list. `bisect_left` counts the rows below x, and in an ordered list
those are the first ones (`BisectCutsBelow`), so the cut list has the rows that the query
returns. And the contacts of a week are a difference of two such counts (`LastWeekIsCut`).
Ties do not matter, since a moment is on one side of the cut as a whole.
`ProfilesAreWhole`: everything but a rescoring leaves the profiles alone, and a
rescoring writes all four columns. `OneNarrativeEach`: `NarrativesBounded` says that
the rows of a loss and those who are asking about it are together no more than the
viewers, which is inductive once the shape of the two functions is known
(`NarrativesInv`), because `Ask` needs that nothing is stored. `ShownIsVerified` needs
that the template of an evidence bundle states nothing that the bundle does not list, the
loss's name excepted (`TemplateIsBacked`), and that a material once made keeps this
while the loss is rescored (`SoundInv`): the bundle is read once and not looked up again.

Only model-checked: `EveryRowCloses`, since liveness under fairness is out of the
prover's reach. Every other property of a passing run is a theorem, without the run's
bounds. What the violation runs show is shown by their traces.
`BaselineOrders` in `MCExplain` has TLC evaluate, for rows of a small history, that
the hand-set weights order losses as they are meant to.

## 5. Plan

In the order of importance:

1. `RecoveryLedger`: a dispute between the decision and the send (`schema.sql:378`); which
   pairs of sessions may overlap without ever being `Overwriting`.
2. `InboundWorker` composed with the sweeps: a sweep or a late event against a PAID or
   COMPLETED row (`upsert.py:240`, `sweeps.py:69`).
3. `LiveReplies`: two requests of `launch_recovery` at once and a loss that is reopened by a launch after
   the poller closed it (the model reopens it; no run says so yet); the reconciling of receipts, which marks a dispatch as done before
   its commit; that a YES which is offered again and again is heard in the end.
4. Disagreements that are in the models and have no run of their own: a worker that dies
   after the provider took the message and before the commit of its id, upon which the
   next claim sends it again (`dispatch_queue.py:34-38` counts on the idempotency key, which
   is on the row that is claimed again; `RepeatsBounded` says how often); a retry that waits in
   the queue is not looked at, and the next sweep queues one more although
   `nudge_retry.py:3-4` says one after another (`GroupsCountOnce` says what the groups make of
   it); a live worker overtaken within its batch sends twice without any fault; `Recover` leaves
   `last_contacted_at` alone, so the next message may follow inside `min_gap_hours`; a
   row put off by 300 s at the hourly cap loses the next slot to one of lower priority.
5. A run on what `worker.py:92` does to order: a dead worker's lease keeps a payment while
   the dispute received after it is tried five times at once and given up. And one on
   `human_review.py:8`, which says that a row that waits for a human stays OPEN: when its
   window has passed, attribution closes it.

## 6. Not modelled

* `dashboard.py`, `api.py`: views and routes over what the other modules have.
* Explanations of an attempt, a batch, a suppression and a group: bundles of other columns,
  with the same life as a loss's. `explain.py:177-178` says that features "cannot drift";
  the features are the stored ones, but the factors are worked out under the model of now,
  which `Explain` has (`Factors`) and no property forbids.
* Signature and freshness of webhooks and the parsing of imports: no state.
* The minting of tokens, the choice of a template, the wording of a message: data.
* `train.py`, `diversity.py`, `generator.py`: offline; they write files and a corpus.
* `_reconcile_twilio_dispatches`: annotates receipts that nothing reads.
* Migrations: schema management. The constraints that matter are guards of the models.
