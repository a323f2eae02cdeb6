---------------------------- MODULE InboundWorker ----------------------------
(***************************************************************************)
(* The inbound work list: app/worker.py, with the part of the normalize    *)
(* pipeline and of normalize/upsert.py that writes canonical rows and the  *)
(* detection it calls (risk/detect.py).                                    *)
(*                                                                         *)
(* An event is handled in one transaction, from Begin (what it reads) to   *)
(* Normalized, Refused or Raised (what it writes).  What keeps two of them *)
(* apart is track_unmapped_fields: every razorpay payload has fields that  *)
(* no mapping covers ("entity", "contains"), so every such transaction     *)
(* takes those rows' locks before it reads a canonical row, and keeps them.*)
(*                                                                         *)
(* Time is reduced to the lease: Lapse says that locked_until has passed.  *)
(* The events of a batch are in-memory work of milliseconds, so the lease  *)
(* of five minutes outlives every live worker.                             *)
(***************************************************************************)
EXTENDS Naturals, FiniteSets, Sequences

CONSTANTS
    Events,        \* what providers send, by external_event_id and payload hash
    Workers,       \* the worker process and the request threads that call drain()
    Objects,       \* provider objects: payments, refunds, disputes, invoices...
    KindOf,        \* [Objects -> Kinds]
    ObjectOf,      \* [Events -> Objects]
    StatusIn,      \* [Events -> status], the canonical status the event carries
    WithReason,    \* the payment.failed events that carry a failure reason
    PaymentOf,     \* [Events -> Objects], the payment a refund or dispute refers to
    IntentOf,      \* [Objects -> intents]
    PhoneOnly,     \* customers with a phone number and no email
    CustomerOf,    \* [Events -> PhoneOnly \cup {Anyone}]
    Anyone,        \* a customer with an email, or none
    Unreadable,    \* events that stages 1 to 5 refuse
    Incomplete,    \* events the upsert refuses after it has written the customer
    BatchSize, MaxAttempts,    \* BATCH_SIZE, MAX_ATTEMPTS
    MaxFaults      \* bound: crashes and transient exceptions together

NoEvent == "no event"
Kinds == {"payment", "refund", "dispute", "invoice", "checkout", "subscription", "order"}
References == {"refund", "dispute"}

ASSUME InboundConstantsOK ==
    /\ IsFiniteSet(Events) /\ IsFiniteSet(Objects)
    /\ \A e \in Events : StatusIn[e] # "ABSENT"
    /\ KindOf \in [Objects -> Kinds] /\ ObjectOf \in [Events -> Objects]
    /\ PaymentOf \in [Events -> Objects]
    /\ CustomerOf \in [Events -> PhoneOnly \cup {Anyone}] /\ Anyone \notin PhoneOnly
    /\ BatchSize \in Nat \ {0} /\ MaxAttempts \in Nat \ {0} /\ MaxFaults \in Nat
    /\ NoEvent \notin Events

VARIABLES
    queue,      \* raw_events, by received_at
    status, leased, tries,    \* processing_status, locked_until > now, attempt_count
    rows,       \* canonical status of an object's row, ABSENT without one
    number,     \* payments.attempt_number
    refunded,   \* payments.amount_refunded_minor, every refund being of one unit
    log,        \* the events with a revenue_events row
    loss,       \* the latest revenue_at_risk row of an object
    customers,  \* the phone-only customers with a row
    batch, cur, read,    \* a worker: events to do, the one in hand, what it has read
    faults

eventVars == <<status, leased, tries>>
entityVars == <<rows, number, refunded, log, loss, customers>>
workerVars == <<batch, cur, read>>
vars == <<queue, eventVars, entityVars, workerVars, faults>>

Settled == {"PROCESSED", "DEAD"}
Reads == [known : BOOLEAN, isNew : BOOLEAN, found : BOOLEAN, number : Nat, total : Nat]
Nothing == [known |-> FALSE, isNew |-> FALSE, found |-> FALSE, number |-> 0, total |-> 0]

TypeOK ==
    /\ queue \in Seq(Events)
    /\ status \in [Events -> {"ABSENT", "PENDING", "PROCESSING"} \cup Settled]
    /\ leased \in [Events -> BOOLEAN]
    /\ tries \in [Events -> 0..MaxAttempts]
    /\ rows \in [Objects -> {"ABSENT"} \cup {StatusIn[e] : e \in Events}]
    /\ number \in [Objects -> Nat] /\ refunded \in [Objects -> Nat]
    /\ log \subseteq Events
    /\ loss \in [Objects -> {"NONE", "OPEN", "RECOVERED"}]
    /\ customers \subseteq PhoneOnly
    /\ batch \in [Workers -> SUBSET Events]
    /\ cur \in [Workers -> Events \cup {NoEvent}]
    /\ read \in [Workers -> Reads]
    /\ faults \in 0..MaxFaults

Init ==
    /\ queue = <<>>
    /\ status = [e \in Events |-> "ABSENT"]
    /\ leased = [e \in Events |-> FALSE]
    /\ tries = [e \in Events |-> 0]
    /\ rows = [o \in Objects |-> "ABSENT"]
    /\ number = [o \in Objects |-> 0]
    /\ refunded = [o \in Objects |-> 0]
    /\ log = {} /\ customers = {}
    /\ loss = [o \in Objects |-> "NONE"]
    /\ batch = [w \in Workers |-> {}]
    /\ cur = [w \in Workers |-> NoEvent]
    /\ read = [w \in Workers |-> Nothing]
    /\ faults = 0

-----------------------------------------------------------------------------
(* Ingestion and claims.                                                   *)

\* insert_raw_event.  A redelivery meets one of the two unique indexes and changes
\* nothing.
Receive(e) ==
    /\ status[e] = "ABSENT"
    /\ queue' = Append(queue, e)
    /\ status' = [status EXCEPT ![e] = "PENDING"]
    /\ UNCHANGED <<leased, tries, entityVars, workerVars, faults>>

Before(d, e) ==
    \E i, j \in DOMAIN queue : i < j /\ queue[i] = d /\ queue[j] = e

\* Mutant: PROCESSING is claimed whether or not its lease has passed.
ClaimableInLease(e) == status[e] \in {"PENDING", "PROCESSING"}

\* Mutant: dead letters are claimed like the rest.
ClaimableDead(e) == status[e] \in {"PENDING", "PROCESSING", "DEAD"} /\ ~leased[e]

Claimable(e) ==
    \/ status[e] = "PENDING"
    \/ status[e] = "PROCESSING" /\ ~leased[e]

Idle(w) == cur[w] = NoEvent /\ batch[w] = {}

\* _claim_batch: the oldest BatchSize events.
Claim(w) ==
    LET claimable == {e \in Events : Claimable(e)} IN
    /\ Idle(w)
    /\ \E claimed \in SUBSET claimable :
        /\ claimed # {}
        /\ claimed = claimable \/ Cardinality(claimed) = BatchSize
        /\ Cardinality(claimed) <= BatchSize
        /\ \A d \in claimable \ claimed, e \in claimed : Before(e, d)
        /\ batch' = [batch EXCEPT ![w] = claimed]
        /\ status' = [e \in Events |-> IF e \in claimed THEN "PROCESSING" ELSE status[e]]
        /\ leased' = [e \in Events |-> leased[e] \/ e \in claimed]
    /\ UNCHANGED <<queue, tries, entityVars, cur, read, faults>>

Held(w) == batch[w] \cup (IF cur[w] = NoEvent THEN {} ELSE {cur[w]})

\* locked_until has passed for an event no live worker is at.
Lapse(e) ==
    /\ status[e] = "PROCESSING" /\ leased[e]
    /\ \A w \in Workers : e \notin Held(w)
    /\ leased' = [leased EXCEPT ![e] = FALSE]
    /\ UNCHANGED <<queue, status, tries, entityVars, workerVars, faults>>

-----------------------------------------------------------------------------
(* normalize_raw_event.                                                    *)

Provider(e) ==
    CASE KindOf[ObjectOf[e]] = "order" -> "shopify"
      [] KindOf[ObjectOf[e]] = "checkout" -> "storefront"
      [] OTHER -> "razorpay"

\* Mutant: the unmapped fields are counted in a transaction of their own.
NeverWaits(w, e) == FALSE

\* The lock of an unmapped field (the other providers' payloads have none), of an
\* object being inserted (_resolve_internal_id), or of a customer being inserted.
Waits(w, e) ==
    \E v \in Workers \ {w} :
        /\ cur[v] # NoEvent
        /\ \/ Provider(cur[v]) = "razorpay" /\ Provider(e) = "razorpay"
           \/ ObjectOf[cur[v]] = ObjectOf[e] /\ rows[ObjectOf[e]] = "ABSENT"
           \/ CustomerOf[e] # Anyone /\ CustomerOf[cur[v]] = CustomerOf[e]

PaymentsOf(intent) ==
    {p \in Objects : KindOf[p] = "payment" /\ IntentOf[p] = intent}

\* The attempts of an intent that have a row.
RowsOf(intent) == {p \in PaymentsOf(intent) : rows[p] # "ABSENT"}

Begin(w) ==
    \E e \in batch[w] :
        /\ cur[w] = NoEvent
        /\ \A d \in batch[w] \ {e} : Before(e, d)
        /\ ~Waits(w, e)
        /\ cur' = [cur EXCEPT ![w] = e]
        /\ batch' = [batch EXCEPT ![w] = @ \ {e}]
        /\ read' = [read EXCEPT ![w] =
             [known |-> CustomerOf[e] \in customers,
              isNew |-> rows[ObjectOf[e]] = "ABSENT",
              found |-> KindOf[ObjectOf[e]] \in References => rows[PaymentOf[e]] # "ABSENT",
              number |-> 1 + Cardinality(RowsOf(IntentOf[ObjectOf[e]])),
              total |-> 1 + refunded[PaymentOf[e]]]]
        /\ UNCHANGED <<queue, eventVars, entityVars, faults>>

\* The row of a phone-only customer has the same primary key every time, and ON
\* CONFLICT only names the index on the email: the second insert is an error.
CustomerFails(w) == cur[w] \notin Unreadable /\ read[w].known

\* The stages and upserts that raise NormalizationError.  That of detection, for an intent
\* without a first attempt (detect.py:51-56), is not among them: a payment keeps its
\* intent here, and its first row has been numbered 1 by the time detection asks.
IsRefused(w) ==
    \/ cur[w] \in Unreadable
    \/ ~read[w].known /\ (cur[w] \in Incomplete \/ ~read[w].found)

\* Mutant: the loss hangs on the payment that failed, not on the intent's first.
LossAfterOwn(e, numbers) ==
    [o \in Objects |->
        IF o = ObjectOf[e] /\ StatusIn[e] = "FAILED" /\ e \in WithReason THEN "OPEN"
        ELSE loss[o]]

\* on_payment_failed, on_payment_succeeded and on_mandate_revoked, when nothing has
\* been decided on any loss yet.
LossAfter(e, numbers) ==
    LET o == ObjectOf[e]
        mine == PaymentsOf(IntentOf[o])
        first == {p \in mine : numbers[p] = 1}
    IN
    CASE KindOf[o] = "payment" /\ StatusIn[e] = "FAILED" /\ e \in WithReason ->
            [p \in Objects |-> IF p \in first THEN "OPEN" ELSE loss[p]]
      [] KindOf[o] = "payment" /\ StatusIn[e] = "CAPTURED" ->
            [p \in Objects |->
                IF p \in mine /\ loss[p] = "OPEN" THEN "RECOVERED" ELSE loss[p]]
      [] KindOf[o] = "subscription" -> [loss EXCEPT ![o] = "OPEN"]
      [] OTHER -> loss

\* The row an event is about takes the event's status, whatever it was before.
RowsAfter(e) ==
    IF KindOf[ObjectOf[e]] = "refund" THEN rows
    ELSE [rows EXCEPT ![ObjectOf[e]] = StatusIn[e]]

NumberAfter(w) ==
    LET o == ObjectOf[cur[w]] IN
    IF KindOf[o] = "payment" /\ read[w].isNew
    THEN [number EXCEPT ![o] = read[w].number] ELSE number

RefundedAfter(w) ==
    IF KindOf[ObjectOf[cur[w]]] = "refund"
    THEN [refunded EXCEPT ![PaymentOf[cur[w]]] = read[w].total] ELSE refunded

\* upsert.apply and detection, committed with the event's own status.
Normalized(w) ==
    LET e == cur[w] IN
    /\ e # NoEvent
    /\ ~CustomerFails(w) /\ ~IsRefused(w)
    /\ rows' = RowsAfter(e)
    /\ number' = NumberAfter(w)
    /\ refunded' = RefundedAfter(w)
    /\ log' = log \cup {e}
    /\ loss' = LossAfter(e, number')
    /\ customers' = customers \cup ({CustomerOf[e]} \ {Anyone})
    /\ status' = [status EXCEPT ![e] = "PROCESSED"]
    /\ leased' = [leased EXCEPT ![e] = FALSE]
    /\ cur' = [cur EXCEPT ![w] = NoEvent]
    /\ read' = [read EXCEPT ![w] = Nothing]
    /\ UNCHANGED <<queue, tries, batch, faults>>

\* Mutant: one try more than MAX_ATTEMPTS.
RefusedOnceMore(w) ==
    LET e == cur[w] IN
    /\ e # NoEvent
    /\ IsRefused(w)
    /\ tries' = [tries EXCEPT ![e] = @ + 1]
    /\ status' = [status EXCEPT ![e] = IF tries[e] + 1 > MaxAttempts THEN "DEAD"
                                                                     ELSE "PENDING"]
    /\ leased' = [leased EXCEPT ![e] = FALSE]
    /\ customers' = IF e \in Unreadable THEN customers
                    ELSE customers \cup ({CustomerOf[e]} \ {Anyone})
    /\ cur' = [cur EXCEPT ![w] = NoEvent]
    /\ read' = [read EXCEPT ![w] = Nothing]
    /\ UNCHANGED <<queue, rows, number, refunded, log, loss, batch, faults>>

\* A NormalizationError: a dead letter, and the event is pending again at once or
\* DEAD.  What the transaction had written before the error is committed with it.
Refused(w) ==
    LET e == cur[w] IN
    /\ e # NoEvent
    /\ IsRefused(w)
    /\ tries' = [tries EXCEPT ![e] = @ + 1]
    /\ status' = [status EXCEPT ![e] = IF tries[e] + 1 >= MaxAttempts THEN "DEAD"
                                                                      ELSE "PENDING"]
    /\ leased' = [leased EXCEPT ![e] = FALSE]
    /\ customers' = IF e \in Unreadable THEN customers
                    ELSE customers \cup ({CustomerOf[e]} \ {Anyone})
    /\ cur' = [cur EXCEPT ![w] = NoEvent]
    /\ read' = [read EXCEPT ![w] = Nothing]
    /\ UNCHANGED <<queue, rows, number, refunded, log, loss, batch, faults>>

\* The transaction is rolled back, and the worker leaves its batch where it is.
Abandon(w) ==
    /\ batch' = [batch EXCEPT ![w] = {}]
    /\ cur' = [cur EXCEPT ![w] = NoEvent]
    /\ read' = [read EXCEPT ![w] = Nothing]
    /\ UNCHANGED <<queue, eventVars, entityVars>>

\* Any other error: nothing in _process_one, drain or run_forever catches it.
Raised(w) ==
    /\ cur[w] # NoEvent
    /\ CustomerFails(w)
    /\ Abandon(w)
    /\ UNCHANGED faults

\* The process dies, or the database fails it.
Crash(w) ==
    /\ ~Idle(w)
    /\ faults < MaxFaults
    /\ faults' = faults + 1
    /\ Abandon(w)

-----------------------------------------------------------------------------
ProcessOne(w) == Begin(w) \/ Normalized(w) \/ Refused(w) \/ Raised(w)

Next ==
    \/ \E e \in Events : Receive(e) \/ Lapse(e)
    \/ \E w \in Workers : Claim(w) \/ ProcessOne(w) \/ Crash(w)

\* run_forever polls, a transaction ends, and every lease passes.
Fairness ==
    /\ \A w \in Workers : WF_vars(Claim(w)) /\ WF_vars(ProcessOne(w))
    /\ \A e \in Events : WF_vars(Lapse(e))

Spec == Init /\ [][Next]_vars /\ Fairness

-----------------------------------------------------------------------------
(* Properties.                                                             *)

\* SKIP LOCKED and the lease keep an event in one worker's hands through claims,
\* crashes and reclaims (_claim_batch).
OneHolder ==
    \A v, w \in Workers : v # w => Held(v) \cap Held(w) = {}

RefundsOf(p) == {e \in log : KindOf[ObjectOf[e]] = "refund" /\ PaymentOf[e] = p}

\* Every event has its effect exactly when it is PROCESSED, and once: no refund is
\* added twice by a reclaim or lost to another worker's (amount_refunded_minor is read,
\* added to and written back), and a failed event leaves no entry in the log.
EffectsOnce ==
    /\ \A e \in Events : e \in log <=> status[e] = "PROCESSED"
    /\ \A p \in Objects : refunded[p] = Cardinality(RefundsOf(p))

\* The attempts of an intent are numbered 1, 2, 3... without gap or repetition, in
\* whatever order two workers take them up: attempt #1 is the one row that
\* _intent_entity_id finds (scalar_one_or_none).
AttemptsNumbered ==
    \A p \in Objects : KindOf[p] = "payment" =>
        {number[q] : q \in RowsOf(IntentOf[p])} = 1..Cardinality(RowsOf(IntentOf[p]))

\* The events of an intent that have been processed.
Told(intent) ==
    {e \in log : KindOf[ObjectOf[e]] = "payment" /\ IntentOf[ObjectOf[e]] = intent}

\* Retries of a payment are one loss, on the first attempt of the intent, there
\* exactly when a failure of the intent has been processed, and closed only by a
\* success of the same intent (detect.py:15-22).
LossesExplained ==
    \A p \in Objects : KindOf[p] = "payment" =>
        /\ loss[p] # "NONE" <=>
              /\ number[p] = 1
              /\ \E e \in Told(IntentOf[p]) : StatusIn[e] = "FAILED" /\ e \in WithReason
        /\ loss[p] = "RECOVERED" =>
              \E e \in Told(IntentOf[p]) : StatusIn[e] = "CAPTURED"

\* What is PROCESSED or DEAD is never taken up again.
ClosedIsFinal ==
    [][\A e \in Events : status[e] \in Settled => status'[e] = status[e]]_vars

\* pipeline.py:5-8: "any stage can raise NormalizationError, which the worker turns
\* into a dead-letter row and a retry"; schema.sql:62-66: get-or-create is race-safe
\* and "customers with no email at all are unaffected".  Every event is done with in
\* the end, processed or dead.
EveryEventSettles ==
    \A e \in Events : status[e] = "PENDING" ~> status[e] \in Settled

-----------------------------------------------------------------------------
(* What makes the safety properties inductive.                             *)

\* An event in a worker's hands is claimed, and its lease has not passed.
HeldInLease ==
    \A w \in Workers :
        /\ cur[w] \notin batch[w]
        /\ \A e \in Held(w) : status[e] = "PROCESSING" /\ leased[e]

\* An event that is not done with has a try left.
TriesLeft == \A e \in Events : status[e] \notin Settled => tries[e] < MaxAttempts

\* Razorpay's transactions do not overlap (track_unmapped_fields).
OneAfterAnother ==
    \A v, w \in Workers :
        v # w /\ cur[v] # NoEvent /\ cur[w] # NoEvent
        => ~(Provider(cur[v]) = "razorpay" /\ Provider(cur[w]) = "razorpay")

\* What a worker has read of the payments is still so when it writes.
ReadsStillHold ==
    \A w \in Workers : cur[w] # NoEvent =>
        LET e == cur[w]
            o == ObjectOf[e]
        IN
        /\ KindOf[o] = "refund" => read[w].total = 1 + refunded[PaymentOf[e]]
        /\ KindOf[o] = "payment" =>
              /\ read[w].isNew <=> rows[o] = "ABSENT"
              /\ read[w].number = 1 + Cardinality(RowsOf(IntentOf[o]))

\* A payment has a number only with a row, and a row once it is in the log.
RowsMatchLog ==
    /\ \A p \in Objects : rows[p] = "ABSENT" => number[p] = 0
    /\ \A e \in log : KindOf[ObjectOf[e]] = "payment" => rows[ObjectOf[e]] # "ABSENT"

\* What the safety properties need to be inductive, and its parts need of them.
InboundInv ==
    /\ HeldInLease
    /\ TriesLeft
    /\ OneAfterAnother
    /\ ReadsStillHold
    /\ RowsMatchLog
=============================================================================
