------------------------------- MODULE Policy -------------------------------
(***************************************************************************)
(* app/policy.py: which action a loss gets, from its failure reason, the   *)
(* number of the attempt, the kind of entity, the mandate and the value;   *)
(* with the taxonomy of app/canonical/vocabulary.py it is decided by.      *)
(***************************************************************************)
EXTENDS Integers

NoFailure == "none"   \* failure_reason is NULL: checkouts and invoices
NoEscalation == "none"

\* FAILURE_TAXONOMY, the columns decide() reads.
Taxonomy ==
    LET Entry(retryable, max, default, escalation) ==
            [retryable |-> retryable, maxAttempts |-> max,
             default |-> default, escalation |-> escalation]
    IN
    [INSUFFICIENT_FUNDS |-> Entry(TRUE, 3, "RETRY_SCHEDULED", "NUDGE"),
     ISSUER_UNAVAILABLE |-> Entry(TRUE, 4, "RETRY_SCHEDULED", NoEscalation),
     TECHNICAL_ERROR    |-> Entry(TRUE, 3, "RETRY_SCHEDULED", NoEscalation),
     DO_NOT_HONOR       |-> Entry(TRUE, 1, "RETRY_SCHEDULED", "ESCALATE_HUMAN"),
     EXPIRED_CARD       |-> Entry(FALSE, 0, "REQUEST_NEW_INSTRUMENT", NoEscalation),
     INVALID_DETAILS    |-> Entry(FALSE, 0, "REQUEST_NEW_INSTRUMENT", NoEscalation),
     MANDATE_REVOKED    |-> Entry(FALSE, 0, "RECOLLECT_MANDATE", NoEscalation),
     ATTENTION_SLIP     |-> Entry(FALSE, 0, "STOP", NoEscalation),
     STOLEN_CARD        |-> Entry(FALSE, 0, "OPS_ALERT", NoEscalation)]

\* _VALUE_OVERRIDE_EXEMPT
ValueExempt == {"STOP", "OPS_ALERT", "ESCALATE_HUMAN"}

InvoiceNudgeLimit == 3

\* What the taxonomy asks for on attempt n.
TaxonomyAction(failure, n) ==
    LET entry == Taxonomy[failure] IN
    IF entry.retryable /\ n > entry.maxAttempts
    THEN IF entry.escalation = NoEscalation THEN "STOP" ELSE entry.escalation
    ELSE entry.default

\* decide(); high: value_minor is at or above HUMAN_REVIEW_THRESHOLD_MINOR.
Decide(type, failure, n, revoked, high) ==
    CASE type = "CHECKOUT" -> "NUDGE"
      [] type = "INVOICE" -> IF n > InvoiceNudgeLimit THEN "ESCALATE_HUMAN" ELSE "NUDGE"
      [] OTHER ->
            LET action == IF revoked THEN "RECOLLECT_MANDATE"
                                     ELSE TaxonomyAction(failure, n)
            IN IF high /\ action \notin ValueExempt THEN "ESCALATE_HUMAN" ELSE action

\* The retries are used up, and then a human is to be asked.
EscalatesAfterRetries(failure, n) ==
    /\ failure # NoFailure
    /\ Taxonomy[failure].retryable /\ n > Taxonomy[failure].maxAttempts
    /\ Taxonomy[failure].escalation = "ESCALATE_HUMAN"

\* _escalation_reason, recovery/batch.py: why a human was asked, worked out beside
\* decide() from the same arguments.
EscalationReason(type, failure, n, revoked, high) ==
    IF type = "INVOICE"
    THEN IF n > InvoiceNudgeLimit THEN "invoice_dunning_exhausted" ELSE NoEscalation
    ELSE IF ~revoked /\ EscalatesAfterRetries(failure, n)
    THEN "do_not_honor_retries_exhausted"
    ELSE IF high THEN "value_threshold" ELSE NoEscalation

\* _needs_channel, recovery/batch.py
NeedsChannel(action) == action \in {"NUDGE", "REQUEST_NEW_INSTRUMENT", "RECOLLECT_MANDATE"}

Actions == {"NUDGE", "REQUEST_NEW_INSTRUMENT", "RECOLLECT_MANDATE", "RETRY_SCHEDULED",
            "OPS_ALERT", "ESCALATE_HUMAN", "STOP"}
=============================================================================
