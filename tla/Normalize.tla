------------------------------- MODULE Normalize -------------------------------
(***************************************************************************)
(* The stages of normalize/pipeline.py on one payload: what the mappings   *)
(* extract, which stage refuses it, what the upsert needs, and which       *)
(* detection is called.  InboundWorker has what that does to the tables.   *)
(*                                                                         *)
(* A payload is known by what stands at the paths that some mapping reads: *)
(* nothing or null, an empty string, a value that its transform, its type  *)
(* or its value mapping does not take, or a good one.                      *)
(***************************************************************************)
EXTENDS FiniteSets

Providers == {"razorpay", "shopify", "storefront"}
Shapes == {"absent", "empty", "bad", "good"}
Blank == {"absent", "empty"}

ObjectsOf ==
    [razorpay |-> {"envelope", "payment", "invoice", "subscription", "refund", "dispute"},
     shopify |-> {"order"},
     storefront |-> {"checkout"}]

\* The canonical fields that are mapped from each source object, but for those that only
\* describe the instrument or the error: any value will do for them.
FieldsOf ==
    [envelope |-> {"event_type_raw", "occurred_at"},
     payment |-> {"provider_entity_id", "provider_intent_id", "amount_minor", "currency",
                  "status_raw", "customer_email", "customer_phone", "failure_code_raw",
                  "card_expiry", "recovery_token_raw"},
     invoice |-> {"provider_entity_id", "amount_minor", "currency", "status_raw", "due_at",
                  "customer_email", "customer_phone"},
     subscription |-> {"provider_entity_id", "status_raw", "customer_email", "amount_minor",
                       "currency"},
     refund |-> {"provider_entity_id", "provider_intent_id", "amount_minor", "currency",
                 "status_raw"},
     dispute |-> {"provider_entity_id", "provider_intent_id", "amount_minor", "currency",
                  "status_raw", "due_at"},
     order |-> {"event_type_raw", "provider_entity_id", "status_raw", "amount_minor",
                "currency", "customer_email", "customer_phone", "occurred_at"},
     checkout |-> {"event_type_raw", "occurred_at", "provider_entity_id", "amount_minor",
                   "currency", "customer_email", "recovery_token_raw"}]

\* A mapping is named by its source object and its canonical field.
Mappings(provider) == UNION {{o} \X FieldsOf[o] : o \in ObjectsOf[provider]}

EventTypes ==
    {"PAYMENT_SUCCEEDED", "PAYMENT_FAILED", "INVOICE_ISSUED", "INVOICE_PAID",
     "INVOICE_OVERDUE", "MANDATE_REVOKED", "REFUND_CREATED", "DISPUTE_CREATED",
     "CHECKOUT_STARTED", "CHECKOUT_COMPLETED", "ORDER_CREATED"}

\* What stands at each mapped path, and what the event's raw type is mapped to.
IsPayload(p) ==
    /\ p.provider \in Providers
    /\ p.at \in [Mappings(p.provider) -> Shapes]
    /\ p.event \in EventTypes

-----------------------------------------------------------------------------
(* Stages 1 to 5.                                                          *)

\* apply_mapping skips what is not there.
Present(p) == {m \in Mappings(p.provider) : p.at[m] # "absent"}
Matched(p) == {m[1] : m \in Present(p)}

\* An extracted field.  Of two objects that give one the later mapping wins; such a
\* payload matches two entity kinds and is refused.
Field(p, f) ==
    LET found == {m \in Present(p) : m[2] = f} IN
    IF found = {} THEN "absent" ELSE p.at[CHOOSE m \in found : TRUE]

\* Fields whose mapping has a transform that can fail.
Transformed(provider) ==
    {"occurred_at", "due_at"} \cup (IF provider = "shopify" THEN {"amount_minor"} ELSE {})

StructuralRefuses(p) ==
    \E m \in Present(p) : m[2] \in Transformed(p.provider) /\ p.at[m] # "good"

RequiredFields == {"event_type_raw", "occurred_at", "provider_entity_id"}

\* coerce; int() takes no empty string.
TypingRefuses(p) ==
    \/ \E f \in RequiredFields : Field(p, f) = "absent"
    \/ \E f \in {"amount_minor", "card_expiry"} : Field(p, f) \in {"empty", "bad"}

\* to_money
UnitsRefuses(p) ==
    \/ Field(p, "amount_minor") = "absent" /\ Field(p, "currency") # "absent"
    \/ Field(p, "amount_minor") # "absent" /\ Field(p, "currency") # "good"

\* resolve_entity_kind
Candidates(p) == Matched(p) \ {"envelope"}
EntityKind(p) == CHOOSE k \in Candidates(p) : TRUE

\* classify: a raw value without an approved value mapping is refused.
SemanticRefuses(p) ==
    \/ ~\E k \in Matched(p) : Candidates(p) = {k}
    \/ Field(p, "event_type_raw") # "good"
    \/ Field(p, "failure_code_raw") = "bad"
    \/ EntityKind(p) \in {"payment", "invoice"} /\ Field(p, "status_raw") = "bad"

\* The stage that raises NormalizationError.  Stage 5 finds nothing left to refuse: each
\* field of CanonicalEvent has its type by now.
Stage(p) ==
    IF StructuralRefuses(p) THEN "STRUCTURAL"
    ELSE IF TypingRefuses(p) THEN "TYPING"
    ELSE IF UnitsRefuses(p) THEN "UNITS"
    ELSE IF SemanticRefuses(p) THEN "SEMANTIC"
    ELSE "none"

-----------------------------------------------------------------------------
(* Stage 6 and detection.                                                  *)

\* What each upsert insists on, beyond what it looks up in the tables.
Needs ==
    [payment |-> {"amount_minor", "status_raw"},
     checkout |-> {"amount_minor"},
     invoice |-> {"amount_minor", "status_raw", "due_at"},
     subscription |-> {"amount_minor"},
     order |-> {"amount_minor"},
     dispute |-> {"amount_minor", "provider_intent_id"},
     refund |-> {"amount_minor", "provider_intent_id"}]

UpsertRefuses(p) == \E f \in Needs[EntityKind(p)] : Field(p, f) \in Blank

Accepted(p) == Stage(p) = "none" /\ ~UpsertRefuses(p)

\* _get_or_create_customer has an email to tell customers apart by, or not.
ByPhoneOnly(p) ==
    Field(p, "customer_email") \in Blank /\ Field(p, "customer_phone") \notin Blank

\* event.money
HasMoney(p) == Field(p, "amount_minor") = "good" /\ Field(p, "currency") = "good"

\* result.payment_intent_id, when it is not empty.
HasIntent(p) ==
    /\ EntityKind(p) = "payment"
    /\ \/ Field(p, "provider_intent_id") \notin Blank
       \/ Field(p, "provider_entity_id") \notin Blank

\* Which function of risk/detect.py is called.
Detection(p) ==
    IF p.event = "PAYMENT_FAILED" /\ Field(p, "failure_code_raw") \notin Blank
    THEN "on_payment_failed"
    ELSE IF p.event = "PAYMENT_SUCCEEDED" /\ HasIntent(p) THEN "on_payment_succeeded"
    ELSE IF p.event = "MANDATE_REVOKED" THEN "on_mandate_revoked"
    ELSE "none"
=============================================================================
