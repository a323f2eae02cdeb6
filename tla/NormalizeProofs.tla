---------------------------- MODULE NormalizeProofs ----------------------------
(* What the stages establish for what comes after them: pipeline.py hands  *)
(* detection values that are Optional in CanonicalEvent and UpsertResult,  *)
(* and an error there is caught by no one (worker.py:72-101).              *)
EXTENDS Normalize, TLAPS

\* A field that was extracted stands at some mapped path.
LEMMA FieldHasPath ==
    ASSUME NEW p, NEW f, Field(p, f) # "absent"
    PROVE  \E m \in Present(p) : m[2] = f /\ Field(p, f) = p.at[m]
  BY DEF Field

\* The kinds of entity that some provider's mappings know: each has an upsert.
LEMMA EveryKindHasUpsert ==
    ASSUME NEW x \in Providers, NEW o \in ObjectsOf[x], o # "envelope"
    PROVE  o \in DOMAIN Needs
  <1>1. CASE x = "razorpay"
    BY <1>1 DEF ObjectsOf, Needs
  <1>2. CASE x \in {"shopify", "storefront"}
    BY <1>2 DEF ObjectsOf, Needs
  <1> QED
    BY <1>1, <1>2 DEF Providers

\* And each insists on an amount.
LEMMA EveryUpsertNeedsMoney ==
    ASSUME NEW k \in DOMAIN Needs
    PROVE  "amount_minor" \in Needs[k]
  BY DEF Needs

\* A payload that the stages let through is about one object, the candidate.
LEMMA OneKind ==
    ASSUME NEW p, IsPayload(p), Stage(p) = "none"
    PROVE  Candidates(p) = {EntityKind(p)} /\ EntityKind(p) \in DOMAIN Needs
  <1>1. ~SemanticRefuses(p)
    BY DEF Stage
  <1>2. PICK k \in Matched(p) : Candidates(p) = {k}
    BY <1>1 DEF SemanticRefuses
  <1>3. EntityKind(p) = k
    BY <1>2 DEF EntityKind
  <1>4. k \in Matched(p) /\ k # "envelope"
    BY <1>2 DEF Candidates
  <1>5. PICK m \in Mappings(p.provider) : m[1] = k
    BY <1>4 DEF Matched, Present
  <1>6. m[1] \in ObjectsOf[p.provider]
    BY <1>5 DEF Mappings
  <1> QED
    BY <1>2, <1>3, <1>4, <1>5, <1>6, EveryKindHasUpsert DEF IsPayload

\* on_payment_failed and on_mandate_revoked are given canonical_event.money.amount_minor
\* (pipeline.py:86, 102), though money is Optional and a bare mandate revocation "has no
\* amount" (events.py:13-14).  No event comes that far without one.
THEOREM DetectionHasMoney ==
    ASSUME NEW p, IsPayload(p), Accepted(p)
    PROVE  HasMoney(p)
  <1>1. Stage(p) = "none" /\ ~UpsertRefuses(p)
    BY DEF Accepted
  <1>2. "amount_minor" \in Needs[EntityKind(p)]
    BY <1>1, OneKind, EveryUpsertNeedsMoney
  <1>3. Field(p, "amount_minor") \notin Blank
    BY <1>1, <1>2 DEF UpsertRefuses
  <1>4. ~TypingRefuses(p) /\ ~UnitsRefuses(p)
    BY <1>1 DEF Stage
  <1>5. Field(p, "amount_minor") # "bad"
    BY <1>4 DEF TypingRefuses
  <1>6. Field(p, "currency") = "good"
    BY <1>3, <1>4 DEF UnitsRefuses, Blank
  <1>7. Field(p, "amount_minor") \in Shapes
    <2>1. PICK m \in Present(p) : Field(p, "amount_minor") = p.at[m]
      BY <1>3, FieldHasPath DEF Blank
    <2> QED
      BY <2>1 DEF Present, IsPayload
  <1> QED
    BY <1>3, <1>5, <1>6, <1>7 DEF HasMoney, Blank, Shapes

\* on_payment_failed looks up attempt #1 of result.payment_intent_id, which is None for
\* everything but a payment (upsert.py:544).  The event's type is mapped from the envelope
\* and its kind from the payload's shape, and nothing compares the two; what rules out an
\* invoice.failed is that only a payment has a failure code.
THEOREM FailuresArePayments ==
    ASSUME NEW p, IsPayload(p), Stage(p) = "none", Detection(p) = "on_payment_failed"
    PROVE  EntityKind(p) = "payment"
  <1>1. Field(p, "failure_code_raw") \notin Blank
    BY DEF Detection
  <1>2. PICK m \in Present(p) : m[2] = "failure_code_raw"
    BY <1>1, FieldHasPath DEF Blank
  <1>3. m \in Mappings(p.provider)
    BY <1>2 DEF Present
  <1>4. PICK o \in ObjectsOf[p.provider] : m \in {o} \X FieldsOf[o]
    BY <1>3 DEF Mappings
  <1>5. m[1] = o /\ "failure_code_raw" \in FieldsOf[o]
    BY <1>2, <1>4
  <1>6. p.provider \in Providers
    BY DEF IsPayload
  <1>7. o = "payment"
    <2>1. CASE p.provider = "razorpay"
      BY <1>4, <1>5, <2>1 DEF FieldsOf, ObjectsOf
    <2>2. CASE p.provider \in {"shopify", "storefront"}
      BY <1>4, <1>5, <2>2 DEF FieldsOf, ObjectsOf
    <2> QED
      BY <1>6, <2>1, <2>2 DEF Providers
  <1>8. "payment" \in Candidates(p)
    BY <1>2, <1>5, <1>7 DEF Candidates, Matched
  <1> QED
    BY <1>8, OneKind
=============================================================================
