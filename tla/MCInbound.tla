------------------------------ MODULE MCInbound ------------------------------
(* Constants for model-checking InboundWorker, with the payloads of its    *)
(* events.                                                                 *)
EXTENDS InboundWorker, TLC

CONSTANTS pay1, pay2, ref2, ord,
          failed1, captured2, refunded1, refunded2, priceless, created,
          order1, phone1, w1, w2

Kind ==
    [o \in Objects |-> CASE o \in {pay1, pay2} -> "payment"
                         [] o = ref2 -> "refund"
                         [] OTHER -> "order"]
Object ==
    [e \in Events |-> CASE e = failed1 -> pay1 [] e = captured2 -> pay2
                        [] e \in {refunded1, refunded2} -> ref2
                        [] OTHER -> ord]
StatusOfEvent ==
    [e \in Events |-> CASE e = failed1 -> "FAILED" [] e = captured2 -> "CAPTURED"
                        [] e \in {priceless, created} -> "PENDING"
                        [] OTHER -> "PROCESSED"]
\* Refunds are of the second payment.
SecondPayment == [e \in Events |-> pay2]
\* Both payments are attempts of one order.
OneIntent == [o \in Objects |-> order1]
\* The order came without an email, first without a total, too.
OrderByPhone == [e \in Events |-> IF e = priceless THEN phone1 ELSE Anyone]
ByPhone == [e \in Events |-> IF e \in {failed1, captured2} THEN phone1 ELSE Anyone]
\* Workers are alike, and so are the two refunds, which are of one amount.
Symmetry == Permutations(Workers) \cup Permutations({refunded1, refunded2})

-----------------------------------------------------------------------------
(* The payloads behind these constants.                                    *)
N == INSTANCE Normalize

TypeOf(e) ==
    CASE e = failed1 -> "PAYMENT_FAILED" [] e = captured2 -> "PAYMENT_SUCCEEDED"
      [] e \in {refunded1, refunded2} -> "REFUND_CREATED" [] OTHER -> "ORDER_CREATED"

\* What an event's payload has no value for.
Blanks(e) ==
    (IF CustomerOf[e] = Anyone THEN {} ELSE {"customer_email"})
    \cup (IF e = priceless THEN {"amount_minor", "currency"} ELSE {})
    \cup (IF e = captured2 THEN {"failure_code_raw"} ELSE {})

\* A payload of an object of one kind, without some of its fields.
PayloadOf(provider, kind, type, blanks) ==
    [provider |-> provider, event |-> type,
     at |-> [m \in N!Mappings(provider) |->
                IF m[1] \in {"envelope", kind} /\ m[2] \notin blanks THEN "good"
                ELSE "absent"]]
PayloadFor(e) == PayloadOf(Provider(e), Kind[Object[e]], TypeOf(e), Blanks(e))

\* What the model takes as given of its events is what the stages make of their payloads.
ASSUME EventsHavePayloads ==
    \A e \in Events :
        LET p == PayloadFor(e) IN
        /\ N!IsPayload(p) /\ N!EntityKind(p) = KindOf[ObjectOf[e]]
        /\ e \in Unreadable <=> N!Stage(p) # "none"
        /\ e \in Incomplete <=> N!Stage(p) = "none" /\ N!UpsertRefuses(p)
        /\ CustomerOf[e] \in PhoneOnly <=> N!ByPhoneOnly(p)
        /\ e \in WithReason <=> N!Detection(p) = "on_payment_failed"

\* Payloads of every kind and type, as they should be, with one path of any shape and
\* another, be it of another object, there or not: whoever gives no email and is recorded
\* at all is known by a payment, an invoice or an order, and detection is called for a
\* payment or, for a revoked mandate, whatever the payload is about.
ASSUME FewDeviations ==
    \A provider \in N!Providers : \A kind \in N!ObjectsOf[provider] \ {"envelope"} :
    \A type \in {"PAYMENT_FAILED", "PAYMENT_SUCCEEDED", "MANDATE_REVOKED"} :
    \A m, n \in N!Mappings(provider) :
    \A s \in N!Shapes, t \in {"absent", "good"} :
        LET base == PayloadOf(provider, kind, type, {})
            p == [base EXCEPT !.at[n] = t, !.at[m] = s]
        IN
        m[1] \in {"envelope", kind} /\ N!Accepted(p) =>
            /\ N!HasMoney(p)
            /\ N!ByPhoneOnly(p) => N!EntityKind(p) \in {"payment", "invoice", "order"}
            /\ N!Detection(p) \in {"on_payment_failed", "on_payment_succeeded"}
                  => N!EntityKind(p) = "payment"
            /\ N!Detection(p) = "none" => type # "MANDATE_REVOKED"
=============================================================================
