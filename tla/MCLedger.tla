------------------------------ MODULE MCLedger ------------------------------
(* Constants for model-checking RecoveryLedger and Report.                 *)
EXTENDS Report, TLC

CONSTANTS pay, inv, sub, cart, k1, p1, p2

Sessions == Permutations(Procs)

KindOf ==
    [e \in Entities |-> CASE e = pay -> "PAYMENT" [] e = inv -> "INVOICE"
                          [] e = sub -> "SUBSCRIPTION" [] OTHER -> "CHECKOUT"]
\* What the payment failed for; a subscription's failure is its revoked mandate.
FailureOf(reason) ==
    [e \in Entities |-> CASE e = pay -> reason [] e = sub -> "MANDATE_REVOKED"
                          [] OTHER -> NoFailure]
ExpiredCard == FailureOf("EXPIRED_CARD")
NoFunds == FailureOf("INSUFFICIENT_FUNDS")
DoNotHonor == FailureOf("DO_NOT_HONOR")
Technical == FailureOf("TECHNICAL_ERROR")
OneCustomer == [e \in Entities |-> k1]
UnitValue == [e \in Entities |-> 1]
OneTickWindow == [e \in Entities |-> 1]
\* The checkout's windows close with the tick they opened in.
ShortForCart == [e \in Entities |-> IF e = cart THEN 0 ELSE 1]
Answers == {Allowed, "h8_quiet_hours", "h1_not_opted_in"}
TwoAnswers == {Allowed, "h1_not_opted_in"}

\* batch.py:89-94, "mirrors decide()'s own branch order": who is escalated has a reason,
\* and it is the branch that decide() took.
ASSUME EscalationsMirrorDecide ==
    \A type \in {"PAYMENT", "SUBSCRIPTION", "CHECKOUT", "INVOICE"},
       failure \in (DOMAIN Taxonomy) \cup {NoFailure}, n \in 1..6,
       revoked, high \in BOOLEAN :
        /\ type \in {"CHECKOUT", "INVOICE"} \/ failure # NoFailure
        /\ Decide(type, failure, n, revoked, high) = "ESCALATE_HUMAN"
        => LET reason == EscalationReason(type, failure, n, revoked, high) IN
           /\ reason # NoEscalation
           /\ reason = "do_not_honor_retries_exhausted" <=>
                 /\ type # "INVOICE" /\ ~revoked
                 /\ TaxonomyAction(failure, n) = "ESCALATE_HUMAN"

\* batch.py:60-69 and bounds.py:196-212 read the same rows: what is chosen is refused for
\* consent, bounces or DND only when every channel of the list would be.
ASSUME ChoiceMirrorsBounds ==
    LET Contact == [found : BOOLEAN, optedIn : BOOLEAN, hardBounced : BOOLEAN,
                    dnd : BOOLEAN]
        Refusal(channel, contact) == ChannelReason(channel, contact, FALSE, 0, 1, FALSE, 0, 0)
    IN
    \A email, sms, whatsapp \in Contact :
        LET contacts == [EMAIL |-> email, SMS |-> sms, WHATSAPP |-> whatsapp]
            chosen == ChooseChannel(contacts)
        IN
        Refusal(chosen, contacts[chosen]) # Allowed
        => \A channel \in DOMAIN contacts : Refusal(channel, contacts[channel]) # Allowed
=============================================================================
