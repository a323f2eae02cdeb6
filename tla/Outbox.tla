------------------------------- MODULE Outbox -------------------------------
(***************************************************************************)
(* What the outbound queue promises, with no workers, leases, clocks or    *)
(* retries: a message is queued once, and closed once, as delivered or as  *)
(* dropped.  The provider accepts a message again only after the trace of  *)
(* its last acceptance is gone; delivered means that exactly one           *)
(* acceptance is on the books, dropped that none is.                       *)
(***************************************************************************)
EXTENDS Naturals

CONSTANT Messages

VARIABLES outcome,   \* absent, queued, delivered or dropped
          accepted,  \* how often the provider took the message
          forgotten  \* how many of those acceptances left no trace

vars == <<outcome, accepted, forgotten>>

Outcomes == {"absent", "queued", "delivered", "dropped"}

OutboxTypeOK ==
    /\ outcome \in [Messages -> Outcomes]
    /\ accepted \in [Messages -> Nat]
    /\ forgotten \in [Messages -> Nat]

Init ==
    /\ outcome = [m \in Messages |-> "absent"]
    /\ accepted = [m \in Messages |-> 0]
    /\ forgotten = [m \in Messages |-> 0]

Queue(m) ==
    /\ outcome[m] = "absent"
    /\ outcome' = [outcome EXCEPT ![m] = "queued"]
    /\ UNCHANGED <<accepted, forgotten>>

\* The provider takes a message nothing says it has taken before.
Accept(m) ==
    /\ outcome[m] = "queued"
    /\ accepted[m] = forgotten[m]
    /\ accepted' = [accepted EXCEPT ![m] = @ + 1]
    /\ UNCHANGED <<outcome, forgotten>>

\* A crash between the acceptance and its commit.
Forget(m) ==
    /\ outcome[m] = "queued"
    /\ accepted[m] > forgotten[m]
    /\ forgotten' = [forgotten EXCEPT ![m] = @ + 1]
    /\ UNCHANGED <<outcome, accepted>>

\* The provider takes the message and the queue is told that it did not; it may
\* give the message up on that.
Misreport(m, givenUp) ==
    /\ outcome[m] = "queued"
    /\ accepted[m] = forgotten[m]
    /\ accepted' = [accepted EXCEPT ![m] = @ + 1]
    /\ forgotten' = [forgotten EXCEPT ![m] = @ + 1]
    /\ outcome' = [outcome EXCEPT ![m] = IF givenUp THEN "dropped" ELSE @]

Deliver(m) ==
    /\ outcome[m] = "queued"
    /\ accepted[m] = forgotten[m] + 1
    /\ outcome' = [outcome EXCEPT ![m] = "delivered"]
    /\ UNCHANGED <<accepted, forgotten>>

DropMessage(m) ==
    /\ outcome[m] = "queued"
    /\ accepted[m] = forgotten[m]
    /\ outcome' = [outcome EXCEPT ![m] = "dropped"]
    /\ UNCHANGED <<accepted, forgotten>>

Next == \E m \in Messages :
    \/ Queue(m) \/ Accept(m) \/ Forget(m) \/ Deliver(m) \/ DropMessage(m)
    \/ \E givenUp \in BOOLEAN : Misreport(m, givenUp)

OutboxSpec == Init /\ [][Next]_vars

\* What a reader of the abstract queue may rely on: a dropped message left no
\* acceptance on the books, a delivered one exactly one.
OutcomeIsHonest ==
    \A m \in Messages :
        /\ outcome[m] = "delivered" => accepted[m] = forgotten[m] + 1
        /\ outcome[m] = "dropped" => accepted[m] = forgotten[m]
=============================================================================
