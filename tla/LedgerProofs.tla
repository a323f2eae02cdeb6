---------------------------- MODULE LedgerProofs ----------------------------
(***************************************************************************)
(* Theorems about RecoveryLedger, for every set of entities and sessions,  *)
(* every holdout, window, limit and channel answer.                        *)
(***************************************************************************)
EXTENDS RecoveryLedger, SequenceTheorems, FiniteSetTheorems, WellFoundedInduction, TLAPS

\* The constants, one fact each.
LEMMA ConstantTypes ==
    /\ Kind \in [Entities -> {"PAYMENT", "SUBSCRIPTION", "CHECKOUT", "INVOICE"}]
    /\ \A e \in Entities :
          Failure[e] \in DOMAIN Taxonomy \/ Kind[e] \in {"CHECKOUT", "INVOICE"}
    /\ Value \in [Entities -> Nat] /\ Window \in [Entities -> Nat]
    /\ ReviewThreshold \in Nat /\ ApprovalAbove \in Nat /\ BatchLimit \in Nat
    /\ StaleAfter \in Nat /\ MaxTries \in Nat /\ MaxLosses \in Nat
    /\ MaxAttempts \in Nat /\ LastFact \in Nat /\ MaxTime \in Nat /\ MaxTime > 0
    /\ Nobody \notin Entities /\ NoReason \notin ChannelAnswers
  BY LedgerConstantsOK

\* A loss is a loss of its entity.
LEMMA LossEntity == \A r \in Losses : EntityOf(r) \in Entities
  BY DEF Losses, EntityOf

\* A set of attempt numbers that is not empty has a last one.
LEMMA LastExists ==
    ASSUME NEW N \in Nat, NEW T \in SUBSET (1..N), T # {}
    PROVE  \E n \in T : \A m \in T : m <= n
  <1> DEFINE D == {N - t : t \in T}
             R == OpToRel(<, Nat)
  <1>1. D \subseteq Nat /\ D # {}
    <2>1. PICK t : t \in T
      OBVIOUS
    <2>2. N - t \in D
      BY <2>1
    <2>3. \A u \in T : N - u \in Nat
      OBVIOUS
    <2> QED
      BY <2>2, <2>3
  <1>2. \E x \in D : \A y \in D : <<y, x>> \notin R
    <2> HIDE DEF D, R
    <2>1. IsWellFoundedOn(R, Nat)
      BY NatLessThanWellFounded DEF R
    <2> QED
      BY <1>1, <2>1, WFMin
  <1>3. PICK x \in D : \A y \in D : <<y, x>> \notin R
    BY <1>2
  <1>4. \A y \in D : ~(y < x)
    <2> SUFFICES ASSUME NEW y \in D, y < x PROVE FALSE
      OBVIOUS
    <2>1. <<y, x>> \in R
      BY <1>1 DEF OpToRel
    <2> QED
      BY <1>3, <2>1
  <1>5. PICK n \in T : x = N - n
    OBVIOUS
  <1>6. \A m \in T : m <= n
    <2> SUFFICES ASSUME NEW m \in T PROVE m <= n
      OBVIOUS
    <2>1. N - m \in D /\ n \in 1..N /\ m \in 1..N
      OBVIOUS
    <2>2. ~(N - m < N - n)
      BY <1>4, <1>5, <2>1
    <2> QED
      BY <2>1, <2>2
  <1> QED
    BY <1>6

-----------------------------------------------------------------------------
(* What the policy and the bounds return.                                  *)

\* The taxonomy asks for actions.
LEMMA TaxonomyType ==
    \A failure \in DOMAIN Taxonomy :
        /\ Taxonomy[failure].default \in Actions
        /\ Taxonomy[failure].escalation \in Actions \cup {NoEscalation}
  BY DEF Taxonomy, Actions, NoEscalation

\* decide() returns an action.
LEMMA DecideType ==
    ASSUME NEW e \in Entities, NEW n, NEW revoked, NEW high
    PROVE  Decide(Kind[e], Failure[e], n, revoked, high) \in Actions
  <1>1. CASE Kind[e] \in {"CHECKOUT", "INVOICE"}
    BY <1>1 DEF Decide, Actions
  <1>2. CASE Kind[e] \notin {"CHECKOUT", "INVOICE"}
    <2>1. Failure[e] \in DOMAIN Taxonomy
      BY <1>2, ConstantTypes
    <2>2. TaxonomyAction(Failure[e], n) \in Actions
      BY <2>1, TaxonomyType DEF TaxonomyAction, Actions
    <2> QED
      BY <1>2, <2>2 DEF Decide, Actions
  <1> QED
    BY <1>1, <1>2

\* _escalation_reason() retraces the branches of decide() (batch.py:89-94), whatever the
\* attempt number: a loss that is handed to a human has a reason on record, and it is
\* the retries exactly when the taxonomy, not the value, asked for the human.
THEOREM EscalationsHaveReasons ==
    ASSUME NEW type \in {"PAYMENT", "SUBSCRIPTION", "CHECKOUT", "INVOICE"},
           NEW failure \in (DOMAIN Taxonomy) \cup {NoFailure}, NEW n \in Nat,
           NEW revoked \in BOOLEAN, NEW high \in BOOLEAN,
           type \in {"CHECKOUT", "INVOICE"} \/ failure # NoFailure,
           Decide(type, failure, n, revoked, high) = "ESCALATE_HUMAN"
    PROVE  /\ EscalationReason(type, failure, n, revoked, high) # NoEscalation
           /\ EscalationReason(type, failure, n, revoked, high)
                    = "do_not_honor_retries_exhausted"
              <=> type # "INVOICE" /\ ~revoked /\ TaxonomyAction(failure, n) = "ESCALATE_HUMAN"
  <1>1. CASE type = "INVOICE"
    <2>1. n > InvoiceNudgeLimit
      BY <1>1 DEF Decide
    <2> QED
      BY <1>1, <2>1 DEF EscalationReason, NoEscalation
  <1>2. CASE type \in {"PAYMENT", "SUBSCRIPTION"}
    <2>1. failure \in DOMAIN Taxonomy /\ failure # NoFailure
      BY <1>2
    <2>2. Taxonomy[failure].default # "ESCALATE_HUMAN"
      BY <2>1 DEF Taxonomy
    <2>3. TaxonomyAction(failure, n) = "ESCALATE_HUMAN" <=> EscalatesAfterRetries(failure, n)
      BY <2>1, <2>2 DEF TaxonomyAction, EscalatesAfterRetries, NoEscalation
    <2>4. high \/ (~revoked /\ TaxonomyAction(failure, n) = "ESCALATE_HUMAN")
      BY <1>2 DEF Decide, ValueExempt
    <2> QED
      BY <1>2, <2>3, <2>4 DEF EscalationReason, NoEscalation
  <1>3. type # "CHECKOUT"
    BY DEF Decide
  <1> QED
    BY <1>1, <1>2, <1>3

\* Every check answers with a reason.
LEMMA ReasonType ==
    ASSUME NEW e \in Entities, NEW action
    PROVE  ActionReason(e, action) \in (Reasons \ {NoReason}) \cup {Allowed}
  <1> DEFINE entity == [type |-> Kind[e], revoked |-> e \in Revoked,
                        refunded |-> e \in refunded, disputed |-> e \in disputed]
  <1>1. EntityReason(action, entity) \in EntityReasons \cup {Allowed}
    BY DEF EntityReason, EntityReasons
  <1>2. PolicyReason(Value[e], ApprovalAbove) \in {"held_for_approval", Allowed}
    BY DEF PolicyReason
  <1>3. NoReason \notin EntityReasons
    BY DEF NoReason, EntityReasons
  <1> QED
    BY <1>1, <1>2, <1>3 DEF ActionReason, Reasons, NoReason

\* An attempt that has not reached anyone and will not.
Untouched(a) == a.executedAt = Never /\ ~Queued(a)

\* execute_action writes an attempt row, which reaches nobody when it is for the
\* holdout or is not authorised.
LEMMA AttemptType ==
    ASSUME TypeOK, NEW e \in Entities, NEW action \in Actions, NEW answer \in ChannelAnswers
    PROVE  /\ NewAttempt(e, action, answer) \in Attempt
           /\ e \in Holdout => Untouched(NewAttempt(e, action, answer))
           /\ ~Authorised(NewAttempt(e, action, answer))
                 => Untouched(NewAttempt(e, action, answer))
  <1> DEFINE before == ActionReason(e, action)
             reason == IF before = Allowed /\ NeedsChannel(action) THEN answer ELSE before
             a == NewAttempt(e, action, answer)
  <1>1. clock \in Nat /\ Window[e] \in Nat
    BY ConstantTypes DEF TypeOK
  <1>2. reason \in Reasons \cup {Allowed}
    BY ReasonType DEF Reasons
  <1>3. a = [action |-> action, decidedAt |-> clock, expiresAt |-> clock + Window[e],
             executedAt |-> IF reason = Allowed /\ ~NeedsChannel(action) THEN clock
                                                                         ELSE Never,
             reason |-> IF reason = Allowed THEN NoReason ELSE reason,
             token |-> /\ reason = Allowed /\ NeedsChannel(action)
                       /\ Kind[e] \in {"PAYMENT", "CHECKOUT"}]
    BY DEF NewAttempt
  <1> HIDE DEF a, reason
  <1>4. a \in Attempt
    <2>1. (reason = Allowed /\ NeedsChannel(action)) \in BOOLEAN
      OBVIOUS
    <2>2. (IF reason = Allowed THEN NoReason ELSE reason) \in Reasons
      BY <1>2 DEF Reasons
    <2>3. clock + Window[e] \in Nat
      BY <1>1
    <2>4. (IF reason = Allowed /\ ~NeedsChannel(action) THEN clock ELSE Never) \in Nat
      BY <1>1 DEF Never
    <2> QED
      BY <1>1, <1>3, <2>1, <2>2, <2>3, <2>4 DEF Attempt
  <1>5. reason # Allowed => Untouched(a)
    <2>1. before # NoReason
      BY ReasonType DEF NoReason, Allowed
    <2>2. reason # NoReason
      BY <2>1, ConstantTypes DEF reason
    <2> QED
      BY <1>3, <2>2 DEF Untouched, Queued
  <1>6. e \in Holdout => before # Allowed
    BY DEF ActionReason, Allowed
  <1>7. e \in Holdout => reason # Allowed
    BY <1>6 DEF reason
  <1>8. ~Authorised(a) => reason # Allowed
    BY <1>3 DEF Authorised
  <1> QED
    BY <1>4, <1>5, <1>7, <1>8 DEF a

-----------------------------------------------------------------------------
(* The verdicts.  Whatever a transaction plans for a row has its type, does *)
(* nothing to the holdout, and fits the row it was worked out from.        *)

Idle(v) == \A n \in DOMAIN v.new : Untouched(v.new[n])

\* Attribution and the cadence close a row with its outcome.
Closes(v) ==
    /\ v.new = <<>>
    /\ \/ v.status = "RECOVERED" /\ v.outcome = "RECOVERED"
       \/ v.status = "EXPIRED" /\ v.outcome = "EXPIRED"
       \/ v.status = "LOST" /\ v.outcome = "NOT_RECOVERED"

\* The success handler closes a row nobody acted on.
ClosesUnacted(r, v) ==
    /\ v.new = <<>> /\ v.status = "RECOVERED" /\ v.outcome = NoOutcome
    /\ attempts[r] = <<>>

\* The batch takes up an OPEN row, and leaves it there only with an idle attempt.
TakesUp(r, v) ==
    /\ status[r] = "OPEN" /\ v.outcome = NoOutcome
    /\ v.status \in {"IN_RECOVERY", Keep, "SUPPRESSED"}
    /\ v.status # "IN_RECOVERY" => Idle(v)

\* The cadence goes on with a row that is in recovery.
GoesOn(r, v) == status[r] = "IN_RECOVERY" /\ v.status = Keep /\ v.outcome = NoOutcome

Fits(r, v) ==
    \/ v = Unchanged
    \/ /\ status[r] \in Unresolved
       /\ Closes(v) \/ ClosesUnacted(r, v) \/ TakesUp(r, v) \/ GoesOn(r, v)

\* What holds of the verdict v on r when the books are in order.
Sound(r, v) ==
    /\ v \in Verdict
    /\ EntityOf(r) \in Holdout => Idle(v)
    /\ ActedOnLeavesOpen => Fits(r, v)

\* A plan without an attempt is idle.
LEMMA NothingNew == \A v : v.new = <<>> => Idle(v)
  <1>1. DOMAIN <<>> = {}
    OBVIOUS
  <1> QED
    BY <1>1 DEF Idle

\* To plan nothing is sound.
LEMMA UnchangedSound == \A r \in Losses : Sound(r, Unchanged)
  <1>1. Unchanged \in Verdict
    BY ConstantTypes DEF Unchanged, Verdict, Keep, NoOutcome
  <1>2. Idle(Unchanged)
    BY NothingNew DEF Unchanged
  <1> QED
    BY <1>1, <1>2 DEF Sound, Fits

\* The number of the next attempt.
LEMMA NextNumber ==
    ASSUME TypeOK, NEW r \in Losses, Len(attempts[r]) + 1 <= MaxAttempts
    PROVE  Len(attempts[r]) + 1 \in 0..(MaxAttempts + 1)
  <1>1. attempts[r] \in Seq(Attempt)
    BY DEF TypeOK
  <1>2. Len(attempts[r]) \in Nat
    BY <1>1, LenProperties
  <1> QED
    BY <1>2, ConstantTypes

\* One attempt as a sequence.
LEMMA OneAttempt ==
    ASSUME NEW a \in Attempt
    PROVE  /\ <<a>> \in Seq(Attempt)
           /\ \A v : v.new = <<a>> /\ Untouched(a) => Idle(v)
  <1>1. <<a>> \in Seq(Attempt)
    OBVIOUS
  <1>2. DOMAIN <<a>> = {1} /\ <<a>>[1] = a
    OBVIOUS
  <1> QED
    BY <1>1, <1>2 DEF Idle

\* A plan for a row, field by field.
LEMMA PlanIsVerdict ==
    ASSUME NEW s \in {Keep} \cup Unresolved \cup Closed, NEW n \in 0..(MaxAttempts + 1),
           NEW new \in Seq(Attempt)
    PROVE  [status |-> s, outcome |-> NoOutcome, strong |-> FALSE, number |-> n, new |-> new]
               \in Verdict
  <1>1. FALSE \in BOOLEAN
    OBVIOUS
  <1> QED
    BY <1>1 DEF Verdict

\* run_batch
LEMMA BatchSound ==
    ASSUME TypeOK, NEW r \in Losses, r \in Candidates, NEW answer \in ChannelAnswers
    PROVE  Sound(r, BatchVerdict(r, answer))
  <1> DEFINE e == EntityOf(r)
             n == Len(attempts[r]) + 1
             action == Decide(Kind[e], Failure[e], n, e \in Revoked,
                              Value[e] >= ReviewThreshold)
             a == NewAttempt(e, action, answer)
             v == BatchVerdict(r, answer)
  <1>1. e \in Entities
    BY LossEntity
  <1>2. action \in Actions
    BY <1>1, DecideType
  <1>3. a \in Attempt /\ (e \in Holdout => Untouched(a)) /\ (~Authorised(a) => Untouched(a))
    <2> HIDE DEF e, action
    <2> QED
      BY <1>1, <1>2, AttemptType
  <1>4. n \in 0..(MaxAttempts + 1)
    <2>1. attempts[r] \in Seq(Attempt)
      BY DEF TypeOK
    <2>2. Len(attempts[r]) \in Nat
      BY <2>1, LenProperties
    <2> QED
      BY <2>2, ConstantTypes DEF Candidates, HasRoom
  <1>5. v = [Unchanged EXCEPT
                !.number = n, !.new = <<a>>,
                !.status = IF Authorised(a) THEN "IN_RECOVERY"
                           ELSE IF a.reason \in TerminalReasons THEN "SUPPRESSED" ELSE Keep]
    BY DEF BatchVerdict
  <1> HIDE DEF e, n, action, a, v
  <1>6. /\ v.number = n /\ v.new = <<a>> /\ v.outcome = NoOutcome
        /\ v.status = IF Authorised(a) THEN "IN_RECOVERY"
                      ELSE IF a.reason \in TerminalReasons THEN "SUPPRESSED" ELSE Keep
    BY <1>5 DEF Unchanged
  <1>7. v \in Verdict
    <2>1. v = [status |-> v.status, outcome |-> NoOutcome, strong |-> FALSE, number |-> n,
               new |-> <<a>>]
      BY <1>5 DEF Unchanged
    <2>2. v.status \in {Keep} \cup Unresolved \cup Closed
      BY <1>6 DEF Unresolved, Closed
    <2> QED
      BY <1>3, <1>4, <1>6, <2>1, <2>2, OneAttempt, PlanIsVerdict
  <1>8. e \in Holdout => Idle(v)
    BY <1>3, <1>6, OneAttempt
  <1>9. TakesUp(r, v)
    <2>1. CASE Authorised(a)
      <3>1. v.status = "IN_RECOVERY" /\ v.outcome = NoOutcome
        BY <1>6, <2>1
      <3>2. status[r] = "OPEN"
        BY DEF Candidates
      <3> QED
        BY <3>1, <3>2 DEF TakesUp
    <2>2. CASE ~Authorised(a)
      <3>1. Idle(v)
        BY <1>3, <1>6, <2>2, OneAttempt
      <3>2. v.status \in {Keep, "SUPPRESSED"}
        BY <1>6, <2>2
      <3> QED
        BY <1>6, <3>1, <3>2 DEF TakesUp, Candidates
    <2> QED
      BY <2>1, <2>2
  <1> QED
    BY <1>7, <1>8, <1>9 DEF Sound, Fits, TakesUp, Unresolved, e, v

\* run_attribution
LEMMA AttributionSound ==
    ASSUME NEW r \in Losses, NEW asOf
    PROVE  Sound(r, AttributionVerdict(r, asOf))
  <1> DEFINE v == AttributionVerdict(r, asOf)
             expired == [Unchanged EXCEPT !.status = "EXPIRED", !.outcome = "EXPIRED"]
             earned == [Unchanged EXCEPT !.status = "RECOVERED", !.outcome = "RECOVERED",
                                         !.strong = StrongMatch(r)]
  <1>0. StrongMatch(r) \in BOOLEAN
    BY DEF StrongMatch
  <1>1. \/ v = Unchanged
        \/ status[r] \in Unresolved /\ v = earned
        \/ status[r] \in Unresolved /\ v = expired
    BY DEF AttributionVerdict, Undecided
  <1>2. CASE v = Unchanged
    BY <1>2, UnchangedSound
  <1>3. ASSUME NEW s \in {"RECOVERED", "EXPIRED"}, NEW b \in BOOLEAN,
               status[r] \in Unresolved,
               v = [status |-> s, outcome |-> s, strong |-> b, number |-> 0, new |-> <<>>]
        PROVE  Sound(r, v)
    <2> HIDE DEF v
    <2>1. v = [status |-> s, outcome |-> s, strong |-> b, number |-> 0, new |-> <<>>]
      BY <1>3
    <2>2. v \in Verdict
      BY <2>1, ConstantTypes DEF Verdict, Outcomes, Closed
    <2>3. Closes(v) /\ Idle(v)
      BY <2>1, NothingNew DEF Closes
    <2> QED
      BY <1>3, <2>2, <2>3 DEF Sound, Fits
  <1>4. CASE status[r] \in Unresolved /\ v = earned
    <2>1. v = [status |-> "RECOVERED", outcome |-> "RECOVERED", strong |-> StrongMatch(r),
               number |-> 0, new |-> <<>>]
      <3>1. v = earned
        BY <1>4
      <3> HIDE DEF v
      <3> QED
        BY <3>1 DEF Unchanged
    <2>2. Sound(r, v)
      <3> HIDE DEF v
      <3> QED
        BY <1>0, <1>3, <1>4, <2>1
    <2> QED
      BY <2>2
  <1>5. CASE status[r] \in Unresolved /\ v = expired
    <2>1. v = [status |-> "EXPIRED", outcome |-> "EXPIRED", strong |-> FALSE, number |-> 0,
               new |-> <<>>]
      <3>1. v = expired
        BY <1>5
      <3> HIDE DEF v
      <3> QED
        BY <3>1 DEF Unchanged
    <2>2. FALSE \in BOOLEAN
      OBVIOUS
    <2>3. Sound(r, v)
      <3> HIDE DEF v
      <3> QED
        BY <1>3, <1>5, <2>1, <2>2
    <2> QED
      BY <2>3
  <1> QED
    BY <1>1, <1>2, <1>4, <1>5

\* on_payment_succeeded
LEMMA SuccessSound ==
    ASSUME NEW r \in Losses, NEW e
    PROVE  Sound(r, SuccessVerdict(r, e))
  <1> DEFINE v == SuccessVerdict(r, e)
  <1>1. CASE v = Unchanged
    BY <1>1, UnchangedSound
  <1>2. CASE v # Unchanged
    <2>1. /\ status[r] \in Unresolved /\ attempts[r] = <<>>
          /\ v = [Unchanged EXCEPT !.status = "RECOVERED"]
      BY <1>2 DEF SuccessVerdict
    <2> HIDE DEF v
    <2>2. v = [status |-> "RECOVERED", outcome |-> NoOutcome, strong |-> FALSE, number |-> 0,
             new |-> <<>>]
      BY <2>1 DEF Unchanged
    <2>3. v \in Verdict
      BY <2>2, ConstantTypes DEF Verdict, Closed, Outcomes
    <2>4. ClosesUnacted(r, v)
      BY <2>1, <2>2 DEF ClosesUnacted
    <2>5. Idle(v)
      BY <2>2, NothingNew
    <2> QED
      BY <2>1, <2>3, <2>4, <2>5 DEF Sound, Fits, v
  <1> QED
    BY <1>1, <1>2

\* A row with a sent nudge has a latest one.
LEMMA LatestType ==
    ASSUME TypeOK, NEW r \in Losses, SentNudges(r) # {}
    PROVE  LatestNudge(r) \in Attempt
  <1>1. attempts[r] \in Seq(Attempt)
    BY DEF TypeOK
  <1>2. DOMAIN attempts[r] = 1..Len(attempts[r]) /\ Len(attempts[r]) \in Nat
    BY <1>1, LenProperties
  <1>3. SentNudges(r) \in SUBSET (1..Len(attempts[r]))
    BY <1>2 DEF SentNudges
  <1>4. \E n \in SentNudges(r) : \A m \in SentNudges(r) : m <= n
    BY <1>2, <1>3, LastExists
  <1>5. PICK n \in SentNudges(r) : LatestNudge(r) = attempts[r][n]
    BY <1>4 DEF LatestNudge
  <1> QED
    BY <1>1, <1>3, <1>5, ElementOfSeq

\* process_expired_nudges
LEMMA NudgeSound ==
    ASSUME TypeOK, NEW r \in Losses, NEW answer \in ChannelAnswers,
           NudgeVerdict(r, answer).number <= MaxAttempts
    PROVE  Sound(r, NudgeVerdict(r, answer))
  <1> DEFINE e == EntityOf(r)
             v == NudgeVerdict(r, answer)
             n == Len(attempts[r]) + 1
             a == NewAttempt(e, LatestNudge(r).action, answer)
  <1>1. CASE v = Unchanged
    BY <1>1, UnchangedSound
  <1>2. CASE v # Unchanged
    <2>1. status[r] \in Unresolved /\ SentNudges(r) # {}
      BY <1>2 DEF NudgeVerdict, Undecided
    <2>2. \/ v = [Unchanged EXCEPT !.status = "LOST", !.outcome = "NOT_RECOVERED"]
          \/ v = [Unchanged EXCEPT !.number = n, !.new = <<a>>]
      BY <1>2 DEF NudgeVerdict
    <2>3. CASE v = [Unchanged EXCEPT !.status = "LOST", !.outcome = "NOT_RECOVERED"]
      <3> HIDE DEF v
      <3>1. v = [status |-> "LOST", outcome |-> "NOT_RECOVERED", strong |-> FALSE, number |-> 0,
               new |-> <<>>]
        BY <2>3 DEF Unchanged
      <3>2. v \in Verdict
        BY <3>1, ConstantTypes DEF Verdict, Outcomes, Closed
      <3>3. Closes(v) /\ Idle(v)
        BY <3>1, NothingNew DEF Closes
      <3> QED
        BY <2>1, <3>2, <3>3 DEF Sound, Fits, v
    <2>4. CASE v = [Unchanged EXCEPT !.number = n, !.new = <<a>>]
      <3>1. e \in Entities /\ LatestNudge(r).action \in Actions
        BY <2>1, LossEntity, LatestType DEF Attempt
      <3>2. a \in Attempt /\ (e \in Holdout => Untouched(a))
        BY <3>1, AttemptType
      <3>3. v.number = n
        BY <2>4 DEF Unchanged
      <3>4. n \in 0..(MaxAttempts + 1)
        BY <3>3, NextNumber
      <3> HIDE DEF v, n, a
      <3>5. v = [status |-> Keep, outcome |-> NoOutcome, strong |-> FALSE, number |-> n,
               new |-> <<a>>]
        BY <2>4 DEF Unchanged
      <3>6. v \in Verdict
        BY <3>2, <3>4, <3>5, OneAttempt DEF Verdict
      <3>7. e \in Holdout => Idle(v)
        BY <3>2, <3>5, OneAttempt
      <3>8. ActedOnLeavesOpen => GoesOn(r, v)
        <4>1. PICK m \in SentNudges(r) : TRUE
          BY <2>1
        <4>2. m \in DOMAIN attempts[r] /\ attempts[r][m].executedAt # Never
          BY DEF SentNudges
        <4>3. ActedOnLeavesOpen => status[r] # "OPEN"
          BY <4>2 DEF ActedOnLeavesOpen
        <4> QED
          BY <2>1, <3>5, <4>3 DEF GoesOn, Unresolved
      <3> QED
        BY <2>1, <3>6, <3>7, <3>8 DEF Sound, Fits, v
    <2> QED
      BY <2>2, <2>3, <2>4
  <1> QED
    BY <1>1, <1>2

-----------------------------------------------------------------------------
(* Every transaction opens with a sound plan, or writes nothing.           *)

othersVars == <<clock, bookVars, eventVars, switchVars>>

Opens(p) ==
    \E verdict \in [Losses -> Verdict], paid \in Entities \cup {Nobody}, token \in Tokens,
       at \in Nat :
        /\ Begin(p, verdict, paid, token, at)
        /\ \A r \in Losses : Sound(r, verdict[r])

\* A transaction is opened with what it was told to write.
LEMMA BeginOpens ==
    ASSUME NEW p \in Procs, NEW v, NEW paid \in Entities \cup {Nobody}, NEW token \in Tokens,
           NEW at \in Nat,
           v = [r \in Losses |-> v[r]],
           \A r \in Losses : Sound(r, v[r]),
           Begin(p, v, paid, token, at)
    PROVE  Opens(p)
  <1>1. \A r \in Losses : v[r] \in Verdict
    BY DEF Sound
  <1>2. v \in [Losses -> Verdict]
    BY <1>1
  <1> QED
    BY <1>2 DEF Opens

\* The sweeps and the batch are for nobody's payment.
LEMMA NoOnePays ==
    Nobody \in Entities \cup {Nobody} /\ NoToken \in Tokens /\ Never \in Nat
  BY DEF Tokens, Never

LEMMA SweepOpens ==
    ASSUME NEW p \in Procs, NEW v,
           v = [r \in Losses |-> v[r]],
           \A r \in Losses : Sound(r, v[r]),
           BeginSweep(p, v)
    PROVE  Opens(p) \/ UNCHANGED <<othersVars, txn>>
  <1>1. CASE Begin(p, v, Nobody, NoToken, Never)
    BY <1>1, NoOnePays, BeginOpens
  <1>2. CASE UNCHANGED <<clock, bookVars, eventVars, switchVars, txn>>
    BY <1>2 DEF othersVars
  <1> QED
    BY <1>1, <1>2 DEF BeginSweep

LEMMA BatchOpens ==
    ASSUME TypeOK, NEW p \in Procs, BeginBatch(p)
    PROVE  Opens(p) /\ UNCHANGED nudgesDue
  <1>1. PICK rows \in SUBSET Candidates, answer \in [Entities -> ChannelAnswers] :
            Begin(p, [r \in Losses |-> IF r \in rows
                                       THEN BatchVerdict(r, answer[EntityOf(r)])
                                       ELSE Unchanged],
                  Nobody, NoToken, Never)
    BY DEF BeginBatch
  <1> DEFINE v == [r \in Losses |-> IF r \in rows
                                    THEN BatchVerdict(r, answer[EntityOf(r)])
                                    ELSE Unchanged]
  <1>2. \A r \in Losses : answer[EntityOf(r)] \in ChannelAnswers
    BY LossEntity
  <1>3. \A r \in Losses : Sound(r, v[r])
    <2> SUFFICES ASSUME NEW r \in Losses PROVE Sound(r, v[r])
      OBVIOUS
    <2>1. CASE r \in rows
      BY <1>2, <2>1, BatchSound
    <2>2. CASE r \notin rows
      BY <2>2, UnchangedSound
    <2> QED
      BY <2>1, <2>2
  <1>4. v = [r \in Losses |-> v[r]] /\ Begin(p, v, Nobody, NoToken, Never)
    BY <1>1
  <1>5. Opens(p)
    <2> HIDE DEF v
    <2> QED
      BY <1>3, <1>4, NoOnePays, BeginOpens
  <1> QED
    BY <1>5 DEF BeginBatch

LEMMA AttributionOpens ==
    ASSUME NEW p \in Procs, BeginAttribution(p)
    PROVE  (Opens(p) \/ UNCHANGED <<othersVars, txn>>) /\ nudgesDue' = TRUE
  <1>1. PICK asOf : BeginSweep(p, [r \in Losses |-> AttributionVerdict(r, asOf)])
    BY DEF BeginAttribution
  <1> DEFINE v == [r \in Losses |-> AttributionVerdict(r, asOf)]
  <1>2. \A r \in Losses : Sound(r, v[r])
    BY AttributionSound
  <1>3. v = [r \in Losses |-> v[r]] /\ BeginSweep(p, v)
    BY <1>1
  <1>4. Opens(p) \/ UNCHANGED <<othersVars, txn>>
    <2> HIDE DEF v
    <2> QED
      BY <1>2, <1>3, SweepOpens
  <1> QED
    BY <1>4 DEF BeginAttribution

LEMMA NudgesOpen ==
    ASSUME TypeOK, NEW p \in Procs, BeginNudges(p)
    PROVE  (Opens(p) \/ UNCHANGED <<othersVars, txn>>) /\ nudgesDue' = FALSE
  <1>1. PICK answer \in [Entities -> ChannelAnswers] :
            LET verdict == [r \in Losses |-> NudgeVerdict(r, answer[EntityOf(r)])] IN
            /\ \A r \in Losses : verdict[r].number <= MaxAttempts
            /\ BeginSweep(p, verdict)
    BY DEF BeginNudges
  <1> DEFINE v == [r \in Losses |-> NudgeVerdict(r, answer[EntityOf(r)])]
  <1>2. \A r \in Losses : Sound(r, v[r])
    <2>1. \A r \in Losses : answer[EntityOf(r)] \in ChannelAnswers
      BY LossEntity
    <2>2. \A r \in Losses : NudgeVerdict(r, answer[EntityOf(r)]).number <= MaxAttempts
      BY <1>1
    <2> QED
      BY <2>1, <2>2, NudgeSound
  <1>3. v = [r \in Losses |-> v[r]] /\ BeginSweep(p, v)
    BY <1>1
  <1>4. Opens(p) \/ UNCHANGED <<othersVars, txn>>
    <2> HIDE DEF v
    <2> QED
      BY <1>2, <1>3, SweepOpens
  <1> QED
    BY <1>4 DEF BeginNudges

LEMMA SuccessOpens ==
    ASSUME TypeOK, NEW p \in Procs, BeginSuccess(p)
    PROVE  Opens(p) /\ UNCHANGED nudgesDue
  <1>0. PICK e \in Entities, at \in 1..clock : \E token \in TokensFor(e, at) :
            Begin(p, [r \in Losses |-> SuccessVerdict(r, e)], e, token, at)
    BY DEF BeginSuccess
  <1>1. PICK token \in TokensFor(e, at) :
            Begin(p, [r \in Losses |-> SuccessVerdict(r, e)], e, token, at)
    BY <1>0
  <1> DEFINE v == [r \in Losses |-> SuccessVerdict(r, e)]
  <1>2. \A r \in Losses : Sound(r, v[r])
    BY SuccessSound
  <1>3. v = [r \in Losses |-> v[r]] /\ Begin(p, v, e, token, at)
    BY <1>1
  <1>4. token \in Tokens /\ e \in Entities \cup {Nobody} /\ at \in Nat
    BY ConstantTypes DEF TokensFor, Tokens, TypeOK
  <1>5. Opens(p)
    <2> HIDE DEF v
    <2> QED
      BY <1>2, <1>3, <1>4, BeginOpens
  <1> QED
    BY <1>5 DEF BeginSuccess

LEMMA SimulateOpens ==
    ASSUME TypeOK, NEW p \in Procs, SimulateReply(p)
    PROVE  Opens(p) /\ UNCHANGED nudgesDue
  <1> DEFINE e(r) == EntityOf(r)
             n(r) == Len(attempts[r])
             a(r) == attempts[r][n(r)]
             From(r) == IF a(r).executedAt = Never THEN a(r).decidedAt ELSE a(r).executedAt
             TokenOf(r) == IF a(r).token THEN <<r, n(r)>> ELSE NoToken
  <1>0. PICK r \in Losses :
            /\ attempts[r] # <<>>
            /\ \E at \in From(r)..a(r).expiresAt :
                  Begin(p, [s \in Losses |-> SuccessVerdict(s, e(r))], e(r), TokenOf(r), at)
    BY DEF SimulateReply
  <1>1. PICK at \in From(r)..a(r).expiresAt :
            Begin(p, [s \in Losses |-> SuccessVerdict(s, e(r))], e(r), TokenOf(r), at)
    BY <1>0
  <1>2. attempts[r] \in Seq(Attempt)
    BY DEF TypeOK
  <1>3. n(r) \in Nat /\ n(r) \in 1..Len(attempts[r])
    BY <1>0, <1>2, EmptySeq, LenProperties
  <1>4. a(r) \in Attempt
    BY <1>2, <1>3, ElementOfSeq
  <1>5. From(r) \in Nat /\ a(r).expiresAt \in Nat
    BY <1>4 DEF Attempt
  <1>6. at \in Nat
    BY <1>5
  <1>7. TokenOf(r) \in Tokens
    BY <1>3 DEF Tokens
  <1>8. e(r) \in Entities \cup {Nobody}
    BY LossEntity
  <1> DEFINE v == [s \in Losses |-> SuccessVerdict(s, e(r))]
  <1>9. \A s \in Losses : Sound(s, v[s])
    BY SuccessSound
  <1>10. v = [s \in Losses |-> v[s]] /\ Begin(p, v, e(r), TokenOf(r), at)
    BY <1>1
  <1>11. Opens(p)
    <2> HIDE DEF v, TokenOf, e
    <2> QED
      BY <1>6, <1>7, <1>8, <1>9, <1>10, BeginOpens
  <1> QED
    BY <1>11 DEF SimulateReply

\* The five together.
LEMMA BeginCases ==
    ASSUME TypeOK, NEW p \in Procs,
           BeginBatch(p) \/ BeginAttribution(p) \/ BeginNudges(p)
               \/ BeginSuccess(p) \/ SimulateReply(p)
    PROVE  /\ Opens(p) \/ UNCHANGED <<othersVars, txn>>
           /\ nudgesDue' \in BOOLEAN
  <1>1. nudgesDue \in BOOLEAN
    BY DEF TypeOK
  <1> QED
    BY <1>1, BatchOpens, AttributionOpens, NudgesOpen, SuccessOpens, SimulateOpens

\* What is sent or dropped keeps its row in order.
LEMMA SendCases ==
    ASSUME TypeOK, NEW r \in Losses, Send(r) \/ DropQueued(r)
    PROVE  \E n \in 1..Len(attempts[r]), a \in Attempt :
             /\ n \in DOMAIN attempts[r] /\ Queued(attempts[r][n])
             /\ attempts' = [attempts EXCEPT ![r] = [attempts[r] EXCEPT ![n] = a]]
             /\ attempts'[r] \in Seq(Attempt) /\ DOMAIN attempts'[r] = DOMAIN attempts[r]
             /\ UNCHANGED <<clock, status, outcome, strong, eventVars, switchVars, txn, nudgesDue>>
  <1>1. attempts[r] \in Seq(Attempt)
    BY DEF TypeOK
  <1>2. DOMAIN attempts[r] = 1..Len(attempts[r])
    BY <1>1, LenProperties
  <1>3. clock \in Nat /\ Window[EntityOf(r)] \in Nat /\ StaleAfter \in Nat
    BY ConstantTypes, LossEntity DEF TypeOK
  <1>4. ASSUME NEW n \in DOMAIN attempts[r], NEW a \in Attempt,
               attempts' = [attempts EXCEPT ![r] = [attempts[r] EXCEPT ![n] = a]]
        PROVE  attempts'[r] \in Seq(Attempt) /\ DOMAIN attempts'[r] = DOMAIN attempts[r]
    <2>1. attempts'[r] = [attempts[r] EXCEPT ![n] = a]
      BY <1>4 DEF TypeOK
    <2>2. [attempts[r] EXCEPT ![n] = a] \in Seq(Attempt)
      BY <1>1, <1>2, ExceptSeq
    <2> QED
      BY <2>1, <2>2
  <1>5. CASE Send(r)
    <2>1. PICK n \in DOMAIN attempts[r] :
            /\ Queued(attempts[r][n])
            /\ attempts' = [attempts EXCEPT ![r][n].executedAt = clock,
                                            ![r][n].expiresAt = clock + Window[EntityOf(r)]]
            /\ UNCHANGED <<clock, status, outcome, strong, eventVars, switchVars, txn, nudgesDue>>
      BY <1>5 DEF Send
    <2> DEFINE a == [attempts[r][n] EXCEPT !.executedAt = clock,
                                           !.expiresAt = clock + Window[EntityOf(r)]]
    <2>2. attempts[r][n] \in Attempt
      BY <1>1, <1>2, ElementOfSeq
    <2>3. a \in Attempt
      <3>1. ASSUME NEW b \in Attempt, NEW s \in Nat, NEW t \in Nat
            PROVE  [b EXCEPT !.executedAt = s, !.expiresAt = t] \in Attempt
        BY DEF Attempt
      <3>2. clock + Window[EntityOf(r)] \in Nat
        BY <1>3
      <3> QED
        BY <1>3, <2>2, <3>1, <3>2
    <2>4. attempts' = [attempts EXCEPT ![r] = [attempts[r] EXCEPT ![n] = a]]
      BY <2>1 DEF TypeOK
    <2> HIDE DEF a
    <2> QED
      BY <1>2, <1>4, <2>1, <2>3, <2>4
  <1>6. CASE DropQueued(r)
    <2>1. PICK n \in DOMAIN attempts[r] :
            /\ Queued(attempts[r][n])
            /\ attempts' = [attempts EXCEPT ![r][n].reason = "dispatch_expired_unsent"]
            /\ UNCHANGED <<clock, status, outcome, strong, eventVars, switchVars, txn, nudgesDue>>
      BY <1>6 DEF DropQueued
    <2> DEFINE a == [attempts[r][n] EXCEPT !.reason = "dispatch_expired_unsent"]
    <2>2. attempts[r][n] \in Attempt
      BY <1>1, <1>2, ElementOfSeq
    <2>3. "dispatch_expired_unsent" \in Reasons
      BY DEF Reasons
    <2>5. a \in Attempt
      <3>1. ASSUME NEW b \in Attempt, NEW x \in Reasons
            PROVE  [b EXCEPT !.reason = x] \in Attempt
        BY DEF Attempt
      <3> QED
        BY <2>2, <2>3, <3>1
    <2>4. attempts' = [attempts EXCEPT ![r] = [attempts[r] EXCEPT ![n] = a]]
      BY <2>1 DEF TypeOK
    <2> HIDE DEF a
    <2> QED
      BY <1>2, <1>4, <2>1, <2>4, <2>5
  <1> QED
    BY <1>5, <1>6

-----------------------------------------------------------------------------
(* Type correctness.                                                       *)

LEMMA NotReadType == NotRead \in Reading /\ [r \in Losses |-> NotRead] \in [Losses -> Reading]
  BY DEF NotRead, Reading


LEMMA InitType == Init => TypeOK
  <1> SUFFICES ASSUME Init PROVE TypeOK
    OBVIOUS
  <1>1. NoTxn \in Txn
    <2>1. [r \in Losses |-> Unchanged] \in [Losses -> Verdict]
      BY UnchangedSound DEF Sound
    <2> QED
      BY <2>1, NotReadType, NoOnePays DEF NoTxn, Txn
  <1>2. clock \in 1..MaxTime
    BY ConstantTypes DEF Init
  <1>3. /\ status \in [Losses -> {"ABSENT"} \cup Unresolved \cup Closed]
        /\ outcome \in [Losses -> Outcomes \cup {NoOutcome}]
    BY DEF Init
  <1>4. attempts \in [Losses -> Seq(Attempt)]
    <2>1. <<>> \in Seq(Attempt)
      OBVIOUS
    <2> QED
      BY <2>1 DEF Init
  <1>5. paidAt \in [Entities -> Nat] /\ paidToken \in [Entities -> Tokens]
    BY NoOnePays DEF Init, Never
  <1>6. txn \in [Procs -> Txn]
    BY <1>1 DEF Init
  <1> QED
    BY <1>2, <1>3, <1>4, <1>5, <1>6 DEF Init, TypeOK

\* A plan that is written has its type.
LEMMA PlanType ==
    ASSUME TypeOK, NEW p \in Procs
    PROVE  /\ txn[p].verdict \in [Losses -> Verdict]
           /\ txn[p].paid \in Entities \cup {Nobody} /\ txn[p].token \in Tokens
           /\ txn[p].at \in Nat
           /\ txn[p].read \in [Losses -> Reading]
           /\ txn[p].open \in BOOLEAN
  <1>1. txn[p] \in Txn
    BY DEF TypeOK
  <1> QED
    BY <1>1 DEF Txn

\* The transaction is over.
LEMMA CloseType ==
    ASSUME TypeOK, NEW p \in Procs, txn' = [txn EXCEPT ![p] = NoTxn]
    PROVE  txn' \in [Procs -> Txn]
  <1>1. [r \in Losses |-> Unchanged] \in [Losses -> Verdict]
    BY UnchangedSound DEF Sound
  <1>2. NoTxn \in Txn
    BY <1>1, NotReadType, NoOnePays DEF NoTxn, Txn
  <1> QED
    BY <1>2 DEF TypeOK

\* What is written has its type.
LEMMA CommitType ==
    ASSUME TypeOK, NEW p \in Procs, Commit(p)
    PROVE  TypeOK'
  <1> DEFINE v == txn[p].verdict
  <1>1. \A r \in Losses : v[r] \in Verdict
    BY PlanType
  <1>2. \A r \in Losses : /\ v[r].status \in {Keep} \cup Unresolved \cup Closed
                          /\ v[r].outcome \in Outcomes \cup {NoOutcome}
                          /\ v[r].new \in Seq(Attempt)
    BY <1>1 DEF Verdict
  <1> HIDE DEF v
  <1>3. status' \in [Losses -> {"ABSENT"} \cup Unresolved \cup Closed]
    <2>1. status' = [r \in Losses |-> IF v[r].status = Keep THEN status[r]
                                                            ELSE v[r].status]
      BY DEF Commit, v
    <2> QED
      BY <1>2, <2>1 DEF TypeOK
  <1>4. outcome' \in [Losses -> Outcomes \cup {NoOutcome}]
    <2>1. outcome' = [r \in Losses |-> IF v[r].outcome = NoOutcome THEN outcome[r]
                                                                 ELSE v[r].outcome]
      BY DEF Commit, v
    <2> QED
      BY <1>2, <2>1 DEF TypeOK
  <1>5. attempts' \in [Losses -> Seq(Attempt)]
    <2>1. attempts' = [r \in Losses |-> attempts[r] \o v[r].new]
      BY DEF Commit, v
    <2>2. \A r \in Losses : attempts[r] \o v[r].new \in Seq(Attempt)
      BY <1>2, ConcatProperties DEF TypeOK
    <2> QED
      BY <2>1, <2>2
  <1>6. paidAt' \in [Entities -> Nat] /\ paidToken' \in [Entities -> Tokens]
    <2>1. /\ clock \in Nat /\ paidAt \in [Entities -> Nat]
          /\ paidToken \in [Entities -> Tokens] /\ txn[p].token \in Tokens
          /\ txn[p].at \in Nat
      BY PlanType, ConstantTypes DEF TypeOK
    <2> QED
      BY <2>1 DEF Commit
  <1>7. txn' \in [Procs -> Txn]
    BY CloseType DEF Commit
  <1>8. strong' \subseteq Losses
    BY DEF Commit
  <1> QED
    BY <1>3, <1>4, <1>5, <1>6, <1>7, <1>8 DEF Commit, TypeOK, switchVars

\* No step leaves the types.
LEMMA NextType == TypeOK /\ [Next]_vars => TypeOK'
  <1> SUFFICES ASSUME TypeOK, [Next]_vars PROVE TypeOK'
    OBVIOUS
  <1> USE DEF bookVars, eventVars, switchVars
  <1>1. ASSUME NEW r \in Losses, FailureEvent(r) \/ Sweep(r) PROVE TypeOK'
    <2>1. OpenAtRisk(r)
      BY <1>1 DEF FailureEvent, Sweep
    <2> QED
      BY <2>1 DEF OpenAtRisk, TypeOK, Unresolved
  <1>2. ASSUME NEW r \in Losses, Send(r) \/ DropQueued(r) PROVE TypeOK'
    <2>1. \E x : attempts' = [attempts EXCEPT ![r] = x]
      BY <1>2, SendCases
    <2>2. attempts'[r] \in Seq(Attempt)
      BY <1>2, SendCases
    <2>3. attempts' \in [Losses -> Seq(Attempt)]
      BY <2>1, <2>2 DEF TypeOK
    <2>4. UNCHANGED <<clock, status, outcome, strong, eventVars, switchVars, txn, nudgesDue>>
      BY <1>2, SendCases
    <2> QED
      BY <2>3, <2>4 DEF TypeOK
  <1>3. ASSUME NEW p \in Procs,
               BeginBatch(p) \/ BeginAttribution(p) \/ BeginNudges(p)
               \/ BeginSuccess(p) \/ SimulateReply(p)
        PROVE  TypeOK'
    <2>1. nudgesDue' \in BOOLEAN
      BY <1>3, BeginCases
    <2>2. CASE UNCHANGED <<othersVars, txn>>
      BY <2>1, <2>2 DEF TypeOK, othersVars
    <2>3. CASE Opens(p)
      <3>1. PICK verdict \in [Losses -> Verdict], paid \in Entities \cup {Nobody},
                 token \in Tokens, at \in Nat : Begin(p, verdict, paid, token, at)
        BY <2>3 DEF Opens
      <3> DEFINE seen == [r \in Losses |-> IF verdict[r] = Unchanged THEN NotRead
                                                                  ELSE ReadNow(r)]
                 opened == [open |-> TRUE, verdict |-> verdict, read |-> seen,
                            paid |-> paid, token |-> token, at |-> at]
      <3>6. seen \in [Losses -> Reading]
        <4>1. \A r \in Losses : ReadNow(r) \in Reading
          BY LenProperties DEF ReadNow, Reading, TypeOK
        <4> QED
          BY <4>1, NotReadType
      <3>2. opened \in Txn
        <4> HIDE DEF seen
        <4> QED
          BY <3>6 DEF Txn
      <3>3. txn' = [txn EXCEPT ![p] = opened]
        BY <3>1 DEF Begin
      <3> HIDE DEF opened
      <3>4. txn' \in [Procs -> Txn]
        BY <3>2, <3>3 DEF TypeOK
      <3>5. UNCHANGED <<clock, bookVars, eventVars, switchVars>>
        BY <3>1 DEF Begin
      <3> QED
        BY <2>1, <3>4, <3>5 DEF TypeOK
    <2> QED
      BY <1>3, <2>2, <2>3, BeginCases
  <1>4. ASSUME NEW p \in Procs, Commit(p) PROVE TypeOK'
    BY <1>4, CommitType
  <1>5. ASSUME NEW p \in Procs, Rollback(p) PROVE TypeOK'
    <2>1. txn' \in [Procs -> Txn]
      BY <1>5, CloseType DEF Rollback
    <2> QED
      BY <1>5, <2>1 DEF Rollback, TypeOK
  <1>6. ASSUME NEW e \in Entities, OpenDispute(e) \/ CloseDispute(e) \/ Refund(e)
        PROVE  TypeOK'
    BY <1>6 DEF OpenDispute, CloseDispute, Refund, TypeOK
  <1>7. ASSUME NEW live \in BOOLEAN, SwitchOn(live) PROVE TypeOK'
    BY <1>7 DEF SwitchOn, TypeOK
  <1>8. CASE Tick
    BY <1>8, ConstantTypes DEF Tick, TypeOK
  <1>9. CASE UNCHANGED vars
    BY <1>9 DEF vars, TypeOK
  <1> QED
    BY <1>1, <1>2, <1>3, <1>4, <1>5, <1>6, <1>7, <1>8, <1>9 DEF Next

\* Every row, attempt, event and open transaction of the ledger stays one of those
\* the schema has, whatever its sessions do and however they overlap.
THEOREM LedgerTypes == Spec => []TypeOK
  BY InitType, NextType, PTL DEF Spec

-----------------------------------------------------------------------------
(* The control group.  A plan is worked out in one step and written in     *)
(* another, so what is planned for the holdout has to be idle too.         *)

PlansSpareHoldout ==
    \A p \in Procs, r \in Losses :
        EntityOf(r) \in Holdout => Idle(txn[p].verdict[r])

\* An attempt after the commit was there before, or comes from the plan.
LEMMA CommitAttempts ==
    ASSUME TypeOK, NEW p \in Procs, Commit(p), NEW r \in Losses, NEW n \in DOMAIN attempts'[r]
    PROVE  \/ \E m \in DOMAIN attempts[r] : attempts'[r][n] = attempts[r][m]
           \/ \E m \in DOMAIN txn[p].verdict[r].new :
                 attempts'[r][n] = txn[p].verdict[r].new[m]
  <1> DEFINE old == attempts[r]
             new == txn[p].verdict[r].new
  <1>1. old \in Seq(Attempt) /\ new \in Seq(Attempt)
    BY PlanType DEF TypeOK, Verdict
  <1>2. attempts'[r] = old \o new
    BY DEF Commit
  <1> HIDE DEF old, new
  <1>3. /\ DOMAIN old = 1..Len(old) /\ Len(old) \in Nat
        /\ DOMAIN new = 1..Len(new) /\ Len(new) \in Nat
    BY <1>1, LenProperties
  <1>4. /\ DOMAIN (old \o new) = 1..(Len(old) + Len(new))
        /\ (old \o new)[n] = IF n <= Len(old) THEN old[n] ELSE new[n - Len(old)]
    <2>1. DOMAIN (old \o new) = 1..Len(old \o new)
      BY <1>1, ConcatProperties, LenProperties
    <2> QED
      BY <1>1, <1>2, <2>1, ConcatProperties
  <1>5. n \in 1..(Len(old) + Len(new))
    BY <1>2, <1>4
  <1>6. CASE n <= Len(old)
    BY <1>2, <1>3, <1>4, <1>5, <1>6 DEF old
  <1>7. CASE ~(n <= Len(old))
    <2>1. n - Len(old) \in DOMAIN new
      BY <1>3, <1>5, <1>7
    <2> QED
      BY <1>2, <1>4, <1>7, <2>1 DEF new
  <1> QED
    BY <1>6, <1>7

\* Only r's attempts change when one of them is sent or dropped.
LEMMA SendElsewhere ==
    ASSUME TypeOK, NEW r \in Losses, Send(r) \/ DropQueued(r), NEW s \in Losses, s # r
    PROVE  attempts'[s] = attempts[s]
  <1>1. PICK x : attempts' = [attempts EXCEPT ![r] = x]
    BY SendCases
  <1> QED
    BY <1>1 DEF TypeOK

HoldoutInv == TypeOK /\ HoldoutUntouched /\ PlansSpareHoldout

\* In HoldoutUntouched's terms.
LEMMA HoldoutIdle ==
    HoldoutUntouched <=>
        \A r \in Losses : EntityOf(r) \in Holdout =>
            \A n \in DOMAIN attempts[r] : Untouched(attempts[r][n])
  BY DEF HoldoutUntouched, Untouched

LEMMA HoldoutNext == HoldoutInv /\ [Next]_vars => HoldoutInv'
  <1> SUFFICES ASSUME HoldoutInv, [Next]_vars
               PROVE  HoldoutUntouched' /\ PlansSpareHoldout'
    BY NextType DEF HoldoutInv
  <1>t. TypeOK /\ HoldoutUntouched /\ PlansSpareHoldout
    BY DEF HoldoutInv
  <1>k. ASSUME UNCHANGED <<attempts, txn>> PROVE HoldoutUntouched' /\ PlansSpareHoldout'
    <2>1. HoldoutUntouched'
      BY <1>k, <1>t DEF HoldoutUntouched, Queued
    <2>2. PlansSpareHoldout'
      BY <1>k, <1>t DEF PlansSpareHoldout, Idle, Untouched, Queued
    <2> QED
      BY <2>1, <2>2
  <1>1. ASSUME NEW r \in Losses, Send(r) \/ DropQueued(r)
        PROVE  HoldoutUntouched' /\ PlansSpareHoldout'
    <2>1. EntityOf(r) \notin Holdout
      BY <1>1, <1>t, SendCases DEF HoldoutUntouched
    <2>2. \A s \in Losses : s # r => attempts'[s] = attempts[s]
      BY <1>1, <1>t, SendElsewhere
    <2>3. HoldoutUntouched'
      BY <1>t, <2>1, <2>2 DEF HoldoutUntouched, Queued
    <2>4. UNCHANGED txn
      BY <1>1, <1>t, SendCases
    <2>5. PlansSpareHoldout'
      BY <1>t, <2>4 DEF PlansSpareHoldout, Idle, Untouched, Queued
    <2> QED
      BY <2>3, <2>5
  <1>2. ASSUME NEW p \in Procs,
               BeginBatch(p) \/ BeginAttribution(p) \/ BeginNudges(p)
               \/ BeginSuccess(p) \/ SimulateReply(p)
        PROVE  HoldoutUntouched' /\ PlansSpareHoldout'
    <2>1. CASE UNCHANGED <<othersVars, txn>>
      BY <1>k, <2>1 DEF othersVars, bookVars
    <2>2. CASE Opens(p)
      <3>1. PICK verdict \in [Losses -> Verdict], paid \in Entities \cup {Nobody},
                 token \in Tokens, at \in Nat :
              /\ Begin(p, verdict, paid, token, at)
              /\ \A r \in Losses : Sound(r, verdict[r])
        BY <2>2 DEF Opens
      <3>2. HoldoutUntouched'
        BY <1>t, <3>1 DEF HoldoutUntouched, Queued, Begin, bookVars
      <3>3. \A r \in Losses : EntityOf(r) \in Holdout => Idle(verdict[r])
        BY <3>1 DEF Sound
      <3>4. \A q \in Procs : txn'[q].verdict = IF q = p THEN verdict ELSE txn[q].verdict
        BY <1>t, <3>1 DEF Begin, TypeOK
      <3>5. PlansSpareHoldout'
        BY <1>t, <3>3, <3>4 DEF PlansSpareHoldout, Idle, Untouched, Queued
      <3> QED
        BY <3>2, <3>5
    <2> QED
      BY <1>2, <1>t, <2>1, <2>2, BeginCases
  <1>3. ASSUME NEW p \in Procs, txn' = [txn EXCEPT ![p] = NoTxn] PROVE PlansSpareHoldout'
    <2>1. \A q \in Procs : txn'[q] = IF q = p THEN NoTxn ELSE txn[q]
      BY <1>3, <1>t DEF TypeOK
    <2>2. \A r \in Losses : NoTxn.verdict[r].new = <<>>
      BY DEF NoTxn, Unchanged
    <2>3. \A r \in Losses : Idle(NoTxn.verdict[r])
      BY <2>2, NothingNew
    <2>4. ASSUME NEW q \in Procs, NEW r \in Losses, EntityOf(r) \in Holdout
          PROVE  Idle(txn'[q].verdict[r])
      BY <1>t, <2>1, <2>3, <2>4 DEF PlansSpareHoldout
    <2> QED
      BY <2>4 DEF PlansSpareHoldout, Idle, Untouched, Queued
  <1>4. ASSUME NEW p \in Procs, Commit(p) PROVE HoldoutUntouched' /\ PlansSpareHoldout'
    <2>1. ASSUME NEW r \in Losses, EntityOf(r) \in Holdout, NEW n \in DOMAIN attempts'[r]
          PROVE  Untouched(attempts'[r][n])
      <3>1. \A m \in DOMAIN attempts[r] : Untouched(attempts[r][m])
        BY <1>t, <2>1, HoldoutIdle
      <3>2. \A m \in DOMAIN txn[p].verdict[r].new : Untouched(txn[p].verdict[r].new[m])
        BY <1>t, <2>1 DEF PlansSpareHoldout, Idle
      <3> QED
        BY <1>4, <1>t, <3>1, <3>2, CommitAttempts
    <2>2. HoldoutUntouched'
      BY <2>1 DEF HoldoutUntouched, Untouched, Queued
    <2> QED
      BY <1>3, <1>4, <2>2 DEF Commit
  <1>5. ASSUME NEW p \in Procs, Rollback(p) PROVE HoldoutUntouched' /\ PlansSpareHoldout'
    <2>1. HoldoutUntouched'
      BY <1>5, <1>t DEF Rollback, HoldoutUntouched, Queued, bookVars
    <2> QED
      BY <1>3, <1>5, <2>1 DEF Rollback
  <1>6. ASSUME NEW r \in Losses, FailureEvent(r) \/ Sweep(r)
        PROVE  HoldoutUntouched' /\ PlansSpareHoldout'
    BY <1>k, <1>6 DEF FailureEvent, Sweep, OpenAtRisk
  <1>7. ASSUME NEW e \in Entities, OpenDispute(e) \/ CloseDispute(e) \/ Refund(e)
        PROVE  HoldoutUntouched' /\ PlansSpareHoldout'
    BY <1>k, <1>7 DEF OpenDispute, CloseDispute, Refund, bookVars
  <1>8. ASSUME NEW live, SwitchOn(live) PROVE HoldoutUntouched' /\ PlansSpareHoldout'
    BY <1>k, <1>8 DEF SwitchOn, bookVars
  <1>9. CASE Tick
    BY <1>k, <1>9 DEF Tick, bookVars
  <1>10. CASE UNCHANGED vars
    BY <1>k, <1>10 DEF vars, bookVars
  <1> QED
    BY <1>1, <1>2, <1>4, <1>5, <1>6, <1>7, <1>8, <1>9, <1>10 DEF Next

LEMMA HoldoutInit == Init => HoldoutInv
  <1> SUFFICES ASSUME Init PROVE HoldoutInv
    OBVIOUS
  <1>1. HoldoutUntouched
    <2>1. DOMAIN <<>> = {}
      OBVIOUS
    <2> QED
      BY <2>1 DEF Init, HoldoutUntouched
  <1>2. PlansSpareHoldout
    <2>1. \A p \in Procs, r \in Losses : txn[p].verdict[r].new = <<>>
      BY DEF Init, NoTxn, Unchanged
    <2> QED
      BY <2>1, NothingNew DEF PlansSpareHoldout
  <1> QED
    BY <1>1, <1>2, InitType DEF HoldoutInv

\* Nothing is ever queued or executed for a loss of the holdout, by the batch or by
\* the retries of the nudge cadence, however the sessions overlap.
THEOREM HoldoutStaysUntouched == Spec => []HoldoutUntouched
  <1>1. HoldoutInv => HoldoutUntouched
    BY DEF HoldoutInv
  <1> QED
    BY <1>1, HoldoutInit, HoldoutNext, PTL DEF Spec

-----------------------------------------------------------------------------
(* How the attempts of a loss grow.                                        *)

\* An attempt keeps its decision and its token, and stays as it is once it is executed
\* or refused; its window moves when it is sent.
Kept(r, a, b) ==
    /\ b.decidedAt = a.decidedAt /\ b.token = a.token
    /\ ~Queued(a) => b = a
    /\ b.executedAt \in {a.executedAt, clock}
    /\ \/ b.expiresAt = a.expiresAt
       \/ b.executedAt # Never /\ b.expiresAt = clock + Window[EntityOf(r)]

KeepsAttempts(r) ==
    /\ Len(attempts[r]) <= Len(attempts'[r])
    /\ \A n \in 1..Len(attempts[r]) : Kept(r, attempts[r][n], attempts'[r][n])

\* The attempts of a loss are a sequence, numbered from 1.
LEMMA AttemptsAre ==
    ASSUME TypeOK, NEW r \in Losses
    PROVE  /\ attempts[r] \in Seq(Attempt) /\ Len(attempts[r]) \in Nat
           /\ DOMAIN attempts[r] = 1..Len(attempts[r])
           /\ \A n \in 1..Len(attempts[r]) : attempts[r][n] \in Attempt
           /\ attempts[r] # <<>> => 1 \in 1..Len(attempts[r])
           /\ attempts[r] = <<>> => Len(attempts[r]) = 0
  <1>1. attempts[r] \in Seq(Attempt)
    BY DEF TypeOK
  <1>2. Len(attempts[r]) \in Nat /\ DOMAIN attempts[r] = 1..Len(attempts[r])
    BY <1>1, LenProperties
  <1>3. attempts[r] # <<>> => 1 \in 1..Len(attempts[r])
    BY <1>1, <1>2, EmptySeq
  <1> QED
    BY <1>1, <1>2, <1>3, ElementOfSeq

LEMMA SameKept ==
    ASSUME TypeOK, NEW r \in Losses, attempts'[r] = attempts[r]
    PROVE  KeepsAttempts(r)
  BY AttemptsAre DEF KeepsAttempts, Kept

\* What is sent or dropped.
LEMMA SendKeeps ==
    ASSUME TypeOK, NEW r \in Losses, Send(r) \/ DropQueued(r), NEW s \in Losses
    PROVE  KeepsAttempts(s) /\ Len(attempts'[s]) = Len(attempts[s])
  <1>1. CASE s # r
    <2>1. attempts'[s] = attempts[s]
      BY <1>1, SendElsewhere
    <2> QED
      BY <2>1, SameKept
  <1>2. CASE s = r
    <2>1. /\ attempts[r] \in Seq(Attempt) /\ Len(attempts[r]) \in Nat
          /\ DOMAIN attempts[r] = 1..Len(attempts[r])
          /\ \A n \in 1..Len(attempts[r]) : attempts[r][n] \in Attempt
      BY AttemptsAre
    <2>2. ASSUME NEW n \in 1..Len(attempts[r]), NEW a, Kept(r, attempts[r][n], a),
                 attempts'[r] = [attempts[r] EXCEPT ![n] = a]
          PROVE  KeepsAttempts(r) /\ Len(attempts'[r]) = Len(attempts[r])
      <3>1. Len([attempts[r] EXCEPT ![n] = a]) = Len(attempts[r])
        BY <2>1
      <3>2. \A m \in 1..Len(attempts[r]) :
               attempts'[r][m] = IF m = n THEN a ELSE attempts[r][m]
        BY <2>1, <2>2
      <3> QED
        BY <2>1, <2>2, <3>1, <3>2 DEF KeepsAttempts, Kept
    <2>3. CASE Send(r)
      <3>1. PICK n \in DOMAIN attempts[r] :
              /\ Queued(attempts[r][n])
              /\ attempts' = [attempts EXCEPT ![r][n].executedAt = clock,
                                              ![r][n].expiresAt = clock + Window[EntityOf(r)]]
        BY <2>3 DEF Send
      <3> DEFINE a == [attempts[r][n] EXCEPT !.executedAt = clock,
                                             !.expiresAt = clock + Window[EntityOf(r)]]
      <3>2. attempts[r][n] \in Attempt
        BY <2>1
      <3>3. Kept(r, attempts[r][n], a)
        <4>1. clock # Never
          BY ConstantTypes DEF TypeOK, Never
        <4> QED
          BY <3>1, <3>2, <4>1 DEF Kept, Attempt
      <3>4. attempts'[r] = [attempts[r] EXCEPT ![n] = a]
        BY <3>1 DEF TypeOK
      <3> HIDE DEF a
      <3> QED
        BY <1>2, <2>1, <2>2, <3>3, <3>4
    <2>4. CASE DropQueued(r)
      <3>1. PICK n \in DOMAIN attempts[r] :
              /\ Queued(attempts[r][n])
              /\ attempts' = [attempts EXCEPT ![r][n].reason = "dispatch_expired_unsent"]
        BY <2>4 DEF DropQueued
      <3> DEFINE a == [attempts[r][n] EXCEPT !.reason = "dispatch_expired_unsent"]
      <3>2. attempts[r][n] \in Attempt
        BY <2>1
      <3>3. Kept(r, attempts[r][n], a)
        BY <3>1, <3>2 DEF Kept, Attempt
      <3>4. attempts'[r] = [attempts[r] EXCEPT ![n] = a]
        BY <3>1 DEF TypeOK
      <3> HIDE DEF a
      <3> QED
        BY <1>2, <2>1, <2>2, <3>3, <3>4
    <2> QED
      BY <2>3, <2>4
  <1> QED
    BY <1>1, <1>2

\* The plan of a transaction that is written, row by row.
LEMMA CommitRows ==
    ASSUME TypeOK, NEW p \in Procs, Commit(p), NEW r \in Losses
    PROVE  LET v == txn[p].verdict[r] IN
           /\ status'[r] = IF v.status = Keep THEN status[r] ELSE v.status
           /\ outcome'[r] = IF v.outcome = NoOutcome THEN outcome[r] ELSE v.outcome
           /\ v.new = <<>> => attempts'[r] = attempts[r]
  <1> DEFINE v == txn[p].verdict[r]
  <1>1. /\ status'[r] = IF v.status = Keep THEN status[r] ELSE v.status
        /\ outcome'[r] = IF v.outcome = NoOutcome THEN outcome[r] ELSE v.outcome
        /\ attempts'[r] = attempts[r] \o v.new
    BY DEF Commit
  <1>2. attempts[r] \o <<>> = attempts[r]
    BY ConcatEmptySeq DEF TypeOK
  <1> HIDE DEF v
  <1>3. v.new = <<>> => attempts'[r] = attempts[r]
    BY <1>1, <1>2
  <1> QED
    BY <1>1, <1>3 DEF v

\* A commit appends what it planned, if it planned something.
LEMMA CommitKeeps ==
    ASSUME TypeOK, NEW p \in Procs, Commit(p), NEW r \in Losses
    PROVE  LET v == txn[p].verdict[r]
               k == Len(attempts[r]) + 1
           IN
           /\ KeepsAttempts(r)
           /\ \A n \in 1..Len(attempts[r]) : attempts'[r][n] = attempts[r][n]
           /\ v.new = <<>> => attempts'[r] = attempts[r]
           /\ \A a \in Attempt : v.new = <<a>> =>
                 Len(attempts'[r]) = k /\ attempts'[r][k] = a /\ v.number > Len(attempts[r])
  <1> DEFINE v == txn[p].verdict[r]
             k == Len(attempts[r]) + 1
  <1>1. /\ attempts[r] \in Seq(Attempt) /\ Len(attempts[r]) \in Nat
        /\ DOMAIN attempts[r] = 1..Len(attempts[r])
    BY AttemptsAre
  <1>2. v.new \in Seq(Attempt) /\ v.number \in Nat
    <2>1. v \in Verdict
      BY PlanType
    <2> HIDE DEF v
    <2> QED
      BY <2>1, ConstantTypes DEF Verdict
  <1>3. attempts'[r] = attempts[r] \o v.new
    BY DEF Commit
  <1>4. v.new # <<>> => ~(v.number <= Len(attempts[r]))
    BY DEF Commit, Conflicts
  <1>5. v.new = <<>> => attempts'[r] = attempts[r]
    BY CommitRows
  <1> HIDE DEF v
  <1>6. /\ Len(attempts'[r]) = Len(attempts[r]) + Len(v.new) /\ Len(v.new) \in Nat
        /\ \A n \in 1..Len(attempts[r]) : attempts'[r][n] = attempts[r][n]
    <2> DEFINE old == attempts[r]
               new == v.new
    <2>1. old \in Seq(Attempt) /\ new \in Seq(Attempt) /\ Len(old) \in Nat
      BY <1>1, <1>2
    <2> HIDE DEF old, new
    <2>2. Len(new) \in Nat
      BY <2>1, LenProperties
    <2>3. /\ Len(old \o new) = Len(old) + Len(new)
          /\ \A n \in 1..(Len(old) + Len(new)) :
                (old \o new)[n] = IF n <= Len(old) THEN old[n] ELSE new[n - Len(old)]
      BY <2>1, ConcatProperties
    <2>4. \A n \in 1..Len(old) : (old \o new)[n] = old[n]
      BY <2>1, <2>2, <2>3
    <2> QED
      BY <1>3, <2>2, <2>3, <2>4 DEF old, new
  <1>7. KeepsAttempts(r)
    <2>1. \A x : Kept(r, x, x)
      BY DEF Kept
    <2>2. \A n \in 1..Len(attempts[r]) : Kept(r, attempts[r][n], attempts'[r][n])
      BY <1>6, <2>1
    <2>3. Len(attempts[r]) <= Len(attempts'[r])
      <3>1. \A i, j \in Nat : i <= i + j
        OBVIOUS
      <3> QED
        BY <1>1, <1>6, <3>1
    <2> QED
      BY <2>2, <2>3 DEF KeepsAttempts
  <1>8. ASSUME NEW a \in Attempt, v.new = <<a>>
        PROVE  Len(attempts'[r]) = k /\ attempts'[r][k] = a /\ v.number > Len(attempts[r])
    <2>1. Len(<<a>>) = 1 /\ <<a>>[1] = a /\ <<a>> # <<>>
      OBVIOUS
    <2>2. Len(attempts'[r]) = k
      BY <1>6, <1>8, <2>1
    <2>3. (attempts[r] \o v.new)[k] = v.new[k - Len(attempts[r])]
      BY <1>1, <1>2, <1>8, <2>1, ConcatProperties
    <2>4. k - Len(attempts[r]) = 1
      BY <1>1
    <2>5. v.number > Len(attempts[r])
      BY <1>1, <1>2, <1>4, <1>8, <2>1
    <2> QED
      BY <1>3, <1>8, <2>1, <2>2, <2>3, <2>4, <2>5
  <1> QED
    BY <1>5, <1>6, <1>7, <1>8 DEF v

-----------------------------------------------------------------------------
(* What is acted on again, and what is credited.  A plan is worked out     *)
(* from rows that may have changed when it is written, so the facts it     *)
(* rests on are those that no other session can undo, or that make the     *)
(* unique index refuse it.                                                 *)

\* A payment for r came after an attempt was decided on, with its token or in its window.
Earned(r) ==
    \E n \in DOMAIN attempts[r], f \in Payers(r) :
        /\ paidAt[f] # Never /\ paidAt[f] >= attempts[r][n].decidedAt
        /\ paidToken[f] = <<r, n>> \/ paidAt[f] <= attempts[r][n].expiresAt

\* An attempt was decided before it was executed, and no earlier than the first one.
Timely(a) ==
    /\ 1 <= a.decidedAt /\ a.decidedAt <= clock
    /\ a.executedAt = Never \/ a.decidedAt <= a.executedAt

\* Until it is sent an attempt has the window of its decision.
FirstWindow(r, a) ==
    a.executedAt = Never => a.expiresAt = a.decidedAt + Window[EntityOf(r)]

AttemptsTimely ==
    \A r \in Losses : \A n \in DOMAIN attempts[r] :
        /\ Timely(attempts[r][n]) /\ FirstWindow(r, attempts[r][n])
        /\ attempts[r][1].decidedAt <= attempts[r][n].decidedAt

\* A loss is acted on again only after the window of a nudge that was sent.
RetriesFollowNudges ==
    \A r \in Losses : \A n, m \in DOMAIN attempts[r] :
        n < m => Untouched(attempts[r][n]) \/ Retry(r, m)

AllUntouched(r) == \A n \in DOMAIN attempts[r] : Untouched(attempts[r][n])

\* A plan to add attempt a to r as number n, leaving its row with a status.
PlanAdds(r, status1, n, a) ==
    /\ Timely(a) /\ FirstWindow(r, a)
    /\ n \in 1..(Len(attempts[r]) + 1)
    /\ n > 1 => attempts[r][1].decidedAt <= a.decidedAt
    /\ \/ n <= Len(attempts[r])
       \/ AllUntouched(r) /\ (status1 # "IN_RECOVERY" => Untouched(a))
       \/ status1 = Keep /\ \E k \in SentNudges(r) : attempts[r][k].expiresAt < a.decidedAt

PlanHolds(r, v) ==
    /\ v.status \notin {"ABSENT", "OPEN"}
    /\ v.status = "SUPPRESSED" => v.new # <<>>
    /\ v.outcome = "RECOVERED" => Earned(r)
    /\ v.new # <<>> => v.new = <<v.new[1]>> /\ PlanAdds(r, v.status, v.number, v.new[1])

PlansHold == \A p \in Procs, r \in Losses : PlanHolds(r, txn[p].verdict[r])

\* A token that comes with a payment of f names an attempt on a loss of f that was decided
\* on before.
TokenTimely(f, token, at) ==
    token # NoToken =>
        /\ token[1] \in Losses /\ EntityOf(token[1]) = f
        /\ token[2] \in DOMAIN attempts[token[1]]
        /\ attempts[token[1]][token[2]].decidedAt <= at

TokensTimely ==
    /\ \A f \in Entities : TokenTimely(f, paidToken[f], paidAt[f])
    /\ \A p \in Procs : TokenTimely(txn[p].paid, txn[p].token, txn[p].at)

\* A payment that is being taken up is not there yet, and one session has it.
TakenUpOnce ==
    \A p \in Procs : txn[p].paid \in Entities =>
        /\ paidAt[txn[p].paid] = Never
        /\ \A q \in Procs : txn[q].paid = txn[p].paid => q = p

EvidenceInv ==
    /\ TypeOK /\ AttemptsTimely /\ RetriesFollowNudges /\ PlansHold /\ TokensTimely
    /\ TakenUpOnce /\ ActedOnLeavesOpen /\ CreditIsEarned

\* What a plan is worked out from.
Worked(r, v) ==
    /\ v = Unchanged \/ outcome[r] = NoOutcome \/ status[r] = "OPEN" \/ attempts[r] = <<>>
    /\ v.status \notin {"ABSENT", "OPEN"}
    /\ v.status \in {"SUPPRESSED", "IN_RECOVERY"} => v.new # <<>>
    /\ v.outcome = "RECOVERED" => attempts[r] # <<>> /\ (TokenMatch(r) \/ WindowMatch(r))
    /\ v.outcome = "EXPIRED" => attempts[r] # <<>>
    /\ v.outcome = "NOT_RECOVERED" =>
          SentNudges(r) # {} /\ Cardinality(SentNudges(r)) >= MaxTries
    /\ v.new # <<>> =>
          /\ v.number = Len(attempts[r]) + 1
          /\ \E a \in Attempt :
                /\ v.new = <<a>> /\ a.decidedAt = clock /\ a.executedAt \in {Never, clock}
                /\ FirstWindow(r, a)
                /\ \/ status[r] = "OPEN" /\ (v.status # "IN_RECOVERY" => Untouched(a))
                   \/ /\ v.status = Keep
                      /\ \E k \in SentNudges(r) : attempts[r][k].expiresAt < clock

LEMMA UnchangedWorked == \A r \in Losses : Worked(r, Unchanged)
  BY DEF Worked, Unchanged, Keep, NoOutcome

LEMMA BatchWorked ==
    ASSUME TypeOK, NEW r \in Losses, r \in Candidates, NEW answer \in ChannelAnswers
    PROVE  Worked(r, BatchVerdict(r, answer))
  <1> DEFINE e == EntityOf(r)
             n == Len(attempts[r]) + 1
             action == Decide(Kind[e], Failure[e], n, e \in Revoked,
                              Value[e] >= ReviewThreshold)
             a == NewAttempt(e, action, answer)
             v == BatchVerdict(r, answer)
  <1>1. e \in Entities /\ action \in Actions
    BY LossEntity, DecideType
  <1>2. a \in Attempt /\ (~Authorised(a) => Untouched(a))
    <2> HIDE DEF e, action
    <2> QED
      BY <1>1, AttemptType
  <1>3. a.decidedAt = clock /\ a.executedAt \in {Never, clock} /\ FirstWindow(r, a)
    BY DEF NewAttempt, FirstWindow
  <1>4. v = [Unchanged EXCEPT
                !.number = n, !.new = <<a>>,
                !.status = IF Authorised(a) THEN "IN_RECOVERY"
                           ELSE IF a.reason \in TerminalReasons THEN "SUPPRESSED" ELSE Keep]
    BY DEF BatchVerdict
  <1>5. status[r] = "OPEN"
    BY DEF Candidates
  <1> HIDE DEF e, n, action, a, v
  <1>6. /\ v.number = n /\ v.new = <<a>> /\ v.outcome = NoOutcome
        /\ v.status = IF Authorised(a) THEN "IN_RECOVERY"
                      ELSE IF a.reason \in TerminalReasons THEN "SUPPRESSED" ELSE Keep
    BY <1>4 DEF Unchanged
  <1>7. <<a>> # <<>>
    OBVIOUS
  <1>8. v.status \in {"IN_RECOVERY", "SUPPRESSED", Keep} /\ v.outcome \notin Outcomes
        /\ (v.status # "IN_RECOVERY" => Untouched(a))
    BY <1>2, <1>6 DEF NoOutcome, Outcomes
  <1> QED
    BY <1>2, <1>3, <1>5, <1>6, <1>7, <1>8 DEF Worked, Keep, Outcomes, n, v

LEMMA AttributionWorked ==
    ASSUME NEW r \in Losses, NEW asOf
    PROVE  Worked(r, AttributionVerdict(r, asOf))
  BY UnchangedWorked DEF AttributionVerdict, Undecided, Worked, Unchanged, NoOutcome

LEMMA SuccessWorked ==
    ASSUME NEW r \in Losses, NEW e
    PROVE  Worked(r, SuccessVerdict(r, e))
  BY UnchangedWorked DEF SuccessVerdict, Worked, Unchanged, NoOutcome

LEMMA NudgeWorked ==
    ASSUME TypeOK, NEW r \in Losses, NEW answer \in ChannelAnswers
    PROVE  Worked(r, NudgeVerdict(r, answer))
  <1> DEFINE v == NudgeVerdict(r, answer)
             n == Len(attempts[r]) + 1
             a == NewAttempt(EntityOf(r), LatestNudge(r).action, answer)
  <1>1. CASE v = Unchanged
    BY <1>1, UnchangedWorked
  <1>2. CASE /\ Undecided(r) /\ SentNudges(r) # {} /\ Cardinality(SentNudges(r)) >= MaxTries
             /\ v = [Unchanged EXCEPT !.status = "LOST", !.outcome = "NOT_RECOVERED"]
    <2> HIDE DEF v
    <2>1. v.status = "LOST" /\ v.outcome = "NOT_RECOVERED" /\ v.new = <<>>
      BY <1>2 DEF Unchanged
    <2> QED
      BY <1>2, <2>1 DEF Worked, Undecided, v
  <1>3. CASE /\ Undecided(r) /\ SentNudges(r) # {} /\ ~(LatestNudge(r).expiresAt >= clock)
             /\ v = [Unchanged EXCEPT !.number = n, !.new = <<a>>]
    <2>1. LatestNudge(r) \in Attempt
      BY <1>3, LatestType
    <2>2. /\ a \in Attempt /\ a.decidedAt = clock /\ a.executedAt \in {Never, clock}
          /\ FirstWindow(r, a)
      <3>1. a.decidedAt = clock /\ a.executedAt \in {Never, clock} /\ FirstWindow(r, a)
        BY DEF NewAttempt, FirstWindow
      <3>2. EntityOf(r) \in Entities /\ LatestNudge(r).action \in Actions
        BY <2>1, LossEntity DEF Attempt
      <3> QED
        BY <3>1, <3>2, AttemptType
    <2>3. \E k \in SentNudges(r) : attempts[r][k].expiresAt < clock
      <3>1. Len(attempts[r]) \in Nat /\ SentNudges(r) \in SUBSET (1..Len(attempts[r]))
        BY AttemptsAre DEF SentNudges
      <3>2. \E k \in SentNudges(r) : \A m \in SentNudges(r) : m <= k
        BY <1>3, <3>1, LastExists
      <3>3. PICK k \in SentNudges(r) : LatestNudge(r) = attempts[r][k]
        BY <3>2 DEF LatestNudge
      <3>4. LatestNudge(r).expiresAt \in Nat /\ clock \in Nat
        BY <2>1, ConstantTypes DEF Attempt, TypeOK
      <3> QED
        BY <1>3, <3>3, <3>4
    <2> HIDE DEF v, a, n
    <2>4. /\ v.status = Keep /\ v.outcome = NoOutcome /\ v.number = n /\ v.new = <<a>>
          /\ <<a>> # <<>>
      BY <1>3 DEF Unchanged
    <2> QED
      BY <1>3, <2>2, <2>3, <2>4 DEF Worked, Undecided, Keep, NoOutcome, n, v
  <1> QED
    BY <1>1, <1>2, <1>3 DEF NudgeVerdict

\* A transaction is opened with a plan that was worked out, for a payment that is new, and
\* with a token that was sent before.
OpensWorked(p) ==
    \E verdict \in [Losses -> Verdict], paid \in Entities \cup {Nobody}, token \in Tokens,
       at \in Nat :
        /\ Begin(p, verdict, paid, token, at)
        /\ \A r \in Losses : Sound(r, verdict[r]) /\ Worked(r, verdict[r])
        /\ paid \in Entities => Unpaid(paid)
        /\ TokenTimely(paid, token, at)

LEMMA BeginWorked ==
    ASSUME NEW p \in Procs, NEW v, NEW paid \in Entities \cup {Nobody}, NEW token \in Tokens,
           NEW at \in Nat,
           v = [r \in Losses |-> v[r]],
           \A r \in Losses : Sound(r, v[r]) /\ Worked(r, v[r]),
           paid \in Entities => Unpaid(paid),
           TokenTimely(paid, token, at),
           Begin(p, v, paid, token, at)
    PROVE  OpensWorked(p)
  <1>1. v \in [Losses -> Verdict]
    BY DEF Sound
  <1> QED
    BY <1>1 DEF OpensWorked

\* A sweep opens with what it worked out, for nobody's payment, or writes nothing.
LEMMA SweepWorked ==
    ASSUME NEW p \in Procs, NEW v,
           v = [r \in Losses |-> v[r]],
           \A r \in Losses : Sound(r, v[r]) /\ Worked(r, v[r]),
           BeginSweep(p, v)
    PROVE  OpensWorked(p) \/ UNCHANGED <<othersVars, txn>>
  <1>1. CASE Begin(p, v, Nobody, NoToken, Never)
    BY <1>1, NoOnePays, ConstantTypes, BeginWorked DEF TokenTimely
  <1>2. CASE UNCHANGED <<clock, bookVars, eventVars, switchVars, txn>>
    BY <1>2 DEF othersVars
  <1> QED
    BY <1>1, <1>2 DEF BeginSweep

LEMMA BatchOpensWorked ==
    ASSUME TypeOK, NEW p \in Procs, BeginBatch(p)
    PROVE  OpensWorked(p)
  <1>1. PICK rows \in SUBSET Candidates, answer \in [Entities -> ChannelAnswers] :
            Begin(p, [r \in Losses |-> IF r \in rows
                                       THEN BatchVerdict(r, answer[EntityOf(r)])
                                       ELSE Unchanged],
                  Nobody, NoToken, Never)
    BY DEF BeginBatch
  <1> DEFINE v == [r \in Losses |-> IF r \in rows
                                    THEN BatchVerdict(r, answer[EntityOf(r)])
                                    ELSE Unchanged]
  <1>2. \A r \in Losses : Sound(r, v[r]) /\ Worked(r, v[r])
    <2> SUFFICES ASSUME NEW r \in Losses PROVE Sound(r, v[r]) /\ Worked(r, v[r])
      OBVIOUS
    <2>1. CASE r \in rows
      <3>1. answer[EntityOf(r)] \in ChannelAnswers
        BY LossEntity
      <3> QED
        BY <2>1, <3>1, BatchSound, BatchWorked
    <2>2. CASE r \notin rows
      BY <2>2, UnchangedSound, UnchangedWorked
    <2> QED
      BY <2>1, <2>2
  <1>3. v = [r \in Losses |-> v[r]] /\ Begin(p, v, Nobody, NoToken, Never)
    BY <1>1
  <1> HIDE DEF v
  <1> QED
    BY <1>2, <1>3, NoOnePays, ConstantTypes, BeginWorked DEF TokenTimely

LEMMA AttributionOpensWorked ==
    ASSUME NEW p \in Procs, BeginAttribution(p)
    PROVE  OpensWorked(p) \/ UNCHANGED <<othersVars, txn>>
  <1>1. PICK asOf : BeginSweep(p, [r \in Losses |-> AttributionVerdict(r, asOf)])
    BY DEF BeginAttribution
  <1> DEFINE v == [r \in Losses |-> AttributionVerdict(r, asOf)]
  <1>2. \A r \in Losses : Sound(r, v[r]) /\ Worked(r, v[r])
    BY AttributionSound, AttributionWorked
  <1>3. v = [r \in Losses |-> v[r]] /\ BeginSweep(p, v)
    BY <1>1
  <1> HIDE DEF v
  <1> QED
    BY <1>2, <1>3, SweepWorked

LEMMA NudgesOpenWorked ==
    ASSUME TypeOK, NEW p \in Procs, BeginNudges(p)
    PROVE  OpensWorked(p) \/ UNCHANGED <<othersVars, txn>>
  <1>1. PICK answer \in [Entities -> ChannelAnswers] :
            LET verdict == [r \in Losses |-> NudgeVerdict(r, answer[EntityOf(r)])] IN
            /\ \A r \in Losses : verdict[r].number <= MaxAttempts
            /\ BeginSweep(p, verdict)
    BY DEF BeginNudges
  <1> DEFINE v == [r \in Losses |-> NudgeVerdict(r, answer[EntityOf(r)])]
  <1>2. \A r \in Losses : Sound(r, v[r]) /\ Worked(r, v[r])
    <2> SUFFICES ASSUME NEW r \in Losses PROVE Sound(r, v[r]) /\ Worked(r, v[r])
      OBVIOUS
    <2>1. answer[EntityOf(r)] \in ChannelAnswers
      BY LossEntity
    <2>2. NudgeVerdict(r, answer[EntityOf(r)]).number <= MaxAttempts
      BY <1>1
    <2> QED
      BY <2>1, <2>2, NudgeSound, NudgeWorked
  <1>3. v = [r \in Losses |-> v[r]] /\ BeginSweep(p, v)
    BY <1>1
  <1> HIDE DEF v
  <1> QED
    BY <1>2, <1>3, SweepWorked

LEMMA SuccessOpensWorked ==
    ASSUME TypeOK, AttemptsTimely, NEW p \in Procs, BeginSuccess(p)
    PROVE  OpensWorked(p)
  <1>1. PICK e \in Entities, at \in 1..clock :
            /\ Unpaid(e)
            /\ \E token \in TokensFor(e, at) :
                  Begin(p, [r \in Losses |-> SuccessVerdict(r, e)], e, token, at)
    BY DEF BeginSuccess
  <1>2. PICK token \in TokensFor(e, at) :
            Begin(p, [r \in Losses |-> SuccessVerdict(r, e)], e, token, at)
    BY <1>1
  <1> DEFINE v == [r \in Losses |-> SuccessVerdict(r, e)]
  <1>3. \A r \in Losses : Sound(r, v[r]) /\ Worked(r, v[r])
    BY SuccessSound, SuccessWorked
  <1>4. v = [r \in Losses |-> v[r]] /\ Begin(p, v, e, token, at)
    BY <1>2
  <1>5. token \in Tokens /\ e \in Entities \cup {Nobody} /\ at \in Nat
    BY ConstantTypes DEF TokensFor, Tokens, TypeOK
  <1>6. TokenTimely(e, token, at)
    <2> SUFFICES ASSUME token # NoToken
                 PROVE  /\ token[1] \in Losses /\ EntityOf(token[1]) = e
                        /\ token[2] \in DOMAIN attempts[token[1]]
                        /\ attempts[token[1]][token[2]].decidedAt <= at
      BY DEF TokenTimely
    <2> DEFINE r == token[1]
               n == token[2]
    <2>1. /\ r \in Losses /\ EntityOf(r) = e
          /\ n \in SentNudges(r) /\ attempts[r][n].executedAt <= at
      BY DEF TokensFor
    <2>2. n \in DOMAIN attempts[r] /\ attempts[r][n].executedAt # Never
      BY <2>1 DEF SentNudges
    <2> HIDE DEF r, n
    <2>3. attempts[r][n] \in Attempt
      BY <2>1, <2>2, AttemptsAre
    <2>4. attempts[r][n].decidedAt <= attempts[r][n].executedAt
      BY <2>1, <2>2 DEF AttemptsTimely, Timely
    <2>5. attempts[r][n].decidedAt \in Nat /\ attempts[r][n].executedAt \in Nat
      BY <2>3 DEF Attempt
    <2>6. attempts[r][n].decidedAt <= at
      BY <1>5, <2>1, <2>4, <2>5
    <2> QED
      BY <2>1, <2>2, <2>6 DEF r, n
  <1> HIDE DEF v
  <1> QED
    BY <1>1, <1>3, <1>4, <1>5, <1>6, BeginWorked

LEMMA SimulateOpensWorked ==
    ASSUME TypeOK, AttemptsTimely, NEW p \in Procs, SimulateReply(p)
    PROVE  OpensWorked(p)
  <1> DEFINE e(r) == EntityOf(r)
             n(r) == Len(attempts[r])
             a(r) == attempts[r][n(r)]
             From(r) == IF a(r).executedAt = Never THEN a(r).decidedAt ELSE a(r).executedAt
             TokenOf(r) == IF a(r).token THEN <<r, n(r)>> ELSE NoToken
  <1>1. PICK r \in Losses :
            /\ attempts[r] # <<>> /\ Unpaid(e(r))
            /\ \E at \in From(r)..a(r).expiresAt :
                  Begin(p, [s \in Losses |-> SuccessVerdict(s, e(r))], e(r), TokenOf(r), at)
    BY DEF SimulateReply
  <1>2. PICK at \in From(r)..a(r).expiresAt :
            Begin(p, [s \in Losses |-> SuccessVerdict(s, e(r))], e(r), TokenOf(r), at)
    BY <1>1
  <1>3. n(r) \in DOMAIN attempts[r] /\ a(r) \in Attempt /\ n(r) \in Nat
    <2>1. /\ Len(attempts[r]) \in Nat /\ 1 \in 1..Len(attempts[r])
          /\ DOMAIN attempts[r] = 1..Len(attempts[r])
          /\ \A k \in 1..Len(attempts[r]) : attempts[r][k] \in Attempt
      BY <1>1, AttemptsAre
    <2> QED
      BY <2>1
  <1>4. Timely(a(r))
    BY <1>3 DEF AttemptsTimely
  <1>5. a(r).decidedAt \in Nat /\ a(r).executedAt \in Nat /\ a(r).expiresAt \in Nat
    BY <1>3 DEF Attempt
  <1>6. at \in Nat /\ a(r).decidedAt <= at
    <2>1. From(r) \in Nat /\ a(r).decidedAt <= From(r)
      BY <1>4, <1>5 DEF Timely
    <2> QED
      BY <1>5, <2>1
  <1>7. TokenOf(r) \in Tokens /\ e(r) \in Entities \cup {Nobody}
    BY <1>3, LossEntity DEF Tokens
  <1>8. TokenTimely(e(r), TokenOf(r), at)
    BY <1>3, <1>6 DEF TokenTimely
  <1> DEFINE v == [s \in Losses |-> SuccessVerdict(s, e(r))]
  <1>9. \A s \in Losses : Sound(s, v[s]) /\ Worked(s, v[s])
    BY SuccessSound, SuccessWorked
  <1>10. v = [s \in Losses |-> v[s]] /\ Begin(p, v, e(r), TokenOf(r), at)
    BY <1>2
  <1> HIDE DEF v, TokenOf, e
  <1> QED
    BY <1>1, <1>6, <1>7, <1>8, <1>9, <1>10, BeginWorked

\* The five together.
LEMMA BeginsWorked ==
    ASSUME TypeOK, AttemptsTimely, NEW p \in Procs,
           BeginBatch(p) \/ BeginAttribution(p) \/ BeginNudges(p)
               \/ BeginSuccess(p) \/ SimulateReply(p)
    PROVE  OpensWorked(p) \/ UNCHANGED <<othersVars, txn>>
  BY BatchOpensWorked, AttributionOpensWorked, NudgesOpenWorked, SuccessOpensWorked,
     SimulateOpensWorked

\* A step that writes nothing the plans rest on.
Idles == clock <= clock' /\ UNCHANGED <<bookVars, paidAt, paidToken, txn>>

LEMMA StepCases ==
    ASSUME TypeOK, AttemptsTimely, [Next]_vars
    PROVE  \/ \E r \in Losses : Send(r) \/ DropQueued(r)
           \/ \E p \in Procs : OpensWorked(p)
           \/ \E p \in Procs : Commit(p)
           \/ \E p \in Procs : Rollback(p)
           \/ \E r \in Losses : OpenAtRisk(r)
           \/ Idles
  <1>1. clock \in Nat
    BY ConstantTypes DEF TypeOK
  <1>2. ASSUME UNCHANGED <<clock, bookVars, paidAt, paidToken, txn>> PROVE Idles
    BY <1>1, <1>2 DEF Idles
  <1>3. ASSUME NEW r \in Losses, FailureEvent(r) \/ Sweep(r) PROVE OpenAtRisk(r)
    BY <1>3 DEF FailureEvent, Sweep
  <1>4. ASSUME NEW p \in Procs,
               BeginBatch(p) \/ BeginAttribution(p) \/ BeginNudges(p)
               \/ BeginSuccess(p) \/ SimulateReply(p)
        PROVE  OpensWorked(p) \/ Idles
    <2>1. OpensWorked(p) \/ UNCHANGED <<othersVars, txn>>
      BY <1>4, BeginsWorked
    <2> QED
      BY <1>2, <2>1 DEF othersVars, eventVars
  <1>5. ASSUME NEW e \in Entities, OpenDispute(e) \/ CloseDispute(e) \/ Refund(e) PROVE Idles
    BY <1>2, <1>5 DEF OpenDispute, CloseDispute, Refund
  <1>6. ASSUME NEW live, SwitchOn(live) PROVE Idles
    BY <1>2, <1>6 DEF SwitchOn, eventVars
  <1>7. CASE Tick
    <2>1. clock' = clock + 1 /\ UNCHANGED <<bookVars, paidAt, paidToken, txn>>
      BY <1>7 DEF Tick, eventVars
    <2> QED
      BY <1>1, <2>1 DEF Idles
  <1>8. CASE UNCHANGED vars
    BY <1>2, <1>8 DEF vars, eventVars
  <1> QED
    BY <1>3, <1>4, <1>5, <1>6, <1>7, <1>8 DEF Next

\* What no step takes back: the time, an attempt's decision, a payment's time.
Grows ==
    /\ clock <= clock'
    /\ \A r \in Losses : KeepsAttempts(r)
    /\ \A f \in Entities :
          paidAt[f] # Never => paidAt'[f] = paidAt[f] /\ paidToken'[f] = paidToken[f]

LEMMA StepGrows ==
    ASSUME TypeOK, AttemptsTimely, TakenUpOnce, [Next]_vars
    PROVE  Grows
  <1>1. clock \in Nat
    BY ConstantTypes DEF TypeOK
  <1>2. ASSUME clock <= clock', UNCHANGED <<attempts, paidAt, paidToken>> PROVE Grows
    BY <1>2, SameKept DEF Grows
  <1>3. ASSUME NEW r \in Losses, Send(r) \/ DropQueued(r) PROVE Grows
    <2>1. UNCHANGED <<clock, paidAt, paidToken>>
      BY <1>3, SendCases DEF eventVars
    <2>2. \A s \in Losses : KeepsAttempts(s)
      BY <1>3, SendKeeps
    <2> QED
      BY <1>1, <2>1, <2>2 DEF Grows
  <1>4. ASSUME NEW p \in Procs, OpensWorked(p) PROVE Grows
    <2>1. UNCHANGED <<clock, attempts, paidAt, paidToken>>
      BY <1>4 DEF OpensWorked, Begin, bookVars, eventVars
    <2> QED
      BY <1>1, <1>2, <2>1
  <1>5. ASSUME NEW p \in Procs, Commit(p) PROVE Grows
    <2>1. /\ UNCHANGED clock
          /\ \A f \in Entities : paidAt'[f] = IF f = txn[p].paid THEN txn[p].at ELSE paidAt[f]
          /\ \A f \in Entities : paidToken'[f] = IF f = txn[p].paid THEN txn[p].token
                                                                 ELSE paidToken[f]
      BY <1>5 DEF Commit
    <2>2. \A f \in Entities :
             paidAt[f] # Never => paidAt'[f] = paidAt[f] /\ paidToken'[f] = paidToken[f]
      BY <2>1 DEF TakenUpOnce
    <2>3. \A r \in Losses : KeepsAttempts(r)
      BY <1>5, CommitKeeps
    <2> QED
      BY <1>1, <2>1, <2>2, <2>3 DEF Grows
  <1>6. ASSUME NEW p \in Procs, Rollback(p) PROVE Grows
    <2>1. UNCHANGED <<clock, attempts, paidAt, paidToken>>
      BY <1>6 DEF Rollback, bookVars, eventVars
    <2> QED
      BY <1>1, <1>2, <2>1
  <1>7. ASSUME NEW r \in Losses, OpenAtRisk(r) PROVE Grows
    <2>1. UNCHANGED <<clock, attempts, paidAt, paidToken>>
      BY <1>7 DEF OpenAtRisk, eventVars
    <2> QED
      BY <1>1, <1>2, <2>1
  <1>8. CASE Idles
    BY <1>2, <1>8 DEF Idles, bookVars
  <1> QED
    BY <1>3, <1>4, <1>5, <1>6, <1>7, <1>8, StepCases

\* The attempts of a loss after a step, one by one.
LEMMA GrownAttempts ==
    ASSUME TypeOK, TypeOK', Grows, NEW r \in Losses
    PROVE  /\ Len(attempts[r]) \in Nat /\ Len(attempts'[r]) \in Nat
           /\ Len(attempts[r]) <= Len(attempts'[r])
           /\ DOMAIN attempts[r] = 1..Len(attempts[r])
           /\ DOMAIN attempts'[r] = 1..Len(attempts'[r])
           /\ \A n \in DOMAIN attempts[r] :
                 /\ n \in DOMAIN attempts'[r]
                 /\ attempts[r][n] \in Attempt /\ attempts'[r][n] \in Attempt
                 /\ Kept(r, attempts[r][n], attempts'[r][n])
  <1> DEFINE N == Len(attempts[r])
             M == Len(attempts'[r])
  <1>1. /\ N \in Nat /\ DOMAIN attempts[r] = 1..N
        /\ \A n \in 1..N : attempts[r][n] \in Attempt
    BY AttemptsAre
  <1>2. attempts'[r] \in Seq(Attempt)
    BY DEF TypeOK
  <1>3. M \in Nat /\ DOMAIN attempts'[r] = 1..M /\ \A n \in 1..M : attempts'[r][n] \in Attempt
    BY <1>2, LenProperties, ElementOfSeq
  <1>4. N <= M /\ \A n \in 1..N : Kept(r, attempts[r][n], attempts'[r][n])
    BY DEF Grows, KeepsAttempts
  <1> HIDE DEF N, M
  <1>5. 1..N \subseteq 1..M
    BY <1>1, <1>3, <1>4
  <1> QED
    BY <1>1, <1>3, <1>4, <1>5 DEF N, M

\* The first decision on a loss stands.
LEMMA FirstStands ==
    ASSUME TypeOK, TypeOK', Grows, NEW r \in Losses, attempts[r] # <<>>
    PROVE  attempts'[r] # <<>> /\ attempts'[r][1].decidedAt = attempts[r][1].decidedAt
  <1>1. 1 \in DOMAIN attempts[r]
    BY AttemptsAre
  <1>2. 1 \in DOMAIN attempts'[r] /\ Kept(r, attempts[r][1], attempts'[r][1])
    BY <1>1, GrownAttempts
  <1>3. DOMAIN <<>> = {}
    OBVIOUS
  <1> QED
    BY <1>2, <1>3 DEF Kept

\* A window that a payment was in is not moved away from it.
LEMMA WindowStands ==
    ASSUME TypeOK, TypeOK', AttemptsTimely, Grows, NEW r \in Losses,
           NEW n \in DOMAIN attempts[r]
    PROVE  attempts[r][n].expiresAt <= attempts'[r][n].expiresAt
  <1> DEFINE a == attempts[r][n]
             b == attempts'[r][n]
             w == Window[EntityOf(r)]
  <1>1. Kept(r, a, b) /\ a \in Attempt /\ b \in Attempt
    BY GrownAttempts
  <1>2. clock \in Nat /\ w \in Nat
    BY ConstantTypes, LossEntity DEF TypeOK
  <1>3. Timely(a) /\ FirstWindow(r, a)
    BY DEF AttemptsTimely
  <1>4. a.decidedAt \in Nat /\ a.expiresAt \in Nat
    BY <1>1 DEF Attempt
  <1> HIDE DEF a, b
  <1>5. CASE b.expiresAt = a.expiresAt
    BY <1>4, <1>5 DEF a, b
  <1>6. CASE b.expiresAt = clock + w /\ Queued(a)
    <2>1. a.decidedAt <= clock /\ a.expiresAt = a.decidedAt + w
      BY <1>3, <1>6 DEF Queued, Timely, FirstWindow
    <2>2. a.expiresAt <= b.expiresAt
      <3> HIDE DEF w
      <3> QED
        BY <1>2, <1>4, <1>6, <2>1
    <2> QED
      BY <2>2 DEF a, b
  <1> QED
    BY <1>1, <1>5, <1>6 DEF Kept

LEMMA EarnedStands ==
    ASSUME TypeOK, TypeOK', AttemptsTimely, Grows, NEW r \in Losses, Earned(r)
    PROVE  Earned(r)'
  <1>1. PICK n \in DOMAIN attempts[r], f \in Payers(r) :
          /\ paidAt[f] # Never /\ paidAt[f] >= attempts[r][n].decidedAt
          /\ paidToken[f] = <<r, n>> \/ paidAt[f] <= attempts[r][n].expiresAt
    BY DEF Earned
  <1>2. f \in Entities /\ paidAt[f] \in Nat
    BY LossEntity DEF Payers, TypeOK
  <1>3. paidAt'[f] = paidAt[f] /\ paidToken'[f] = paidToken[f]
    BY <1>1, <1>2 DEF Grows
  <1>4. /\ n \in DOMAIN attempts'[r]
        /\ attempts'[r][n].decidedAt = attempts[r][n].decidedAt
        /\ attempts[r][n].expiresAt \in Nat /\ attempts'[r][n].expiresAt \in Nat
    BY GrownAttempts DEF Kept, Attempt
  <1>5. attempts[r][n].expiresAt <= attempts'[r][n].expiresAt
    BY WindowStands
  <1>6. paidAt[f] <= attempts[r][n].expiresAt => paidAt[f] <= attempts'[r][n].expiresAt
    BY <1>2, <1>4, <1>5
  <1>7. f \in Payers(r)'
    BY DEF Payers
  <1> QED
    BY <1>1, <1>3, <1>4, <1>6, <1>7 DEF Earned

LEMMA TokenStands ==
    ASSUME TypeOK, TypeOK', Grows, NEW f, NEW token, NEW at, TokenTimely(f, token, at)
    PROVE  TokenTimely(f, token, at)'
  <1> SUFFICES ASSUME token # NoToken
               PROVE  /\ token[1] \in Losses /\ EntityOf(token[1]) = f
                      /\ token[2] \in DOMAIN attempts'[token[1]]
                      /\ attempts'[token[1]][token[2]].decidedAt <= at
    BY DEF TokenTimely
  <1>1. /\ token[1] \in Losses /\ EntityOf(token[1]) = f
        /\ token[2] \in DOMAIN attempts[token[1]]
        /\ attempts[token[1]][token[2]].decidedAt <= at
    BY DEF TokenTimely
  <1> QED
    BY <1>1, GrownAttempts DEF Kept

\* A nudge that was sent stays as it was sent.
LEMMA SentStands ==
    ASSUME TypeOK, TypeOK', Grows, NEW r \in Losses, NEW k \in SentNudges(r)
    PROVE  k \in SentNudges(r)' /\ attempts'[r][k] = attempts[r][k]
  <1>1. k \in DOMAIN attempts[r] /\ attempts[r][k].token /\ attempts[r][k].executedAt # Never
    BY DEF SentNudges
  <1>2. k \in DOMAIN attempts'[r] /\ Kept(r, attempts[r][k], attempts'[r][k])
    BY <1>1, GrownAttempts
  <1>3. attempts'[r][k] = attempts[r][k]
    BY <1>1, <1>2 DEF Kept, Queued
  <1> QED
    BY <1>1, <1>2, <1>3 DEF SentNudges

\* What has reached nobody and will not stays so.
LEMMA UntouchedStands ==
    ASSUME TypeOK, TypeOK', Grows, NEW r \in Losses, NEW n \in DOMAIN attempts[r],
           Untouched(attempts[r][n])
    PROVE  attempts'[r][n] = attempts[r][n]
  <1>1. Kept(r, attempts[r][n], attempts'[r][n])
    BY GrownAttempts
  <1> QED
    BY <1>1 DEF Kept, Untouched

\* A plan holds on, or its number is taken.
LEMMA PlanStands ==
    ASSUME TypeOK, TypeOK', AttemptsTimely, Grows, NEW r \in Losses, NEW v \in Verdict,
           PlanHolds(r, v)
    PROVE  PlanHolds(r, v)'
  <1> DEFINE N == Len(attempts[r])
             M == Len(attempts'[r])
             a == v.new[1]
             n == v.number
  <1>1. v.outcome = "RECOVERED" => Earned(r)'
    BY EarnedStands DEF PlanHolds
  <1>2. ASSUME v.new # <<>> PROVE PlanAdds(r, v.status, n, a)'
    <2>1. /\ Timely(a) /\ FirstWindow(r, a) /\ n \in 1..(N + 1)
          /\ n > 1 => attempts[r][1].decidedAt <= a.decidedAt
          /\ \/ n <= N
             \/ AllUntouched(r) /\ (v.status # "IN_RECOVERY" => Untouched(a))
             \/ /\ v.status = Keep
                /\ \E k \in SentNudges(r) : attempts[r][k].expiresAt < a.decidedAt
      BY <1>2 DEF PlanHolds, PlanAdds
    <2>2. a \in Attempt
      <3>1. v.new \in Seq(Attempt) /\ v.new = <<a>>
        BY <1>2 DEF Verdict, PlanHolds
      <3>2. Len(<<a>>) = 1 /\ <<a>>[1] = a
        OBVIOUS
      <3> HIDE DEF a
      <3> QED
        BY <3>1, <3>2, ElementOfSeq
    <2> HIDE DEF a, n
    <2>3. Timely(a)'
      <3>1. clock \in Nat /\ clock' \in Nat /\ a.decidedAt \in Nat /\ clock <= clock'
        BY <2>2, ConstantTypes DEF TypeOK, Attempt, Grows
      <3>2. a.decidedAt <= clock'
        BY <2>1, <3>1 DEF Timely
      <3> QED
        BY <2>1, <3>2 DEF Timely
    <2>4. N \in Nat /\ M \in Nat /\ N <= M
      BY GrownAttempts
    <2>5. n \in 1..(M + 1)
      <3> HIDE DEF N, M
      <3> QED
        BY <2>1, <2>4
    <2>6. n > 1 => attempts'[r][1].decidedAt <= a.decidedAt
      <3>1. n > 1 => attempts[r] # <<>>
        <4>1. attempts[r] = <<>> => N = 0
          BY AttemptsAre
        <4> HIDE DEF N
        <4> QED
          BY <2>1, <2>4, <4>1
      <3> QED
        BY <2>1, <3>1, FirstStands
    <2>7. \/ n <= M
          \/ AllUntouched(r)' /\ (v.status # "IN_RECOVERY" => Untouched(a))
          \/ /\ v.status = Keep
             /\ \E k \in SentNudges(r)' : attempts'[r][k].expiresAt < a.decidedAt
      <3>1. CASE n <= N
        <4> HIDE DEF N, M
        <4> QED
          BY <2>1, <2>4, <3>1
      <3>2. CASE AllUntouched(r) /\ (v.status # "IN_RECOVERY" => Untouched(a))
        <4>1. CASE M = N
          <5>1. DOMAIN attempts'[r] = DOMAIN attempts[r]
            BY <4>1, GrownAttempts
          <5>2. AllUntouched(r)'
            BY <3>2, <5>1, UntouchedStands DEF AllUntouched, Untouched, Queued
          <5> QED
            BY <3>2, <5>2
        <4>2. CASE M # N
          <5> HIDE DEF N, M
          <5> QED
            BY <2>1, <2>4, <4>2
        <4> QED
          BY <4>1, <4>2
      <3>3. CASE /\ v.status = Keep
                 /\ \E k \in SentNudges(r) : attempts[r][k].expiresAt < a.decidedAt
        BY <3>3, SentStands
      <3> QED
        BY <2>1, <3>1, <3>2, <3>3
    <2>8. Untouched(a) <=> Untouched(a)'
      BY DEF Untouched, Queued
    <2> QED
      BY <2>1, <2>3, <2>5, <2>6, <2>7, <2>8 DEF PlanAdds, FirstWindow
  <1> QED
    BY <1>1, <1>2 DEF PlanHolds

\* What was worked out holds.
LEMMA WorkedHolds ==
    ASSUME TypeOK, AttemptsTimely, TokensTimely, ActedOnLeavesOpen, NEW r \in Losses, NEW v,
           Worked(r, v)
    PROVE  PlanHolds(r, v)
  <1> DEFINE N == Len(attempts[r])
  <1>1. /\ N \in Nat /\ DOMAIN attempts[r] = 1..N
        /\ \A n \in 1..N : attempts[r][n] \in Attempt
        /\ attempts[r] # <<>> => 1 \in 1..N
        /\ attempts[r] = <<>> => N = 0
    BY AttemptsAre
  <1> HIDE DEF N
  <1>2. ASSUME v.outcome = "RECOVERED" PROVE Earned(r)
    <2>1. attempts[r] # <<>> /\ (TokenMatch(r) \/ WindowMatch(r))
      BY <1>2 DEF Worked
    <2>2. /\ \A f \in Entities : paidAt[f] \in Nat
          /\ \A n \in DOMAIN attempts[r] :
                attempts[r][n].decidedAt \in Nat /\ 1 <= attempts[r][n].decidedAt
      BY <1>1 DEF AttemptsTimely, Timely, Attempt, TypeOK
    <2>3. ASSUME NEW n \in DOMAIN attempts[r], NEW f \in Payers(r), f \in Entities,
                 attempts[r][n].decidedAt <= paidAt[f],
                 paidToken[f] = <<r, n>> \/ paidAt[f] <= attempts[r][n].expiresAt
          PROVE  Earned(r)
      <3>1. paidAt[f] # Never
        BY <2>2, <2>3 DEF Never
      <3> QED
        BY <2>2, <2>3, <3>1 DEF Earned
    <2>4. CASE TokenMatch(r)
      <3>1. PICK n \in DOMAIN attempts[r], f \in Entities : paidToken[f] = <<r, n>>
        BY <2>4 DEF TokenMatch
      <3>2. <<r, n>> # NoToken /\ <<r, n>>[1] = r /\ <<r, n>>[2] = n
        BY DEF NoToken
      <3>3. EntityOf(r) = f /\ attempts[r][n].decidedAt <= paidAt[f]
        BY <3>1, <3>2 DEF TokensTimely, TokenTimely
      <3>4. f \in Payers(r)
        BY <3>3 DEF Payers
      <3> QED
        BY <2>3, <3>1, <3>3, <3>4
    <2>5. CASE WindowMatch(r)
      <3>1. PICK f \in Payers(r) : paidAt[f] \in attempts[r][N].decidedAt..attempts[r][N].expiresAt
        BY <2>5 DEF WindowMatch, N
      <3>2. f \in Entities
        BY LossEntity DEF Payers
      <3>3. N \in DOMAIN attempts[r]
        BY <1>1, <2>1
      <3> QED
        BY <2>3, <3>1, <3>2, <3>3
    <2> QED
      BY <2>1, <2>4, <2>5
  <1>3. ASSUME v.new # <<>>
        PROVE  v.new = <<v.new[1]>> /\ PlanAdds(r, v.status, v.number, v.new[1])
    <2>1. v.number = N + 1
      BY <1>3 DEF Worked, N
    <2>2. PICK a \in Attempt :
            /\ v.new = <<a>> /\ a.decidedAt = clock /\ a.executedAt \in {Never, clock}
            /\ FirstWindow(r, a)
            /\ \/ status[r] = "OPEN" /\ (v.status # "IN_RECOVERY" => Untouched(a))
               \/ /\ v.status = Keep
                  /\ \E k \in SentNudges(r) : attempts[r][k].expiresAt < clock
      BY <1>3 DEF Worked
    <2>3. v.new[1] = a
      BY <2>2
    <2>4. clock \in Nat /\ 1 <= clock
      BY ConstantTypes DEF TypeOK
    <2>5. Timely(a)
      BY <2>2, <2>4 DEF Timely
    <2>6. N + 1 > 1 => attempts[r][1].decidedAt <= a.decidedAt
      <3> SUFFICES ASSUME N + 1 > 1 PROVE attempts[r][1].decidedAt <= clock
        BY <2>2
      <3>1. 1 \in DOMAIN attempts[r]
        BY <1>1
      <3> QED
        BY <3>1 DEF AttemptsTimely, Timely
    <2>7. \/ AllUntouched(r) /\ (v.status # "IN_RECOVERY" => Untouched(a))
          \/ /\ v.status = Keep
             /\ \E k \in SentNudges(r) : attempts[r][k].expiresAt < a.decidedAt
      <3>1. status[r] = "OPEN" => AllUntouched(r)
        BY DEF ActedOnLeavesOpen, AllUntouched, Untouched
      <3> QED
        BY <2>2, <3>1
    <2>8. N + 1 \in 1..(N + 1)
      BY <1>1
    <2> QED
      BY <2>1, <2>2, <2>3, <2>5, <2>6, <2>7, <2>8 DEF PlanAdds, N
  <1> QED
    BY <1>2, <1>3 DEF PlanHolds, Worked

\* An attempt after a step was there before, or a commit has written it as planned.
LEMMA NewAttempts ==
    ASSUME TypeOK, TypeOK', AttemptsTimely, TakenUpOnce, PlansHold, [Next]_vars,
           NEW r \in Losses
    PROVE  LET k == Len(attempts[r]) + 1 IN
           \/ DOMAIN attempts'[r] = DOMAIN attempts[r]
           \/ /\ DOMAIN attempts'[r] = 1..k
              /\ \E p \in Procs :
                    /\ Commit(p) /\ txn[p].verdict[r].new # <<>>
                    /\ PlanAdds(r, txn[p].verdict[r].status, k, attempts'[r][k])
  <1> DEFINE N == Len(attempts[r])
             M == Len(attempts'[r])
  <1>1. Grows
    BY StepGrows
  <1>2. N \in Nat /\ M \in Nat /\ DOMAIN attempts[r] = 1..N /\ DOMAIN attempts'[r] = 1..M
    BY <1>1, GrownAttempts
  <1>3. ASSUME NEW p \in Procs, Commit(p)
        PROVE  \/ attempts'[r] = attempts[r]
               \/ /\ M = N + 1 /\ txn[p].verdict[r].new # <<>>
                  /\ PlanAdds(r, txn[p].verdict[r].status, N + 1, attempts'[r][N + 1])
    <2> DEFINE v == txn[p].verdict[r]
               a == v.new[1]
    <2>1. v.new = <<>> => attempts'[r] = attempts[r]
      BY <1>3, CommitKeeps
    <2>2. ASSUME v.new # <<>>
          PROVE  M = N + 1 /\ PlanAdds(r, v.status, N + 1, attempts'[r][N + 1])
      <3>1. v.new = <<a>> /\ PlanAdds(r, v.status, v.number, a)
        BY <2>2 DEF PlansHold, PlanHolds
      <3>2. a \in Attempt
        <4>1. v.new \in Seq(Attempt)
          BY PlanType DEF Verdict
        <4>2. Len(<<a>>) = 1
          OBVIOUS
        <4> HIDE DEF v
        <4> QED
          BY <3>1, <4>1, <4>2, ElementOfSeq
      <3>3. M = N + 1 /\ attempts'[r][N + 1] = a /\ v.number > N
        BY <1>3, <3>1, <3>2, CommitKeeps
      <3>4. v.number \in 1..(N + 1)
        BY <3>1 DEF PlanAdds
      <3>5. v.number = N + 1
        <4> HIDE DEF v, N
        <4> QED
          BY <1>2, <3>3, <3>4
      <3> QED
        BY <3>1, <3>3, <3>5
    <2> QED
      BY <2>1, <2>2
  <1>4. CASE \E p \in Procs : Commit(p)
    BY <1>2, <1>3, <1>4
  <1>5. CASE \E s \in Losses : Send(s) \/ DropQueued(s)
    <2>1. M = N
      BY <1>5, SendKeeps
    <2> HIDE DEF N, M
    <2> QED
      BY <1>2, <2>1
  <1>6. ASSUME NEW p \in Procs, OpensWorked(p) PROVE attempts' = attempts
    BY <1>6 DEF OpensWorked, Begin, bookVars
  <1>7. ASSUME NEW p \in Procs, Rollback(p) PROVE attempts' = attempts
    BY <1>7 DEF Rollback, bookVars
  <1>8. ASSUME NEW s \in Losses, OpenAtRisk(s) PROVE attempts' = attempts
    BY <1>8 DEF OpenAtRisk
  <1>9. CASE Idles
    BY <1>9 DEF Idles, bookVars
  <1> QED
    BY <1>4, <1>5, <1>6, <1>7, <1>8, <1>9, StepCases

LEMMA TimelyNext ==
    ASSUME TypeOK, TypeOK', AttemptsTimely, TakenUpOnce, PlansHold, [Next]_vars
    PROVE  AttemptsTimely'
  <1>1. Grows
    BY StepGrows
  <1>2. clock \in Nat /\ clock' \in Nat /\ clock <= clock'
    BY <1>1, ConstantTypes DEF TypeOK, Grows
  <1> DEFINE TimelyThen(b) == /\ 1 <= b.decidedAt /\ b.decidedAt <= clock'
                              /\ b.executedAt = Never \/ b.decidedAt <= b.executedAt
  <1> SUFFICES ASSUME NEW r \in Losses, NEW n \in DOMAIN attempts'[r]
               PROVE  /\ TimelyThen(attempts'[r][n]) /\ FirstWindow(r, attempts'[r][n])
                      /\ attempts'[r][1].decidedAt <= attempts'[r][n].decidedAt
    BY DEF AttemptsTimely, Timely, FirstWindow
  <1> DEFINE k == Len(attempts[r]) + 1
  <1>3. /\ Len(attempts[r]) \in Nat /\ DOMAIN attempts[r] = 1..Len(attempts[r])
        /\ attempts[r] = <<>> => Len(attempts[r]) = 0
    BY AttemptsAre
  <1>4. CASE n \in DOMAIN attempts[r]
    <2>1. /\ Kept(r, attempts[r][n], attempts'[r][n])
          /\ attempts[r][n] \in Attempt /\ attempts'[r][n] \in Attempt
      BY <1>1, <1>4, GrownAttempts
    <2>2. /\ Timely(attempts[r][n]) /\ FirstWindow(r, attempts[r][n])
          /\ attempts[r][1].decidedAt <= attempts[r][n].decidedAt
      BY <1>4 DEF AttemptsTimely
    <2>3. attempts[r] # <<>>
      BY <1>3, <1>4
    <2>4. TimelyThen(attempts'[r][n])
      <3> DEFINE a == attempts[r][n]
                 b == attempts'[r][n]
                 c == clock'
      <3>1. /\ a.decidedAt \in Nat /\ a.executedAt \in Nat
            /\ b.decidedAt = a.decidedAt /\ b.executedAt \in {a.executedAt, clock}
        BY <2>1 DEF Attempt, Kept
      <3>2. /\ 1 <= a.decidedAt /\ a.decidedAt <= clock
            /\ a.executedAt = Never \/ a.decidedAt <= a.executedAt
        BY <2>2 DEF Timely
      <3> HIDE DEF a, b
      <3>3. /\ 1 <= b.decidedAt /\ b.decidedAt <= c
            /\ b.executedAt = Never \/ b.decidedAt <= b.executedAt
        <4> HIDE DEF c
        <4>1. c \in Nat /\ clock <= c
          BY <1>2 DEF c
        <4> QED
          BY <1>2, <3>1, <3>2, <4>1
      <3> QED
        BY <3>3 DEF b
    <2>5. attempts'[r][1].decidedAt = attempts[r][1].decidedAt
      BY <1>1, <2>3, FirstStands
    <2>6. FirstWindow(r, attempts'[r][n])
      <3>1. clock # Never
        BY ConstantTypes DEF TypeOK, Never
      <3> QED
        BY <2>1, <2>2, <3>1 DEF Kept, FirstWindow
    <2> QED
      BY <2>1, <2>2, <2>4, <2>5, <2>6 DEF Kept
  <1>5. CASE n \notin DOMAIN attempts[r]
    <2>1. PICK s : n \in 1..k /\ PlanAdds(r, s, k, attempts'[r][k])
      BY <1>5, NewAttempts
    <2>2. n = k
      BY <1>3, <1>5, <2>1
    <2>3. /\ Timely(attempts'[r][n]) /\ FirstWindow(r, attempts'[r][n])
          /\ k > 1 => attempts[r][1].decidedAt <= attempts'[r][n].decidedAt
      BY <2>1, <2>2 DEF PlanAdds
    <2>4. attempts'[r][n] \in Attempt
      <3>1. attempts'[r] \in Seq(Attempt)
        BY DEF TypeOK
      <3>2. DOMAIN attempts'[r] = 1..Len(attempts'[r])
        BY <3>1, LenProperties
      <3> QED
        BY <3>1, <3>2, ElementOfSeq
    <2>5. attempts'[r][n].decidedAt \in Nat
      BY <2>4 DEF Attempt
    <2>6. TimelyThen(attempts'[r][n])
      <3> DEFINE b == attempts'[r][n]
                 c == clock'
      <3>1. /\ 1 <= b.decidedAt /\ b.decidedAt <= clock /\ b.decidedAt \in Nat
            /\ b.executedAt = Never \/ b.decidedAt <= b.executedAt
        BY <2>3, <2>5 DEF Timely
      <3> HIDE DEF b
      <3>3. b.decidedAt <= c
        <4> HIDE DEF c
        <4>1. c \in Nat /\ clock <= c
          BY <1>2 DEF c
        <4> QED
          BY <1>2, <3>1, <4>1
      <3> QED
        BY <3>1, <3>3 DEF b
    <2>7. CASE k = 1
      BY <2>2, <2>3, <2>5, <2>6, <2>7
    <2>8. CASE k > 1
      <3>1. attempts[r] # <<>>
        BY <1>3, <2>8
      <3> QED
        BY <1>1, <2>3, <2>6, <2>8, <3>1, FirstStands
    <2> QED
      BY <1>3, <2>7, <2>8
  <1> QED
    BY <1>4, <1>5

LEMMA RetriesNext ==
    ASSUME TypeOK, TypeOK', AttemptsTimely, RetriesFollowNudges, TakenUpOnce, PlansHold,
           [Next]_vars
    PROVE  RetriesFollowNudges'
  <1>1. Grows
    BY StepGrows
  <1> SUFFICES ASSUME NEW r \in Losses, NEW n \in DOMAIN attempts'[r],
                      NEW m \in DOMAIN attempts'[r], n < m
               PROVE  Untouched(attempts'[r][n]) \/ Retry(r, m)'
    BY DEF RetriesFollowNudges, Untouched, Queued
  <1> DEFINE k == Len(attempts[r]) + 1
             M == Len(attempts'[r])
  <1>2. /\ Len(attempts[r]) \in Nat /\ DOMAIN attempts[r] = 1..Len(attempts[r])
        /\ M \in Nat /\ DOMAIN attempts'[r] = 1..M
    BY <1>1, GrownAttempts
  <1>3. ASSUME NEW i \in SentNudges(r), i < m,
               attempts[r][i].expiresAt < attempts'[r][m].decidedAt
        PROVE  Retry(r, m)'
    <2>1. i \in SentNudges(r)' /\ attempts'[r][i] = attempts[r][i]
      BY <1>1, SentStands
    <2> QED
      BY <1>3, <2>1 DEF Retry
  <1>4. CASE m \in DOMAIN attempts[r]
    <2>1. n \in DOMAIN attempts[r]
      BY <1>2, <1>4
    <2>2. CASE Untouched(attempts[r][n])
      BY <1>1, <2>1, <2>2, UntouchedStands
    <2>3. CASE Retry(r, m)
      <3>1. attempts'[r][m].decidedAt = attempts[r][m].decidedAt
        BY <1>1, <1>4, GrownAttempts DEF Kept
      <3> QED
        BY <1>3, <2>3, <3>1 DEF Retry
    <2> QED
      BY <1>4, <2>1, <2>2, <2>3 DEF RetriesFollowNudges
  <1>5. CASE m \notin DOMAIN attempts[r]
    <2>1. PICK s : m \in 1..k /\ PlanAdds(r, s, k, attempts'[r][k])
      BY <1>5, NewAttempts
    <2>2. m = k /\ n \in DOMAIN attempts[r] /\ ~(k <= Len(attempts[r]))
      BY <1>2, <1>5, <2>1
    <2>3. CASE AllUntouched(r)
      BY <1>1, <2>2, <2>3, UntouchedStands DEF AllUntouched
    <2>4. CASE \E i \in SentNudges(r) : attempts[r][i].expiresAt < attempts'[r][k].decidedAt
      <3>1. \A i \in SentNudges(r) : i < k
        BY <1>2 DEF SentNudges
      <3> QED
        BY <1>3, <2>2, <2>4, <3>1
    <2> QED
      BY <2>1, <2>2, <2>3, <2>4 DEF PlanAdds
  <1> QED
    BY <1>4, <1>5

\* The transactions that are open after a step: as they were, over, or just opened with
\* what was worked out.
LEMMA TxnCases ==
    ASSUME TypeOK, AttemptsTimely, TokensTimely, ActedOnLeavesOpen, [Next]_vars,
           NEW q \in Procs
    PROVE  \/ txn'[q] = txn[q] \/ txn'[q] = NoTxn
           \/ /\ OpensWorked(q)
              /\ \A r \in Losses : txn'[q].verdict[r] \in Verdict
                                   /\ PlanHolds(r, txn'[q].verdict[r])
              /\ txn'[q].paid \in Entities => Unpaid(txn'[q].paid)
              /\ TokenTimely(txn'[q].paid, txn'[q].token, txn'[q].at)
              /\ UNCHANGED paidAt
              /\ \A s \in Procs : s # q => txn'[s] = txn[s]
  <1>1. ASSUME UNCHANGED txn PROVE txn'[q] = txn[q]
    BY <1>1
  <1>2. ASSUME NEW r \in Losses, Send(r) \/ DropQueued(r) PROVE UNCHANGED txn
    BY <1>2, SendCases
  <1>3. ASSUME NEW r \in Losses, OpenAtRisk(r) PROVE UNCHANGED txn
    BY <1>3 DEF OpenAtRisk
  <1>4. CASE Idles
    BY <1>1, <1>4 DEF Idles
  <1>5. ASSUME NEW p \in Procs, Commit(p) \/ Rollback(p)
        PROVE  txn'[q] = txn[q] \/ txn'[q] = NoTxn
    <2>1. txn' = [txn EXCEPT ![p] = NoTxn]
      BY <1>5 DEF Commit, Rollback
    <2> QED
      BY <2>1 DEF TypeOK
  <1>6. ASSUME NEW p \in Procs, OpensWorked(p), p # q PROVE txn'[q] = txn[q]
    BY <1>6 DEF OpensWorked, Begin, TypeOK
  <1>7. ASSUME OpensWorked(q)
        PROVE  /\ \A r \in Losses : txn'[q].verdict[r] \in Verdict
                                    /\ PlanHolds(r, txn'[q].verdict[r])
               /\ txn'[q].paid \in Entities => Unpaid(txn'[q].paid)
               /\ TokenTimely(txn'[q].paid, txn'[q].token, txn'[q].at)
               /\ UNCHANGED paidAt
               /\ \A s \in Procs : s # q => txn'[s] = txn[s]
    <2>1. PICK verdict \in [Losses -> Verdict], paid \in Entities \cup {Nobody},
               token \in Tokens, at \in Nat :
            /\ Begin(q, verdict, paid, token, at)
            /\ \A r \in Losses : Worked(r, verdict[r])
            /\ paid \in Entities => Unpaid(paid)
            /\ TokenTimely(paid, token, at)
      BY <1>7 DEF OpensWorked
    <2>2. /\ txn'[q].verdict = verdict /\ txn'[q].paid = paid /\ txn'[q].token = token
          /\ txn'[q].at = at
          /\ UNCHANGED paidAt
          /\ \A s \in Procs : s # q => txn'[s] = txn[s]
      BY <2>1 DEF Begin, TypeOK, eventVars
    <2>3. \A r \in Losses : verdict[r] \in Verdict /\ PlanHolds(r, verdict[r])
      BY <2>1, WorkedHolds
    <2> QED
      BY <2>1, <2>2, <2>3
  <1> QED
    BY <1>1, <1>2, <1>3, <1>4, <1>5, <1>6, <1>7, StepCases

LEMMA PlansNext ==
    ASSUME TypeOK, TypeOK', AttemptsTimely, TokensTimely, ActedOnLeavesOpen, TakenUpOnce,
           PlansHold, [Next]_vars
    PROVE  PlansHold'
  <1>1. Grows
    BY StepGrows
  <1>2. ASSUME NEW q \in Procs, NEW r \in Losses, NEW v \in Verdict,
               PlanHolds(r, v), txn'[q].verdict[r] = v
        PROVE  PlanHolds(r, txn[q].verdict[r])'
    <2>1. PlanHolds(r, v)'
      BY <1>1, <1>2, PlanStands
    <2> QED
      BY <1>2, <2>1
  <1>3. ASSUME NEW q \in Procs, NEW r \in Losses PROVE PlanHolds(r, txn[q].verdict[r])'
    <2>1. CASE txn'[q] = txn[q]
      <3>1. txn[q].verdict[r] \in Verdict
        BY PlanType
      <3>2. PlanHolds(r, txn[q].verdict[r])
        BY DEF PlansHold
      <3> QED
        BY <1>2, <2>1, <3>1, <3>2
    <2>2. CASE txn'[q] = NoTxn
      <3>1. NoTxn.verdict[r] = Unchanged
        BY DEF NoTxn
      <3>2. Unchanged \in Verdict
        BY UnchangedSound DEF Sound
      <3>3. PlanHolds(r, Unchanged)
        BY DEF PlanHolds, Unchanged, Keep, NoOutcome
      <3> QED
        BY <1>2, <2>2, <3>1, <3>2, <3>3
    <2>3. CASE txn'[q].verdict[r] \in Verdict /\ PlanHolds(r, txn'[q].verdict[r])
      <3>1. PICK v : v = txn'[q].verdict[r]
        OBVIOUS
      <3> QED
        BY <1>2, <2>3, <3>1
    <2> QED
      BY <2>1, <2>2, <2>3, TxnCases
  <1> QED
    BY <1>3 DEF PlansHold

LEMMA TokensNext ==
    ASSUME TypeOK, TypeOK', AttemptsTimely, TokensTimely, ActedOnLeavesOpen, TakenUpOnce,
           [Next]_vars
    PROVE  TokensTimely'
  <1>1. Grows
    BY StepGrows
  <1>2. ASSUME NEW f, NEW token, NEW at, TokenTimely(f, token, at)
        PROVE  TokenTimely(f, token, at)'
    BY <1>1, <1>2, TokenStands
  <1>3. ASSUME NEW q \in Procs PROVE TokenTimely(txn[q].paid, txn[q].token, txn[q].at)'
    <2>1. TokenTimely(txn'[q].paid, txn'[q].token, txn'[q].at)
      <3>1. CASE txn'[q] = txn[q]
        BY <3>1 DEF TokensTimely
      <3>2. CASE txn'[q] = NoTxn
        BY <3>2 DEF NoTxn, TokenTimely
      <3> QED
        BY <3>1, <3>2, TxnCases
    <2>2. PICK f, token, at : f = txn'[q].paid /\ token = txn'[q].token /\ at = txn'[q].at
      OBVIOUS
    <2>3. TokenTimely(f, token, at)'
      BY <1>2, <2>1, <2>2
    <2> QED
      BY <2>2, <2>3
  <1>4. ASSUME NEW f \in Entities PROVE TokenTimely(f, paidToken[f], paidAt[f])'
    <2>1. TokenTimely(f, paidToken'[f], paidAt'[f])
      <3>1. ASSUME NEW p \in Procs, Commit(p) PROVE TokenTimely(f, paidToken'[f], paidAt'[f])
        <4>1. /\ paidAt'[f] = IF f = txn[p].paid THEN txn[p].at ELSE paidAt[f]
              /\ paidToken'[f] = IF f = txn[p].paid THEN txn[p].token ELSE paidToken[f]
          BY <3>1 DEF Commit
        <4> QED
          BY <4>1 DEF TokensTimely
      <3>2. ASSUME UNCHANGED <<paidAt, paidToken>>
            PROVE  TokenTimely(f, paidToken'[f], paidAt'[f])
        BY <3>2 DEF TokensTimely
      <3>3. ASSUME NEW r \in Losses, Send(r) \/ DropQueued(r)
            PROVE  UNCHANGED <<paidAt, paidToken>>
        BY <3>3, SendCases DEF eventVars
      <3>4. ASSUME NEW p \in Procs, OpensWorked(p) PROVE UNCHANGED <<paidAt, paidToken>>
        BY <3>4 DEF OpensWorked, Begin, eventVars
      <3>5. ASSUME NEW p \in Procs, Rollback(p) PROVE UNCHANGED <<paidAt, paidToken>>
        BY <3>5 DEF Rollback, eventVars
      <3>6. ASSUME NEW r \in Losses, OpenAtRisk(r) PROVE UNCHANGED <<paidAt, paidToken>>
        BY <3>6 DEF OpenAtRisk, eventVars
      <3>7. CASE Idles
        BY <3>2, <3>7 DEF Idles
      <3> QED
        BY <3>1, <3>2, <3>3, <3>4, <3>5, <3>6, <3>7, StepCases
    <2>2. PICK token, at : token = paidToken'[f] /\ at = paidAt'[f]
      OBVIOUS
    <2>3. TokenTimely(f, token, at)'
      BY <1>2, <2>1, <2>2
    <2> QED
      BY <2>2, <2>3
  <1> QED
    BY <1>3, <1>4 DEF TokensTimely

LEMMA TakenUpNext ==
    ASSUME TypeOK, AttemptsTimely, TokensTimely, ActedOnLeavesOpen, TakenUpOnce, [Next]_vars
    PROVE  TakenUpOnce'
  <1>1. ASSUME NEW q \in Procs, txn'[q] = NoTxn PROVE txn'[q].paid \notin Entities
    BY <1>1, ConstantTypes DEF NoTxn
  <1>2. ASSUME NEW p \in Procs, Commit(p) PROVE TakenUpOnce'
    <2>1. /\ \A q \in Procs : txn'[q] = IF q = p THEN NoTxn ELSE txn[q]
          /\ \A f \in Entities : paidAt'[f] = IF f = txn[p].paid THEN txn[p].at ELSE paidAt[f]
      BY <1>2 DEF Commit, TypeOK
    <2> QED
      BY <1>1, <2>1 DEF TakenUpOnce
  <1>3. ASSUME NEW p \in Procs, Rollback(p) PROVE TakenUpOnce'
    <2>1. /\ \A q \in Procs : txn'[q] = IF q = p THEN NoTxn ELSE txn[q]
          /\ UNCHANGED paidAt
      BY <1>3 DEF Rollback, TypeOK, eventVars
    <2> QED
      BY <1>1, <2>1 DEF TakenUpOnce
  <1>4. ASSUME NEW p \in Procs, OpensWorked(p) PROVE TakenUpOnce'
    <2>1. PICK verdict, paid, token, at :
            /\ Begin(p, verdict, paid, token, at)
            /\ paid \in Entities => Unpaid(paid)
      BY <1>4 DEF OpensWorked
    <2>2. /\ txn'[p].paid = paid /\ UNCHANGED paidAt
          /\ \A q \in Procs : q # p => txn'[q] = txn[q]
      BY <2>1 DEF Begin, TypeOK, eventVars
    <2> QED
      BY <2>1, <2>2 DEF TakenUpOnce, Unpaid
  <1>5. ASSUME UNCHANGED <<paidAt, txn>> PROVE TakenUpOnce'
    BY <1>5 DEF TakenUpOnce
  <1>6. ASSUME NEW r \in Losses, Send(r) \/ DropQueued(r) PROVE UNCHANGED <<paidAt, txn>>
    BY <1>6, SendCases DEF eventVars
  <1>7. ASSUME NEW r \in Losses, OpenAtRisk(r) PROVE UNCHANGED <<paidAt, txn>>
    BY <1>7 DEF OpenAtRisk, eventVars
  <1>8. CASE Idles
    BY <1>5, <1>8 DEF Idles
  <1> QED
    BY <1>2, <1>3, <1>4, <1>5, <1>6, <1>7, <1>8, StepCases

LEMMA ActedNext ==
    ASSUME TypeOK, TypeOK', AttemptsTimely, TakenUpOnce, PlansHold, ActedOnLeavesOpen,
           [Next]_vars
    PROVE  ActedOnLeavesOpen'
  <1> DEFINE Waiting == {"ABSENT", "OPEN", "SUPPRESSED"}
  <1>1. Grows
    BY StepGrows
  <1>2. ASSUME NEW r \in Losses, status[r] \in Waiting PROVE AllUntouched(r)
    BY <1>2 DEF ActedOnLeavesOpen, AllUntouched, Untouched
  <1>3. ASSUME NEW r \in Losses, AllUntouched(r), DOMAIN attempts'[r] = DOMAIN attempts[r]
        PROVE  AllUntouched(r)'
    BY <1>1, <1>3, UntouchedStands DEF AllUntouched, Untouched, Queued
  <1>4. ASSUME NEW r \in Losses, status'[r] \in Waiting => AllUntouched(r)'
        PROVE  (status[r] \in Waiting =>
                   \A n \in DOMAIN attempts[r] :
                       attempts[r][n].executedAt = Never /\ ~Queued(attempts[r][n]))'
    BY <1>4 DEF AllUntouched, Untouched
  <1>5. ASSUME \A r \in Losses : status'[r] \in Waiting => AllUntouched(r)'
        PROVE  ActedOnLeavesOpen'
    BY <1>4, <1>5 DEF ActedOnLeavesOpen
  <1> SUFFICES ASSUME NEW r \in Losses, status'[r] \in Waiting PROVE AllUntouched(r)'
    BY <1>5
  <1>6. ASSUME status[r] \in Waiting, attempts'[r] = attempts[r] PROVE AllUntouched(r)'
    BY <1>2, <1>3, <1>6
  <1>7. ASSUME NEW s \in Losses, Send(s) \/ DropQueued(s) PROVE AllUntouched(r)'
    <2>1. UNCHANGED status /\ \E n \in DOMAIN attempts[s] : Queued(attempts[s][n])
      BY <1>7, SendCases
    <2>2. s # r
      BY <1>2, <2>1 DEF AllUntouched, Untouched
    <2> QED
      BY <1>6, <1>7, <2>1, <2>2, SendElsewhere
  <1>8. ASSUME NEW p \in Procs, OpensWorked(p) \/ Rollback(p) PROVE AllUntouched(r)'
    BY <1>6, <1>8 DEF OpensWorked, Begin, Rollback, bookVars
  <1>9. CASE Idles
    BY <1>6, <1>9 DEF Idles, bookVars
  <1>10. ASSUME NEW s \in Losses, OpenAtRisk(s) PROVE AllUntouched(r)'
    <2>1. /\ status[s] = "ABSENT" /\ UNCHANGED attempts
          /\ r # s => status'[r] = status[r]
      BY <1>10 DEF OpenAtRisk, TypeOK
    <2> QED
      BY <1>6, <2>1
  <1>11. ASSUME NEW p \in Procs, Commit(p) PROVE AllUntouched(r)'
    <2> DEFINE v == txn[p].verdict[r]
               N == Len(attempts[r])
               k == N + 1
               a == v.new[1]
    <2>1. /\ status'[r] = IF v.status = Keep THEN status[r] ELSE v.status
          /\ v.new = <<>> => attempts'[r] = attempts[r]
      BY <1>11, CommitRows
    <2>2. PlanHolds(r, v)
      BY DEF PlansHold
    <2>3. v.status \in {Keep, "SUPPRESSED"} /\ (v.status = "SUPPRESSED" => v.new # <<>>)
      BY <2>1, <2>2 DEF PlanHolds
    <2>4. CASE v.new = <<>>
      BY <1>6, <2>1, <2>3, <2>4
    <2>5. CASE v.new # <<>>
      <3>1. v.new = <<a>> /\ PlanAdds(r, v.status, v.number, a)
        BY <2>2, <2>5 DEF PlanHolds
      <3>2. a \in Attempt
        <4>1. v.new \in Seq(Attempt)
          BY PlanType DEF Verdict
        <4>2. Len(<<a>>) = 1
          OBVIOUS
        <4> HIDE DEF v
        <4> QED
          BY <3>1, <4>1, <4>2, ElementOfSeq
      <3>3. /\ Len(attempts'[r]) = k /\ attempts'[r][k] = a /\ v.number > N
            /\ \A n \in 1..N : attempts'[r][n] = attempts[r][n]
        BY <1>11, <3>1, <3>2, CommitKeeps
      <3>4. N \in Nat /\ DOMAIN attempts[r] = 1..N
        BY AttemptsAre
      <3>5. DOMAIN attempts'[r] = 1..k
        <4>1. attempts'[r] \in Seq(Attempt)
          BY DEF TypeOK
        <4> QED
          BY <3>3, <4>1, LenProperties
      <3>6. v.number \in 1..k
        BY <3>1 DEF PlanAdds
      <3>7. ~(v.number <= N)
        <4> HIDE DEF v, N
        <4> QED
          BY <3>3, <3>4, <3>6
      <3>8. \A i \in SentNudges(r) : ~Untouched(attempts[r][i])
        BY DEF SentNudges, Untouched
      <3>9. AllUntouched(r) /\ Untouched(a)
        <4>1. \/ AllUntouched(r) /\ (v.status # "IN_RECOVERY" => Untouched(a))
              \/ v.status = Keep /\ SentNudges(r) # {}
          BY <3>1, <3>7 DEF PlanAdds
        <4>2. CASE v.status = Keep /\ SentNudges(r) # {}
          <5>1. AllUntouched(r)
            BY <1>2, <2>1, <4>2
          <5> QED
            BY <3>8, <4>2, <5>1 DEF AllUntouched, SentNudges
        <4> QED
          BY <2>3, <4>1, <4>2 DEF Keep
      <3>10. \A n \in 1..k : n = k \/ n \in 1..N
        <4> HIDE DEF N
        <4> QED
          BY <3>4
      <3>11. \A n \in DOMAIN attempts'[r] : Untouched(attempts'[r][n])
        BY <3>3, <3>4, <3>5, <3>9, <3>10 DEF AllUntouched
      <3> QED
        BY <3>11 DEF AllUntouched, Untouched, Queued
    <2> QED
      BY <2>4, <2>5
  <1> QED
    BY <1>7, <1>8, <1>9, <1>10, <1>11, StepCases

LEMMA CreditNext ==
    ASSUME TypeOK, TypeOK', AttemptsTimely, TakenUpOnce, PlansHold, CreditIsEarned,
           [Next]_vars
    PROVE  CreditIsEarned'
  <1>1. Grows
    BY StepGrows
  <1>2. ASSUME NEW r \in Losses, Earned(r) PROVE Earned(r)'
    BY <1>1, <1>2, EarnedStands
  <1>3. ASSUME NEW r \in Losses, outcome'[r] = "RECOVERED" PROVE Earned(r)
    <2>1. ASSUME outcome[r] = "RECOVERED" PROVE Earned(r)
      BY <2>1 DEF CreditIsEarned, Earned
    <2>2. ASSUME NEW p \in Procs, Commit(p) PROVE Earned(r)
      <3>1. outcome[r] = "RECOVERED" \/ txn[p].verdict[r].outcome = "RECOVERED"
        BY <1>3, <2>2 DEF Commit
      <3> QED
        BY <2>1, <3>1 DEF PlansHold, PlanHolds
    <2>3. ASSUME NEW s \in Losses, Send(s) \/ DropQueued(s) PROVE UNCHANGED outcome
      BY <2>3, SendCases
    <2>4. ASSUME NEW p \in Procs, OpensWorked(p) \/ Rollback(p) PROVE UNCHANGED outcome
      BY <2>4 DEF OpensWorked, Begin, Rollback, bookVars
    <2>5. ASSUME NEW s \in Losses, OpenAtRisk(s) PROVE UNCHANGED outcome
      BY <2>5 DEF OpenAtRisk
    <2>6. CASE Idles
      BY <1>3, <2>1, <2>6 DEF Idles, bookVars
    <2> QED
      BY <1>3, <2>1, <2>2, <2>3, <2>4, <2>5, <2>6, StepCases
  <1>4. \A r \in Losses : outcome'[r] = "RECOVERED" => Earned(r)'
    BY <1>2, <1>3
  <1> QED
    BY <1>4 DEF CreditIsEarned, Earned

LEMMA EvidenceNext == EvidenceInv /\ [Next]_vars => EvidenceInv'
  <1> SUFFICES ASSUME EvidenceInv, [Next]_vars PROVE EvidenceInv'
    OBVIOUS
  <1>1. /\ TypeOK /\ AttemptsTimely /\ RetriesFollowNudges /\ PlansHold /\ TokensTimely
        /\ TakenUpOnce /\ ActedOnLeavesOpen /\ CreditIsEarned
    BY DEF EvidenceInv
  <1>2. TypeOK'
    BY <1>1, NextType
  <1> QED
    BY <1>1, <1>2, TimelyNext, RetriesNext, PlansNext, TokensNext, TakenUpNext, ActedNext,
       CreditNext DEF EvidenceInv

LEMMA EvidenceInit == Init => EvidenceInv
  <1> SUFFICES ASSUME Init PROVE EvidenceInv
    OBVIOUS
  <1>1. \A r \in Losses : DOMAIN attempts[r] = {}
    BY DEF Init
  <1>2. AttemptsTimely /\ RetriesFollowNudges /\ ActedOnLeavesOpen
    BY <1>1 DEF AttemptsTimely, RetriesFollowNudges, ActedOnLeavesOpen
  <1>3. PlansHold
    <2>1. \A p \in Procs, r \in Losses : txn[p].verdict[r] = Unchanged
      BY DEF Init, NoTxn
    <2>2. \A r \in Losses : PlanHolds(r, Unchanged)
      BY DEF PlanHolds, Unchanged, Keep, NoOutcome
    <2> QED
      BY <2>1, <2>2 DEF PlansHold
  <1>4. TokensTimely
    BY DEF Init, NoTxn, TokensTimely, TokenTimely
  <1>5. TakenUpOnce
    BY ConstantTypes DEF Init, NoTxn, TakenUpOnce
  <1>6. CreditIsEarned
    BY DEF Init, CreditIsEarned, NoOutcome
  <1> QED
    BY <1>2, <1>3, <1>4, <1>5, <1>6, InitType DEF EvidenceInv

LEMMA EvidenceAlways == Spec => []EvidenceInv
  BY EvidenceInit, EvidenceNext, PTL DEF Spec

\* Nothing was done for a loss that is OPEN or SUPPRESSED, however the sessions overlap:
\* no second batch acts on what a first one is recovering.
THEOREM ActedOnIsTakenUp == Spec => []ActedOnLeavesOpen
  <1>1. EvidenceInv => ActedOnLeavesOpen
    BY DEF EvidenceInv
  <1> QED
    BY <1>1, EvidenceAlways, PTL

\* Every recovery that is credited has a payment of its own that came after an attempt on it
\* was decided on, in its window or with its token, however late it is taken up and however
\* the sessions overlap.
THEOREM CreditsAreEarned == Spec => []CreditIsEarned
  <1>1. EvidenceInv => CreditIsEarned
    BY DEF EvidenceInv
  <1> QED
    BY <1>1, EvidenceAlways, PTL

\* A loss is acted on a second time only after the window of a nudge that was sent for it,
\* however batches and the cadence overlap.
THEOREM RetriesWait == Spec => []RetriesFollowNudges
  <1>1. EvidenceInv => RetriesFollowNudges
    BY DEF EvidenceInv
  <1> QED
    BY <1>1, EvidenceAlways, PTL

-----------------------------------------------------------------------------
(* What a session has read.  Its plan fits the rows as it read them; a row *)
(* that is no longer so has been written since, which shows in its number  *)
(* of attempts, its outcome or its being RECOVERED, and is never undone.   *)

Executed(rows) == \E n \in DOMAIN rows : rows[n].executedAt # Never

\* A row before any decision or outcome.
RowsInv ==
    \A r \in Losses :
        /\ status[r] \in {"ABSENT", "OPEN"} => outcome[r] = NoOutcome
        /\ status[r] = "IN_RECOVERY" => attempts[r] # <<>>

\* Somebody has written r since it was read.
Stale(r, read) ==
    \/ read.decisions < Len(attempts[r])
    \/ /\ read.decisions = Len(attempts[r])
       /\ outcome[r] # NoOutcome \/ status[r] = "RECOVERED"

\* The four kinds of plan, by what was read of the row.
Concludes(r, v, read) ==
    /\ v.new = <<>> /\ read.decisions > 0
    /\ \/ v.status = "RECOVERED" /\ v.outcome = "RECOVERED"
       \/ v.status = "EXPIRED" /\ v.outcome = "EXPIRED"
       \/ /\ v.status = "LOST" /\ v.outcome = "NOT_RECOVERED"
          /\ read.status = "IN_RECOVERY" /\ read.decisions >= MaxTries
          /\ Executed(attempts[r])

Dismisses(v, read) ==
    /\ v.new = <<>> /\ v.status = "RECOVERED" /\ v.outcome = NoOutcome
    /\ read.status = "OPEN" /\ read.decisions = 0

Decides(v, read) ==
    /\ v.outcome = NoOutcome /\ read.status = "OPEN"
    /\ \/ v.status = Keep /\ Idle(v)
       \/ v.status = "SUPPRESSED" /\ Idle(v) /\ v.new # <<>>
       \/ v.status = "IN_RECOVERY" /\ v.new # <<>>

Repeats(r, v, read) ==
    /\ v.outcome = NoOutcome /\ v.status = Keep /\ read.status = "IN_RECOVERY"
    /\ v.new # <<>> => Executed(attempts[r])

Planned(r, v, read) ==
    \/ Concludes(r, v, read) \/ Dismisses(v, read)
    \/ Decides(v, read) \/ Repeats(r, v, read)

ReadHolds(r, v, read) ==
    /\ read.status \in Unresolved /\ read.outcome = NoOutcome /\ read.decisions \in Nat
    /\ status[r] # "ABSENT"
    /\ read = ReadNow(r) \/ Stale(r, read)
    /\ Planned(r, v, read)

ReadsHold ==
    \A p \in Procs, r \in Losses :
        txn[p].open /\ txn[p].verdict[r] # Unchanged
            => ReadHolds(r, txn[p].verdict[r], txn[p].read[r])

LifeInv == EvidenceInv /\ RowsInv /\ ReadsHold

\* What r is once v is written.
LifeAfter(r, v) ==
    Life!As(IF v.status = Keep THEN status[r] ELSE v.status,
            IF v.outcome = NoOutcome THEN outcome[r] ELSE v.outcome,
            Len(attempts[r]) + Len(v.new),
            Executed(attempts[r]) \/ Executed(v.new))

\* A case stays as it is, or makes one move.
Goes(was, is) == is = was \/ Life!Moves(was, is)

\* The moves, field by field.
LEMMA MovesByField ==
    ASSUME NEW s, NEW o, NEW d \in Nat, NEW b \in BOOLEAN
    PROVE  LET was == Life!As(s, o, d, b) IN
           /\ s = "ABSENT" => Life!Moves(was, Life!As("OPEN", o, d, b))
           /\ s = "OPEN" /\ d = 0 => Life!Moves(was, Life!As("RECOVERED", o, d, b))
           /\ s = "OPEN" => \A s1 \in {"OPEN", "SUPPRESSED"} :
                                Life!Moves(was, Life!As(s1, o, d + 1, b))
           /\ s = "OPEN" /\ ~b => \A b1 \in BOOLEAN :
                                      Life!Moves(was, Life!As("IN_RECOVERY", o, d + 1, b1))
           /\ s = "IN_RECOVERY" /\ b => Life!Moves(was, Life!As(s, o, d + 1, TRUE))
           /\ s \in {"IN_RECOVERY", "RECOVERED", "EXPIRED", "LOST"} /\ d > 0
                  => Life!Moves(was, Life!As(s, o, d, TRUE))
           /\ s \in {"OPEN", "IN_RECOVERY"} /\ d > 0 /\ o = NoOutcome
                  => \A end \in {"RECOVERED", "EXPIRED"} :
                         Life!Moves(was, Life!As(end, end, d, b))
           /\ s = "IN_RECOVERY" /\ b /\ d >= MaxTries /\ o = NoOutcome
                  => Life!Moves(was, Life!As("LOST", "NOT_RECOVERED", d, TRUE))
  <1> DEFINE was == Life!As(s, o, d, b)
  <1>1. was.stage = s /\ was.outcome = o /\ was.decisions = d /\ was.acted = b
    BY DEF Life!As
  <1> HIDE DEF was
  <1>2. NoOutcome = Life!NoOutcome
    BY DEF NoOutcome, Life!NoOutcome
  <1> QED
    BY <1>1, <1>2
    DEF Life!Moves, Life!Detected, Life!PaidUnasked, Life!Refused, Life!TakenUp,
        Life!TriedAgain, Life!ActedOn, Life!Concluded, Life!GivenUp, was

\* What a loss is, field by field.
LEMMA LifeFields ==
    ASSUME TypeOK, NEW r \in Losses
    PROVE  /\ LifeOf(r) = Life!As(status[r], outcome[r], Len(attempts[r]),
                                  Executed(attempts[r]))
           /\ Len(attempts[r]) \in Nat
           /\ attempts[r] # <<>> => Len(attempts[r]) > 0
           /\ attempts[r] = <<>> => Len(attempts[r]) = 0
           /\ SentNudges(r) # {} => Executed(attempts[r])
           /\ Cardinality(SentNudges(r)) \in Nat
           /\ Cardinality(SentNudges(r)) <= Len(attempts[r])
  <1>1. /\ Len(attempts[r]) \in Nat /\ DOMAIN attempts[r] = 1..Len(attempts[r])
        /\ attempts[r] # <<>> => 1 \in 1..Len(attempts[r])
        /\ attempts[r] = <<>> => Len(attempts[r]) = 0
    BY AttemptsAre
  <1>2. SentNudges(r) \subseteq 1..Len(attempts[r])
    BY <1>1 DEF SentNudges
  <1>3. IsFiniteSet(1..Len(attempts[r])) /\ Cardinality(1..Len(attempts[r])) = Len(attempts[r])
    BY <1>1, FS_Interval
  <1>4. IsFiniteSet(SentNudges(r)) /\ Cardinality(SentNudges(r)) <= Len(attempts[r])
    BY <1>2, <1>3, FS_Subset
  <1>7. Cardinality(SentNudges(r)) \in Nat
    BY <1>4, FS_CardinalityType
  <1>5. SentNudges(r) # {} => Executed(attempts[r])
    BY DEF SentNudges, Executed
  <1>6. LifeOf(r) = Life!As(status[r], outcome[r], Len(attempts[r]), Executed(attempts[r]))
    BY DEF LifeOf, Life!As, Executed
  <1> QED
    BY <1>1, <1>4, <1>5, <1>6, <1>7

\* What the plan of a row adds.
LEMMA PlanFields ==
    ASSUME NEW r \in Losses, NEW v, PlanHolds(r, v)
    PROVE  /\ v.new = <<>> => Len(v.new) = 0 /\ ~Executed(v.new)
           /\ v.new # <<>> => Len(v.new) = 1
           /\ Idle(v) => ~Executed(v.new)
  <1>1. v.new = <<>> => Len(v.new) = 0 /\ ~Executed(v.new)
    <2>1. Len(<<>>) = 0 /\ DOMAIN <<>> = {}
      OBVIOUS
    <2> QED
      BY <2>1 DEF Executed
  <1>2. v.new # <<>> => Len(v.new) = 1
    <2> SUFFICES ASSUME v.new # <<>> PROVE Len(v.new) = 1
      OBVIOUS
    <2>1. PICK a : v.new = <<a>>
      BY DEF PlanHolds
    <2>2. Len(<<a>>) = 1
      OBVIOUS
    <2> QED
      BY <2>1, <2>2
  <1>3. Idle(v) => ~Executed(v.new)
    BY DEF Idle, Untouched, Executed
  <1> QED
    BY <1>1, <1>2, <1>3

\* What one sequence after the other has executed.
LEMMA ExecutedJoined ==
    ASSUME NEW old, NEW new, NEW all, NEW L \in Nat, NEW M \in Nat,
           DOMAIN old = 1..L, DOMAIN new = 1..M, DOMAIN all = 1..(L + M),
           \A n \in 1..(L + M) : all[n] = IF n <= L THEN old[n] ELSE new[n - L]
    PROVE  Executed(all) = (Executed(old) \/ Executed(new))
  <1>1. ASSUME NEW n \in 1..(L + M), all[n].executedAt # Never
        PROVE  Executed(old) \/ Executed(new)
    <2>1. CASE n <= L
      <3>1. n \in 1..L /\ all[n] = old[n]
        BY <2>1
      <3> QED
        BY <1>1, <3>1 DEF Executed
    <2>2. CASE ~(n <= L)
      <3>1. n - L \in 1..M /\ all[n] = new[n - L]
        BY <2>2
      <3> QED
        BY <1>1, <3>1 DEF Executed
    <2> QED
      BY <2>1, <2>2
  <1>2. ASSUME NEW n \in 1..L, old[n].executedAt # Never PROVE Executed(all)
    <2>1. n \in 1..(L + M) /\ all[n] = old[n]
      OBVIOUS
    <2> QED
      BY <1>2, <2>1 DEF Executed
  <1>3. ASSUME NEW n \in 1..M, new[n].executedAt # Never PROVE Executed(all)
    <2>1. n + L \in 1..(L + M) /\ ~(n + L <= L) /\ n + L - L = n
      OBVIOUS
    <2>2. all[n + L] = new[n]
      BY <2>1
    <2> QED
      BY <1>3, <2>1, <2>2 DEF Executed
  <1> QED
    BY <1>1, <1>2, <1>3 DEF Executed

LEMMA ExecutedConcat ==
    ASSUME NEW old \in Seq(Attempt), NEW new \in Seq(Attempt)
    PROVE  /\ Len(old \o new) = Len(old) + Len(new)
           /\ Executed(old \o new) = (Executed(old) \/ Executed(new))
  <1>1. /\ Len(old) \in Nat /\ Len(new) \in Nat
        /\ DOMAIN old = 1..Len(old) /\ DOMAIN new = 1..Len(new)
    BY LenProperties
  <1>2. /\ old \o new \in Seq(Attempt) /\ Len(old \o new) = Len(old) + Len(new)
        /\ \A n \in 1..(Len(old) + Len(new)) :
              (old \o new)[n] = IF n <= Len(old) THEN old[n] ELSE new[n - Len(old)]
    BY ConcatProperties
  <1>3. DOMAIN (old \o new) = 1..(Len(old) + Len(new))
    BY <1>2, LenProperties
  <1> QED
    BY <1>1, <1>2, <1>3, ExecutedJoined

\* What is worked out from a row fits what was read of it.
LEMMA ReadsWhatItPlans ==
    ASSUME TypeOK, ActedOnLeavesOpen, RowsInv, NEW r \in Losses, NEW v,
           Sound(r, v), Worked(r, v), v # Unchanged
    PROVE  ReadHolds(r, v, ReadNow(r))
  <1> DEFINE read == ReadNow(r)
  <1>1. read.status = status[r] /\ read.outcome = outcome[r]
        /\ read.decisions = Len(attempts[r])
    BY DEF ReadNow
  <1>2. status[r] \in Unresolved
        /\ (Closes(v) \/ ClosesUnacted(r, v) \/ TakesUp(r, v) \/ GoesOn(r, v))
    BY DEF Sound, Fits
  <1>3. /\ Len(attempts[r]) \in Nat
        /\ attempts[r] # <<>> => Len(attempts[r]) > 0
        /\ attempts[r] = <<>> => Len(attempts[r]) = 0
        /\ SentNudges(r) # {} => Executed(attempts[r])
        /\ Cardinality(SentNudges(r)) >= MaxTries => Len(attempts[r]) >= MaxTries
    BY LifeFields, ConstantTypes
  <1>4. status[r] = "OPEN" => SentNudges(r) = {}
    BY DEF ActedOnLeavesOpen, SentNudges
  <1>6. outcome[r] = NoOutcome /\ (attempts[r] = <<>> => status[r] = "OPEN")
    BY <1>2 DEF Worked, RowsInv, Unresolved
  <1>7. /\ v.status \in {"SUPPRESSED", "IN_RECOVERY"} => v.new # <<>>
        /\ v.new # <<>> => status[r] = "OPEN" \/ SentNudges(r) # {}
    BY DEF Worked
  <1> HIDE DEF read
  <1>5. ASSUME Closes(v) PROVE Concludes(r, v, read)
    <2>1. v.outcome = "RECOVERED" \/ v.outcome = "EXPIRED" => attempts[r] # <<>>
      BY DEF Worked
    <2>2. v.outcome = "NOT_RECOVERED" =>
              SentNudges(r) # {} /\ Cardinality(SentNudges(r)) >= MaxTries
      BY DEF Worked
    <2>3. v.outcome = "NOT_RECOVERED" => attempts[r] # <<>> /\ status[r] = "IN_RECOVERY"
      <3>1. SentNudges(r) # {} => attempts[r] # <<>>
        <4>1. DOMAIN <<>> = {}
          OBVIOUS
        <4> QED
          BY <4>1 DEF SentNudges
      <3> QED
        BY <1>2, <1>4, <2>2, <3>1 DEF Unresolved
    <2> QED
      BY <1>1, <1>3, <1>5, <2>1, <2>2, <2>3 DEF Closes, Concludes
  <1>8. ASSUME ClosesUnacted(r, v) PROVE Dismisses(v, read)
    BY <1>1, <1>3, <1>6, <1>8 DEF ClosesUnacted, Dismisses
  <1>9. ASSUME TakesUp(r, v) PROVE Decides(v, read)
    BY <1>1, <1>7, <1>9 DEF TakesUp, Decides
  <1>10. ASSUME GoesOn(r, v) PROVE Repeats(r, v, read)
    BY <1>1, <1>3, <1>7, <1>10 DEF GoesOn, Repeats
  <1>11. Planned(r, v, read)
    BY <1>2, <1>5, <1>8, <1>9, <1>10 DEF Planned
  <1>12. status[r] # "ABSENT" /\ read = ReadNow(r)
    BY <1>2 DEF Unresolved, read
  <1> QED
    BY <1>1, <1>2, <1>3, <1>6, <1>11, <1>12 DEF ReadHolds, read

\* What was executed stays so.
LEMMA ExecutedStands ==
    ASSUME TypeOK, TypeOK', Grows, NEW r \in Losses, Executed(attempts[r])
    PROVE  Executed(attempts'[r])
  <1>1. PICK n \in DOMAIN attempts[r] : attempts[r][n].executedAt # Never
    BY DEF Executed
  <1>2. n \in DOMAIN attempts'[r] /\ Kept(r, attempts[r][n], attempts'[r][n])
    BY GrownAttempts
  <1>3. attempts'[r][n] = attempts[r][n]
    BY <1>1, <1>2 DEF Kept, Queued
  <1> QED
    BY <1>1, <1>2, <1>3 DEF Executed

\* What is written is what was planned.
LEMMA CommitAfter ==
    ASSUME TypeOK, NEW p \in Procs, Commit(p), NEW r \in Losses
    PROVE  LifeOf(r)' = LifeAfter(r, txn[p].verdict[r])
  <1> DEFINE v == txn[p].verdict[r]
  <1>2. /\ attempts'[r] = attempts[r] \o v.new
        /\ status'[r] = IF v.status = Keep THEN status[r] ELSE v.status
        /\ outcome'[r] = IF v.outcome = NoOutcome THEN outcome[r] ELSE v.outcome
    BY DEF Commit
  <1>3. attempts[r] \in Seq(Attempt) /\ v.new \in Seq(Attempt)
    <2>1. v \in Verdict
      BY PlanType
    <2> HIDE DEF v
    <2> QED
      BY <2>1 DEF TypeOK, Verdict
  <1> HIDE DEF v
  <1>4. /\ Len(attempts'[r]) = Len(attempts[r]) + Len(v.new)
        /\ Executed(attempts'[r]) = (Executed(attempts[r]) \/ Executed(v.new))
    BY <1>2, <1>3, ExecutedConcat
  <1>5. LifeOf(r)' = Life!As(status'[r], outcome'[r], Len(attempts'[r]),
                                Executed(attempts'[r]))
    BY DEF LifeOf, Life!As, Executed
  <1>6. LifeOf(r)' = LifeAfter(r, v)
    BY <1>2, <1>4, <1>5 DEF LifeAfter
  <1> QED
    BY <1>6 DEF v

\* The plan of a session that commits: it writes nothing of r, or it holds, and no outcome
\* is written over another.
LEMMA CommitPlan ==
    ASSUME LifeInv, NEW p \in Procs, Commit(p), NEW r \in Losses
    PROVE  LET v == txn[p].verdict[r] IN
           /\ v.outcome # NoOutcome => outcome[r] = NoOutcome
           /\ v.new = <<>> => Len(v.new) = 0 /\ ~Executed(v.new)
           /\ v.new # <<>> => Len(v.new) = 1
           /\ Idle(v) => ~Executed(v.new)
           /\ v = Unchanged \/ ReadHolds(r, v, txn[p].read[r])
  <1>1. PlanHolds(r, txn[p].verdict[r])
    BY DEF LifeInv, EvidenceInv, PlansHold
  <1>2. txn[p].open /\ ~Conflicts(txn[p].verdict[r], r)
    BY DEF Commit
  <1> QED
    BY <1>1, <1>2, PlanFields DEF Conflicts, LifeInv, ReadsHold

\* A row that was detected stays as it is, or gets an attempt, its only outcome, or is
\* RECOVERED without one.
Advances(r) ==
    /\ status'[r] # "ABSENT"
    /\ \/ /\ status'[r] = status[r] /\ outcome'[r] = outcome[r]
          /\ Len(attempts'[r]) = Len(attempts[r])
       \/ Len(attempts[r]) < Len(attempts'[r]) /\ outcome'[r] = outcome[r]
       \/ /\ Len(attempts'[r]) = Len(attempts[r])
          /\ outcome[r] = NoOutcome /\ outcome'[r] # NoOutcome
       \/ /\ Len(attempts'[r]) = Len(attempts[r])
          /\ outcome'[r] = outcome[r] /\ status'[r] = "RECOVERED"

LEMMA RowsAdvance ==
    ASSUME LifeInv, [Next]_vars, NEW r \in Losses, status[r] # "ABSENT"
    PROVE  Advances(r)
  <1>t. TypeOK /\ AttemptsTimely /\ Len(attempts[r]) \in Nat
    BY AttemptsAre DEF LifeInv, EvidenceInv
  <1>1. ASSUME UNCHANGED <<status, outcome, attempts>> PROVE Advances(r)
    BY <1>1 DEF Advances
  <1>2. ASSUME NEW q \in Losses, Send(q) \/ DropQueued(q) PROVE Advances(r)
    BY <1>2, <1>t, SendCases, SendKeeps DEF Advances
  <1>3. ASSUME NEW q \in Losses, OpenAtRisk(q) PROVE Advances(r)
    <2>1. /\ status[q] = "ABSENT" /\ UNCHANGED <<outcome, attempts>>
          /\ r # q => status'[r] = status[r]
      BY <1>3, <1>t DEF OpenAtRisk, TypeOK
    <2> QED
      BY <2>1 DEF Advances
  <1>4. ASSUME NEW p \in Procs, OpensWorked(p) \/ Rollback(p)
        PROVE  UNCHANGED <<status, outcome, attempts>>
    BY <1>4 DEF OpensWorked, Begin, Rollback, bookVars
  <1>5. CASE Idles
    BY <1>1, <1>5 DEF Idles, bookVars
  <1>6. ASSUME NEW p \in Procs, Commit(p) PROVE Advances(r)
    <2> DEFINE v == txn[p].verdict[r]
               L == Len(attempts[r])
    <2>1. LifeOf(r)' = LifeAfter(r, v)
      BY <1>6, <1>t, CommitAfter
    <2>2. /\ status'[r] = IF v.status = Keep THEN status[r] ELSE v.status
          /\ outcome'[r] = IF v.outcome = NoOutcome THEN outcome[r] ELSE v.outcome
          /\ Len(attempts'[r]) = L + Len(v.new)
      BY <2>1 DEF LifeOf, LifeAfter, Life!As
    <2>3. /\ v.outcome # NoOutcome => outcome[r] = NoOutcome
          /\ v.new = <<>> => Len(v.new) = 0
          /\ v.new # <<>> => Len(v.new) = 1
          /\ v = Unchanged \/ ReadHolds(r, v, txn[p].read[r])
      BY <1>6, CommitPlan
    <2>4. PICK read : read = txn[p].read[r]
      OBVIOUS
    <2> HIDE DEF v, L
    <2>5. L \in Nat
      BY <1>t DEF L
    <2>6. CASE v = Unchanged
      <3>1. v.status = Keep /\ v.outcome = NoOutcome /\ v.new = <<>>
        BY <2>6 DEF Unchanged
      <3> QED
        BY <2>2, <2>3, <2>5, <3>1 DEF Advances, L
    <2>7. CASE Planned(r, v, read)
      <3>1. v.status # "ABSENT"
        BY <2>7 DEF Planned, Concludes, Dismisses, Decides, Repeats, Keep
      <3>2. CASE v.new # <<>>
        <4>1. v.outcome = NoOutcome
          BY <2>7, <3>2 DEF Planned, Concludes, Dismisses, Decides, Repeats
        <4>2. Len(attempts'[r]) = L + 1 /\ L < L + 1
          <5>1. Len(v.new) = 1
            BY <2>3, <3>2
          <5>2. Len(attempts'[r]) = L + Len(v.new)
            BY <2>2
          <5>3. L < L + 1
            BY <2>5
          <5> QED
            BY <5>1, <5>2, <5>3
        <4>3. outcome'[r] = outcome[r] /\ status'[r] # "ABSENT"
          BY <2>2, <3>1, <4>1
        <4> QED
          BY <4>2, <4>3 DEF Advances, L
      <3>3. CASE v.new = <<>>
        <4>1. Len(attempts'[r]) = L
          BY <2>2, <2>3, <2>5, <3>3
        <4>2. \/ v.outcome # NoOutcome
              \/ v.outcome = NoOutcome /\ v.status = "RECOVERED"
              \/ v.outcome = NoOutcome /\ v.status = Keep
          BY <2>7, <3>3 DEF Planned, Concludes, Dismisses, Decides, Repeats, NoOutcome
        <4> QED
          BY <2>2, <2>3, <3>1, <4>1, <4>2 DEF Advances, L, Keep
      <3> QED
        BY <3>2, <3>3
    <2> QED
      BY <2>3, <2>4, <2>6, <2>7 DEF ReadHolds
  <1> QED
    BY <1>t, <1>1, <1>2, <1>3, <1>4, <1>5, <1>6, StepCases

\* What a session has read and planned goes on to hold.
LEMMA ReadStands ==
    ASSUME LifeInv, TypeOK', [Next]_vars, NEW r \in Losses, NEW v, NEW read,
           ReadHolds(r, v, read)
    PROVE  ReadHolds(r, v, read)'
  <1>t. TypeOK /\ AttemptsTimely /\ TakenUpOnce
    BY DEF LifeInv, EvidenceInv
  <1>1. Grows
    BY <1>t, StepGrows
  <1>2. Executed(attempts[r]) => Executed(attempts'[r])
    BY <1>1, <1>t, ExecutedStands
  <1>3. Planned(r, v, read)'
    BY <1>2 DEF ReadHolds, Planned, Concludes, Dismisses, Decides, Repeats, Idle, Untouched,
                Queued, Executed
  <1>4. Advances(r)
    BY RowsAdvance DEF ReadHolds
  <1> DEFINE L == Len(attempts[r])
             M == Len(attempts'[r])
             d == read.decisions
  <1>5. L \in Nat /\ M \in Nat /\ L <= M /\ d \in Nat
    BY <1>1, <1>t, GrownAttempts DEF ReadHolds
  <1>6. read = ReadNow(r)' \/ Stale(r, read)'
    <2> HIDE DEF L, M, d
    <2>1. CASE d < L
      <3>1. d < M
        BY <1>5, <2>1
      <3> QED
        BY <3>1 DEF Stale, M, d
    <2>2. CASE d = L
      <3>1. CASE L < M
        BY <2>2, <3>1 DEF Stale, M, d
      <3>2. CASE M = L /\ outcome[r] = NoOutcome /\ outcome'[r] # NoOutcome
        BY <2>2, <3>2 DEF Stale, M, d
      <3>3. CASE M = L /\ outcome'[r] = outcome[r] /\ status'[r] = "RECOVERED"
        BY <2>2, <3>3 DEF Stale, M, d
      <3>4. CASE M = L /\ outcome'[r] = outcome[r] /\ status'[r] = status[r]
        BY <2>2, <3>4 DEF ReadHolds, ReadNow, Stale, L, M, d
      <3> QED
        BY <1>4, <3>1, <3>2, <3>3, <3>4 DEF Advances, L, M
    <2>3. d < L \/ d = L
      <3>1. ReadNow(r).decisions = L
        BY DEF ReadNow, L
      <3> QED
        BY <3>1 DEF ReadHolds, Stale, L, d
    <2> QED
      BY <2>1, <2>2, <2>3
  <1> QED
    BY <1>3, <1>4, <1>6 DEF ReadHolds, Advances

LEMMA RowsNext ==
    ASSUME LifeInv, TypeOK', [Next]_vars
    PROVE  RowsInv'
  <1>t. TypeOK /\ AttemptsTimely /\ TakenUpOnce /\ RowsInv
    BY DEF LifeInv, EvidenceInv
  <1>0. Grows
    BY <1>t, StepGrows
  <1> SUFFICES ASSUME NEW r \in Losses
               PROVE  /\ status'[r] \in {"ABSENT", "OPEN"} => outcome'[r] = NoOutcome
                      /\ status'[r] = "IN_RECOVERY" => attempts'[r] # <<>>
    BY DEF RowsInv
  <1>1. /\ status[r] \in {"ABSENT", "OPEN"} => outcome[r] = NoOutcome
        /\ status[r] = "IN_RECOVERY" => attempts[r] # <<>>
    BY <1>t DEF RowsInv
  <1>2. attempts[r] # <<>> => attempts'[r] # <<>>
    BY <1>0, <1>t, FirstStands
  <1> DEFINE Goal == /\ status'[r] \in {"ABSENT", "OPEN"} => outcome'[r] = NoOutcome
                     /\ status'[r] = "IN_RECOVERY" => attempts'[r] # <<>>
  <1>3. ASSUME UNCHANGED <<status, outcome>> PROVE Goal
    BY <1>1, <1>2, <1>3
  <1>4. ASSUME NEW q \in Losses, Send(q) \/ DropQueued(q) PROVE Goal
    BY <1>3, <1>4, <1>t, SendCases
  <1>5. ASSUME NEW q \in Losses, OpenAtRisk(q) PROVE Goal
    <2>1. /\ status[q] = "ABSENT" /\ UNCHANGED outcome
          /\ status'[r] = IF r = q THEN "OPEN" ELSE status[r]
      BY <1>5, <1>t DEF OpenAtRisk, TypeOK
    <2> QED
      BY <1>1, <1>2, <2>1
  <1>6. ASSUME NEW p \in Procs, OpensWorked(p) \/ Rollback(p) PROVE Goal
    BY <1>3, <1>6 DEF OpensWorked, Begin, Rollback, bookVars
  <1>7. CASE Idles
    BY <1>3, <1>7 DEF Idles, bookVars
  <1>8. ASSUME NEW p \in Procs, Commit(p) PROVE Goal
    <2> DEFINE v == txn[p].verdict[r]
    <2>1. LifeOf(r)' = LifeAfter(r, v)
      BY <1>8, <1>t, CommitAfter
    <2>2. /\ status'[r] = IF v.status = Keep THEN status[r] ELSE v.status
          /\ outcome'[r] = IF v.outcome = NoOutcome THEN outcome[r] ELSE v.outcome
          /\ Len(attempts'[r]) = Len(attempts[r]) + Len(v.new)
      BY <2>1 DEF LifeOf, LifeAfter, Life!As
    <2>3. /\ v.new # <<>> => Len(v.new) = 1
          /\ v = Unchanged \/ ReadHolds(r, v, txn[p].read[r])
      BY <1>8, CommitPlan
    <2>4. PICK read : read = txn[p].read[r]
      OBVIOUS
    <2> HIDE DEF v
    <2>5. CASE v = Unchanged
      <3>1. v.status = Keep /\ v.outcome = NoOutcome
        BY <2>5 DEF Unchanged
      <3> QED
        BY <1>1, <1>2, <2>2, <3>1
    <2>6. CASE Planned(r, v, read)
      <3>1. v.status \notin {"ABSENT", "OPEN"}
            /\ (v.outcome # NoOutcome => v.status \in Closed)
            /\ (v.status = "IN_RECOVERY" => v.new # <<>>)
        BY <2>6 DEF Planned, Concludes, Dismisses, Decides, Repeats, Keep, Closed
      <3>2. ASSUME v.new # <<>> PROVE attempts'[r] # <<>>
        <4>1. Len(v.new) = 1
          BY <2>3, <3>2
        <4>2. Len(attempts[r]) \in Nat /\ Len(attempts'[r]) = Len(attempts[r]) + 1
          BY <1>t, <2>2, <4>1, AttemptsAre
        <4>3. Len(<<>>) = 0
          OBVIOUS
        <4> QED
          BY <4>2, <4>3
      <3>3. v.outcome # NoOutcome => v.status \notin {Keep, "OPEN", "ABSENT"}
        BY <3>1 DEF Closed, Keep
      <3> QED
        BY <1>1, <1>2, <2>2, <3>1, <3>2, <3>3 DEF Keep
    <2> QED
      BY <2>3, <2>4, <2>5, <2>6 DEF ReadHolds
  <1> QED
    BY <1>t, <1>4, <1>5, <1>6, <1>7, <1>8, StepCases

LEMMA ReadsNext ==
    ASSUME LifeInv, TypeOK', [Next]_vars
    PROVE  ReadsHold'
  <1>t. /\ TypeOK /\ AttemptsTimely /\ TokensTimely /\ ActedOnLeavesOpen /\ RowsInv
    BY DEF LifeInv, EvidenceInv
  <1>1. ASSUME NEW q \in Procs, NEW r \in Losses, NEW v, NEW read, ReadHolds(r, v, read),
               txn'[q].verdict[r] = v, txn'[q].read[r] = read
        PROVE  ReadHolds(r, txn[q].verdict[r], txn[q].read[r])'
    <2>1. ReadHolds(r, v, read)'
      BY <1>1, ReadStands
    <2> QED
      BY <1>1, <2>1
  <1> SUFFICES ASSUME NEW q \in Procs, NEW r \in Losses, txn'[q].open,
                      txn'[q].verdict[r] # Unchanged
               PROVE  ReadHolds(r, txn[q].verdict[r], txn[q].read[r])'
    BY DEF ReadsHold
  <1>2. CASE txn'[q] = txn[q]
    <2>1. ReadHolds(r, txn[q].verdict[r], txn[q].read[r])
      BY <1>2 DEF LifeInv, ReadsHold
    <2>2. PICK v, read : v = txn[q].verdict[r] /\ read = txn[q].read[r]
      OBVIOUS
    <2> QED
      BY <1>1, <1>2, <2>1, <2>2
  <1>3. CASE txn'[q] = NoTxn
    BY <1>3 DEF NoTxn
  <1>4. CASE OpensWorked(q)
    <2>1. PICK verdict \in [Losses -> Verdict], paid \in Entities \cup {Nobody},
               token \in Tokens, at \in Nat :
            /\ Begin(q, verdict, paid, token, at)
            /\ Sound(r, verdict[r]) /\ Worked(r, verdict[r])
      BY <1>4 DEF OpensWorked
    <2>2. /\ txn'[q].verdict = verdict
          /\ txn'[q].read[r] = IF verdict[r] = Unchanged THEN NotRead ELSE ReadNow(r)
      BY <1>t, <2>1 DEF Begin, TypeOK
    <2>3. ReadHolds(r, verdict[r], ReadNow(r))
      BY <1>t, <2>1, <2>2, ReadsWhatItPlans
    <2>4. PICK v, read : v = verdict[r] /\ read = ReadNow(r)
      OBVIOUS
    <2> QED
      BY <1>1, <2>2, <2>3, <2>4
  <1> QED
    BY <1>t, <1>2, <1>3, <1>4, TxnCases

LEMMA LifeInvNext == LifeInv /\ [Next]_vars => LifeInv'
  <1> SUFFICES ASSUME LifeInv, [Next]_vars PROVE LifeInv'
    OBVIOUS
  <1>1. EvidenceInv'
    BY EvidenceNext DEF LifeInv
  <1>2. TypeOK'
    BY <1>1 DEF EvidenceInv
  <1> QED
    BY <1>1, <1>2, RowsNext, ReadsNext DEF LifeInv

LEMMA LifeInvInit == Init => LifeInv
  BY EvidenceInit DEF Init, LifeInv, RowsInv, ReadsHold, NoTxn

LEMMA LifeInvAlways == Spec => []LifeInv
  BY LifeInvInit, LifeInvNext, PTL DEF Spec

-----------------------------------------------------------------------------
(* What a step does to a row: nothing, one move of LossLife, or, when the  *)
(* session that commits had a reading out of date, what LossLife allows it.*)

\* A plan for a row that is as it was read is one move.
LEMMA FreshGoes ==
    ASSUME TypeOK, ActedOnLeavesOpen, NEW r \in Losses, NEW v, PlanHolds(r, v),
           ReadHolds(r, v, ReadNow(r))
    PROVE  Goes(LifeOf(r), LifeAfter(r, v))
  <1> DEFINE s == status[r]
             o == outcome[r]
             d == Len(attempts[r])
             b == Executed(attempts[r])
             was == Life!As(s, o, d, b)
             read == ReadNow(r)
  <1>1. LifeOf(r) = was /\ d \in Nat /\ b \in BOOLEAN
    BY LifeFields DEF Executed
  <1>2. s = "OPEN" => ~b
    BY DEF ActedOnLeavesOpen, Executed
  <1>3. /\ v.new = <<>> => Len(v.new) = 0 /\ ~Executed(v.new)
        /\ v.new # <<>> => Len(v.new) = 1
        /\ Idle(v) => ~Executed(v.new)
        /\ Executed(v.new) \in BOOLEAN
    BY PlanFields DEF Executed
  <1>4. LifeAfter(r, v) = Life!As(IF v.status = Keep THEN s ELSE v.status,
                                  IF v.outcome = NoOutcome THEN o ELSE v.outcome,
                                  d + Len(v.new), b \/ Executed(v.new))
    BY DEF LifeAfter
  <1>5. /\ read.status = s /\ read.decisions = d
        /\ s \in {"OPEN", "IN_RECOVERY"} /\ o = NoOutcome
        /\ Planned(r, v, read)
    BY DEF ReadHolds, ReadNow, Unresolved
  <1>6. read.status = "IN_RECOVERY" /\ v.new # <<>> => b \/ ~Repeats(r, v, read)
    BY DEF Repeats
  <1>7. v.outcome = "NOT_RECOVERED" => b \/ ~Concludes(r, v, read)
    BY DEF Concludes
  <1> HIDE DEF s, o, d, b, was, read
  <1> SUFFICES LifeAfter(r, v) = was \/ Life!Moves(was, LifeAfter(r, v))
    BY <1>1 DEF Goes
  <1>8. CASE Concludes(r, v, read)
    <2>1. /\ v.new = <<>> /\ d > 0
          /\ \/ v.status = "RECOVERED" /\ v.outcome = "RECOVERED"
             \/ v.status = "EXPIRED" /\ v.outcome = "EXPIRED"
             \/ /\ v.status = "LOST" /\ v.outcome = "NOT_RECOVERED"
                /\ s = "IN_RECOVERY" /\ d >= MaxTries
      BY <1>5, <1>8 DEF Concludes
    <2>2. LifeAfter(r, v) = Life!As(v.status, v.outcome, d, b)
      <3>1. v.status # Keep /\ v.outcome # NoOutcome
        BY <2>1 DEF Keep, NoOutcome
      <3>2. d + Len(v.new) = d /\ (b \/ Executed(v.new)) = b
        BY <1>1, <1>3, <2>1
      <3> QED
        BY <1>4, <3>1, <3>2
    <2>3. CASE v.outcome \in {"RECOVERED", "EXPIRED"}
      <3>1. v.status = v.outcome
        BY <2>1, <2>3
      <3> QED
        BY <1>1, <1>5, <2>1, <2>2, <2>3, <3>1, MovesByField DEF was
    <2>4. CASE v.outcome = "NOT_RECOVERED"
      <3>1. v.status = "LOST" /\ s = "IN_RECOVERY" /\ b = TRUE /\ d >= MaxTries
        BY <1>1, <1>7, <1>8, <2>1, <2>4
      <3>2. Life!Moves(was, Life!As("LOST", "NOT_RECOVERED", d, TRUE))
        BY <1>1, <1>5, <3>1, MovesByField DEF was
      <3> QED
        BY <2>2, <2>4, <3>1, <3>2
    <2> QED
      BY <2>1, <2>3, <2>4
  <1>9. CASE Dismisses(v, read)
    <2>1. /\ v.new = <<>> /\ v.status = "RECOVERED" /\ v.outcome = NoOutcome
          /\ s = "OPEN" /\ d = 0
      BY <1>5, <1>9 DEF Dismisses
    <2>2. LifeAfter(r, v) = Life!As("RECOVERED", o, d, b)
      BY <1>1, <1>3, <1>4, <2>1 DEF Keep
    <2> QED
      BY <1>1, <2>1, <2>2, MovesByField DEF was
  <1>10. ASSUME v.new = <<>>, v.status = Keep, v.outcome = NoOutcome
        PROVE  LifeAfter(r, v) = was
    <2>1. d + 0 = d /\ (b \/ FALSE) = b
      BY <1>1
    <2>2. LifeAfter(r, v) = Life!As(s, o, d + 0, b \/ FALSE)
      BY <1>3, <1>4, <1>10
    <2> QED
      BY <2>1, <2>2 DEF was
  <1>11. CASE Decides(v, read)
    <2>1. /\ s = "OPEN" /\ v.outcome = NoOutcome
          /\ \/ v.status = Keep /\ Idle(v)
             \/ v.status = "SUPPRESSED" /\ Idle(v) /\ v.new # <<>>
             \/ v.status = "IN_RECOVERY" /\ v.new # <<>>
      BY <1>5, <1>11 DEF Decides
    <2>2. CASE v.new = <<>>
      BY <1>10, <2>1, <2>2
    <2>3. CASE v.new # <<>> /\ v.status = "IN_RECOVERY"
      <3>1. LifeAfter(r, v) = Life!As("IN_RECOVERY", o, d + 1, b \/ Executed(v.new))
        BY <1>3, <1>4, <2>1, <2>3 DEF Keep
      <3> QED
        BY <1>1, <1>2, <1>3, <2>1, <3>1, MovesByField DEF was
    <2>4. CASE v.new # <<>> /\ v.status # "IN_RECOVERY"
      <3>1. PICK s1 \in {"OPEN", "SUPPRESSED"} :
                s1 = IF v.status = Keep THEN s ELSE v.status
        BY <2>1, <2>4
      <3>2. LifeAfter(r, v) = Life!As(s1, o, d + 1, b)
        BY <1>1, <1>3, <1>4, <2>1, <2>4, <3>1
      <3> QED
        BY <1>1, <2>1, <3>2, MovesByField DEF was
    <2> QED
      BY <2>2, <2>3, <2>4
  <1>12. CASE Repeats(r, v, read)
    <2>1. s = "IN_RECOVERY" /\ v.status = Keep /\ v.outcome = NoOutcome
      BY <1>5, <1>12 DEF Repeats
    <2>2. CASE v.new = <<>>
      BY <1>10, <2>1, <2>2
    <2>3. CASE v.new # <<>>
      <3>1. b = TRUE
        BY <1>1, <1>5, <1>6, <1>12, <2>1, <2>3
      <3>2. LifeAfter(r, v) = Life!As(s, o, d + 1, TRUE)
        BY <1>3, <1>4, <2>1, <2>3, <3>1
      <3> QED
        BY <1>1, <2>1, <3>1, <3>2, MovesByField DEF was
    <2> QED
      BY <2>2, <2>3
  <1> QED
    BY <1>5, <1>8, <1>9, <1>10, <1>11, <1>12 DEF Planned

\* Whatever a plan was worked out from, it writes over a row only what LossLife allows.
LEMMA PlanOverwrites ==
    ASSUME TypeOK, NEW r \in Losses, NEW v, NEW read, PlanHolds(r, v), ReadHolds(r, v, read),
           v.outcome # NoOutcome => outcome[r] = NoOutcome
    PROVE  Life!Overwritten(LifeOf(r), LifeAfter(r, v))
  <1> DEFINE s == status[r]
             o == outcome[r]
             d == Len(attempts[r])
             b == Executed(attempts[r])
             s1 == IF v.status = Keep THEN s ELSE v.status
             o1 == IF v.outcome = NoOutcome THEN o ELSE v.outcome
             d1 == d + Len(v.new)
             b1 == b \/ Executed(v.new)
             was == LifeOf(r)
             is == LifeAfter(r, v)
  <1>1. /\ was.stage = s /\ was.outcome = o /\ was.decisions = d /\ was.acted = b
        /\ is.stage = s1 /\ is.outcome = o1 /\ is.decisions = d1 /\ is.acted = b1
    BY LifeFields DEF LifeAfter, Life!As
  <1>2. d1 \in {d, d + 1}
    <2>1. Len(v.new) = 0 \/ Len(v.new) = 1
      BY PlanFields
    <2>2. d \in Nat
      BY LifeFields
    <2>3. \A x \in Nat : x + 0 = x
      OBVIOUS
    <2>4. ASSUME NEW x \in Nat, NEW y, y = 0 \/ y = 1 PROVE x + y \in {x, x + 1}
      BY <2>3, <2>4
    <2> QED
      BY <2>1, <2>2, <2>4
  <1>3. s # "ABSENT" /\ Planned(r, v, read)
    BY DEF ReadHolds
  <1>4. \/ o1 = o /\ s1 \in {s, "IN_RECOVERY", "SUPPRESSED", "RECOVERED"}
        \/ /\ o = NoOutcome
           /\ <<s1, o1>> \in {<<"RECOVERED", "RECOVERED">>, <<"EXPIRED", "EXPIRED">>,
                              <<"LOST", "NOT_RECOVERED">>}
    BY <1>3 DEF Planned, Concludes, Dismisses, Decides, Repeats, Keep, NoOutcome
  <1>5. b => b1
    OBVIOUS
  <1> HIDE DEF s, o, d, b, s1, o1, d1, b1, was, is
  <1>6. NoOutcome = Life!NoOutcome
    BY DEF NoOutcome, Life!NoOutcome
  <1> QED
    BY <1>1, <1>2, <1>3, <1>4, <1>5, <1>6 DEF Life!Overwritten, s, was, is

\* A message that leaves, or is dropped, is one move of its row.
LEMMA SendGoes ==
    ASSUME TypeOK, TypeOK', ActedOnLeavesOpen, NEW q \in Losses, Send(q) \/ DropQueued(q),
           NEW r \in Losses
    PROVE  Goes(LifeOf(r), LifeOf(r)')
  <1>1. UNCHANGED <<status, outcome>>
    BY SendCases
  <1>2. CASE r # q
    <2>1. attempts'[r] = attempts[r]
      BY <1>2, SendElsewhere
    <2> QED
      BY <1>1, <2>1 DEF Goes, LifeOf
  <1>3. CASE r = q
    <2>1. PICK n \in 1..Len(attempts[r]), a \in Attempt :
            /\ n \in DOMAIN attempts[r] /\ Queued(attempts[r][n])
            /\ attempts' = [attempts EXCEPT ![r] = [attempts[r] EXCEPT ![n] = a]]
            /\ attempts'[r] \in Seq(Attempt) /\ DOMAIN attempts'[r] = DOMAIN attempts[r]
      BY <1>3, SendCases
    <2>2. /\ attempts[r] \in Seq(Attempt) /\ Len(attempts[r]) \in Nat
          /\ DOMAIN attempts[r] = 1..Len(attempts[r])
      BY AttemptsAre
    <2>3. attempts'[r] = [attempts[r] EXCEPT ![n] = a]
      BY <2>1 DEF TypeOK
    <2>4. Len(attempts'[r]) = Len(attempts[r]) /\ Len(attempts[r]) > 0
      <3>1. /\ Len(attempts'[r]) \in Nat
            /\ DOMAIN attempts'[r] = 1..Len(attempts'[r])
        BY <2>1, LenProperties
      <3>2. 1..Len(attempts'[r]) = 1..Len(attempts[r])
        BY <2>1, <2>2, <3>1
      <3> QED
        BY <2>1, <2>2, <3>1, <3>2
    <2>5. Executed(attempts'[r]) = (Executed(attempts[r]) \/ a.executedAt # Never)
      <3>1. attempts[r][n].executedAt = Never /\ n \in DOMAIN attempts[r]
        BY <2>1 DEF Queued
      <3>2. \A m \in DOMAIN attempts[r] :
                attempts'[r][m] = IF m = n THEN a ELSE attempts[r][m]
        BY <2>3, <3>1
      <3>3. DOMAIN attempts'[r] = DOMAIN attempts[r]
        BY <2>1
      <3> QED
        BY <3>1, <3>2, <3>3 DEF Executed
    <2>6. status[r] \in {"IN_RECOVERY", "RECOVERED", "EXPIRED", "LOST"}
      <3>1. status[r] \notin {"ABSENT", "OPEN", "SUPPRESSED"}
        BY <2>1 DEF ActedOnLeavesOpen
      <3> QED
        BY <3>1 DEF TypeOK, Unresolved, Closed
    <2>7. /\ LifeOf(r) = Life!As(status[r], outcome[r], Len(attempts[r]),
                                 Executed(attempts[r]))
          /\ LifeOf(r)' = Life!As(status[r], outcome[r], Len(attempts[r]),
                                  Executed(attempts'[r]))
      BY <1>1, <2>4 DEF LifeOf, Life!As, Executed
    <2>8. CASE a.executedAt = Never
      <3>1. Executed(attempts'[r]) = Executed(attempts[r])
        BY <2>5, <2>8 DEF Executed
      <3> QED
        BY <2>7, <3>1 DEF Goes
    <2>9. CASE a.executedAt # Never
      <3>1. Executed(attempts'[r]) = TRUE /\ Executed(attempts[r]) \in BOOLEAN
        BY <2>5, <2>9 DEF Executed
      <3>2. LifeOf(r)' = Life!As(status[r], outcome[r], Len(attempts[r]), TRUE)
        BY <2>7, <3>1
      <3> QED
        BY <2>2, <2>4, <2>6, <2>7, <3>1, <3>2, MovesByField DEF Goes
    <2> QED
      BY <2>8, <2>9
  <1> QED
    BY <1>2, <1>3

\* A plan that is empty writes nothing.
LEMMA NothingWritten ==
    ASSUME TypeOK, NEW p \in Procs, Commit(p), NEW r \in Losses,
           txn[p].verdict[r] = Unchanged
    PROVE  status'[r] = status[r] /\ outcome'[r] = outcome[r] /\ attempts'[r] = attempts[r]
  <1>1. /\ txn[p].verdict[r].status = Keep /\ txn[p].verdict[r].outcome = NoOutcome
        /\ txn[p].verdict[r].new = <<>>
    BY DEF Unchanged
  <1>2. /\ status'[r] = status[r] /\ outcome'[r] = outcome[r]
        /\ attempts'[r] = attempts[r] \o <<>>
    BY <1>1 DEF Commit
  <1>3. attempts[r] \o <<>> = attempts[r]
    BY ConcatEmptySeq DEF TypeOK
  <1> QED
    BY <1>2, <1>3

\* A session that writes a row writes over it, or the row is as it was read.
LEMMA CommitsFreshOrOver ==
    ASSUME TypeOK, NEW p \in Procs, Commit(p), NEW r \in Losses
    PROVE  \/ txn[p].verdict[r] = Unchanged
           \/ txn[p].read[r] = ReadNow(r)
           \/ Overwriting(r)
  <1>1. txn[p].open /\ ~txn'[p].open
    BY DEF Commit, TypeOK, NoTxn
  <1>2. <<p, r>> \notin Torn'
    BY <1>1 DEF Torn
  <1>3. txn[p].verdict[r] # Unchanged /\ txn[p].read[r] # ReadNow(r) => <<p, r>> \in Torn
    BY <1>1 DEF Torn
  <1> QED
    BY <1>2, <1>3 DEF Overwriting

\* One move leaves stage and outcome in agreement, and what is closed closed.
LEMMA GoesAgree ==
    ASSUME TypeOK, TypeOK', RowsInv, NEW r \in Losses, Agrees(r),
           Goes(LifeOf(r), LifeOf(r)')
    PROVE  Agrees(r)'
  <1> DEFINE s == status[r]
             o == outcome[r]
             d == Len(attempts[r])
             s1 == status'[r]
             o1 == outcome'[r]
             d1 == Len(attempts'[r])
             was == LifeOf(r)
             is == LifeOf(r)'
  <1>1. /\ was.stage = s /\ was.outcome = o /\ was.decisions = d
        /\ is.stage = s1 /\ is.outcome = o1 /\ is.decisions = d1
    BY DEF LifeOf
  <1>2. d \in Nat /\ (attempts[r] = <<>> => d = 0)
    BY LifeFields
  <1>3. d1 = 0 => attempts'[r] = <<>>
    <2>1. attempts'[r] \in Seq(Attempt)
      BY DEF TypeOK
    <2> QED
      BY <2>1, EmptySeq
  <1>4. s \in {"ABSENT", "OPEN"} => o = NoOutcome
    BY DEF RowsInv
  <1>5. /\ o = "EXPIRED" <=> s = "EXPIRED"
        /\ o = "NOT_RECOVERED" <=> s = "LOST"
        /\ o = "RECOVERED" => s = "RECOVERED"
        /\ s = "RECOVERED" /\ o = NoOutcome => d = 0
    BY <1>2 DEF Agrees
  <1> HIDE DEF s, o, d, s1, o1, d1, was, is
  <1>6. Goes(was, is)
    BY DEF was, is
  <1>7. /\ o1 = "EXPIRED" <=> s1 = "EXPIRED"
        /\ o1 = "NOT_RECOVERED" <=> s1 = "LOST"
        /\ o1 = "RECOVERED" => s1 = "RECOVERED"
        /\ s1 = "RECOVERED" /\ o1 = NoOutcome => d1 = 0
    <2>1. CASE is = was
      BY <1>1, <1>5, <2>1
    <2>2. CASE Life!Detected(was, is) \/ Life!PaidUnasked(was, is)
      <3>1. /\ s \in {"ABSENT", "OPEN"} /\ o1 = o
            /\ s1 = "OPEN" \/ (s1 = "RECOVERED" /\ d1 = 0)
        <4>1. ASSUME Life!Detected(was, is)
              PROVE  s = "ABSENT" /\ o1 = o /\ s1 = "OPEN"
          BY <1>1, <4>1 DEF Life!Detected, Life!As
        <4>2. ASSUME Life!PaidUnasked(was, is)
              PROVE  s = "OPEN" /\ o1 = o /\ s1 = "RECOVERED" /\ d1 = 0
          BY <1>1, <4>2 DEF Life!PaidUnasked, Life!As
        <4> QED
          BY <2>2, <4>1, <4>2
      <3> QED
        BY <1>4, <3>1 DEF NoOutcome
    <2>3. CASE Life!Refused(was, is) \/ Life!TakenUp(was, is)
      <3>1. s = "OPEN" /\ o1 = o /\ s1 \in {"OPEN", "SUPPRESSED", "IN_RECOVERY"}
        BY <1>1, <2>3 DEF Life!Refused, Life!TakenUp, Life!As
      <3> QED
        BY <1>4, <3>1 DEF NoOutcome
    <2>4. CASE Life!TriedAgain(was, is)
      BY <1>1, <1>5, <2>4 DEF Life!TriedAgain, Life!As
    <2>5. CASE Life!ActedOn(was, is)
      <3>1. s1 = s /\ o1 = o /\ d > 0
        BY <1>1, <2>5 DEF Life!ActedOn, Life!As
      <3>2. d # 0
        BY <1>2, <3>1
      <3> QED
        BY <1>5, <3>1, <3>2
    <2>6. CASE Life!Concluded(was, is) \/ Life!GivenUp(was, is)
      <3>1. <<s1, o1>> \in {<<"RECOVERED", "RECOVERED">>, <<"EXPIRED", "EXPIRED">>,
                             <<"LOST", "NOT_RECOVERED">>}
        BY <1>1, <2>6 DEF Life!Concluded, Life!GivenUp, Life!As
      <3> QED
        BY <3>1 DEF NoOutcome
    <2> QED
      BY <1>6, <2>1, <2>2, <2>3, <2>4, <2>5, <2>6 DEF Goes, Life!Moves
  <1> QED
    BY <1>3, <1>7 DEF Agrees, s1, o1, d1

LEMMA GoesKeepClosed ==
    ASSUME NEW r \in Losses, status[r] \in Closed, Goes(LifeOf(r), LifeOf(r)')
    PROVE  status'[r] = status[r]
  <1> DEFINE was == LifeOf(r)
             is == LifeOf(r)'
  <1>1. was.stage = status[r] /\ is.stage = status'[r]
    BY DEF LifeOf
  <1>2. was.stage \notin {"ABSENT", "OPEN", "IN_RECOVERY"}
    BY <1>1 DEF Closed
  <1>3. Goes(was, is)
    OBVIOUS
  <1> HIDE DEF was, is
  <1> QED
    BY <1>1, <1>2, <1>3
    DEF Goes, Life!Moves, Life!Detected, Life!PaidUnasked, Life!Refused, Life!TakenUp,
        Life!TriedAgain, Life!ActedOn, Life!Concluded, Life!GivenUp, Life!As

\* A step is one move of every row, or else a session overwrites what it has not seen.
LEMMA StepGoes ==
    ASSUME LifeInv, TypeOK', [Next]_vars, NEW r \in Losses
    PROVE  \/ Goes(LifeOf(r), LifeOf(r)')
           \/ Overwriting(r) /\ Life!Overwritten(LifeOf(r), LifeOf(r)')
  <1>t. TypeOK /\ AttemptsTimely /\ ActedOnLeavesOpen
    BY DEF LifeInv, EvidenceInv
  <1>1. ASSUME UNCHANGED bookVars PROVE Goes(LifeOf(r), LifeOf(r)')
    <2>1. LifeOf(r)' = LifeOf(r)
      BY <1>1 DEF LifeOf, bookVars
    <2> QED
      BY <2>1 DEF Goes
  <1>2. ASSUME NEW q \in Losses, OpenAtRisk(q) PROVE Goes(LifeOf(r), LifeOf(r)')
    <2>1. /\ status[q] = "ABSENT" /\ UNCHANGED <<outcome, attempts>>
          /\ status'[r] = IF r = q THEN "OPEN" ELSE status[r]
      BY <1>2, <1>t DEF OpenAtRisk, TypeOK
    <2>2. CASE r = q
      <3>1. /\ LifeOf(r) = Life!As("ABSENT", outcome[r], Len(attempts[r]),
                                   Executed(attempts[r]))
            /\ LifeOf(r)' = Life!As("OPEN", outcome[r], Len(attempts[r]),
                                    Executed(attempts[r]))
        BY <2>1, <2>2 DEF LifeOf, Life!As, Executed
      <3>2. Len(attempts[r]) \in Nat /\ Executed(attempts[r]) \in BOOLEAN
        BY <1>t, LifeFields DEF Executed
      <3> QED
        BY <3>1, <3>2, MovesByField DEF Goes
    <2>3. CASE r # q
      <3>1. LifeOf(r)' = LifeOf(r)
        BY <2>1, <2>3 DEF LifeOf
      <3> QED
        BY <3>1 DEF Goes
    <2> QED
      BY <2>2, <2>3
  <1>3. ASSUME NEW p \in Procs, OpensWorked(p) \/ Rollback(p) PROVE UNCHANGED bookVars
    BY <1>3 DEF OpensWorked, Begin, Rollback
  <1>4. ASSUME NEW p \in Procs, Commit(p)
        PROVE  \/ Goes(LifeOf(r), LifeOf(r)')
               \/ Overwriting(r) /\ Life!Overwritten(LifeOf(r), LifeOf(r)')
    <2>1. LifeOf(r)' = LifeAfter(r, txn[p].verdict[r])
      BY <1>4, <1>t, CommitAfter
    <2>2. \/ txn[p].verdict[r] = Unchanged \/ txn[p].read[r] = ReadNow(r)
          \/ Overwriting(r)
      BY <1>4, <1>t, CommitsFreshOrOver
    <2>3. PICK v, read : v = txn[p].verdict[r] /\ read = txn[p].read[r]
      OBVIOUS
    <2>4. /\ v.outcome # NoOutcome => outcome[r] = NoOutcome
          /\ v = Unchanged \/ ReadHolds(r, v, read)
          /\ PlanHolds(r, v)
      <3>1. PlanHolds(r, txn[p].verdict[r])
        BY DEF LifeInv, EvidenceInv, PlansHold
      <3> QED
        BY <1>4, <2>3, <3>1, CommitPlan
    <2>5. CASE v = Unchanged
      <3>1. LifeOf(r)' = LifeOf(r)
        <4>1. UNCHANGED <<status[r], outcome[r], attempts[r]>>
          BY <1>4, <1>t, <2>3, <2>5, NothingWritten
        <4> QED
          BY <4>1 DEF LifeOf
      <3> QED
        BY <3>1 DEF Goes
    <2>6. CASE v # Unchanged /\ read = ReadNow(r)
      <3>1. ReadHolds(r, v, ReadNow(r))
        BY <2>4, <2>6
      <3> QED
        BY <1>t, <2>1, <2>3, <2>4, <3>1, FreshGoes
    <2>7. CASE v # Unchanged /\ read # ReadNow(r)
      <3>1. Overwriting(r)
        BY <2>2, <2>3, <2>7
      <3>2. Life!Overwritten(LifeOf(r), LifeAfter(r, v))
        BY <1>t, <2>4, <2>7, PlanOverwrites
      <3> QED
        BY <2>1, <2>3, <3>1, <3>2
    <2> QED
      BY <2>5, <2>6, <2>7
  <1> QED
    BY <1>t, <1>1, <1>2, <1>3, <1>4, SendGoes, StepCases DEF Idles

\* A reading goes out of date only when its row moves.
LEMMA TornGrows ==
    ASSUME LifeInv, [Next]_vars
    PROVE  Torn' \subseteq Torn \cup (Procs \X {r \in Losses : LifeOf(r)' # LifeOf(r)})
  <1>t. TypeOK /\ AttemptsTimely /\ TokensTimely /\ ActedOnLeavesOpen
    BY DEF LifeInv, EvidenceInv
  <1> SUFFICES ASSUME NEW q \in Procs, NEW r \in Losses, <<q, r>> \in Torn',
                      LifeOf(r)' = LifeOf(r)
               PROVE  <<q, r>> \in Torn
    BY DEF Torn
  <1>1. txn'[q].open /\ txn'[q].verdict[r] # Unchanged /\ txn'[q].read[r] # ReadNow(r)'
    BY DEF Torn
  <1>2. ReadNow(r)' = ReadNow(r)
    <2>1. ReadNow(r) = [status |-> LifeOf(r).stage, outcome |-> LifeOf(r).outcome,
                        decisions |-> LifeOf(r).decisions]
      BY DEF ReadNow, LifeOf
    <2>2. ReadNow(r)' = [status |-> LifeOf(r)'.stage, outcome |-> LifeOf(r)'.outcome,
                         decisions |-> LifeOf(r)'.decisions]
      BY DEF ReadNow, LifeOf
    <2> QED
      BY <2>1, <2>2
  <1>3. CASE txn'[q] = txn[q]
    BY <1>1, <1>2, <1>3 DEF Torn
  <1>4. CASE txn'[q] = NoTxn
    BY <1>1, <1>4 DEF NoTxn
  <1>5. CASE OpensWorked(q)
    <2>1. PICK verdict \in [Losses -> Verdict], paid \in Entities \cup {Nobody},
               token \in Tokens, at \in Nat :
            Begin(q, verdict, paid, token, at)
      BY <1>5 DEF OpensWorked
    <2>2. /\ txn'[q].verdict = verdict
          /\ txn'[q].read[r] = IF verdict[r] = Unchanged THEN NotRead ELSE ReadNow(r)
      BY <1>t, <2>1 DEF Begin, TypeOK
    <2> QED
      BY <1>1, <1>2, <2>2
  <1> QED
    BY <1>t, <1>3, <1>4, <1>5, TxnCases

LEMMA LifeStep ==
    ASSUME LifeInv, TypeOK', [Next]_vars
    PROVE  Life!LifeNext
  <1>1. DOMAIN Lives' = Losses
    BY DEF Lives
  <1>2. \A r \in Losses : Lives[r] = LifeOf(r) /\ Lives'[r] = LifeOf(r)'
    BY DEF Lives
  <1>3. \A r \in Losses :
            \/ Lives'[r] = Lives[r] \/ Life!Moves(Lives[r], Lives'[r])
            \/ /\ \E p \in Procs : <<p, r>> \in Torn \ Torn'
               /\ Life!Overwritten(Lives[r], Lives'[r])
    BY <1>2, StepGoes DEF Goes, Overwriting
  <1>4. Torn' \subseteq Torn \cup (Procs \X {r \in Losses : Lives'[r] # Lives[r]})
    BY <1>2, TornGrows
  <1> QED
    BY <1>1, <1>3, <1>4 DEF Life!LifeNext

\* At first there is no loss, and nothing is read.
LEMMA LifeStart == Init => Life!LifeInit
  <1> SUFFICES ASSUME Init PROVE Life!LifeInit
    OBVIOUS
  <1>1. \A r \in Losses : LifeOf(r) = Life!As("ABSENT", Life!NoOutcome, 0, FALSE)
    <2>1. Len(<<>>) = 0 /\ DOMAIN <<>> = {}
      OBVIOUS
    <2>2. \A r \in Losses : (\E n \in DOMAIN attempts[r] : attempts[r][n].executedAt # Never)
                                = FALSE
      BY <2>1 DEF Init
    <2> QED
      BY <2>1, <2>2 DEF Init, LifeOf, Life!As, Life!NoOutcome, NoOutcome
  <1>2. Torn = {}
    BY DEF Init, Torn, NoTxn
  <1> QED
    BY <1>1, <1>2 DEF Life!LifeInit, Lives

\* Every loss lives the life that LossLife promises, although four transactions of four
\* modules write it in sessions that do not see each other: what a session that read an
\* earlier stage overwrites keeps its outcome, its decisions and what was done
\* (attribution.py, batch.py, nudge_retry.py and detect.py write by primary key).
THEOREM LedgerKeepsLossLife == Spec => ImplementsLossLife
  <1>1. LifeInv /\ LifeInv' /\ [Next]_vars => Life!LifeNext
    <2>1. LifeInv' => TypeOK'
      BY DEF LifeInv, EvidenceInv
    <2> QED
      BY <2>1, LifeStep
  <1> QED
    BY <1>1, LifeStart, LifeInvAlways, PTL DEF Spec, ImplementsLossLife, Life!LifeSpec

\* Whichever transaction closes a row, row and outcome go on to tell the same story, unless
\* the session that writes it had read it before another one wrote it (attribution.py,
\* nudge_retry.py, batch.py and on_payment_succeeded of detect.py).
THEOREM OutcomesAgree == Spec => OutcomeAgrees
  <1>1. LifeInv /\ LifeInv' /\ [Next]_vars
            => [\A r \in Losses : Agrees(r) => Agrees(r)' \/ Overwriting(r)]_vars
    <2> SUFFICES ASSUME LifeInv, LifeInv', [Next]_vars, NEW r \in Losses, Agrees(r)
                 PROVE  Agrees(r)' \/ Overwriting(r)
      OBVIOUS
    <2>1. TypeOK' /\ TypeOK
      BY DEF LifeInv, EvidenceInv
    <2>2. Goes(LifeOf(r), LifeOf(r)') => Agrees(r)'
      BY <2>1, GoesAgree DEF LifeInv
    <2> QED
      BY <2>1, <2>2, StepGoes
  <1> QED
    BY <1>1, LifeInvAlways, PTL DEF Spec, OutcomeAgrees

\* What is closed stays what it is, unless a session that read it before it was closed
\* writes it (the batch's UPDATE of revenue_at_risk by primary key, bounds.py).
THEOREM ClosedStaysClosed == Spec => ClosedIsFinal
  <1>1. LifeInv /\ LifeInv' /\ [Next]_vars
            => [\A r \in Losses :
                   status[r] \in Closed => status'[r] = status[r] \/ Overwriting(r)]_vars
    <2> SUFFICES ASSUME LifeInv, LifeInv', [Next]_vars, NEW r \in Losses,
                        status[r] \in Closed
                 PROVE  status'[r] = status[r] \/ Overwriting(r)
      OBVIOUS
    <2>1. TypeOK'
      BY DEF LifeInv, EvidenceInv
    <2>2. Goes(LifeOf(r), LifeOf(r)') => status'[r] = status[r]
      BY GoesKeepClosed
    <2> QED
      BY <2>1, <2>2, StepGoes
  <1> QED
    BY <1>1, LifeInvAlways, PTL DEF Spec, ClosedIsFinal
=============================================================================
