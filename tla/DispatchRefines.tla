--------------------------- MODULE DispatchRefines ---------------------------
(***************************************************************************)
(* Closed rows stay closed, and the queue implements the outbox: theorems  *)
(* about the steps of DispatchWorker, from the lease invariant.            *)
(***************************************************************************)
EXTENDS DispatchProofs

\* The row a step of worker w closes was IN_FLIGHT: it was in w's hands.
LEMMA FinalStep ==
    ASSUME TypeOK, LeaseInv, PromptNext \/ UNCHANGED vars,
           NEW e \in Dispatches, status[e] \in Terminal
    PROVE  status'[e] = status[e]
  <1> USE DEF rowVars
  <1>0. status[e] \notin {"ABSENT", "PENDING", "IN_FLIGHT"}
    BY DEF Terminal, Dropped
  <1>1. ASSUME NEW d \in Dispatches, Enqueue(d) PROVE status'[e] = status[e]
    BY <1>0, <1>1 DEF Enqueue, TypeOK
  <1>2. ASSUME NEW w \in Workers, Claim(w) PROVE status'[e] = status[e]
    BY <1>0, <1>2 DEF Claim, Claimable
  <1>3. ASSUME NEW w \in Workers, NEW d \in Dispatches, Picks(w, d),
               status' = status \/ \E s : status' = [status EXCEPT ![d] = s]
        PROVE  status'[e] = status[e]
    BY <1>0, <1>3, NextInBatch DEF TypeOK
  <1>4. ASSUME NEW w \in Workers, phase[w] \in {"calling", "accepted", "recorded"},
               \E s : status' = [status EXCEPT ![cur[w]] = s]
        PROVE  status'[e] = status[e]
    BY <1>0, <1>4, InHand DEF TypeOK
  <1>5. ASSUME NEW w \in Workers, NEW d \in Dispatches,
               Skip(w, d) \/ CallProvider(w, d)
        PROVE  status'[e] = status[e]
    BY <1>5 DEF Skip, CallProvider
  <1>6. ASSUME NEW w \in Workers, NEW d \in Dispatches,
               Recover(w, d) \/ Expire(w, d) \/ Suppress(w, d) \/ Defer(w, d)
        PROVE  status'[e] = status[e]
    <2>1. Picks(w, d) /\ \E s : status' = [status EXCEPT ![d] = s]
      BY <1>6 DEF Recover, Expire, Suppress, Defer, Sendable, Drop
    <2> QED
      BY <1>3, <2>1
  <1>7. ASSUME NEW w \in Workers, NEW p \in BOOLEAN, NEW m \in BOOLEAN,
               ProviderFails(w, p, m)
        PROVE  status'[e] = status[e]
    BY <1>4, <1>7 DEF ProviderFails, Drop
  <1>8. ASSUME NEW w \in Workers, CommitSent(w) PROVE status'[e] = status[e]
    BY <1>4, <1>8 DEF CommitSent
  <1>9. ASSUME NEW w \in Workers,
               ProviderAccepts(w) \/ RecordId(w) \/ Crash(w) \/ ProcessError(w)
        PROVE  status'[e] = status[e]
    BY <1>9 DEF ProviderAccepts, RecordId, Crash, ProcessError
  <1>10. ASSUME \/ \E c \in Contacts : OptOut(c)
                \/ SwitchRecovery \/ Tick \/ UNCHANGED vars
         PROVE  status'[e] = status[e]
    BY <1>10 DEF OptOut, SwitchRecovery, Tick, vars
  <1> QED
    BY <1>1, <1>2, <1>5, <1>6, <1>7, <1>8, <1>9, <1>10
    DEF PromptNext, PromptTick, QueueNext, ProcessOne

\* A row that was closed is never reopened and never closed otherwise, although
\* _process_one neither locks the row it read nor checks its lease.
THEOREM ClosedRowsStayClosed == PromptSpec => ClosedIsFinal
  <1>1. TypeOK /\ LeaseInv /\ [PromptNext]_vars
          => [\A d \in Dispatches :
                 status[d] \in Terminal => status'[d] = status[d]]_vars
    BY FinalStep
  <1> QED
    BY <1>1, PromptInvariant, PTL DEF PromptSpec, ClosedIsFinal

-----------------------------------------------------------------------------
(* The refinement: each step of the workers is a step of the outbox.       *)

Outcome == [d \in Dispatches |-> OutcomeOf(d)]

\* What a row's status says of its message.
LEMMA OutcomeCases ==
    ASSUME NEW d \in Dispatches
    PROVE  /\ status[d] = "ABSENT" <=> OutcomeOf(d) = "absent"
           /\ status[d] \in Open <=> OutcomeOf(d) = "queued"
           /\ status[d] = "SENT" <=> OutcomeOf(d) = "delivered"
  BY DEF OutcomeOf, Open

\* A change of one row's status is a change of one message's outcome.
LEMMA OutcomeMoves ==
    ASSUME NEW c \in Dispatches, NEW s, TypeOK, status' = [status EXCEPT ![c] = s]
    PROVE  /\ s = "PENDING" => Outcome' = [Outcome EXCEPT ![c] = "queued"]
           /\ s = "SENT" => Outcome' = [Outcome EXCEPT ![c] = "delivered"]
           /\ s \in Dropped => Outcome' = [Outcome EXCEPT ![c] = "dropped"]
  <1>1. status'[c] = s /\ \A d \in Dispatches \ {c} : status'[d] = status[d]
    BY DEF TypeOK
  <1>2. \A d \in Dispatches \ {c} : OutcomeOf(d)' = OutcomeOf(d)
    BY <1>1 DEF OutcomeOf
  <1>3. /\ s = "PENDING" => OutcomeOf(c)' = "queued"
        /\ s = "SENT" => OutcomeOf(c)' = "delivered"
        /\ s \in Dropped => OutcomeOf(c)' = "dropped"
    BY <1>1 DEF OutcomeOf, Open, Dropped
  <1> QED
    BY <1>2, <1>3 DEF Outcome

\* A step that opens and closes nothing leaves the outcomes alone.
LEMMA OutcomeStays ==
    ASSUME \A d \in Dispatches :
              status'[d] = status[d] \/ (status[d] \in Open /\ status'[d] \in Open)
    PROVE  Outcome' = Outcome
  <1>1. \A d \in Dispatches : OutcomeOf(d)' = OutcomeOf(d)
    BY DEF OutcomeOf, Open
  <1> QED
    BY <1>1 DEF Outcome

\* The books of one row: with a trace one more acceptance than lost, else none.
LEMMA OnTheBooks ==
    ASSUME TypeOK, LeaseInv, NEW d \in Dispatches
    PROVE  /\ Traced(d) => sends[d] = lost[d] + 1
           /\ ~Traced(d) => sends[d] = lost[d]
           /\ sends[d] \in Nat /\ lost[d] \in Nat
  BY DEF LeaseInv, SendsAccountedFor, TypeOK

\* Init is the outbox's Init.
LEMMA OutboxInit == Init => Ledger!Init
  <1> SUFFICES ASSUME Init PROVE Ledger!Init
    OBVIOUS
  <1>1. \A d \in Dispatches : status[d] = "ABSENT"
    BY DEF Init
  <1>2. \A d \in Dispatches : OutcomeOf(d) = "absent"
    BY <1>1, OutcomeCases
  <1> QED
    BY <1>2 DEF Init, Ledger!Init

\* A message closed without a send: DropMessage.
LEMMA Drops ==
    ASSUME TypeOK, LeaseInv, NEW d \in Dispatches, status[d] = "IN_FLIGHT", ~Traced(d),
           NEW s \in Dropped, status' = [status EXCEPT ![d] = s],
           UNCHANGED <<sends, lost>>
    PROVE  Ledger!DropMessage(d)
  <1>1. OutcomeOf(d) = "queued"
    BY OutcomeCases DEF Open
  <1>2. Outcome' = [Outcome EXCEPT ![d] = "dropped"]
    BY OutcomeMoves
  <1> QED
    BY <1>1, <1>2, OnTheBooks DEF Outcome, Ledger!DropMessage

\* A message closed as sent: Deliver.
LEMMA Delivers ==
    ASSUME TypeOK, LeaseInv, NEW d \in Dispatches, status[d] = "IN_FLIGHT", Traced(d),
           status' = [status EXCEPT ![d] = "SENT"], UNCHANGED <<sends, lost>>
    PROVE  Ledger!Deliver(d)
  <1>1. OutcomeOf(d) = "queued"
    BY OutcomeCases DEF Open
  <1>2. Outcome' = [Outcome EXCEPT ![d] = "delivered"]
    BY OutcomeMoves
  <1> QED
    BY <1>1, <1>2, OnTheBooks DEF Outcome, Ledger!Deliver

\* The next row of a batch has a trace exactly when its id was committed.
LEMMA TraceOfNext ==
    ASSUME TypeOK, LeaseInv, NEW w \in Workers, NEW d \in Dispatches, Picks(w, d)
    PROVE  Traced(d) <=> messageId[d]
  BY NextInBatch DEF Traced

\* A row in hand has a trace exactly when the provider took the message.
LEMMA TraceInHand ==
    ASSUME TypeOK, LeaseInv, NEW w \in Workers,
           phase[w] \in {"calling", "accepted", "recorded"}
    PROVE  Traced(cur[w]) <=> phase[w] # "calling"
  <1>1. CASE phase[w] = "calling"
    BY <1>1, InHand DEF Traced, LeaseInv, IdMatchesPhase
  <1>2. CASE phase[w] \in {"accepted", "recorded"}
    BY <1>2 DEF Traced
  <1> QED
    BY <1>1, <1>2

\* A step that leaves the outcomes and the counters alone is a stutter.
LEMMA Stutters ==
    ASSUME UNCHANGED <<sends, lost>>,
           \A d \in Dispatches :
              status'[d] = status[d] \/ (status[d] \in Open /\ status'[d] \in Open)
    PROVE  UNCHANGED Ledger!vars
  BY OutcomeStays DEF Outcome, Ledger!vars

\* A fault that loses a trace is Forget, any other is a stutter.
LEMMA Forgets ==
    ASSUME TypeOK, LeaseInv, NEW w \in Workers, LoseTrace(w), status' = status
    PROVE  [Ledger!Next]_(Ledger!vars)
  <1>1. CASE phase[w] = "accepted"
    <2>1. PICK c \in Dispatches : c = cur[w] /\ status[c] = "IN_FLIGHT"
      BY <1>1, InHand
    <2>2. OutcomeOf(c) = "queued" /\ Outcome' = Outcome
      BY <2>1, OutcomeCases, OutcomeStays DEF Open
    <2>3. sends[c] > lost[c]
      BY <1>1, <2>1, TraceInHand, OnTheBooks
    <2>4. Ledger!Forget(c)
      BY <1>1, <2>1, <2>2, <2>3 DEF LoseTrace, Outcome, Ledger!Forget
    <2> QED
      BY <2>4 DEF Ledger!Next
  <1>2. CASE phase[w] # "accepted"
    BY <1>2, Stutters DEF LoseTrace
  <1> QED
    BY <1>1, <1>2

\* A provider failure: a stutter or DropMessage, and Misreport when the message
\* went out all the same.
LEMMA Fails ==
    ASSUME TypeOK, LeaseInv, NEW w \in Workers, NEW p \in BOOLEAN, NEW m \in BOOLEAN,
           ProviderFails(w, p, m)
    PROVE  [Ledger!Next]_(Ledger!vars)
  <1> USE DEF historyVars
  <1>1. PICK c \in Dispatches : c = cur[w] /\ status[c] = "IN_FLIGHT" /\ ~Traced(c)
    BY InHand, TraceInHand DEF ProviderFails
  <1>2. PICK s \in {"FAILED", "PENDING"} : status' = [status EXCEPT ![c] = s]
    BY <1>1 DEF ProviderFails, Drop, LeaseInv, PhaseShape
  <1>3. OutcomeOf(c) = "queued" /\ sends[c] = lost[c]
    BY <1>1, OutcomeCases, OnTheBooks DEF Open
  <1>4. Outcome' = [Outcome EXCEPT ![c] = IF s = "FAILED" THEN "dropped" ELSE "queued"]
    BY <1>2, OutcomeMoves DEF Dropped
  <1>5. CASE m
    <2>1. /\ sends' = [sends EXCEPT ![c] = @ + 1]
          /\ lost' = [lost EXCEPT ![c] = @ + 1]
      BY <1>1, <1>5 DEF ProviderFails
    <2>2. Outcome' = [Outcome EXCEPT ![c] = IF s = "FAILED" THEN "dropped" ELSE @]
      BY <1>3, <1>4 DEF Outcome
    <2>3. Ledger!Misreport(c, s = "FAILED")
      BY <1>3, <2>1, <2>2 DEF Outcome, Ledger!Misreport
    <2> QED
      BY <2>3 DEF Ledger!Next
  <1>6. CASE ~m /\ s = "FAILED"
    <2>1. Ledger!DropMessage(c)
      BY <1>1, <1>2, <1>6, Drops DEF ProviderFails, Dropped
    <2> QED
      BY <2>1 DEF Ledger!Next
  <1>7. CASE ~m /\ s = "PENDING"
    BY <1>1, <1>2, <1>7, Stutters DEF ProviderFails, TypeOK, Open
  <1> QED
    BY <1>5, <1>6, <1>7

\* Every step of the workers is a step of the outbox, or leaves it alone.
LEMMA OutboxStep ==
    ASSUME TypeOK, LeaseInv, PromptNext \/ UNCHANGED vars
    PROVE  [Ledger!Next]_(Ledger!vars)
  <1> USE DEF rowVars, historyVars
  <1>1. ASSUME NEW d \in Dispatches, Enqueue(d) PROVE [Ledger!Next]_(Ledger!vars)
    <2>1. OutcomeOf(d) = "absent" /\ Outcome' = [Outcome EXCEPT ![d] = "queued"]
      BY <1>1, OutcomeCases, OutcomeMoves DEF Enqueue
    <2>2. Ledger!Queue(d)
      BY <1>1, <2>1 DEF Enqueue, Outcome, Ledger!Queue
    <2> QED
      BY <2>2 DEF Ledger!Next
  <1>2. ASSUME NEW w \in Workers, Claim(w) PROVE [Ledger!Next]_(Ledger!vars)
    BY <1>2, Stutters DEF Claim, Claimable, Open
  <1>3. ASSUME NEW w \in Workers, NEW d \in Dispatches, Recover(w, d)
        PROVE  [Ledger!Next]_(Ledger!vars)
    <2>1. Ledger!Deliver(d)
      BY <1>3, NextInBatch, TraceOfNext, Delivers DEF Recover
    <2> QED
      BY <2>1 DEF Ledger!Next
  <1>4. ASSUME NEW w \in Workers, NEW d \in Dispatches, Expire(w, d) \/ Suppress(w, d)
        PROVE  [Ledger!Next]_(Ledger!vars)
    <2>1. /\ Picks(w, d) /\ ~messageId[d] /\ UNCHANGED <<sends, lost>>
          /\ \E s \in Dropped : status' = [status EXCEPT ![d] = s]
      BY <1>4 DEF Expire, Suppress, Sendable, Drop, Dropped
    <2>2. Ledger!DropMessage(d)
      BY <2>1, NextInBatch, TraceOfNext, Drops
    <2> QED
      BY <2>2 DEF Ledger!Next
  <1>5. ASSUME NEW w \in Workers, NEW d \in Dispatches, Defer(w, d)
        PROVE  [Ledger!Next]_(Ledger!vars)
    BY <1>5, Stutters DEF Defer, Sendable, TypeOK, Open
  <1>6. ASSUME NEW w \in Workers, NEW d \in Dispatches, Skip(w, d) \/ CallProvider(w, d)
        PROVE  [Ledger!Next]_(Ledger!vars)
    BY <1>6, Stutters DEF Skip, CallProvider
  <1>7. ASSUME NEW w \in Workers, ProviderAccepts(w) PROVE [Ledger!Next]_(Ledger!vars)
    <2>1. PICK c \in Dispatches : c = cur[w] /\ status[c] = "IN_FLIGHT" /\ ~Traced(c)
      BY <1>7, InHand, TraceInHand DEF ProviderAccepts
    <2>2. OutcomeOf(c) = "queued" /\ sends[c] = lost[c] /\ Outcome' = Outcome
      BY <1>7, <2>1, OutcomeCases, OnTheBooks, OutcomeStays DEF ProviderAccepts, Open
    <2>3. Ledger!Accept(c)
      BY <1>7, <2>1, <2>2 DEF ProviderAccepts, Outcome, Ledger!Accept
    <2> QED
      BY <2>3 DEF Ledger!Next
  <1>8. ASSUME NEW w \in Workers, NEW p \in BOOLEAN, NEW m \in BOOLEAN,
               ProviderFails(w, p, m)
        PROVE  [Ledger!Next]_(Ledger!vars)
    BY <1>8, Fails
  <1>9. ASSUME NEW w \in Workers, CommitSent(w) PROVE [Ledger!Next]_(Ledger!vars)
    <2>1. PICK c \in Dispatches : c = cur[w] /\ status[c] = "IN_FLIGHT" /\ Traced(c)
      BY <1>9, InHand, TraceInHand DEF CommitSent
    <2>2. Ledger!Deliver(c)
      BY <1>9, <2>1, Delivers DEF CommitSent
    <2> QED
      BY <2>2 DEF Ledger!Next
  <1>10. ASSUME NEW w \in Workers, RecordId(w) PROVE [Ledger!Next]_(Ledger!vars)
    BY <1>10, Stutters DEF RecordId
  <1>11. ASSUME NEW w \in Workers, Crash(w) \/ ProcessError(w)
         PROVE  [Ledger!Next]_(Ledger!vars)
    BY <1>11, Forgets DEF Crash, ProcessError
  <1>12. ASSUME \/ \E c \in Contacts : OptOut(c)
                \/ SwitchRecovery \/ Tick \/ UNCHANGED vars
         PROVE  [Ledger!Next]_(Ledger!vars)
    BY <1>12, Stutters DEF OptOut, SwitchRecovery, Tick, vars
  <1> QED
    BY <1>1, <1>2, <1>3, <1>4, <1>5, <1>6, <1>7, <1>8, <1>9, <1>10, <1>11, <1>12
    DEF PromptNext, PromptTick, QueueNext, ProcessOne

\* Workers, leases, retries, deferrals, crashes and misreported sends together
\* implement the outbox.
THEOREM QueueImplementsOutbox == PromptSpec => ImplementsOutbox
  <1>1. TypeOK /\ LeaseInv /\ [PromptNext]_vars => [Ledger!Next]_(Ledger!vars)
    BY OutboxStep
  <1> QED
    BY <1>1, OutboxInit, PromptInvariant, PTL
    DEF PromptSpec, ImplementsOutbox, Ledger!OutboxSpec

\* No message is dropped that the provider took and left a trace of, none is
\* delivered that it did not take; it follows from the outbox.
THEOREM OutcomesAreHonest == PromptSpec => []HonestOutcomes
  <1>1. Ledger!Init => Ledger!OutboxTypeOK /\ Ledger!OutcomeIsHonest
    BY DEF Ledger!Init, Ledger!OutboxTypeOK, Ledger!OutcomeIsHonest, Ledger!Outcomes
  <1>2. ASSUME Ledger!OutboxTypeOK, Ledger!OutcomeIsHonest, [Ledger!Next]_(Ledger!vars)
        PROVE  (Ledger!OutboxTypeOK /\ Ledger!OutcomeIsHonest)'
    <2> USE DEF Ledger!OutboxTypeOK, Ledger!OutcomeIsHonest, Ledger!Outcomes
    <2>1. ASSUME NEW m \in Dispatches, Ledger!Queue(m)
          PROVE  (Ledger!OutboxTypeOK /\ Ledger!OutcomeIsHonest)'
      BY <1>2, <2>1 DEF Ledger!Queue
    <2>2. ASSUME NEW m \in Dispatches, Ledger!Accept(m)
          PROVE  (Ledger!OutboxTypeOK /\ Ledger!OutcomeIsHonest)'
      BY <1>2, <2>2 DEF Ledger!Accept
    <2>3. ASSUME NEW m \in Dispatches, Ledger!Forget(m)
          PROVE  (Ledger!OutboxTypeOK /\ Ledger!OutcomeIsHonest)'
      BY <1>2, <2>3 DEF Ledger!Forget
    <2>4. ASSUME NEW m \in Dispatches, NEW g \in BOOLEAN, Ledger!Misreport(m, g)
          PROVE  (Ledger!OutboxTypeOK /\ Ledger!OutcomeIsHonest)'
      <3>1. /\ sends' = [sends EXCEPT ![m] = @ + 1]
            /\ lost' = [lost EXCEPT ![m] = @ + 1]
            /\ Outcome' = [Outcome EXCEPT ![m] = IF g THEN "dropped" ELSE @]
            /\ Outcome[m] = "queued" /\ sends[m] = lost[m]
        BY <2>4 DEF Ledger!Misreport, Outcome
      <3>2. sends' \in [Dispatches -> Nat] /\ lost' \in [Dispatches -> Nat]
        BY <1>2, <3>1, BumpType
      <3>3. \A d \in Dispatches :
              /\ Outcome'[d] = IF d = m /\ g THEN "dropped" ELSE Outcome[d]
              /\ d = m => sends'[d] = lost'[d]
              /\ d # m => sends'[d] = sends[d] /\ lost'[d] = lost[d]
        BY <1>2, <3>1 DEF Outcome
      <3>4. Outcome' \in [Dispatches -> Ledger!Outcomes]
        BY <1>2, <3>3 DEF Outcome
      <3> QED
        BY <1>2, <3>1, <3>2, <3>3, <3>4 DEF Outcome
    <2>5. ASSUME NEW m \in Dispatches, Ledger!Deliver(m) \/ Ledger!DropMessage(m)
          PROVE  (Ledger!OutboxTypeOK /\ Ledger!OutcomeIsHonest)'
      BY <1>2, <2>5 DEF Ledger!Deliver, Ledger!DropMessage
    <2>6. CASE UNCHANGED Ledger!vars
      BY <1>2, <2>6 DEF Ledger!vars
    <2> QED
      BY <1>2, <2>1, <2>2, <2>3, <2>4, <2>5, <2>6 DEF Ledger!Next
  <1> QED
    BY <1>1, <1>2, QueueImplementsOutbox, PTL
    DEF ImplementsOutbox, Ledger!OutboxSpec, HonestOutcomes
=============================================================================
