--------------------------- MODULE DispatchProofs ---------------------------
(***************************************************************************)
(* Theorems about DispatchWorker, for every set of dispatches and workers  *)
(* and every value of the timeouts and limits.                             *)
(***************************************************************************)
EXTENDS DispatchWorker, FiniteSetTheorems, TLAPS

\* A reason to hold a message back is one of the named ones.
LEMMA SendTimeReasonType ==
    ASSUME NEW d \in Dispatches
    PROVE  SendTimeReason(d) \in AtSendReasons \cup {Allowed}
  BY DEF SendTimeReason, ChannelReason, AtSendReasons, ChannelReasons

\* The reasons that close an attempt are reasons of its type, and none of them is
\* the absence of a reason.
LEMMA ReasonsDiffer ==
    /\ NoReason \notin AtSendReasons \cup {"dispatch_expired_unsent", "dispatch_failed"}
    /\ AtSendReasons \cup {"dispatch_expired_unsent", "dispatch_failed", NoReason}
         = AttemptReasons
  BY DEF AtSendReasons, ChannelReasons, NoReason, AttemptReasons

\* The limits and timeouts are natural numbers, one fact each.
LEMMA ConstantTypes ==
    /\ LockTimeout \in Nat /\ StaleAfter \in Nat /\ DeferBy \in Nat
    /\ MaxTime \in Nat /\ MaxFaults \in Nat
    /\ Backoff \in [1..BackoffSteps -> Nat] /\ BackoffSteps \in Nat \ {0}
  BY ConstantsOK

\* Incrementing a counter of a table of counters, even at a key it does not have.
LEMMA BumpType ==
    ASSUME NEW S, NEW f \in [S -> Nat], NEW x
    PROVE  [f EXCEPT ![x] = @ + 1] \in [S -> Nat]
  <1>1. CASE x \in S
    <2>1. f[x] + 1 \in Nat
      BY <1>1
    <2> QED
      BY <2>1
  <1>2. CASE x \notin S
    BY <1>2
  <1> QED
    BY <1>1, <1>2

-----------------------------------------------------------------------------
(* Type correctness, of workers of any speed.                              *)

WorkersTypeOK ==
    /\ phase \in [Workers -> Phases]
    /\ batch \in [Workers -> SUBSET Dispatches]
    /\ cur \in [Workers -> Dispatches \cup {NoDispatch}]
    /\ seenAt \in [Workers -> Nat]
    /\ seenTries \in [Workers -> Nat]
    /\ seenPending \in [Workers -> BOOLEAN]

\* Leaving a row keeps the worker's variables well typed.
LEMMA GoOnWithType ==
    ASSUME TypeOK, NEW w \in Workers, NEW rest \in SUBSET Dispatches,
           GoOnWith(w, rest)
    PROVE  WorkersTypeOK'
  BY DEF TypeOK, WorkersTypeOK, GoOnWith, Phases, Never

\* Init is well typed.
LEMMA InitType == Init => TypeOK
  BY ConstantTypes
     DEF Init, TypeOK, Open, Terminal, Dropped, Never, AttemptReasons, Phases

\* A fault is counted within its budget, and loses at most the row in hand.
LEMMA LoseTraceType ==
    ASSUME TypeOK, NEW w \in Workers, LoseTrace(w)
    PROVE  lost' \in [Dispatches -> Nat] /\ faults' \in 0..MaxFaults
  <1>1. lost' \in [Dispatches -> Nat]
    BY BumpType DEF LoseTrace, TypeOK
  <1>2. faults' = faults + 1 /\ faults < MaxFaults
    BY DEF LoseTrace, MayFault
  <1> QED
    BY <1>1, <1>2, ConstantTypes DEF TypeOK

\* Closing an attempt without executing it keeps the types.
LEMMA DropType ==
    ASSUME TypeOK, NEW d \in Dispatches, NEW s \in Dropped,
           NEW r \in AtSendReasons \cup {"dispatch_expired_unsent", "dispatch_failed"},
           Drop(d, s, r)
    PROVE  /\ status' \in [Dispatches -> {"ABSENT"} \cup Open \cup Terminal]
           /\ reason' \in [Dispatches -> AttemptReasons]
           /\ UNCHANGED <<executedAt, sentAt>>
  <1>1. s \in Terminal
    BY DEF Terminal
  <1>2. r \in AttemptReasons
    BY ReasonsDiffer
  <1> QED
    BY <1>1, <1>2 DEF Drop, TypeOK

\* No step of any process leaves the types.
LEMMA NextType == TypeOK /\ [Next]_vars => TypeOK'
  <1> SUFFICES ASSUME TypeOK, [Next]_vars PROVE TypeOK'
    OBVIOUS
  <1> USE DEF rowVars, attemptVars, workerVars, switchVars, historyVars
  <1>a. \A w \in Workers : batch[w] \in SUBSET Dispatches
    BY DEF TypeOK
  <1>b. \A w \in Workers, d \in Dispatches : batch[w] \ {d} \in SUBSET Dispatches
    BY <1>a
  <1>1. ASSUME NEW d \in Dispatches, Enqueue(d) PROVE TypeOK'
    <2>1. clock \in Nat /\ clock + StaleAfter \in Nat
      BY ConstantTypes DEF TypeOK
    <2> QED
      BY <1>1, <2>1 DEF Enqueue, TypeOK, Open
  <1>2. ASSUME NEW w \in Workers, Claim(w) PROVE TypeOK'
    <2>1. PICK ids \in SUBSET Dispatches :
            /\ status' = [d \in Dispatches |-> IF d \in ids THEN "IN_FLIGHT" ELSE status[d]]
            /\ lockedUntil' = [d \in Dispatches |->
                                 IF d \in ids THEN clock + LockTimeout ELSE lockedUntil[d]]
            /\ phase' = [phase EXCEPT ![w] = "ready"]
            /\ batch' = [batch EXCEPT ![w] = ids]
      BY <1>2 DEF Claim, Claimable
    <2>2. clock + LockTimeout \in Nat
      BY ConstantTypes DEF TypeOK
    <2>3. lockedUntil' \in [Dispatches -> Nat]
      BY <2>1, <2>2 DEF TypeOK
    <2>4. status' \in [Dispatches -> {"ABSENT"} \cup Open \cup Terminal]
      BY <2>1 DEF TypeOK, Open
    <2> QED
      BY <1>2, <2>1, <2>3, <2>4 DEF Claim, TypeOK, Phases
  <1>3. ASSUME NEW w \in Workers, NEW d \in Dispatches, Skip(w, d) PROVE TypeOK'
    <2>1. WorkersTypeOK'
      BY <1>3, <1>b, GoOnWithType DEF Skip
    <2> QED
      BY <1>3, <2>1 DEF Skip, TypeOK, WorkersTypeOK
  <1>4. ASSUME NEW w \in Workers, NEW d \in Dispatches, Recover(w, d) PROVE TypeOK'
    <2>1. WorkersTypeOK'
      BY <1>4, <1>b, GoOnWithType DEF Recover
    <2> QED
      BY <1>4, <2>1 DEF Recover, TypeOK, WorkersTypeOK, Terminal
  <1>5. ASSUME NEW w \in Workers, NEW d \in Dispatches, Expire(w, d) PROVE TypeOK'
    <2>1. WorkersTypeOK'
      BY <1>5, <1>b, GoOnWithType DEF Expire
    <2>2. Drop(d, "EXPIRED", "dispatch_expired_unsent")
      BY <1>5 DEF Expire
    <2>3. /\ status' \in [Dispatches -> {"ABSENT"} \cup Open \cup Terminal]
          /\ reason' \in [Dispatches -> AttemptReasons]
          /\ UNCHANGED <<executedAt, sentAt>>
      BY <2>2, DropType DEF Dropped
    <2> QED
      BY <1>5, <2>1, <2>3 DEF Expire, TypeOK, WorkersTypeOK
  <1>6. ASSUME NEW w \in Workers, NEW d \in Dispatches, Suppress(w, d) PROVE TypeOK'
    <2>1. WorkersTypeOK'
      BY <1>6, <1>b, GoOnWithType DEF Suppress
    <2>2. SendTimeReason(d) \in AtSendReasons /\ Drop(d, "SUPPRESSED", SendTimeReason(d))
      BY <1>6, SendTimeReasonType DEF Suppress
    <2>3. /\ status' \in [Dispatches -> {"ABSENT"} \cup Open \cup Terminal]
          /\ reason' \in [Dispatches -> AttemptReasons]
          /\ UNCHANGED <<executedAt, sentAt>>
      BY <2>2, DropType DEF Dropped
    <2> QED
      BY <1>6, <2>1, <2>3 DEF Suppress, TypeOK, WorkersTypeOK
  <1>7. ASSUME NEW w \in Workers, NEW d \in Dispatches, Defer(w, d) PROVE TypeOK'
    <2>1. WorkersTypeOK'
      BY <1>7, <1>b, GoOnWithType DEF Defer
    <2>2. clock + DeferBy \in Nat
      BY ConstantTypes DEF TypeOK
    <2> QED
      BY <1>7, <2>1, <2>2 DEF Defer, TypeOK, WorkersTypeOK, Open, Never
  <1>8. ASSUME NEW w \in Workers, NEW d \in Dispatches, CallProvider(w, d) PROVE TypeOK'
    BY <1>8, <1>b DEF CallProvider, TypeOK, Phases
  <1>9. ASSUME NEW w \in Workers, ProviderAccepts(w) PROVE TypeOK'
    <2>1. sends' \in [Dispatches -> Nat]
      BY <1>9, BumpType DEF ProviderAccepts, TypeOK
    <2> QED
      BY <1>9, <2>1 DEF ProviderAccepts, TypeOK, Phases
  <1>10. ASSUME NEW w \in Workers, NEW p \in BOOLEAN, NEW m \in BOOLEAN,
                ProviderFails(w, p, m)
         PROVE TypeOK'
    <2> DEFINE d == cur[w]
               t == seenTries[w] + 1
               step == IF t < BackoffSteps THEN t ELSE BackoffSteps
    <2>1. WorkersTypeOK'
      BY <1>10, <1>a, GoOnWithType DEF ProviderFails
    <2>2. t \in Nat /\ step \in 1..BackoffSteps
      BY ConstantTypes DEF TypeOK
    <2>3. seenAt[w] + Backoff[step] \in Nat
      BY <2>2, ConstantTypes DEF TypeOK
    <2>4. tries' \in [Dispatches -> Nat]
      BY <1>10, <2>2 DEF ProviderFails, TypeOK
    <2>5. /\ sends' \in [Dispatches -> Nat]
          /\ lost' \in [Dispatches -> Nat]
          /\ faults' \in 0..MaxFaults
      <3>1. CASE m
        <4>1. sends' \in [Dispatches -> Nat] /\ lost' \in [Dispatches -> Nat]
          <5>1. /\ sends' = [sends EXCEPT ![d] = @ + 1]
                /\ lost' = [lost EXCEPT ![d] = @ + 1]
            BY <1>10, <3>1 DEF ProviderFails
          <5>2. [sends EXCEPT ![d] = @ + 1] \in [Dispatches -> Nat]
            BY BumpType DEF TypeOK
          <5>3. [lost EXCEPT ![d] = @ + 1] \in [Dispatches -> Nat]
            BY BumpType DEF TypeOK
          <5> QED
            BY <5>1, <5>2, <5>3
        <4>2. faults' = faults + 1 /\ faults < MaxFaults
          BY <1>10, <3>1 DEF ProviderFails, MayFault
        <4> QED
          BY <4>1, <4>2, ConstantTypes DEF TypeOK
      <3>2. CASE ~m
        BY <1>10, <3>2 DEF ProviderFails, TypeOK
      <3> QED
        BY <3>1, <3>2
    <2>6. /\ status' \in [Dispatches -> {"ABSENT"} \cup Open \cup Terminal]
          /\ reason' \in [Dispatches -> AttemptReasons]
          /\ UNCHANGED <<executedAt, sentAt>>
          /\ scheduledFor' \in [Dispatches -> Nat]
          /\ lockedUntil' \in [Dispatches -> Nat]
      <3>1. CASE /\ Drop(d, "FAILED", "dispatch_failed")
                 /\ UNCHANGED <<scheduledFor, lockedUntil>>
        <4>1. CASE d \in Dispatches
          BY <3>1, <4>1, DropType DEF Dropped, TypeOK
        <4>2. CASE d \notin Dispatches
          BY <3>1, <4>2 DEF Drop, TypeOK
        <4> QED
          BY <4>1, <4>2
      <3>2. CASE /\ scheduledFor' = [scheduledFor EXCEPT ![d] = seenAt[w] + Backoff[step]]
                 /\ \/ UNCHANGED <<status, lockedUntil>>
                    \/ /\ status' = [status EXCEPT ![d] = "PENDING"]
                       /\ lockedUntil' = [lockedUntil EXCEPT ![d] = Never]
                 /\ UNCHANGED <<reason, executedAt, sentAt>>
        <4>1. /\ status' \in [Dispatches -> {"ABSENT"} \cup Open \cup Terminal]
              /\ lockedUntil' \in [Dispatches -> Nat]
          BY <3>2 DEF TypeOK, Open, Never
        <4>2. scheduledFor' \in [Dispatches -> Nat]
          BY <3>2, <2>3 DEF TypeOK
        <4> QED
          BY <3>2, <4>1, <4>2 DEF TypeOK
      <3> QED
        BY <1>10, <3>1, <3>2 DEF ProviderFails
    <2> QED
      BY <1>10, <2>1, <2>4, <2>5, <2>6 DEF ProviderFails, TypeOK, WorkersTypeOK
  <1>11. ASSUME NEW w \in Workers, RecordId(w) PROVE TypeOK'
    BY <1>11 DEF RecordId, TypeOK, Phases
  <1>12. ASSUME NEW w \in Workers, CommitSent(w) PROVE TypeOK'
    <2>1. WorkersTypeOK'
      BY <1>12, <1>a, GoOnWithType DEF CommitSent
    <2> QED
      BY <1>12, <2>1 DEF CommitSent, TypeOK, WorkersTypeOK, Terminal
  <1>13. ASSUME NEW w \in Workers, Crash(w) PROVE TypeOK'
    <2>1. WorkersTypeOK'
      BY <1>13, GoOnWithType DEF Crash
    <2>2. lost' \in [Dispatches -> Nat] /\ faults' \in 0..MaxFaults
      BY <1>13, LoseTraceType DEF Crash
    <2> QED
      BY <1>13, <2>1, <2>2 DEF Crash, LoseTrace, TypeOK, WorkersTypeOK
  <1>14. ASSUME NEW w \in Workers, ProcessError(w) PROVE TypeOK'
    <2>1. WorkersTypeOK'
      BY <1>14, <1>a, <1>b, GoOnWithType DEF ProcessError
    <2>2. lost' \in [Dispatches -> Nat] /\ faults' \in 0..MaxFaults
      BY <1>14, LoseTraceType DEF ProcessError
    <2> QED
      BY <1>14, <2>1, <2>2 DEF ProcessError, LoseTrace, TypeOK, WorkersTypeOK
  <1>15. ASSUME NEW c \in Contacts, OptOut(c) PROVE TypeOK'
    BY <1>15 DEF OptOut, TypeOK
  <1>16. CASE SwitchRecovery
    BY <1>16 DEF SwitchRecovery, TypeOK
  <1>17. CASE Tick
    BY <1>17, ConstantTypes DEF Tick, TypeOK
  <1>18. CASE UNCHANGED vars
    BY <1>18 DEF vars, TypeOK
  <1> QED
    BY <1>1, <1>2, <1>3, <1>4, <1>5, <1>6, <1>7, <1>8, <1>9, <1>10, <1>11, <1>12,
       <1>13, <1>14, <1>15, <1>16, <1>17, <1>18
    DEF Next, QueueNext, ProcessOne

\* Every variable keeps its type in every behaviour, whether or not the workers
\* stay within their leases.
THEOREM TypeCorrect == Spec => []TypeOK
  BY InitType, NextType, PTL DEF Spec

-----------------------------------------------------------------------------
(* The lease invariant, of workers that stay within their leases.          *)

\* Rows in hand are rows held, and each is in one worker's hands only.
LEMMA InHand ==
    ASSUME TypeOK, LeaseInv, NEW w \in Workers,
           phase[w] \in {"calling", "accepted", "recorded"}
    PROVE  /\ cur[w] \in Dispatches /\ cur[w] \notin batch[w]
           /\ cur[w] \in Held(w) /\ status[cur[w]] = "IN_FLIGHT"
           /\ \A v \in Workers : v # w => cur[w] \notin Held(v) /\ cur[v] # cur[w]
  <1>1. cur[w] \in Dispatches /\ cur[w] \notin batch[w] /\ cur[w] # NoDispatch
    BY ConstantsOK DEF LeaseInv, PhaseShape
  <1>2. cur[w] \in Held(w)
    BY <1>1 DEF Held
  <1>3. \A v \in Workers : v # w => cur[w] \notin Held(v)
    BY <1>2 DEF LeaseInv, OneHolder
  <1>4. \A v \in Workers : v # w => cur[v] # cur[w]
    BY <1>1, <1>3 DEF Held
  <1> QED
    BY <1>1, <1>2, <1>3, <1>4 DEF LeaseInv, HeldInFlight

\* The next row of the batch is held, in flight, and in no one else's hands.
LEMMA NextInBatch ==
    ASSUME TypeOK, LeaseInv, NEW w \in Workers, NEW d \in Dispatches, Picks(w, d)
    PROVE  /\ status[d] = "IN_FLIGHT" /\ cur[w] = NoDispatch
           /\ \A v \in Workers : v # w => d \notin Held(v)
           /\ \A v \in Workers : cur[v] # d
  <1>1. d \in Held(w) /\ cur[w] = NoDispatch
    BY DEF Picks, Held, LeaseInv, PhaseShape
  <1>2. \A v \in Workers : v # w => d \notin Held(v)
    BY <1>1 DEF LeaseInv, OneHolder
  <1>3. \A v \in Workers : cur[v] # d
    BY <1>1, <1>2, ConstantsOK DEF Held
  <1> QED
    BY <1>1, <1>2, <1>3 DEF LeaseInv, HeldInFlight

\* A worker's variables keep fitting its place.
LEMMA ShapeStep ==
    ASSUME TypeOK, LeaseInv, PromptNext \/ UNCHANGED vars
    PROVE  PhaseShape'
  <1> USE DEF rowVars, attemptVars, workerVars, switchVars, historyVars
  <1>1. ASSUME NEW d \in Dispatches, Enqueue(d) PROVE PhaseShape'
    BY <1>1 DEF Enqueue, PhaseShape, LeaseInv
  <1>2. ASSUME NEW w \in Workers, Claim(w) PROVE PhaseShape'
    BY <1>2 DEF Claim, PhaseShape, LeaseInv, TypeOK
  <1>3. ASSUME NEW w \in Workers, NEW d \in Dispatches, Skip(w, d) PROVE PhaseShape'
    BY <1>3 DEF Skip, PhaseShape, Picks, GoOnWith, LeaseInv, TypeOK
  <1>4. ASSUME NEW w \in Workers, NEW d \in Dispatches, Recover(w, d) PROVE PhaseShape'
    BY <1>4 DEF Recover, PhaseShape, Picks, GoOnWith, LeaseInv, TypeOK
  <1>5. ASSUME NEW w \in Workers, NEW d \in Dispatches, Expire(w, d) PROVE PhaseShape'
    BY <1>5 DEF Expire, PhaseShape, Picks, GoOnWith, Drop, LeaseInv, TypeOK
  <1>6. ASSUME NEW w \in Workers, NEW d \in Dispatches, Suppress(w, d) PROVE PhaseShape'
    BY <1>6 DEF Suppress, PhaseShape, Sendable, Picks, GoOnWith, Drop, LeaseInv, TypeOK
  <1>7. ASSUME NEW w \in Workers, NEW d \in Dispatches, Defer(w, d) PROVE PhaseShape'
    BY <1>7 DEF Defer, PhaseShape, Sendable, Picks, GoOnWith, LeaseInv, TypeOK
  <1>8. ASSUME NEW w \in Workers, NEW d \in Dispatches, CallProvider(w, d)
        PROVE  PhaseShape'
    <2>1. status[d] = "IN_FLIGHT"
      BY <1>8, NextInBatch DEF CallProvider, Sendable
    <2> QED
      BY <1>8, <2>1
      DEF CallProvider, PhaseShape, Sendable, Picks, Never, LeaseInv, TypeOK
  <1>9. ASSUME NEW w \in Workers, ProviderAccepts(w) PROVE PhaseShape'
    BY <1>9 DEF ProviderAccepts, PhaseShape, LeaseInv
  <1>10. ASSUME NEW w \in Workers, NEW p \in BOOLEAN, NEW m \in BOOLEAN,
                ProviderFails(w, p, m)
         PROVE PhaseShape'
    BY <1>10 DEF ProviderFails, PhaseShape, GoOnWith, Drop, LeaseInv, TypeOK
  <1>11. ASSUME NEW w \in Workers, RecordId(w) PROVE PhaseShape'
    BY <1>11 DEF RecordId, PhaseShape, LeaseInv
  <1>12. ASSUME NEW w \in Workers, CommitSent(w) PROVE PhaseShape'
    BY <1>12 DEF CommitSent, PhaseShape, GoOnWith, LeaseInv, TypeOK
  <1>13. ASSUME NEW w \in Workers, Crash(w) PROVE PhaseShape'
    BY <1>13 DEF Crash, PhaseShape, GoOnWith, LoseTrace, LeaseInv, TypeOK
  <1>14. ASSUME NEW w \in Workers, ProcessError(w) PROVE PhaseShape'
    BY <1>14 DEF ProcessError, PhaseShape, GoOnWith, LoseTrace, Picks, LeaseInv, TypeOK
  <1>15. ASSUME \/ \E c \in Contacts : OptOut(c)
                \/ SwitchRecovery \/ Tick \/ UNCHANGED vars
         PROVE  PhaseShape'
    BY <1>15 DEF OptOut, SwitchRecovery, Tick, vars, PhaseShape, LeaseInv
  <1> QED
    BY <1>1, <1>2, <1>3, <1>4, <1>5, <1>6, <1>7, <1>8, <1>9, <1>10, <1>11, <1>12,
       <1>13, <1>14, <1>15
    DEF PromptNext, PromptTick, QueueNext, ProcessOne

\* No step puts a row into a second pair of hands: what can be claimed is PENDING
\* or past its lease, and what is held is neither.
LEMMA HolderStep ==
    ASSUME TypeOK, LeaseInv, PromptNext \/ UNCHANGED vars
    PROVE  OneHolder'
  <1> USE DEF rowVars, attemptVars, workerVars, switchVars, historyVars
  <1>1. ASSUME NEW d \in Dispatches, Enqueue(d) PROVE OneHolder'
    BY <1>1 DEF Enqueue, OneHolder, Held, LeaseInv
  <1>2. ASSUME NEW w \in Workers, Claim(w) PROVE OneHolder'
    <2>1. \A v \in Workers : Held(v) \cap Claimable = {}
      BY DEF LeaseInv, HeldInFlight, WithinLease, Claimable, Held, TypeOK
    <2>2. PICK ids \in SUBSET Claimable : batch' = [batch EXCEPT ![w] = ids]
      BY <1>2 DEF Claim
    <2>3. cur' = cur /\ Held(w) = {} /\ Held(w)' \subseteq Claimable
      BY <1>2, <2>2 DEF Claim, LeaseInv, PhaseShape, Held, TypeOK
    <2>4. \A v \in Workers : v # w => Held(v)' = Held(v)
      BY <2>2, <2>3 DEF Held, TypeOK
    <2> QED
      BY <2>1, <2>3, <2>4 DEF OneHolder, LeaseInv
  <1>a. ASSUME \A v \in Workers : Held(v)' \subseteq Held(v) PROVE OneHolder'
    BY <1>a DEF OneHolder, LeaseInv
  <1>3. ASSUME NEW w \in Workers, NEW d \in Dispatches,
               \/ Skip(w, d) \/ Recover(w, d) \/ Expire(w, d)
               \/ Suppress(w, d) \/ Defer(w, d)
        PROVE  OneHolder'
    <2>1. GoOnWith(w, batch[w] \ {d})
      BY <1>3 DEF Skip, Recover, Expire, Suppress, Defer
    <2> QED
      BY <1>a, <2>1 DEF GoOnWith, Held, TypeOK
  <1>8. ASSUME NEW w \in Workers, NEW d \in Dispatches, CallProvider(w, d)
        PROVE  OneHolder'
    <2>1. \A v \in Workers : Held(v)' \subseteq Held(v)
      BY <1>8, NextInBatch DEF CallProvider, Sendable, Picks, Held, TypeOK
    <2> QED
      BY <1>a, <2>1
  <1>9. ASSUME NEW w \in Workers, ProviderAccepts(w) PROVE OneHolder'
    BY <1>9 DEF ProviderAccepts, OneHolder, Held, LeaseInv
  <1>10. ASSUME NEW w \in Workers, NEW p \in BOOLEAN, NEW m \in BOOLEAN,
                ProviderFails(w, p, m)
         PROVE OneHolder'
    BY <1>10
    DEF ProviderFails, OneHolder, Held, GoOnWith, Drop, PhaseShape, LeaseInv, TypeOK
  <1>11. ASSUME NEW w \in Workers, RecordId(w) PROVE OneHolder'
    BY <1>11 DEF RecordId, OneHolder, Held, LeaseInv
  <1>12. ASSUME NEW w \in Workers, CommitSent(w) PROVE OneHolder'
    BY <1>12 DEF CommitSent, OneHolder, Held, GoOnWith, LeaseInv, TypeOK
  <1>13. ASSUME NEW w \in Workers, Crash(w) PROVE OneHolder'
    BY <1>13 DEF Crash, OneHolder, Held, GoOnWith, LoseTrace, LeaseInv, TypeOK
  <1>14. ASSUME NEW w \in Workers, ProcessError(w) PROVE OneHolder'
    BY <1>14
    DEF ProcessError, OneHolder, Held, GoOnWith, LoseTrace, Picks, PhaseShape, LeaseInv,
        TypeOK
  <1>15. ASSUME \/ \E c \in Contacts : OptOut(c)
                \/ SwitchRecovery \/ Tick \/ UNCHANGED vars
         PROVE  OneHolder'
    BY <1>15 DEF OptOut, SwitchRecovery, Tick, vars, OneHolder, Held, LeaseInv
  <1> QED
    BY <1>1, <1>2, <1>3, <1>8, <1>9, <1>10, <1>11, <1>12,
       <1>13, <1>14, <1>15
    DEF PromptNext, PromptTick, QueueNext, ProcessOne

\* A row leaves IN_FLIGHT only when its holder lets go of it.
LEMMA FlightStep ==
    ASSUME TypeOK, LeaseInv, PromptNext \/ UNCHANGED vars
    PROVE  HeldInFlight'
  <1> USE DEF rowVars, attemptVars, workerVars, switchVars, historyVars
  <1>1. ASSUME NEW d \in Dispatches, Enqueue(d) PROVE HeldInFlight'
    BY <1>1 DEF Enqueue, HeldInFlight, Held, LeaseInv
  <1>2. ASSUME NEW w \in Workers, Claim(w) PROVE HeldInFlight'
    BY <1>2 DEF Claim, HeldInFlight, Held, Claimable, LeaseInv, TypeOK
  <1>3. ASSUME NEW w \in Workers, NEW d \in Dispatches, Skip(w, d) PROVE HeldInFlight'
    BY <1>3 DEF Skip, HeldInFlight, Held, Picks, GoOnWith, LeaseInv, TypeOK
  <1>4. ASSUME NEW w \in Workers, NEW d \in Dispatches, Recover(w, d)
        PROVE  HeldInFlight'
    BY <1>4
    DEF Recover, HeldInFlight, Held, Picks, GoOnWith, PhaseShape, OneHolder, LeaseInv,
        TypeOK
  <1>5. ASSUME NEW w \in Workers, NEW d \in Dispatches, Expire(w, d) PROVE HeldInFlight'
    BY <1>5
    DEF Expire, HeldInFlight, Held, Picks, GoOnWith, Drop, PhaseShape, OneHolder,
        LeaseInv, TypeOK
  <1>6. ASSUME NEW w \in Workers, NEW d \in Dispatches, Suppress(w, d)
        PROVE  HeldInFlight'
    BY <1>6
    DEF Suppress, HeldInFlight, Held, Sendable, Picks, GoOnWith, Drop, PhaseShape,
        OneHolder, LeaseInv, TypeOK
  <1>7. ASSUME NEW w \in Workers, NEW d \in Dispatches, Defer(w, d) PROVE HeldInFlight'
    BY <1>7
    DEF Defer, HeldInFlight, Held, Sendable, Picks, GoOnWith, PhaseShape, OneHolder,
        LeaseInv, TypeOK
  <1>8. ASSUME NEW w \in Workers, NEW d \in Dispatches, CallProvider(w, d)
        PROVE  HeldInFlight'
    BY <1>8 DEF CallProvider, HeldInFlight, Held, Sendable, Picks, LeaseInv, TypeOK
  <1>9. ASSUME NEW w \in Workers, ProviderAccepts(w) PROVE HeldInFlight'
    BY <1>9 DEF ProviderAccepts, HeldInFlight, Held, LeaseInv
  <1>10. ASSUME NEW w \in Workers, NEW p \in BOOLEAN, NEW m \in BOOLEAN,
                ProviderFails(w, p, m)
         PROVE HeldInFlight'
    <2>1. \A v \in Workers : Held(v)' \subseteq Held(v) \ {cur[w]}
      BY <1>10, InHand DEF ProviderFails, GoOnWith, Held, TypeOK
    <2>2. \A e \in Dispatches \ {cur[w]} : status'[e] = status[e]
      BY <1>10 DEF ProviderFails, Drop, TypeOK
    <2> QED
      BY <2>1, <2>2 DEF HeldInFlight, LeaseInv, Held, TypeOK
  <1>11. ASSUME NEW w \in Workers, RecordId(w) PROVE HeldInFlight'
    BY <1>11 DEF RecordId, HeldInFlight, Held, LeaseInv
  <1>12. ASSUME NEW w \in Workers, CommitSent(w) PROVE HeldInFlight'
    <2>1. \A v \in Workers : Held(v)' \subseteq Held(v) \ {cur[w]}
      BY <1>12, InHand DEF CommitSent, GoOnWith, Held, TypeOK
    <2>2. \A e \in Dispatches \ {cur[w]} : status'[e] = status[e]
      BY <1>12 DEF CommitSent, Drop, TypeOK
    <2> QED
      BY <2>1, <2>2 DEF HeldInFlight, LeaseInv, Held, TypeOK
  <1>13. ASSUME NEW w \in Workers, Crash(w) PROVE HeldInFlight'
    BY <1>13 DEF Crash, HeldInFlight, Held, GoOnWith, LoseTrace, LeaseInv, TypeOK
  <1>14. ASSUME NEW w \in Workers, ProcessError(w) PROVE HeldInFlight'
    BY <1>14
    DEF ProcessError, HeldInFlight, Held, GoOnWith, LoseTrace, Picks, LeaseInv, TypeOK
  <1>15. ASSUME \/ \E c \in Contacts : OptOut(c)
                \/ SwitchRecovery \/ Tick \/ UNCHANGED vars
         PROVE  HeldInFlight'
    BY <1>15 DEF OptOut, SwitchRecovery, Tick, vars, HeldInFlight, Held, LeaseInv
  <1> QED
    BY <1>1, <1>2, <1>3, <1>4, <1>5, <1>6, <1>7, <1>8, <1>9, <1>10, <1>11, <1>12,
       <1>13, <1>14, <1>15
    DEF PromptNext, PromptTick, QueueNext, ProcessOne

\* Only time can carry a worker past its lease: no one else takes a held row, and
\* whoever resets a row's lease lets go of the row in the same step.
LEMMA LeaseStep ==
    ASSUME TypeOK, LeaseInv, PromptNext \/ UNCHANGED vars
    PROVE  WithinLease'
  <1> USE DEF rowVars, attemptVars, workerVars, switchVars, historyVars
  <1>a. ASSUME \A v \in Workers : \A e \in Held(v)' :
                  e \in Held(v) /\ lockedUntil'[e] = lockedUntil[e],
               clock' = clock
        PROVE  WithinLease'
    BY <1>a DEF WithinLease, LeaseInv
  <1>1. ASSUME NEW d \in Dispatches, Enqueue(d) PROVE WithinLease'
    BY <1>1, <1>a DEF Enqueue, Held
  <1>2. ASSUME NEW w \in Workers, Claim(w) PROVE WithinLease'
    <2>1. PICK ids \in SUBSET Claimable :
            /\ batch' = [batch EXCEPT ![w] = ids]
            /\ lockedUntil' = [d \in Dispatches |->
                                  IF d \in ids THEN clock + LockTimeout ELSE lockedUntil[d]]
      BY <1>2 DEF Claim
    <2>2. clock' = clock /\ cur' = cur /\ Held(w) = {}
      BY <1>2 DEF Claim, LeaseInv, PhaseShape, Held
    <2>3. \A e \in ids : clock <= lockedUntil'[e]
      BY <2>1, ConstantTypes DEF Claimable, TypeOK
    <2>4. \A v \in Workers : Held(v) \subseteq Dispatches
      BY DEF Held, TypeOK
    <2>5. Held(w)' = ids
      BY <2>1, <2>2 DEF Held, TypeOK
    <2>6. \A v \in Workers : v # w => Held(v)' = Held(v)
      BY <2>1, <2>2 DEF Held, TypeOK
    <2>7. \A v \in Workers : \A e \in Held(v) : e \notin ids => clock <= lockedUntil'[e]
      BY <2>1, <2>4 DEF LeaseInv, WithinLease
    <2> QED
      BY <2>2, <2>3, <2>5, <2>6, <2>7 DEF WithinLease
  <1>3. ASSUME NEW w \in Workers, NEW d \in Dispatches,
               Skip(w, d) \/ Recover(w, d) \/ Expire(w, d) \/ Suppress(w, d)
        PROVE  WithinLease'
    <2>1. UNCHANGED <<clock, lockedUntil>> /\ GoOnWith(w, batch[w] \ {d})
      BY <1>3 DEF Skip, Recover, Expire, Suppress
    <2>2. \A v \in Workers : Held(v)' \subseteq Held(v)
      BY <2>1 DEF GoOnWith, Held, TypeOK
    <2> QED
      BY <1>a, <2>1, <2>2
  <1>4. ASSUME NEW w \in Workers, NEW d \in Dispatches, Defer(w, d) PROVE WithinLease'
    <2>1. \A v \in Workers : Held(v)' \subseteq Held(v) \ {d}
      BY <1>4, NextInBatch DEF Defer, Sendable, GoOnWith, Held, TypeOK
    <2>2. \A e \in Dispatches \ {d} : lockedUntil'[e] = lockedUntil[e]
      BY <1>4 DEF Defer, TypeOK
    <2>3. clock' = clock /\ \A v \in Workers : Held(v) \subseteq Dispatches
      BY <1>4 DEF Defer, Held, TypeOK
    <2> QED
      BY <1>a, <2>1, <2>2, <2>3
  <1>5. ASSUME NEW w \in Workers, NEW d \in Dispatches, CallProvider(w, d)
        PROVE  WithinLease'
    <2>1. \A v \in Workers : Held(v)' \subseteq Held(v)
      BY <1>5, NextInBatch DEF CallProvider, Sendable, Picks, Held, TypeOK
    <2> QED
      BY <1>5, <1>a, <2>1 DEF CallProvider
  <1>6. ASSUME NEW w \in Workers,
               ProviderAccepts(w) \/ RecordId(w) \/ CommitSent(w) \/ Crash(w)
        PROVE  WithinLease'
    <2>1. UNCHANGED <<clock, lockedUntil>>
      BY <1>6 DEF ProviderAccepts, RecordId, CommitSent, Crash
    <2>2. \A v \in Workers : Held(v)' \subseteq Held(v)
      BY <1>6 DEF ProviderAccepts, RecordId, CommitSent, Crash, GoOnWith, Held, TypeOK
    <2> QED
      BY <1>a, <2>1, <2>2
  <1>7. ASSUME NEW w \in Workers, NEW p \in BOOLEAN, NEW m \in BOOLEAN,
               ProviderFails(w, p, m)
        PROVE  WithinLease'
    <2>1. \A v \in Workers : Held(v)' \subseteq Held(v) \ {cur[w]}
      BY <1>7, InHand DEF ProviderFails, GoOnWith, Held, TypeOK
    <2>2. \A e \in Dispatches \ {cur[w]} : lockedUntil'[e] = lockedUntil[e]
      BY <1>7 DEF ProviderFails, TypeOK
    <2>3. clock' = clock /\ \A v \in Workers : Held(v) \subseteq Dispatches
      BY <1>7 DEF ProviderFails, Held, TypeOK
    <2> QED
      BY <1>a, <2>1, <2>2, <2>3
  <1>8. ASSUME NEW w \in Workers, ProcessError(w) PROVE WithinLease'
    <2>1. \A v \in Workers : Held(v)' \subseteq Held(v)
      BY <1>8 DEF ProcessError, GoOnWith, Picks, Held, TypeOK
    <2> QED
      BY <1>8, <1>a, <2>1 DEF ProcessError
  <1>9. ASSUME \/ \E c \in Contacts : OptOut(c)
               \/ SwitchRecovery \/ UNCHANGED vars
        PROVE  WithinLease'
    BY <1>9, <1>a DEF OptOut, SwitchRecovery, vars, Held
  <1>10. CASE PromptTick
    BY <1>10 DEF PromptTick
  <1> QED
    BY <1>1, <1>2, <1>3, <1>4, <1>5, <1>6, <1>7, <1>8, <1>9, <1>10
    DEF PromptNext, QueueNext, ProcessOne

\* The id on a row matches the phase of the worker that has it in hand.
LEMMA IdStep ==
    ASSUME TypeOK, LeaseInv, PromptNext \/ UNCHANGED vars
    PROVE  IdMatchesPhase'
  <1> USE DEF rowVars, attemptVars, workerVars, switchVars, historyVars
  <1>1. ASSUME NEW d \in Dispatches, Enqueue(d) PROVE IdMatchesPhase'
    BY <1>1 DEF Enqueue, IdMatchesPhase, LeaseInv
  <1>2. ASSUME NEW w \in Workers, Claim(w) PROVE IdMatchesPhase'
    BY <1>2 DEF Claim, IdMatchesPhase, LeaseInv
  <1>3. ASSUME NEW w \in Workers, NEW d \in Dispatches, Skip(w, d) PROVE IdMatchesPhase'
    BY <1>3 DEF Skip, IdMatchesPhase, Picks, GoOnWith, LeaseInv, TypeOK
  <1>4. ASSUME NEW w \in Workers, NEW d \in Dispatches, Recover(w, d)
        PROVE  IdMatchesPhase'
    BY <1>4 DEF Recover, IdMatchesPhase, Picks, GoOnWith, LeaseInv, TypeOK
  <1>5. ASSUME NEW w \in Workers, NEW d \in Dispatches, Expire(w, d)
        PROVE  IdMatchesPhase'
    BY <1>5 DEF Expire, IdMatchesPhase, Picks, GoOnWith, Drop, LeaseInv, TypeOK
  <1>6. ASSUME NEW w \in Workers, NEW d \in Dispatches, Suppress(w, d)
        PROVE  IdMatchesPhase'
    BY <1>6
    DEF Suppress, IdMatchesPhase, Sendable, Picks, GoOnWith, Drop, LeaseInv, TypeOK
  <1>7. ASSUME NEW w \in Workers, NEW d \in Dispatches, Defer(w, d)
        PROVE  IdMatchesPhase'
    BY <1>7 DEF Defer, IdMatchesPhase, Sendable, Picks, GoOnWith, LeaseInv, TypeOK
  <1>8. ASSUME NEW w \in Workers, NEW d \in Dispatches, CallProvider(w, d)
        PROVE  IdMatchesPhase'
    BY <1>8 DEF CallProvider, IdMatchesPhase, Sendable, Picks, LeaseInv, TypeOK
  <1>9. ASSUME NEW w \in Workers, ProviderAccepts(w) PROVE IdMatchesPhase'
    BY <1>9 DEF ProviderAccepts, IdMatchesPhase, LeaseInv
  <1>10. ASSUME NEW w \in Workers, NEW p \in BOOLEAN, NEW m \in BOOLEAN,
                ProviderFails(w, p, m)
         PROVE IdMatchesPhase'
    BY <1>10 DEF ProviderFails, IdMatchesPhase, GoOnWith, Drop, LeaseInv, TypeOK
  <1>11. ASSUME NEW w \in Workers, RecordId(w) PROVE IdMatchesPhase'
    <2>1. \A v \in Workers : v # w => cur[v] # cur[w]
      BY <1>11, InHand DEF RecordId
    <2> QED
      BY <1>11, <2>1 DEF RecordId, IdMatchesPhase, LeaseInv, PhaseShape, TypeOK
  <1>12. ASSUME NEW w \in Workers, CommitSent(w) PROVE IdMatchesPhase'
    BY <1>12 DEF CommitSent, IdMatchesPhase, GoOnWith, LeaseInv, TypeOK
  <1>13. ASSUME NEW w \in Workers, Crash(w) PROVE IdMatchesPhase'
    BY <1>13 DEF Crash, IdMatchesPhase, GoOnWith, LoseTrace, LeaseInv, TypeOK
  <1>14. ASSUME NEW w \in Workers, ProcessError(w) PROVE IdMatchesPhase'
    BY <1>14
    DEF ProcessError, IdMatchesPhase, GoOnWith, LoseTrace, Picks, LeaseInv, TypeOK
  <1>15. ASSUME \/ \E c \in Contacts : OptOut(c)
                \/ SwitchRecovery \/ Tick \/ UNCHANGED vars
         PROVE  IdMatchesPhase'
    BY <1>15 DEF OptOut, SwitchRecovery, Tick, vars, IdMatchesPhase, LeaseInv
  <1> QED
    BY <1>1, <1>2, <1>3, <1>4, <1>5, <1>6, <1>7, <1>8, <1>9, <1>10, <1>11, <1>12,
       <1>13, <1>14, <1>15
    DEF PromptNext, PromptTick, QueueNext, ProcessOne

\* A worker that lets go of its row by a fault loses exactly the trace it held.
LEMMA LetGo ==
    ASSUME TypeOK, LeaseInv, NEW w \in Workers, NEW rest \in SUBSET Dispatches,
           LoseTrace(w), GoOnWith(w, rest), UNCHANGED rowVars
    PROVE  SendsAccountedFor'
  <1> USE DEF rowVars
  <1>1. /\ phase'[w] \in {"idle", "ready"}
        /\ \A v \in Workers : v # w => phase'[v] = phase[v] /\ cur'[v] = cur[v]
    BY DEF GoOnWith, TypeOK
  <1>2. CASE phase[w] = "accepted"
    <2>1. PICK c \in Dispatches :
            c = cur[w] /\ \A v \in Workers : v # w => cur[v] # c
      BY <1>2, InHand
    <2>2. Traced(c)
      BY <1>2, <2>1 DEF Traced
    <2>3. ~Traced(c)'
      <3>1. ~messageId[c] /\ status[c] # "SENT"
        BY <1>2, <2>1, InHand DEF LeaseInv, IdMatchesPhase
      <3> QED
        BY <1>1, <2>1, <3>1 DEF Traced
    <2>4. /\ lost'[c] = lost[c] + 1 /\ sends' = sends
          /\ \A d \in Dispatches : d # c => lost'[d] = lost[d]
      BY <1>2, <2>1 DEF LoseTrace, TypeOK
    <2>5. ASSUME NEW d \in Dispatches
          PROVE  sends'[d] = lost'[d] + (IF Traced(d)' THEN 1 ELSE 0)
      <3>1. sends[d] = lost[d] + (IF Traced(d) THEN 1 ELSE 0) /\ lost[d] \in Nat
        BY DEF SendsAccountedFor, LeaseInv, TypeOK
      <3>2. CASE d = c
        BY <2>2, <2>3, <2>4, <3>1, <3>2
      <3>3. CASE d # c
        <4>1. Traced(d)' <=> Traced(d)
          BY <1>1, <2>1, <3>3 DEF Traced
        <4> QED
          BY <2>4, <3>1, <3>3, <4>1
      <3> QED
        BY <3>2, <3>3
    <2> QED
      BY <2>5 DEF SendsAccountedFor
  <1>3. CASE phase[w] # "accepted"
    <2>1. \A d \in Dispatches : Traced(d)' <=> Traced(d)
      <3>1. phase[w] = "recorded" => messageId[cur[w]]
        BY DEF LeaseInv, IdMatchesPhase
      <3> QED
        BY <1>1, <1>3, <3>1 DEF Traced
    <2> QED
      BY <1>3, <2>1 DEF LoseTrace, SendsAccountedFor, LeaseInv
  <1> QED
    BY <1>2, <1>3

\* Acceptances and traces stay in balance.
LEMMA SendsStep ==
    ASSUME TypeOK, LeaseInv, PromptNext \/ UNCHANGED vars
    PROVE  SendsAccountedFor'
  <1> USE DEF rowVars, attemptVars, workerVars, switchVars, historyVars
  <1>1. ASSUME NEW d \in Dispatches, Enqueue(d) PROVE SendsAccountedFor'
    BY <1>1 DEF Enqueue, SendsAccountedFor, Traced, LeaseInv
  <1>2. ASSUME NEW w \in Workers, Claim(w) PROVE SendsAccountedFor'
    BY <1>2 DEF Claim, SendsAccountedFor, Traced, Claimable, LeaseInv, TypeOK
  <1>3. ASSUME NEW w \in Workers, NEW d \in Dispatches, Skip(w, d)
        PROVE  SendsAccountedFor'
    BY <1>3 DEF Skip, SendsAccountedFor, Traced, Picks, GoOnWith, LeaseInv, TypeOK
  <1>4. ASSUME NEW w \in Workers, NEW d \in Dispatches, Recover(w, d)
        PROVE  SendsAccountedFor'
    BY <1>4 DEF Recover, SendsAccountedFor, Traced, Picks, GoOnWith, LeaseInv, TypeOK
  <1>5. ASSUME NEW w \in Workers, NEW d \in Dispatches, Expire(w, d)
        PROVE  SendsAccountedFor'
    BY <1>5
    DEF Expire, SendsAccountedFor, Traced, Picks, GoOnWith, Drop, PhaseShape, Never,
        Open, LeaseInv, TypeOK
  <1>6. ASSUME NEW w \in Workers, NEW d \in Dispatches, Suppress(w, d)
        PROVE  SendsAccountedFor'
    BY <1>6
    DEF Suppress, SendsAccountedFor, Traced, Sendable, Picks, GoOnWith, Drop,
        PhaseShape, Never, Open, LeaseInv, TypeOK
  <1>7. ASSUME NEW w \in Workers, NEW d \in Dispatches, Defer(w, d)
        PROVE  SendsAccountedFor'
    BY <1>7
    DEF Defer, SendsAccountedFor, Traced, Sendable, Picks, GoOnWith, PhaseShape, Never,
        Open, LeaseInv, TypeOK
  <1>8. ASSUME NEW w \in Workers, NEW d \in Dispatches, CallProvider(w, d)
        PROVE  SendsAccountedFor'
    BY <1>8
    DEF CallProvider, SendsAccountedFor, Traced, Sendable, Picks, LeaseInv, TypeOK
  <1>9. ASSUME NEW w \in Workers, ProviderAccepts(w) PROVE SendsAccountedFor'
    <2>1. ~Traced(cur[w])
      BY <1>9, InHand DEF ProviderAccepts, Traced, LeaseInv, IdMatchesPhase
    <2>2. Traced(cur[w])'
      BY <1>9, InHand DEF ProviderAccepts, Traced, TypeOK
    <2>3. \A d \in Dispatches : d # cur[w] => (Traced(d)' <=> Traced(d))
      BY <1>9 DEF ProviderAccepts, Traced, TypeOK
    <2>4. /\ sends'[cur[w]] = sends[cur[w]] + 1
          /\ \A d \in Dispatches : d # cur[w] => sends'[d] = sends[d]
          /\ lost' = lost
      BY <1>9, InHand DEF ProviderAccepts, TypeOK
    <2> QED
      BY <1>9, <2>1, <2>2, <2>3, <2>4, InHand
      DEF ProviderAccepts, SendsAccountedFor, LeaseInv, TypeOK
  <1>10. ASSUME NEW w \in Workers, NEW p \in BOOLEAN, NEW m \in BOOLEAN,
                ProviderFails(w, p, m)
         PROVE SendsAccountedFor'
    <2>1. PICK c \in Dispatches : c = cur[w]
      BY <1>10, InHand DEF ProviderFails
    <2>2. ~Traced(c)
      BY <1>10, <2>1, InHand DEF ProviderFails, Traced, LeaseInv, IdMatchesPhase
    <2>3. ~Traced(c)'
      <3>1. ~messageId'[c] /\ status'[c] # "SENT"
        BY <1>10, <2>1, <2>2 DEF ProviderFails, Drop, Traced, TypeOK
      <3>2. \A v \in Workers : v # w => cur'[v] # c
        BY <1>10, <2>1, InHand DEF ProviderFails, GoOnWith, TypeOK
      <3>3. phase'[w] \notin {"accepted", "recorded"}
        BY <1>10 DEF ProviderFails, GoOnWith, TypeOK
      <3> QED
        BY <3>1, <3>2, <3>3 DEF Traced
    <2>4. \A d \in Dispatches : d # c => (Traced(d)' <=> Traced(d))
      BY <1>10, <2>1, InHand DEF ProviderFails, GoOnWith, Drop, Traced, TypeOK
    <2>5. /\ \A d \in Dispatches : d # c => sends'[d] = sends[d] /\ lost'[d] = lost[d]
          /\ \/ sends'[c] = sends[c] + 1 /\ lost'[c] = lost[c] + 1
             \/ sends'[c] = sends[c] /\ lost'[c] = lost[c]
      BY <1>10, <2>1 DEF ProviderFails, TypeOK
    <2>6. ASSUME NEW d \in Dispatches
          PROVE  sends'[d] = lost'[d] + (IF Traced(d)' THEN 1 ELSE 0)
      <3>1. sends[d] = lost[d] + (IF Traced(d) THEN 1 ELSE 0) /\ lost[d] \in Nat
        BY DEF SendsAccountedFor, LeaseInv, TypeOK
      <3>2. CASE d = c
        BY <2>2, <2>3, <2>5, <3>1, <3>2
      <3>3. CASE d # c
        BY <2>4, <2>5, <3>1, <3>3
      <3> QED
        BY <3>2, <3>3
    <2> QED
      BY <2>6 DEF SendsAccountedFor
  <1>11. ASSUME NEW w \in Workers, RecordId(w) PROVE SendsAccountedFor'
    <2>1. ASSUME NEW d \in Dispatches PROVE Traced(d)' <=> Traced(d)
      <3>1. CASE d = cur[w]
        BY <1>11, <3>1, InHand DEF RecordId, Traced, TypeOK
      <3>2. CASE d # cur[w]
        BY <1>11, <3>2 DEF RecordId, Traced, TypeOK
      <3> QED
        BY <3>1, <3>2
    <2> QED
      BY <1>11, <2>1 DEF RecordId, SendsAccountedFor, LeaseInv
  <1>12. ASSUME NEW w \in Workers, CommitSent(w) PROVE SendsAccountedFor'
    BY <1>12 DEF CommitSent, SendsAccountedFor, Traced, GoOnWith, LeaseInv, TypeOK
  <1>13. ASSUME NEW w \in Workers, Crash(w) PROVE SendsAccountedFor'
    BY <1>13, LetGo DEF Crash
  <1>14. ASSUME NEW w \in Workers, ProcessError(w) PROVE SendsAccountedFor'
    <2>1. PICK rest \in SUBSET Dispatches : GoOnWith(w, rest)
      BY <1>14 DEF ProcessError, TypeOK
    <2> QED
      BY <1>14, <2>1, LetGo DEF ProcessError
  <1>15. ASSUME \/ \E c \in Contacts : OptOut(c)
                \/ SwitchRecovery \/ Tick \/ UNCHANGED vars
         PROVE  SendsAccountedFor'
    BY <1>15 DEF OptOut, SwitchRecovery, Tick, vars, SendsAccountedFor, Traced, LeaseInv
  <1> QED
    BY <1>1, <1>2, <1>3, <1>4, <1>5, <1>6, <1>7, <1>8, <1>9, <1>10, <1>11, <1>12,
       <1>13, <1>14, <1>15
    DEF PromptNext, PromptTick, QueueNext, ProcessOne

\* Row and attempt are closed in one commit, by the only worker that holds them.
LEMMA BooksStep ==
    ASSUME TypeOK, LeaseInv, PromptNext \/ UNCHANGED vars
    PROVE  BooksAgree'
  <1> USE DEF rowVars, attemptVars, workerVars, switchVars, historyVars
  <1>1. ASSUME NEW d \in Dispatches, Enqueue(d) PROVE BooksAgree'
    BY <1>1 DEF Enqueue, BooksAgree, Dropped, LeaseInv, TypeOK
  <1>2. ASSUME NEW w \in Workers, Claim(w) PROVE BooksAgree'
    BY <1>2 DEF Claim, Claimable, BooksAgree, Dropped, LeaseInv, TypeOK
  <1>3. ASSUME NEW w \in Workers, NEW d \in Dispatches, Skip(w, d) PROVE BooksAgree'
    BY <1>3 DEF Skip, BooksAgree, LeaseInv
  <1>4. ASSUME NEW w \in Workers, NEW d \in Dispatches, Recover(w, d) PROVE BooksAgree'
    <2>1. status[d] = "IN_FLIGHT" /\ reason[d] = NoReason
      BY <1>4, NextInBatch DEF Recover, BooksAgree, LeaseInv, Dropped
    <2> QED
      BY <1>4, <2>1 DEF Recover, BooksAgree, Dropped, Never, LeaseInv, TypeOK
  <1>5. ASSUME NEW w \in Workers, NEW d \in Dispatches, Expire(w, d) PROVE BooksAgree'
    <2>1. /\ status[d] = "IN_FLIGHT"
          /\ status' = [status EXCEPT ![d] = "EXPIRED"]
          /\ reason' = [reason EXCEPT ![d] = "dispatch_expired_unsent"]
          /\ executedAt' = executedAt
      BY <1>5, NextInBatch DEF Expire, Drop
    <2>2. "dispatch_expired_unsent" # NoReason
      BY <1>5, ReasonsDiffer, SendTimeReasonType DEF NoReason
    <2> QED
      BY <2>1, <2>2 DEF BooksAgree, LeaseInv, TypeOK, Dropped
  <1>6. ASSUME NEW w \in Workers, NEW d \in Dispatches, Suppress(w, d) PROVE BooksAgree'
    <2>1. /\ status[d] = "IN_FLIGHT"
          /\ status' = [status EXCEPT ![d] = "SUPPRESSED"]
          /\ reason' = [reason EXCEPT ![d] = SendTimeReason(d)]
          /\ executedAt' = executedAt
      BY <1>6, NextInBatch DEF Suppress, Sendable, Drop
    <2>2. SendTimeReason(d) # NoReason
      BY <1>6, ReasonsDiffer, SendTimeReasonType DEF Suppress, Sendable
    <2> QED
      BY <2>1, <2>2 DEF BooksAgree, LeaseInv, TypeOK, Dropped
  <1>7. ASSUME NEW w \in Workers, NEW d \in Dispatches, Defer(w, d) PROVE BooksAgree'
    BY <1>7
    DEF Defer, Sendable, BooksAgree, Dropped, Picks, HeldInFlight, Held, LeaseInv,
        TypeOK
  <1>8. ASSUME NEW w \in Workers, NEW d \in Dispatches, CallProvider(w, d)
        PROVE  BooksAgree'
    BY <1>8 DEF CallProvider, BooksAgree, LeaseInv
  <1>9. ASSUME NEW w \in Workers, ProviderAccepts(w) PROVE BooksAgree'
    BY <1>9 DEF ProviderAccepts, BooksAgree, LeaseInv
  <1>10. ASSUME NEW w \in Workers, NEW p \in BOOLEAN, NEW m \in BOOLEAN,
                ProviderFails(w, p, m)
         PROVE BooksAgree'
    <2>1. cur[w] \in Dispatches /\ status[cur[w]] = "IN_FLIGHT"
      BY <1>10, InHand DEF ProviderFails
    <2>2. executedAt' = executedAt
      BY <1>10 DEF ProviderFails, Drop
    <2>3. \/ /\ status' = [status EXCEPT ![cur[w]] = "FAILED"]
             /\ reason' = [reason EXCEPT ![cur[w]] = "dispatch_failed"]
          \/ /\ status' = [status EXCEPT ![cur[w]] = "PENDING"]
             /\ reason' = reason
      BY <1>10 DEF ProviderFails, Drop, LeaseInv, PhaseShape
    <2>4. executedAt[cur[w]] = Never /\ reason[cur[w]] = NoReason
      BY <2>1 DEF BooksAgree, LeaseInv, Dropped
    <2>5. ASSUME NEW d \in Dispatches
          PROVE  /\ status'[d] = "SENT" <=> executedAt'[d] # Never
                 /\ status'[d] \in Dropped <=> reason'[d] # NoReason
      <3>1. CASE d = cur[w]
        BY <2>2, <2>3, <2>4, <3>1, ReasonsDiffer DEF TypeOK, Dropped
      <3>2. CASE d # cur[w]
        BY <2>2, <2>3, <3>2 DEF BooksAgree, LeaseInv, TypeOK
      <3> QED
        BY <3>1, <3>2
    <2> QED
      BY <2>5 DEF BooksAgree
  <1>11. ASSUME NEW w \in Workers, RecordId(w) PROVE BooksAgree'
    BY <1>11 DEF RecordId, BooksAgree, LeaseInv
  <1>12. ASSUME NEW w \in Workers, CommitSent(w) PROVE BooksAgree'
    <2>1. /\ cur[w] \in Dispatches /\ status[cur[w]] = "IN_FLIGHT"
          /\ seenAt[w] # Never
      BY <1>12, InHand DEF CommitSent, LeaseInv, PhaseShape
    <2>2. /\ status' = [status EXCEPT ![cur[w]] = "SENT"]
          /\ executedAt' = [executedAt EXCEPT ![cur[w]] = seenAt[w]]
          /\ reason' = reason
      BY <1>12 DEF CommitSent
    <2>3. reason[cur[w]] = NoReason
      BY <2>1 DEF BooksAgree, LeaseInv, Dropped
    <2>4. ASSUME NEW d \in Dispatches
          PROVE  /\ status'[d] = "SENT" <=> executedAt'[d] # Never
                 /\ status'[d] \in Dropped <=> reason'[d] # NoReason
      <3>1. CASE d = cur[w]
        BY <2>1, <2>2, <2>3, <3>1 DEF TypeOK, Dropped
      <3>2. CASE d # cur[w]
        BY <2>1, <2>2, <3>2 DEF BooksAgree, LeaseInv, TypeOK
      <3> QED
        BY <3>1, <3>2
    <2> QED
      BY <2>4 DEF BooksAgree
  <1>13. ASSUME NEW w \in Workers, Crash(w) PROVE BooksAgree'
    BY <1>13 DEF Crash, BooksAgree, LeaseInv
  <1>14. ASSUME NEW w \in Workers, ProcessError(w) PROVE BooksAgree'
    BY <1>14 DEF ProcessError, BooksAgree, LeaseInv
  <1>15. ASSUME \/ \E c \in Contacts : OptOut(c)
                \/ SwitchRecovery \/ Tick \/ UNCHANGED vars
         PROVE  BooksAgree'
    BY <1>15 DEF OptOut, SwitchRecovery, Tick, vars, BooksAgree, LeaseInv
  <1> QED
    BY <1>1, <1>2, <1>3, <1>4, <1>5, <1>6, <1>7, <1>8, <1>9, <1>10, <1>11, <1>12,
       <1>13, <1>14, <1>15
    DEF PromptNext, PromptTick, QueueNext, ProcessOne

\* The lease invariant holds initially.
LEMMA LeaseInvInit == Init => LeaseInv
  <1> SUFFICES ASSUME Init PROVE LeaseInv
    OBVIOUS
  <1>1. \A w \in Workers : Held(w) = {}
    BY DEF Init, Held
  <1>2. PhaseShape /\ IdMatchesPhase
    BY DEF Init, PhaseShape, IdMatchesPhase
  <1>3. OneHolder /\ HeldInFlight /\ WithinLease
    BY <1>1 DEF OneHolder, HeldInFlight, WithinLease
  <1>4. SendsAccountedFor
    BY DEF Init, SendsAccountedFor, Traced
  <1>5. BooksAgree
    BY DEF Init, BooksAgree, Dropped, NoReason, Never
  <1> QED
    BY <1>2, <1>3, <1>4, <1>5 DEF LeaseInv

\* Every prompt step preserves it.
LEMMA LeaseInvStep == TypeOK /\ LeaseInv /\ [PromptNext]_vars => LeaseInv'
  <1> SUFFICES ASSUME TypeOK, LeaseInv, PromptNext \/ UNCHANGED vars PROVE LeaseInv'
    OBVIOUS
  <1>1. WithinLease'
    BY LeaseStep
  <1> QED
    BY <1>1, ShapeStep, HolderStep, FlightStep, IdStep, SendsStep, BooksStep
    DEF LeaseInv

\* The strengthened invariant: types and leases together.
LEMMA PromptInvariant == PromptSpec => [](TypeOK /\ LeaseInv)
  <1>1. TypeOK /\ [PromptNext]_vars => TypeOK'
    BY NextType DEF PromptNext, PromptTick, Next
  <1> QED
    BY <1>1, InitType, LeaseInvInit, LeaseInvStep, PTL DEF PromptSpec

-----------------------------------------------------------------------------
(* The results.                                                            *)

\* A claimed row is in one worker's hands at a time, whatever the number of
\* workers, rows, faults and reclaims.
THEOREM LeaseExcludes == PromptSpec => []OneHolder
  BY PromptInvariant, PTL DEF LeaseInv

\* The queue repeats a message only when the trace of its last acceptance was lost.
THEOREM NoUnexplainedRepeat == PromptSpec => []SendsAccountedFor
  BY PromptInvariant, PTL DEF LeaseInv

\* outbound_dispatches and recovery_attempts never contradict each other.
THEOREM BooksAlwaysAgree == PromptSpec => []BooksAgree
  BY PromptInvariant, PTL DEF LeaseInv

\* The whole lease invariant: who holds a row, the state of the rows held and the
\* place of their holders, the leases, and the two books, at every moment.
THEOREM LeaseInvariant == PromptSpec => []LeaseInv
  BY PromptInvariant, PTL

-----------------------------------------------------------------------------
(* What workers of any speed keep.                                         *)

\* A worker between the call and its last commit.
InCall(w) == phase[w] \in {"calling", "accepted", "recorded"}

\* The rows in such hands.
Hands == {cur[w] : w \in {v \in Workers : InCall(v)}}

\* A worker's row in hand is a row exactly while it is in a call, with the time of
\* the call, and once its id is recorded the id is on the row.
CallShape ==
    \A w \in Workers :
        /\ ~InCall(w) => cur[w] = NoDispatch
        /\ InCall(w) => cur[w] \in Dispatches /\ seenAt[w] # Never
        /\ phase[w] = "recorded" => messageId[cur[w]]

\* Accepted is what a worker saw accepted, and what has an id.
AcceptedWasSent ==
    /\ \A w \in Workers : phase[w] \in {"accepted", "recorded"} => sends[cur[w]] >= 1
    /\ \A d \in Dispatches : messageId[d] => sends[d] >= 1

BookedInv == CallShape /\ AcceptedWasSent /\ SentWasAccepted

\* Worker w alone is out of its call.
Leaves(w) ==
    /\ phase'[w] \notin {"calling", "accepted", "recorded"} /\ cur'[w] = NoDispatch
    /\ \A v \in Workers :
          v # w => phase'[v] = phase[v] /\ cur'[v] = cur[v] /\ seenAt'[v] = seenAt[v]

\* No worker enters or leaves a call, or goes on in one.
StaysOut ==
    \A v \in Workers :
        \/ phase'[v] = phase[v] /\ cur'[v] = cur[v] /\ seenAt'[v] = seenAt[v]
        \/ /\ ~InCall(v) /\ phase'[v] \notin {"calling", "accepted", "recorded"}
           /\ cur'[v] = NoDispatch

NoneSent ==
    /\ \A d \in Dispatches : status'[d] = "SENT" => status[d] = "SENT"
    /\ UNCHANGED <<messageId, executedAt, sentAt>>

BesideCalls == StaysOut /\ NoneSent /\ clock' >= clock /\ UNCHANGED historyVars

\* The failed call of w, which may have sent the message all the same.
CallFails(w) ==
    /\ phase[w] = "calling" /\ Leaves(w) /\ NoneSent /\ UNCHANGED clock
    /\ \/ UNCHANGED historyVars
       \/ /\ sends' = [sends EXCEPT ![cur[w]] = @ + 1]
          /\ lost' = [lost EXCEPT ![cur[w]] = @ + 1]
          /\ faults' = faults + 1

\* A crash or an exception of w.
Stops(w) == LoseTrace(w) /\ Leaves(w) /\ NoneSent /\ UNCHANGED clock

\* A worker that is done with its row is in no call.
LEMMA GoOnLeaves ==
    ASSUME TypeOK, NEW w \in Workers, NEW rest, GoOnWith(w, rest)
    PROVE  Leaves(w)
  BY DEF GoOnWith, Leaves, TypeOK

\* And none was entered or left when it was in none.
LEMMA GoOnStaysOut ==
    ASSUME TypeOK, NEW w \in Workers, NEW rest, GoOnWith(w, rest), ~InCall(w)
    PROVE  StaysOut
  BY GoOnLeaves DEF Leaves, StaysOut

\* What a step can be for the calls under way and for what they leave behind.
LEMMA StepKinds ==
    ASSUME TypeOK, CallShape, [Next]_vars
    PROVE  \/ BesideCalls
           \/ \E w \in Workers, d \in Dispatches : Recover(w, d) \/ CallProvider(w, d)
           \/ \E w \in Workers : \/ ProviderAccepts(w) \/ RecordId(w) \/ CommitSent(w)
                                 \/ CallFails(w) \/ Stops(w)
  <1> USE DEF rowVars, attemptVars, workerVars, switchVars
  <1>1. ASSUME NEW d \in Dispatches, Enqueue(d) PROVE BesideCalls
    BY <1>1 DEF Enqueue, BesideCalls, StaysOut, NoneSent, TypeOK
  <1>2. ASSUME NEW w \in Workers, Claim(w) PROVE BesideCalls
    <2>1. StaysOut
      BY <1>2 DEF Claim, StaysOut, CallShape, InCall, TypeOK
    <2>2. NoneSent
      BY <1>2 DEF Claim, NoneSent
    <2> QED
      BY <1>2, <2>1, <2>2 DEF Claim, BesideCalls, TypeOK
  <1>3. ASSUME NEW w \in Workers, NEW d \in Dispatches,
               Skip(w, d) \/ Expire(w, d) \/ Suppress(w, d) \/ Defer(w, d)
        PROVE  BesideCalls
    <2>1. GoOnWith(w, batch[w] \ {d}) /\ ~InCall(w)
      BY <1>3 DEF Skip, Expire, Suppress, Defer, Sendable, Picks, InCall
    <2>2. StaysOut
      BY <2>1, GoOnStaysOut
    <2>3. NoneSent
      BY <1>3 DEF Skip, Expire, Suppress, Defer, Drop, NoneSent, TypeOK
    <2> QED
      BY <1>3, <2>2, <2>3 DEF Skip, Expire, Suppress, Defer, BesideCalls, TypeOK
  <1>4. ASSUME NEW w \in Workers, NEW p \in BOOLEAN, NEW m \in BOOLEAN,
               ProviderFails(w, p, m)
        PROVE  CallFails(w)
    <2>1. Leaves(w)
      BY <1>4, GoOnLeaves DEF ProviderFails
    <2>2. NoneSent
      BY <1>4 DEF ProviderFails, Drop, NoneSent, TypeOK
    <2> QED
      BY <1>4, <2>1, <2>2 DEF ProviderFails, CallFails
  <1>5. ASSUME NEW w \in Workers, Crash(w) \/ ProcessError(w) PROVE Stops(w)
    <2>1. Leaves(w)
      BY <1>5, GoOnLeaves DEF Crash, ProcessError
    <2> QED
      BY <1>5, <2>1 DEF Crash, ProcessError, Stops, NoneSent
  <1>6. ASSUME \/ \E c \in Contacts : OptOut(c)
               \/ SwitchRecovery \/ Tick \/ UNCHANGED vars
        PROVE  BesideCalls
    BY <1>6
    DEF OptOut, SwitchRecovery, Tick, vars, BesideCalls, StaysOut, NoneSent, TypeOK,
        historyVars
  <1> QED
    BY <1>1, <1>2, <1>3, <1>4, <1>5, <1>6 DEF Next, QueueNext, ProcessOne

-----------------------------------------------------------------------------
(* Nothing is booked that no provider accepted.                            *)

\* Every step keeps the books backed by an acceptance: the count of acceptances
\* never falls, and a worker books what it saw accepted or what has an id.
LEMMA BookedStep == TypeOK /\ BookedInv /\ [Next]_vars => BookedInv'
  <1> SUFFICES ASSUME TypeOK, BookedInv, [Next]_vars PROVE BookedInv'
    OBVIOUS
  <1> USE DEF rowVars, attemptVars, workerVars, switchVars, historyVars, BookedInv
  <1>a. TypeOK'
    BY NextType
  <1>1. CASE BesideCalls
    <2>1. CallShape'
      BY <1>1 DEF BesideCalls, StaysOut, NoneSent, CallShape, InCall
    <2>2. AcceptedWasSent'
      BY <1>1 DEF BesideCalls, StaysOut, NoneSent, AcceptedWasSent, InCall
    <2>3. SentWasAccepted'
      BY <1>1 DEF BesideCalls, NoneSent, SentWasAccepted
    <2> QED
      BY <2>1, <2>2, <2>3
  <1>2. ASSUME NEW w \in Workers, NEW d \in Dispatches, Recover(w, d)
        PROVE  BookedInv'
    <2>1. StaysOut
      BY <1>2, GoOnStaysOut DEF Recover, Picks, InCall
    <2>2. UNCHANGED <<messageId, sends>> /\ messageId[d]
      BY <1>2 DEF Recover
    <2>3. CallShape' /\ AcceptedWasSent'
      BY <2>1, <2>2 DEF StaysOut, CallShape, AcceptedWasSent, InCall
    <2>4. sends[d] >= 1
      BY <2>2 DEF AcceptedWasSent
    <2>5. SentWasAccepted'
      BY <1>2, <2>2, <2>4 DEF Recover, SentWasAccepted, TypeOK
    <2> QED
      BY <2>3, <2>5
  <1>3. ASSUME NEW w \in Workers, NEW d \in Dispatches, CallProvider(w, d)
        PROVE  BookedInv'
    <2>1. clock # Never
      BY DEF TypeOK, Never
    <2> QED
      BY <1>3, <2>1
      DEF CallProvider, CallShape, AcceptedWasSent, SentWasAccepted, InCall, TypeOK
  <1>4. ASSUME NEW w \in Workers, ProviderAccepts(w) PROVE BookedInv'
    <2>1. cur[w] \in Dispatches
      BY <1>4 DEF ProviderAccepts, CallShape, InCall
    <2>2. /\ \A d \in Dispatches : sends'[d] >= sends[d]
          /\ sends'[cur[w]] >= 1
      BY <1>4, <2>1 DEF ProviderAccepts, TypeOK
    <2>3. CallShape'
      BY <1>4 DEF ProviderAccepts, CallShape, InCall, TypeOK
    <2>4. AcceptedWasSent'
      <3>1. \A v \in Workers : phase'[v] \in {"accepted", "recorded"} =>
               v = w \/ (v # w /\ phase'[v] = phase[v] /\ sends[cur[v]] >= 1
                          /\ cur[v] \in Dispatches)
        BY <1>4 DEF ProviderAccepts, AcceptedWasSent, CallShape, InCall, TypeOK
      <3>2. \A v \in Workers :
               phase'[v] \in {"accepted", "recorded"} => sends'[cur[v]] >= 1
        BY <2>2, <3>1, <1>a DEF TypeOK
      <3>3. \A d \in Dispatches : messageId[d] => sends'[d] >= 1
        BY <2>2, <1>a DEF AcceptedWasSent, TypeOK
      <3> QED
        BY <1>4, <3>2, <3>3 DEF ProviderAccepts, AcceptedWasSent
    <2>5. SentWasAccepted'
      BY <1>4, <2>2, <1>a DEF ProviderAccepts, SentWasAccepted, TypeOK
    <2> QED
      BY <2>3, <2>4, <2>5
  <1>5. ASSUME NEW w \in Workers, RecordId(w) PROVE BookedInv'
    BY <1>5
    DEF RecordId, CallShape, AcceptedWasSent, SentWasAccepted, InCall, TypeOK
  <1>6. ASSUME NEW w \in Workers, CommitSent(w) PROVE BookedInv'
    <2>1. Leaves(w) /\ InCall(w) /\ phase[w] \in {"accepted", "recorded"}
      BY <1>6, GoOnLeaves DEF CommitSent, InCall
    <2>2. UNCHANGED <<messageId, sends>> /\ sends[cur[w]] >= 1 /\ cur[w] \in Dispatches
      BY <1>6, <2>1 DEF CommitSent, AcceptedWasSent, CallShape
    <2>3. CallShape' /\ AcceptedWasSent'
      BY <2>1, <2>2 DEF Leaves, CallShape, AcceptedWasSent, InCall
    <2>4. SentWasAccepted'
      BY <1>6, <2>2 DEF CommitSent, SentWasAccepted, TypeOK
    <2> QED
      BY <2>3, <2>4
  <1>7. ASSUME NEW w \in Workers, CallFails(w) \/ Stops(w) PROVE BookedInv'
    <2>1. Leaves(w) /\ NoneSent
      BY <1>7 DEF CallFails, Stops
    <2>2. \A d \in Dispatches : sends'[d] >= sends[d]
      BY <1>7 DEF CallFails, Stops, LoseTrace, TypeOK
    <2>3. CallShape'
      BY <2>1 DEF Leaves, NoneSent, CallShape, InCall
    <2>4. AcceptedWasSent'
      <3>1. \A v \in Workers : phase'[v] \in {"accepted", "recorded"} =>
               cur'[v] = cur[v] /\ sends[cur[v]] >= 1 /\ cur[v] \in Dispatches
        BY <2>1 DEF Leaves, AcceptedWasSent, CallShape, InCall
      <3>2. \A v \in Workers :
               phase'[v] \in {"accepted", "recorded"} => sends'[cur'[v]] >= 1
        BY <2>2, <3>1, <1>a DEF TypeOK
      <3>3. \A d \in Dispatches : messageId'[d] => sends'[d] >= 1
        BY <2>1, <2>2, <1>a DEF AcceptedWasSent, NoneSent, TypeOK
      <3> QED
        BY <3>2, <3>3 DEF AcceptedWasSent
    <2>5. SentWasAccepted'
      BY <2>1, <2>2, <1>a DEF NoneSent, SentWasAccepted, TypeOK
    <2> QED
      BY <2>3, <2>4, <2>5
  <1> QED
    BY <1>1, <1>2, <1>3, <1>4, <1>5, <1>6, <1>7, StepKinds

\* Types and books together, whatever the speed of the workers.
LEMMA BookedInvariant == Spec => [](TypeOK /\ BookedInv)
  <1>1. Init => BookedInv
    BY DEF Init, BookedInv, CallShape, AcceptedWasSent, SentWasAccepted, InCall, Never
  <1> QED
    BY <1>1, InitType, NextType, BookedStep, PTL DEF Spec

\* A row is SENT, or its attempt executed, only if some provider accepted the
\* message, even when workers outlive their leases and commit over one another.
THEOREM BookedWasAccepted == Spec => []SentWasAccepted
  BY BookedInvariant, PTL DEF BookedInv

-----------------------------------------------------------------------------
(* A row whose provider returns an id is repeated at most once per worker. *)

\* The workers that hold row d at place p of its call.
At(d, p) == {w \in Workers : cur[w] = d /\ phase[w] = p}

\* Until the id is on the row, each acceptance of the row without a lost trace is
\* in the hands of a worker that has yet to record it; from then on, the calls
\* still under way are all that can add to it.
RepeatsInv ==
    \A d \in ReturnsId :
        IF messageId[d]
        THEN sends[d] + Cardinality(At(d, "calling")) <= lost[d] + Cardinality(Workers)
        ELSE sends[d] <= lost[d] + Cardinality(At(d, "accepted"))

\* The workers at a place of a call are finitely many, and at one place only.
LEMMA AtFinite ==
    ASSUME NEW d, NEW p
    PROVE  /\ IsFiniteSet(Workers) /\ Cardinality(Workers) \in Nat
           /\ IsFiniteSet(At(d, p)) /\ Cardinality(At(d, p)) \in Nat
           /\ Cardinality(At(d, p)) <= Cardinality(Workers)
  <1>1. At(d, p) \in SUBSET Workers
    BY DEF At
  <1> QED
    BY <1>1, WorkersOK, FS_Subset, FS_CardinalityType

LEMMA AtDisjoint ==
    ASSUME NEW d
    PROVE  Cardinality(At(d, "calling")) + Cardinality(At(d, "accepted"))
             <= Cardinality(Workers)
  <1> DEFINE C == At(d, "calling")
             A == At(d, "accepted")
  <1>1. /\ IsFiniteSet(C) /\ Cardinality(C) \in Nat
        /\ IsFiniteSet(A) /\ Cardinality(A) \in Nat
    BY AtFinite
  <1>2. C \cap A = {} /\ C \cup A \in SUBSET Workers
    BY DEF At
  <1>3. Cardinality(C \cup A) = Cardinality(C) + Cardinality(A)
    <2>1. Cardinality(C \cap A) = 0
      BY <1>2, FS_EmptySet
    <2> HIDE DEF C, A
    <2>2. Cardinality(C \cup A) = Cardinality(C) + Cardinality(A) - Cardinality(C \cap A)
      BY <1>1, FS_Union
    <2> QED
      BY <1>1, <2>1, <2>2
  <1>4. Cardinality(C \cup A) <= Cardinality(Workers)
    BY <1>2, WorkersOK, FS_Subset
  <1> QED
    BY <1>3, <1>4

\* One element more or less is one more or less to count.
LEMMA OneMore ==
    ASSUME NEW S, IsFiniteSet(S), NEW x, NEW T, T \subseteq S \cup {x}
    PROVE  /\ IsFiniteSet(T) /\ Cardinality(T) \in Nat /\ Cardinality(S) \in Nat
           /\ Cardinality(T) <= Cardinality(S) + 1
  <1>1. /\ IsFiniteSet(S \cup {x})
        /\ Cardinality(S \cup {x}) = IF x \in S THEN Cardinality(S) ELSE Cardinality(S) + 1
    BY FS_AddElement
  <1>2. IsFiniteSet(T) /\ Cardinality(T) <= Cardinality(S \cup {x})
    BY <1>1, FS_Subset
  <1>3. Cardinality(T) \in Nat /\ Cardinality(S) \in Nat
    BY <1>2, FS_CardinalityType
  <1> QED
    BY <1>1, <1>2, <1>3

LEMMA OneLess ==
    ASSUME NEW S, IsFiniteSet(S), NEW x \in S, NEW T, T \subseteq S \ {x}
    PROVE  /\ IsFiniteSet(T) /\ Cardinality(T) \in Nat /\ Cardinality(S) \in Nat
           /\ Cardinality(T) + 1 <= Cardinality(S)
  <1>1. /\ IsFiniteSet(S \ {x}) /\ Cardinality(S \ {x}) = Cardinality(S) - 1
    BY FS_RemoveElement
  <1>2. IsFiniteSet(T) /\ Cardinality(T) <= Cardinality(S \ {x})
    BY <1>1, FS_Subset
  <1>3. Cardinality(T) \in Nat /\ Cardinality(S) \in Nat
    BY <1>2, FS_CardinalityType
  <1> QED
    BY <1>1, <1>2, <1>3

\* Every step keeps the account of one row.
LEMMA RepeatsStep ==
    ASSUME TypeOK, CallShape, RepeatsInv, [Next]_vars
    PROVE  RepeatsInv'
  <1> USE DEF rowVars, attemptVars, workerVars, switchVars, historyVars
  <1> DEFINE C(d) == At(d, "calling")
             A(d) == At(d, "accepted")
  <1> SUFFICES ASSUME NEW d \in ReturnsId
               PROVE  IF messageId'[d]
                      THEN sends'[d] + Cardinality(C(d)') <= lost'[d] + Cardinality(Workers)
                      ELSE sends'[d] <= lost'[d] + Cardinality(A(d)')
    BY DEF RepeatsInv
  <1>a. d \in Dispatches
    BY ConstantsOK
  <1>b. IF messageId[d]
        THEN sends[d] + Cardinality(C(d)) <= lost[d] + Cardinality(Workers)
        ELSE sends[d] <= lost[d] + Cardinality(A(d))
    BY DEF RepeatsInv
  <1>c. /\ Cardinality(Workers) \in Nat
        /\ IsFiniteSet(C(d)) /\ Cardinality(C(d)) \in Nat
        /\ IsFiniteSet(A(d)) /\ Cardinality(A(d)) \in Nat
        /\ Cardinality(C(d)) + Cardinality(A(d)) <= Cardinality(Workers)
    BY AtFinite, AtDisjoint
  <1>d. sends[d] \in Nat /\ lost[d] \in Nat /\ messageId[d] \in BOOLEAN
    BY <1>a DEF TypeOK
  <1>1. CASE BesideCalls
    <2>1. C(d)' = C(d) /\ A(d)' = A(d)
      BY <1>1, <1>a, ConstantsOK DEF BesideCalls, StaysOut, At, InCall
    <2> HIDE DEF C, A
    <2> QED
      BY <1>1, <1>b, <2>1 DEF BesideCalls, NoneSent
  <1>2. ASSUME NEW w \in Workers, NEW e \in Dispatches, Recover(w, e)
        PROVE  UNCHANGED <<messageId, sends, lost>> /\ C(d)' = C(d) /\ A(d)' = A(d)
    <2>1. StaysOut
      BY <1>2, GoOnStaysOut DEF Recover, Picks, InCall
    <2> QED
      BY <1>2, <2>1, <1>a, ConstantsOK DEF Recover, StaysOut, At, InCall
  <1>3. ASSUME NEW w \in Workers, NEW e \in Dispatches, CallProvider(w, e)
        PROVE  /\ UNCHANGED <<messageId, sends, lost>> /\ A(d)' = A(d)
               /\ messageId[d] => C(d)' = C(d)
    BY <1>3, <1>a DEF CallProvider, Sendable, Picks, At, TypeOK
  <1>4. ASSUME NEW w \in Workers, ProviderAccepts(w)
        PROVE  IF cur[w] = d
               THEN /\ messageId' = messageId /\ lost' = lost
                    /\ sends'[d] = sends[d] + 1
                    /\ w \in C(d) /\ C(d)' = C(d) \ {w}
                    /\ w \notin A(d) /\ A(d)' = A(d) \cup {w}
               ELSE /\ messageId' = messageId /\ lost' = lost
                    /\ sends'[d] = sends[d] /\ C(d)' = C(d) /\ A(d)' = A(d)
    BY <1>4, <1>a DEF ProviderAccepts, At, TypeOK
  <1>5. ASSUME NEW w \in Workers, RecordId(w)
        PROVE  /\ sends' = sends /\ lost' = lost /\ C(d)' = C(d)
               /\ \/ messageId'[d]
                  \/ ~messageId'[d] /\ ~messageId[d] /\ A(d)' = A(d)
    BY <1>5, <1>a DEF RecordId, At, TypeOK
  <1>6. ASSUME NEW w \in Workers, CommitSent(w)
        PROVE  UNCHANGED <<messageId, sends, lost>> /\ C(d)' = C(d) /\ A(d)' = A(d)
    <2>1. Leaves(w) /\ ~(cur[w] = d /\ phase[w] \in {"calling", "accepted"})
      BY <1>6, GoOnLeaves DEF CommitSent
    <2> QED
      BY <1>6, <2>1, <1>a, ConstantsOK DEF CommitSent, Leaves, At
  <1>7. ASSUME NEW w \in Workers, CallFails(w)
        PROVE  /\ messageId' = messageId /\ A(d)' = A(d)
               /\ \/ sends'[d] = sends[d] /\ lost'[d] = lost[d] /\ C(d)' \subseteq C(d)
                  \/ /\ sends'[d] = sends[d] + 1 /\ lost'[d] = lost[d] + 1
                     /\ C(d)' \subseteq C(d)
    BY <1>7, <1>a DEF CallFails, Leaves, NoneSent, At, TypeOK
  <1>8. ASSUME NEW w \in Workers, Stops(w)
        PROVE  /\ messageId' = messageId /\ sends' = sends /\ C(d)' \subseteq C(d)
               /\ IF cur[w] = d /\ phase[w] = "accepted"
                  THEN lost'[d] = lost[d] + 1 /\ w \in A(d) /\ A(d)' = A(d) \ {w}
                  ELSE lost'[d] = lost[d] /\ A(d)' = A(d)
    BY <1>8, <1>a DEF Stops, Leaves, LoseTrace, NoneSent, At, TypeOK
  <1> HIDE DEF C, A
  <1>9. ASSUME NEW w \in Workers, ProviderAccepts(w)
        PROVE  IF messageId'[d]
               THEN sends'[d] + Cardinality(C(d)') <= lost'[d] + Cardinality(Workers)
               ELSE sends'[d] <= lost'[d] + Cardinality(A(d)')
    <2>1. CASE cur[w] = d
      <3>1. Cardinality(A(d)') = Cardinality(A(d)) + 1
        BY <1>4, <1>9, <1>c, <2>1, FS_AddElement
      <3>2. Cardinality(C(d)') = Cardinality(C(d)) - 1
        BY <1>4, <1>9, <1>c, <2>1, FS_RemoveElement
      <3> QED
        BY <1>4, <1>9, <1>b, <1>c, <1>d, <2>1, <3>1, <3>2
    <2>2. CASE cur[w] # d
      BY <1>4, <1>9, <1>b, <2>2
    <2> QED
      BY <2>1, <2>2
  <1>10. ASSUME NEW w \in Workers, CallFails(w)
         PROVE  IF messageId'[d]
                THEN sends'[d] + Cardinality(C(d)') <= lost'[d] + Cardinality(Workers)
                ELSE sends'[d] <= lost'[d] + Cardinality(A(d)')
    <2>1. /\ C(d)' \subseteq C(d) /\ messageId' = messageId /\ A(d)' = A(d)
          /\ \/ sends'[d] = sends[d] /\ lost'[d] = lost[d]
             \/ sends'[d] = sends[d] + 1 /\ lost'[d] = lost[d] + 1
      BY <1>7, <1>10
    <2>2. Cardinality(C(d)') \in Nat /\ Cardinality(C(d)') <= Cardinality(C(d))
      BY <2>1, <1>c, FS_Subset, FS_CardinalityType
    <2> QED
      BY <1>b, <1>c, <1>d, <2>1, <2>2
  <1>11. ASSUME NEW w \in Workers, Stops(w)
         PROVE  IF messageId'[d]
                THEN sends'[d] + Cardinality(C(d)') <= lost'[d] + Cardinality(Workers)
                ELSE sends'[d] <= lost'[d] + Cardinality(A(d)')
    <2>1. C(d)' \subseteq C(d) /\ messageId' = messageId /\ sends' = sends
      BY <1>8, <1>11
    <2>2. Cardinality(C(d)') \in Nat /\ Cardinality(C(d)') <= Cardinality(C(d))
      BY <2>1, <1>c, FS_Subset, FS_CardinalityType
    <2>3. CASE cur[w] = d /\ phase[w] = "accepted"
      <3>1. Cardinality(A(d)') = Cardinality(A(d)) - 1
        BY <1>8, <1>11, <1>c, <2>3, FS_RemoveElement
      <3>2. lost'[d] = lost[d] + 1
        BY <1>8, <1>11, <2>3
      <3> QED
        BY <1>b, <1>c, <1>d, <2>1, <2>2, <3>1, <3>2
    <2>4. CASE ~(cur[w] = d /\ phase[w] = "accepted")
      <3>1. lost'[d] = lost[d] /\ A(d)' = A(d)
        BY <1>8, <1>11, <2>4
      <3> QED
        BY <1>b, <1>c, <1>d, <2>1, <2>2, <3>1
    <2> QED
      BY <2>3, <2>4
  <1>12. ASSUME NEW w \in Workers, RecordId(w)
         PROVE  IF messageId'[d]
                THEN sends'[d] + Cardinality(C(d)') <= lost'[d] + Cardinality(Workers)
                ELSE sends'[d] <= lost'[d] + Cardinality(A(d)')
    BY <1>5, <1>12, <1>b, <1>c, <1>d
  <1> QED
    BY <1>1, <1>2, <1>3, <1>6, <1>9, <1>10, <1>11, <1>12, <1>b, StepKinds

\* Even when workers outlive their leases, the committed id stops every later
\* pass, so a row with an id is sent at most once per worker, beyond lost traces.
THEOREM RepeatsAreBounded == Spec => []RepeatsBounded
  <1>1. Init => RepeatsInv
    <2> SUFFICES ASSUME Init, NEW d \in ReturnsId
                 PROVE  ~messageId[d] /\ sends[d] <= lost[d] + Cardinality(At(d, "accepted"))
      BY DEF RepeatsInv
    <2>1. ~messageId[d] /\ sends[d] = 0 /\ lost[d] = 0
      BY ConstantsOK DEF Init
    <2> QED
      BY <2>1, AtFinite
  <1>2. TypeOK /\ BookedInv /\ RepeatsInv /\ [Next]_vars => RepeatsInv'
    BY RepeatsStep DEF BookedInv
  <1>3. TypeOK /\ RepeatsInv => RepeatsBounded
    <2> SUFFICES ASSUME TypeOK, RepeatsInv, NEW d \in ReturnsId
                 PROVE  sends[d] <= Cardinality(Workers) + lost[d]
      BY DEF RepeatsBounded
    <2>1. sends[d] \in Nat /\ lost[d] \in Nat
      BY ConstantsOK DEF TypeOK
    <2>2. /\ Cardinality(At(d, "accepted")) \in Nat /\ Cardinality(Workers) \in Nat
          /\ Cardinality(At(d, "calling")) \in Nat
          /\ Cardinality(At(d, "accepted")) <= Cardinality(Workers)
      BY AtFinite
    <2>3. IF messageId[d]
          THEN sends[d] + Cardinality(At(d, "calling")) <= lost[d] + Cardinality(Workers)
          ELSE sends[d] <= lost[d] + Cardinality(At(d, "accepted"))
      BY DEF RepeatsInv
    <2> QED
      BY <2>1, <2>2, <2>3
  <1> QED
    BY <1>1, <1>2, <1>3, BookedInvariant, PTL DEF Spec

-----------------------------------------------------------------------------
(* The caps that are checked before the call and counted after it.         *)

\* An id on a row with no one to book it: what a crash or an exception between
\* RecordId and CommitSent leaves to Recover.
Orphans ==
    {d \in Dispatches : messageId[d] /\ executedAt[d] = Never /\ At(d, "recorded") = {}}

Executed(c) == {d \in Dispatches : CustomerOf[d] = c /\ executedAt[d] # Never}

\* The attempts that count against c's weekly cap or may come to: the executed
\* ones, those in a call, and those an id waits on to be booked.
Counted(c) == Executed(c) \cup {d \in Hands \cup Orphans : CustomerOf[d] = c}

OrphansInv == IsFiniteSet(Orphans) /\ Cardinality(Orphans) <= faults

ContactsInv ==
    \A c \in Customers :
        /\ IsFiniteSet(Counted(c))
        /\ Cardinality(Counted(c)) <= WeeklyCap + Cardinality(Workers) - 1 + faults

\* The same for the hourly cap.
SentRows == {d \in Dispatches : status[d] = "SENT" /\ sentAt[d] >= clock - RateWindow}

RateCounted == SentRows \cup Hands \cup Orphans

RateInv ==
    /\ IsFiniteSet(RateCounted)
    /\ Cardinality(RateCounted) <= MaxSendsPerHour + Cardinality(Workers) - 1 + faults

\* The limits and counters, one fact each.
LEMMA LimitTypes ==
    /\ RateWindow \in Nat /\ MaxSendsPerHour \in Nat /\ WeeklyCap \in Nat
    /\ Cardinality(Workers) \in Nat
    /\ TypeOK => faults \in Nat /\ clock \in Nat
  <1>1. RateWindow \in Nat /\ MaxSendsPerHour \in Nat /\ WeeklyCap \in Nat
    BY ConstantsOK
  <1>2. TypeOK => faults \in Nat /\ clock \in Nat
    BY DEF TypeOK
  <1> QED
    BY <1>1, <1>2, WorkersOK, FS_CardinalityType

\* The rows in a call are no more than the workers, after a step too.
LEMMA HandsAfter ==
    /\ IsFiniteSet(Hands') /\ Cardinality(Hands') \in Nat
    /\ Cardinality(Hands') <= Cardinality(Workers)
  <1> DEFINE V == {v \in Workers : InCall(v)'}
             f == [v \in V |-> cur'[v]]
  <1>1. IsFiniteSet(V) /\ Cardinality(V) <= Cardinality(Workers)
    BY WorkersOK, FS_Subset
  <1>2. f \in Surjection(V, Hands')
    BY DEF Surjection, Hands
  <1> HIDE DEF f, V
  <1>3. IsFiniteSet(Hands') /\ Cardinality(Hands') <= Cardinality(V)
    BY <1>1, <1>2, FS_Surjection
  <1>4. Cardinality(V) \in Nat /\ Cardinality(Hands') \in Nat /\ Cardinality(Workers) \in Nat
    BY <1>1, <1>3, WorkersOK, FS_CardinalityType
  <1> QED
    BY <1>1, <1>3, <1>4

\* Three finite sets together have no more elements than one by one.
LEMMA ThreeUnion ==
    ASSUME NEW E, NEW H, NEW O, IsFiniteSet(E), IsFiniteSet(H), IsFiniteSet(O),
           NEW T, T \subseteq E \cup H \cup O
    PROVE  /\ IsFiniteSet(T) /\ Cardinality(T) \in Nat
           /\ Cardinality(T) <= Cardinality(E) + Cardinality(H) + Cardinality(O)
  <1>1. /\ IsFiniteSet(E \cup H) /\ IsFiniteSet(E \cap H)
        /\ Cardinality(E \cup H) = Cardinality(E) + Cardinality(H) - Cardinality(E \cap H)
    BY FS_Union, FS_Intersection
  <1>2. /\ IsFiniteSet((E \cup H) \cup O) /\ IsFiniteSet((E \cup H) \cap O)
        /\ Cardinality((E \cup H) \cup O)
             = Cardinality(E \cup H) + Cardinality(O) - Cardinality((E \cup H) \cap O)
    BY <1>1, FS_Union, FS_Intersection
  <1>3. IsFiniteSet(T) /\ Cardinality(T) <= Cardinality((E \cup H) \cup O)
    BY <1>2, FS_Subset
  <1>4. /\ Cardinality(E) \in Nat /\ Cardinality(H) \in Nat /\ Cardinality(O) \in Nat
        /\ Cardinality(E \cup H) \in Nat /\ Cardinality(E \cap H) \in Nat
        /\ Cardinality((E \cup H) \cup O) \in Nat
        /\ Cardinality((E \cup H) \cap O) \in Nat /\ Cardinality(T) \in Nat
    BY <1>1, <1>2, <1>3, FS_CardinalityType
  <1> QED
    BY <1>1, <1>2, <1>3, <1>4

\* What a step other than a new call does to the rows in a call, the orphans and
\* the booked rows: what is booked comes from a call or from an orphan, and only a
\* fault makes an orphan.
CountedMoves ==
    /\ Hands' \subseteq Hands
    /\ Orphans' \subseteq Orphans \cup Hands
    /\ \/ Orphans' \subseteq Orphans /\ faults' >= faults
       \/ \E x : Orphans' \subseteq Orphans \cup {x} /\ faults' = faults + 1
    /\ \A d \in Dispatches :
          /\ executedAt'[d] # Never => executedAt[d] # Never \/ d \in Hands \cup Orphans
          /\ d \in SentRows' => \/ d \in SentRows \cup Hands \cup Orphans
                                \/ executedAt[d] # Never /\ status[d] \in Open

\* A row with an id that is not executed is an orphan or in a worker's hands.
LEMMA IdHeldOrOrphan ==
    ASSUME NEW d \in Dispatches, messageId[d], executedAt[d] = Never
    PROVE  d \in Hands \cup Orphans
  BY DEF Hands, Orphans, At, InCall

\* A new call aside, a step moves rows between these sets and adds none.
LEMMA CountedStep ==
    ASSUME TypeOK, CallShape, [Next]_vars
    PROVE  \/ \E w \in Workers, d \in Dispatches : CallProvider(w, d)
           \/ CountedMoves
  <1> USE DEF rowVars, attemptVars, workerVars, switchVars, historyVars
  <1>0. TypeOK'
    BY NextType
  <1>t. /\ TypeOK' /\ faults \in Nat /\ faults' \in Nat
        /\ clock \in Nat /\ clock' \in Nat /\ RateWindow \in Nat
    BY <1>0, LimitTypes DEF TypeOK
  <1>a. ASSUME StaysOut
        PROVE  /\ Hands' \subseteq Hands
               /\ \A d \in Dispatches : At(d, "recorded")' = At(d, "recorded")
    <2>1. \A d \in Dispatches : At(d, "recorded")' = At(d, "recorded")
      BY <1>a, ConstantsOK DEF StaysOut, At, InCall
    <2>2. Hands' \subseteq Hands
      BY <1>a DEF StaysOut, Hands, InCall
    <2> QED
      BY <2>1, <2>2
  <1>b. ASSUME NEW w \in Workers, Leaves(w)
        PROVE  /\ Hands' \subseteq Hands
               /\ \A d \in Dispatches :
                     /\ At(d, "recorded")' \subseteq At(d, "recorded")
                     /\ \/ At(d, "recorded")' = At(d, "recorded")
                        \/ d = cur[w] /\ phase[w] = "recorded"
    <2>1. Hands' \subseteq Hands
      BY <1>b DEF Leaves, Hands, InCall
    <2>2. \A d \in Dispatches :
             /\ At(d, "recorded")' \subseteq At(d, "recorded")
             /\ \/ At(d, "recorded")' = At(d, "recorded")
                \/ d = cur[w] /\ phase[w] = "recorded"
      BY <1>b DEF Leaves, At
    <2> QED
      BY <2>1, <2>2
  <1>c. ASSUME NoneSent, clock' >= clock
        PROVE  /\ \A d \in Dispatches :
                     /\ executedAt'[d] # Never => executedAt[d] # Never
                     /\ d \in SentRows' => d \in SentRows
               /\ (\A d \in Dispatches : At(d, "recorded")' = At(d, "recorded"))
                     => Orphans' \subseteq Orphans
    BY <1>c, <1>t DEF NoneSent, SentRows, Orphans, TypeOK
  <1>1. CASE BesideCalls
    BY <1>1, <1>a, <1>c, <1>t DEF BesideCalls, CountedMoves
  <1>2. ASSUME NEW w \in Workers, NEW d \in Dispatches, Recover(w, d)
        PROVE  CountedMoves
    <2>1. StaysOut
      BY <1>2, GoOnStaysOut DEF Recover, Picks, InCall
    <2>2. /\ messageId[d] /\ status[d] \in Open /\ UNCHANGED <<messageId, faults, clock>>
          /\ executedAt' = [executedAt EXCEPT ![d] = IF @ = Never THEN clock ELSE @]
          /\ \A e \in Dispatches :
                e # d => status'[e] = status[e] /\ sentAt'[e] = sentAt[e]
      BY <1>2 DEF Recover
    <2>3. executedAt[d] # Never \/ d \in Hands \cup Orphans
      BY <2>2, IdHeldOrOrphan
    <2>4. \A e \in Dispatches : /\ e # d => executedAt'[e] = executedAt[e]
                                /\ executedAt[e] # Never => executedAt'[e] # Never
      BY <2>2 DEF TypeOK
    <2>5. Orphans' \subseteq Orphans
      BY <1>a, <2>1, <2>2, <2>4 DEF Orphans
    <2>6. \A e \in Dispatches : e # d /\ e \in SentRows' => e \in SentRows
      BY <2>2 DEF SentRows
    <2> QED
      BY <1>a, <1>t, <2>1, <2>2, <2>3, <2>4, <2>5, <2>6 DEF CountedMoves
  <1>3. ASSUME NEW w \in Workers, ProviderAccepts(w) PROVE CountedMoves
    <2>1. \A d \in Dispatches : At(d, "recorded")' = At(d, "recorded")
      BY <1>3 DEF ProviderAccepts, At, TypeOK
    <2>2. Hands' \subseteq Hands
      BY <1>3 DEF ProviderAccepts, Hands, InCall, TypeOK
    <2>3. NoneSent /\ UNCHANGED <<clock, faults>>
      BY <1>3 DEF ProviderAccepts, NoneSent
    <2> QED
      BY <1>c, <1>t, <2>1, <2>2, <2>3 DEF CountedMoves
  <1>4. ASSUME NEW w \in Workers, RecordId(w) PROVE CountedMoves
    <2>1. \A d \in Dispatches :
             /\ At(d, "recorded") \subseteq At(d, "recorded")'
             /\ d = cur[w] => At(d, "recorded")' # {}
      BY <1>4 DEF RecordId, At, TypeOK
    <2>2. Hands' \subseteq Hands
      BY <1>4 DEF RecordId, Hands, InCall, TypeOK
    <2>3. UNCHANGED <<executedAt, sentAt, status, clock, faults>>
      BY <1>4 DEF RecordId
    <2>4. \A d \in Dispatches : d # cur[w] => messageId'[d] = messageId[d]
      BY <1>4 DEF RecordId, TypeOK
    <2>5. Orphans' \subseteq Orphans
      BY <2>1, <2>3, <2>4 DEF Orphans
    <2>6. SentRows' = SentRows
      BY <2>3 DEF SentRows
    <2> QED
      BY <1>t, <2>2, <2>3, <2>5, <2>6 DEF CountedMoves
  <1>5. ASSUME NEW w \in Workers, CommitSent(w) PROVE CountedMoves
    <2>1. Leaves(w) /\ InCall(w) /\ UNCHANGED <<messageId, faults, clock>>
      BY <1>5, GoOnLeaves DEF CommitSent, InCall
    <2>2. cur[w] \in Dispatches /\ cur[w] \in Hands /\ seenAt[w] # Never
      BY <2>1 DEF CallShape, Hands
    <2>3. /\ executedAt'[cur[w]] # Never
          /\ \A e \in Dispatches :
                e # cur[w] => /\ executedAt'[e] = executedAt[e]
                              /\ status'[e] = status[e] /\ sentAt'[e] = sentAt[e]
      BY <1>5, <2>2 DEF CommitSent, TypeOK
    <2>4. Orphans' \subseteq Orphans
      BY <1>b, <2>1, <2>3 DEF Orphans
    <2>5. \A e \in Dispatches : e # cur[w] /\ e \in SentRows' => e \in SentRows
      BY <2>1, <2>3 DEF SentRows
    <2> QED
      BY <1>b, <1>t, <2>1, <2>2, <2>3, <2>4, <2>5 DEF CountedMoves
  <1>6. ASSUME NEW w \in Workers, CallFails(w) PROVE CountedMoves
    <2>1. Leaves(w) /\ NoneSent /\ clock' >= clock /\ phase[w] = "calling"
      BY <1>6, <1>t DEF CallFails
    <2>2. faults' >= faults
      BY <1>6, <1>t DEF CallFails
    <2> QED
      BY <1>b, <1>c, <2>1, <2>2 DEF CountedMoves
  <1>7. ASSUME NEW w \in Workers, Stops(w) PROVE CountedMoves
    <2>1. Leaves(w) /\ NoneSent /\ clock' >= clock /\ faults' = faults + 1
      BY <1>7, <1>t DEF Stops, LoseTrace
    <2>2. Orphans' \subseteq Orphans \cup {cur[w]}
      BY <1>b, <2>1 DEF Orphans, NoneSent
    <2>3. cur[w] \in Orphans' => cur[w] \in Orphans \cup Hands
      BY <1>b, <2>1 DEF Orphans, NoneSent, Hands, InCall
    <2> QED
      BY <1>b, <1>c, <2>1, <2>2, <2>3 DEF CountedMoves
  <1> QED
    BY <1>1, <1>2, <1>3, <1>4, <1>5, <1>6, <1>7, StepKinds

\* A new call leaves the orphans and what is booked as they are.
LEMMA CallCounted ==
    ASSUME NEW w \in Workers, NEW d \in Dispatches, CallProvider(w, d), TypeOK
    PROVE  /\ Orphans' \subseteq Orphans /\ SentRows' = SentRows
           /\ UNCHANGED <<executedAt, faults>>
  <1> USE DEF rowVars, attemptVars, workerVars, switchVars, historyVars
  <1>1. UNCHANGED <<executedAt, faults, status, sentAt, clock, messageId>>
    BY DEF CallProvider
  <1>2. \A e \in Dispatches : At(e, "recorded") \subseteq At(e, "recorded")'
    BY DEF CallProvider, Sendable, Picks, At, TypeOK
  <1> QED
    BY <1>1, <1>2 DEF Orphans, SentRows

\* Each orphan has its fault.
LEMMA OrphansStep ==
    ASSUME TypeOK, CallShape, OrphansInv, [Next]_vars
    PROVE  OrphansInv'
  <1>0. TypeOK'
    BY NextType
  <1>t. faults \in Nat /\ faults' \in Nat /\ Cardinality(Orphans) \in Nat
    BY <1>0, FS_CardinalityType DEF TypeOK, OrphansInv
  <1>1. CASE Orphans' \subseteq Orphans /\ faults' >= faults
    <2>1. /\ IsFiniteSet(Orphans') /\ Cardinality(Orphans') <= Cardinality(Orphans)
      BY <1>1, FS_Subset DEF OrphansInv
    <2>2. Cardinality(Orphans') \in Nat
      BY <2>1, FS_CardinalityType
    <2> QED
      BY <1>1, <1>t, <2>1, <2>2 DEF OrphansInv
  <1>2. ASSUME NEW x, Orphans' \subseteq Orphans \cup {x}, faults' = faults + 1
        PROVE  OrphansInv'
    <2>1. /\ IsFiniteSet(Orphans') /\ Cardinality(Orphans') \in Nat
          /\ Cardinality(Orphans') <= Cardinality(Orphans) + 1
      BY <1>2, OneMore DEF OrphansInv
    <2> QED
      BY <1>2, <1>t, <2>1 DEF OrphansInv
  <1>3. ASSUME NEW w \in Workers, NEW d \in Dispatches, CallProvider(w, d)
        PROVE  OrphansInv'
    BY <1>1, <1>3, <1>t, CallCounted
  <1> QED
    BY <1>1, <1>2, <1>3, CountedStep DEF CountedMoves

\* The cap is checked when the call is made: there the executed rows are below it,
\* the rows in a call no more than the workers, the orphans no more than the faults.
LEMMA ContactsStep ==
    ASSUME TypeOK, CallShape, OrphansInv, ContactsInv, [Next]_vars
    PROVE  ContactsInv'
  <1> SUFFICES ASSUME NEW c \in Customers
               PROVE  /\ IsFiniteSet(Counted(c)')
                      /\ Cardinality(Counted(c)')
                           <= WeeklyCap + Cardinality(Workers) - 1 + faults'
    BY DEF ContactsInv
  <1>t. /\ faults \in Nat /\ faults' \in Nat /\ WeeklyCap \in Nat
        /\ Cardinality(Workers) \in Nat /\ faults' >= faults
    <2>0. TypeOK'
      BY NextType
    <2>1. faults \in Nat /\ faults' \in Nat /\ WeeklyCap \in Nat
      BY <2>0, LimitTypes DEF TypeOK
    <2>2. \A w \in Workers, d \in Dispatches : CallProvider(w, d) => faults' = faults
      BY CallCounted
    <2>3. faults' >= faults
      BY <2>1, <2>2, CountedStep DEF CountedMoves
    <2> QED
      BY <2>1, <2>3, LimitTypes
  <1>1. CASE CountedMoves
    <2>1. Counted(c)' \subseteq Counted(c)
      BY <1>1 DEF CountedMoves, Counted, Executed, Hands, Orphans
    <2>2. IsFiniteSet(Counted(c)') /\ Cardinality(Counted(c)') <= Cardinality(Counted(c))
      BY <2>1, FS_Subset DEF ContactsInv
    <2>3. Cardinality(Counted(c)') \in Nat /\ Cardinality(Counted(c)) \in Nat
      BY <2>2, FS_CardinalityType DEF ContactsInv
    <2>4. Cardinality(Counted(c)) <= WeeklyCap + Cardinality(Workers) - 1 + faults
      BY DEF ContactsInv
    <2> QED
      BY <1>t, <2>2, <2>3, <2>4
  <1>2. ASSUME NEW w \in Workers, NEW d \in Dispatches, CallProvider(w, d)
        PROVE  /\ IsFiniteSet(Counted(c)')
               /\ Cardinality(Counted(c)')
                    <= WeeklyCap + Cardinality(Workers) - 1 + faults'
    <2>1. Orphans' \subseteq Orphans /\ UNCHANGED <<executedAt, faults>>
      BY <1>2, CallCounted
    <2>2. CASE CustomerOf[d] = c
      <3>1. IsFiniteSet(Executed(c)) /\ Cardinality(Executed(c)) \in Nat
        <4>1. Executed(c) \subseteq Counted(c)
          BY DEF Counted
        <4> QED
          BY <4>1, FS_Subset, FS_CardinalityType DEF ContactsInv
      <3>2. Cardinality(Executed(c)) < WeeklyCap
        <4>1. SendTimeReason(d) = Allowed
          BY <1>2 DEF CallProvider
        <4>2. ~(ContactsThisWeek(c) >= WeeklyCap)
          BY <4>1, <2>2 DEF SendTimeReason, ChannelReason, Allowed
        <4>3. ContactsThisWeek(c) = Cardinality(Executed(c))
          BY DEF ContactsThisWeek, Executed
        <4> QED
          BY <4>2, <4>3, <3>1, <1>t
      <3>3. /\ IsFiniteSet(Hands') /\ Cardinality(Hands') \in Nat
            /\ Cardinality(Hands') <= Cardinality(Workers)
        BY HandsAfter
      <3>4. /\ IsFiniteSet(Orphans) /\ Cardinality(Orphans) \in Nat
            /\ Cardinality(Orphans) <= faults
        BY FS_CardinalityType DEF OrphansInv
      <3>5. Counted(c)' \subseteq Executed(c) \cup Hands' \cup Orphans
        BY <2>1 DEF Counted, Executed
      <3>6. /\ IsFiniteSet(Counted(c)') /\ Cardinality(Counted(c)') \in Nat
            /\ Cardinality(Counted(c)')
                 <= Cardinality(Executed(c)) + Cardinality(Hands') + Cardinality(Orphans)
        BY <3>1, <3>3, <3>4, <3>5, ThreeUnion
      <3> QED
        BY <1>t, <2>1, <3>1, <3>2, <3>3, <3>4, <3>6
    <2>3. CASE CustomerOf[d] # c
      <3>1. Hands' \subseteq Hands \cup {d}
        BY <1>2 DEF CallProvider, Hands, InCall, TypeOK
      <3>2. Counted(c)' \subseteq Counted(c)
        BY <2>1, <2>3, <3>1 DEF Counted, Executed
      <3>3. IsFiniteSet(Counted(c)') /\ Cardinality(Counted(c)') <= Cardinality(Counted(c))
        BY <3>2, FS_Subset DEF ContactsInv
      <3>4. Cardinality(Counted(c)') \in Nat /\ Cardinality(Counted(c)) \in Nat
        BY <3>3, FS_CardinalityType DEF ContactsInv
      <3>5. Cardinality(Counted(c)) <= WeeklyCap + Cardinality(Workers) - 1 + faults
        BY DEF ContactsInv
      <3> QED
        BY <1>t, <2>1, <3>3, <3>4, <3>5
    <2> QED
      BY <2>2, <2>3
  <1> QED
    BY <1>1, <1>2, CountedStep

\* The same for the hour: what is booked SENT was in a call or an orphan before.
LEMMA RateStep ==
    ASSUME TypeOK, LeaseInv, CallShape, OrphansInv, RateInv, [Next]_vars
    PROVE  RateInv'
  <1>0. TypeOK'
    BY NextType
  <1>t. /\ faults \in Nat /\ faults' \in Nat /\ MaxSendsPerHour \in Nat
        /\ Cardinality(Workers) \in Nat
    BY <1>0, LimitTypes DEF TypeOK
  <1>1. CASE CountedMoves
    <2>1. \A d \in Dispatches : status[d] \in Open => executedAt[d] = Never
      BY DEF LeaseInv, BooksAgree, Open
    <2>2. \A d \in Dispatches : d \in SentRows' => d \in RateCounted
      BY <1>1, <2>1 DEF CountedMoves, RateCounted
    <2>3. SentRows' \subseteq Dispatches
      BY DEF SentRows
    <2>4. RateCounted' \subseteq RateCounted
      BY <1>1, <2>2, <2>3 DEF CountedMoves, RateCounted
    <2>5. IsFiniteSet(RateCounted') /\ Cardinality(RateCounted') <= Cardinality(RateCounted)
      BY <2>4, FS_Subset DEF RateInv
    <2>6. Cardinality(RateCounted') \in Nat /\ Cardinality(RateCounted) \in Nat
      BY <2>5, FS_CardinalityType DEF RateInv
    <2>7. Cardinality(RateCounted) <= MaxSendsPerHour + Cardinality(Workers) - 1 + faults
      BY DEF RateInv
    <2>8. faults' >= faults
      BY <1>1, <1>t DEF CountedMoves
    <2> QED
      BY <1>t, <2>5, <2>6, <2>7, <2>8 DEF RateInv
  <1>2. ASSUME NEW w \in Workers, NEW d \in Dispatches, CallProvider(w, d)
        PROVE  RateInv'
    <2>1. Orphans' \subseteq Orphans /\ SentRows' = SentRows /\ faults' = faults
      BY <1>2, CallCounted
    <2>2. IsFiniteSet(SentRows) /\ Cardinality(SentRows) \in Nat
      <3>1. SentRows \subseteq RateCounted
        BY DEF RateCounted
      <3> QED
        BY <3>1, FS_Subset, FS_CardinalityType DEF RateInv
    <2>3. Cardinality(SentRows) < MaxSendsPerHour
      BY <1>2 DEF CallProvider, SentThisHour, SentRows
    <2>4. /\ IsFiniteSet(Hands') /\ Cardinality(Hands') \in Nat
          /\ Cardinality(Hands') <= Cardinality(Workers)
      BY HandsAfter
    <2>5. /\ IsFiniteSet(Orphans) /\ Cardinality(Orphans) \in Nat
          /\ Cardinality(Orphans) <= faults
      BY FS_CardinalityType DEF OrphansInv
    <2>6. RateCounted' \subseteq SentRows \cup Hands' \cup Orphans
      BY <2>1 DEF RateCounted
    <2>7. /\ IsFiniteSet(RateCounted') /\ Cardinality(RateCounted') \in Nat
          /\ Cardinality(RateCounted')
               <= Cardinality(SentRows) + Cardinality(Hands') + Cardinality(Orphans)
      BY <2>2, <2>4, <2>5, <2>6, ThreeUnion
    <2> QED
      BY <1>t, <2>1, <2>2, <2>3, <2>4, <2>5, <2>7 DEF RateInv
  <1> QED
    BY <1>1, <1>2, CountedStep

\* At first nothing is booked, in a call or waiting.
LEMMA CountedInit == Init => OrphansInv /\ ContactsInv /\ RateInv
  <1> SUFFICES ASSUME Init PROVE OrphansInv /\ ContactsInv /\ RateInv
    OBVIOUS
  <1>1. /\ Orphans = {} /\ SentRows = {} /\ Hands = {}
        /\ \A c \in Customers : Executed(c) = {}
    BY DEF Init, Orphans, SentRows, Hands, Executed, InCall
  <1>2. /\ RateCounted = {} /\ \A c \in Customers : Counted(c) = {}
    BY <1>1 DEF RateCounted, Counted
  <1>3. Cardinality(Workers) \in Nat /\ Cardinality(Workers) # 0
    BY WorkersOK, FS_CardinalityType, FS_EmptySet
  <1>4. faults = 0 /\ WeeklyCap \in Nat /\ MaxSendsPerHour \in Nat
    BY ConstantsOK DEF Init
  <1> QED
    BY <1>1, <1>2, <1>3, <1>4, FS_EmptySet DEF OrphansInv, ContactsInv, RateInv

\* Orphans and contacts together with the shapes they rest on.
LEMMA ContactsInvariant == Spec => [](TypeOK /\ BookedInv /\ OrphansInv /\ ContactsInv)
  <1>1. TypeOK /\ BookedInv /\ OrphansInv /\ ContactsInv /\ [Next]_vars
          => OrphansInv' /\ ContactsInv'
    BY OrphansStep, ContactsStep DEF BookedInv
  <1> QED
    BY <1>1, CountedInit, BookedInvariant, PTL DEF Spec

\* The excess over the weekly contact cap is at most one message per further worker
\* and one per fault, for workers of any speed.
THEOREM ContactExcessIsBounded == Spec => []ContactExcessBounded
  <1>1. TypeOK /\ ContactsInv => ContactExcessBounded
    <2> SUFFICES ASSUME TypeOK, ContactsInv, NEW c \in Customers
                 PROVE  ContactsThisWeek(c)
                          <= WeeklyCap + Cardinality(Workers) - 1 + faults
      BY DEF ContactExcessBounded
    <2>1. Executed(c) \subseteq Counted(c) /\ ContactsThisWeek(c) = Cardinality(Executed(c))
      BY DEF Counted, Executed, ContactsThisWeek
    <2>2. /\ IsFiniteSet(Executed(c))
          /\ Cardinality(Executed(c)) <= Cardinality(Counted(c))
      BY <2>1, FS_Subset DEF ContactsInv
    <2>3. Cardinality(Executed(c)) \in Nat /\ Cardinality(Counted(c)) \in Nat
      BY <2>2, FS_CardinalityType DEF ContactsInv
    <2>4. /\ WeeklyCap \in Nat /\ faults \in Nat /\ Cardinality(Workers) \in Nat
      BY LimitTypes
    <2> QED
      BY <2>1, <2>2, <2>3, <2>4 DEF ContactsInv
  <1> QED
    BY <1>1, ContactsInvariant, PTL

\* The excess over the hourly cap is bounded the same way, of workers that stay
\* within their leases: only then does a SENT row keep its status and its time.
THEOREM RateExcessIsBounded == PromptSpec => []RateExcessBounded
  <1>1. PromptSpec => Spec
    BY PTL DEF PromptSpec, Spec, PromptNext, PromptTick, Next
  <1>2. TypeOK /\ LeaseInv /\ BookedInv /\ OrphansInv /\ RateInv /\ [PromptNext]_vars
          => RateInv'
    BY RateStep DEF BookedInv, PromptNext, PromptTick, Next
  <1>3. TypeOK /\ RateInv => RateExcessBounded
    <2> SUFFICES ASSUME TypeOK, RateInv PROVE RateExcessBounded
      OBVIOUS
    <2>1. SentRows \subseteq RateCounted /\ SentThisHour = Cardinality(SentRows)
      BY DEF RateCounted, SentRows, SentThisHour
    <2>2. IsFiniteSet(SentRows) /\ Cardinality(SentRows) <= Cardinality(RateCounted)
      BY <2>1, FS_Subset DEF RateInv
    <2>3. Cardinality(SentRows) \in Nat /\ Cardinality(RateCounted) \in Nat
      BY <2>2, FS_CardinalityType DEF RateInv
    <2>4. /\ MaxSendsPerHour \in Nat /\ faults \in Nat /\ Cardinality(Workers) \in Nat
      BY LimitTypes
    <2> QED
      BY <2>1, <2>2, <2>3, <2>4 DEF RateInv, RateExcessBounded
  <1> QED
    BY <1>1, <1>2, <1>3, CountedInit, ContactsInvariant, PromptInvariant, PTL
    DEF PromptSpec

=============================================================================
