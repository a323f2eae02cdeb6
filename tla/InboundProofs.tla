---------------------------- MODULE InboundProofs ----------------------------
(***************************************************************************)
(* Theorems about InboundWorker, for every set of events, objects and      *)
(* workers, every batch size and number of attempts.                       *)
(***************************************************************************)
EXTENDS InboundWorker, FiniteSetTheorems, TLAPS

\* The constants, one fact each.
LEMMA ConstantTypes ==
    /\ KindOf \in [Objects -> Kinds] /\ ObjectOf \in [Events -> Objects]
    /\ PaymentOf \in [Events -> Objects]
    /\ CustomerOf \in [Events -> PhoneOnly \cup {Anyone}]
    /\ MaxAttempts \in Nat /\ MaxAttempts > 0 /\ MaxFaults \in Nat
    /\ NoEvent \notin Events
    /\ IsFiniteSet(Events) /\ IsFiniteSet(Objects)
    /\ \A e \in Events : StatusIn[e] # "ABSENT"
  BY InboundConstantsOK

\* Subsets of objects and of events have a size.
LEMMA Countable ==
    /\ \A S \in SUBSET Objects : IsFiniteSet(S) /\ Cardinality(S) \in Nat
    /\ \A S \in SUBSET Events : IsFiniteSet(S) /\ Cardinality(S) \in Nat
  BY ConstantTypes, FS_Subset, FS_CardinalityType

-----------------------------------------------------------------------------
(* Type correctness.  tries needs to know that an event in hand has a try  *)
(* left, so the types are proved with that and with what is in hand.       *)

TypeInv == TypeOK /\ TriesLeft /\ HeldInLease

\* A worker that lets its batch go leaves the types alone.
LEMMA AbandonType ==
    ASSUME TypeOK, NEW w \in Workers, Abandon(w), faults' \in 0..MaxFaults
    PROVE  TypeOK'
  BY DEF TypeOK, Abandon, Nothing, Reads, eventVars, entityVars

\* A claimed event was open.
LEMMA ClaimStatus ==
    ASSUME NEW w \in Workers, Claim(w)
    PROVE  \E claimed \in SUBSET Events :
             /\ \A e \in claimed : Claimable(e)
             /\ batch' = [batch EXCEPT ![w] = claimed]
             /\ status' = [e \in Events |-> IF e \in claimed THEN "PROCESSING"
                                                             ELSE status[e]]
             /\ leased' = [e \in Events |-> leased[e] \/ e \in claimed]
  BY DEF Claim

\* The values an upsert writes have their types.
LEMMA UpsertType ==
    ASSUME TypeOK, NEW w \in Workers, cur[w] # NoEvent
    PROVE  /\ RowsAfter(cur[w]) \in [Objects -> {"ABSENT"} \cup {StatusIn[e] : e \in Events}]
           /\ NumberAfter(w) \in [Objects -> Nat]
           /\ RefundedAfter(w) \in [Objects -> Nat]
  <1>1. cur[w] \in Events /\ read[w] \in Reads
    BY DEF TypeOK
  <1>2. read[w].number \in Nat /\ read[w].total \in Nat
    BY <1>1 DEF Reads
  <1>3. StatusIn[cur[w]] \in {StatusIn[e] : e \in Events}
    BY <1>1
  <1>4. RowsAfter(cur[w]) \in [Objects -> {"ABSENT"} \cup {StatusIn[e] : e \in Events}]
    BY <1>3 DEF RowsAfter, TypeOK
  <1>5. NumberAfter(w) \in [Objects -> Nat]
    BY <1>2 DEF NumberAfter, TypeOK
  <1>6. RefundedAfter(w) \in [Objects -> Nat]
    BY <1>2 DEF RefundedAfter, TypeOK
  <1> QED
    BY <1>4, <1>5, <1>6

\* Detection only opens and closes losses.
LEMMA LossType ==
    ASSUME TypeOK, NEW e \in Events, NEW numbers
    PROVE  LossAfter(e, numbers) \in [Objects -> {"NONE", "OPEN", "RECOVERED"}]
  BY DEF LossAfter, TypeOK

\* Init is well typed, and nothing is in hand.
LEMMA InitType == Init => TypeInv
  <1> SUFFICES ASSUME Init PROVE TypeInv
    OBVIOUS
  <1>1. TypeOK
    BY ConstantTypes DEF Init, TypeOK, Nothing, Reads
  <1>2. TriesLeft
    BY ConstantTypes DEF Init, TriesLeft
  <1>3. HeldInLease
    BY DEF Init, HeldInLease, Held
  <1> QED
    BY <1>1, <1>2, <1>3 DEF TypeInv

\* No step leaves the types.
LEMMA NextType == TypeInv /\ [Next]_vars => TypeOK'
  <1> SUFFICES ASSUME TypeInv, [Next]_vars PROVE TypeOK'
    OBVIOUS
  <1>t. TypeOK /\ TriesLeft /\ HeldInLease
    BY DEF TypeInv
  <1> USE DEF eventVars, entityVars, workerVars
  <1>1. ASSUME NEW e \in Events, Receive(e) PROVE TypeOK'
    <2>1. queue' \in Seq(Events)
      BY <1>1, <1>t DEF Receive, TypeOK
    <2> QED
      BY <1>1, <1>t, <2>1 DEF Receive, TypeOK
  <1>2. ASSUME NEW e \in Events, Lapse(e) PROVE TypeOK'
    BY <1>2, <1>t DEF Lapse, TypeOK
  <1>3. ASSUME NEW w \in Workers, Claim(w) PROVE TypeOK'
    <2>1. PICK claimed \in SUBSET Events :
             /\ batch' = [batch EXCEPT ![w] = claimed]
             /\ status' = [e \in Events |-> IF e \in claimed THEN "PROCESSING"
                                                             ELSE status[e]]
             /\ leased' = [e \in Events |-> leased[e] \/ e \in claimed]
      BY <1>3, ClaimStatus
    <2>2. leased' \in [Events -> BOOLEAN]
      <3>1. \A e \in Events : (leased[e] \/ e \in claimed) \in BOOLEAN
        OBVIOUS
      <3> QED
        BY <2>1, <3>1
    <2> QED
      BY <1>3, <1>t, <2>1, <2>2 DEF Claim, TypeOK
  <1>4. ASSUME NEW w \in Workers, Begin(w) PROVE TypeOK'
    <2>1. PICK e \in batch[w] :
            /\ cur' = [cur EXCEPT ![w] = e]
            /\ batch' = [batch EXCEPT ![w] = @ \ {e}]
            /\ \E r : read' = [read EXCEPT ![w] = r] /\ r =
                 [known |-> CustomerOf[e] \in customers,
                  isNew |-> rows[ObjectOf[e]] = "ABSENT",
                  found |-> KindOf[ObjectOf[e]] \in References => rows[PaymentOf[e]] # "ABSENT",
                  number |-> 1 + Cardinality(RowsOf(IntentOf[ObjectOf[e]])),
                  total |-> 1 + refunded[PaymentOf[e]]]
            /\ UNCHANGED <<queue, eventVars, entityVars, faults>>
      BY <1>4 DEF Begin
    <2>2. e \in Events /\ PaymentOf[e] \in Objects
      BY <2>1, <1>t, ConstantTypes DEF TypeOK
    <2>3. 1 + Cardinality(RowsOf(IntentOf[ObjectOf[e]])) \in Nat
      BY Countable DEF RowsOf, PaymentsOf
    <2>4. 1 + refunded[PaymentOf[e]] \in Nat
      BY <2>2, <1>t DEF TypeOK
    <2>5. PICK r : read' = [read EXCEPT ![w] = r] /\ r =
                 [known |-> CustomerOf[e] \in customers,
                  isNew |-> rows[ObjectOf[e]] = "ABSENT",
                  found |-> KindOf[ObjectOf[e]] \in References => rows[PaymentOf[e]] # "ABSENT",
                  number |-> 1 + Cardinality(RowsOf(IntentOf[ObjectOf[e]])),
                  total |-> 1 + refunded[PaymentOf[e]]]
      BY <2>1
    <2>6. r \in Reads
      <3>1. /\ (CustomerOf[e] \in customers) \in BOOLEAN
            /\ (rows[ObjectOf[e]] = "ABSENT") \in BOOLEAN
            /\ (KindOf[ObjectOf[e]] \in References => rows[PaymentOf[e]] # "ABSENT") \in BOOLEAN
        OBVIOUS
      <3> QED
        BY <2>3, <2>4, <2>5, <3>1 DEF Reads
    <2>7. read' \in [Workers -> Reads]
      BY <2>5, <2>6, <1>t DEF TypeOK
    <2>8. cur' \in [Workers -> Events \cup {NoEvent}] /\ batch' \in [Workers -> SUBSET Events]
      BY <2>1, <2>2, <1>t DEF TypeOK
    <2> QED
      BY <2>1, <2>7, <2>8, <1>t DEF TypeOK
  <1>5. ASSUME NEW w \in Workers, Normalized(w) PROVE TypeOK'
    <2>1. cur[w] \in Events
      BY <1>5, <1>t DEF Normalized, TypeOK
    <2>2. /\ rows' \in [Objects -> {"ABSENT"} \cup {StatusIn[e] : e \in Events}]
          /\ number' \in [Objects -> Nat]
          /\ refunded' \in [Objects -> Nat]
      BY <1>5, <1>t, UpsertType DEF Normalized
    <2>3. loss' \in [Objects -> {"NONE", "OPEN", "RECOVERED"}]
      BY <1>5, <1>t, <2>1, LossType DEF Normalized
    <2>4. customers' \subseteq PhoneOnly
      BY <1>5, <1>t, <2>1, ConstantTypes DEF Normalized, TypeOK
    <2>5. status' \in [Events -> {"ABSENT", "PENDING", "PROCESSING"} \cup Settled]
      BY <1>5, <1>t DEF Normalized, TypeOK, Settled
    <2>6. /\ cur' \in [Workers -> Events \cup {NoEvent}]
          /\ read' \in [Workers -> Reads]
          /\ leased' \in [Events -> BOOLEAN]
      BY <1>5, <1>t DEF Normalized, TypeOK, Nothing, Reads
    <2> QED
      BY <1>5, <1>t, <2>1, <2>2, <2>3, <2>4, <2>5, <2>6 DEF Normalized, TypeOK
  <1>6. ASSUME NEW w \in Workers, Refused(w) PROVE TypeOK'
    <2>1. cur[w] \in Events
      BY <1>6, <1>t DEF Refused, TypeOK
    <2>2. tries[cur[w]] < MaxAttempts /\ tries[cur[w]] \in Nat
      <3>1. status[cur[w]] = "PROCESSING"
        BY <1>6, <1>t DEF HeldInLease, Held, Refused
      <3>2. status[cur[w]] \notin Settled
        BY <3>1 DEF Settled
      <3>3. tries[cur[w]] \in 0..MaxAttempts
        BY <2>1, <1>t DEF TypeOK
      <3> QED
        BY <3>2, <3>3, <2>1, <1>t, ConstantTypes DEF TriesLeft
    <2>3. tries' \in [Events -> 0..MaxAttempts]
      BY <1>6, <1>t, <2>1, <2>2, ConstantTypes DEF Refused, TypeOK
    <2>4. customers' \subseteq PhoneOnly
      BY <1>6, <1>t, <2>1, ConstantTypes DEF Refused, TypeOK
    <2>5. status' \in [Events -> {"ABSENT", "PENDING", "PROCESSING"} \cup Settled]
      BY <1>6, <1>t DEF Refused, TypeOK, Settled
    <2>6. /\ cur' \in [Workers -> Events \cup {NoEvent}]
          /\ read' \in [Workers -> Reads]
          /\ leased' \in [Events -> BOOLEAN]
      BY <1>6, <1>t DEF Refused, TypeOK, Nothing, Reads
    <2> QED
      BY <1>6, <1>t, <2>3, <2>4, <2>5, <2>6 DEF Refused, TypeOK
  <1>7. ASSUME NEW w \in Workers, Raised(w) PROVE TypeOK'
    BY <1>7, <1>t, AbandonType DEF Raised, TypeOK
  <1>8. ASSUME NEW w \in Workers, Crash(w) PROVE TypeOK'
    <2>1. faults' \in 0..MaxFaults
      BY <1>8, <1>t, ConstantTypes DEF Crash, TypeOK
    <2> QED
      BY <1>8, <1>t, <2>1, AbandonType DEF Crash
  <1>9. CASE UNCHANGED vars
    BY <1>9, <1>t DEF vars, TypeOK
  <1> QED
    BY <1>1, <1>2, <1>3, <1>4, <1>5, <1>6, <1>7, <1>8, <1>9 DEF Next, ProcessOne

-----------------------------------------------------------------------------
(* What is in a worker's hands.                                            *)

\* Taking an event off a batch does not change what the worker holds.
LEMMA BeginHolds ==
    ASSUME TypeOK, NEW w \in Workers, Begin(w)
    PROVE  /\ \A v \in Workers : Held(v)' = Held(v)
           /\ cur'[w] \in batch[w] /\ cur'[w] \notin batch'[w]
           /\ \A v \in Workers \ {w} : cur'[v] = cur[v] /\ batch'[v] = batch[v]
  <1>1. PICK e \in batch[w] :
          /\ cur[w] = NoEvent
          /\ cur' = [cur EXCEPT ![w] = e]
          /\ batch' = [batch EXCEPT ![w] = @ \ {e}]
    BY DEF Begin
  <1>2. e \in Events /\ e # NoEvent
    BY <1>1, ConstantTypes DEF TypeOK
  <1>3. /\ cur'[w] = e /\ batch'[w] = batch[w] \ {e}
        /\ \A v \in Workers \ {w} : cur'[v] = cur[v] /\ batch'[v] = batch[v]
    BY <1>1 DEF TypeOK
  <1>4. Held(w)' = Held(w)
    BY <1>1, <1>2, <1>3 DEF Held
  <1>5. \A v \in Workers \ {w} : Held(v)' = Held(v)
    BY <1>3 DEF Held
  <1> QED
    BY <1>1, <1>3, <1>4, <1>5

\* An event that is done with leaves the hands of its worker and no others change.
LEMMA DoneHolds ==
    ASSUME TypeOK, HeldInLease, NEW w \in Workers, cur[w] # NoEvent,
           cur' = [cur EXCEPT ![w] = NoEvent], UNCHANGED batch
    PROVE  /\ Held(w)' = Held(w) \ {cur[w]}
           /\ cur'[w] = NoEvent
           /\ \A v \in Workers \ {w} : Held(v)' = Held(v) /\ cur'[v] = cur[v]
  <1>1. cur'[w] = NoEvent /\ \A v \in Workers \ {w} : cur'[v] = cur[v]
    BY DEF TypeOK
  <1>2. cur[w] \notin batch[w]
    BY DEF HeldInLease
  <1>3. Held(w)' = Held(w) \ {cur[w]}
    BY <1>1, <1>2 DEF Held
  <1>4. \A v \in Workers \ {w} : Held(v)' = Held(v)
    BY <1>1 DEF Held
  <1> QED
    BY <1>1, <1>3, <1>4

\* A worker that lets its batch go holds nothing.
LEMMA AbandonHolds ==
    ASSUME TypeOK, NEW w \in Workers, Abandon(w)
    PROVE  /\ Held(w)' = {} /\ cur'[w] = NoEvent /\ batch'[w] = {}
           /\ \A v \in Workers \ {w} : /\ Held(v)' = Held(v)
                                       /\ cur'[v] = cur[v] /\ batch'[v] = batch[v]
  <1>1. /\ cur'[w] = NoEvent /\ batch'[w] = {}
        /\ \A v \in Workers \ {w} : cur'[v] = cur[v] /\ batch'[v] = batch[v]
    BY DEF TypeOK, Abandon
  <1> QED
    BY <1>1 DEF Held

\* What is claimed was in no one's hands.
LEMMA ClaimHolds ==
    ASSUME TypeOK, HeldInLease, NEW w \in Workers, Claim(w)
    PROVE  \E claimed \in SUBSET Events :
             /\ \A e \in claimed : status'[e] = "PROCESSING" /\ leased'[e]
             /\ \A e \in Events \ claimed : status'[e] = status[e] /\ leased'[e] = leased[e]
             /\ \A v \in Workers : claimed \cap Held(v) = {}
             /\ Held(w) = {} /\ Held(w)' = claimed
             /\ cur'[w] = NoEvent
             /\ \A v \in Workers \ {w} : /\ Held(v)' = Held(v)
                                         /\ cur'[v] = cur[v] /\ batch'[v] = batch[v]
  <1>1. PICK claimed \in SUBSET Events :
             /\ \A e \in claimed : Claimable(e)
             /\ batch' = [batch EXCEPT ![w] = claimed]
             /\ status' = [e \in Events |-> IF e \in claimed THEN "PROCESSING"
                                                             ELSE status[e]]
             /\ leased' = [e \in Events |-> leased[e] \/ e \in claimed]
    BY ClaimStatus
  <1>2. cur[w] = NoEvent /\ batch[w] = {} /\ UNCHANGED cur
    BY DEF Claim, Idle
  <1>3. batch'[w] = claimed /\ \A v \in Workers \ {w} : batch'[v] = batch[v]
    BY <1>1 DEF TypeOK
  <1>4. \A v \in Workers : claimed \cap Held(v) = {}
    BY <1>1 DEF HeldInLease, Claimable
  <1>5. \A e \in Events \ claimed : leased'[e] = leased[e]
    BY <1>1 DEF TypeOK
  <1> QED
    BY <1>1, <1>2, <1>3, <1>4, <1>5 DEF Held

\* The lease keeps an event in one worker's hands.
LEMMA HolderStep ==
    TypeOK /\ OneHolder /\ HeldInLease /\ [Next]_vars => OneHolder' /\ HeldInLease'
  <1> SUFFICES ASSUME TypeOK, OneHolder, HeldInLease, [Next]_vars
               PROVE  OneHolder' /\ HeldInLease'
    OBVIOUS
  <1> USE DEF eventVars, entityVars, workerVars
  <1>1. ASSUME NEW e \in Events, Receive(e) PROVE OneHolder' /\ HeldInLease'
    <2>1. \A w \in Workers : Held(w)' = Held(w) /\ e \notin Held(w)
      BY <1>1 DEF Receive, Held, HeldInLease
    <2>2. \A d \in Events \ {e} : status'[d] = status[d]
      BY <1>1 DEF Receive, TypeOK
    <2>3. \A w \in Workers : Held(w) \subseteq Events
      BY DEF Held, TypeOK
    <2> QED
      BY <1>1, <2>1, <2>2, <2>3 DEF OneHolder, HeldInLease, Receive
  <1>2. ASSUME NEW e \in Events, Lapse(e) PROVE OneHolder' /\ HeldInLease'
    <2>1. \A w \in Workers : Held(w)' = Held(w) /\ e \notin Held(w)
      BY <1>2 DEF Lapse, Held
    <2>2. \A d \in Events \ {e} : leased'[d] = leased[d]
      BY <1>2 DEF Lapse, TypeOK
    <2>3. \A w \in Workers : Held(w) \subseteq Events
      BY DEF Held, TypeOK
    <2> QED
      BY <1>2, <2>1, <2>2, <2>3 DEF OneHolder, HeldInLease, Lapse
  <1>3. ASSUME NEW w \in Workers, Claim(w) PROVE OneHolder' /\ HeldInLease'
    <2>1. PICK claimed \in SUBSET Events :
             /\ \A e \in claimed : status'[e] = "PROCESSING" /\ leased'[e]
             /\ \A e \in Events \ claimed : status'[e] = status[e] /\ leased'[e] = leased[e]
             /\ \A v \in Workers : claimed \cap Held(v) = {}
             /\ Held(w) = {} /\ Held(w)' = claimed
             /\ cur'[w] = NoEvent
             /\ \A v \in Workers \ {w} : /\ Held(v)' = Held(v)
                                         /\ cur'[v] = cur[v] /\ batch'[v] = batch[v]
      BY <1>3, ClaimHolds
    <2>2. OneHolder'
      BY <2>1 DEF OneHolder
    <2>3. \A v \in Workers : Held(v) \subseteq Events
      BY DEF Held, TypeOK
    <2>4. \A v \in Workers : \A e \in Held(v)' : status'[e] = "PROCESSING" /\ leased'[e]
      BY <2>1, <2>3 DEF HeldInLease
    <2>5. cur'[w] \notin batch'[w]
      <3>1. batch'[w] \in SUBSET Events
        BY <2>1 DEF Held
      <3> QED
        BY <2>1, <3>1, ConstantTypes
    <2> QED
      BY <2>1, <2>2, <2>4, <2>5 DEF HeldInLease
  <1>4. ASSUME NEW w \in Workers, Begin(w) PROVE OneHolder' /\ HeldInLease'
    <2>1. /\ \A v \in Workers : Held(v)' = Held(v)
          /\ cur'[w] \notin batch'[w]
          /\ \A v \in Workers \ {w} : cur'[v] = cur[v] /\ batch'[v] = batch[v]
      BY <1>4, BeginHolds
    <2>2. UNCHANGED <<status, leased>>
      BY <1>4 DEF Begin
    <2> QED
      BY <2>1, <2>2 DEF OneHolder, HeldInLease
  <1>5. ASSUME NEW w \in Workers, Normalized(w) \/ Refused(w)
        PROVE  OneHolder' /\ HeldInLease'
    <2>1. /\ cur[w] # NoEvent
          /\ cur' = [cur EXCEPT ![w] = NoEvent] /\ UNCHANGED batch
          /\ \E s : status' = [status EXCEPT ![cur[w]] = s]
          /\ leased' = [leased EXCEPT ![cur[w]] = FALSE]
      BY <1>5 DEF Normalized, Refused
    <2>2. /\ Held(w)' = Held(w) \ {cur[w]}
          /\ cur'[w] = NoEvent
          /\ \A v \in Workers \ {w} : Held(v)' = Held(v) /\ cur'[v] = cur[v]
      BY <2>1, DoneHolds
    <2>3. \A v \in Workers : Held(v) \subseteq Events
      BY DEF Held, TypeOK
    <2>4. cur[w] \in Held(w)
      BY <2>1 DEF Held
    <2>5. \A v \in Workers : cur[w] \notin Held(v)'
      BY <2>2, <2>4 DEF OneHolder
    <2>6. \A e \in Events \ {cur[w]} : status'[e] = status[e] /\ leased'[e] = leased[e]
      BY <2>1 DEF TypeOK
    <2>7. OneHolder'
      BY <2>2 DEF OneHolder
    <2>8. \A v \in Workers : \A e \in Held(v)' : status'[e] = "PROCESSING" /\ leased'[e]
      BY <2>2, <2>3, <2>5, <2>6 DEF HeldInLease
    <2>9. \A v \in Workers : cur'[v] \notin batch'[v]
      BY <2>1, <2>2, ConstantTypes DEF HeldInLease, TypeOK
    <2> QED
      BY <2>7, <2>8, <2>9 DEF HeldInLease
  <1>6. ASSUME NEW w \in Workers, Raised(w) \/ Crash(w) PROVE OneHolder' /\ HeldInLease'
    <2>1. Abandon(w) /\ UNCHANGED <<status, leased>>
      BY <1>6 DEF Raised, Crash, Abandon
    <2>2. /\ Held(w)' = {} /\ cur'[w] = NoEvent /\ batch'[w] = {}
          /\ \A v \in Workers \ {w} : /\ Held(v)' = Held(v)
                                      /\ cur'[v] = cur[v] /\ batch'[v] = batch[v]
      BY <2>1, AbandonHolds
    <2> QED
      BY <2>1, <2>2 DEF OneHolder, HeldInLease
  <1>7. CASE UNCHANGED vars
    BY <1>7 DEF vars, OneHolder, HeldInLease, Held
  <1> QED
    BY <1>1, <1>2, <1>3, <1>4, <1>5, <1>6, <1>7 DEF Next, ProcessOne

-----------------------------------------------------------------------------
(* Tries, and transactions one after another.                              *)

\* An event that uses up its tries is done with.
LEMMA TriesStep ==
    TypeOK /\ TriesLeft /\ HeldInLease /\ [Next]_vars => TriesLeft'
  <1> SUFFICES ASSUME TypeOK, TriesLeft, HeldInLease, [Next]_vars PROVE TriesLeft'
    OBVIOUS
  <1> USE DEF eventVars, entityVars, workerVars
  <1>1. ASSUME NEW e \in Events, Receive(e) PROVE TriesLeft'
    <2>1. status[e] \notin Settled /\ \A d \in Events \ {e} : status'[d] = status[d]
      BY <1>1 DEF Receive, TypeOK, Settled
    <2> QED
      BY <1>1, <2>1 DEF Receive, TriesLeft
  <1>2. ASSUME NEW e \in Events, Lapse(e) PROVE TriesLeft'
    BY <1>2 DEF Lapse, TriesLeft
  <1>3. ASSUME NEW w \in Workers, Claim(w) PROVE TriesLeft'
    <2>1. PICK claimed \in SUBSET Events :
             /\ \A e \in claimed : Claimable(e)
             /\ status' = [e \in Events |-> IF e \in claimed THEN "PROCESSING"
                                                             ELSE status[e]]
      BY <1>3, ClaimStatus
    <2>2. \A e \in claimed : status[e] \notin Settled
      BY <2>1 DEF Claimable, Settled
    <2> QED
      BY <1>3, <2>1, <2>2 DEF Claim, TriesLeft
  <1>4. ASSUME NEW w \in Workers, Begin(w) \/ Raised(w) \/ Crash(w) PROVE TriesLeft'
    BY <1>4 DEF Begin, Raised, Crash, Abandon, TriesLeft
  <1>5. ASSUME NEW w \in Workers, Normalized(w) PROVE TriesLeft'
    <2>1. status'[cur[w]] \in Settled
          /\ \A d \in Events \ {cur[w]} : status'[d] = status[d]
      BY <1>5 DEF Normalized, TypeOK, Settled
    <2> QED
      BY <1>5, <2>1 DEF Normalized, TriesLeft
  <1>6. ASSUME NEW w \in Workers, Refused(w) PROVE TriesLeft'
    <2>1. cur[w] \in Events /\ tries[cur[w]] \in Nat
      BY <1>6, ConstantTypes DEF Refused, TypeOK
    <2>2. \A d \in Events \ {cur[w]} : status'[d] = status[d] /\ tries'[d] = tries[d]
      BY <1>6 DEF Refused, TypeOK
    <2>3. tries'[cur[w]] = tries[cur[w]] + 1
      BY <1>6, <2>1 DEF Refused, TypeOK
    <2>4. tries[cur[w]] + 1 >= MaxAttempts => status'[cur[w]] \in Settled
      BY <1>6, <2>1 DEF Refused, TypeOK, Settled
    <2>5. status'[cur[w]] \notin Settled => tries'[cur[w]] < MaxAttempts
      BY <2>1, <2>3, <2>4, ConstantTypes
    <2> QED
      BY <2>1, <2>2, <2>5 DEF TriesLeft
  <1>7. CASE UNCHANGED vars
    BY <1>7 DEF vars, TriesLeft
  <1> QED
    BY <1>1, <1>2, <1>3, <1>4, <1>5, <1>6, <1>7 DEF Next, ProcessOne

\* The only step that brings an event under way waits for Razorpay's lock.
LEMMA SerialStep ==
    TypeOK /\ HeldInLease /\ OneAfterAnother /\ [Next]_vars => OneAfterAnother'
  <1> SUFFICES ASSUME TypeOK, HeldInLease, OneAfterAnother, [Next]_vars
               PROVE  OneAfterAnother'
    OBVIOUS
  <1> USE DEF eventVars, entityVars, workerVars
  <1>1. ASSUME NEW e \in Events, Receive(e) \/ Lapse(e) PROVE OneAfterAnother'
    BY <1>1 DEF Receive, Lapse, OneAfterAnother, Provider
  <1>2. ASSUME NEW w \in Workers, Claim(w) PROVE OneAfterAnother'
    BY <1>2 DEF Claim, OneAfterAnother, Provider
  <1>3. ASSUME NEW w \in Workers, Begin(w) PROVE OneAfterAnother'
    <2>1. PICK e \in batch[w] : ~Waits(w, e) /\ cur' = [cur EXCEPT ![w] = e]
      BY <1>3 DEF Begin
    <2>2. cur'[w] = e /\ \A v \in Workers \ {w} : cur'[v] = cur[v]
      BY <2>1 DEF TypeOK
    <2>3. \A v \in Workers \ {w} :
             cur[v] # NoEvent => ~(Provider(cur[v]) = "razorpay" /\ Provider(e) = "razorpay")
      BY <2>1 DEF Waits
    <2> QED
      BY <2>2, <2>3 DEF OneAfterAnother, Provider
  <1>4. ASSUME NEW w \in Workers, Normalized(w) \/ Refused(w) \/ Raised(w) \/ Crash(w)
        PROVE  OneAfterAnother'
    <2>1. cur' = [cur EXCEPT ![w] = NoEvent]
      BY <1>4 DEF Normalized, Refused, Raised, Crash, Abandon
    <2>2. cur'[w] = NoEvent /\ \A v \in Workers \ {w} : cur'[v] = cur[v]
      BY <2>1 DEF TypeOK
    <2> QED
      BY <2>2 DEF OneAfterAnother, Provider
  <1>5. CASE UNCHANGED vars
    BY <1>5 DEF vars, OneAfterAnother, Provider
  <1> QED
    BY <1>1, <1>2, <1>3, <1>4, <1>5 DEF Next, ProcessOne

-----------------------------------------------------------------------------
(* What is read before a write is still so when it is used.                *)

\* Of two events that are not both Razorpay's only one can be a payment or a refund.
LEMMA OtherProvider ==
    ASSUME NEW d, NEW e, ~(Provider(d) = "razorpay" /\ Provider(e) = "razorpay"),
           KindOf[ObjectOf[d]] \in {"payment", "refund"}
    PROVE  KindOf[ObjectOf[e]] \notin {"payment", "refund"}
  BY DEF Provider

\* The attempts of an intent change only when a payment gets a row.
LEMMA RowsKeep ==
    ASSUME \A p \in Objects : KindOf[p] = "payment" =>
              (rows'[p] = "ABSENT" <=> rows[p] = "ABSENT")
    PROVE  \A i : RowsOf(i)' = RowsOf(i)
  BY DEF RowsOf, PaymentsOf

\* A step that writes no canonical row and begins nothing keeps the reads valid.
LEMMA ReadsFrame ==
    ASSUME ReadsStillHold, UNCHANGED <<rows, refunded>>,
           \A v \in Workers : cur'[v] # NoEvent => cur'[v] = cur[v] /\ read'[v] = read[v]
    PROVE  ReadsStillHold'
  <1>1. \A i : RowsOf(i)' = RowsOf(i)
    BY RowsKeep
  <1> QED
    BY <1>1 DEF ReadsStillHold

\* Only a transaction of the same provider could make a read stale, and it waits.
LEMMA ReadsStep ==
    TypeOK /\ OneAfterAnother /\ ReadsStillHold /\ [Next]_vars => ReadsStillHold'
  <1> SUFFICES ASSUME TypeOK, OneAfterAnother, ReadsStillHold, [Next]_vars
               PROVE  ReadsStillHold'
    OBVIOUS
  <1> USE DEF eventVars, entityVars, workerVars
  <1>1. ASSUME NEW e \in Events, Receive(e) \/ Lapse(e) PROVE ReadsStillHold'
    BY <1>1, ReadsFrame DEF Receive, Lapse
  <1>2. ASSUME NEW w \in Workers, Claim(w) PROVE ReadsStillHold'
    BY <1>2, ReadsFrame DEF Claim
  <1>3. ASSUME NEW w \in Workers, Begin(w) PROVE ReadsStillHold'
    <2>1. PICK e \in batch[w] :
            /\ cur' = [cur EXCEPT ![w] = e]
            /\ read' = [read EXCEPT ![w] =
                 [known |-> CustomerOf[e] \in customers,
                  isNew |-> rows[ObjectOf[e]] = "ABSENT",
                  found |-> KindOf[ObjectOf[e]] \in References => rows[PaymentOf[e]] # "ABSENT",
                  number |-> 1 + Cardinality(RowsOf(IntentOf[ObjectOf[e]])),
                  total |-> 1 + refunded[PaymentOf[e]]]]
      BY <1>3 DEF Begin
    <2>2. UNCHANGED <<rows, refunded>>
      BY <1>3 DEF Begin
    <2>3. /\ cur'[w] = e
          /\ read'[w].isNew = (rows[ObjectOf[e]] = "ABSENT")
          /\ read'[w].number = 1 + Cardinality(RowsOf(IntentOf[ObjectOf[e]]))
          /\ read'[w].total = 1 + refunded[PaymentOf[e]]
      BY <2>1 DEF TypeOK
    <2>4. \A v \in Workers \ {w} : cur'[v] = cur[v] /\ read'[v] = read[v]
      BY <2>1 DEF TypeOK
    <2>5. \A i : RowsOf(i)' = RowsOf(i)
      BY <2>2, RowsKeep
    <2> QED
      BY <2>2, <2>3, <2>4, <2>5 DEF ReadsStillHold
  <1>4. ASSUME NEW w \in Workers, Normalized(w) PROVE ReadsStillHold'
    <2>1. cur'[w] = NoEvent /\ \A v \in Workers \ {w} : cur'[v] = cur[v] /\ read'[v] = read[v]
      BY <1>4 DEF Normalized, TypeOK
    <2>2. cur[w] \in Events /\ cur[w] # NoEvent
      BY <1>4 DEF Normalized, TypeOK
    <2> SUFFICES ASSUME NEW v \in Workers, cur'[v] # NoEvent,
                        KindOf[ObjectOf[cur[v]]] \in {"payment", "refund"}
                 PROVE  /\ KindOf[ObjectOf[cur[v]]] = "refund" =>
                             read[v].total = 1 + refunded'[PaymentOf[cur[v]]]
                        /\ KindOf[ObjectOf[cur[v]]] = "payment" =>
                             /\ read[v].isNew <=> rows'[ObjectOf[cur[v]]] = "ABSENT"
                             /\ read[v].number =
                                  1 + Cardinality(RowsOf(IntentOf[ObjectOf[cur[v]]])')
      BY <2>1 DEF ReadsStillHold
    <2>3. v # w /\ cur[v] # NoEvent /\ cur[v] \in Events
      BY <2>1 DEF TypeOK
    <2>4. KindOf[ObjectOf[cur[w]]] \notin {"payment", "refund"}
      BY <2>2, <2>3, OtherProvider DEF OneAfterAnother
    <2>5. UNCHANGED refunded
      BY <1>4, <2>4 DEF Normalized, RefundedAfter
    <2>6. \A p \in Objects : KindOf[p] = "payment" => rows'[p] = rows[p]
      BY <1>4, <2>4 DEF Normalized, RowsAfter, TypeOK
    <2>7. \A i : RowsOf(i)' = RowsOf(i)
      BY <2>6, RowsKeep
    <2>8. ObjectOf[cur[v]] \in Objects
      BY <2>3, ConstantTypes
    <2>9. /\ KindOf[ObjectOf[cur[v]]] = "refund" =>
               read[v].total = 1 + refunded[PaymentOf[cur[v]]]
          /\ KindOf[ObjectOf[cur[v]]] = "payment" =>
               /\ read[v].isNew <=> rows[ObjectOf[cur[v]]] = "ABSENT"
               /\ read[v].number = 1 + Cardinality(RowsOf(IntentOf[ObjectOf[cur[v]]]))
      BY <2>3 DEF ReadsStillHold
    <2>10. Cardinality(RowsOf(IntentOf[ObjectOf[cur[v]]])')
             = Cardinality(RowsOf(IntentOf[ObjectOf[cur[v]]]))
      BY <2>1, <2>3, <2>7
    <2> QED
      BY <2>5, <2>6, <2>8, <2>9, <2>10
  <1>5. ASSUME NEW w \in Workers, Refused(w) \/ Raised(w) \/ Crash(w) PROVE ReadsStillHold'
    <2>1. /\ UNCHANGED <<rows, refunded>>
          /\ cur' = [cur EXCEPT ![w] = NoEvent]
          /\ \E r : read' = [read EXCEPT ![w] = r]
      BY <1>5 DEF Refused, Raised, Crash, Abandon
    <2>2. \A v \in Workers : cur'[v] # NoEvent => cur'[v] = cur[v] /\ read'[v] = read[v]
      BY <2>1 DEF TypeOK
    <2> QED
      BY <2>1, <2>2, ReadsFrame
  <1>6. CASE UNCHANGED vars
    BY <1>6, ReadsFrame DEF vars
  <1> QED
    BY <1>1, <1>2, <1>3, <1>4, <1>5, <1>6 DEF Next, ProcessOne

-----------------------------------------------------------------------------
(* Effects once.                                                           *)

\* Steps that leave the log and the refunds alone, and no event's being PROCESSED.
LEMMA EffectsFrame ==
    ASSUME EffectsOnce, UNCHANGED <<log, refunded>>,
           \A e \in Events : status'[e] = "PROCESSED" <=> status[e] = "PROCESSED"
    PROVE  EffectsOnce'
  <1>1. \A p : RefundsOf(p)' = RefundsOf(p)
    BY DEF RefundsOf
  <1> QED
    BY <1>1 DEF EffectsOnce

\* A refund that is logged for the first time is added once.
LEMMA NormalizedEffects ==
    ASSUME TypeOK, HeldInLease, ReadsStillHold, EffectsOnce,
           NEW w \in Workers, Normalized(w)
    PROVE  EffectsOnce'
  <1> DEFINE e == cur[w]
  <1>1. e \in Events /\ e # NoEvent /\ PaymentOf[e] \in Objects
    BY ConstantTypes DEF Normalized, TypeOK
  <1>2. status[e] = "PROCESSING"
    BY <1>1 DEF HeldInLease, Held
  <1>3. e \notin log
    BY <1>1, <1>2 DEF EffectsOnce
  <1>4. log' = log \cup {e} /\ refunded' = RefundedAfter(w)
    BY DEF Normalized
  <1>5. status'[e] = "PROCESSED" /\ \A d \in Events \ {e} : status'[d] = status[d]
    BY <1>1 DEF Normalized, TypeOK
  <1>6. \A d \in Events : d \in log' <=> status'[d] = "PROCESSED"
    BY <1>4, <1>5 DEF EffectsOnce
  <1>7. ASSUME NEW p \in Objects PROVE refunded'[p] = Cardinality(RefundsOf(p)')
    <2>1. IsFiniteSet(RefundsOf(p)) /\ refunded[p] = Cardinality(RefundsOf(p))
      BY <1>7, Countable DEF RefundsOf, EffectsOnce, TypeOK
    <2>2. CASE KindOf[ObjectOf[e]] = "refund" /\ PaymentOf[e] = p
      <3>1. RefundsOf(p)' = RefundsOf(p) \cup {e}
        BY <1>4, <2>2 DEF RefundsOf
      <3>2. e \notin RefundsOf(p)
        BY <1>3 DEF RefundsOf
      <3>3. Cardinality(RefundsOf(p)') = Cardinality(RefundsOf(p)) + 1
        BY <2>1, <3>1, <3>2, FS_AddElement
      <3>4. read[w].total = 1 + refunded[p]
        BY <1>1, <2>2 DEF ReadsStillHold
      <3>5. refunded'[p] = read[w].total
        BY <1>4, <2>2 DEF RefundedAfter, TypeOK
      <3>6. Cardinality(RefundsOf(p)) \in Nat
        BY <2>1, FS_CardinalityType
      <3> QED
        BY <2>1, <3>3, <3>4, <3>5, <3>6
    <2>3. CASE ~(KindOf[ObjectOf[e]] = "refund" /\ PaymentOf[e] = p)
      <3>1. RefundsOf(p)' = RefundsOf(p)
        BY <1>4, <2>3 DEF RefundsOf
      <3>2. refunded'[p] = refunded[p]
        BY <1>1, <1>4, <2>3 DEF RefundedAfter, TypeOK
      <3> QED
        BY <2>1, <3>1, <3>2
    <2> QED
      BY <2>2, <2>3
  <1> QED
    BY <1>6, <1>7 DEF EffectsOnce

\* No other step touches what an event has done.
LEMMA EffectsStep ==
    /\ TypeOK /\ HeldInLease /\ ReadsStillHold /\ EffectsOnce
    /\ [Next]_vars
    => EffectsOnce'
  <1> SUFFICES ASSUME TypeOK, HeldInLease, ReadsStillHold, EffectsOnce, [Next]_vars
               PROVE  EffectsOnce'
    OBVIOUS
  <1> USE DEF eventVars, entityVars, workerVars
  <1>1. ASSUME NEW e \in Events, Receive(e) PROVE EffectsOnce'
    <2>1. \A d \in Events : status'[d] = "PROCESSED" <=> status[d] = "PROCESSED"
      BY <1>1 DEF Receive, TypeOK
    <2> QED
      BY <1>1, <2>1, EffectsFrame DEF Receive
  <1>2. ASSUME NEW e \in Events, Lapse(e) PROVE EffectsOnce'
    BY <1>2, EffectsFrame DEF Lapse
  <1>3. ASSUME NEW w \in Workers, Claim(w) PROVE EffectsOnce'
    <2>1. \A d \in Events : status'[d] = "PROCESSED" <=> status[d] = "PROCESSED"
      <3>1. PICK claimed \in SUBSET Events :
              /\ \A e \in claimed : Claimable(e)
              /\ status' = [e \in Events |-> IF e \in claimed THEN "PROCESSING"
                                                              ELSE status[e]]
        BY <1>3, ClaimStatus
      <3> QED
        BY <3>1 DEF Claimable
    <2> QED
      BY <1>3, <2>1, EffectsFrame DEF Claim
  <1>4. ASSUME NEW w \in Workers, Begin(w) \/ Raised(w) \/ Crash(w) PROVE EffectsOnce'
    BY <1>4, EffectsFrame DEF Begin, Raised, Crash, Abandon
  <1>5. ASSUME NEW w \in Workers, Normalized(w) PROVE EffectsOnce'
    BY <1>5, NormalizedEffects
  <1>6. ASSUME NEW w \in Workers, Refused(w) PROVE EffectsOnce'
    <2>1. cur[w] \in Events /\ status[cur[w]] = "PROCESSING"
      BY <1>6 DEF Refused, TypeOK, HeldInLease, Held
    <2>2. \A d \in Events : status'[d] = "PROCESSED" <=> status[d] = "PROCESSED"
      BY <1>6, <2>1 DEF Refused, TypeOK
    <2> QED
      BY <1>6, <2>2, EffectsFrame DEF Refused
  <1>7. CASE UNCHANGED vars
    BY <1>7, EffectsFrame DEF vars
  <1> QED
    BY <1>1, <1>2, <1>3, <1>4, <1>5, <1>6, <1>7 DEF Next, ProcessOne

-----------------------------------------------------------------------------
(* Attempt numbers.                                                        *)

\* Steps that give no payment a row or a number.
LEMMA AttemptsFrame ==
    ASSUME AttemptsNumbered, UNCHANGED number,
           \A p \in Objects : KindOf[p] = "payment" =>
              (rows'[p] = "ABSENT" <=> rows[p] = "ABSENT")
    PROVE  AttemptsNumbered'
  <1>1. \A i : RowsOf(i)' = RowsOf(i)
    BY RowsKeep
  <1> QED
    BY <1>1 DEF AttemptsNumbered

\* A new payment gets the number after the last one of its intent.
LEMMA NormalizedAttempts ==
    ASSUME TypeOK, ReadsStillHold, AttemptsNumbered, NEW w \in Workers, Normalized(w)
    PROVE  AttemptsNumbered'
  <1> DEFINE e == cur[w]
             o == ObjectOf[e]
             mine == RowsOf(IntentOf[o])
             n == Cardinality(mine)
  <1>1. e \in Events /\ e # NoEvent /\ o \in Objects /\ StatusIn[e] # "ABSENT"
    BY ConstantTypes DEF Normalized, TypeOK
  <1>2. rows' = RowsAfter(e) /\ number' = NumberAfter(w)
    BY DEF Normalized
  <1>3. CASE ~(KindOf[o] = "payment" /\ read[w].isNew)
    <2>1. UNCHANGED number
      BY <1>2, <1>3 DEF NumberAfter
    <2>2. \A p \in Objects : KindOf[p] = "payment" =>
              (rows'[p] = "ABSENT" <=> rows[p] = "ABSENT")
      BY <1>1, <1>2, <1>3 DEF RowsAfter, ReadsStillHold, TypeOK
    <2> QED
      BY <2>1, <2>2, AttemptsFrame
  <1>4. CASE KindOf[o] = "payment" /\ read[w].isNew
    <2>1. rows[o] = "ABSENT" /\ read[w].number = 1 + n
      BY <1>1, <1>4 DEF ReadsStillHold
    <2>2. number' = [number EXCEPT ![o] = 1 + n]
      BY <1>2, <1>4, <2>1 DEF NumberAfter
    <2>3. rows' = [rows EXCEPT ![o] = StatusIn[e]]
      BY <1>2, <1>4 DEF RowsAfter
    <2>4. rows'[o] # "ABSENT" /\ \A p \in Objects \ {o} : rows'[p] = rows[p]
      BY <1>1, <2>3 DEF TypeOK
    <2>5. number'[o] = 1 + n /\ \A p \in Objects \ {o} : number'[p] = number[p]
      BY <1>1, <2>2 DEF TypeOK
    <2>6. IsFiniteSet(mine) /\ n \in Nat /\ o \notin mine /\ mine \subseteq Objects
      BY <2>1, Countable DEF RowsOf, PaymentsOf
    <2>7. ASSUME NEW p \in Objects, KindOf[p] = "payment"
          PROVE  {number'[q] : q \in RowsOf(IntentOf[p])'}
                   = 1..Cardinality(RowsOf(IntentOf[p])')
      <3>1. CASE IntentOf[p] = IntentOf[o]
        <4>1. RowsOf(IntentOf[p])' = mine \cup {o}
          BY <1>1, <1>4, <2>4, <3>1 DEF RowsOf, PaymentsOf
        <4>2. Cardinality(RowsOf(IntentOf[p])') = n + 1
          BY <2>6, <4>1, FS_AddElement
        <4>3. {number[q] : q \in mine} = 1..n
          BY <2>7, <3>1 DEF AttemptsNumbered
        <4>4. {number'[q] : q \in mine \cup {o}} = {number[q] : q \in mine} \cup {1 + n}
          BY <2>5, <2>6
        <4>5. (1..n) \cup {1 + n} = 1..(n + 1)
          BY <2>6
        <4> QED
          BY <4>1, <4>2, <4>3, <4>4, <4>5
      <3>2. CASE IntentOf[p] # IntentOf[o]
        <4>1. RowsOf(IntentOf[p])' = RowsOf(IntentOf[p]) /\ o \notin RowsOf(IntentOf[p])
          BY <2>1, <2>4, <3>2 DEF RowsOf, PaymentsOf
        <4>2. \A q \in RowsOf(IntentOf[p]) : number'[q] = number[q]
          BY <2>5, <4>1 DEF RowsOf, PaymentsOf
        <4>3. {number[q] : q \in RowsOf(IntentOf[p])} = 1..Cardinality(RowsOf(IntentOf[p]))
          BY <2>7 DEF AttemptsNumbered
        <4> QED
          BY <4>1, <4>2, <4>3
      <3> QED
        BY <3>1, <3>2
    <2> QED
      BY <2>7 DEF AttemptsNumbered
  <1> QED
    BY <1>3, <1>4

\* Attempts are numbered without gap or repetition by every step.
LEMMA AttemptsStep ==
    TypeOK /\ ReadsStillHold /\ AttemptsNumbered /\ [Next]_vars => AttemptsNumbered'
  <1> SUFFICES ASSUME TypeOK, ReadsStillHold, AttemptsNumbered, [Next]_vars
               PROVE  AttemptsNumbered'
    OBVIOUS
  <1>1. CASE \E w \in Workers : Normalized(w)
    BY <1>1, NormalizedAttempts
  <1>2. CASE UNCHANGED <<rows, number>>
    BY <1>2, AttemptsFrame
  <1> QED
    BY <1>1, <1>2 DEF Next, ProcessOne, vars, entityVars, Receive, Lapse, Claim,
                      Begin, Refused, Raised, Crash, Abandon

-----------------------------------------------------------------------------
(* Losses.                                                                 *)

\* What a worker writes of a payment.
LEMMA NormalizedPayment ==
    ASSUME TypeOK, ReadsStillHold, RowsMatchLog, NEW w \in Workers, Normalized(w)
    PROVE  /\ cur[w] \in Events /\ ObjectOf[cur[w]] \in Objects
           /\ log' = log \cup {cur[w]}
           /\ loss' = LossAfter(cur[w], number')
           /\ \A p \in Objects \ {ObjectOf[cur[w]]} :
                 rows'[p] = rows[p] /\ number'[p] = number[p]
           /\ \A p \in Objects : rows'[p] = "ABSENT" => rows[p] = "ABSENT"
           /\ KindOf[ObjectOf[cur[w]]] # "payment" => UNCHANGED number
           /\ KindOf[ObjectOf[cur[w]]] = "payment" =>
                /\ rows'[ObjectOf[cur[w]]] # "ABSENT"
                /\ \/ UNCHANGED number
                   \/ /\ rows[ObjectOf[cur[w]]] = "ABSENT" /\ number[ObjectOf[cur[w]]] = 0
                      /\ number'[ObjectOf[cur[w]]] =
                           1 + Cardinality(RowsOf(IntentOf[ObjectOf[cur[w]]]))
  <1> DEFINE e == cur[w]
             o == ObjectOf[e]
  <1>1. e \in Events /\ e # NoEvent /\ o \in Objects /\ StatusIn[e] # "ABSENT"
    BY ConstantTypes DEF Normalized, TypeOK
  <1>2. rows' = RowsAfter(e) /\ number' = NumberAfter(w) /\ log' = log \cup {e}
        /\ loss' = LossAfter(e, number')
    BY DEF Normalized
  <1>3. \A p \in Objects \ {o} : rows'[p] = rows[p]
    BY <1>1, <1>2 DEF RowsAfter, TypeOK
  <1>4. rows'[o] = rows[o] \/ rows'[o] = StatusIn[e]
    BY <1>1, <1>2 DEF RowsAfter, TypeOK
  <1>5. \A p \in Objects \ {o} : number'[p] = number[p]
    BY <1>1, <1>2 DEF NumberAfter, TypeOK
  <1>6. KindOf[o] # "payment" => UNCHANGED number
    BY <1>2 DEF NumberAfter
  <1>7. ASSUME KindOf[o] = "payment"
        PROVE  /\ rows'[o] # "ABSENT"
               /\ \/ UNCHANGED number
                  \/ /\ rows[o] = "ABSENT" /\ number[o] = 0
                     /\ number'[o] = 1 + Cardinality(RowsOf(IntentOf[o]))
    <2>1. rows'[o] = StatusIn[e]
      BY <1>1, <1>2, <1>7 DEF RowsAfter, TypeOK
    <2>2. CASE ~read[w].isNew
      BY <1>1, <1>2, <2>1, <2>2 DEF NumberAfter
    <2>3. CASE read[w].isNew
      <3>1. rows[o] = "ABSENT" /\ read[w].number = 1 + Cardinality(RowsOf(IntentOf[o]))
        BY <1>1, <1>7, <2>3 DEF ReadsStillHold
      <3>2. number'[o] = read[w].number
        BY <1>1, <1>2, <1>7, <2>3 DEF NumberAfter, TypeOK
      <3> QED
        BY <1>1, <2>1, <3>1, <3>2 DEF RowsMatchLog
    <2> QED
      BY <2>2, <2>3
  <1> QED
    BY <1>1, <1>2, <1>3, <1>4, <1>5, <1>6, <1>7

\* Rows, numbers and the log are written together.
LEMMA RowsLogStep ==
    TypeOK /\ ReadsStillHold /\ RowsMatchLog /\ [Next]_vars => RowsMatchLog'
  <1> SUFFICES ASSUME TypeOK, ReadsStillHold, RowsMatchLog, [Next]_vars
               PROVE  RowsMatchLog'
    OBVIOUS
  <1>1. ASSUME NEW w \in Workers, Normalized(w) PROVE RowsMatchLog'
    <2>1. \A d \in log : ObjectOf[d] \in Objects
      BY ConstantTypes DEF TypeOK
    <2>2. \A p \in Objects : rows'[p] = "ABSENT" => number'[p] = 0
      BY <1>1, NormalizedPayment DEF RowsMatchLog
    <2>3. \A d \in log' : KindOf[ObjectOf[d]] = "payment" => rows'[ObjectOf[d]] # "ABSENT"
      BY <1>1, <2>1, NormalizedPayment DEF RowsMatchLog
    <2> QED
      BY <2>2, <2>3 DEF RowsMatchLog
  <1>2. CASE UNCHANGED <<rows, number, log>>
    BY <1>2 DEF RowsMatchLog
  <1> QED
    BY <1>1, <1>2 DEF Next, ProcessOne, vars, entityVars, Receive, Lapse, Claim,
                      Begin, Refused, Raised, Crash, Abandon

\* An intent without a row has no events in the log.
LEMMA NothingTold ==
    ASSUME TypeOK, RowsMatchLog, NEW i, Cardinality(RowsOf(i)) = 0
    PROVE  Told(i) = {}
  <1>1. RowsOf(i) = {}
    BY Countable, FS_EmptySet DEF RowsOf, PaymentsOf
  <1>2. \A d \in log : ObjectOf[d] \in Objects
    BY ConstantTypes DEF TypeOK
  <1> QED
    BY <1>1, <1>2 DEF Told, RowsOf, PaymentsOf, RowsMatchLog

\* A failure opens the loss of attempt #1, a success closes it, and being numbered
\* changes nothing for a payment whose intent nothing is known of.
LEMMA NormalizedLosses ==
    ASSUME TypeOK, ReadsStillHold, RowsMatchLog, LossesExplained,
           NEW w \in Workers, Normalized(w)
    PROVE  LossesExplained'
  <1> DEFINE e == cur[w]
             o == ObjectOf[e]
             Failed(d) == StatusIn[d] = "FAILED" /\ d \in WithReason
  <1>1. /\ e \in Events /\ o \in Objects /\ log' = log \cup {e}
        /\ loss' = LossAfter(e, number')
        /\ \A p \in Objects \ {o} : number'[p] = number[p]
        /\ KindOf[o] # "payment" => UNCHANGED number
        /\ KindOf[o] = "payment" =>
             \/ UNCHANGED number
             \/ /\ number[o] = 0
                /\ number'[o] = 1 + Cardinality(RowsOf(IntentOf[o]))
    BY NormalizedPayment
  <1>2. \A i : Told(i)' = Told(i) \cup {d \in {e} : KindOf[o] = "payment" /\ IntentOf[o] = i}
    BY <1>1 DEF Told
  <1>3. Cardinality(RowsOf(IntentOf[o])) \in Nat
    BY Countable DEF RowsOf, PaymentsOf
  <1>4. ASSUME NEW p \in Objects, KindOf[p] = "payment"
        PROVE  /\ loss'[p] # "NONE" <=>
                     number'[p] = 1 /\ \E d \in Told(IntentOf[p])' : Failed(d)
               /\ loss'[p] = "RECOVERED" =>
                     \E d \in Told(IntentOf[p])' : StatusIn[d] = "CAPTURED"
    <2>1. /\ loss[p] # "NONE" <=> number[p] = 1 /\ \E d \in Told(IntentOf[p]) : Failed(d)
          /\ loss[p] = "RECOVERED" => \E d \in Told(IntentOf[p]) : StatusIn[d] = "CAPTURED"
      BY <1>4 DEF LossesExplained
    <2>2. CASE KindOf[o] # "payment"
      <3>1. loss'[p] = loss[p]
        BY <1>1, <1>4, <2>2 DEF LossAfter, TypeOK
      <3>2. Told(IntentOf[p])' = Told(IntentOf[p]) /\ number'[p] = number[p]
        BY <1>1, <1>2, <2>2
      <3> QED
        BY <2>1, <3>1, <3>2
    <2>3. CASE KindOf[o] = "payment" /\ IntentOf[o] # IntentOf[p]
      <3>1. loss'[p] = loss[p]
        BY <1>1, <1>4, <2>3 DEF LossAfter, PaymentsOf, TypeOK
      <3>2. Told(IntentOf[p])' = Told(IntentOf[p]) /\ number'[p] = number[p]
        BY <1>1, <1>2, <2>3
      <3> QED
        BY <2>1, <3>1, <3>2
    <2>4. CASE KindOf[o] = "payment" /\ IntentOf[o] = IntentOf[p]
      <3>1. Told(IntentOf[p])' = Told(IntentOf[p]) \cup {e}
        BY <1>2, <2>4
      <3>2. \/ number'[p] = number[p]
            \/ /\ number[p] = 0 /\ number'[p] = 1 => Told(IntentOf[p]) = {}
        BY <1>1, <1>3, <2>4, NothingTold
      <3>3. p \in PaymentsOf(IntentOf[o])
        BY <1>4, <2>4 DEF PaymentsOf
      <3>4. CASE Failed(e)
        <4>1. loss'[p] = IF number'[p] = 1 THEN "OPEN" ELSE loss[p]
          BY <1>1, <2>4, <3>3, <3>4 DEF LossAfter
        <4>2. loss[p] # "NONE" => number'[p] = 1
          BY <1>1, <2>1, <2>4
        <4> QED
          BY <2>1, <3>1, <3>4, <4>1, <4>2
      <3>5. CASE ~Failed(e)
        <4>1. (\E d \in Told(IntentOf[p])' : Failed(d))
                <=> \E d \in Told(IntentOf[p]) : Failed(d)
          BY <3>1, <3>5
        <4>2. (number'[p] = 1 /\ \E d \in Told(IntentOf[p]) : Failed(d))
                <=> number[p] = 1 /\ \E d \in Told(IntentOf[p]) : Failed(d)
          BY <3>2, <1>1, <1>3, <2>4
        <4>3. CASE StatusIn[e] = "CAPTURED"
          <5>1. loss'[p] = IF loss[p] = "OPEN" THEN "RECOVERED" ELSE loss[p]
            BY <1>1, <2>4, <3>3, <3>5, <4>3 DEF LossAfter
          <5> QED
            BY <2>1, <3>1, <4>1, <4>2, <4>3, <5>1
        <4>4. CASE StatusIn[e] # "CAPTURED"
          <5>1. loss'[p] = loss[p]
            BY <1>1, <2>4, <3>5, <4>4 DEF LossAfter
          <5> QED
            BY <2>1, <3>1, <4>1, <4>2, <5>1
        <4> QED
          BY <4>3, <4>4
      <3> QED
        BY <3>4, <3>5
    <2> QED
      BY <2>2, <2>3, <2>4
  <1> QED
    BY <1>4 DEF LossesExplained

\* No other step touches losses.
LEMMA LossesStep ==
    /\ TypeOK /\ ReadsStillHold /\ RowsMatchLog /\ LossesExplained
    /\ [Next]_vars
    => LossesExplained'
  <1> SUFFICES ASSUME TypeOK, ReadsStillHold, RowsMatchLog, LossesExplained, [Next]_vars
               PROVE  LossesExplained'
    OBVIOUS
  <1>1. CASE \E w \in Workers : Normalized(w)
    BY <1>1, NormalizedLosses
  <1>2. CASE UNCHANGED <<loss, number, log>>
    BY <1>2 DEF LossesExplained, Told
  <1> QED
    BY <1>1, <1>2 DEF Next, ProcessOne, vars, entityVars, Receive, Lapse, Claim,
                      Begin, Refused, Raised, Crash, Abandon

-----------------------------------------------------------------------------
(* The theorems.                                                           *)

Inductive ==
    TypeOK /\ OneHolder /\ EffectsOnce /\ AttemptsNumbered /\ LossesExplained /\ InboundInv

\* Everything holds before the first event is received.
LEMMA InitInductive == Init => Inductive
  <1> SUFFICES ASSUME Init PROVE Inductive
    OBVIOUS
  <1>1. TypeOK /\ TriesLeft /\ HeldInLease
    BY InitType DEF TypeInv
  <1>2. OneHolder /\ OneAfterAnother /\ ReadsStillHold
    BY DEF Init, OneHolder, Held, OneAfterAnother, ReadsStillHold
  <1>3. EffectsOnce
    <2>1. \A p : RefundsOf(p) = {}
      BY DEF Init, RefundsOf
    <2> QED
      BY <2>1, FS_EmptySet DEF Init, EffectsOnce
  <1>4. AttemptsNumbered
    <2>1. \A i : RowsOf(i) = {}
      BY DEF Init, RowsOf, PaymentsOf
    <2> QED
      BY <2>1, FS_EmptySet DEF AttemptsNumbered
  <1>5. RowsMatchLog /\ LossesExplained
    BY DEF Init, RowsMatchLog, LossesExplained, Told
  <1> QED
    BY <1>1, <1>2, <1>3, <1>4, <1>5 DEF Inductive, InboundInv

LEMMA NextInductive == Inductive /\ [Next]_vars => Inductive'
  BY NextType, HolderStep, TriesStep, SerialStep, ReadsStep, EffectsStep,
     AttemptsStep, RowsLogStep, LossesStep
  DEF Inductive, InboundInv, TypeInv

LEMMA AlwaysInductive == Spec => []Inductive
  BY InitInductive, NextInductive, PTL DEF Spec

\* Every variable keeps its type: no event is tried more than MAX_ATTEMPTS times, no
\* worker holds what is not an event (_process_one).
THEOREM InboundTypes == Spec => []TypeOK
  <1>1. Inductive => TypeOK
    BY DEF Inductive
  <1> QED
    BY <1>1, AlwaysInductive, PTL

\* Claims, leases, crashes and reclaims never put one event into two workers' hands.
THEOREM LeaseExcludes == Spec => []OneHolder
  <1>1. Inductive => OneHolder
    BY DEF Inductive
  <1> QED
    BY <1>1, AlwaysInductive, PTL

\* An event has its effect exactly when it is PROCESSED, and a refund is added once,
\* whatever crashes: the lock of the unmapped fields suffices for that.
THEOREM EffectsAreOnce == Spec => []EffectsOnce
  <1>1. Inductive => EffectsOnce
    BY DEF Inductive
  <1> QED
    BY <1>1, AlwaysInductive, PTL

\* The attempts of every intent are numbered 1, 2, 3... in the order they are taken up.
THEOREM NumbersHaveNoGaps == Spec => []AttemptsNumbered
  <1>1. Inductive => AttemptsNumbered
    BY DEF Inductive
  <1> QED
    BY <1>1, AlwaysInductive, PTL

\* Losses follow from the log: one per intent, on attempt #1, there exactly when a
\* failure has been processed, closed only by a success, in any order of arrival.
THEOREM LossesFollowTheLog == Spec => []LossesExplained
  <1>1. Inductive => LossesExplained
    BY DEF Inductive
  <1> QED
    BY <1>1, AlwaysInductive, PTL

\* What the claims, the leases and the log keep between two sessions of a worker, the
\* inductive part of the four above, for any number of workers and crashes.
THEOREM InboundInvariant == Spec => []InboundInv
  <1>1. Inductive => InboundInv
    BY DEF Inductive
  <1> QED
    BY <1>1, AlwaysInductive, PTL

\* No step takes up an event that is PROCESSED or DEAD.
LEMMA ClosedStep ==
    Inductive /\ [Next]_vars
    => [\A e \in Events : status[e] \in Settled => status'[e] = status[e]]_vars
  <1> SUFFICES ASSUME Inductive, Next
               PROVE  \A e \in Events : status[e] \in Settled => status'[e] = status[e]
    OBVIOUS
  <1>t. TypeOK /\ HeldInLease
    BY DEF Inductive, InboundInv
  <1> USE DEF eventVars
  <1>1. ASSUME NEW d \in Events, Receive(d)
        PROVE  \A e \in Events : status[e] \in Settled => status'[e] = status[e]
    BY <1>1, <1>t DEF Receive, TypeOK, Settled
  <1>2. ASSUME NEW w \in Workers, Claim(w)
        PROVE  \A e \in Events : status[e] \in Settled => status'[e] = status[e]
    <2>1. PICK claimed \in SUBSET Events :
            /\ \A e \in claimed : Claimable(e)
            /\ status' = [e \in Events |-> IF e \in claimed THEN "PROCESSING"
                                                            ELSE status[e]]
      BY <1>2, ClaimStatus
    <2> QED
      BY <2>1 DEF Claimable, Settled
  <1>3. ASSUME NEW w \in Workers, Normalized(w) \/ Refused(w)
        PROVE  \A e \in Events : status[e] \in Settled => status'[e] = status[e]
    <2>1. status[cur[w]] = "PROCESSING"
      BY <1>3, <1>t DEF Normalized, Refused, HeldInLease, Held
    <2>2. \A e \in Events \ {cur[w]} : status'[e] = status[e]
      BY <1>3, <1>t DEF Normalized, Refused, TypeOK
    <2> QED
      BY <2>1, <2>2 DEF Settled
  <1>4. CASE UNCHANGED status
    BY <1>4
  <1> QED
    BY <1>1, <1>2, <1>3, <1>4
       DEF Next, ProcessOne, Lapse, Begin, Raised, Crash, Abandon

\* What is PROCESSED or DEAD stays so, for any number of workers and crashes.
THEOREM DoneIsFinal == Spec => ClosedIsFinal
  BY AlwaysInductive, ClosedStep, PTL DEF Spec, ClosedIsFinal
=============================================================================
