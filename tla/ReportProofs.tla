---------------------------- MODULE ReportProofs ----------------------------
(***************************************************************************)
(* Theorems about what Report tells of the ledger, for every set of        *)
(* entities, values, holdout and live demo.                                *)
(***************************************************************************)
EXTENDS Report, LedgerProofs, FiniteSetTheorems

-----------------------------------------------------------------------------
(* Sums.                                                                   *)

LEMMA LossesFinite == IsFiniteSet(Losses)
  <1>1. IsFiniteSet(Entities) /\ MaxLosses \in Int
    BY LedgerConstantsOK
  <1>2. IsFiniteSet(1..MaxLosses)
    BY <1>1, FS_Interval
  <1> QED
    BY <1>1, <1>2, FS_Product DEF Losses

LEMMA AttemptsFinite == IsFiniteSet(Losses \X (1..MaxAttempts))
  <1>1. MaxAttempts \in Int
    BY ConstantTypes
  <1>2. IsFiniteSet(1..MaxAttempts)
    BY <1>1, FS_Interval
  <1> QED
    BY <1>2, LossesFinite, FS_Product

\* A unit is one of an amount of something.
LEMMA UnitsAre ==
    ASSUME NEW S, NEW f \in [S -> Nat]
    PROVE  /\ \A x \in S : \A u \in 1..f[x] : <<x, u>> \in Units(f)
           /\ \A z \in Units(f) : /\ z = <<z[1], z[2]>> /\ z[1] \in S
                                  /\ z[2] \in 1..f[z[1]]
  <1>1. \A z : z \in Units(f) <=> \E x \in S : z \in {x} \X (1..f[x])
    BY DEF Units
  <1> QED
    BY <1>1

LEMMA UnitsFinite ==
    ASSUME NEW S, IsFiniteSet(S), NEW f \in [S -> Nat]
    PROVE  IsFiniteSet(Units(f))
  <1> DEFINE Of(x) == {x} \X (1..f[x])
             All == {Of(x) : x \in S}
             g == [x \in S |-> Of(x)]
  <1>1. \A x \in S : IsFiniteSet(Of(x))
    <2> SUFFICES ASSUME NEW x \in S PROVE IsFiniteSet({x} \X (1..f[x]))
      OBVIOUS
    <2>1. IsFiniteSet({x})
      BY FS_Singleton
    <2>2. IsFiniteSet(1..f[x])
      <3>1. 1 \in Int /\ f[x] \in Int
        OBVIOUS
      <3> QED
        BY <3>1, FS_Interval
    <2> QED
      BY <2>1, <2>2, FS_Product
  <1>2. Units(f) = UNION All
    BY DEF Units
  <1> HIDE DEF Of
  <1>3. g \in Surjection(S, All)
    BY DEF Surjection
  <1> HIDE DEF g
  <1>4. IsFiniteSet(All)
    BY <1>3, FS_Surjection
  <1>5. \A T \in All : IsFiniteSet(T)
    BY <1>1
  <1> HIDE DEF All
  <1> QED
    BY <1>2, <1>4, <1>5, FS_UNION

\* Two parts are not more than the whole.
LEMMA PartsAddUp ==
    ASSUME NEW S, IsFiniteSet(S), NEW f \in [S -> Nat],
           NEW A \in SUBSET S, NEW B \in SUBSET S, A \cap B = {}
    PROVE  Total([x \in A |-> f[x]]) + Total([x \in B |-> f[x]]) <= Total(f)
  <1> DEFINE g == [x \in A |-> f[x]]
             h == [x \in B |-> f[x]]
  <1>1. g \in [A -> Nat] /\ h \in [B -> Nat]
    OBVIOUS
  <1>2. /\ \A x \in A : g[x] = f[x]
        /\ \A x \in B : h[x] = f[x]
    OBVIOUS
  <1> HIDE DEF g, h
  <1>3. IsFiniteSet(Units(f))
    BY UnitsFinite
  <1>4. Units(g) \subseteq Units(f)
    <2> SUFFICES ASSUME NEW z \in Units(g) PROVE z \in Units(f)
      OBVIOUS
    <2>1. z = <<z[1], z[2]>> /\ z[1] \in A /\ z[2] \in 1..g[z[1]]
      BY <1>1, UnitsAre
    <2>2. z[1] \in S /\ z[2] \in 1..f[z[1]]
      BY <1>2, <2>1
    <2>3. <<z[1], z[2]>> \in Units(f)
      BY <2>2, UnitsAre
    <2> QED
      BY <2>1, <2>3
  <1>5. Units(h) \subseteq Units(f)
    <2> SUFFICES ASSUME NEW z \in Units(h) PROVE z \in Units(f)
      OBVIOUS
    <2>1. z = <<z[1], z[2]>> /\ z[1] \in B /\ z[2] \in 1..h[z[1]]
      BY <1>1, UnitsAre
    <2>2. z[1] \in S /\ z[2] \in 1..f[z[1]]
      BY <1>2, <2>1
    <2>3. <<z[1], z[2]>> \in Units(f)
      BY <2>2, UnitsAre
    <2> QED
      BY <2>1, <2>3
  <1>6. Units(g) \cap Units(h) = {}
    <2> SUFFICES ASSUME NEW z \in Units(g), z \in Units(h) PROVE FALSE
      OBVIOUS
    <2>1. z[1] \in A /\ z[1] \in B
      BY <1>1, UnitsAre
    <2> QED
      BY <2>1
  <1>7. IsFiniteSet(Units(g)) /\ IsFiniteSet(Units(h))
    BY <1>3, <1>4, <1>5, FS_Subset
  <1>8. /\ Cardinality(Units(g)) \in Nat /\ Cardinality(Units(h)) \in Nat
        /\ Cardinality(Units(f)) \in Nat
    BY <1>3, <1>7, FS_CardinalityType
  <1>9. Cardinality(Units(g) \cup Units(h)) = Cardinality(Units(g)) + Cardinality(Units(h))
    <2>1. ASSUME NEW G, NEW H, IsFiniteSet(G), IsFiniteSet(H), G \cap H = {}
          PROVE  Cardinality(G \cup H) = Cardinality(G) + Cardinality(H)
      <3>1. Cardinality(G \cup H) = Cardinality(G) + Cardinality(H) - Cardinality(G \cap H)
        BY <2>1, FS_Union
      <3>2. Cardinality(G \cap H) = 0
        BY <2>1, FS_EmptySet
      <3>3. Cardinality(G) \in Nat /\ Cardinality(H) \in Nat
        BY <2>1, FS_CardinalityType
      <3> QED
        BY <3>1, <3>2, <3>3
    <2> QED
      BY <1>6, <1>7, <2>1
  <1>10. Cardinality(Units(g) \cup Units(h)) <= Cardinality(Units(f))
    <2>1. Units(g) \cup Units(h) \in SUBSET Units(f)
      BY <1>4, <1>5
    <2> QED
      BY <1>3, <2>1, FS_Subset
  <1> QED
    BY <1>8, <1>9, <1>10 DEF Total, g, h

\* What is counted once under another name is not more.
LEMMA RenamedIsNoMore ==
    ASSUME NEW S, NEW T, IsFiniteSet(T), NEW f \in [S -> Nat], NEW g \in [T -> Nat],
           NEW name \in [S -> T],
           \A x, y \in S : name[x] = name[y] => x = y,
           \A x \in S : f[x] = g[name[x]]
    PROVE  Total(f) <= Total(g)
  <1> DEFINE m == [z \in Units(f) |-> <<name[z[1]], z[2]>>]
  <1>1. \A z \in Units(f) : z = <<z[1], z[2]>> /\ z[1] \in S /\ z[2] \in 1..f[z[1]]
    BY UnitsAre
  <1>2. \A z \in Units(f) : m[z] \in Units(g)
    <2> SUFFICES ASSUME NEW z \in Units(f) PROVE <<name[z[1]], z[2]>> \in Units(g)
      OBVIOUS
    <2>1. name[z[1]] \in T /\ z[2] \in 1..g[name[z[1]]]
      BY <1>1
    <2> QED
      BY <2>1, UnitsAre
  <1>3. ASSUME NEW y \in Units(f), NEW z \in Units(f), m[y] = m[z] PROVE y = z
    <2>1. name[y[1]] = name[z[1]] /\ y[2] = z[2]
      BY <1>3
    <2>2. y[1] = z[1]
      BY <1>1, <2>1
    <2>3. y = <<y[1], y[2]>> /\ z = <<z[1], z[2]>>
      BY <1>1
    <2> QED
      BY <2>1, <2>2, <2>3
  <1>4. m \in Injection(Units(f), Units(g))
    <2>1. m \in [Units(f) -> Units(g)]
      BY <1>2
    <2> QED
      BY <1>3, <2>1 DEF Injection, IsInjective
  <1>5. IsFiniteSet(Units(g))
    BY UnitsFinite
  <1> HIDE DEF m
  <1> QED
    BY <1>4, <1>5, FS_Injection DEF Total

-----------------------------------------------------------------------------
(* The grand total, the cohorts and the tabs.                              *)

\* A loss that is not there has no outcome, nor a plan.
AbsentUntold ==
    \A r \in Losses : status[r] = "ABSENT" =>
        /\ outcome[r] = NoOutcome
        /\ \A p \in Procs : txn[p].verdict[r] = Unchanged

ToldInv == EvidenceInv /\ AbsentUntold

LEMMA ToldInit == Init => ToldInv
  <1> SUFFICES ASSUME Init PROVE AbsentUntold
    BY EvidenceInit DEF ToldInv
  <1> QED
    BY DEF Init, AbsentUntold, NoTxn

LEMMA ToldNext == ToldInv /\ [Next]_vars => ToldInv'
  <1> SUFFICES ASSUME ToldInv, [Next]_vars PROVE AbsentUntold'
    BY EvidenceNext DEF ToldInv
  <1>t. AbsentUntold /\ TypeOK /\ AttemptsTimely /\ PlansHold /\ ActedOnLeavesOpen
    BY DEF ToldInv, EvidenceInv
  <1>k. ASSUME UNCHANGED <<status, outcome, txn>> PROVE AbsentUntold'
    BY <1>k, <1>t DEF AbsentUntold
  <1>n. \A r \in Losses : NoTxn.verdict[r] = Unchanged
    BY DEF NoTxn
  <1>1. ASSUME NEW r \in Losses, Send(r) \/ DropQueued(r) PROVE AbsentUntold'
    BY <1>1, <1>k, <1>t, SendCases
  <1>2. ASSUME NEW p \in Procs,
               BeginBatch(p) \/ BeginAttribution(p) \/ BeginNudges(p)
               \/ BeginSuccess(p) \/ SimulateReply(p)
        PROVE  AbsentUntold'
    <2>1. CASE UNCHANGED <<othersVars, txn>>
      BY <1>k, <2>1 DEF othersVars, bookVars
    <2>2. CASE Opens(p)
      <3>1. PICK verdict \in [Losses -> Verdict], paid \in Entities \cup {Nobody},
                 token \in Tokens, at \in Nat :
              /\ Begin(p, verdict, paid, token, at)
              /\ \A r \in Losses : Sound(r, verdict[r])
        BY <2>2 DEF Opens
      <3>2. /\ UNCHANGED <<status, outcome>>
            /\ \A q \in Procs : txn'[q].verdict = IF q = p THEN verdict ELSE txn[q].verdict
        BY <1>t, <3>1 DEF Begin, TypeOK, bookVars
      <3>3. \A r \in Losses : status[r] = "ABSENT" => verdict[r] = Unchanged
        BY <1>t, <3>1 DEF Sound, Fits, Unresolved
      <3> QED
        BY <1>t, <3>2, <3>3 DEF AbsentUntold
    <2> QED
      BY <1>2, <1>t, <2>1, <2>2, BeginCases
  <1>3. ASSUME NEW p \in Procs, Commit(p) PROVE AbsentUntold'
    <2>1. \A q \in Procs : txn'[q] = IF q = p THEN NoTxn ELSE txn[q]
      BY <1>3, <1>t DEF Commit, TypeOK
    <2>2. ASSUME NEW r \in Losses, status'[r] = "ABSENT"
          PROVE  /\ outcome'[r] = NoOutcome
                 /\ \A q \in Procs : txn'[q].verdict[r] = Unchanged
      <3>1. /\ status'[r] = IF txn[p].verdict[r].status = Keep THEN status[r]
                            ELSE txn[p].verdict[r].status
            /\ outcome'[r] = IF txn[p].verdict[r].outcome = NoOutcome THEN outcome[r]
                             ELSE txn[p].verdict[r].outcome
        BY <1>3, <1>t, CommitRows
      <3>2. txn[p].verdict[r].status # "ABSENT"
        BY <1>t DEF PlansHold, PlanHolds
      <3>3. status[r] = "ABSENT"
        BY <2>2, <3>1, <3>2
      <3>4. outcome[r] = NoOutcome /\ \A q \in Procs : txn[q].verdict[r] = Unchanged
        BY <1>t, <3>3 DEF AbsentUntold
      <3>5. outcome'[r] = NoOutcome
        BY <3>1, <3>4 DEF Unchanged
      <3> QED
        BY <1>n, <2>1, <3>4, <3>5
    <2> QED
      BY <2>2 DEF AbsentUntold
  <1>4. ASSUME NEW p \in Procs, Rollback(p) PROVE AbsentUntold'
    <2>1. /\ \A q \in Procs : txn'[q] = IF q = p THEN NoTxn ELSE txn[q]
          /\ UNCHANGED <<status, outcome>>
      BY <1>4, <1>t DEF Rollback, TypeOK, bookVars
    <2> QED
      BY <1>n, <1>t, <2>1 DEF AbsentUntold
  <1>5. ASSUME NEW r \in Losses, FailureEvent(r) \/ Sweep(r) PROVE AbsentUntold'
    <2>1. /\ UNCHANGED <<outcome, txn>>
          /\ \A s \in Losses : status'[s] = IF s = r THEN "OPEN" ELSE status[s]
      BY <1>5, <1>t DEF FailureEvent, Sweep, OpenAtRisk, TypeOK
    <2> QED
      BY <1>t, <2>1 DEF AbsentUntold
  <1>6. ASSUME NEW e \in Entities, OpenDispute(e) \/ CloseDispute(e) \/ Refund(e)
        PROVE  AbsentUntold'
    BY <1>6, <1>k DEF OpenDispute, CloseDispute, Refund, bookVars
  <1>7. ASSUME NEW live, SwitchOn(live) PROVE AbsentUntold'
    BY <1>7, <1>k DEF SwitchOn, bookVars
  <1>8. CASE Tick
    BY <1>8, <1>k DEF Tick, bookVars
  <1>9. CASE UNCHANGED vars
    BY <1>9, <1>k DEF vars, bookVars
  <1> QED
    BY <1>1, <1>2, <1>3, <1>4, <1>5, <1>6, <1>7, <1>8, <1>9 DEF Next

\* The question of who waits for a human has one answer, in Python and in SQL.
LEMMA OneQuestion == TypeOK => ReviewRows = AwaitingHuman
  <1> SUFFICES ASSUME TypeOK, NEW r \in Decided
               PROVE  IsAwaitingHuman(Latest(r)) <=>
                         \E n \in DOMAIN attempts[r] :
                             /\ \A m \in DOMAIN attempts[r] : m <= n
                             /\ IsAwaitingHuman(attempts[r][n])
    BY DEF ReviewRows, AwaitingHuman, IsAwaitingHuman
  <1> DEFINE N == Len(attempts[r])
  <1>1. N \in 1..N /\ DOMAIN attempts[r] = 1..N
    <2>1. r \in Losses /\ attempts[r] # <<>>
      BY DEF Decided, Known
    <2>2. N \in Nat /\ 1 \in 1..N /\ DOMAIN attempts[r] = 1..N
      BY <2>1, AttemptsAre
    <2> QED
      BY <2>2
  <1>2. Latest(r) = attempts[r][N]
    BY DEF Latest
  <1> HIDE DEF N
  <1>3. \A m \in 1..N : m <= N
    OBVIOUS
  <1>4. \A n \in 1..N : (\A m \in 1..N : m <= n) => n = N
    BY <1>1
  <1> QED
    BY <1>1, <1>2, <1>3, <1>4

LEMMA MinorIsTotal ==
    ASSUME NEW rows \in SUBSET Losses
    PROVE  [r \in rows |-> Value[EntityOf(r)]] \in [rows -> Nat]
  BY LossEntity, ConstantTypes

\* What the two tabs tell of is part of the grand total.
LEMMA TabsAddUp ==
    TabSummary("B2C").recovered + TabSummary("B2B").recovered <= TotalRecovered
  <1> DEFINE A == Recovered(TabRows("B2C"))
             B == Recovered(TabRows("B2B"))
             S == Recovered(Losses)
             f == [r \in S |-> Value[EntityOf(r)]]
  <1>1. S \subseteq Losses /\ A \subseteq S /\ B \subseteq S
    BY DEF Recovered, TabRows, Known
  <1>2. A \cap B = {}
    BY DEF Recovered, TabRows
  <1>3. IsFiniteSet(S)
    BY <1>1, LossesFinite, FS_Subset
  <1>4. f \in [S -> Nat]
    BY <1>1, MinorIsTotal
  <1>5. /\ TabSummary("B2C").recovered = Minor(A) /\ TabSummary("B2B").recovered = Minor(B)
        /\ TotalRecovered = Minor(S)
    BY DEF TabSummary, TotalRecovered
  <1> HIDE DEF A, B, S
  <1>6. Total([x \in A |-> f[x]]) + Total([x \in B |-> f[x]]) <= Total(f)
    <2> HIDE DEF f
    <2> QED
      BY <1>1, <1>2, <1>3, <1>4, PartsAddUp
  <1>7. /\ [x \in A |-> f[x]] = [r \in A |-> Value[EntityOf(r)]]
        /\ [x \in B |-> f[x]] = [r \in B |-> Value[EntityOf(r)]]
    BY <1>1
  <1> QED
    BY <1>5, <1>6, <1>7 DEF Minor

\* A recovered loss has been detected and decided on.
LEMMA RecoveredIsDecided ==
    ASSUME ToldInv, NEW r \in Recovered(Losses)
    PROVE  r \in Decided
  <1>1. r \in Losses /\ outcome[r] = "RECOVERED"
    BY DEF Recovered
  <1>2. attempts[r] # <<>>
    BY <1>1 DEF ToldInv, EvidenceInv, CreditIsEarned
  <1>3. status[r] # "ABSENT"
    BY <1>1 DEF ToldInv, AbsentUntold, NoOutcome
  <1> QED
    BY <1>1, <1>2, <1>3 DEF Decided, Known

LEMMA ToldAddsUp == ToldInv => ReportAddsUp
  <1>2. ToldInv => ReviewRows = AwaitingHuman
    BY OneQuestion DEF ToldInv, EvidenceInv
  <1> SUFFICES ASSUME ToldInv, NEW r \in Recovered(Losses)
               PROVE  Cardinality({place \in {Claimable, Segment} \X {"TREATMENT", "HOLDOUT"} :
                                      r \in CohortRecovered(place[1], place[2])})
                         = IF \/ r \in ReviewRows \/ EntityOf(r) \in Planted
                              \/ r \notin Claimable \cup Segment
                           THEN 0 ELSE 1
    BY <1>2, TabsAddUp DEF ReportAddsUp
  <1> DEFINE Places == {place \in {Claimable, Segment} \X {"TREATMENT", "HOLDOUT"} :
                           r \in CohortRecovered(place[1], place[2])}
             walledOff == r \in ReviewRows \/ EntityOf(r) \in Planted
  <1>1. r \in Decided /\ r \in Known /\ r \in Recovered(Losses)
    BY RecoveredIsDecided DEF Decided
  <1>3. r \in Excluded <=> walledOff
    BY <1>1, <1>2 DEF Excluded
  <1>4. \A population, cohort :
           r \in CohortRecovered(population, cohort)
              <=> r \in population /\ ~walledOff /\ CohortOf(r) = cohort
    BY <1>1, <1>3 DEF CohortRecovered, CohortRows
  <1>5. CohortOf(r) \in {"TREATMENT", "HOLDOUT"}
    BY DEF CohortOf
  <1>6. ~(r \in Claimable /\ r \in Segment)
    BY DEF Claimable, Segment, NotClaimed
  <1> HIDE DEF walledOff
  <1>7. CASE walledOff \/ r \notin Claimable \cup Segment
    <2>1. Places = {}
      BY <1>4, <1>7
    <2>2. Cardinality(Places) = 0
      BY <2>1, FS_EmptySet
    <2> QED
      BY <1>7, <2>2 DEF walledOff
  <1>8. ASSUME NEW population \in {Claimable, Segment}, r \in population, ~walledOff
        PROVE  Cardinality(Places) = 1
    <2>1. \A other \in {Claimable, Segment} : r \in other => other = population
      BY <1>6, <1>8
    <2>2. Places = {<<population, CohortOf(r)>>}
      <3>1. \A place \in Places : place = <<population, CohortOf(r)>>
        <4> SUFFICES ASSUME NEW place \in {Claimable, Segment} \X {"TREATMENT", "HOLDOUT"},
                            r \in CohortRecovered(place[1], place[2])
                     PROVE  place = <<population, CohortOf(r)>>
          OBVIOUS
        <4>1. r \in place[1] /\ CohortOf(r) = place[2]
          BY <1>4
        <4>2. place[1] = population
          BY <2>1, <4>1
        <4> QED
          BY <4>1, <4>2
      <3>2. <<population, CohortOf(r)>> \in Places
        BY <1>4, <1>5, <1>8
      <3> QED
        BY <3>1, <3>2
    <2> HIDE DEF Places
    <2> QED
      BY <2>2, FS_Singleton
  <1> QED
    BY <1>7, <1>8 DEF walledOff

LEMMA ToldAlways == Spec => []ToldInv
  BY ToldInit, ToldNext, PTL DEF Spec

\* The report, the review queue and the tabs never disagree with the grand total: each
\* recovered loss of it is in one cohort of one population, unless it waits for a human,
\* belongs to the live demo or is in no population; and the tabs tell of no more.
THEOREM ReportsAddUp == Spec => []ReportAddsUp
  BY ToldAlways, ToldAddsUp, PTL

-----------------------------------------------------------------------------
(* A batch's groups.                                                       *)

\* At a time when the cadence did not retry no loss has two executed attempts.
LEMMA OneExecuted ==
    ASSUME EvidenceInv, NEW t, ~Retried(t), NEW r \in Losses,
           NEW n \in DOMAIN attempts[r], NEW m \in DOMAIN attempts[r], n < m,
           attempts[r][m].decidedAt = t
    PROVE  attempts[r][n].executedAt = Never
  <1>1. Untouched(attempts[r][n]) \/ Retry(r, m)
    BY DEF EvidenceInv, RetriesFollowNudges
  <1> QED
    BY <1>1 DEF Retried, Untouched

LEMMA GroupsAddUp == EvidenceInv => GroupsCountOnce
  <1> SUFFICES ASSUME EvidenceInv, NEW t \in 1..clock, ~Retried(t)
               PROVE  GroupRecovered("recovered", t, t) <= TotalRecovered
    BY DEF GroupsCountOnce
  <1> DEFINE S == BatchGroup("recovered", t, t)
             T == Recovered(Losses)
             f == [a \in S |-> IF outcome[a[1]] = "RECOVERED" THEN Value[EntityOf(a[1])]
                                                               ELSE 0]
             g == [r \in T |-> Value[EntityOf(r)]]
             name == [a \in S |-> a[1]]
  <1>1. GroupRecovered("recovered", t, t) = Total(f) /\ TotalRecovered = Total(g)
    BY DEF GroupRecovered, TotalRecovered, Minor
  <1>2. ASSUME NEW a \in S
        PROVE  /\ a = <<a[1], a[2]>> /\ a[1] \in Losses /\ a[2] \in DOMAIN attempts[a[1]]
               /\ a[2] \in Nat /\ attempts[a[1]][a[2]].decidedAt = t
               /\ attempts[a[1]][a[2]].executedAt # Never /\ outcome[a[1]] = "RECOVERED"
    <2>1. /\ a \in Losses \X (1..MaxAttempts) /\ a[2] \in DOMAIN attempts[a[1]]
          /\ attempts[a[1]][a[2]].decidedAt \in t..t /\ GroupOf(a[1], a[2]) = "recovered"
      BY DEF BatchGroup
    <2>2. attempts[a[1]][a[2]].executedAt # Never /\ outcome[a[1]] = "RECOVERED"
      BY <2>1 DEF GroupOf
    <2>3. t \in Int
      OBVIOUS
    <2>4. attempts[a[1]][a[2]].decidedAt = t
      BY <2>1, <2>3
    <2> QED
      BY <2>1, <2>2, <2>4
  <1>3. \A a \in S : a[1] \in T
    BY <1>2 DEF Recovered
  <1>4. ASSUME NEW a \in S, NEW b \in S, a[1] = b[1] PROVE a = b
    <2>1. ~(a[2] < b[2])
      BY <1>2, <1>4, OneExecuted
    <2>2. ~(b[2] < a[2])
      BY <1>2, <1>4, OneExecuted
    <2>3. a[2] \in Nat /\ b[2] \in Nat
      BY <1>2
    <2>4. a[2] = b[2]
      BY <2>1, <2>2, <2>3
    <2>5. a = <<a[1], a[2]>> /\ b = <<b[1], b[2]>>
      BY <1>2
    <2> QED
      BY <1>4, <2>4, <2>5
  <1>5. IsFiniteSet(T)
    <2>1. T \in SUBSET Losses
      BY DEF Recovered
    <2> QED
      BY <2>1, LossesFinite, FS_Subset
  <1>6. g \in [T -> Nat]
    BY MinorIsTotal DEF Recovered
  <1>7. \A a \in S : f[a] = g[a[1]]
    BY <1>2, <1>3
  <1>8. f \in [S -> Nat]
    <2>1. \A r \in T : g[r] \in Nat
      BY <1>6
    <2>2. \A a \in S : f[a] \in Nat
      BY <1>3, <1>7, <2>1
    <2> QED
      BY <2>2
  <1>9. /\ name \in [S -> T] /\ \A a \in S : name[a] = a[1]
    BY <1>3
  <1> HIDE DEF S, T, f, g, name
  <1>10. /\ \A a, b \in S : name[a] = name[b] => a = b
         /\ \A a \in S : f[a] = g[name[a]]
    BY <1>4, <1>7, <1>9
  <1>11. Total(f) <= Total(g)
    BY <1>5, <1>6, <1>8, <1>9, <1>10, RenamedIsNoMore, Z3
  <1> QED
    BY <1>1, <1>11

\* The recovered group of a batch never shows more money than was recovered, unless the
\* cadence ran in the batch's time.
THEOREM GroupsCountALossOnce == Spec => []GroupsCountOnce
  BY EvidenceAlways, GroupsAddUp, PTL

-----------------------------------------------------------------------------
(* What the report has claimed, unless a session overwrites what it has    *)
(* not seen.                                                               *)

\* What is sent or dropped does not begin to wait for a human.
LEMMA SendKeepsHands ==
    ASSUME TypeOK, NEW r \in Losses, Send(r) \/ DropQueued(r), NEW s \in Losses,
           attempts[s] # <<>>, ~IsAwaitingHuman(Latest(s))
    PROVE  attempts'[s] # <<>> /\ ~IsAwaitingHuman(Latest(s)')
  <1> DEFINE N == Len(attempts[s])
             a == attempts[s][N]
             b == attempts'[s][N]
  <1>1. N \in 1..N /\ DOMAIN attempts[s] = 1..N /\ a \in Attempt
    <2>1. N \in Nat /\ 1 \in 1..N /\ DOMAIN attempts[s] = 1..N
      BY AttemptsAre
    <2>2. N \in 1..N
      BY <2>1
    <2> QED
      BY <2>1, <2>2, AttemptsAre
  <1>2. Len(attempts'[s]) = N
    BY SendKeeps
  <1>3. clock # Never
    BY ConstantTypes DEF TypeOK, Never
  <1>4. \/ b = a
        \/ b = [a EXCEPT !.executedAt = clock, !.expiresAt = clock + Window[EntityOf(r)]]
        \/ b = [a EXCEPT !.reason = "dispatch_expired_unsent"]
    <2>1. attempts[s] = [n \in 1..N |-> attempts[s][n]]
      BY <1>1 DEF TypeOK
    <2>2. CASE Send(r)
      <3>1. PICK n \in DOMAIN attempts[r] :
              attempts' = [attempts EXCEPT ![r][n].executedAt = clock,
                                           ![r][n].expiresAt = clock + Window[EntityOf(r)]]
        BY <2>2 DEF Send
      <3> QED
        BY <1>1, <3>1 DEF TypeOK
    <2>3. CASE DropQueued(r)
      <3>1. PICK n \in DOMAIN attempts[r] :
              attempts' = [attempts EXCEPT ![r][n].reason = "dispatch_expired_unsent"]
        BY <2>3 DEF DropQueued
      <3> QED
        BY <1>1, <3>1 DEF TypeOK
    <2> QED
      BY <2>2, <2>3
  <1>5. attempts'[s] # <<>>
    <2>1. Len(<<>>) = 0
      OBVIOUS
    <2>2. N # 0
      <3> HIDE DEF N
      <3> QED
        BY <1>1
    <2> QED
      BY <1>2, <2>1, <2>2
  <1>6. Latest(s) = a /\ Latest(s)' = b
    BY <1>2 DEF Latest
  <1>7. ~(a.action = "ESCALATE_HUMAN" /\ a.executedAt = Never)
        /\ a.reason # "held_for_approval"
    BY <1>6 DEF IsAwaitingHuman
  <1> HIDE DEF a, b
  <1>8. /\ b.action = a.action
        /\ b.executedAt \in {a.executedAt, clock}
        /\ b.reason \in {a.reason, "dispatch_expired_unsent"}
    BY <1>1, <1>4 DEF Attempt
  <1>9. ~IsAwaitingHuman(b)
    BY <1>3, <1>7, <1>8 DEF IsAwaitingHuman
  <1> QED
    BY <1>5, <1>6, <1>9

\* A recovered loss keeps its outcome, and its attempts but for what is sent or dropped.
LEMMA RecoveredRests ==
    ASSUME LifeInv, [Next]_vars, NEW r \in Recovered(Losses), status[r] # "ABSENT",
           ~Overwriting(r)
    PROVE  /\ outcome'[r] = "RECOVERED" /\ status'[r] # "ABSENT"
           /\ \/ attempts'[r] = attempts[r]
              \/ \E s \in Losses : Send(s) \/ DropQueued(s)
  <1>t. TypeOK /\ AttemptsTimely /\ r \in Losses /\ outcome[r] = "RECOVERED"
    BY DEF LifeInv, EvidenceInv, Recovered
  <1>1. outcome[r] # NoOutcome
    BY <1>t DEF NoOutcome
  <1>2. outcome'[r] = "RECOVERED" /\ status'[r] # "ABSENT"
    BY <1>t, <1>1, RowsAdvance DEF Advances
  <1>3. ASSUME NEW p \in Procs, Commit(p) PROVE attempts'[r] = attempts[r]
    <2>1. CASE txn[p].verdict[r] = Unchanged
      BY <1>3, <1>t, <2>1, NothingWritten
    <2>2. CASE txn[p].verdict[r] # Unchanged
      <3>1. ReadHolds(r, txn[p].verdict[r], txn[p].read[r])
        BY <1>3, <1>t, <2>2 DEF LifeInv, ReadsHold, Commit
      <3>2. txn[p].read[r] = ReadNow(r)
        BY <1>3, <1>t, <2>2, CommitsFreshOrOver
      <3> QED
        BY <1>1, <3>1, <3>2 DEF ReadHolds, ReadNow
    <2> QED
      BY <2>1, <2>2
  <1>4. ASSUME NEW p \in Procs, OpensWorked(p) \/ Rollback(p) PROVE UNCHANGED attempts
    BY <1>4 DEF OpensWorked, Begin, Rollback, bookVars
  <1>5. ASSUME NEW s \in Losses, OpenAtRisk(s) PROVE UNCHANGED attempts
    BY <1>5 DEF OpenAtRisk
  <1>6. CASE Idles
    BY <1>2, <1>6 DEF Idles, bookVars
  <1> QED
    BY <1>t, <1>2, <1>3, <1>4, <1>5, <1>6, StepCases

LEMMA HeadlineStep ==
    ASSUME LifeInv, [Next]_vars, NEW r \in Recovered(Losses), ~Overwriting(r),
           NEW cohort \in {"TREATMENT", "HOLDOUT"}, r \in CohortRecovered(Claimable, cohort)
    PROVE  r \in CohortRecovered(Claimable, cohort)'
  <1>1. /\ r \in Losses /\ Failure[EntityOf(r)] \notin NotClaimed /\ attempts[r] # <<>>
        /\ ~IsAwaitingHuman(Latest(r)) /\ EntityOf(r) \notin Planted /\ CohortOf(r) = cohort
        /\ status[r] # "ABSENT"
    BY DEF CohortRecovered, CohortRows, Claimable, Known, Decided, Excluded, AwaitingHuman
  <1>2. /\ outcome'[r] = "RECOVERED" /\ status'[r] # "ABSENT"
        /\ \/ attempts'[r] = attempts[r]
           \/ \E s \in Losses : Send(s) \/ DropQueued(s)
    BY <1>1, RecoveredRests
  <1>3. attempts'[r] # <<>> /\ ~IsAwaitingHuman(Latest(r)')
    <2>1. CASE attempts'[r] = attempts[r]
      <3>1. Latest(r)' = Latest(r)
        BY <2>1 DEF Latest
      <3> QED
        BY <1>1, <2>1, <3>1
    <2>2. CASE \E s \in Losses : Send(s) \/ DropQueued(s)
      BY <1>1, <2>2, SendKeepsHands DEF LifeInv, EvidenceInv
    <2> QED
      BY <1>2, <2>1, <2>2
  <1> QED
    BY <1>1, <1>2, <1>3
    DEF CohortRecovered, CohortRows, Claimable, Known, Decided, Excluded, AwaitingHuman,
        Recovered, CohortOf, IsAwaitingHuman

\* The report never takes back a recovery it has claimed: no recovered loss leaves its
\* cohort of the headline, unless a session that read the row before it was recovered
\* writes it (build_report of report.py reads what the four transactions commit).
THEOREM HeadlineStands == Spec => HeadlineNeverShrinks
  <1>1. LifeInv /\ [Next]_vars
            => [\A r \in Recovered(Losses), cohort \in {"TREATMENT", "HOLDOUT"} :
                   r \in CohortRecovered(Claimable, cohort)
                       => r \in CohortRecovered(Claimable, cohort)' \/ Overwriting(r)]_vars
    BY HeadlineStep
  <1> QED
    BY <1>1, LifeInvAlways, PTL DEF Spec, HeadlineNeverShrinks

=============================================================================
