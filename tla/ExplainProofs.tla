---------------------------- MODULE ExplainProofs ----------------------------
(* The stored profiles and narratives, for any number of losses, viewers   *)
(* and rescorings, whatever the booster computes and whatever the text     *)
(* model answers.                                                          *)
EXTENDS Explain, FiniteSetTheorems, TLAPS

-----------------------------------------------------------------------------
(* Lists in the order of a key.                                            *)

\* The rows of a finite set can be put in the order of any time: the place of a row is
\* the number of those that come before it, ties in the order of some list.
LEMMA OrderExists ==
    ASSUME NEW S, IsFiniteSet(S), NEW key, \A e \in S : key[e] \in Int
    PROVE  \E rows \in SetToSeqs(S) : InOrder(rows, key)
  <1> DEFINE n == Cardinality(S)
  <1>1. n \in Nat
    BY FS_CardinalityType
  <1>2. PICK f \in Bijection(1..n, S) : TRUE
    BY FS_CardinalityType DEF ExistsBijection
  <1>3. f \in [1..n -> S] /\ \A i, j \in 1..n : f[i] = f[j] => i = j
    BY <1>2 DEF Bijection, Injection, Surjection, IsInjective
  <1>4. IsFiniteSet(1..n) /\ Cardinality(1..n) = n
    BY <1>1, FS_Interval
  <1> HIDE DEF n
  <1> DEFINE k(i) == key[f[i]]
             Ahead(i) == {j \in 1..n : k(j) < k(i) \/ (k(j) = k(i) /\ j <= i)}
             rank == [i \in 1..n |-> Cardinality(Ahead(i))]
  <1>5. \A i \in 1..n : k(i) \in Int
    BY <1>3
  <1>6. ASSUME NEW i \in 1..n
        PROVE  /\ IsFiniteSet(Ahead(i)) /\ Cardinality(Ahead(i)) \in 1..n
               /\ i \in Ahead(i)
    <2>1. i \in Ahead(i)
      BY <1>1, <1>5
    <2>2. IsFiniteSet(Ahead(i)) /\ Cardinality(Ahead(i)) <= n
      <3>1. Ahead(i) \in SUBSET (1..n)
        OBVIOUS
      <3> HIDE DEF Ahead
      <3> QED
        BY <3>1, <1>4, FS_Subset
    <2> HIDE DEF Ahead
    <2>3. Cardinality(Ahead(i)) \in Nat /\ Cardinality(Ahead(i)) # 0
      BY <2>1, <2>2, FS_CardinalityType, FS_EmptySet
    <2> QED
      BY <1>1, <2>1, <2>2, <2>3
  <1>7. ASSUME NEW i \in 1..n, NEW j \in 1..n, k(i) < k(j) \/ (k(i) = k(j) /\ i < j)
        PROVE  rank[i] < rank[j]
    <2>1. Ahead(i) \subseteq Ahead(j) /\ j \notin Ahead(i)
      <3> HIDE DEF k
      <3> QED
        BY <1>1, <1>5, <1>7
    <2>2. j \in Ahead(j) /\ IsFiniteSet(Ahead(j)) /\ IsFiniteSet(Ahead(i))
      BY <1>6
    <2> HIDE DEF Ahead
    <2>3. Cardinality(Ahead(i)) <= Cardinality(Ahead(j))
      BY <2>1, <2>2, FS_Subset
    <2>4. Cardinality(Ahead(i)) # Cardinality(Ahead(j))
      BY <2>1, <2>2, FS_Subset
    <2>5. Cardinality(Ahead(i)) \in Nat /\ Cardinality(Ahead(j)) \in Nat
      BY <1>1, <1>6
    <2> QED
      BY <2>3, <2>4, <2>5
  <1>8. rank \in [1..n -> 1..n]
    <2> HIDE DEF Ahead
    <2> QED
      BY <1>6
  <1>9. \A i, j \in 1..n : rank[i] = rank[j] => i = j
    <2>1. SUFFICES ASSUME NEW i \in 1..n, NEW j \in 1..n, i # j
                   PROVE  rank[i] # rank[j]
      OBVIOUS
    <2>2. \/ k(i) < k(j) \/ (k(i) = k(j) /\ i < j)
          \/ k(j) < k(i) \/ (k(j) = k(i) /\ j < i)
      <3> HIDE DEF k
      <3> QED
        BY <1>1, <1>5, <2>1
    <2>3. rank[i] \in Int /\ rank[j] \in Int
      BY <1>1, <1>8
    <2>4. rank[i] < rank[j] \/ rank[j] < rank[i]
      <3> HIDE DEF k, rank
      <3> QED
        BY <1>7, <2>2
    <2> HIDE DEF rank, k
    <2> QED
      BY <2>3, <2>4
  <1> HIDE DEF rank, Ahead
  <1>10. \A r \in 1..n : \E i \in 1..n : rank[i] = r
    <2>1. rank \in Injection(1..n, 1..n)
      BY <1>8, <1>9 DEF Injection, IsInjective
    <2>2. rank \in Surjection(1..n, 1..n)
      BY <2>1, <1>4, FS_Injection
    <2> QED
      BY <2>2 DEF Surjection
  <1> DEFINE At(r) == CHOOSE i \in 1..n : rank[i] = r
             rows == [r \in 1..n |-> f[At(r)]]
  <1>11. \A r \in 1..n : At(r) \in 1..n /\ rank[At(r)] = r
    BY <1>10
  <1> HIDE DEF At
  <1>12. rows \in SetToSeqs(S)
    <2>1. rows \in [1..n -> S]
      BY <1>3, <1>11
    <2>2. \A r, q \in 1..n : r # q => rows[r] # rows[q]
      BY <1>3, <1>11
    <2> QED
      BY <2>1, <2>2 DEF SetToSeqs, n
  <1>13. InOrder(rows, key)
    <2>1. SUFFICES ASSUME NEW r \in 1..n, NEW q \in 1..n, r <= q
                   PROVE  k(At(r)) <= k(At(q))
      BY DEF InOrder
    <2>2. At(r) \in 1..n /\ At(q) \in 1..n /\ rank[At(r)] = r /\ rank[At(q)] = q
      BY <1>11
    <2>3. ~(k(At(q)) < k(At(r)))
      <3>1. SUFFICES ASSUME k(At(q)) < k(At(r)) PROVE FALSE
        OBVIOUS
      <3>2. rank[At(q)] < rank[At(r)]
        BY <1>7, <2>2, <3>1
      <3> QED
        BY <1>1, <2>1, <2>2, <3>2
    <2>4. k(At(r)) \in Int /\ k(At(q)) \in Int
      BY <1>5, <2>2
    <2> HIDE DEF k
    <2> QED
      BY <2>3, <2>4
  <1> QED
    BY <1>12, <1>13

Below(S, key, x) == {e \in S : key[e] < x}

\* bisect_left cuts such a list where the query's `< x` would: the rows below x are the
\* first of the list, and as many as there are.
LEMMA BisectCutsBelow ==
    ASSUME NEW S, IsFiniteSet(S), NEW key, \A e \in S : key[e] \in Int,
           NEW rows \in SetToSeqs(S), InOrder(rows, key), NEW x \in Int
    PROVE  /\ CutAt(rows, key, x) = Below(S, key, x)
           /\ BisectLeft(rows, key, x) = Cardinality(Below(S, key, x))
  <1> DEFINE n == Cardinality(S)
             I == {i \in 1..n : key[rows[i]] < x}
             below == {e \in S : key[e] < x}
  <1>1. n \in Nat /\ IsFiniteSet(1..n) /\ Cardinality(1..n) = n
    BY FS_CardinalityType, FS_Interval
  <1>2. rows \in [1..n -> S] /\ \A i, j \in 1..n : rows[i] = rows[j] => i = j
    BY DEF SetToSeqs
  <1> HIDE DEF n
  <1>3. \A e \in S : \E i \in 1..n : rows[i] = e
    <2>1. rows \in Injection(1..n, S)
      BY <1>2 DEF Injection, IsInjective
    <2>2. rows \in Surjection(1..n, S)
      BY <1>1, <2>1, FS_Injection DEF n
    <2> QED
      BY <2>2 DEF Surjection
  <1>4. \A i, j \in 1..n : i <= j => key[rows[i]] <= key[rows[j]]
    BY <1>2 DEF InOrder
  <1>5. \A i \in 1..n : key[rows[i]] \in Int
    BY <1>2
  <1>6. I \in SUBSET (1..n)
    OBVIOUS
  <1>7. IsFiniteSet(I) /\ Cardinality(I) \in Nat
    BY <1>1, <1>6, FS_Subset, FS_CardinalityType
  <1>8. BisectLeft(rows, key, x) = Cardinality(I)
    BY <1>2 DEF BisectLeft
  <1>9. ASSUME NEW m \in I
        PROVE  m \in 1..Cardinality(I)
    <2>1. m \in 1..n
      OBVIOUS
    <2>2. 1..m \subseteq I
      BY <1>1, <1>4, <1>5, <2>1
    <2> HIDE DEF I
    <2>3. m \in Nat /\ 1 <= m
      BY <1>1, <2>1
    <2>4. Cardinality(1..m) = m
      BY <2>3, FS_Interval
    <2>5. m <= Cardinality(I)
      BY <1>7, <2>2, <2>4, FS_Subset
    <2> QED
      BY <1>7, <2>3, <2>5
  <1>10. I = 1..Cardinality(I)
    <2> HIDE DEF I
    <2>1. IsFiniteSet(1..Cardinality(I)) /\ Cardinality(1..Cardinality(I)) = Cardinality(I)
      BY <1>7, FS_Interval
    <2>2. I \in SUBSET (1..Cardinality(I))
      BY <1>9
    <2> QED
      BY <2>1, <2>2, FS_Subset
  <1>11. CutAt(rows, key, x) = {rows[i] : i \in I}
    BY <1>8, <1>10 DEF CutAt
  <1>12. {rows[i] : i \in I} = below
    BY <1>2, <1>3
  <1>13. Cardinality(I) = Cardinality(below)
    <2> DEFINE g == [i \in I |-> rows[i]]
    <2>1. g \in [I -> below]
      BY <1>2
    <2>2. \A i, j \in I : g[i] = g[j] => i = j
      BY <1>2
    <2>3. \A e \in below : \E i \in I : g[i] = e
      BY <1>3
    <2> HIDE DEF g, I, below
    <2>4. g \in Bijection(I, below)
      BY <2>1, <2>2, <2>3 DEF Bijection, Injection, Surjection, IsInjective
    <2>5. ExistsBijection(I, below)
      BY <2>4 DEF ExistsBijection
    <2> QED
      BY <1>7, <2>5, FS_Bijection
  <1> QED
    BY <1>8, <1>11, <1>12, <1>13 DEF Below

-----------------------------------------------------------------------------
(* Types, and the two ways to load features.                               *)

LEMMA ScoringInitTypes ==
    ASSUME ExplainInit
    PROVE  ScoringTypeOK
  BY ScoringConstantsOK DEF ExplainInit, ScoringInit, ScoringTypeOK, Never

\* What a row of a profile may be, whoever scores it.
LEMMA ScoredIsTyped ==
    ASSUME NEW f, NEW works
    PROVE  ScoreOf(f, works).version \in {"off", "score@v1", "score_ml@v1"}
  BY DEF ScoreOf

LEMMA BatchKeepsTypes ==
    ASSUME ScoringTypeOK, NEW works, ScoreBatch(works)
    PROVE  ScoringTypeOK'
  <1>1. UNCHANGED <<clock, historyVars, model>>
    BY DEF ScoreBatch
  <1>2. ASSUME NEW e \in Entities
        PROVE  profile'[e] # Unscored =>
                  /\ DOMAIN profile'[e] = {"score", "version", "features"}
                  /\ profile'[e].version \in {"off", "score@v1", "score_ml@v1"}
    <2>1. PICK rows : profile' = [d \in Entities |->
              IF d \notin rows THEN profile[d]
              ELSE LET known == CustomerOf[d] \notin NoEmail
                       f == IF known THEN ContextFeatures(d) ELSE NoFeatures
                       s == IF known THEN ScoreOf(f, works[d])
                                     ELSE [score |-> 0, version |-> "off"]
                   IN Upserted(profile[d], [score |-> s.score, version |-> s.version,
                                            features |-> f])]
      BY DEF ScoreBatch
    <2> DEFINE known == CustomerOf[e] \notin NoEmail
               f == IF known THEN ContextFeatures(e) ELSE NoFeatures
               s == IF known THEN ScoreOf(f, works[e]) ELSE [score |-> 0, version |-> "off"]
    <2>2. CASE e \notin rows
      BY <2>1, <2>2 DEF ScoringTypeOK
    <2>3. CASE e \in rows
      <3>1. profile'[e] = [score |-> s.score, version |-> s.version, features |-> f]
        BY <2>1, <2>3 DEF Upserted
      <3>2. s.version \in {"off", "score@v1", "score_ml@v1"}
        <4> HIDE DEF f
        <4> QED
          BY ScoredIsTyped
      <3> HIDE DEF s, f
      <3> QED
        BY <3>1, <3>2
    <2> QED
      BY <2>2, <2>3
  <1> QED
    BY <1>1, <1>2 DEF ScoringTypeOK, historyVars

\* One step of the customer's ledger.
LEMMA HistoryKeepsTypes ==
    ASSUME ScoringTypeOK, NEW e \in Entities,
           Start(e) \/ Succeed(e) \/ Detect(e) \/ Contact(e) \/ Resolve(e)
    PROVE  ScoringTypeOK'
  <1>1. clock \in 0..MaxTime
    BY ScoringConstantsOK DEF ScoringTypeOK
  <1>2. /\ startedAt \in [Entities -> 0..MaxTime] /\ succeededAt \in [Entities -> 0..MaxTime]
        /\ detectedAt \in [Entities -> 0..MaxTime] /\ contactedAt \in [Entities -> 0..MaxTime]
        /\ status \in [Entities -> {"NONE", "OPEN"} \cup Resolved]
    BY DEF ScoringTypeOK
  <1>3. UNCHANGED <<clock, model, profile>>
    BY DEF Start, Succeed, Detect, Contact, Resolve
  <1>4. /\ startedAt' \in [Entities -> 0..MaxTime] /\ succeededAt' \in [Entities -> 0..MaxTime]
        /\ detectedAt' \in [Entities -> 0..MaxTime] /\ contactedAt' \in [Entities -> 0..MaxTime]
    BY <1>1, <1>2 DEF Start, Succeed, Detect, Contact, Resolve
  <1>5. status' \in [Entities -> {"NONE", "OPEN"} \cup Resolved]
    <2>1. CASE Resolve(e)
      <3>1. PICK s \in (IF succeededAt[e] # Never THEN {"RECOVERED"} ELSE GivenUp) :
                status' = [status EXCEPT ![e] = s]
        BY <2>1 DEF Resolve
      <3>2. s \in Resolved
        BY ScoringConstantsOK DEF Resolved
      <3> QED
        BY <1>2, <3>1, <3>2
    <2>2. CASE Start(e) \/ Succeed(e) \/ Detect(e) \/ Contact(e)
      BY <1>2, <2>2 DEF Start, Succeed, Detect, Contact
    <2> QED
      BY <2>1, <2>2
  <1> QED
    BY <1>3, <1>4, <1>5 DEF ScoringTypeOK

LEMMA NextKeepsTypes ==
    ASSUME ScoringTypeOK, [Next]_vars
    PROVE  ScoringTypeOK'
  <1>1. CASE \E e \in Entities : Start(e) \/ Succeed(e) \/ Detect(e) \/ Contact(e) \/ Resolve(e)
    BY <1>1, HistoryKeepsTypes
  <1>2. CASE \E works \in [Entities -> BOOLEAN] : ScoreBatch(works)
    BY <1>2, BatchKeepsTypes
  <1>3. CASE \E m \in Models : Deploy(m)
    BY <1>3 DEF Deploy, ScoringTypeOK, historyVars
  <1>4. CASE ScoringTick
    BY <1>4, ScoringConstantsOK DEF ScoringTick, ScoringTypeOK, historyVars
  <1>5. CASE UNCHANGED scoreVars
    BY <1>5 DEF ScoringTypeOK, scoreVars, historyVars
  <1> QED
    BY <1>1, <1>2, <1>3, <1>4, <1>5 DEF Next, ScoringNext, Ask, Store, Abandon, vars

\* Types: times stay times, and a profile that is there has all its columns and the name of
\* a scorer, however often it is written.
THEOREM ScoringTypes == Spec => []ScoringTypeOK
  <1>1. ScoringTypeOK /\ [Next]_vars => ScoringTypeOK'
    BY NextKeepsTypes
  <1> QED
    BY ScoringInitTypes, <1>1, PTL DEF Spec

\* What build_feature_context loads for a customer is cut where the query stops.
LEMMA LoadedIsCut ==
    ASSUME NEW S \in SUBSET Entities, NEW key \in [Entities -> Int], NEW x \in Int
    PROVE  /\ CutAt(Loaded(S, key), key, x) = Prior(S, key, x)
           /\ BisectLeft(Loaded(S, key), key, x) = Cardinality(Prior(S, key, x))
  <1> DEFINE T == {e \in S : key[e] # Never}
             rows == Loaded(S, key)
  <1>1. IsFiniteSet(T) /\ \A e \in T : key[e] \in Int
    BY ScoringConstantsOK, FS_Subset
  <1> HIDE DEF T
  <1>2. rows \in SetToSeqs(T) /\ InOrder(rows, key)
    <2>1. \E r \in SetToSeqs(T) : InOrder(r, key)
      BY <1>1, OrderExists
    <2> QED
      BY <2>1 DEF Loaded, T
  <1> HIDE DEF rows
  <1>3. /\ CutAt(rows, key, x) = Below(T, key, x)
        /\ BisectLeft(rows, key, x) = Cardinality(Below(T, key, x))
    BY <1>1, <1>2, BisectCutsBelow
  <1>4. Below(T, key, x) = Prior(S, key, x)
    BY DEF T, Prior, Below
  <1> QED
    BY <1>3, <1>4 DEF rows

\* The contacts of the last seven days are a difference of two cuts.
LEMMA LastWeekIsCut ==
    ASSUME NEW S \in SUBSET Entities, NEW key \in [Entities -> Int], NEW x \in Int
    PROVE  Cardinality(Prior(S, key, x)) - Cardinality(Prior(S, key, x - Week))
              = Cardinality({e \in Prior(S, key, x) : key[e] >= x - Week})
  <1> DEFINE A == Prior(S, key, x)
             B == Prior(S, key, x - Week)
             C == {e \in Prior(S, key, x) : key[e] >= x - Week}
  <1>1. Week \in Nat
    BY ScoringConstantsOK
  <1>2. B \subseteq A /\ C = A \ B /\ A \cap B = B
    BY <1>1 DEF Prior
  <1>3. IsFiniteSet(A) /\ IsFiniteSet(B)
    BY ScoringConstantsOK, FS_Subset DEF Prior
  <1> HIDE DEF A, B, C
  <1>4. Cardinality(C) = Cardinality(A) - Cardinality(B)
    BY <1>2, <1>3, FS_Difference
  <1> QED
    BY <1>4 DEF A, B, C

\* Both ways of loading give the same features, for any ledger and whatever ties there are.
LEMMA TypesAgree ==
    ASSUME ScoringTypeOK
    PROVE  ContextAgrees
  <1>1. SUFFICES ASSUME NEW e \in Entities
                 PROVE  ContextFeatures(e) = QueryFeatures(e)
    BY DEF ContextAgrees
  <1> DEFINE before == detectedAt[e]
             mine == Siblings(e)
  <1>2. /\ startedAt \in [Entities -> Int] /\ detectedAt \in [Entities -> Int]
        /\ contactedAt \in [Entities -> Int]
    BY ScoringConstantsOK DEF ScoringTypeOK
  <1>3. before \in Int /\ before - Week \in Int
    BY <1>1, <1>2, ScoringConstantsOK
  <1>4. mine \in SUBSET Entities /\ mine \cap Payments \in SUBSET Entities
        /\ mine \cap Invoices \in SUBSET Entities
    BY DEF Siblings, Entities
  <1> HIDE DEF before, mine
  <1>5. CutAt(Loaded(mine \cap Payments, startedAt), startedAt, before)
           = Prior(mine \cap Payments, startedAt, before)
    BY <1>2, <1>3, <1>4, LoadedIsCut
  <1>6. CutAt(Loaded(mine \cap Invoices, startedAt), startedAt, before)
           = Prior(mine \cap Invoices, startedAt, before)
    BY <1>2, <1>3, <1>4, LoadedIsCut
  <1>7. CutAt(Loaded(mine, detectedAt), detectedAt, before) \ {e}
           = Prior(mine \ {e}, detectedAt, before)
    <2>1. CutAt(Loaded(mine, detectedAt), detectedAt, before) = Prior(mine, detectedAt, before)
      BY <1>2, <1>3, <1>4, LoadedIsCut
    <2> QED
      BY <2>1 DEF Prior
  <1>8. BisectLeft(Loaded(mine, contactedAt), contactedAt, before)
           - BisectLeft(Loaded(mine, contactedAt), contactedAt, before - Week)
           = Cardinality({f \in Prior(mine, contactedAt, before) :
                             contactedAt[f] >= before - Week})
    BY <1>2, <1>3, <1>4, LoadedIsCut, LastWeekIsCut
  <1> QED
    BY <1>5, <1>6, <1>7, <1>8 DEF ContextFeatures, QueryFeatures, before, mine

\* The batch's bulk load, cut by bisection, and the queries of one row see the same history
\* of every loss, for any number of rows and although rows of one moment are loaded in any
\* order (build_features).
THEOREM LoadsAgree == Spec => []ContextAgrees
  BY ScoringTypes, TypesAgree, PTL

-----------------------------------------------------------------------------
(* Profiles.                                                               *)

\* What any scorer returns is what its version says it is.
LEMMA ScoresAreHonest ==
    ASSUME NEW f, NEW works
    PROVE  LET s == ScoreOf(f, works) IN
           /\ s.version = "off" => s.score = 0
           /\ s.version = "score@v1" => s.score = Total(Terms(f))
           /\ s.version = "score_ml@v1" => s.score = Booster(f)
  BY DEF ScoreOf

ProfileInv ==
    /\ profile = [e \in Entities |-> profile[e]]
    /\ ProfileIsWhole

LEMMA ProfileInit ==
    ASSUME ExplainInit
    PROVE  ProfileInv
  BY DEF ExplainInit, ScoringInit, ProfileInv, ProfileIsWhole, Unscored

\* The one step that writes profiles keeps an old one or writes all of a new one.
LEMMA BatchKeepsProfiles ==
    ASSUME ProfileInv, NEW works, ScoreBatch(works)
    PROVE  ProfileInv'
  <1>1. PICK rows : profile' = [e \in Entities |->
              IF e \notin rows THEN profile[e]
              ELSE LET known == CustomerOf[e] \notin NoEmail
                       f == IF known THEN ContextFeatures(e) ELSE NoFeatures
                       s == IF known THEN ScoreOf(f, works[e])
                                     ELSE [score |-> 0, version |-> "off"]
                   IN Upserted(profile[e], [score |-> s.score, version |-> s.version,
                                            features |-> f])]
    BY DEF ScoreBatch
  <1>2. SUFFICES ASSUME NEW e \in Entities
                 PROVE  LET p == profile'[e] IN
                        /\ p.version = "off" => p.score = 0
                        /\ p.version = "score@v1" => p.score = Total(Terms(p.features))
                        /\ p.version = "score_ml@v1" => p.score = Booster(p.features)
    BY <1>1 DEF ProfileInv, ProfileIsWhole
  <1>3. CASE e \notin rows
    BY <1>1, <1>3 DEF ProfileInv, ProfileIsWhole
  <1>4. CASE e \in rows /\ CustomerOf[e] \in NoEmail
    BY <1>1, <1>4 DEF Upserted
  <1>5. CASE e \in rows /\ CustomerOf[e] \notin NoEmail
    <2> DEFINE f == ContextFeatures(e)
               s == ScoreOf(f, works[e])
    <2>1. profile'[e] = [score |-> s.score, version |-> s.version, features |-> f]
      BY <1>1, <1>5 DEF Upserted
    <2> HIDE DEF f
    <2> QED
      BY <2>1, ScoresAreHonest
  <1> QED
    BY <1>3, <1>4, <1>5

\* No other step touches a profile.
LEMMA OthersLeaveProfiles ==
    ASSUME [Next]_vars, \A works \in [Entities -> BOOLEAN] : ~ScoreBatch(works)
    PROVE  profile' = profile
  BY DEF Next, ScoringNext, Ask, Store, Abandon, Start, Succeed, Detect, Contact, Resolve,
         Deploy, ScoringTick, vars, scoreVars, historyVars

\* Whatever happens, a stored profile is the whole of one scoring: run_batch's upsert
\* writes score, version and features together, and port.score names the scorer it used
\* and not the one it was asked for.
THEOREM ProfilesAreWhole == Spec => []ProfileIsWhole
  <1>1. ExplainInit => ProfileInv
    BY ProfileInit
  <1>2. ProfileInv /\ [Next]_vars => ProfileInv'
    <2>1. SUFFICES ASSUME ProfileInv, [Next]_vars PROVE ProfileInv'
      OBVIOUS
    <2>2. CASE \E works \in [Entities -> BOOLEAN] : ScoreBatch(works)
      BY <2>1, <2>2, BatchKeepsProfiles
    <2>3. CASE \A works \in [Entities -> BOOLEAN] : ~ScoreBatch(works)
      <3>1. profile' = profile
        BY <2>1, <2>3, OthersLeaveProfiles
      <3> QED
        BY <2>1, <3>1 DEF ProfileInv, ProfileIsWhole
    <2> QED
      BY <2>2, <2>3
  <1>3. ProfileInv => ProfileIsWhole
    BY DEF ProfileInv
  <1> QED
    BY <1>1, <1>2, <1>3, PTL DEF Spec

-----------------------------------------------------------------------------
(* How many narratives.                                                    *)

Askers(s) == {v \in Viewers : asking[v] # NotAsking /\ asking[v].subject = s}

\* Narratives are sequences, of whatever they consist of.
NarrativesInv ==
    /\ explanations = [s \in Subjects |-> explanations[s]]
    /\ asking = [v \in Viewers |-> asking[v]]
    /\ \A s \in Subjects : \E Rows : explanations[s] \in Seq(Rows)
    /\ NarrativesBounded

LEMMA NarrativesInit ==
    ASSUME ExplainInit
    PROVE  NarrativesInv
  <1>1. \A s \in Subjects : explanations[s] = <<>> /\ Askers(s) = {}
    BY DEF ExplainInit, Askers
  <1>2. Cardinality(Viewers) \in Nat
    BY ExplainConstantsOK, FS_CardinalityType
  <1>3. <<>> \in Seq({})
    OBVIOUS
  <1>4. NarrativesBounded
    <2>1. \A s \in Subjects : Len(explanations[s]) = 0 /\ Cardinality(Askers(s)) = 0
      BY <1>1, FS_EmptySet
    <2> QED
      BY <2>1, <1>2 DEF NarrativesBounded, Askers
  <1> QED
    BY <1>1, <1>3, <1>4 DEF ExplainInit, NarrativesInv

\* A viewer asks only for what nobody has stored.
LEMMA AskBounded ==
    ASSUME NarrativesInv, NEW v \in Viewers, NEW s \in Subjects, NEW works, Ask(v, s, works)
    PROVE  NarrativesInv'
  <1>1. explanations' = explanations /\ explanations[s] = <<>>
    BY DEF Ask, Missing
  <1>2. asking' = [asking EXCEPT ![v] = Material(LossEvidence(s, works))]
    BY DEF Ask
  <1>3. asking' = [u \in Viewers |-> asking'[u]]
    BY <1>2 DEF NarrativesInv
  <1>4. ASSUME NEW t \in Subjects
        PROVE  Len(explanations'[t]) + Cardinality(Askers(t)') <= Cardinality(Viewers)
    <2>1. CASE t = s
      <3>1. Askers(t)' \subseteq Viewers
        BY DEF Askers
      <3>2. Cardinality(Askers(t)') <= Cardinality(Viewers) /\ Cardinality(Askers(t)') \in Nat
        BY <3>1, ExplainConstantsOK, FS_Subset, FS_CardinalityType
      <3>3. Len(explanations'[t]) = 0
        BY <1>1, <2>1
      <3> QED
        BY <3>2, <3>3
    <2>2. CASE t # s
      <3>1. Material(LossEvidence(s, works)).subject = s
        BY DEF Material, LossEvidence
      <3>2. Askers(t)' \subseteq Askers(t)
        BY <1>2, <2>2, <3>1 DEF Askers, NarrativesInv
      <3>3. IsFiniteSet(Askers(t)) /\ Askers(t) \subseteq Viewers
        BY ExplainConstantsOK, FS_Subset DEF Askers
      <3>4. /\ Cardinality(Askers(t)') <= Cardinality(Askers(t))
            /\ Cardinality(Askers(t)') \in Nat /\ Cardinality(Askers(t)) \in Nat
        BY <3>2, <3>3, FS_Subset, FS_CardinalityType
      <3>5. Len(explanations[t]) \in Nat /\ Cardinality(Viewers) \in Nat
        BY ExplainConstantsOK, FS_CardinalityType DEF NarrativesInv
      <3>6. Len(explanations[t]) + Cardinality(Askers(t)) <= Cardinality(Viewers)
        BY DEF NarrativesInv, NarrativesBounded, Askers
      <3> QED
        BY <1>1, <3>4, <3>5, <3>6
    <2> QED
      BY <2>1, <2>2
  <1>5. NarrativesBounded'
    BY <1>4 DEF NarrativesBounded, Askers
  <1> QED
    BY <1>1, <1>3, <1>5 DEF NarrativesInv

\* A viewer that is done makes room for what it leaves behind.
LEMMA OneAskerLess ==
    ASSUME NarrativesInv, NEW v \in Viewers, asking[v] # NotAsking,
           asking' = [asking EXCEPT ![v] = NotAsking], NEW t \in Subjects
    PROVE  /\ Cardinality(Askers(t)) \in Nat /\ Cardinality(Askers(t)') \in Nat
           /\ Cardinality(Askers(t)')
                 = IF asking[v].subject = t THEN Cardinality(Askers(t)) - 1
                   ELSE Cardinality(Askers(t))
  <1>1. IsFiniteSet(Askers(t))
    BY ExplainConstantsOK, FS_Subset DEF Askers
  <1>2. \A u \in Viewers : asking'[u] = IF u = v THEN NotAsking ELSE asking[u]
    BY DEF NarrativesInv
  <1>3. CASE asking[v].subject = t
    <2>1. v \in Askers(t) /\ Askers(t)' = Askers(t) \ {v}
      BY <1>2, <1>3 DEF Askers
    <2>2. /\ IsFiniteSet(Askers(t) \ {v})
          /\ Cardinality(Askers(t) \ {v}) = Cardinality(Askers(t)) - 1
      BY <1>1, <2>1, FS_RemoveElement
    <2> QED
      BY <1>1, <1>3, <2>1, <2>2, FS_CardinalityType
  <1>4. CASE asking[v].subject # t
    <2>1. Askers(t)' = Askers(t)
      BY <1>2, <1>4 DEF Askers
    <2> QED
      BY <1>1, <1>4, <2>1, FS_CardinalityType
  <1> QED
    BY <1>3, <1>4

LEMMA StoreBounded ==
    ASSUME NarrativesInv, NEW v \in Viewers, Store(v)
    PROVE  NarrativesInv'
  <1> DEFINE subject == asking[v].subject
  <1>1. asking[v] # NotAsking /\ asking' = [asking EXCEPT ![v] = NotAsking]
    BY DEF Store
  <1>2. PICK row : explanations' = [explanations EXCEPT ![subject] = Append(@, row)]
    BY DEF Store
  <1>3. /\ explanations' = [s \in Subjects |-> explanations'[s]]
        /\ asking' = [u \in Viewers |-> asking'[u]]
    BY <1>1, <1>2 DEF NarrativesInv
  <1>4. ASSUME NEW s \in Subjects
        PROVE  /\ \E Rows : explanations'[s] \in Seq(Rows)
               /\ Len(explanations'[s]) = Len(explanations[s])
                                            + (IF s = subject THEN 1 ELSE 0)
    <2>1. PICK Rows : explanations[s] \in Seq(Rows)
      BY DEF NarrativesInv
    <2>2. CASE s = subject
      <3>1. explanations'[s] = Append(explanations[s], row)
        BY <1>2, <2>2 DEF NarrativesInv
      <3>2. explanations[s] \in Seq(Rows \cup {row})
        BY <2>1
      <3>3. /\ Append(explanations[s], row) \in Seq(Rows \cup {row})
            /\ Len(Append(explanations[s], row)) = Len(explanations[s]) + 1
        BY <3>2
      <3> QED
        BY <2>2, <3>1, <3>3
    <2>3. CASE s # subject
      <3>1. explanations'[s] = explanations[s]
        BY <1>2, <2>3 DEF NarrativesInv
      <3>2. Len(explanations[s]) \in Nat
        BY <2>1
      <3> QED
        BY <2>1, <2>3, <3>1, <3>2
    <2> QED
      BY <2>2, <2>3
  <1>5. NarrativesBounded'
    <2>1. SUFFICES ASSUME NEW s \in Subjects
                   PROVE  Len(explanations'[s]) + Cardinality(Askers(s)') <= Cardinality(Viewers)
      BY DEF NarrativesBounded, Askers
    <2>2. Len(explanations[s]) + Cardinality(Askers(s)) <= Cardinality(Viewers)
      BY DEF NarrativesInv, NarrativesBounded, Askers
    <2>3. Len(explanations[s]) \in Nat /\ Cardinality(Viewers) \in Nat
      BY ExplainConstantsOK, FS_CardinalityType DEF NarrativesInv
    <2>4. /\ Cardinality(Askers(s)) \in Nat /\ Cardinality(Askers(s)') \in Nat
          /\ Cardinality(Askers(s)') = IF subject = s THEN Cardinality(Askers(s)) - 1
                                       ELSE Cardinality(Askers(s))
      BY <1>1, OneAskerLess
    <2>5. Len(explanations'[s]) = Len(explanations[s]) + (IF s = subject THEN 1 ELSE 0)
      BY <1>4
    <2> QED
      <3>1. CASE s = subject
        BY <2>2, <2>3, <2>4, <2>5, <3>1
      <3>2. CASE s # subject
        BY <2>2, <2>3, <2>4, <2>5, <3>2
      <3> QED
        BY <3>1, <3>2
  <1> QED
    BY <1>3, <1>4, <1>5 DEF NarrativesInv

LEMMA AbandonBounded ==
    ASSUME NarrativesInv, NEW v \in Viewers, Abandon(v)
    PROVE  NarrativesInv'
  <1>1. /\ asking[v] # NotAsking /\ asking' = [asking EXCEPT ![v] = NotAsking]
        /\ explanations' = explanations
    BY DEF Abandon
  <1>2. asking' = [u \in Viewers |-> asking'[u]]
    BY <1>1 DEF NarrativesInv
  <1>3. NarrativesBounded'
    <2>1. SUFFICES ASSUME NEW s \in Subjects
                   PROVE  Len(explanations'[s]) + Cardinality(Askers(s)') <= Cardinality(Viewers)
      BY DEF NarrativesBounded, Askers
    <2>2. Len(explanations[s]) + Cardinality(Askers(s)) <= Cardinality(Viewers)
      BY DEF NarrativesInv, NarrativesBounded, Askers
    <2>3. Len(explanations[s]) \in Nat /\ Cardinality(Viewers) \in Nat
      BY ExplainConstantsOK, FS_CardinalityType DEF NarrativesInv
    <2>4. /\ Cardinality(Askers(s)) \in Nat /\ Cardinality(Askers(s)') \in Nat
          /\ Cardinality(Askers(s)') <= Cardinality(Askers(s))
      <3>1. /\ Cardinality(Askers(s)) \in Nat /\ Cardinality(Askers(s)') \in Nat
            /\ Cardinality(Askers(s)')
                  = IF asking[v].subject = s THEN Cardinality(Askers(s)) - 1
                    ELSE Cardinality(Askers(s))
        BY <1>1, OneAskerLess
      <3> QED
        BY <3>1
    <2> QED
      BY <1>1, <2>2, <2>3, <2>4
  <1> QED
    BY <1>1, <1>2, <1>3 DEF NarrativesInv

\* However many ask at once, and whoever gives up on the way, each viewer leaves at most
\* one narrative of a loss, though explain() looks and inserts in two steps and the table
\* has no index that would stop it.
THEOREM OneNarrativeEach == Spec => []NarrativesBounded
  <1>1. ExplainInit => NarrativesInv
    BY NarrativesInit
  <1>2. NarrativesInv /\ [Next]_vars => NarrativesInv'
    <2>1. SUFFICES ASSUME NarrativesInv, [Next]_vars PROVE NarrativesInv'
      OBVIOUS
    <2>2. CASE \E v \in Viewers, s \in Subjects, works \in BOOLEAN : Ask(v, s, works)
      BY <2>1, <2>2, AskBounded
    <2>3. CASE \E v \in Viewers : Store(v)
      BY <2>1, <2>3, StoreBounded
    <2>4. CASE \E v \in Viewers : Abandon(v)
      BY <2>1, <2>4, AbandonBounded
    <2>5. CASE UNCHANGED explainVars
      BY <2>1, <2>5 DEF NarrativesInv, NarrativesBounded, explainVars
    <2> QED
      BY <2>1, <2>2, <2>3, <2>4, <2>5 DEF Next, vars, explainVars
  <1>3. NarrativesInv => NarrativesBounded
    BY DEF NarrativesInv
  <1> QED
    BY <1>1, <1>2, <1>3, PTL DEF Spec

-----------------------------------------------------------------------------
(* What narratives say.                                                    *)

\* Whatever the template states in numbers, its bundle lists, but for the loss's name.
LEMMA TemplateIsBacked ==
    ASSUME NEW e, NEW works
    PROVE  Material(LossEvidence(e, works)).template \subseteq LabelOf(e)
  <1> DEFINE factors == Factors(e, works)
             magnitudes == {Magnitude(f) : f \in factors}
             score == {profile[e].score : f \in factors}
             facts == {AmountOf[e], AttemptCount(e)}
             listed == facts \cup 1..AttemptCount(e) \cup score
                           \cup AllowedFactors(factors, magnitudes)
             bundle == LossEvidence(e, works)
  <1>1. /\ bundle.label = LabelOf(e) /\ bundle.facts = Written(facts)
        /\ bundle.score = Written(score) /\ bundle.top = Written(Largest(magnitudes))
        /\ bundle.numbers = Written(listed)
    BY DEF LossEvidence
  <1>2. ASSUME NEW S, NEW T, S \subseteq T
        PROVE  Written(S) \subseteq Written(T)
    BY <1>2 DEF Written
  <1>3. facts \subseteq listed /\ score \subseteq listed
    OBVIOUS
  <1>4. Largest(magnitudes) \subseteq listed
    BY DEF Largest, AllowedFactors
  <1>5. Material(bundle).template = Template(bundle) \ bundle.numbers
    BY DEF Material
  <1>6. Template(bundle)
           = LabelOf(e) \cup Written(facts) \cup Written(score) \cup Written(Largest(magnitudes))
    BY <1>1 DEF Template
  <1>7. /\ Written(facts) \subseteq bundle.numbers /\ Written(score) \subseteq bundle.numbers
        /\ Written(Largest(magnitudes)) \subseteq bundle.numbers
    <2> HIDE DEF facts, score, magnitudes, listed, bundle
    <2> QED
      BY <1>1, <1>2, <1>3, <1>4
  <1>8. Material(bundle).template \subseteq LabelOf(e)
    <2> HIDE DEF facts, score, magnitudes, listed, bundle
    <2> QED
      BY <1>5, <1>6, <1>7
  <1> QED
    BY <1>8

\* A row as it may be stored of a loss.
Sound(row, s) ==
    /\ row.verified <=> row.strays = {}
    /\ row.by = "model" => row.strays = {}
    /\ row.by = "template" => row.strays \subseteq LabelOf(s)

LEMMA RenderedIsSound ==
    ASSUME NEW material, NEW text, NEW s, material.template \subseteq LabelOf(s)
    PROVE  Sound(RenderNarrative(material, text), s)
  BY DEF Sound, RenderNarrative, Verified

SoundInv ==
    /\ explanations = [s \in Subjects |-> explanations[s]]
    /\ asking = [v \in Viewers |-> asking[v]]
    /\ \A s \in Subjects : \E Rows : explanations[s] \in Seq(Rows)
    /\ \A v \in Viewers :
          asking[v] # NotAsking => asking[v].template \subseteq LabelOf(asking[v].subject)
    /\ \A s \in Subjects : \A n \in DOMAIN explanations[s] : Sound(explanations[s][n], s)

LEMMA SoundInit ==
    ASSUME ExplainInit
    PROVE  SoundInv
  <1>1. /\ explanations = [s \in Subjects |-> <<>>]
        /\ asking = [v \in Viewers |-> NotAsking]
    BY DEF ExplainInit
  <1>2. <<>> \in Seq({}) /\ DOMAIN <<>> = {}
    OBVIOUS
  <1> QED
    BY <1>1, <1>2 DEF SoundInv

LEMMA AskSound ==
    ASSUME SoundInv, NEW v \in Viewers, NEW s \in Subjects, NEW works, Ask(v, s, works)
    PROVE  SoundInv'
  <1> DEFINE material == Material(LossEvidence(s, works))
  <1>1. explanations' = explanations /\ asking' = [asking EXCEPT ![v] = material]
    BY DEF Ask
  <1>2. material.template \subseteq LabelOf(s)
    BY TemplateIsBacked
  <1>3. material.subject = s
    BY DEF Material, LossEvidence
  <1> HIDE DEF material
  <1>4. \A u \in Viewers : asking'[u] = IF u = v THEN material ELSE asking[u]
    BY <1>1 DEF SoundInv
  <1>5. asking' = [u \in Viewers |-> asking'[u]]
    BY <1>1 DEF SoundInv
  <1>6. \A u \in Viewers :
           asking'[u] # NotAsking => asking'[u].template \subseteq LabelOf(asking'[u].subject)
    BY <1>2, <1>3, <1>4 DEF SoundInv
  <1> QED
    BY <1>1, <1>5, <1>6 DEF SoundInv

LEMMA StoreSound ==
    ASSUME SoundInv, NEW v \in Viewers, Store(v)
    PROVE  SoundInv'
  <1> DEFINE subject == asking[v].subject
  <1>1. asking[v] # NotAsking /\ asking' = [asking EXCEPT ![v] = NotAsking]
    BY DEF Store
  <1>2. PICK text : explanations' = [explanations EXCEPT
                        ![subject] = Append(@, RenderNarrative(asking[v], text))]
    BY DEF Store
  <1> DEFINE row == RenderNarrative(asking[v], text)
  <1>3. Sound(row, subject)
    BY <1>1, RenderedIsSound DEF SoundInv
  <1> HIDE DEF row
  <1>4. /\ explanations' = [s \in Subjects |-> explanations'[s]]
        /\ asking' = [u \in Viewers |-> asking'[u]]
    BY <1>1, <1>2 DEF SoundInv
  <1>5. \A u \in Viewers :
           asking'[u] # NotAsking => asking'[u].template \subseteq LabelOf(asking'[u].subject)
    BY <1>1 DEF SoundInv
  <1>6. ASSUME NEW s \in Subjects
        PROVE  /\ \E Rows : explanations'[s] \in Seq(Rows)
               /\ \A n \in DOMAIN explanations'[s] : Sound(explanations'[s][n], s)
    <2>1. PICK Rows : explanations[s] \in Seq(Rows)
      BY DEF SoundInv
    <2>2. CASE s = subject
      <3>1. explanations'[s] = Append(explanations[s], row)
        BY <1>2, <2>2 DEF SoundInv, row
      <3>2. explanations[s] \in Seq(Rows \cup {row})
        BY <2>1
      <3>3. Append(explanations[s], row) \in Seq(Rows \cup {row})
        BY <3>2
      <3>4. ASSUME NEW n \in DOMAIN explanations'[s]
            PROVE  Sound(explanations'[s][n], s)
        <4>1. n = Len(explanations[s]) + 1 \/ n \in DOMAIN explanations[s]
          BY <3>1, <3>2
        <4>2. CASE n = Len(explanations[s]) + 1
          BY <1>3, <2>2, <3>1, <3>2, <4>2
        <4>3. CASE n \in DOMAIN explanations[s]
          <5>1. explanations'[s][n] = explanations[s][n]
            BY <3>1, <3>2, <4>3
          <5> QED
            BY <4>3, <5>1 DEF SoundInv
        <4> QED
          BY <4>1, <4>2, <4>3
      <3> QED
        BY <3>1, <3>3, <3>4
    <2>3. CASE s # subject
      <3>1. explanations'[s] = explanations[s]
        BY <1>2, <2>3 DEF SoundInv
      <3> QED
        BY <2>1, <3>1 DEF SoundInv
    <2> QED
      BY <2>2, <2>3
  <1> QED
    BY <1>4, <1>5, <1>6 DEF SoundInv

LEMMA AbandonSound ==
    ASSUME SoundInv, NEW v \in Viewers, Abandon(v)
    PROVE  SoundInv'
  <1>1. asking' = [asking EXCEPT ![v] = NotAsking] /\ explanations' = explanations
    BY DEF Abandon
  <1>2. \A u \in Viewers : asking'[u] = IF u = v THEN NotAsking ELSE asking[u]
    BY <1>1 DEF SoundInv
  <1>3. asking' = [u \in Viewers |-> asking'[u]]
    BY <1>1 DEF SoundInv
  <1>4. \A u \in Viewers :
           asking'[u] # NotAsking => asking'[u].template \subseteq LabelOf(asking'[u].subject)
    BY <1>2 DEF SoundInv
  <1> QED
    BY <1>1, <1>3, <1>4 DEF SoundInv

\* What is shown was verified: the model's text is stored only when each of its numbers
\* is in its bundle, and the template, which is stored unchecked, states nothing that is
\* not in its own, whatever has been scored under whichever model, but for a name that
\* reads as a number.
THEOREM ShownIsVerified == Spec => []FlaggedOnlyByName
  <1>1. ExplainInit => SoundInv
    BY SoundInit
  <1>2. SoundInv /\ [Next]_vars => SoundInv'
    <2>1. SUFFICES ASSUME SoundInv, [Next]_vars PROVE SoundInv'
      OBVIOUS
    <2>2. CASE \E v \in Viewers, s \in Subjects, works \in BOOLEAN : Ask(v, s, works)
      BY <2>1, <2>2, AskSound
    <2>3. CASE \E v \in Viewers : Store(v)
      BY <2>1, <2>3, StoreSound
    <2>4. CASE \E v \in Viewers : Abandon(v)
      BY <2>1, <2>4, AbandonSound
    <2>5. CASE UNCHANGED explainVars
      BY <2>1, <2>5 DEF SoundInv, explainVars
    <2> QED
      BY <2>1, <2>2, <2>3, <2>4, <2>5 DEF Next, vars, explainVars
  <1>3. SoundInv => FlaggedOnlyByName
    BY DEF SoundInv, FlaggedOnlyByName, Sound
  <1> QED
    BY <1>1, <1>2, <1>3, PTL DEF Spec
=============================================================================
