----------------------------- MODULE LiveProofs -----------------------------
(***************************************************************************)
(* Theorems about LiveReplies, for every set of losses and requests and    *)
(* every value of the limits.                                              *)
(***************************************************************************)
EXTENDS LiveReplies, SequenceTheorems, FiniteSetTheorems, TLAPS

-----------------------------------------------------------------------------
(* The inductive invariant.                                                *)

\* An attempt: decided in the past, sent after that and in the past, and without a
\* token when it is a call.
AttemptFits(a) ==
    /\ a.decidedAt <= clock
    /\ a.stage = "SENT" => a.decidedAt <= a.at /\ a.at <= clock
    /\ a.channel = "VOICE" => a.token = 0

AttemptsFit ==
    \A l \in Losses : /\ Len(attempts[l]) <= MaxAttempts
                      /\ \A n \in DOMAIN attempts[l] : AttemptFits(attempts[l][n])

\* A loss no nudge went out for: planted, undecided, or ended by a refusal.
NoNudge(s) == s \in {"ABSENT", "OPEN", "SUPPRESSED"}

QuietLosses ==
    \A l \in Losses : NoNudge(status[l]) =>
        \A n \in DOMAIN attempts[l] : attempts[l][n].token = 0

\* The poller's place, the page and what it has seen fit; while a reply is in hand it
\* is the only one of the page that is marked as seen.
PollerFits ==
    /\ step \in {"ingest", "attribute"} => page # {} /\ page \cap seen \subseteq {InHand}
    /\ step = "replies" => page \cap seen = {}
    /\ step \in {"sweep", "nudges"} => page = {}
    /\ step = "ingest" => InHand \in seen

\* A payment names the message it was made from.
RepliesKnown == \A p \in payments : p.reply \in DOMAIN inbox

\* The nudge of loss l that token names was sent by time t.
Answered(l, token, t) ==
    \E n \in DOMAIN attempts[l] :
        LET a == attempts[l][n] IN
        a.token = token /\ a.stage = "SENT" /\ a.at <= t /\ a.decidedAt <= a.at

TargetSent ==
    step = "ingest" =>
        /\ target.loss \in Losses /\ target.token \in 1..MaxAttempts
        /\ Answered(target.loss, target.token, inbox[InHand].at)

\* The payments one reply was turned into, and whether one more is on its way.
Paid(m) == {p \in payments : p.reply = m}
OnItsWay(m) == IF step = "ingest" /\ InHand = m THEN 1 ELSE 0

PaidOnce ==
    \A m \in Nat :
        /\ IsFiniteSet(Paid(m))
        /\ Cardinality(Paid(m)) + OnItsWay(m) <= restarts + (IF m \in seen THEN 1 ELSE 0)

\* What an outcome of RECOVERED credits carries a token of a payment.
CreditsPaid ==
    \A l \in Losses : outcome[l] = "RECOVERED" =>
        /\ credited[l] \in DOMAIN attempts[l]
        /\ \E p \in payments : p.loss = l /\ p.token = attempts[l][credited[l]].token

\* What a YES could be meant for: a loss with a nudge sent by then, whose outcome is
\* the one it had unless it had none, and which is unresolved until that changes.
AnswerableFits ==
    \A m \in DOMAIN inbox : \A l \in DOMAIN inbox[m].answerable :
        /\ \E n \in DOMAIN attempts[l] :
              /\ attempts[l][n].token # 0 /\ attempts[l][n].stage = "SENT"
              /\ attempts[l][n].at <= inbox[m].at
        /\ inbox[m].answerable[l] \in {NoOutcome, outcome[l]}
        /\ inbox[m].answerable[l] = outcome[l] => status[l] \in Unresolved

\* The reply in hand after its payment is in.
InHandPaid == step = "attribute" => \E p \in payments : p.reply = InHand

LiveInv ==
    /\ TypeOK /\ AttemptsFit /\ QuietLosses /\ PollerFits /\ RepliesKnown /\ TargetSent
    /\ PaidOnce /\ CreditsPaid /\ AnswerableFits /\ InHandPaid /\ AnswersWhatWasSent /\ HeardYesCounts

-----------------------------------------------------------------------------
(* The constants, the newest of some numbers, and the reply in hand.       *)

LEMMA ConstantTypes ==
    /\ Window \in Nat /\ MaxTries \in Nat /\ PageSize \in Nat /\ MaxAttempts \in Nat
    /\ MaxReplies \in Nat /\ MaxFaults \in Nat /\ MaxTime \in Nat /\ MaxTime > 0
    /\ NoLoss \notin Losses
  BY LiveConstantsOK

\* Latest returns the greatest of some numbers, when there are any.
LEMMA LatestIs ==
    ASSUME NEW N \in Nat, NEW T \in SUBSET (1..N), T # {}
    PROVE  Latest(T) \in T /\ \A m \in T : m <= Latest(T)
  <1> DEFINE D == {N - t : t \in T}
             R == OpToRel(<, Nat)
  <1>1. D \subseteq Nat /\ D # {}
    <2>1. PICK t : t \in T
      OBVIOUS
    <2>2. N - t \in D /\ \A u \in T : N - u \in Nat
      BY <2>1
    <2> QED
      BY <2>2
  <1>2. \E x \in D : \A y \in D : <<y, x>> \notin R
    <2> HIDE DEF D, R
    <2>1. IsWellFoundedOn(R, Nat)
      BY NatLessThanWellFounded DEF R
    <2> QED
      BY <1>1, <2>1, WFMin
  <1>3. PICK x \in D : \A y \in D : <<y, x>> \notin R
    BY <1>2
  <1>4. \A y \in D : ~(y < x)
    BY <1>1, <1>3 DEF OpToRel
  <1>5. PICK n \in T : x = N - n
    OBVIOUS
  <1>6. ASSUME NEW m \in T PROVE m <= n
    <2>1. N - m \in D /\ n \in 1..N /\ m \in 1..N
      OBVIOUS
    <2>2. ~(N - m < N - n)
      BY <1>4, <1>5, <2>1
    <2> QED
      BY <2>1, <2>2
  <1> QED
    BY <1>6 DEF Latest

\* The inbox is a sequence of messages, numbered from 1.
LEMMA InboxIs ==
    ASSUME TypeOK
    PROVE  /\ inbox \in Seq(Message) /\ Len(inbox) \in Nat
           /\ DOMAIN inbox = 1..Len(inbox) /\ DOMAIN inbox \subseteq Nat
           /\ \A m \in DOMAIN inbox : inbox[m] \in Message
  <1>1. inbox \in Seq(Message)
    BY DEF TypeOK
  <1>2. Len(inbox) \in Nat /\ DOMAIN inbox = 1..Len(inbox)
    BY <1>1, LenProperties
  <1> QED
    BY <1>1, <1>2, ElementOfSeq

\* The reply in hand is one of the page, and of the inbox.
LEMMA InHandIs ==
    ASSUME TypeOK, page # {}
    PROVE  /\ InHand \in page /\ InHand \in DOMAIN inbox /\ InHand \in Nat
           /\ inbox[InHand] \in Message
  <1>1. Len(inbox) \in Nat /\ page \in SUBSET (1..Len(inbox)) /\ DOMAIN inbox = 1..Len(inbox)
    BY InboxIs DEF TypeOK
  <1>2. InHand \in page
    BY <1>1, LatestIs DEF InHand
  <1> QED
    BY <1>1, <1>2, InboxIs

\* The attempts of a loss are a sequence, numbered from 1.
LEMMA AttemptsAre ==
    ASSUME TypeOK, NEW l \in Losses
    PROVE  /\ attempts[l] \in Seq(Attempt) /\ Len(attempts[l]) \in Nat
           /\ DOMAIN attempts[l] = 1..Len(attempts[l])
           /\ \A n \in DOMAIN attempts[l] : attempts[l][n] \in Attempt
  <1>1. attempts[l] \in Seq(Attempt)
    BY DEF TypeOK
  <1>2. Len(attempts[l]) \in Nat /\ DOMAIN attempts[l] = 1..Len(attempts[l])
    BY <1>1, LenProperties
  <1> QED
    BY <1>1, <1>2, ElementOfSeq

-----------------------------------------------------------------------------
(* How the attempts of a loss grow.                                        *)

\* What may become of an attempt: sent, at a time since its decision, or dropped.
Kept(a, b) ==
    /\ b.channel = a.channel /\ b.token = a.token /\ b.decidedAt = a.decidedAt
    /\ a.stage = "SENT" => b = a
    /\ b.stage = "SENT" => b = a \/ (a.decidedAt <= b.at /\ b.at <= clock)

Fresh(a) ==
    /\ a.decidedAt = clock /\ a.stage # "SENT"
    /\ a.channel = "VOICE" => a.token = 0

\* s is what the attempts of l may have become: each kept, and new ones at the end.
Grows(l, s) ==
    /\ s \in Seq(Attempt) /\ Len(s) <= MaxAttempts /\ Len(attempts[l]) <= Len(s)
    /\ \A n \in 1..Len(attempts[l]) : Kept(attempts[l][n], s[n])
    /\ \A n \in (Len(attempts[l]) + 1)..Len(s) : Fresh(s[n])

\* A leg of a decision is a fresh attempt, and a call gets no token.
LEMMA LegIsFresh ==
    ASSUME TypeOK, NEW channel \in {"VOICE", "WHATSAPP"}, NEW allowed, NEW nudge,
           NEW first \in 1..MaxAttempts, channel = "VOICE" => ~nudge
    PROVE  /\ Leg(channel, allowed, nudge, first) \in Attempt
           /\ Fresh(Leg(channel, allowed, nudge, first))
           /\ ~allowed => Leg(channel, allowed, nudge, first).token = 0
           /\ Leg(channel, allowed, nudge, first).channel = channel
           /\ ~nudge => Leg(channel, allowed, nudge, first).token = 0
  <1>1. clock \in Nat /\ 0 \in 0..MaxAttempts /\ first \in 0..MaxAttempts
    BY ConstantTypes DEF TypeOK
  <1> QED
    BY <1>1 DEF Leg, Attempt, Fresh, Never

LEMMA GrowsNot ==
    ASSUME TypeOK, AttemptsFit, NEW l \in Losses
    PROVE  Grows(l, attempts[l])
  BY AttemptsAre DEF Grows, Kept, AttemptsFit

\* One more attempt.
LEMMA GrowsByOne ==
    ASSUME TypeOK, AttemptsFit, NEW l \in Losses, NEW a \in Attempt, Fresh(a), HasRoom(l, 1)
    PROVE  /\ Grows(l, Append(attempts[l], a))
           /\ Len(Append(attempts[l], a)) = Len(attempts[l]) + 1
           /\ Append(attempts[l], a)[Len(attempts[l]) + 1] = a
  <1> DEFINE s == Append(attempts[l], a)
  <1>1. /\ attempts[l] \in Seq(Attempt) /\ Len(attempts[l]) \in Nat
        /\ DOMAIN attempts[l] = 1..Len(attempts[l])
    BY AttemptsAre
  <1>2. /\ s \in Seq(Attempt) /\ Len(s) = Len(attempts[l]) + 1
        /\ \A n \in 1..Len(attempts[l]) : s[n] = attempts[l][n]
        /\ s[Len(attempts[l]) + 1] = a
    BY <1>1
  <1> HIDE DEF s
  <1>3. Len(s) <= MaxAttempts
    BY <1>1, <1>2 DEF HasRoom
  <1>4. \A n \in (Len(attempts[l]) + 1)..Len(s) : n = Len(attempts[l]) + 1
    BY <1>1, <1>2
  <1>5. Grows(l, s)
    BY <1>1, <1>2, <1>3, <1>4 DEF Grows, Kept
  <1> QED
    BY <1>2, <1>5 DEF s

\* A fan-out: the call, then the message.
LEMMA GrowsByFan ==
    ASSUME TypeOK, AttemptsFit, NEW l \in Losses, NEW call \in BOOLEAN,
           NEW message \in BOOLEAN, HasRoom(l, 2)
    PROVE  /\ Grows(l, attempts[l] \o FanOut(l, call, message))
           /\ ~message => \A n \in (Len(attempts[l]) + 1)..
                                     Len(attempts[l] \o FanOut(l, call, message)) :
                 (attempts[l] \o FanOut(l, call, message))[n].token = 0
  <1> DEFINE k == Len(attempts[l])
             a == Leg("VOICE", call, FALSE, k + 1)
             b == Leg("WHATSAPP", message, TRUE, k + 1)
             s == attempts[l] \o FanOut(l, call, message)
  <1>1. /\ attempts[l] \in Seq(Attempt) /\ k \in Nat /\ DOMAIN attempts[l] = 1..k
    BY AttemptsAre
  <1>2. k + 1 \in 1..MaxAttempts /\ k + 2 <= MaxAttempts
    BY <1>1, ConstantTypes DEF HasRoom
  <1>3. /\ a \in Attempt /\ Fresh(a) /\ b \in Attempt /\ Fresh(b)
        /\ a.token = 0
        /\ ~message => b.token = 0
    BY <1>2, LegIsFresh
  <1>4. s = attempts[l] \o <<a, b>>
    BY DEF FanOut
  <1> HIDE DEF a, b, s
  <1>5. /\ <<a, b>> \in Seq(Attempt) /\ Len(<<a, b>>) = 2
        /\ <<a, b>>[1] = a /\ <<a, b>>[2] = b
    BY <1>3
  <1>6. /\ s \in Seq(Attempt) /\ Len(s) = k + 2
        /\ \A i \in 1..(k + 2) : s[i] = IF i <= k THEN attempts[l][i] ELSE <<a, b>>[i - k]
    BY <1>1, <1>4, <1>5, ConcatProperties
  <1>7. \A n \in (k + 1)..Len(s) : s[n] = a \/ s[n] = b
    <2> SUFFICES ASSUME NEW n \in (k + 1)..(k + 2) PROVE s[n] = a \/ s[n] = b
      BY <1>6
    <2>1. n \in 1..(k + 2) /\ ~(n <= k) /\ (n - k = 1 \/ n - k = 2)
      BY <1>1
    <2> QED
      BY <1>5, <1>6, <2>1
  <1>8. \A n \in 1..k : s[n] = attempts[l][n]
    BY <1>1, <1>6
  <1>9. \A n \in (k + 1)..Len(s) : Fresh(s[n])
    BY <1>3, <1>7
  <1>10. \A n \in 1..k : Kept(attempts[l][n], s[n])
    BY <1>8 DEF Kept
  <1>11. Grows(l, s)
    BY <1>1, <1>2, <1>6, <1>9, <1>10 DEF Grows
  <1> QED
    BY <1>3, <1>7, <1>11 DEF s

\* A dispatch moves one attempt on.
LEMMA GrowsByDispatch ==
    ASSUME TypeOK, AttemptsFit, NEW l \in Losses, NEW n \in DOMAIN attempts[l],
           NEW a \in Attempt, Kept(attempts[l][n], a), SetAttempt(l, n, a)
    PROVE  /\ attempts' \in [Losses -> Seq(Attempt)]
           /\ \A k \in Losses : Grows(k, attempts'[k])
           /\ \A k \in Losses \ {l} : attempts'[k] = attempts[k]
           /\ Len(attempts'[l]) = Len(attempts[l])
  <1> DEFINE s == [attempts[l] EXCEPT ![n] = a]
  <1>1. /\ attempts[l] \in Seq(Attempt) /\ Len(attempts[l]) \in Nat
        /\ DOMAIN attempts[l] = 1..Len(attempts[l])
        /\ Len(attempts[l]) <= MaxAttempts
    BY AttemptsAre DEF AttemptsFit
  <1>2. /\ s \in Seq(Attempt) /\ Len(s) = Len(attempts[l])
        /\ \A j \in 1..Len(attempts[l]) : s[j] = IF j = n THEN a ELSE attempts[l][j]
    BY <1>1, ExceptSeq
  <1>3. attempts' = [attempts EXCEPT ![l] = s]
    BY DEF SetAttempt
  <1> HIDE DEF s
  <1>4. Grows(l, s)
    BY <1>1, <1>2 DEF Grows, Kept
  <1>5. /\ attempts' \in [Losses -> Seq(Attempt)] /\ attempts'[l] = s
        /\ \A k \in Losses \ {l} : attempts'[k] = attempts[k]
    BY <1>2, <1>3 DEF TypeOK
  <1> QED
    BY <1>2, <1>4, <1>5, GrowsNot

-----------------------------------------------------------------------------
(* What a step does to a loss.                                             *)

Stays(l) ==
    status'[l] = status[l] /\ outcome'[l] = outcome[l] /\ credited'[l] = credited[l]

\* Taken up by a decision, or ended before any nudge went out.
Moves(l) ==
    /\ outcome'[l] = outcome[l] /\ credited'[l] = credited[l]
    /\ status'[l] = "IN_RECOVERY" \/ (NoNudge(status[l]) /\ NoNudge(status'[l]))

\* Closed with an outcome, where there was none.
Closes(l) ==
    /\ Undecided(l) /\ outcome'[l] \in Outcomes /\ attempts'[l] = attempts[l]
    /\ status'[l] \in {"RECOVERED", "EXPIRED", "LOST"}
    /\ IF outcome'[l] = "RECOVERED" THEN credited'[l] \in Redeemed(l)
                                    ELSE credited'[l] = credited[l]

\* No token goes to a loss that stays without a nudge.
NewQuiet(l) ==
    NoNudge(status'[l]) =>
        \A n \in (Len(attempts[l]) + 1)..Len(attempts'[l]) : attempts'[l][n].token = 0

LossMoves(l) == Grows(l, attempts'[l]) /\ NewQuiet(l) /\ (Stays(l) \/ Moves(l) \/ Closes(l))

LossesTyped ==
    /\ status \in [Losses -> {"ABSENT"} \cup Unresolved \cup Closed]
    /\ outcome \in [Losses -> Outcomes \cup {NoOutcome}]
    /\ credited \in [Losses -> 0..MaxAttempts]
    /\ attempts \in [Losses -> Seq(Attempt)]

LossesMove == LossesTyped' /\ \A l \in Losses : LossMoves(l)

\* Where the attempts are left alone there is nothing new.
LEMMA SameMoves ==
    ASSUME TypeOK, AttemptsFit, NEW l \in Losses, attempts'[l] = attempts[l],
           Stays(l) \/ Moves(l) \/ Closes(l)
    PROVE  LossMoves(l)
  <1>1. Grows(l, attempts'[l])
    BY GrowsNot
  <1>2. NewQuiet(l)
    BY AttemptsAre DEF NewQuiet
  <1> QED
    BY <1>1, <1>2 DEF LossMoves

\* launch_recovery decides the losses that are not tagged.
LEMMA LaunchRecoveryMoves ==
    ASSUME TypeOK, AttemptsFit, NEW s \in Sessions, LaunchRecovery(s)
    PROVE  LossesMove
  <1> DEFINE batch == {l \in Losses \ tagged : status[l] = "OPEN"}
             leg(l, x) == Leg("WHATSAPP", x = "IN_RECOVERY", TRUE, Len(attempts[l]) + 1)
  <1>1. PICK answer \in [batch -> {"IN_RECOVERY", "OPEN", "SUPPRESSED"}] :
          /\ status' = [l \in Losses |-> IF l \in batch THEN answer[l] ELSE status[l]]
          /\ attempts' = [l \in Losses |->
                IF l \in batch THEN Append(attempts[l], leg(l, answer[l]))
                               ELSE attempts[l]]
    BY DEF LaunchRecovery
  <1>2. /\ \A l \in batch : HasRoom(l, 1) /\ l \in Losses /\ status[l] = "OPEN"
        /\ outcome' = outcome /\ credited' = credited
    BY DEF LaunchRecovery
  <1> HIDE DEF batch
  <1>3. ASSUME NEW l \in batch
        PROVE  /\ LossMoves(l) /\ attempts'[l] \in Seq(Attempt)
               /\ answer[l] \in {"IN_RECOVERY", "OPEN", "SUPPRESSED"}
    <2> DEFINE a == leg(l, answer[l])
    <2>1. l \in Losses /\ HasRoom(l, 1) /\ status[l] = "OPEN"
      BY <1>2
    <2>2. Len(attempts[l]) \in Nat /\ Len(attempts[l]) + 1 \in 1..MaxAttempts
      BY <2>1, AttemptsAre, ConstantTypes DEF HasRoom
    <2>3. /\ a \in Attempt /\ Fresh(a)
          /\ answer[l] # "IN_RECOVERY" => a.token = 0
      <3>1. a \in Attempt /\ Fresh(a)
        BY <2>2, LegIsFresh
      <3>2. answer[l] # "IN_RECOVERY" => a.token = 0
        BY DEF Leg
      <3> QED
        BY <3>1, <3>2
    <2>4. attempts'[l] = Append(attempts[l], a) /\ status'[l] = answer[l]
      BY <1>1, <2>1
    <2> HIDE DEF a
    <2>5. /\ Grows(l, attempts'[l]) /\ Len(attempts'[l]) = Len(attempts[l]) + 1
          /\ attempts'[l][Len(attempts[l]) + 1] = a
      BY <2>1, <2>3, <2>4, GrowsByOne
    <2>6. answer[l] \in {"IN_RECOVERY", "OPEN", "SUPPRESSED"}
      BY <1>1
    <2>7. NewQuiet(l)
      BY <2>2, <2>3, <2>4, <2>5 DEF NewQuiet, NoNudge
    <2>8. Moves(l)
      BY <1>2, <2>1, <2>4, <2>6 DEF Moves, NoNudge
    <2> QED
      BY <2>5, <2>6, <2>7, <2>8 DEF LossMoves, Grows
  <1>4. ASSUME NEW l \in Losses \ batch PROVE LossMoves(l) /\ attempts'[l] \in Seq(Attempt)
    <2>1. attempts'[l] = attempts[l] /\ Stays(l)
      BY <1>1, <1>2, <1>4 DEF Stays
    <2> QED
      BY <2>1, SameMoves, AttemptsAre
  <1>5. LossesTyped'
    <2>1. status' \in [Losses -> {"ABSENT"} \cup Unresolved \cup Closed]
      BY <1>1, <1>3 DEF TypeOK, Unresolved, Closed
    <2>2. attempts' \in [Losses -> Seq(Attempt)]
      <3>1. \A l \in Losses : attempts'[l] \in Seq(Attempt)
        BY <1>3, <1>4
      <3> QED
        BY <1>1, <3>1
    <2> QED
      BY <1>2, <2>1, <2>2 DEF LossesTyped, TypeOK
  <1> QED
    BY <1>3, <1>4, <1>5 DEF LossesMove

\* launch() adds both legs, and takes the loss up when one of them may go out.
LEMMA LaunchMoves ==
    ASSUME TypeOK, AttemptsFit, NEW s \in Sessions, NEW l \in Losses, Launch(s, l)
    PROVE  LossesMove
  <1>1. outcome' = outcome /\ credited' = credited
    BY DEF Launch
  <1>2. CASE UNCHANGED <<status, attempts>>
    BY <1>1, <1>2, SameMoves DEF LossesMove, LossesTyped, Stays, TypeOK
  <1>3. ASSUME NEW call \in BOOLEAN, NEW message \in BOOLEAN, HasRoom(l, 2),
               attempts' = [attempts EXCEPT ![l] = @ \o FanOut(l, call, message)],
               status' = IF call \/ message
                         THEN [status EXCEPT ![l] = "IN_RECOVERY"] ELSE status
        PROVE  LossesMove
    <2> DEFINE t == attempts[l] \o FanOut(l, call, message)
    <2>1. /\ Grows(l, t)
          /\ ~message => \A n \in (Len(attempts[l]) + 1)..Len(t) : t[n].token = 0
      BY <1>3, GrowsByFan
    <2>2. attempts' = [attempts EXCEPT ![l] = t]
      BY <1>3
    <2> HIDE DEF t
    <2>3. t \in Seq(Attempt)
      BY <2>1 DEF Grows
    <2>4. LossesTyped'
      BY <1>1, <1>3, <2>2, <2>3 DEF LossesTyped, TypeOK, Unresolved
    <2>5. ASSUME NEW k \in Losses \ {l} PROVE LossMoves(k)
      <3>1. attempts'[k] = attempts[k] /\ Stays(k)
        BY <1>1, <1>3, <2>2 DEF Stays, TypeOK
      <3> QED
        BY <3>1, SameMoves
    <2>6. LossMoves(l)
      <3>1. attempts'[l] = t
        BY <2>2 DEF TypeOK
      <3>2. NewQuiet(l)
        BY <1>3, <2>1, <3>1 DEF NewQuiet, NoNudge, TypeOK
      <3>3. Stays(l) \/ Moves(l)
        BY <1>1, <1>3 DEF Stays, Moves, TypeOK
      <3> QED
        BY <2>1, <3>1, <3>2, <3>3 DEF LossMoves
    <2> QED
      BY <2>4, <2>5, <2>6 DEF LossesMove
  <1> QED
    BY <1>2, <1>3 DEF Launch

\* The queue moves one attempt on; what it commits as sent lies between the decision
\* and now.
LEMMA DispatchMoves ==
    ASSUME TypeOK, AttemptsFit, NEW l \in Losses, Dispatch(l)
    PROVE  LossesMove
  <1>1. PICK n \in DOMAIN attempts[l] :
           MessageTaken(l, n) \/ CommitSend(l, n) \/ DropSend(l, n)
    BY DEF Dispatch
  <1>2. /\ attempts[l][n] \in Attempt /\ UNCHANGED <<status, outcome, credited>>
        /\ AttemptFits(attempts[l][n])
    BY AttemptsAre DEF Dispatch, AttemptsFit
  <1>3. PICK a \in Attempt : Kept(attempts[l][n], a) /\ SetAttempt(l, n, a)
    <2>1. CASE MessageTaken(l, n)
      <3> DEFINE a == [attempts[l][n] EXCEPT !.stage = "TAKEN"]
      <3>1. a \in Attempt /\ Kept(attempts[l][n], a)
        BY <1>2, <2>1 DEF MessageTaken, Attempt, Kept
      <3> QED
        BY <2>1, <3>1 DEF MessageTaken
    <2>2. CASE CommitSend(l, n)
      <3>1. PICK now \in attempts[l][n].decidedAt..clock :
               SetAttempt(l, n, [attempts[l][n] EXCEPT !.stage = "SENT", !.at = now])
        BY <2>2 DEF CommitSend
      <3>2. /\ attempts[l][n].decidedAt \in Nat /\ clock \in Nat /\ now \in Nat
            /\ attempts[l][n].decidedAt <= now /\ now <= clock
        BY <1>2 DEF Attempt, TypeOK
      <3> DEFINE a == [attempts[l][n] EXCEPT !.stage = "SENT", !.at = now]
      <3>3. a \in Attempt
        BY <1>2, <3>2 DEF Attempt
      <3>4. /\ a.channel = attempts[l][n].channel /\ a.token = attempts[l][n].token
            /\ a.decidedAt = attempts[l][n].decidedAt /\ a.at = now
        BY <1>2 DEF Attempt
      <3>5. Kept(attempts[l][n], a)
        BY <2>2, <3>2, <3>4 DEF CommitSend, Kept
      <3> QED
        BY <3>1, <3>3, <3>5
    <2>3. CASE DropSend(l, n)
      <3> DEFINE a == [attempts[l][n] EXCEPT !.stage = "DROPPED"]
      <3>1. a \in Attempt /\ Kept(attempts[l][n], a)
        BY <1>2, <2>3 DEF DropSend, Attempt, Kept
      <3> QED
        BY <2>3, <3>1 DEF DropSend
    <2> QED
      BY <1>1, <2>1, <2>2, <2>3
  <1>4. /\ attempts' \in [Losses -> Seq(Attempt)]
        /\ \A k \in Losses : Grows(k, attempts'[k])
        /\ \A k \in Losses \ {l} : attempts'[k] = attempts[k]
        /\ Len(attempts'[l]) = Len(attempts[l])
    BY <1>3, GrowsByDispatch
  <1>5. LossesTyped'
    BY <1>2, <1>4 DEF LossesTyped, TypeOK
  <1>6. \A k \in Losses : Len(attempts'[k]) = Len(attempts[k]) /\ Len(attempts[k]) \in Nat
    BY <1>4, AttemptsAre
  <1>7. \A k \in Losses : NewQuiet(k) /\ Stays(k)
    BY <1>2, <1>6 DEF NewQuiet, Stays
  <1> QED
    BY <1>4, <1>5, <1>7 DEF LossesMove, LossMoves

\* Attribution closes what is undecided; a recovery names a redeemed attempt.
LEMMA AttributionMoves ==
    ASSUME TypeOK, AttemptsFit, NEW now, Attribution(now)
    PROVE  LossesMove
  <1> DEFINE won == {l \in Losses : Undecided(l) /\ Redeemed(l) # {}}
             over == {l \in Losses \ won : /\ Undecided(l) /\ attempts[l] # <<>>
                                           /\ Expired(l, now)}
  <1>1. /\ status' = [l \in Losses |-> IF l \in won THEN "RECOVERED"
                                       ELSE IF l \in over THEN "EXPIRED" ELSE status[l]]
        /\ outcome' = [l \in Losses |-> IF l \in won THEN "RECOVERED"
                                        ELSE IF l \in over THEN "EXPIRED" ELSE outcome[l]]
        /\ credited' = [l \in Losses |-> IF l \in won THEN Latest(Redeemed(l))
                                         ELSE credited[l]]
        /\ attempts' = attempts
    BY DEF Attribution
  <1>2. \A l \in won : l \in Losses /\ Undecided(l) /\ Redeemed(l) # {}
    OBVIOUS
  <1>3. \A l \in over : l \in Losses /\ l \notin won /\ Undecided(l)
    OBVIOUS
  <1> HIDE DEF won, over
  <1>4. ASSUME NEW l \in won
        PROVE  Latest(Redeemed(l)) \in Redeemed(l) /\ Latest(Redeemed(l)) \in 1..MaxAttempts
    <2>1. /\ Len(attempts[l]) \in Nat /\ Redeemed(l) \in SUBSET (1..Len(attempts[l]))
          /\ Len(attempts[l]) <= MaxAttempts
      BY <1>2, AttemptsAre DEF Redeemed, AttemptsFit
    <2>2. Latest(Redeemed(l)) \in Redeemed(l)
      BY <1>2, <2>1, LatestIs
    <2> QED
      BY <2>1, <2>2, ConstantTypes
  <1>5. LossesTyped'
    BY <1>1, <1>4, ConstantTypes DEF LossesTyped, TypeOK, Outcomes, Closed
  <1>6. ASSUME NEW l \in Losses PROVE LossMoves(l)
    <2>1. CASE l \in won
      <3>1. Closes(l)
        BY <1>1, <1>2, <1>4, <2>1 DEF Closes, Outcomes
      <3> QED
        BY <1>1, <3>1, SameMoves
    <2>2. CASE l \in over
      <3>1. Closes(l)
        BY <1>1, <1>3, <2>2 DEF Closes, Outcomes
      <3> QED
        BY <1>1, <3>1, SameMoves
    <2>3. CASE l \notin won /\ l \notin over
      <3>1. Stays(l)
        BY <1>1, <2>3 DEF Stays
      <3> QED
        BY <1>1, <3>1, SameMoves
    <2> QED
      BY <2>1, <2>2, <2>3
  <1> QED
    BY <1>5, <1>6 DEF LossesMove

\* The cadence retries or gives up a loss that had a nudge.
LEMMA NudgesMove ==
    ASSUME TypeOK, AttemptsFit, QuietLosses, Nudges
    PROVE  LossesMove
  <1> DEFINE due == {l \in Losses : /\ Undecided(l) /\ SentNudges(l) # {}
                                    /\ ExpiresAt(attempts[l][Latest(SentNudges(l))]) < clock}
             last == {l \in due : Cardinality(SentNudges(l)) >= MaxTries}
             leg(l, x) == Leg("WHATSAPP", x, TRUE, Len(attempts[l]) + 1)
  <1>1. PICK allowed \in SUBSET (due \ last) :
          /\ status' = [l \in Losses |-> IF l \in last THEN "LOST" ELSE status[l]]
          /\ outcome' = [l \in Losses |-> IF l \in last THEN "NOT_RECOVERED" ELSE outcome[l]]
          /\ attempts' = [l \in Losses |->
                IF l \in due \ last THEN Append(attempts[l], leg(l, l \in allowed))
                                    ELSE attempts[l]]
    BY DEF Nudges
  <1>2. credited' = credited /\ \A l \in due \ last : HasRoom(l, 1)
    BY DEF Nudges
  <1>3. last \subseteq due /\ \A l \in due : l \in Losses /\ Undecided(l) /\ SentNudges(l) # {}
    OBVIOUS
  <1> HIDE DEF due, last
  <1>4. ASSUME NEW l \in due PROVE ~NoNudge(status[l])
    BY <1>3 DEF SentNudges, QuietLosses
  <1>5. ASSUME NEW l \in due \ last PROVE LossMoves(l) /\ attempts'[l] \in Seq(Attempt)
    <2> DEFINE a == leg(l, l \in allowed)
    <2>1. l \in Losses /\ HasRoom(l, 1) /\ ~NoNudge(status[l])
      BY <1>2, <1>3, <1>4
    <2>2. Len(attempts[l]) + 1 \in 1..MaxAttempts
      BY <2>1, AttemptsAre, ConstantTypes DEF HasRoom
    <2>3. a \in Attempt /\ Fresh(a)
      BY <2>2, LegIsFresh
    <2>4. attempts'[l] = Append(attempts[l], a)
      BY <1>1, <2>1
    <2> HIDE DEF a
    <2>5. Grows(l, attempts'[l])
      BY <2>1, <2>3, <2>4, GrowsByOne
    <2>6. Stays(l)
      BY <1>1, <1>2, <2>1 DEF Stays
    <2>7. NewQuiet(l)
      BY <2>1, <2>6 DEF NewQuiet, Stays
    <2> QED
      BY <2>5, <2>6, <2>7 DEF LossMoves, Grows
  <1>6. ASSUME NEW l \in Losses \ (due \ last)
        PROVE  LossMoves(l) /\ attempts'[l] \in Seq(Attempt)
    <2>1. attempts'[l] = attempts[l]
      BY <1>1
    <2>2. CASE l \in last
      <3>1. Closes(l)
        BY <1>1, <1>2, <1>3, <2>1, <2>2 DEF Closes, Outcomes
      <3> QED
        BY <2>1, <3>1, SameMoves, AttemptsAre
    <2>3. CASE l \notin last
      <3>1. Stays(l)
        BY <1>1, <1>2, <2>3 DEF Stays
      <3> QED
        BY <2>1, <3>1, SameMoves, AttemptsAre
    <2> QED
      BY <2>2, <2>3
  <1>7. LossesTyped'
    <2>1. \A l \in Losses : attempts'[l] \in Seq(Attempt)
      BY <1>5, <1>6
    <2>2. attempts' \in [Losses -> Seq(Attempt)]
      BY <1>1, <2>1
    <2> QED
      BY <1>1, <1>2, <2>2 DEF LossesTyped, TypeOK, Outcomes, Closed
  <1> QED
    BY <1>5, <1>6, <1>7 DEF LossesMove

\* Every step moves every loss in one of these ways.
LEMMA LossStep ==
    ASSUME TypeOK, AttemptsFit, QuietLosses, [Next]_vars
    PROVE  LossesMove
  <1>1. ASSUME UNCHANGED <<status, outcome, credited, attempts>> PROVE LossesMove
    <2>1. \A l \in Losses : LossMoves(l)
      BY <1>1, SameMoves DEF Stays
    <2> QED
      BY <1>1, <2>1 DEF LossesMove, LossesTyped, TypeOK
  <1>2. ASSUME NEW l \in Losses, Plant(l) PROVE LossesMove
    <2>1. \A k \in Losses : LossMoves(k)
      <3>1. \A k \in Losses : Stays(k) \/ Moves(k)
        BY <1>2 DEF Plant, Stays, Moves, NoNudge, TypeOK
      <3> QED
        BY <1>2, <3>1, SameMoves DEF Plant
    <2> QED
      BY <1>2, <2>1 DEF Plant, LossesMove, LossesTyped, TypeOK, Unresolved
  <1>3. CASE Poll
    <2>1. CASE ListMessages \/ MatchReply \/ IngestReply \/ LoseReply
      BY <1>1, <2>1 DEF ListMessages, MatchReply, IngestReply, LoseReply, lossVars
    <2>2. CASE AttributeReply \/ SweepAttribution
      BY <1>1, <2>2, AttributionMoves DEF AttributeReply, SweepAttribution, lossVars
    <2>3. CASE SweepNudges
      BY <1>1, <2>3, NudgesMove DEF SweepNudges, lossVars
    <2> QED
      BY <1>3, <2>1, <2>2, <2>3 DEF Poll
  <1>4. ASSUME \/ \E l \in Losses : Stamp(l)
               \/ \E answer \in {"yes", "no"} : Reply(answer)
               \/ Restart \/ PageLoad \/ Tick \/ UNCHANGED vars
        PROVE  LossesMove
    BY <1>1, <1>4 DEF Stamp, Reply, Restart, PageLoad, Tick, vars, lossVars
  <1> QED
    BY <1>2, <1>3, <1>4, LaunchRecoveryMoves, LaunchMoves, DispatchMoves DEF Next

\* Attempts go on fitting, and losses without a nudge go on without one.
LEMMA LossInvStep ==
    ASSUME TypeOK, AttemptsFit, QuietLosses, LossesMove, clock' \in Nat, clock' >= clock
    PROVE  AttemptsFit' /\ QuietLosses'
  <1> DEFINE FitsNow(b) == /\ b.decidedAt <= clock'
                           /\ b.stage = "SENT" => b.decidedAt <= b.at /\ b.at <= clock'
                           /\ b.channel = "VOICE" => b.token = 0
  <1>1. ASSUME NEW l \in Losses
        PROVE  /\ Len(attempts'[l]) <= MaxAttempts
               /\ \A n \in DOMAIN attempts'[l] :
                     /\ FitsNow(attempts'[l][n])
                     /\ NoNudge(status'[l]) => attempts'[l][n].token = 0
    <2>1. /\ Grows(l, attempts'[l]) /\ NewQuiet(l)
          /\ NoNudge(status'[l]) => NoNudge(status[l])
      BY <1>1 DEF LossesMove, LossMoves, Stays, Moves, Closes, NoNudge
    <2>2. /\ Len(attempts[l]) \in Nat /\ DOMAIN attempts[l] = 1..Len(attempts[l])
          /\ \A n \in 1..Len(attempts[l]) : attempts[l][n] \in Attempt
      BY AttemptsAre
    <2>3. /\ attempts'[l] \in Seq(Attempt) /\ Len(attempts'[l]) \in Nat
          /\ DOMAIN attempts'[l] = 1..Len(attempts'[l])
          /\ \A n \in 1..Len(attempts'[l]) : attempts'[l][n] \in Attempt
      BY <2>1, LenProperties, ElementOfSeq DEF Grows
    <2>4. ASSUME NEW n \in 1..Len(attempts'[l])
          PROVE  /\ FitsNow(attempts'[l][n])
                 /\ NoNudge(status'[l]) => attempts'[l][n].token = 0
      <3> DEFINE b == attempts'[l][n]
      <3>0. b \in Attempt /\ b.decidedAt \in Nat /\ b.at \in Nat /\ clock \in Nat
        <4>1. b \in Attempt
          BY <2>3
        <4> HIDE DEF b
        <4> QED
          BY <4>1, ConstantTypes DEF Attempt, TypeOK
      <3>1. CASE n <= Len(attempts[l])
        <4>1. n \in 1..Len(attempts[l])
          BY <2>2, <3>1
        <4>2. /\ Kept(attempts[l][n], b) /\ AttemptFits(attempts[l][n])
              /\ attempts[l][n] \in Attempt
              /\ NoNudge(status[l]) => attempts[l][n].token = 0
          BY <2>1, <2>2, <4>1 DEF Grows, AttemptsFit, QuietLosses
        <4> HIDE DEF b
        <4>3. FitsNow(b)
          BY <3>0, <4>2 DEF Kept, AttemptFits, Attempt
        <4> QED
          BY <2>1, <4>2, <4>3 DEF Kept, b
      <3>2. CASE ~(n <= Len(attempts[l]))
        <4>1. n \in (Len(attempts[l]) + 1)..Len(attempts'[l])
          BY <2>2, <2>3, <3>2
        <4>2. /\ Fresh(b)
              /\ NoNudge(status'[l]) => b.token = 0
          BY <2>1, <4>1 DEF Grows, NewQuiet
        <4> HIDE DEF b
        <4>3. FitsNow(b)
          BY <3>0, <4>2 DEF Fresh, AttemptFits
        <4> QED
          BY <4>2, <4>3 DEF b
      <3> QED
        BY <3>1, <3>2
    <2> QED
      BY <2>1, <2>3, <2>4 DEF Grows
  <1> QED
    BY <1>1 DEF AttemptsFit, QuietLosses, AttemptFits

\* What was sent stays as it was sent.
LEMMA SentKept ==
    ASSUME TypeOK, LossesMove, NEW l \in Losses, NEW n \in DOMAIN attempts[l]
    PROVE  /\ n \in DOMAIN attempts'[l] /\ attempts'[l][n].token = attempts[l][n].token
           /\ attempts[l][n].stage = "SENT" => attempts'[l][n] = attempts[l][n]
  <1>1. Grows(l, attempts'[l])
    BY DEF LossesMove, LossMoves
  <1>2. Len(attempts[l]) \in Nat /\ n \in 1..Len(attempts[l])
    BY AttemptsAre
  <1>3. Len(attempts'[l]) \in Nat /\ DOMAIN attempts'[l] = 1..Len(attempts'[l])
    BY <1>1, LenProperties DEF Grows
  <1> QED
    BY <1>1, <1>2, <1>3 DEF Grows, Kept

LEMMA AnsweredKept ==
    ASSUME TypeOK, LossesMove, NEW l \in Losses, NEW token, NEW t, Answered(l, token, t)
    PROVE  Answered(l, token, t)'
  <1>1. PICK n \in DOMAIN attempts[l] :
           /\ attempts[l][n].token = token /\ attempts[l][n].stage = "SENT"
           /\ attempts[l][n].at <= t /\ attempts[l][n].decidedAt <= attempts[l][n].at
    BY DEF Answered
  <1>2. n \in DOMAIN attempts'[l] /\ attempts'[l][n] = attempts[l][n]
    BY <1>1, SentKept
  <1> QED
    BY <1>1, <1>2 DEF Answered

-----------------------------------------------------------------------------
(* What a step does to the poller and to the world.                        *)

WorldSame == UNCHANGED <<inbox, payments, seen, step, page, target, restarts, faults>>

\* Besides the customer, the poller and a restart nothing touches them.
LEMMA StepCases ==
    ASSUME [Next]_vars
    PROVE  \/ WorldSame
           \/ \E answer \in {"yes", "no"} : Reply(answer)
           \/ Poll \/ Restart
  <1> USE DEF worldVars, pollVars
  <1>1. ASSUME NEW l \in Losses, Plant(l) \/ Stamp(l) \/ Dispatch(l) PROVE WorldSame
    BY <1>1 DEF Plant, Stamp, Dispatch, WorldSame
  <1>2. ASSUME NEW s \in Sessions, LaunchRecovery(s) PROVE WorldSame
    BY <1>2 DEF LaunchRecovery, WorldSame
  <1>3. ASSUME NEW s \in Sessions, NEW l \in Losses, Launch(s, l) PROVE WorldSame
    BY <1>3 DEF Launch, WorldSame
  <1>4. ASSUME PageLoad \/ Tick \/ UNCHANGED vars PROVE WorldSame
    BY <1>4 DEF PageLoad, Tick, vars, WorldSame
  <1> QED
    BY <1>1, <1>2, <1>3, <1>4 DEF Next

\* While the page stays, so does the reply in hand.
LEMMA PageKept == page' = page => InHand' = InHand
  BY DEF InHand

\* A new message comes last, written now; what a YES could be meant for is on it.
LEMMA ReplyInbox ==
    ASSUME TypeOK, NEW answer \in {"yes", "no"}, Reply(answer)
    PROVE  LET k == Len(inbox) + 1 IN
           /\ inbox' \in Seq(Message) /\ DOMAIN inbox' = 1..k /\ k \in Nat
           /\ \A m \in DOMAIN inbox : m \in DOMAIN inbox' /\ inbox'[m] = inbox[m]
           /\ inbox'[k].at = clock
           /\ DOMAIN inbox'[k].answerable \subseteq InOpenNudges
           /\ \A l \in DOMAIN inbox'[k].answerable :
                 inbox'[k].answerable[l] = outcome[l]
           /\ \A m \in DOMAIN inbox' : m \in DOMAIN inbox \/ m = k
  <1> DEFINE open == IF answer = "yes" THEN InOpenNudges ELSE {}
             heard == [l \in open |-> outcome[l]]
             msg == [says |-> answer, at |-> clock, answerable |-> heard]
  <1>1. inbox \in Seq(Message) /\ Len(inbox) \in Nat /\ DOMAIN inbox = 1..Len(inbox)
    BY InboxIs
  <1>2. open \in SUBSET Losses /\ open \subseteq InOpenNudges
    BY DEF InOpenNudges
  <1>3. heard \in UNION {[S -> Outcomes \cup {NoOutcome}] : S \in SUBSET Losses}
    <2>1. heard \in [open -> Outcomes \cup {NoOutcome}]
      BY <1>2 DEF TypeOK
    <2> HIDE DEF heard, open
    <2> QED
      BY <1>2, <2>1
  <1>4. clock \in Nat
    BY ConstantTypes DEF TypeOK
  <1>5. inbox' = Append(inbox, msg)
    BY DEF Reply
  <1>6. DOMAIN heard = open /\ \A l \in open : heard[l] = outcome[l]
    OBVIOUS
  <1> HIDE DEF heard, open
  <1>7. /\ msg \in Message /\ msg.at = clock /\ msg.answerable = heard
    BY <1>3, <1>4 DEF Message
  <1> HIDE DEF msg
  <1>8. /\ inbox' \in Seq(Message) /\ Len(inbox') = Len(inbox) + 1
        /\ inbox'[Len(inbox) + 1] = msg
        /\ \A m \in 1..Len(inbox) : inbox'[m] = inbox[m]
    BY <1>1, <1>5, <1>7
  <1>9. DOMAIN inbox' = 1..(Len(inbox) + 1)
    BY <1>8, LenProperties
  <1> QED
    BY <1>1, <1>2, <1>6, <1>7, <1>8, <1>9

\* The inbox only grows.
LEMMA InboxGrows ==
    ASSUME TypeOK, [Next]_vars
    PROVE  /\ inbox' \in Seq(Message) /\ DOMAIN inbox \subseteq DOMAIN inbox'
           /\ \A m \in DOMAIN inbox : inbox'[m] = inbox[m]
  <1>1. CASE UNCHANGED inbox
    BY <1>1, InboxIs
  <1>2. ASSUME NEW answer \in {"yes", "no"}, Reply(answer)
        PROVE  /\ inbox' \in Seq(Message) /\ DOMAIN inbox \subseteq DOMAIN inbox'
               /\ \A m \in DOMAIN inbox : inbox'[m] = inbox[m]
    BY <1>2, ReplyInbox
  <1>3. Poll \/ Restart => UNCHANGED inbox
    BY DEF Poll, Restart, ListMessages, MatchReply, IngestReply, LoseReply,
       AttributeReply, SweepAttribution, SweepNudges, worldVars
  <1> QED
    BY <1>1, <1>2, <1>3, StepCases DEF WorldSame

\* What the poller's steps come to: the page it lists is new to it, a reply that is
\* done with leaves the page, and the last one leads to the sweeps.
LEMMA PollerStep ==
    ASSUME TypeOK, PollerFits, [Next]_vars
    PROVE  PollerFits'
  <1>1. CASE UNCHANGED <<seen, step, page>>
    BY <1>1, PageKept DEF PollerFits
  <1>2. CASE ListMessages
    BY <1>2 DEF ListMessages, NewReplies, PollerFits
  <1>3. CASE MatchReply
    <2>1. /\ page # {} /\ InHand \in page /\ page \cap seen = {}
          /\ seen' = seen \cup {InHand} /\ step = "replies"
      BY <1>3, InHandIs DEF MatchReply, PollerFits
    <2>2. CASE NextReply
      BY <2>1, <2>2 DEF NextReply, PollerFits
    <2>3. CASE step' = "ingest" /\ page' = page
      BY <2>1, <2>3, PageKept DEF PollerFits
    <2> QED
      BY <1>3, <2>2, <2>3 DEF MatchReply
  <1>4. CASE IngestReply
    BY <1>4, PageKept DEF IngestReply, PollerFits
  <1>5. CASE LoseReply
    <2>1. page # {} /\ page \cap seen \subseteq {InHand} /\ seen' = seen \cup {InHand}
      BY <1>5 DEF LoseReply, PollerFits
    <2> QED
      BY <1>5, <2>1 DEF LoseReply, NextReply, PollerFits
  <1>6. CASE AttributeReply
    BY <1>6 DEF AttributeReply, NextReply, PollerFits
  <1>7. CASE SweepAttribution \/ SweepNudges
    BY <1>7, PageKept DEF SweepAttribution, SweepNudges, PollerFits
  <1>8. CASE Restart
    BY <1>8 DEF Restart, PollerFits
  <1>9. ASSUME NEW answer \in {"yes", "no"}, Reply(answer) PROVE PollerFits'
    BY <1>1, <1>9 DEF Reply, pollVars
  <1> QED
    BY <1>1, <1>2, <1>3, <1>4, <1>5, <1>6, <1>7, <1>8, <1>9, StepCases DEF Poll, WorldSame

\* Types.
LEMMA LiveType ==
    ASSUME TypeOK, AttemptsFit, QuietLosses, PollerFits, TargetSent, [Next]_vars
    PROVE  TypeOK' /\ clock' \in Nat /\ clock' >= clock
  <1>1. LossesTyped'
    BY LossStep DEF LossesMove
  <1>2. clock' \in 1..MaxTime /\ clock' \in Nat /\ clock' >= clock
    <2>1. clock' = clock \/ (clock < MaxTime /\ clock' = clock + 1)
      BY DEF Next, Plant, Stamp, Dispatch, LaunchRecovery, Launch, Reply, Poll, ListMessages,
         MatchReply, IngestReply, LoseReply, AttributeReply, SweepAttribution, SweepNudges,
         Restart, PageLoad, Tick, vars
    <2> QED
      BY <2>1, ConstantTypes DEF TypeOK
  <1>3. tagged' \subseteq Losses
    <2>1. tagged' = tagged \/ \E l \in Losses : tagged' = tagged \cup {l}
      BY DEF Next, Plant, Stamp, Dispatch, LaunchRecovery, Launch, Reply, Poll, ListMessages,
         MatchReply, IngestReply, LoseReply, AttributeReply, SweepAttribution, SweepNudges,
         Restart, PageLoad, Tick, vars, lossVars, Attribution, Nudges
    <2> QED
      BY <2>1 DEF TypeOK
  <1>4. pending' \in [Sessions -> SUBSET Losses] /\ running' \in BOOLEAN
    <2>1. ASSUME NEW s \in Sessions, NEW rest \in SUBSET Losses, Pending(s, rest)
          PROVE  pending' \in [Sessions -> SUBSET Losses] /\ running' \in BOOLEAN
      BY <2>1 DEF Pending, TypeOK
    <2>2. ASSUME NEW s \in Sessions, LaunchRecovery(s)
          PROVE  pending' \in [Sessions -> SUBSET Losses] /\ running' \in BOOLEAN
      BY <2>1, <2>2 DEF LaunchRecovery, PendingLiveDemo, TypeOK
    <2>3. ASSUME NEW s \in Sessions, NEW l \in Losses, Launch(s, l)
          PROVE  pending' \in [Sessions -> SUBSET Losses] /\ running' \in BOOLEAN
      <3>1. pending[s] \ {l} \in SUBSET Losses
        BY DEF TypeOK
      <3> QED
        BY <2>1, <2>3, <3>1 DEF Launch
    <2>4. CASE UNCHANGED <<pending, running>>
      BY <2>4 DEF TypeOK
    <2>5. CASE Restart \/ PageLoad
      BY <2>5 DEF Restart, PageLoad, TypeOK
    <2>6. \/ UNCHANGED <<pending, running>> \/ Restart \/ PageLoad
          \/ \E s \in Sessions : LaunchRecovery(s) \/ \E l \in Losses : Launch(s, l)
      BY DEF Next, Plant, Stamp, Dispatch, Reply, Poll, ListMessages,
         MatchReply, IngestReply, LoseReply, AttributeReply, SweepAttribution, SweepNudges,
         Tick, vars, pollVars
    <2> QED
      BY <2>2, <2>3, <2>4, <2>5, <2>6
  <1>5. /\ inbox' \in Seq(Message) /\ DOMAIN inbox \subseteq DOMAIN inbox'
    BY InboxGrows
  <1>6. payments' \subseteq Payment
    <2>1. CASE payments' = payments
      BY <2>1 DEF TypeOK
    <2>2. CASE IngestReply
      <3>1. page # {} /\ target.loss \in Losses /\ target.token \in 1..MaxAttempts
        BY <2>2 DEF IngestReply, PollerFits, TargetSent
      <3>2. InHand \in Nat
        BY <3>1, InHandIs
      <3> QED
        BY <2>2, <3>1, <3>2 DEF IngestReply, TypeOK, Payment
    <2>3. payments' = payments \/ IngestReply
      BY StepCases DEF WorldSame, Reply, Poll, ListMessages, MatchReply, LoseReply,
         AttributeReply, SweepAttribution, SweepNudges, Restart, worldVars
    <2> QED
      BY <2>1, <2>2, <2>3
  <1>7. /\ seen' \subseteq DOMAIN inbox /\ page' \subseteq DOMAIN inbox
        /\ step' \in {"replies", "ingest", "attribute", "sweep", "nudges"}
    <2>1. page # {} => InHand \in DOMAIN inbox
      BY InHandIs
    <2>2. \/ UNCHANGED <<seen, page, step>>
          \/ ListMessages \/ MatchReply \/ IngestReply \/ LoseReply \/ AttributeReply
          \/ SweepAttribution \/ SweepNudges \/ Restart
      BY StepCases DEF WorldSame, Reply, Poll, pollVars
    <2>3. CASE ListMessages
      BY <2>3 DEF ListMessages, NewReplies, Newest, TypeOK
    <2>4. CASE MatchReply
      BY <2>1, <2>4 DEF MatchReply, NextReply, TypeOK
    <2>5. CASE LoseReply
      BY <2>1, <2>5 DEF LoseReply, NextReply, PollerFits, TypeOK
    <2>6. CASE \/ UNCHANGED <<seen, page, step>>
               \/ IngestReply \/ AttributeReply \/ SweepAttribution \/ SweepNudges \/ Restart
      BY <2>6 DEF IngestReply, AttributeReply, NextReply, SweepAttribution, SweepNudges,
         Restart, TypeOK
    <2> QED
      BY <2>2, <2>3, <2>4, <2>5, <2>6
  <1>8. target' \in Target /\ asOf' \in 0..MaxTime
    <2>1. NoTarget \in Target /\ Never \in 0..MaxTime /\ clock \in 0..MaxTime
      BY ConstantTypes DEF NoTarget, Target, Never, TypeOK
    <2>2. CASE MatchReply
      <3>1. ASSUME NEW a \in AwaitingReply(inbox[InHand].at),
                   target' = [loss |-> a[1], token |-> attempts[a[1]][a[2]].token]
            PROVE  target' \in Target
        <4>1. a[1] \in Losses /\ a[2] \in DOMAIN attempts[a[1]]
          BY DEF AwaitingReply
        <4>2. attempts[a[1]][a[2]] \in Attempt
          BY <4>1, AttemptsAre
        <4> QED
          BY <3>1, <4>1, <4>2 DEF Target, Attempt
      <3> QED
        BY <2>1, <2>2, <3>1 DEF MatchReply, TypeOK
    <2>3. \/ MatchReply
          \/ /\ target' = target \/ target' = NoTarget
             /\ asOf' = asOf \/ asOf' = Never
      BY DEF Next, Plant, Stamp, Dispatch, LaunchRecovery, Launch, Reply, Poll, ListMessages,
         IngestReply, LoseReply, AttributeReply, SweepAttribution, SweepNudges,
         Restart, PageLoad, Tick, vars, pollVars
    <2> QED
      BY <2>1, <2>2, <2>3 DEF TypeOK
  <1>9. restarts' \in Nat /\ faults' \in Nat /\ restarts' + faults' <= MaxFaults
    <2>1. \/ restarts' = restarts /\ faults' = faults
          \/ restarts' = restarts /\ faults' = faults + 1 /\ CanFail
          \/ restarts' = restarts + 1 /\ faults' = faults /\ CanFail
      BY StepCases DEF WorldSame, Reply, Poll, ListMessages, MatchReply, IngestReply,
         LoseReply, AttributeReply, SweepAttribution, SweepNudges, Restart, Mishap
    <2> QED
      BY <2>1, ConstantTypes DEF CanFail, TypeOK
  <1> QED
    BY <1>1, <1>2, <1>3, <1>4, <1>5, <1>6, <1>7, <1>8, <1>9 DEF TypeOK, LossesTyped

-----------------------------------------------------------------------------
(* Replies and what becomes of them.                                       *)

\* A payment is only ever made of the reply in hand.
LEMMA PaymentsStep ==
    ASSUME [Next]_vars
    PROVE  payments' = payments \/ IngestReply
  BY StepCases DEF WorldSame, Reply, Poll, ListMessages, MatchReply, LoseReply,
     AttributeReply, SweepAttribution, SweepNudges, Restart, worldVars

LEMMA RepliesKnownStep ==
    ASSUME TypeOK, PollerFits, RepliesKnown, [Next]_vars
    PROVE  RepliesKnown' /\ payments \subseteq payments'
  <1>1. CASE payments' = payments
    BY <1>1, InboxGrows DEF RepliesKnown
  <1>2. CASE IngestReply
    <2>1. page # {}
      BY <1>2 DEF IngestReply, PollerFits
    <2>2. /\ InHand \in DOMAIN inbox /\ inbox' = inbox
          /\ payments' = payments \cup {[loss |-> target.loss, token |-> target.token,
                                         reply |-> InHand]}
      BY <1>2, <2>1, InHandIs DEF IngestReply
    <2> QED
      BY <2>2 DEF RepliesKnown
  <1> QED
    BY <1>1, <1>2, PaymentsStep

\* The nudge a YES is matched with was sent before it, and decided before that.
LEMMA TargetSentStep ==
    ASSUME TypeOK, AttemptsFit, PollerFits, TargetSent, LossesMove, [Next]_vars
    PROVE  TargetSent'
  <1>1. CASE UNCHANGED <<step, page, target>>
    <2> SUFFICES ASSUME step = "ingest"
                 PROVE  /\ target.loss \in Losses /\ target.token \in 1..MaxAttempts
                        /\ Answered(target.loss, target.token, inbox[InHand].at)'
      BY <1>1 DEF TargetSent
    <2>1. /\ target.loss \in Losses /\ target.token \in 1..MaxAttempts
          /\ Answered(target.loss, target.token, inbox[InHand].at) /\ page # {}
      BY DEF TargetSent, PollerFits
    <2>2. inbox'[InHand'] = inbox[InHand]
      BY <1>1, <2>1, InHandIs, InboxGrows, PageKept
    <2>3. PICK n \in DOMAIN attempts[target.loss] :
            LET a == attempts[target.loss][n] IN
            /\ a.token = target.token /\ a.stage = "SENT"
            /\ a.at <= inbox[InHand].at /\ a.decidedAt <= a.at
      BY <2>1 DEF Answered
    <2>4. /\ n \in DOMAIN attempts'[target.loss]
          /\ attempts'[target.loss][n] = attempts[target.loss][n]
      BY <2>1, <2>3, SentKept
    <2> QED
      BY <1>1, <2>1, <2>2, <2>3, <2>4 DEF Answered
  <1>2. CASE MatchReply
    <2> SUFFICES ASSUME step' = "ingest" PROVE TargetSent'
      BY DEF TargetSent
    <2>1. PICK a \in AwaitingReply(inbox[InHand].at) :
            target' = [loss |-> a[1], token |-> attempts[a[1]][a[2]].token]
      BY <1>2 DEF MatchReply, NextReply
    <2>2. UNCHANGED <<page, inbox, attempts>> /\ InHand' = InHand
      BY <1>2, PageKept DEF MatchReply, NextReply, lossVars, worldVars
    <2>3. /\ a[1] \in Losses /\ a[2] \in DOMAIN attempts[a[1]]
          /\ attempts[a[1]][a[2]].token # 0 /\ attempts[a[1]][a[2]].stage = "SENT"
          /\ attempts[a[1]][a[2]].at <= inbox[InHand].at
      BY DEF AwaitingReply
    <2>4. /\ attempts[a[1]][a[2]] \in Attempt
          /\ attempts[a[1]][a[2]].decidedAt <= attempts[a[1]][a[2]].at
      BY <2>3, AttemptsAre DEF AttemptsFit, AttemptFits
    <2>5. attempts[a[1]][a[2]].token \in 1..MaxAttempts
      BY <2>3, <2>4, ConstantTypes DEF Attempt
    <2> QED
      BY <2>1, <2>2, <2>3, <2>4, <2>5 DEF TargetSent, Answered
  <1>3. CASE step' # "ingest"
    BY <1>3 DEF TargetSent
  <1> QED
    BY <1>1, <1>2, <1>3, StepCases DEF WorldSame, Reply, pollVars, Poll, ListMessages,
       IngestReply, LoseReply, NextReply, AttributeReply, SweepAttribution, SweepNudges, Restart

\* And so was what the payment of an answer redeems.
LEMMA AnswersStep ==
    ASSUME TypeOK, PollerFits, RepliesKnown, TargetSent, AnswersWhatWasSent, LossesMove,
           [Next]_vars
    PROVE  AnswersWhatWasSent'
  <1>1. ASSUME NEW p \in payments
        PROVE  \E n \in DOMAIN attempts'[p.loss] :
                  LET a == attempts'[p.loss][n] IN
                  /\ a.token = p.token /\ a.stage = "SENT"
                  /\ a.at <= inbox'[p.reply].at /\ a.decidedAt <= a.at
    <2>1. PICK n \in DOMAIN attempts[p.loss] :
            LET a == attempts[p.loss][n] IN
            /\ a.token = p.token /\ a.stage = "SENT"
            /\ a.at <= inbox[p.reply].at /\ a.decidedAt <= a.at
      BY DEF AnswersWhatWasSent
    <2>2. p.loss \in Losses /\ inbox'[p.reply] = inbox[p.reply]
      BY InboxGrows DEF TypeOK, Payment, RepliesKnown
    <2>3. n \in DOMAIN attempts'[p.loss] /\ attempts'[p.loss][n] = attempts[p.loss][n]
      BY <2>1, <2>2, SentKept
    <2> QED
      BY <2>1, <2>2, <2>3
  <1>2. CASE payments' = payments
    BY <1>1, <1>2 DEF AnswersWhatWasSent
  <1>3. CASE IngestReply
    <2>1. /\ UNCHANGED <<attempts, inbox>>
          /\ payments' = payments \cup {[loss |-> target.loss, token |-> target.token,
                                         reply |-> InHand]}
      BY <1>3 DEF IngestReply, lossVars
    <2>2. Answered(target.loss, target.token, inbox[InHand].at)
      BY <1>3 DEF IngestReply, TargetSent
    <2> QED
      BY <1>1, <2>1, <2>2 DEF AnswersWhatWasSent, Answered
  <1> QED
    BY <1>2, <1>3, PaymentsStep

\* One reply is turned into one payment, and into one more for every restart.
LEMMA PaidOnceStep ==
    ASSUME TypeOK, PollerFits, PaidOnce, [Next]_vars
    PROVE  PaidOnce'
  <1> SUFFICES ASSUME NEW m \in Nat
               PROVE  /\ IsFiniteSet(Paid(m)')
                      /\ Cardinality(Paid(m)') + OnItsWay(m)'
                            <= restarts' + (IF m \in seen' THEN 1 ELSE 0)
    BY DEF PaidOnce
  <1>1. /\ IsFiniteSet(Paid(m)) /\ Cardinality(Paid(m)) \in Nat /\ restarts \in Nat
        /\ Cardinality(Paid(m)) + OnItsWay(m) <= restarts + (IF m \in seen THEN 1 ELSE 0)
    BY FS_CardinalityType DEF PaidOnce, TypeOK
  <1>2. CASE UNCHANGED <<payments, seen, step, page, restarts>>
    <2>1. Paid(m)' = Paid(m) /\ OnItsWay(m)' = OnItsWay(m)
      BY <1>2, PageKept DEF Paid, OnItsWay
    <2> QED
      BY <1>1, <1>2, <2>1
  <1>3. CASE /\ UNCHANGED <<payments, restarts>> /\ seen \subseteq seen'
             /\ step' # "ingest"
    <2>1. Paid(m)' = Paid(m) /\ OnItsWay(m)' = 0 /\ OnItsWay(m) \in {0, 1}
      BY <1>3 DEF Paid, OnItsWay
    <2> QED
      BY <1>1, <1>3, <2>1
  <1>4. CASE MatchReply /\ step' = "ingest"
    <2>1. /\ UNCHANGED <<payments, page, restarts>> /\ InHand' = InHand
          /\ InHand \notin seen /\ seen' = seen \cup {InHand} /\ step = "replies"
      BY <1>4, InHandIs, PageKept DEF MatchReply, NextReply, worldVars, PollerFits
    <2>2. /\ Paid(m)' = Paid(m) /\ OnItsWay(m) = 0
          /\ OnItsWay(m)' = IF InHand = m THEN 1 ELSE 0
      BY <1>4, <2>1 DEF Paid, OnItsWay
    <2> QED
      BY <1>1, <2>1, <2>2
  <1>5. CASE IngestReply
    <2> DEFINE q == [loss |-> target.loss, token |-> target.token, reply |-> InHand]
    <2>1. /\ payments' = payments \cup {q} /\ UNCHANGED <<seen, restarts>>
          /\ step = "ingest" /\ step' = "attribute"
      BY <1>5 DEF IngestReply
    <2>2. OnItsWay(m)' = 0 /\ OnItsWay(m) = IF InHand = m THEN 1 ELSE 0
      BY <2>1 DEF OnItsWay
    <2>3. CASE InHand = m
      <3>1. Paid(m)' = Paid(m) \cup {q}
        BY <2>1, <2>3 DEF Paid
      <3> HIDE DEF q
      <3>2. ASSUME NEW S, NEW x, IsFiniteSet(S)
            PROVE  Cardinality(S) \in Nat /\ IsFiniteSet(S \cup {x})
                   /\ Cardinality(S \cup {x}) \in Nat
                   /\ Cardinality(S \cup {x}) <= Cardinality(S) + 1
        BY <3>2, FS_AddElement, FS_CardinalityType
      <3>3. /\ IsFiniteSet(Paid(m)') /\ Cardinality(Paid(m)') \in Nat
            /\ Cardinality(Paid(m)') <= Cardinality(Paid(m)) + 1
        BY <1>1, <3>1, <3>2
      <3> QED
        BY <1>1, <2>1, <2>2, <2>3, <3>3
    <2>4. CASE InHand # m
      <3>1. Paid(m)' = Paid(m)
        BY <2>1, <2>4 DEF Paid
      <3> QED
        BY <1>1, <2>1, <2>2, <2>4, <3>1
    <2> QED
      BY <2>3, <2>4
  <1>6. CASE Restart
    <2>1. /\ payments' = payments /\ restarts' = restarts + 1 /\ seen' = {}
          /\ step' = "replies"
      BY <1>6 DEF Restart, worldVars
    <2>2. Paid(m)' = Paid(m) /\ OnItsWay(m)' = 0 /\ OnItsWay(m) \in {0, 1}
      BY <2>1 DEF Paid, OnItsWay
    <2> QED
      BY <1>1, <2>1, <2>2
  <1>7. \/ UNCHANGED <<payments, seen, step, page, restarts>>
        \/ UNCHANGED <<payments, restarts>> /\ seen \subseteq seen' /\ step' # "ingest"
        \/ MatchReply /\ step' = "ingest"
        \/ IngestReply \/ Restart
    BY StepCases DEF WorldSame, Reply, Poll, ListMessages, MatchReply, NextReply, LoseReply,
       AttributeReply, SweepAttribution, SweepNudges, worldVars, pollVars
  <1> QED
    BY <1>2, <1>3, <1>4, <1>5, <1>6, <1>7

\* What is credited carries the token of a payment.
LEMMA CreditsPaidStep ==
    ASSUME TypeOK, CreditsPaid, LossesMove, payments \subseteq payments'
    PROVE  CreditsPaid'
  <1> SUFFICES ASSUME NEW l \in Losses, outcome'[l] = "RECOVERED"
               PROVE  /\ credited'[l] \in DOMAIN attempts'[l]
                      /\ \E p \in payments' :
                            p.loss = l /\ p.token = attempts'[l][credited'[l]].token
    BY DEF CreditsPaid
  <1>1. /\ credited'[l] \in DOMAIN attempts[l]
        /\ \E p \in payments : p.loss = l /\ p.token = attempts[l][credited'[l]].token
    <2>1. CASE outcome[l] = "RECOVERED" /\ credited'[l] = credited[l]
      BY <2>1 DEF CreditsPaid
    <2>2. CASE credited'[l] \in Redeemed(l)
      BY <2>2 DEF Redeemed
    <2> QED
      BY <2>1, <2>2 DEF LossesMove, LossMoves, Stays, Moves, Closes
  <1> QED
    BY <1>1, SentKept

\* What a reply may answer is a loss with a nudge that was sent before it; its outcome
\* may change once, and until then it is unresolved.
LEMMA AnswerableStep ==
    ASSUME TypeOK, AttemptsFit, QuietLosses, AnswerableFits, LossesMove, [Next]_vars
    PROVE  AnswerableFits'
  <1>1. ASSUME NEW m \in DOMAIN inbox, NEW l \in DOMAIN inbox[m].answerable
        PROVE  /\ l \in Losses
               /\ \E n \in DOMAIN attempts'[l] :
                     /\ attempts'[l][n].token # 0 /\ attempts'[l][n].stage = "SENT"
                     /\ attempts'[l][n].at <= inbox[m].at
               /\ inbox[m].answerable[l] \in {NoOutcome, outcome'[l]}
               /\ inbox[m].answerable[l] = outcome'[l] => status'[l] \in Unresolved
    <2>1. inbox[m] \in Message
      BY InboxIs
    <2>2. l \in Losses
      BY <2>1 DEF Message
    <2>3. PICK n \in DOMAIN attempts[l] :
            /\ attempts[l][n].token # 0 /\ attempts[l][n].stage = "SENT"
            /\ attempts[l][n].at <= inbox[m].at
      BY DEF AnswerableFits
    <2>4. n \in DOMAIN attempts'[l] /\ attempts'[l][n] = attempts[l][n]
      BY <2>2, <2>3, SentKept
    <2>5. /\ inbox[m].answerable[l] \in {NoOutcome, outcome[l]}
          /\ inbox[m].answerable[l] = outcome[l] => status[l] \in Unresolved
          /\ ~NoNudge(status[l])
      BY <2>2, <2>3 DEF AnswerableFits, QuietLosses
    <2>6. CASE Stays(l)
      BY <2>2, <2>3, <2>4, <2>5, <2>6 DEF Stays
    <2>7. CASE Moves(l)
      <3>1. outcome'[l] = outcome[l] /\ status'[l] \in Unresolved
        BY <2>5, <2>7 DEF Moves, Unresolved
      <3> QED
        BY <2>2, <2>3, <2>4, <2>5, <3>1
    <2>8. CASE Closes(l)
      <3>1. outcome[l] = NoOutcome /\ outcome'[l] # NoOutcome
        BY <2>8 DEF Closes, Undecided, Outcomes, NoOutcome
      <3> QED
        BY <2>2, <2>3, <2>4, <2>5, <3>1
    <2> QED
      BY <2>2, <2>6, <2>7, <2>8 DEF LossesMove, LossMoves
  <1>2. CASE inbox' = inbox
    BY <1>1, <1>2 DEF AnswerableFits
  <1>3. ASSUME NEW answer \in {"yes", "no"}, Reply(answer)
        PROVE  AnswerableFits'
    <2> DEFINE k == Len(inbox) + 1
    <2>1. /\ \A m \in DOMAIN inbox : inbox'[m] = inbox[m]
          /\ inbox'[k].at = clock
          /\ DOMAIN inbox'[k].answerable \subseteq InOpenNudges
          /\ \A l \in DOMAIN inbox'[k].answerable : inbox'[k].answerable[l] = outcome[l]
          /\ \A m \in DOMAIN inbox' : m \in DOMAIN inbox \/ m = k
      BY <1>3, ReplyInbox
    <2>2. UNCHANGED <<status, outcome, attempts>>
      BY <1>3 DEF Reply, lossVars
    <2> HIDE DEF k
    <2>3. ASSUME NEW l \in DOMAIN inbox'[k].answerable
          PROVE  /\ \E n \in DOMAIN attempts'[l] :
                       /\ attempts'[l][n].token # 0 /\ attempts'[l][n].stage = "SENT"
                       /\ attempts'[l][n].at <= inbox'[k].at
                 /\ inbox'[k].answerable[l] \in {NoOutcome, outcome'[l]}
                 /\ inbox'[k].answerable[l] = outcome'[l] => status'[l] \in Unresolved
      <3>1. l \in Losses /\ status[l] \in Unresolved
        BY <2>1 DEF InOpenNudges
      <3>2. PICK n \in DOMAIN attempts[l] :
              attempts[l][n].token # 0 /\ attempts[l][n].stage = "SENT"
        BY <2>1 DEF InOpenNudges
      <3>3. attempts[l][n].at <= clock
        BY <3>1, <3>2 DEF AttemptsFit, AttemptFits
      <3> QED
        BY <2>1, <2>2, <3>1, <3>2, <3>3
    <2>4. ASSUME NEW m \in DOMAIN inbox, NEW l \in DOMAIN inbox'[m].answerable
          PROVE  /\ \E n \in DOMAIN attempts'[l] :
                       /\ attempts'[l][n].token # 0 /\ attempts'[l][n].stage = "SENT"
                       /\ attempts'[l][n].at <= inbox'[m].at
                 /\ inbox'[m].answerable[l] \in {NoOutcome, outcome'[l]}
                 /\ inbox'[m].answerable[l] = outcome'[l] => status'[l] \in Unresolved
      BY <1>1, <2>1
    <2> QED
      BY <2>1, <2>3, <2>4 DEF AnswerableFits
  <1>4. inbox' = inbox \/ \E answer \in {"yes", "no"} : Reply(answer)
    BY StepCases DEF WorldSame, Poll, Restart, ListMessages, MatchReply, IngestReply,
       LoseReply, AttributeReply, SweepAttribution, SweepNudges, worldVars
  <1> QED
    BY <1>2, <1>3, <1>4

\* Once its payment is in, the reply in hand stays in hand until it is attributed.
LEMMA InHandPaidStep ==
    ASSUME InHandPaid, [Next]_vars
    PROVE  InHandPaid'
  <1>1. CASE UNCHANGED <<step, page, payments>>
    BY <1>1, PageKept DEF InHandPaid
  <1>2. CASE IngestReply
    <2>1. /\ [loss |-> target.loss, token |-> target.token, reply |-> InHand] \in payments'
          /\ InHand' = InHand
      BY <1>2, PageKept DEF IngestReply
    <2> QED
      BY <2>1 DEF InHandPaid
  <1>3. CASE step' # "attribute"
    BY <1>3 DEF InHandPaid
  <1> QED
    BY <1>1, <1>2, <1>3, StepCases DEF WorldSame, Reply, pollVars, worldVars, Poll,
       ListMessages, MatchReply, LoseReply, NextReply, AttributeReply, SweepAttribution,
       SweepNudges, Restart

\* Where nothing is awaiting a reply, what it could be meant for was decided meanwhile.
LEMMA NothingAwaits ==
    ASSUME TypeOK, AttemptsFit, AnswerableFits, NEW m \in DOMAIN inbox,
           AwaitingReply(inbox[m].at) = {}
    PROVE  \A l \in DOMAIN inbox[m].answerable : outcome[l] # inbox[m].answerable[l]
  <1> SUFFICES ASSUME NEW l \in DOMAIN inbox[m].answerable,
                      outcome[l] = inbox[m].answerable[l]
               PROVE  FALSE
    OBVIOUS
  <1>1. inbox[m] \in Message
    BY InboxIs
  <1>2. l \in Losses /\ status[l] \in Unresolved
    BY <1>1 DEF Message, AnswerableFits
  <1>3. PICK n \in DOMAIN attempts[l] :
          /\ attempts[l][n].token # 0 /\ attempts[l][n].stage = "SENT"
          /\ attempts[l][n].at <= inbox[m].at
    BY DEF AnswerableFits
  <1>4. n \in 1..MaxAttempts
    <2>1. /\ Len(attempts[l]) \in Nat /\ DOMAIN attempts[l] = 1..Len(attempts[l])
          /\ Len(attempts[l]) <= MaxAttempts
      BY <1>2, AttemptsAre DEF AttemptsFit
    <2> QED
      BY <1>3, <2>1, ConstantTypes
  <1>5. <<l, n>> \in AwaitingReply(inbox[m].at)
    BY <1>2, <1>3, <1>4 DEF AwaitingReply
  <1> QED
    BY <1>5

LEMMA HeardYesStep ==
    ASSUME TypeOK, AttemptsFit, PollerFits, AnswerableFits, InHandPaid, HeardYesCounts,
           LossesMove, payments \subseteq payments', [Next]_vars
    PROVE  HeardYesCounts'
  <1> DEFINE Yes(m) == inbox[m].says = "yes" /\ DOMAIN inbox[m].answerable # {}
             PaidNow(m) == \E p \in payments' : p.reply = m
             DecidedNow(m) == \A l \in DOMAIN inbox[m].answerable :
                                 outcome'[l] # inbox[m].answerable[l]
  <1>1. ASSUME NEW m \in seen \ page, Yes(m), faults = 0
        PROVE  PaidNow(m) \/ DecidedNow(m)
    <2>1. CASE \E p \in payments : p.reply = m
      BY <2>1
    <2>2. CASE \A l \in DOMAIN inbox[m].answerable : outcome[l] # inbox[m].answerable[l]
      <3> SUFFICES ASSUME NEW l \in DOMAIN inbox[m].answerable
                   PROVE  outcome'[l] # inbox[m].answerable[l]
        OBVIOUS
      <3>1. m \in DOMAIN inbox /\ inbox[m] \in Message
        BY InboxIs DEF TypeOK
      <3>2. l \in Losses /\ inbox[m].answerable[l] = NoOutcome /\ outcome[l] # NoOutcome
        BY <2>2, <3>1 DEF Message, AnswerableFits
      <3>3. Stays(l) \/ Moves(l) \/ Closes(l)
        BY <3>2 DEF LossesMove, LossMoves
      <3> QED
        BY <3>2, <3>3 DEF Stays, Moves, Closes, Undecided
    <2> QED
      BY <1>1, <2>1, <2>2 DEF HeardYesCounts
  <1>2. ASSUME NEW m \in seen' \ page', m \notin seen \ page, Yes(m), faults' = 0
        PROVE  PaidNow(m) \/ DecidedNow(m)
    <2>1. CASE MatchReply
      <3>1. /\ page # {} /\ page \cap seen = {} /\ seen' = seen \cup {InHand}
            /\ outcome' = outcome
        BY <2>1 DEF MatchReply, PollerFits, lossVars
      <3>2. InHand \in page /\ InHand \in DOMAIN inbox
        BY <3>1, InHandIs
      <3>3. m = InHand /\ page' # page
        BY <1>2, <3>1, <3>2
      <3>4. AwaitingReply(inbox[InHand].at) = {}
        BY <1>2, <2>1, <3>3 DEF MatchReply
      <3> QED
        BY <3>1, <3>2, <3>3, <3>4, NothingAwaits
    <2>2. CASE AttributeReply
      <3>1. m \in seen /\ m \in page /\ page \cap seen \subseteq {InHand}
            /\ step = "attribute"
        BY <1>2, <2>2 DEF AttributeReply, NextReply, PollerFits
      <3> QED
        BY <3>1 DEF InHandPaid
    <2>3. CASE LoseReply
      BY <1>2, <2>3 DEF LoseReply, Mishap, TypeOK
    <2>4. \/ MatchReply \/ AttributeReply \/ LoseReply
          \/ seen' = seen /\ page' = page
          \/ seen' = {}
          \/ seen' = seen /\ page = {}
      BY StepCases DEF WorldSame, Reply, pollVars, Poll, ListMessages, IngestReply,
         SweepAttribution, SweepNudges, Restart
    <2> QED
      BY <1>2, <2>1, <2>2, <2>3, <2>4
  <1>3. faults' = 0 => faults = 0
    <2>1. faults' = faults \/ faults' = faults + 1
      BY StepCases DEF WorldSame, Reply, Poll, ListMessages, MatchReply, IngestReply,
         LoseReply, AttributeReply, SweepAttribution, SweepNudges, Restart, Mishap
    <2> QED
      BY <2>1 DEF TypeOK
  <1>4. \A m \in seen' \ page' : inbox'[m] = inbox[m]
    <2>1. seen' \subseteq DOMAIN inbox
      <3>1. page # {} => InHand \in DOMAIN inbox
        BY InHandIs
      <3>2. seen' = seen \/ seen' = {} \/ (seen' = seen \cup {InHand} /\ page # {})
        BY StepCases DEF WorldSame, Reply, pollVars, Poll, ListMessages, MatchReply,
           IngestReply, LoseReply, AttributeReply, SweepAttribution, SweepNudges, Restart,
           PollerFits
      <3> QED
        BY <3>1, <3>2 DEF TypeOK
    <2> QED
      BY <2>1, InboxGrows
  <1>5. ASSUME NEW m \in seen' \ page', Yes(m), faults' = 0
        PROVE  PaidNow(m) \/ DecidedNow(m)
    BY <1>1, <1>2, <1>3, <1>5
  <1> QED
    BY <1>4, <1>5 DEF HeardYesCounts

-----------------------------------------------------------------------------
(* The invariant.                                                          *)

LEMMA LiveInvInit == Init => LiveInv
  <1> SUFFICES ASSUME Init PROVE LiveInv
    OBVIOUS
  <1>1. TypeOK
    <2>1. /\ 0 \in 0..MaxAttempts /\ 1 \in 1..MaxTime /\ Never \in 0..MaxTime
          /\ 0 \in Nat /\ 0 + 0 <= MaxFaults
          /\ NoTarget \in Target
      BY ConstantTypes DEF Never, NoTarget, Target
    <2>2. /\ status \in [Losses -> {"ABSENT"} \cup Unresolved \cup Closed]
          /\ outcome \in [Losses -> Outcomes \cup {NoOutcome}]
          /\ credited \in [Losses -> 0..MaxAttempts]
          /\ attempts \in [Losses -> Seq(Attempt)]
          /\ pending \in [Sessions -> SUBSET Losses]
      BY <2>1 DEF Init
    <2>3. inbox \in Seq(Message) /\ payments = {} /\ seen = {} /\ page = {} /\ tagged = {}
      BY DEF Init
    <2>4. /\ clock \in 1..MaxTime /\ running \in BOOLEAN
          /\ step \in {"replies", "ingest", "attribute", "sweep", "nudges"}
          /\ target \in Target /\ asOf \in 0..MaxTime
          /\ restarts \in Nat /\ faults \in Nat /\ restarts + faults <= MaxFaults
      BY <2>1 DEF Init
    <2> QED
      BY <2>2, <2>3, <2>4 DEF TypeOK
  <1>2. AttemptsFit /\ QuietLosses
    <2>1. \A l \in Losses : attempts[l] = <<>>
      BY DEF Init
    <2> QED
      BY <2>1, ConstantTypes DEF AttemptsFit, QuietLosses
  <1>3. PaidOnce
    <2>1. \A m \in Nat : Paid(m) = {} /\ OnItsWay(m) = 0 /\ m \notin seen
      BY DEF Init, Paid, OnItsWay
    <2>2. IsFiniteSet({}) /\ Cardinality({}) = 0 /\ restarts = 0
      BY FS_EmptySet DEF Init
    <2> SUFFICES ASSUME NEW m \in Nat
                 PROVE  /\ IsFiniteSet(Paid(m))
                        /\ Cardinality(Paid(m)) + OnItsWay(m)
                              <= restarts + (IF m \in seen THEN 1 ELSE 0)
      BY DEF PaidOnce
    <2>3. Paid(m) = {} /\ OnItsWay(m) = 0 /\ m \notin seen
      BY <2>1
    <2> QED
      BY <2>2, <2>3
  <1>4. PollerFits /\ RepliesKnown /\ TargetSent /\ InHandPaid /\ AnswersWhatWasSent
    BY DEF Init, PollerFits, RepliesKnown, TargetSent, InHandPaid, AnswersWhatWasSent
  <1>5. CreditsPaid /\ AnswerableFits /\ HeardYesCounts
    <2>1. \A l \in Losses : outcome[l] = NoOutcome
      BY DEF Init
    <2>2. DOMAIN inbox = {} /\ seen = {}
      BY DEF Init
    <2> QED
      BY <2>1, <2>2 DEF CreditsPaid, AnswerableFits, HeardYesCounts, NoOutcome
  <1> QED
    BY <1>1, <1>2, <1>3, <1>4, <1>5 DEF LiveInv

LEMMA LiveInvStep == LiveInv /\ [Next]_vars => LiveInv'
  <1> SUFFICES ASSUME LiveInv, [Next]_vars PROVE LiveInv'
    OBVIOUS
  <1> USE DEF LiveInv
  <1>1. LossesMove
    BY LossStep
  <1>2. TypeOK' /\ clock' \in Nat /\ clock' >= clock
    BY LiveType
  <1>3. AttemptsFit' /\ QuietLosses'
    BY <1>1, <1>2, LossInvStep
  <1>4. PollerFits' /\ RepliesKnown' /\ payments \subseteq payments'
    BY PollerStep, RepliesKnownStep
  <1>5. TargetSent' /\ AnswersWhatWasSent'
    BY <1>1, TargetSentStep, AnswersStep
  <1>6. PaidOnce' /\ CreditsPaid' /\ AnswerableFits' /\ InHandPaid'
    BY <1>1, <1>4, PaidOnceStep, CreditsPaidStep, AnswerableStep, InHandPaidStep
  <1>7. HeardYesCounts'
    BY <1>1, <1>4, HeardYesStep
  <1> QED
    BY <1>2, <1>3, <1>4, <1>5, <1>6, <1>7

\* The invariant the theorems below rest on.
LEMMA LiveInvAlways == Spec => []LiveInv
  <1>1. Init => LiveInv
    BY LiveInvInit
  <1>2. LiveInv /\ [Next]_vars => LiveInv'
    BY LiveInvStep
  <1> QED
    BY <1>1, <1>2, PTL DEF Spec

-----------------------------------------------------------------------------
(* Theorems.                                                               *)

\* Types: launch_recovery, the poller and record_reply keep every record's shape, and
\* what is planted, launched, taken up and listed exists.
THEOREM LiveTypeOK == Spec => []TypeOK
  <1>1. LiveInv => TypeOK
    BY DEF LiveInv
  <1> QED
    BY <1>1, LiveInvAlways, PTL

\* What a YES redeems was decided, sent and on record as sent before the reply's own
\* time, whatever is launched and retried in between and however often it is offered
\* again (record_reply, live_demo.py:459-462).
THEOREM AnswersAreTimely == Spec => []AnswersWhatWasSent
  <1>1. LiveInv => AnswersWhatWasSent
    BY DEF LiveInv
  <1> QED
    BY <1>1, LiveInvAlways, PTL

\* No recovery is credited to a call (live_demo.py:16-23): the credited attempt carries
\* the token of a payment, and a call carries none.
THEOREM CallsAreNeverCredited == Spec => []CallNotCredited
  <1>1. LiveInv => CallNotCredited
    <2> SUFFICES ASSUME LiveInv, NEW l \in Losses, outcome[l] = "RECOVERED"
                 PROVE  attempts[l][credited[l]].channel # "VOICE"
      BY DEF CallNotCredited
    <2>1. PICK p \in payments : p.token = attempts[l][credited[l]].token
      BY DEF LiveInv, CreditsPaid
    <2>2. credited[l] \in DOMAIN attempts[l] /\ AttemptFits(attempts[l][credited[l]])
      BY DEF LiveInv, CreditsPaid, AttemptsFit
    <2>3. p.token \in 1..MaxAttempts
      BY DEF LiveInv, TypeOK, Payment
    <2>4. p.token # 0
      BY <2>3, ConstantTypes
    <2> QED
      BY <2>1, <2>2, <2>4 DEF AttemptFits
  <1> QED
    BY <1>1, LiveInvAlways, PTL

\* One YES recovers one loss, and one more for every restart that made the poller
\* forget it (live_poll.py, _seen_message_sids): every recovery it is behind has a
\* payment of its own.
THEOREM OneYesOneRecovery == Spec => []RepliesRecoverOnce
  <1>1. LiveInv => RepliesRecoverOnce
    <2> SUFFICES ASSUME LiveInv, NEW m \in DOMAIN inbox
                 PROVE  Cardinality(RecoveredBy(m)) <= restarts + 1
      BY DEF RepliesRecoverOnce
    <2>1. m \in Nat
      BY InboxIs DEF LiveInv
    <2>2. /\ IsFiniteSet(Paid(m)) /\ Cardinality(Paid(m)) \in Nat /\ restarts \in Nat
          /\ Cardinality(Paid(m)) <= restarts + 1
      <3>1. /\ IsFiniteSet(Paid(m)) /\ restarts \in Nat
            /\ Cardinality(Paid(m)) + OnItsWay(m) <= restarts + (IF m \in seen THEN 1 ELSE 0)
        BY <2>1 DEF LiveInv, PaidOnce, TypeOK
      <3>2. Cardinality(Paid(m)) \in Nat /\ OnItsWay(m) \in {0, 1}
        BY <3>1, FS_CardinalityType DEF OnItsWay
      <3> QED
        BY <3>1, <3>2
    <2>3. RecoveredBy(m) \subseteq {p.loss : p \in Paid(m)}
      BY DEF RecoveredBy, Paid
    <2>4. /\ IsFiniteSet({p.loss : p \in Paid(m)})
          /\ Cardinality({p.loss : p \in Paid(m)}) <= Cardinality(Paid(m))
      <3> DEFINE S == Paid(m)
                 loss == [p \in S |-> p.loss]
                 T == {p.loss : p \in S}
      <3>1. loss \in Surjection(S, T)
        BY DEF Surjection
      <3> HIDE DEF loss, S, T
      <3>2. IsFiniteSet(T) /\ Cardinality(T) <= Cardinality(S)
        BY <2>2, <3>1, FS_Surjection DEF S
      <3> QED
        BY <3>2 DEF S, T
    <2>5. /\ Cardinality(RecoveredBy(m)) <= Cardinality({p.loss : p \in Paid(m)})
          /\ Cardinality(RecoveredBy(m)) \in Nat
          /\ Cardinality({p.loss : p \in Paid(m)}) \in Nat
      BY <2>3, <2>4, FS_Subset, FS_CardinalityType
    <2> QED
      BY <2>2, <2>4, <2>5
  <1> QED
    BY <1>1, LiveInvAlways, PTL

\* A YES to an open nudge counts: when the poller is done with it, it has become a
\* payment, or the outcome of every loss it could be meant for was decided before it was
\* heard; unless a step of the poller failed (_poll_twilio_replies, record_reply).
THEOREM EveryYesCounts == Spec => []HeardYesCounts
  <1>1. LiveInv => HeardYesCounts
    BY DEF LiveInv
  <1> QED
    BY <1>1, LiveInvAlways, PTL

\* No step takes back an outcome or what it credits (attribution.py:161-165), though
\* launch() may put its loss back in recovery.
THEOREM OutcomesStand == Spec => OutcomeStands
  <1> DEFINE Stand == \A l \in Losses : outcome[l] # NoOutcome =>
                         outcome'[l] = outcome[l] /\ credited'[l] = credited[l]
  <1>1. LiveInv /\ [Next]_vars => [Stand]_vars
    <2> SUFFICES ASSUME LiveInv, [Next]_vars PROVE Stand
      OBVIOUS
    <2>1. LossesMove
      BY LossStep DEF LiveInv
    <2> QED
      BY <2>1 DEF LossesMove, LossMoves, Stays, Moves, Closes, Undecided
  <1> QED
    BY <1>1, LiveInvAlways, PTL DEF Spec, OutcomeStands
=============================================================================
