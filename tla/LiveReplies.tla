----------------------------- MODULE LiveReplies -----------------------------
(***************************************************************************)
(* The walk-up demo (live_demo.py), the click that launches it             *)
(* (orchestrator.py) and the thread that listens for the answers           *)
(* (live_poll.py).  A planted loss of one customer is decided by launch(): *)
(* a call and a WhatsApp message under one token that only the message's   *)
(* attempt carries.  The customer answers YES or NO to a number, not to a  *)
(* message; record_reply() works out which nudge was meant, turns a YES    *)
(* into a payment that carries its token, and attribution credits it.      *)
(*                                                                         *)
(* Attribution and the nudge cadence are RecoveryLedger's, for losses      *)
(* whose only payments are such answers.  The outbound queue is seen as    *)
(* Outbox promises it, but for a message the time that is written as       *)
(* executed_at is read before the provider has it and committed after.     *)
(***************************************************************************)
EXTENDS Integers, Sequences, FiniteSets

CONSTANTS
    Losses,         \* what is planted for the one phone number
    Sessions,       \* requests of launch_recovery
    Window,         \* the attribution window of an attempt
    MaxTries,       \* NUDGE_RETRY_MAX_TRIES
    PageSize,       \* how many messages a poll lists, ours among them
    MaxAttempts,    \* bound: attempts per loss
    MaxReplies,     \* bound: messages the customer sends
    MaxFaults,      \* bound: restarts, and failures of a reply or a sweep
    MaxTime         \* bound: the clock stops here

Never == 0
NoLoss == "no loss"
NoOutcome == "no outcome"
Unresolved == {"OPEN", "IN_RECOVERY"}
Closed == {"SUPPRESSED", "RECOVERED", "EXPIRED", "LOST"}
Outcomes == {"RECOVERED", "EXPIRED", "NOT_RECOVERED"}

ASSUME LiveConstantsOK ==
    /\ {Window, MaxTries, PageSize, MaxAttempts, MaxReplies, MaxFaults, MaxTime} \subseteq Nat
    /\ MaxTime > 0
    /\ NoLoss \notin Losses

VARIABLES
    clock,
    status, outcome,    \* of a loss, as in RecoveryLedger
    credited,   \* the attempt_number its outcome names, 0 for none
    attempts,   \* its recovery_attempts, each with the state of its dispatch
    tagged,     \* the losses whose row is stamped live_demo
    pending,    \* what a request of launch_recovery still has to launch
    inbox,      \* the customer's messages, in the order they were sent
    payments,   \* the captured payments that answers were turned into
    running,    \* the poller's thread is there
    seen,       \* _seen_message_sids
    step,       \* where the poller stands in its tick
    page,       \* the messages of this poll still to be recorded, newest first
    target,     \* the nudge the reply in hand is taken to answer
    asOf,       \* the time record_reply began
    restarts, faults    \* how often the backend was restarted, a step of it failed

lossVars == <<status, outcome, credited, attempts, tagged>>
worldVars == <<inbox, payments>>
pollVars == <<running, seen, step, page, target, asOf>>
vars == <<clock, lossVars, pending, worldVars, pollVars, restarts, faults>>

\* A dispatch is TAKEN when the provider has the message and SENT when that is
\* committed; one that was refused, then or when it was decided, is DROPPED.  What
\* becomes of a call is left out: nobody answers one by message.
Attempt == [channel : {"VOICE", "WHATSAPP"}, token : 0..MaxAttempts, decidedAt : Nat, at : Nat,
            stage : {"QUEUED", "TAKEN", "SENT", "DROPPED"}]
\* answerable: the losses a YES could be meant for, with their outcome at that time.
Message == [says : {"yes", "no"}, at : Nat,
            answerable : UNION {[S -> Outcomes \cup {NoOutcome}] : S \in SUBSET Losses}]
Payment == [loss : Losses, token : 1..MaxAttempts, reply : Nat]
Target == [loss : Losses \cup {NoLoss}, token : 0..MaxAttempts]
NoTarget == [loss |-> NoLoss, token |-> 0]

TypeOK ==
    /\ clock \in 1..MaxTime
    /\ status \in [Losses -> {"ABSENT"} \cup Unresolved \cup Closed]
    /\ outcome \in [Losses -> Outcomes \cup {NoOutcome}]
    /\ credited \in [Losses -> 0..MaxAttempts]
    /\ attempts \in [Losses -> Seq(Attempt)]
    /\ tagged \subseteq Losses
    /\ pending \in [Sessions -> SUBSET Losses]
    /\ inbox \in Seq(Message)
    /\ payments \subseteq Payment
    /\ running \in BOOLEAN
    /\ seen \subseteq DOMAIN inbox
    /\ step \in {"replies", "ingest", "attribute", "sweep", "nudges"}
    /\ page \subseteq DOMAIN inbox
    /\ target \in Target /\ asOf \in 0..MaxTime
    /\ restarts \in Nat /\ faults \in Nat /\ restarts + faults <= MaxFaults

Init ==
    /\ clock = 1
    /\ status = [l \in Losses |-> "ABSENT"]
    /\ outcome = [l \in Losses |-> NoOutcome]
    /\ credited = [l \in Losses |-> 0]
    /\ attempts = [l \in Losses |-> <<>>]
    /\ tagged = {}
    /\ pending = [s \in Sessions |-> {}]
    /\ inbox = <<>> /\ payments = {}
    /\ running = FALSE /\ seen = {} /\ step = "replies" /\ page = {}
    /\ target = NoTarget /\ asOf = Never
    /\ restarts = 0 /\ faults = 0

-----------------------------------------------------------------------------
(* Planting and launching.                                                 *)

\* plant(): the failure goes through ingestion and detection, committed there ...
Plant(l) ==
    /\ status[l] = "ABSENT"
    /\ status' = [status EXCEPT ![l] = "OPEN"]
    /\ UNCHANGED <<clock, outcome, credited, attempts, tagged, pending, worldVars,
                   pollVars, restarts, faults>>

\* ... and the row is stamped, the contact opted in, in a transaction of its own.
Stamp(l) ==
    /\ status[l] # "ABSENT" /\ l \notin tagged
    /\ tagged' = tagged \cup {l}
    /\ UNCHANGED <<clock, status, outcome, credited, attempts, pending, worldVars,
                   pollVars, restarts, faults>>

HasRoom(l, n) == Len(attempts[l]) + n <= MaxAttempts

\* One leg of a decision, which the bounds allow or refuse; only a nudge gets the
\* token, named here by the number of the decision's first attempt.
Leg(channel, allowed, nudge, first) ==
    [channel |-> channel, token |-> IF allowed /\ nudge THEN first ELSE 0,
     decidedAt |-> clock, at |-> Never,
     stage |-> IF allowed THEN "QUEUED" ELSE "DROPPED"]

\* Mutant: the call comes second and both legs are nudges.
FanOutBoth(l, call, message) ==
    LET first == Len(attempts[l]) + 1 IN
    <<Leg("WHATSAPP", message, TRUE, first), Leg("VOICE", call, TRUE, first)>>

FanOut(l, call, message) ==
    LET first == Len(attempts[l]) + 1 IN
    <<Leg("VOICE", call, FALSE, first), Leg("WHATSAPP", message, TRUE, first)>>

\* pending_live_demo
PendingLiveDemo == {l \in tagged : status[l] = "OPEN"}

\* What s has still to launch; with the last one it starts the poller, unless there
\* is one.
Pending(s, rest) ==
    /\ pending' = [pending EXCEPT ![s] = rest]
    /\ running' = (running \/ rest = {})

\* launch_recovery: run_batch decides what is not tagged, by one nudge or a refusal
\* that leaves the loss OPEN or ends it; then the planted ones are listed.
LaunchRecovery(s) ==
    LET batch == {l \in Losses \ tagged : status[l] = "OPEN"} IN
    /\ pending[s] = {}
    /\ \A l \in batch : HasRoom(l, 1)
    /\ \E answer \in [batch -> {"IN_RECOVERY", "OPEN", "SUPPRESSED"}] :
        /\ status' = [l \in Losses |-> IF l \in batch THEN answer[l] ELSE status[l]]
        /\ attempts' = [l \in Losses |->
              IF l \in batch
              THEN Append(attempts[l], Leg("WHATSAPP", answer[l] = "IN_RECOVERY", TRUE,
                                           Len(attempts[l]) + 1))
              ELSE attempts[l]]
    /\ Pending(s, PendingLiveDemo)
    /\ UNCHANGED <<clock, outcome, credited, tagged, worldVars, seen, step, page, target,
                   asOf, restarts, faults>>

\* launch(), which does not look at the status again.
Launch(s, l) ==
    /\ l \in pending[s]
    /\ Pending(s, pending[s] \ {l})
    /\ \/ UNCHANGED <<status, attempts>>    \* the policy's answer is STOP
       \/ /\ HasRoom(l, 2)
          /\ \E call, message \in BOOLEAN :
              /\ attempts' = [attempts EXCEPT ![l] = @ \o FanOut(l, call, message)]
              /\ status' = IF call \/ message
                           THEN [status EXCEPT ![l] = "IN_RECOVERY"] ELSE status
    /\ UNCHANGED <<clock, outcome, credited, tagged, worldVars, seen, step, page, target,
                   asOf, restarts, faults>>

-----------------------------------------------------------------------------
(* The outbound queue, and the customer.                                   *)

\* attribution_expires_at: from the decision until the message is sent.
ExpiresAt(a) == (IF a.stage = "SENT" THEN a.at ELSE a.decidedAt) + Window

SetAttempt(l, n, a) == attempts' = [attempts EXCEPT ![l][n] = a]

MessageTaken(l, n) ==
    /\ attempts[l][n].stage = "QUEUED" /\ attempts[l][n].channel = "WHATSAPP"
    /\ SetAttempt(l, n, [attempts[l][n] EXCEPT !.stage = "TAKEN"])

\* What is committed is the `now` that was read before the provider was called, or
\* that of the pass that takes over from a worker that died after the call.
CommitSend(l, n) ==
    /\ attempts[l][n].stage = "TAKEN"
    /\ \E now \in attempts[l][n].decidedAt..clock :
          SetAttempt(l, n, [attempts[l][n] EXCEPT !.stage = "SENT", !.at = now])

\* Suppressed, expired or refused.
DropSend(l, n) ==
    /\ attempts[l][n].stage = "QUEUED" /\ attempts[l][n].channel = "WHATSAPP"
    /\ SetAttempt(l, n, [attempts[l][n] EXCEPT !.stage = "DROPPED"])

Dispatch(l) ==
    /\ \E n \in DOMAIN attempts[l] :
          \/ MessageTaken(l, n) \/ CommitSend(l, n) \/ DropSend(l, n)
    /\ UNCHANGED <<clock, status, outcome, credited, tagged, pending, worldVars,
                   pollVars, restarts, faults>>

\* What a customer who writes now could be answering: sent, and its loss unresolved.
InOpenNudges ==
    {l \in Losses :
        /\ status[l] \in Unresolved
        /\ \E n \in DOMAIN attempts[l] :
              attempts[l][n].token # 0 /\ attempts[l][n].stage = "SENT"}

\* The customer answers at any time, whatever was sent.
Reply(answer) ==
    /\ Len(inbox) < MaxReplies
    /\ LET open == IF answer = "yes" THEN InOpenNudges ELSE {} IN
       inbox' = Append(inbox, [says |-> answer, at |-> clock,
                               answerable |-> [l \in open |-> outcome[l]]])
    /\ UNCHANGED <<clock, lossVars, pending, payments, pollVars, restarts,
                   faults>>

-----------------------------------------------------------------------------
(* One tick of the poller: the replies, one after another, then the sweeps. *)

CanFail == restarts + faults < MaxFaults
Mishap == CanFail /\ faults' = faults + 1

\* The last k messages of the customer.
Newest(k) == {m \in DOMAIN inbox : m > Len(inbox) - k}

\* Mutant: what was seen is offered again.
NewRepliesAgain(k) == Newest(k)

NewReplies(k) == Newest(k) \ seen

Latest(numbers) == CHOOSE n \in numbers : \A m \in numbers : m <= n

\* _poll_twilio_replies.  How many of the newest PageSize messages are replies is a
\* matter of what else was sent; a list call that fails shows none.
ListMessages ==
    /\ running /\ step = "replies" /\ page = {}
    /\ \E k \in 0..PageSize :
          /\ page' = NewReplies(k)
          /\ step' = IF NewReplies(k) = {} THEN "sweep" ELSE step
    /\ UNCHANGED <<clock, lossVars, pending, worldVars, running, seen, target, asOf,
                   restarts, faults>>

\* The reply in hand is the newest of the page.
InHand == Latest(page)

\* On to the next reply of the page, or to the sweeps.
NextReply ==
    /\ page' = page \ {InHand}
    /\ step' = IF page \subseteq {InHand} THEN "sweep" ELSE "replies"

\* Mutants of AwaitingReply: a nudge of any time; only losses that are still OPEN.
AwaitingAnyTime(t) ==
    {a \in Losses \X (1..MaxAttempts) :
        /\ a[2] \in DOMAIN attempts[a[1]] /\ status[a[1]] \in Unresolved
        /\ attempts[a[1]][a[2]].token # 0 /\ attempts[a[1]][a[2]].stage = "SENT"}
AwaitingOpen(t) ==
    {a \in Losses \X (1..MaxAttempts) :
        /\ a[2] \in DOMAIN attempts[a[1]] /\ status[a[1]] = "OPEN"
        /\ attempts[a[1]][a[2]].token # 0 /\ attempts[a[1]][a[2]].stage = "SENT"
        /\ attempts[a[1]][a[2]].at <= t}

\* The nudges that were executed by time t and whose loss is unresolved.
AwaitingReply(t) ==
    {a \in Losses \X (1..MaxAttempts) :
        /\ a[2] \in DOMAIN attempts[a[1]] /\ status[a[1]] \in Unresolved
        /\ attempts[a[1]][a[2]].token # 0 /\ attempts[a[1]][a[2]].stage = "SENT"
        /\ attempts[a[1]][a[2]].at <= t}

\* record_reply up to its first session's end: the most recent of them is meant.
MatchReply ==
    LET m == inbox[InHand]
        awaiting == AwaitingReply(m.at)
    IN
    /\ running /\ step = "replies" /\ page # {}
    /\ seen' = seen \cup {InHand}
    /\ \/ /\ m.says = "no" \/ awaiting = {}
          /\ NextReply
          /\ UNCHANGED <<target, asOf>>
       \/ /\ m.says = "yes"
          /\ \E a \in awaiting :
                /\ \A b \in awaiting : attempts[b[1]][b[2]].at <= attempts[a[1]][a[2]].at
                /\ target' = [loss |-> a[1], token |-> attempts[a[1]][a[2]].token]
          /\ step' = "ingest" /\ asOf' = clock
          /\ UNCHANGED page
    /\ UNCHANGED <<clock, lossVars, pending, worldVars, running, restarts,
                   faults>>

\* The payment event is imported and drained.  Its loss has attempts, so the success
\* handler leaves it to attribution.
IngestReply ==
    /\ step = "ingest"
    /\ payments' = payments \cup {[loss |-> target.loss, token |-> target.token,
                                   reply |-> InHand]}
    /\ step' = "attribute"
    /\ target' = NoTarget
    /\ UNCHANGED <<clock, lossVars, pending, inbox, running, seen, page, asOf, restarts, faults>>

\* An error before the payment is in: logged, and the next reply is taken up.
LoseReply ==
    /\ step = "ingest" \/ (step = "replies" /\ page # {})
    /\ seen' = seen \cup {InHand}
    /\ NextReply /\ target' = NoTarget /\ asOf' = Never
    /\ Mishap
    /\ UNCHANGED <<clock, lossVars, pending, worldVars, running, restarts>>

-----------------------------------------------------------------------------
(* Attribution and the nudge cadence.                                      *)

\* Mutant: only the status is looked at.
UndecidedByStatus(l) == status[l] \in Unresolved

Undecided(l) == status[l] \in Unresolved /\ outcome[l] = NoOutcome

\* The attempts of l whose token came back with a payment.
Redeemed(l) ==
    {n \in DOMAIN attempts[l] :
        \E p \in payments : p.loss = l /\ p.token = attempts[l][n].token}

Expired(l, now) == ExpiresAt(attempts[l][Len(attempts[l])]) < now

\* Mutant: the outcome's name is written as the row's status.
AttributionNamed(now) ==
    LET over == {l \in Losses : Undecided(l) /\ attempts[l] # <<>> /\ Expired(l, now)} IN
    /\ status' = [l \in Losses |-> IF l \in over THEN "NOT_RECOVERED" ELSE status[l]]
    /\ outcome' = [l \in Losses |-> IF l \in over THEN "EXPIRED" ELSE outcome[l]]
    /\ UNCHANGED <<credited, attempts, tagged>>

\* run_attribution as of a time: the latest redeemed token, else the latest window.
Attribution(now) ==
    LET won == {l \in Losses : Undecided(l) /\ Redeemed(l) # {}}
        over == {l \in Losses \ won : /\ Undecided(l) /\ attempts[l] # <<>>
                                      /\ Expired(l, now)}
    IN
    /\ status' = [l \in Losses |-> IF l \in won THEN "RECOVERED"
                                   ELSE IF l \in over THEN "EXPIRED" ELSE status[l]]
    /\ outcome' = [l \in Losses |-> IF l \in won THEN "RECOVERED"
                                    ELSE IF l \in over THEN "EXPIRED" ELSE outcome[l]]
    /\ credited' = [l \in Losses |-> IF l \in won THEN Latest(Redeemed(l))
                                     ELSE credited[l]]
    /\ UNCHANGED <<attempts, tagged>>

SentNudges(l) ==
    {n \in DOMAIN attempts[l] : attempts[l][n].token # 0 /\ attempts[l][n].stage = "SENT"}

\* process_expired_nudges: what no open window covers is retried or given up.
Nudges ==
    LET due == {l \in Losses : /\ Undecided(l) /\ SentNudges(l) # {}
                               /\ ExpiresAt(attempts[l][Latest(SentNudges(l))]) < clock}
        last == {l \in due : Cardinality(SentNudges(l)) >= MaxTries}
    IN
    /\ \A l \in due \ last : HasRoom(l, 1)
    /\ status' = [l \in Losses |-> IF l \in last THEN "LOST" ELSE status[l]]
    /\ outcome' = [l \in Losses |-> IF l \in last THEN "NOT_RECOVERED" ELSE outcome[l]]
    /\ \E allowed \in SUBSET (due \ last) :
          attempts' = [l \in Losses |->
              IF l \in due \ last
              THEN Append(attempts[l], Leg("WHATSAPP", l \in allowed, TRUE,
                                           Len(attempts[l]) + 1))
              ELSE attempts[l]]
    /\ UNCHANGED <<credited, tagged>>

\* The end of record_reply; what fails here is left to the sweep.
AttributeReply ==
    /\ step = "attribute"
    /\ NextReply /\ asOf' = Never
    /\ \/ Attribution(asOf) /\ UNCHANGED faults
       \/ Mishap /\ UNCHANGED lossVars
    /\ UNCHANGED <<clock, pending, worldVars, running, seen, target, restarts>>

\* _sweep_attribution, in two transactions that fail apart.
SweepAttribution ==
    /\ running /\ step = "sweep"
    /\ step' = "nudges"
    /\ \/ Attribution(clock) /\ UNCHANGED faults
       \/ Mishap /\ UNCHANGED lossVars
    /\ UNCHANGED <<clock, pending, worldVars, running, seen, page, target, asOf,
                   restarts>>

SweepNudges ==
    /\ step = "nudges"
    /\ step' = "replies"
    /\ \/ Nudges /\ UNCHANGED faults
       \/ Mishap /\ UNCHANGED lossVars
    /\ UNCHANGED <<clock, pending, worldVars, running, seen, page, target, asOf,
                   restarts>>

-----------------------------------------------------------------------------
(* Restarts, and the clock.                                                *)

\* The requests, the poller and what it has seen are gone.
Restart ==
    /\ CanFail /\ restarts' = restarts + 1
    /\ pending' = [s \in Sessions |-> {}]
    /\ running' = FALSE /\ seen' = {}
    /\ step' = "replies" /\ page' = {} /\ target' = NoTarget /\ asOf' = Never
    /\ UNCHANGED <<clock, lossVars, worldVars, faults>>

\* ensure_live_poll, on every load of the dashboard.
PageLoad ==
    /\ ~running /\ running' = TRUE
    /\ UNCHANGED <<clock, lossVars, pending, worldVars, seen, step, page, target, asOf,
                   restarts, faults>>

Tick ==
    /\ clock < MaxTime /\ clock' = clock + 1
    /\ UNCHANGED <<lossVars, pending, worldVars, pollVars, restarts, faults>>

Poll ==
    \/ ListMessages \/ MatchReply \/ IngestReply \/ LoseReply
    \/ AttributeReply \/ SweepAttribution \/ SweepNudges

Next ==
    \/ \E l \in Losses : Plant(l) \/ Stamp(l) \/ Dispatch(l)
    \/ \E s \in Sessions :
          \/ LaunchRecovery(s)
          \/ \E l \in Losses : Launch(s, l)
    \/ \E answer \in {"yes", "no"} : Reply(answer)
    \/ Poll
    \/ Restart \/ PageLoad \/ Tick

Spec == Init /\ [][Next]_vars

-----------------------------------------------------------------------------
(* Properties.                                                             *)

RecoveredBy(m) ==
    {l \in Losses : outcome[l] = "RECOVERED" /\ \E p \in payments :
        /\ p.loss = l /\ p.reply = m
        /\ p.token = attempts[l][credited[l]].token}

\* One YES recovers one loss, and one more for every restart that made the poller
\* forget it: _seen_message_sids "is in-memory and does not survive one".
RepliesRecoverOnce ==
    \A m \in DOMAIN inbox : Cardinality(RecoveredBy(m)) <= restarts + 1

\* live_demo.py:459-462: an old reply, offered again after a restart, does not "redeem
\* a token minted AFTER it was sent": what a YES redeems was decided, sent and on
\* record as sent before the reply's own time.
AnswersWhatWasSent ==
    \A p \in payments : \E n \in DOMAIN attempts[p.loss] :
        LET a == attempts[p.loss][n] IN
        /\ a.token = p.token /\ a.stage = "SENT"
        /\ a.at <= inbox[p.reply].at /\ a.decidedAt <= a.at

\* live_demo.py:16-23, "THE CALL CANNOT BE CREDITED WITH A RECOVERY".
CallNotCredited ==
    \A l \in Losses : outcome[l] = "RECOVERED" =>
        attempts[l][credited[l]].channel # "VOICE"

\* An outcome stands, with the attempt it credits, though launch() may put its loss
\* back in recovery and a YES may then be taken to answer it (attribution.py:161-165).
OutcomeStands ==
    [][\A l \in Losses : outcome[l] # NoOutcome =>
          outcome'[l] = outcome[l] /\ credited'[l] = credited[l]]_vars

\* A YES to an open nudge counts: when the poller is done with it, it has become a
\* payment, or the outcome of every loss it could be meant for was decided before it
\* was heard.  Excused are what was lost to an error and what was not heard.
HeardYesCounts ==
    \A m \in seen \ page :
        /\ inbox[m].says = "yes" /\ DOMAIN inbox[m].answerable # {}
        /\ faults = 0
        => \/ \E p \in payments : p.reply = m
           \/ \A l \in DOMAIN inbox[m].answerable : outcome[l] # inbox[m].answerable[l]
=============================================================================
