--------------------------- MODULE DispatchWorker ---------------------------
(***************************************************************************)
(* The outbound work list and its workers: app/dispatch_queue.py and       *)
(* app/dispatch_worker.py, with the recovery_attempts row that every       *)
(* dispatch closes and the customer_contactability row it paces.           *)
(*                                                                         *)
(* A worker claims a batch (one transaction), then handles its rows one    *)
(* after the other: it reads the row and checks the bounds, calls the      *)
(* provider, commits the provider's message id, and commits the outcome.   *)
(* A branch that calls no provider is one action, since nothing outside    *)
(* the database happens between its read and its commit; the branch that   *)
(* calls one is split at every commit and at the call, because a crash, a  *)
(* second worker or the clock can come between.  What a worker read before *)
(* the call (seenAt, seenTries) is what it commits after it.               *)
(***************************************************************************)
EXTENDS Bounds, FiniteSets

CONSTANTS
    Dispatches,      \* identities of outbound_dispatches rows (one per attempt)
    Workers,         \* processes and threads that call drain()
    Contacts,        \* (customer, channel) pairs with a contactability row
    Customers,
    ContactOf,       \* [Dispatches -> Contacts]
    CustomerOf,      \* [Dispatches -> Customers]
    ChannelOf,       \* [Dispatches -> channel names]
    ReturnsId,       \* dispatches whose provider hands back a message id (Twilio)
    Priority,        \* [Dispatches -> Int], priority_for at enqueue time
    BatchSize,       \* BATCH_SIZE
    LockTimeout,     \* LOCK_TIMEOUT
    Backoff,         \* [1..n -> time], RETRY_BACKOFF_SECONDS
    BackoffSteps,    \* n, the length of RETRY_BACKOFF_SECONDS
    MaxTries,        \* max_delivery_tries
    StaleAfter,      \* DISPATCH_STALE_AFTER
    DeferBy,         \* RATE_LIMIT_DEFER_SECONDS
    RateWindow,      \* the hour of max_sends_per_hour
    MaxSendsPerHour,
    WeeklyCap,       \* max_contacts_per_week; runs are shorter than a week
    MinGap,          \* min_gap_hours
    QuietTimes,      \* the clock values inside quiet hours
    MaxTime,         \* bound: the clock stops here
    LastEnqueue,     \* bound: no row is enqueued after this time
    LastFault,       \* bound: no fault after this time
    LastSwitch,      \* bound: no opt-out and no switch of recovery after this time
    MaxFaults        \* bound: crashes, exceptions and lost answers together

Never == 0           \* a NULL timestamp; the clock starts at 1
NoDispatch == "no dispatch"
NoReason == "no reason"

ASSUME ConstantsOK ==
    /\ ContactOf \in [Dispatches -> Contacts]
    /\ CustomerOf \in [Dispatches -> Customers]
    /\ Priority \in [Dispatches -> Int]
    /\ BackoffSteps \in Nat \ {0} /\ Backoff \in [1..BackoffSteps -> Nat]
    /\ {LockTimeout, MaxTries, StaleAfter, DeferBy, RateWindow, MaxSendsPerHour,
        WeeklyCap, MinGap, MaxTime, LastEnqueue, LastFault, LastSwitch,
        MaxFaults, BatchSize} \subseteq Nat
    /\ ReturnsId \subseteq Dispatches /\ NoDispatch \notin Dispatches

\* Some number of processes and threads drain the queue: one at least.
ASSUME WorkersOK == IsFiniteSet(Workers) /\ Workers # {}

VARIABLES
    clock,
    status, scheduledFor, lockedUntil, expiresAt, messageId, tries, sentAt,
        \* columns of outbound_dispatches; messageId: provider_message_id is set
    executedAt, reason,
        \* columns of recovery_attempts: executed_at, suppressed_reason
    lastContact,     \* customer_contactability.last_contacted_at
    consent,         \* opted in, and neither bounced nor on the DND register
    enabled,         \* businesses.recovery_enabled
    phase, batch, cur, seenAt, seenTries, seenPending,
        \* a worker: its place in _process_one, the rows it has still to do, the
        \* row in hand, and what it read of that row: when, with what tries, and
        \* whether as PENDING (the session writes back only what it changes)
    sends, lost, faults
        \* history: messages the provider accepted, how many of them left no
        \* durable trace, and the faults so far

rowVars == <<status, scheduledFor, lockedUntil, expiresAt, messageId, tries, sentAt>>
attemptVars == <<executedAt, reason>>
workerVars == <<phase, batch, cur, seenAt, seenTries, seenPending>>
switchVars == <<consent, enabled>>
historyVars == <<sends, lost, faults>>
vars == <<clock, rowVars, attemptVars, lastContact, switchVars, workerVars, historyVars>>

Open == {"PENDING", "IN_FLIGHT"}
Dropped == {"SUPPRESSED", "EXPIRED", "FAILED"}
Terminal == {"SENT"} \cup Dropped
Phases == {"idle", "ready", "calling", "accepted", "recorded"}
AtSendReasons == ChannelReasons \cup {"recovery_disabled_for_business"}
AttemptReasons ==
    AtSendReasons \cup {"dispatch_expired_unsent", "dispatch_failed", NoReason}

TypeOK ==
    /\ clock \in 1..(MaxTime + 1)
    /\ status \in [Dispatches -> {"ABSENT"} \cup Open \cup Terminal]
    /\ scheduledFor \in [Dispatches -> Nat]
    /\ lockedUntil \in [Dispatches -> Nat]
    /\ expiresAt \in [Dispatches -> Nat]
    /\ messageId \in [Dispatches -> BOOLEAN]
    /\ tries \in [Dispatches -> Nat]
    /\ sentAt \in [Dispatches -> Nat]
    /\ executedAt \in [Dispatches -> Nat]
    /\ reason \in [Dispatches -> AttemptReasons]
    /\ lastContact \in [Contacts -> Nat]
    /\ consent \in [Contacts -> BOOLEAN]
    /\ enabled \in BOOLEAN
    /\ phase \in [Workers -> Phases]
    /\ batch \in [Workers -> SUBSET Dispatches]
    /\ cur \in [Workers -> Dispatches \cup {NoDispatch}]
    /\ seenAt \in [Workers -> Nat]
    /\ seenTries \in [Workers -> Nat]
    /\ seenPending \in [Workers -> BOOLEAN]
    /\ sends \in [Dispatches -> Nat]
    /\ lost \in [Dispatches -> Nat]
    /\ faults \in 0..MaxFaults
-----------------------------------------------------------------------------
Init ==
    /\ clock = 1
    /\ status = [d \in Dispatches |-> "ABSENT"]
    /\ scheduledFor = [d \in Dispatches |-> Never]
    /\ lockedUntil = [d \in Dispatches |-> Never]
    /\ expiresAt = [d \in Dispatches |-> Never]
    /\ messageId = [d \in Dispatches |-> FALSE]
    /\ tries = [d \in Dispatches |-> 0]
    /\ sentAt = [d \in Dispatches |-> Never]
    /\ executedAt = [d \in Dispatches |-> Never]
    /\ reason = [d \in Dispatches |-> NoReason]
    /\ lastContact = [c \in Contacts |-> Never]
    /\ consent = [c \in Contacts |-> TRUE]
    /\ enabled = TRUE
    /\ phase = [w \in Workers |-> "idle"]
    /\ batch = [w \in Workers |-> {}]
    /\ cur = [w \in Workers |-> NoDispatch]
    /\ seenAt = [w \in Workers |-> Never]
    /\ seenTries = [w \in Workers |-> 0]
    /\ seenPending = [w \in Workers |-> FALSE]
    /\ sends = [d \in Dispatches |-> 0]
    /\ lost = [d \in Dispatches |-> 0]
    /\ faults = 0

-----------------------------------------------------------------------------
(* What the workers read.                                                  *)

\* The executed attempts that H7 counts.
ContactsThisWeek(c) ==
    Cardinality({d \in Dispatches : CustomerOf[d] = c /\ executedAt[d] # Never})

\* Mutant: the contact cap is off by one.
SendTimeReasonLate(d) ==
    LET c == ContactOf[d] IN
    IF ~enabled THEN "recovery_disabled_for_business"
    ELSE ChannelReason(ChannelOf[d],
                       [found |-> TRUE, optedIn |-> consent[c],
                        hardBounced |-> FALSE, dnd |-> FALSE],
                       clock \in QuietTimes,
                       ContactsThisWeek(CustomerOf[d]), WeeklyCap + 1,
                       lastContact[c] # Never, clock - lastContact[c], MinGap)

\* _check_channel_bounds as the dispatch worker calls it, after the
\* business-level switches; H1, H5 and H9 are one fact here, consent.
SendTimeReason(d) ==
    LET c == ContactOf[d] IN
    IF ~enabled THEN "recovery_disabled_for_business"
    ELSE ChannelReason(ChannelOf[d],
                       [found |-> TRUE, optedIn |-> consent[c],
                        hardBounced |-> FALSE, dnd |-> FALSE],
                       clock \in QuietTimes,
                       ContactsThisWeek(CustomerOf[d]), WeeklyCap,
                       lastContact[c] # Never, clock - lastContact[c], MinGap)

SentThisHour ==
    Cardinality({d \in Dispatches : /\ status[d] = "SENT"
                                    /\ sentAt[d] >= clock - RateWindow})

\* The claim order: priority DESC, scheduled_for.
Before(d, e) ==
    \/ Priority[d] > Priority[e]
    \/ Priority[d] = Priority[e] /\ scheduledFor[d] < scheduledFor[e]

\* Mutant: a claim forgets to look at the lease of a row in flight.
ClaimableInLease ==
    {d \in Dispatches : status[d] \in Open /\ scheduledFor[d] <= clock}

\* Mutant: what is in flight is never claimed again.
ClaimableOnce ==
    {d \in Dispatches : status[d] = "PENDING" /\ scheduledFor[d] <= clock}

\* Mutant: failed rows are taken up again.
ClaimableFailed ==
    {d \in Dispatches : /\ status[d] \in {"PENDING", "FAILED"}
                        /\ scheduledFor[d] <= clock}

Claimable ==
    {d \in Dispatches :
        /\ \/ status[d] = "PENDING"
           \/ status[d] = "IN_FLIGHT" /\ lockedUntil[d] < clock
        /\ scheduledFor[d] <= clock}

\* The rows a worker has claimed and not yet finished with.
Held(w) == batch[w] \cup ({cur[w]} \ {NoDispatch})

\* The next row of the batch, in claim order.
Picks(w, d) ==
    /\ phase[w] = "ready"
    /\ d \in batch[w]
    /\ \A e \in batch[w] : ~Before(e, d)

\* Worker w is done with the row in hand and has the rows of rest to do.
GoOnWith(w, rest) ==
    /\ phase' = [phase EXCEPT ![w] = IF rest = {} THEN "idle" ELSE "ready"]
    /\ batch' = [batch EXCEPT ![w] = rest]
    /\ cur' = [cur EXCEPT ![w] = NoDispatch]
    /\ seenAt' = [seenAt EXCEPT ![w] = Never]
    /\ seenTries' = [seenTries EXCEPT ![w] = 0]
    /\ seenPending' = [seenPending EXCEPT ![w] = FALSE]

MayFault == faults < MaxFaults /\ clock <= LastFault

-----------------------------------------------------------------------------
(* enqueue_one, called by execute_action once every bound has passed.      *)
Enqueue(d) ==
    /\ status[d] = "ABSENT"
    /\ clock <= LastEnqueue
    /\ SendTimeReason(d) = Allowed
    /\ status' = [status EXCEPT ![d] = "PENDING"]
    /\ scheduledFor' = [scheduledFor EXCEPT ![d] = clock]
    /\ expiresAt' = [expiresAt EXCEPT ![d] = clock + StaleAfter]
    /\ UNCHANGED <<clock, lockedUntil, messageId, tries, sentAt, attemptVars,
                   lastContact, switchVars, workerVars, historyVars>>

(* _claim_batch: one transaction takes the first BatchSize claimable rows. *)
Claim(w) ==
    /\ phase[w] = "idle"
    /\ \E ids \in SUBSET Claimable :
        /\ ids # {}
        /\ \/ ids = Claimable /\ Cardinality(ids) <= BatchSize
           \/ Cardinality(ids) = BatchSize
        /\ \A d \in ids, e \in Claimable \ ids : ~Before(e, d)
        /\ status' = [d \in Dispatches |-> IF d \in ids THEN "IN_FLIGHT" ELSE status[d]]
        /\ lockedUntil' = [d \in Dispatches |->
                              IF d \in ids THEN clock + LockTimeout ELSE lockedUntil[d]]
        /\ phase' = [phase EXCEPT ![w] = "ready"]
        /\ batch' = [batch EXCEPT ![w] = ids]
    /\ UNCHANGED <<clock, scheduledFor, expiresAt, messageId, tries, sentAt,
                   attemptVars, lastContact, switchVars, cur, seenAt, seenTries,
                   seenPending, historyVars>>

-----------------------------------------------------------------------------
(* _process_one, up to the provider call.                                  *)

\* The row was closed by another pass.
Skip(w, d) ==
    /\ Picks(w, d)
    /\ status[d] \notin Open
    /\ GoOnWith(w, batch[w] \ {d})
    /\ UNCHANGED <<clock, rowVars, attemptVars, lastContact, switchVars, historyVars>>

\* A provider id is on the row: close the books, do not send again.
Recover(w, d) ==
    /\ Picks(w, d)
    /\ status[d] \in Open
    /\ messageId[d]
    /\ status' = [status EXCEPT ![d] = "SENT"]
    /\ sentAt' = [sentAt EXCEPT ![d] = IF @ = Never THEN clock ELSE @]
    /\ executedAt' = [executedAt EXCEPT ![d] = IF @ = Never THEN clock ELSE @]
    /\ GoOnWith(w, batch[w] \ {d})
    /\ UNCHANGED <<clock, scheduledFor, lockedUntil, expiresAt, messageId, tries,
                   reason, lastContact, switchVars, historyVars>>

\* Mutant: the arguments swapped.
DropSwapped(d, s, r) ==
    /\ status' = [status EXCEPT ![d] = r]
    /\ reason' = [reason EXCEPT ![d] = s]
    /\ UNCHANGED <<executedAt, sentAt>>

\* Mutant: the attempt is not closed with its row.
DropRowOnly(d, s, r) ==
    /\ status' = [status EXCEPT ![d] = s]
    /\ UNCHANGED <<reason, executedAt, sentAt>>

\* _finalize_attempt(executed=False) with the row closed as s for reason r.
Drop(d, s, r) ==
    /\ status' = [status EXCEPT ![d] = s]
    /\ reason' = [reason EXCEPT ![d] = r]
    /\ UNCHANGED <<executedAt, sentAt>>

\* Mutant: staleness is checked before the provider id.
ExpireFirst(w, d) ==
    /\ Picks(w, d)
    /\ status[d] \in Open
    /\ expiresAt[d] < clock
    /\ Drop(d, "EXPIRED", "dispatch_expired_unsent")
    /\ GoOnWith(w, batch[w] \ {d})
    /\ UNCHANGED <<clock, scheduledFor, lockedUntil, expiresAt, messageId, tries,
                   lastContact, switchVars, historyVars>>

Expire(w, d) ==
    /\ Picks(w, d)
    /\ status[d] \in Open /\ ~messageId[d]
    /\ expiresAt[d] < clock
    /\ Drop(d, "EXPIRED", "dispatch_expired_unsent")
    /\ GoOnWith(w, batch[w] \ {d})
    /\ UNCHANGED <<clock, scheduledFor, lockedUntil, expiresAt, messageId, tries,
                   lastContact, switchVars, historyVars>>

\* Mutant: the provider id is not looked at.
SendableDespiteId(w, d) ==
    /\ Picks(w, d)
    /\ status[d] \in Open
    /\ expiresAt[d] >= clock

\* The row passed the guards above the bounds re-check.
Sendable(w, d) ==
    /\ Picks(w, d)
    /\ status[d] \in Open /\ ~messageId[d]
    /\ expiresAt[d] >= clock

Suppress(w, d) ==
    /\ Sendable(w, d)
    /\ SendTimeReason(d) # Allowed
    /\ Drop(d, "SUPPRESSED", SendTimeReason(d))
    /\ GoOnWith(w, batch[w] \ {d})
    /\ UNCHANGED <<clock, scheduledFor, lockedUntil, expiresAt, messageId, tries,
                   lastContact, switchVars, historyVars>>

\* max_sends_per_hour is reached: the row waits, no try is counted.
Defer(w, d) ==
    /\ Sendable(w, d)
    /\ SendTimeReason(d) = Allowed
    /\ SentThisHour >= MaxSendsPerHour
    /\ status' = [status EXCEPT ![d] = "PENDING"]
    /\ scheduledFor' = [scheduledFor EXCEPT ![d] = clock + DeferBy]
    /\ lockedUntil' = [lockedUntil EXCEPT ![d] = Never]
    /\ GoOnWith(w, batch[w] \ {d})
    /\ UNCHANGED <<clock, expiresAt, messageId, tries, sentAt, attemptVars,
                   lastContact, switchVars, historyVars>>

\* Mutant: max_sends_per_hour is not looked at.
CallUncapped(w, d) ==
    /\ Sendable(w, d)
    /\ SendTimeReason(d) = Allowed
    /\ phase' = [phase EXCEPT ![w] = "calling"]
    /\ batch' = [batch EXCEPT ![w] = @ \ {d}]
    /\ cur' = [cur EXCEPT ![w] = d]
    /\ seenAt' = [seenAt EXCEPT ![w] = clock]
    /\ seenTries' = [seenTries EXCEPT ![w] = tries[d]]
    /\ seenPending' = [seenPending EXCEPT ![w] = status[d] = "PENDING"]
    /\ UNCHANGED <<clock, rowVars, attemptVars, lastContact, switchVars, historyVars>>

\* Every check passed: the request to the provider goes out.
CallProvider(w, d) ==
    /\ Sendable(w, d)
    /\ SendTimeReason(d) = Allowed
    /\ SentThisHour < MaxSendsPerHour
    /\ phase' = [phase EXCEPT ![w] = "calling"]
    /\ batch' = [batch EXCEPT ![w] = @ \ {d}]
    /\ cur' = [cur EXCEPT ![w] = d]
    /\ seenAt' = [seenAt EXCEPT ![w] = clock]
    /\ seenTries' = [seenTries EXCEPT ![w] = tries[d]]
    /\ seenPending' = [seenPending EXCEPT ![w] = status[d] = "PENDING"]
    /\ UNCHANGED <<clock, rowVars, attemptVars, lastContact, switchVars, historyVars>>
-----------------------------------------------------------------------------
(* _process_one, the provider call and what follows it.                    *)

\* The provider takes the message.
ProviderAccepts(w) ==
    /\ phase[w] = "calling"
    /\ phase' = [phase EXCEPT ![w] = "accepted"]
    /\ sends' = [sends EXCEPT ![cur[w]] = @ + 1]
    /\ UNCHANGED <<clock, rowVars, attemptVars, lastContact, switchVars, batch,
                   cur, seenAt, seenTries, seenPending, lost, faults>>

\* The send comes back as a failure, for good (not configured) or not, and the
\* failure is committed.  misreported: the message did go out, its answer did
\* not come back (a timeout after the request, an error closing the session).
ProviderFails(w, permanent, misreported) ==
    LET d == cur[w]
        t == seenTries[w] + 1
        givenUp == permanent \/ t >= MaxTries
        step == IF t < BackoffSteps THEN t ELSE BackoffSteps
    IN
    /\ phase[w] = "calling"
    /\ misreported => ~permanent /\ MayFault
    /\ tries' = [tries EXCEPT ![d] = t]
    /\ \/ /\ givenUp
          /\ Drop(d, "FAILED", "dispatch_failed")
          /\ UNCHANGED <<scheduledFor, lockedUntil>>
       \/ /\ ~givenUp
          /\ scheduledFor' = [scheduledFor EXCEPT ![d] = seenAt[w] + Backoff[step]]
          /\ \/ /\ seenPending[w]
                /\ UNCHANGED <<status, lockedUntil>>
             \/ /\ ~seenPending[w]
                /\ status' = [status EXCEPT ![d] = "PENDING"]
                /\ lockedUntil' = [lockedUntil EXCEPT ![d] = Never]
          /\ UNCHANGED <<reason, executedAt, sentAt>>
    /\ GoOnWith(w, batch[w])
    /\ \/ misreported /\ sends' = [sends EXCEPT ![d] = @ + 1]
                      /\ lost' = [lost EXCEPT ![d] = @ + 1]
                      /\ faults' = faults + 1
       \/ ~misreported /\ UNCHANGED historyVars
    /\ UNCHANGED <<clock, expiresAt, messageId, lastContact, switchVars>>

\* The provider's id, in a commit of its own.
RecordId(w) ==
    /\ phase[w] = "accepted"
    /\ cur[w] \in ReturnsId
    /\ messageId' = [messageId EXCEPT ![cur[w]] = TRUE]
    /\ phase' = [phase EXCEPT ![w] = "recorded"]
    /\ UNCHANGED <<clock, status, scheduledFor, lockedUntil, expiresAt, tries, sentAt,
                   attemptVars, lastContact, switchVars, batch, cur, seenAt,
                   seenTries, seenPending, historyVars>>

\* Mutant: the books are closed before the provider has answered.
CommitEarly(w) ==
    LET d == cur[w] IN
    /\ phase[w] = "calling"
    /\ status' = [status EXCEPT ![d] = "SENT"]
    /\ sentAt' = [sentAt EXCEPT ![d] = seenAt[w]]
    /\ executedAt' = [executedAt EXCEPT ![d] = seenAt[w]]
    /\ lastContact' = [lastContact EXCEPT ![ContactOf[d]] = seenAt[w]]
    /\ GoOnWith(w, batch[w])
    /\ UNCHANGED <<clock, scheduledFor, lockedUntil, expiresAt, messageId, tries,
                   reason, switchVars, historyVars>>

\* _finalize_attempt(executed=True), with the row and the contact's pacing.
CommitSent(w) ==
    LET d == cur[w] IN
    /\ \/ phase[w] = "recorded"
       \/ phase[w] = "accepted" /\ d \notin ReturnsId
    /\ status' = [status EXCEPT ![d] = "SENT"]
    /\ sentAt' = [sentAt EXCEPT ![d] = seenAt[w]]
    /\ executedAt' = [executedAt EXCEPT ![d] = seenAt[w]]
    /\ lastContact' = [lastContact EXCEPT ![ContactOf[d]] = seenAt[w]]
    /\ GoOnWith(w, batch[w])
    /\ UNCHANGED <<clock, scheduledFor, lockedUntil, expiresAt, messageId, tries,
                   reason, switchVars, historyVars>>

-----------------------------------------------------------------------------
(* What can go wrong, and the environment.                                 *)

\* A message whose acceptance is not yet in the database leaves no trace.
LoseTrace(w) ==
    /\ MayFault
    /\ faults' = faults + 1
    /\ lost' = IF phase[w] = "accepted" THEN [lost EXCEPT ![cur[w]] = @ + 1] ELSE lost
    /\ UNCHANGED sends

\* The process dies; what it claimed stays IN_FLIGHT until the lease expires.
Crash(w) ==
    /\ phase[w] # "idle"
    /\ LoseTrace(w)
    /\ GoOnWith(w, {})
    /\ UNCHANGED <<clock, rowVars, attemptVars, lastContact, switchVars>>

\* An exception (the database, mostly): drain() goes on with the next row.
ProcessError(w) ==
    /\ LoseTrace(w)
    /\ \/ cur[w] # NoDispatch /\ GoOnWith(w, batch[w])
       \/ \E d \in batch[w] : Picks(w, d) /\ GoOnWith(w, batch[w] \ {d})
    /\ UNCHANGED <<clock, rowVars, attemptVars, lastContact, switchVars>>

OptOut(c) ==
    /\ clock <= LastSwitch
    /\ consent[c]
    /\ consent' = [consent EXCEPT ![c] = FALSE]
    /\ UNCHANGED <<clock, rowVars, attemptVars, lastContact, enabled, workerVars,
                   historyVars>>

\* launch_recovery turns recovery on, an operator turns it off.
SwitchRecovery ==
    /\ clock <= LastSwitch
    /\ enabled' = ~enabled
    /\ UNCHANGED <<clock, rowVars, attemptVars, lastContact, consent, workerVars,
                   historyVars>>

Tick ==
    /\ clock < MaxTime
    /\ clock' = clock + 1
    /\ UNCHANGED <<rowVars, attemptVars, lastContact, switchVars, workerVars,
                   historyVars>>

-----------------------------------------------------------------------------
ProcessOne(w) ==
    \/ \E d \in Dispatches :
          \/ Skip(w, d) \/ Recover(w, d) \/ Expire(w, d)
          \/ Suppress(w, d) \/ Defer(w, d) \/ CallProvider(w, d)
    \/ ProviderAccepts(w)
    \/ \E permanent, misreported \in BOOLEAN : ProviderFails(w, permanent, misreported)
    \/ RecordId(w)
    \/ CommitSent(w)

\* Everything but the passing of time.
QueueNext ==
    \/ \E d \in Dispatches : Enqueue(d)
    \/ \E w \in Workers : Claim(w) \/ ProcessOne(w) \/ Crash(w) \/ ProcessError(w)
    \/ \E c \in Contacts : OptOut(c)
    \/ SwitchRecovery

Next == QueueNext \/ Tick

\* A worker may take longer over its batch than the lease it took out.
Spec == Init /\ [][Next]_vars

\* Every live worker gets through its batch before its leases run out.  The
\* code does not enforce this: LOCK_TIMEOUT covers a whole batch of calls.
WithinLease == \A w \in Workers : \A d \in Held(w) : clock <= lockedUntil[d]

\* Time passes no lease of a live worker.
PromptTick == Tick /\ WithinLease'

PromptNext == QueueNext \/ PromptTick

PromptSpec == Init /\ [][PromptNext]_vars

\* run_forever polls, a provider call ends (smtplib and the Twilio client time
\* out), and time passes.  Nothing makes a fault or a switch happen.
Fairness ==
    /\ \A w \in Workers : WF_vars(Claim(w)) /\ WF_vars(ProcessOne(w))
    /\ WF_vars(PromptTick)

FairSpec == PromptSpec /\ Fairness
-----------------------------------------------------------------------------
(* Properties.  Those marked (prompt) hold of PromptSpec only: a worker    *)
(* that outlives its lease breaks them.                                    *)

\* (prompt) SKIP LOCKED and the lease together keep a row in one worker's hands,
\* in whatever order workers claim, crash, err and reclaim (_claim_batch).
OneHolder ==
    \A v, w \in Workers : v # w => Held(v) \cap Held(w) = {}

\* The provider's acceptance of d is in the database, or on its way there in
\* the hands of a live worker.
Traced(d) ==
    \/ messageId[d] \/ status[d] = "SENT"
    \/ \E w \in Workers : cur[w] = d /\ phase[w] \in {"accepted", "recorded"}

\* (prompt) Every message a provider accepted is either the one the row keeps a
\* trace of or one whose trace a fault destroyed: the two-commit protocol never
\* sends twice on its own, and a crash after the id is committed costs nothing
\* (the provider_message_id guard of _process_one).
SendsAccountedFor ==
    \A d \in Dispatches : sends[d] = lost[d] + (IF Traced(d) THEN 1 ELSE 0)

\* (prompt) The row and the attempt it closes tell the same story, across crashes
\* and reclaims: sent exactly when executed, dropped exactly when the attempt
\* carries a suppressed_reason (_finalize_attempt in the row's own commit).
BooksAgree ==
    \A d \in Dispatches :
        /\ status[d] = "SENT" <=> executedAt[d] # Never
        /\ status[d] \in Dropped <=> reason[d] # NoReason

\* (prompt) A closed row is never reopened or closed differently, though
\* _process_one neither locks the row nor checks that it still holds the lease.
ClosedIsFinal ==
    [][\A d \in Dispatches : status[d] \in Terminal => status'[d] = status[d]]_vars

\* (prompt) max_sends_per_hour is checked before the call and counted after it, so
\* every other worker can be one message past the check, and a row a crash left to
\* Recover is closed without the check; the excess is never more than that.
RateExcessBounded ==
    SentThisHour <= MaxSendsPerHour + Cardinality(Workers) - 1 + faults

\* The same for H7, max_contacts_per_week, even when workers outlive their leases:
\* executed_at, unlike the status that max_sends_per_hour counts, is never undone.
ContactExcessBounded ==
    \A c \in Customers :
        ContactsThisWeek(c) <= WeeklyCap + Cardinality(Workers) - 1 + faults

\* Even when workers outlive their leases, a row whose provider returns an id is
\* sent at most once per worker plus the traces lost: the committed id stops
\* every later pass, so only calls already under way can repeat it.
RepeatsBounded ==
    \A d \in ReturnsId : sends[d] <= Cardinality(Workers) + lost[d]

\* No row is booked as sent that no provider accepted, whoever committed last.
SentWasAccepted ==
    \A d \in Dispatches : status[d] = "SENT" \/ executedAt[d] # Never => sends[d] >= 1

\* Nothing is left in the queue: expires_at ends every retry, deferral, crash
\* and exception loop a row can be in.
EveryRowCloses ==
    \A d \in Dispatches : status[d] = "PENDING" ~> status[d] \in Terminal

-----------------------------------------------------------------------------
(* The inductive invariant behind the (prompt) properties.                 *)

\* A worker's variables fit its place in _process_one.
PhaseShape ==
    \A w \in Workers :
        /\ phase[w] = "idle" => batch[w] = {}
        /\ ~seenPending[w]
        /\ phase[w] \in {"idle", "ready"} => cur[w] = NoDispatch
        /\ phase[w] \in {"calling", "accepted", "recorded"} =>
              cur[w] \in Dispatches \ batch[w] /\ seenAt[w] # Never

\* A row in a worker's hands is IN_FLIGHT: no one else has touched it.
HeldInFlight == \A w \in Workers : \A d \in Held(w) : status[d] = "IN_FLIGHT"

\* The id is on the row exactly from RecordId on.
IdMatchesPhase ==
    \A w \in Workers :
        /\ phase[w] \in {"calling", "accepted"} => ~messageId[cur[w]]
        /\ phase[w] = "recorded" => messageId[cur[w]]

LeaseInv ==
    /\ PhaseShape
    /\ OneHolder
    /\ HeldInFlight
    /\ WithinLease
    /\ IdMatchesPhase
    /\ SendsAccountedFor
    /\ BooksAgree

-----------------------------------------------------------------------------
(* The queue implements the outbox it is meant to be.                      *)
OutcomeOf(d) ==
    CASE status[d] = "ABSENT" -> "absent"
      [] status[d] \in Open -> "queued"
      [] status[d] = "SENT" -> "delivered"
      [] OTHER -> "dropped"

Ledger == INSTANCE Outbox WITH
    Messages <- Dispatches,
    outcome <- [d \in Dispatches |-> OutcomeOf(d)],
    accepted <- sends,
    forgotten <- lost

\* (prompt) Workers, leases, retries, deferrals and crashes together behave as the
\* outbox: every step is one step of it or leaves it alone.
ImplementsOutbox == Ledger!OutboxSpec

\* (prompt) What a row says became of its message is what did: no row is dropped,
\* expired or given up while the provider's acceptance is on the books, and none is
\* SENT without exactly one (the order of the checks in _process_one: the id first).
HonestOutcomes == Ledger!OutcomeIsHonest
=============================================================================
