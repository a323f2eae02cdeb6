------------------------------ MODULE LossLife ------------------------------
(***************************************************************************)
(* What the ledger promises about the life of a loss, with no entities,    *)
(* payments, windows, messages or transactions.  A loss is opened once; it *)
(* is closed at once when it is paid before anybody decided on it, and     *)
(* otherwise decided on, taken up and acted on until it is concluded once, *)
(* with an outcome that goes with its stage.  It is given up for lost only *)
(* after it was acted on, and after as many decisions as there are tries.  *)
(* A case two work on at a time may be torn: the promise is then weaker.   *)
(***************************************************************************)
EXTENDS Naturals

CONSTANTS Cases,
          Workers,
          Tries    \* how often a case is acted on before it is given up

VARIABLES life,    \* how far each case has come
          torn     \* the workers and cases where one works from a reading out of date

NoOutcome == "no outcome"

As(stage, outcome, decisions, acted) ==
    [stage |-> stage, outcome |-> outcome, decisions |-> decisions, acted |-> acted]

LifeInit ==
    /\ life = [c \in Cases |-> As("ABSENT", NoOutcome, 0, FALSE)]
    /\ torn = {}

\* The moves of one case, from what it was to what it is.
Detected(was, is) ==
    /\ was.stage = "ABSENT"
    /\ is = As("OPEN", was.outcome, was.decisions, was.acted)

PaidUnasked(was, is) ==
    /\ was.stage = "OPEN" /\ was.decisions = 0
    /\ is = As("RECOVERED", was.outcome, 0, was.acted)

\* The decision is not to act, for now or for good.
Refused(was, is) ==
    /\ was.stage = "OPEN"
    /\ \E stage \in {"OPEN", "SUPPRESSED"} :
          is = As(stage, was.outcome, was.decisions + 1, was.acted)

\* The decision is to act: now, or with a message that is yet to leave.
TakenUp(was, is) ==
    /\ was.stage = "OPEN" /\ ~was.acted
    /\ \E acted \in BOOLEAN :
          is = As("IN_RECOVERY", was.outcome, was.decisions + 1, acted)

TriedAgain(was, is) ==
    /\ was.stage = "IN_RECOVERY" /\ was.acted
    /\ is = As(was.stage, was.outcome, was.decisions + 1, TRUE)

\* A message leaves, which it may do after the case was concluded.
ActedOn(was, is) ==
    /\ was.stage \in {"IN_RECOVERY", "RECOVERED", "EXPIRED", "LOST"}
    /\ was.decisions > 0
    /\ is = As(was.stage, was.outcome, was.decisions, TRUE)

\* A case is recovered or its time is over, whether it was acted on or not.
Concluded(was, is) ==
    /\ was.stage \in {"OPEN", "IN_RECOVERY"} /\ was.decisions > 0
    /\ was.outcome = NoOutcome
    /\ \E end \in {"RECOVERED", "EXPIRED"} :
          is = As(end, end, was.decisions, was.acted)

GivenUp(was, is) ==
    /\ was.stage = "IN_RECOVERY" /\ was.acted /\ was.decisions >= Tries
    /\ was.outcome = NoOutcome
    /\ is = As("LOST", "NOT_RECOVERED", was.decisions, TRUE)

Moves(was, is) ==
    \/ Detected(was, is) \/ PaidUnasked(was, is)
    \/ Refused(was, is) \/ TakenUp(was, is) \/ TriedAgain(was, is)
    \/ ActedOn(was, is) \/ Concluded(was, is) \/ GivenUp(was, is)

\* A torn case is written by one who knows an earlier stage of it.  It may come to any stage
\* that goes without an outcome, but it is not opened again; the outcome it has stays,
\* one that it gets goes with its stage, and nothing that was decided or done is forgotten.
Overwritten(was, is) ==
    /\ was.stage # "ABSENT"
    /\ \/ /\ is.outcome = was.outcome
          /\ is.stage \in {was.stage, "IN_RECOVERY", "SUPPRESSED", "RECOVERED"}
       \/ /\ was.outcome = NoOutcome
          /\ <<is.stage, is.outcome>> \in {<<"RECOVERED", "RECOVERED">>,
                                          <<"EXPIRED", "EXPIRED">>,
                                          <<"LOST", "NOT_RECOVERED">>}
    /\ is.decisions \in {was.decisions, was.decisions + 1}
    /\ was.acted => is.acted

\* A step moves any number of cases, each by one move.  A worker's reading is out of date
\* only when the case has moved meanwhile, and the worker overwrites the case at most once.
LifeNext ==
    /\ DOMAIN life' = Cases
    /\ \A c \in Cases :
          \/ life'[c] = life[c] \/ Moves(life[c], life'[c])
          \/ /\ \E w \in Workers : <<w, c>> \in torn \ torn'
             /\ Overwritten(life[c], life'[c])
    /\ torn' \subseteq torn \cup (Workers \X {c \in Cases : life'[c] # life[c]})

LifeSpec == LifeInit /\ [][LifeNext]_<<life, torn>>
=============================================================================
