------------------------------- MODULE Explain -------------------------------
(***************************************************************************)
(* The narratives of app/explain.py: the evidence bundle of a loss, the    *)
(* model that is asked to put it in words, the check of the numbers it     *)
(* states, the template it falls back to, and the table the narratives are *)
(* kept in, which every later view is served from.  The other scopes go    *)
(* the same way with bundles of their own.                                 *)
(*                                                                         *)
(* A viewer that finds nothing stored reads its bundle, asks the model,    *)
(* which takes long and may fail, and stores what came of it; the ledger,  *)
(* the scores and other viewers go on meanwhile.  A number is the string   *)
(* it is written as.                                                       *)
(***************************************************************************)
EXTENDS Scoring, TLC

CONSTANTS
    Viewers,        \* requests and dashboards that ask for an explanation
    AmountOf,       \* [entity -> what is at risk]
    Asked,          \* bound: the subjects anyone asks about
    FirstAsk,       \* bound: nobody asks before this time
    NumericLabel    \* the entities whose id or invoice number reads as a number

ASSUME ExplainConstantsOK == IsFiniteSet(Viewers)

VARIABLES
    explanations,   \* recovery_explanations rows of a subject, oldest first
    asking          \* a viewer that waits for the model: its subject and what
                    \* its bundle lets be written

explainVars == <<explanations, asking>>
vars == <<scoreVars, explainVars>>

\* The scope AT_RISK: one subject per loss.
Subjects == Asked \cap Entities
NotAsking == [subject |-> "nothing"]
NoText == {"no text"}
Invented == "invented"
LabelOf(e) == IF e \in NumericLabel THEN {"label"} ELSE {}

ExplainInit ==
    /\ ScoringInit
    /\ explanations = [s \in Subjects |-> <<>>]
    /\ asking = [v \in Viewers |-> NotAsking]

-----------------------------------------------------------------------------
(* Evidence.                                                               *)

Magnitude(x) == IF x < 0 THEN -x ELSE x

\* port.explain_score, for the stored features under the model of now: what is cited of
\* a factor is its contribution.
Factors(e, works) ==
    IF profile[e] = Unscored \/ model = "off" THEN {}
    ELSE IF model = "xgboost" /\ works
    THEN {Booster(profile[e].features)}
    ELSE LET terms == Terms(profile[e].features) IN {terms[n] : n \in DOMAIN terms}

\* Mutant: a factor is allowed with its sign only.
AllowedSigned(factors, magnitudes) == factors

\* A factor may be cited with its sign or in words and as a magnitude.
AllowedFactors(factors, magnitudes) == factors \cup magnitudes

\* One attempt is made per loss here.
AttemptCount(e) == IF contactedAt[e] = Never THEN 0 ELSE 1

Largest(S) == {x \in S : \A y \in S : y <= x}
Written(S) == {ToString(x) : x \in S}

\* build_at_risk_evidence with _score_explanation and _entity_label: what the template
\* says in numbers, and verifiable_numbers.  What is recovered is what was at risk, and a
\* likelihood is written as its score.
LossEvidence(e, works) ==
    LET factors == Factors(e, works)
        magnitudes == {Magnitude(f) : f \in factors}
        score == {profile[e].score : f \in factors}
        facts == {AmountOf[e], AttemptCount(e)}
    IN
    [subject |-> e, label |-> LabelOf(e), facts |-> Written(facts), score |-> Written(score),
     top |-> Written(Largest(magnitudes)),
     numbers |-> Written(facts \cup 1..AttemptCount(e) \cup score
                               \cup AllowedFactors(factors, magnitudes))]

-----------------------------------------------------------------------------
(* Narratives.  Of a text only its strays count: the numbers it states that*)
(* are not in its bundle (_number_tokens, unverified_spans).               *)

\* _template_narrative; no more than the largest factor is told.
Template(bundle) == bundle.label \cup bundle.facts \cup bundle.score \cup bundle.top

\* What a bundle lets be written about it.
Material(bundle) == [subject |-> bundle.subject,
                     template |-> Template(bundle) \ bundle.numbers,
                     named |-> bundle.label \ bundle.numbers]

\* verify_numbers
Verified(strays) == strays = {}

\* What the model may write: what it was told to, the loss's name as well, or a number
\* of its own; without a key, and when the call fails, nothing.
ModelTexts(material) == {NoText, {}, material.named, {Invented}}

\* Mutant: the model's text is shown and flagged.
RenderAnyText(material, text) ==
    IF text # NoText THEN [by |-> "model", verified |-> Verified(text), strays |-> text]
    ELSE [by |-> "template", verified |-> Verified(material.template),
          strays |-> material.template]

\* render_narrative
RenderNarrative(material, text) ==
    IF text # NoText /\ Verified(text)
    THEN [by |-> "model", verified |-> TRUE, strays |-> text]
    ELSE [by |-> "template", verified |-> Verified(material.template),
          strays |-> material.template]

-----------------------------------------------------------------------------
(* explain(), the cache-through entry point, as its callers use it: none of*)
(* them forces a text over a stored one.                                   *)

\* Mutant: what is stored is not looked for.
NothingStored(s) == TRUE

\* The lookup finds no row.
Missing(s) == explanations[s] = <<>>

Ask(v, s, works) ==
    /\ clock >= FirstAsk
    /\ asking[v] = NotAsking
    /\ Missing(s)
    /\ status[s] # "NONE"
    /\ asking' = [asking EXCEPT ![v] = Material(LossEvidence(s, works))]
    /\ UNCHANGED <<scoreVars, explanations>>

\* The model has answered; the row is flushed and the caller commits.
Store(v) ==
    /\ asking[v] # NotAsking
    /\ \E text \in ModelTexts(asking[v]) :
          explanations' = [explanations EXCEPT ![asking[v].subject] =
                              Append(@, RenderNarrative(asking[v], text))]
    /\ asking' = [asking EXCEPT ![v] = NotAsking]
    /\ UNCHANGED scoreVars

\* The request dies while the model is asked: nothing was written.
Abandon(v) ==
    /\ asking[v] # NotAsking
    /\ asking' = [asking EXCEPT ![v] = NotAsking]
    /\ UNCHANGED <<scoreVars, explanations>>

Next ==
    \/ ScoringNext /\ UNCHANGED explainVars
    \/ \E v \in Viewers, s \in Subjects, works \in BOOLEAN : Ask(v, s, works)
    \/ \E v \in Viewers : Store(v) \/ Abandon(v)

Spec == ExplainInit /\ [][Next]_vars

-----------------------------------------------------------------------------
(* Properties.                                                             *)

\* explain.py:5-7: a narrative is "stored once; it is never regenerated at view time, so
\* what a viewer sees today matches what got verified".  Viewers that ask at once store one
\* each, and that is all there will ever be, though the lookup and the insert are not one
\* step and no index forbids a second row.
NarrativesBounded ==
    \A s \in Subjects :
        Len(explanations[s]) + Cardinality({v \in Viewers : /\ asking[v] # NotAsking
                                                            /\ asking[v].subject = s})
            <= Cardinality(Viewers)

\* explain.py:9-18: what the model wrote is shown only when each of its numbers is in its
\* bundle.  The template takes over, and passes its own check: a row is flagged only when
\* the loss's own name reads as a number (_entity_label, _number_tokens).
FlaggedOnlyByName ==
    \A s \in Subjects : \A n \in DOMAIN explanations[s] :
        LET row == explanations[s][n] IN
        /\ row.verified <=> row.strays = {}
        /\ row.by = "model" => row.strays = {}
        /\ row.by = "template" => row.strays \subseteq LabelOf(s)
=============================================================================
