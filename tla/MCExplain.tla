------------------------------ MODULE MCExplain ------------------------------
(* Constants for model-checking Scoring and Explain.                       *)
EXTENDS Explain

CONSTANTS pay, inv1, inv2, k1, k2, v1, v2

\* The invoices are of one customer, the payment of another.
TwoCustomers == [e \in Entities |-> IF e = pay /\ k1 \in Customers THEN k1 ELSE k2]
Amounts == [e \in Entities |-> 700]
\* A booster that tells apart what the baseline does not.
SomeTrees(f) == IF f = NoFeatures THEN 7 ELSE 10 * f.nPrior + f.contacts - 1000 * f.nLate

Alike == Permutations(Viewers)

\* Rows of a small history, of either type.
FeatureRows ==
    [customerType : {"B2C", "B2B"}, nPrior : 0..2, nResolved : {2}, nRecovered : 0..1,
     sinceSuccess : {{}}, contacts : 0..3, isPayment : BOOLEAN, daysOverdue : 0..2,
     nLate : 0..1, nInvoices : {2}]

\* The hand-set weights order losses as they are meant to: a customer who recovered more
\* often is never scored lower, one more contact, a late invoice or a day overdue never
\* raises the score, and no score leaves the middle of the logistic.
ASSUME BaselineOrders ==
    LET Z(f) == Total(Terms(f)) IN
    \A f \in FeatureRows :
        /\ Z(f) \in -3000..1500
        /\ Z([f EXCEPT !.nRecovered = @ + 1]) >= Z(f)
        /\ Z([f EXCEPT !.contacts = @ + 1]) <= Z(f)
        /\ Z([f EXCEPT !.nLate = @ + 1]) <= Z(f)
        /\ Z([f EXCEPT !.daysOverdue = @ + 1]) <= Z(f)
=============================================================================
