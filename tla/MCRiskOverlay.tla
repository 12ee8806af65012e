--------------------------- MODULE MCRiskOverlay ---------------------------
(* An instance of RiskOverlay for TLC: two accounts and two pairs that      *)
(* share a currency.  With a concentration limit of one, either account can *)
(* trade between the reads of a round that blocks what the other holds.     *)
EXTENDS RiskOverlay

EurUsd   == [base |-> "EUR", quote |-> "USD"]
GbpUsd   == [base |-> "GBP", quote |-> "USD"]
TwoPairs == {EurUsd, GbpUsd}
Desks    == [a \in {1, 2} |-> {EurUsd}]

\* The account that reads no overlay is long when the manager starts.
OneLong == {[AllEmpty EXCEPT ![2][EurUsd] = 1]}

\* The share of one trade of notional 1 is 2.94, 3.03 or 3.13 percent: over a cap of
\* 3 it is only the last one that is not rounded to the cap.
Caps    == [c \in Currencies |-> 3]
=============================================================================
