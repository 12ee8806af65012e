----------------------------- MODULE MCTwoDesks -----------------------------
(* The two containers on one pair, nothing failing.                        *)
EXTENDS TwoDesks

OnePair  == <<"EUR_USD">>
EurUsd   == {"EUR_USD"}
NoFaults == {}
=============================================================================
