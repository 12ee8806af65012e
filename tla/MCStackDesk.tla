---------------------------- MODULE MCStackDesk ----------------------------
(* Instances of StackDesk for TLC: one or two pairs of CONFIGS.            *)
EXTENDS StackDesk

OnePair  == <<"EUR_USD">>
TwoPairs == <<"EUR_JPY", "EUR_USD">>
NoPairs  == {}
EurUsd   == {"EUR_USD"}
NoFaults  == {}
OutageFaults == {"db", "details", "shrink"}
=============================================================================
