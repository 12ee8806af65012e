---------------------------- MODULE MCSharedTable ----------------------------
(* One pair of account 010, and a trade of account 001 of the same short id *)
(* as its first.                                                            *)
EXTENDS SharedTable

OnePair   == <<"EUR_USD">>
EurUsd    == {"EUR_USD"}
AllFaults == {"db", "details", "candles", "shrink"}

FadeRows == {[trade_id |-> <<"010", 1>>, account |-> "acct001", trade |-> 1,
              entry_px |-> 1, entry_time |-> 1, reason |-> "closed_broker"]}
=============================================================================
