------------------------------ MODULE TwoDesks ------------------------------
(***************************************************************************)
(* fx-sma-stack-live (account 010) and fx-sma-fade-live (account 001) of   *)
(* docker-compose.yml: two containers of the same main.py, each with its   *)
(* own OANDA account, writing to the one trades table on the fx-db volume. *)
(* OANDA numbers the trades of each account on its own.                    *)
(***************************************************************************)
EXTENDS Integers, Sequences, FiniteSets

CONSTANTS PairSeq, PsarPairs, Faults, MaxBars, MaxTries, ReVerify,
          MaxBad, MaxLost, MaxTrades, MaxCrashes

VARIABLES ledger,
          trades, inflight, bad, st, pc, cur, left, n, want, crashes,
          tradesF, inflightF, badF, stF, pcF, curF, leftF, nF, wantF, crashesF

stackVars == <<trades, inflight, bad, st, pc, cur, left, n, want, crashes>>
fadeVars  == <<tradesF, inflightF, badF, stF, pcF, curF, leftF, nF, wantF, crashesF>>

Stack == INSTANCE StackDesk WITH Account <- "acct010"

\* EXIT_PROFILE=fade: every pair exits by its broker-side bracket.
Fade == INSTANCE StackDesk WITH
            Account <- "acct001", PsarPairs <- {}, trades <- tradesF, inflight <- inflightF,
            bad <- badF, st <- stF, pc <- pcF, cur <- curF, left <- leftF,
            n <- nF, want <- wantF, crashes <- crashesF

Init == Stack!Init /\ Fade!Init

Next == \/ Stack!Next /\ UNCHANGED fadeVars
        \/ Fade!Next /\ UNCHANGED stackVars

Spec == Init /\ [][Next]_<<stackVars, fadeVars, ledger>>

-----------------------------------------------------------------------------
\* As the comment on the row's trade_id has it, the account prefix keeps the same
\* short id of another account from colliding: with nothing failing, every trade
\* either account closes is still being reconciled or has its own row.
BothAccountsRecorded == Stack!NothingUnrecorded /\ Fade!NothingUnrecorded
=============================================================================
