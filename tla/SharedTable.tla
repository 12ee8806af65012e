----------------------------- MODULE SharedTable -----------------------------
(***************************************************************************)
(* A container of strategy_sma_stack_live among the others that            *)
(* docker-compose.yml starts and that write to the trades table of the     *)
(* fx-db volume.  None has its account: the other services configured for  *)
(* it have the profile "off".  They share nothing else with it.            *)
(***************************************************************************)
EXTENDS StackDesk

CONSTANT OtherRows     (* the rows the other containers may write *)

ASSUME OthersAssumption == \A r \in OtherRows : r.account # Account

\* Another container records one of its closes, under whatever trade_id.
OthersWrite ==
    /\ \E row \in OtherRows : ledger' = Insert(row)
    /\ UNCHANGED <<brokerVars, deskVars, crashes>>

SharedNext == Next \/ OthersWrite

SharedSpec == Init /\ [][SharedNext]_vars
-----------------------------------------------------------------------------
\* With its own rows for a table, the container cannot tell that there are others: that
\* another's trade_id keeps one of its rows out is, to it, a write that failed.
Alone == INSTANCE StackDesk WITH
             ledger <- OwnRows,
             Faults <- Faults \cup {"db"}

AloneInTable == Alone!Spec
=============================================================================
